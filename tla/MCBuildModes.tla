---------------------------- MODULE MCBuildModes ----------------------------
(***************************************************************************)
(* The instance of BuildModes for TLC: the programs of MCMachine.          *)
(***************************************************************************)
EXTENDS BuildModes, MCMachine
=============================================================================
