----------------------------- MODULE MCHistory ------------------------------
(***************************************************************************)
(* The instances of MCDebugger, with the history of the session.           *)
(***************************************************************************)
EXTENDS MCDebugger, DebuggerHistory
=============================================================================
