---------------------------- MODULE MCCommandLine ----------------------------
(***************************************************************************)
(* Instances of CommandLine for TLC: every command line of up to four      *)
(* arguments.                                                              *)
(***************************************************************************)
EXTENDS CommandLine

Spells(option)       == [option |-> option, digits |-> <<>>, behind |-> "other"]
Text(digits, behind) == [option |-> "none", digits |-> digits, behind |-> behind]

(* A file name, the empty word, numbers with and without a unit, and a     *)
(* bare unit.  Two numbers wrap: in their last digit and by their unit.    *)
Texts == { Text(<<>>, "other"), Text(<<>>, "end"), Text(<<1, 0, 4, 8, 5, 7, 8>>, "end"),
           Text(<<3>>, "k"), Text(<<2>>, "m"), Text(<<5>>, "g"), Text(<<>>, "g") }

Arguments == { Spells(option) : option \in Options \ {"quiet", "information"} } \cup Texts

Short == UNION { [1 .. n -> Arguments] : n \in 0 .. 4 }
=============================================================================
