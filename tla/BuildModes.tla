----------------------------- MODULE BuildModes -----------------------------
(***************************************************************************)
(* The two builds of one machine.  build.sh compiles the checks in;        *)
(* -DUNSAFE_OPERATIONS=ON leaves them out, on the promise that a correct   *)
(* program does not need them.  Checked is Machine as the first build runs *)
(* it, Fast the same source compiled with the macro.                       *)
(***************************************************************************)
EXTENDS Machine

ASSUME CheckedAssumption == UNSAFE_OPERATIONS = FALSE

Fast == INSTANCE Machine WITH UNSAFE_OPERATIONS <- TRUE

(* Failures that are left in the fast build: undefined arithmetic, start   *)
(* and stop out of place.                                                  *)
CommonFaults == {"none", "SIGFPE", "logic_error"}

(* A step the checked build completes is a step of the fast build with the *)
(* same result, and fails in the same way where the arithmetic is at fault *)
(* rather than the stack: the checks only ever refuse, they never repair.  *)
ChecksAreTransparent ==
  [][vm'.fault \in CommonFaults => Fast!step(vm, vm')]_vars
=============================================================================
