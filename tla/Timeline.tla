------------------------------ MODULE Timeline ------------------------------
(***************************************************************************)
(* What the debugger promises.  The execution of a program is one line of  *)
(* machines, each one step of the program behind its predecessor, and the  *)
(* user moves along it in both directions.  A position that is visited     *)
(* again shows the machine it showed before, to the last bit of its stack  *)
(* and memory, and a step that has been made can be made in the other      *)
(* direction.                                                              *)
(*                                                                         *)
(* Machines are kept the way they look when the program goes forward along *)
(* the line: vm is the machine at the current position, seen that way.     *)
(* The debugger has to deliver it turned round when the user faces back.   *)
(***************************************************************************)
EXTENDS Machine

VARIABLES
  at,           \* the position, counted from the start of the program
  heading,      \* 1 or -1, the direction the user faces
  tape,         \* the machines at the positions visited so far
  request,      \* what the user has asked for
  breakpoints   \* the breakpoints

timelineVars == <<vars, at, heading, tape, request, breakpoints>>

(* The user is asked, or wants to be at a position, or runs.  A run that   *)
(* sets out from a breakpoint does not stop at it again.                   *)
Asking         == [kind |-> "ask"]
Goal(position) == [kind |-> "goal", position |-> position]
Running(fresh) == [kind |-> "run", fresh |-> fresh]

FacingBy(s, direction) == IF direction = 1 THEN s ELSE invert_vm_direction(s)

Seen == FacingBy(vm, heading)

Arrived ==
  \/ request = Goal(at)
  \/ request = Running(FALSE) /\ Seen.pc \in breakpoints

Ask ==
  /\ looping /\ Arrived
  /\ request' = Asking
  /\ UNCHANGED <<vars, at, heading, tape, breakpoints>>

-----------------------------------------------------------------------------
(* The user's requests. *)
Answers == looping /\ request = Asking /\ UNCHANGED <<program, at, tape>>

(* n instructions ahead, or back; never less than one. *)
Walk(n) ==
  LET distance == IF n = 0 THEN 1 ELSE Magnitude(n)
  IN  /\ Answers
      /\ heading' = IF n < 0 THEN -heading ELSE heading
      /\ request' = Goal(at + heading' * distance)
      /\ UNCHANGED <<vm, looping, breakpoints>>

RunOn ==
  /\ Answers
  /\ request' = Running(Seen.pc \in breakpoints)
  /\ UNCHANGED <<vm, looping, heading, breakpoints>>

Turn ==
  /\ Answers
  /\ heading' = -heading
  /\ UNCHANGED <<vm, looping, request, breakpoints>>

SetBreakpoints ==
  /\ Answers
  /\ UNCHANGED <<vm, looping, heading, request>>

(* The session ends, or is broken off by a line with no defined meaning.   *)
Leave ==
  /\ Answers
  /\ looping' = FALSE
  /\ vm' \in {vm, Throw(vm, "undefined")}
  /\ UNCHANGED <<heading, request, breakpoints>>

-----------------------------------------------------------------------------
(* The only steps that cannot be made again: a popl onto the slot it pops. *)
PopsItself(s) == Fetches(s) /\ PopsOntoItself(s)

(* The machine a step leads to: the one that is known, or one that the     *)
(* program makes of this one, or one that the program makes this one of.   *)
Connected ==
  IF at' \in DOMAIN tape
  THEN vm' = tape[at'] /\ tape' = tape
  ELSE /\ \/ heading = 1  /\ step(vm, vm')
          \/ heading = -1 /\ (step(vm', vm) \/ PopsItself(Seen))
       /\ tape' = [p \in DOMAIN tape \cup {at'} |-> IF p = at' THEN vm' ELSE tape[p]]

(* One instruction on; where the machine stops the session ends.           *)
Move ==
  /\ looping /\ request # Asking /\ ~Arrived
  /\ at' = at + heading
  /\ Connected
  /\ vm'.fault = "none"
  /\ looping' = vm'.running
  /\ request' = IF request.kind = "run" THEN Running(FALSE) ELSE request
  /\ UNCHANGED <<program, heading, breakpoints>>

(* An instruction throws: not one that has been executed before, and none  *)
(* that has been undone.                                                   *)
Fail ==
  /\ looping /\ request # Asking /\ ~Arrived
  /\ at + heading \in DOMAIN tape =>
       PopsItself(FacingBy(tape[at + heading], -heading))
  /\ \E fault \in Faults : vm' = Throw(vm, fault)
  /\ looping' = FALSE
  /\ UNCHANGED <<program, at, heading, tape, request, breakpoints>>

TimelineInit ==
  /\ Init
  /\ at = 0
  /\ heading = 1
  /\ tape = [p \in {0} |-> vm]
  /\ request = Goal(0)
  /\ breakpoints = {}

TimelineNext ==
  \/ Ask
  \/ (\E n \in Word : Walk(n))
  \/ RunOn
  \/ Turn
  \/ SetBreakpoints
  \/ Leave
  \/ Move
  \/ Fail

TimelineSpec == TimelineInit /\ [][TimelineNext]_timelineVars
=============================================================================
