--------------------------- MODULE DebuggerHistory ---------------------------
(***************************************************************************)
(* The debugger with history variables: the position its user has reached  *)
(* on the line of machines, the direction the user faces, the machines of  *)
(* the positions visited, and whether set has changed the machine.  With   *)
(* them it is shown to implement Timeline.                                 *)
(***************************************************************************)
EXTENDS Debugger

VARIABLES at, heading, tape, edited

historyVars == <<debuggerVars, at, heading, tape, edited>>

Moved  == thread = "step" /\ vm'.fault = "none"
Turned == thread = "prompt" /\ vm'.dir # vm.dir
Edited == thread = "prompt" /\ last_input'.command = "set"

FacingBy(s, direction) == IF direction = 1 THEN s ELSE invert_vm_direction(s)

(* Once set has been used the history is at an end. *)
Recording ==
  /\ edited' = (edited \/ Edited)
  /\ IF edited' THEN UNCHANGED <<at, heading, tape>>
     ELSE /\ at' = IF Moved THEN at + heading ELSE at
          /\ heading' = IF Turned THEN -heading ELSE heading
          /\ tape' = IF Moved /\ at' \notin DOMAIN tape
                     THEN [ p \in DOMAIN tape \cup {at'} |->
                              IF p = at' THEN FacingBy(vm', heading) ELSE tape[p] ]
                     ELSE tape

HistoryInit ==
  /\ DebuggerInit
  /\ at = 0
  /\ heading = 1
  /\ tape = [p \in {0} |-> vm]
  /\ edited = FALSE

HistoryNext == DebuggerNext /\ Recording

HistorySpec ==
  HistoryInit /\ [][HistoryNext]_historyVars /\ WF_historyVars((Check \/ Step) /\ Recording)

-----------------------------------------------------------------------------
(* The refinement: where the steps that remain lead to, or whether the     *)
(* breakpoint under the next instruction has been stopped at already.      *)
Seen == FacingBy(vm, heading)

Asked   == [kind |-> "ask"]
Runs    == [kind |-> "run", fresh |-> thread = "step" /\ vm.pc \in breakpoints]
Reaches == [ kind     |-> "goal",
             position |-> IF thread = "step" /\ remaining_steps = 0
                          THEN at + heading
                          ELSE at + heading * remaining_steps ]

Request ==
  IF thread = "prompt" THEN Asked ELSE IF continue_running THEN Runs ELSE Reaches

T == INSTANCE Timeline WITH vm <- Seen, request <- Request

(* Whatever the user types, set excepted, the debugger moves along one     *)
(* line of machines: positions visited again are the same again, a step    *)
(* made is a step that can be undone, run stops at the next breakpoint and *)
(* nowhere else, and step n comes to its prompt n instructions further on. *)
ImplementsTimeline == T!TimelineSpec

(* Turning round anywhere, before the first instruction too, and going on  *)
(* from there breaks none of the machine's invariants and reads no slot    *)
(* that does not exist; only set can, a line of blanks and an inspect.     *)
SoundUntilEdited ==
  edited \/ /\ Clean(vm.stack, vm.sp)
            /\ vm.fault = "undefined" => last_input.command \in {"blank", "inspect"}

(* As long as a session lives the user has never seen the same machine at  *)
(* two positions, to the last slot and cell: whatever a program jumps to   *)
(* and wherever it is turned round, it does not repeat itself, and so it   *)
(* runs out of machines, forwards as well as backwards.                    *)
NeverTwice ==
  looping => \A p, q \in DOMAIN tape : tape[p] = tape[q] => p = q
=============================================================================
