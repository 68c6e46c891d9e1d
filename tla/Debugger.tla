------------------------------ MODULE Debugger ------------------------------
(***************************************************************************)
(* run_with_debugger: the loop that executes the machine one instruction   *)
(* at a time and hands it to the user in between, and the commands the     *)
(* user has.                                                               *)
(*                                                                         *)
(* thread is the position of the only thread: at the top of the do/while   *)
(* loop, waiting for a line in interact_with_user, or about to execute an  *)
(* instruction.  A line is a record of the command's name and its          *)
(* arguments; a number is a sequence of one integer, and the empty         *)
(* sequence stands for a text std::stoi rejects.                           *)
(***************************************************************************)
EXTENDS Machine, Functions

CONSTANT Lines   \* the lines the user may type, the empty one apart

Commands == { "info", "step", "run", "breakpoint", "clear", "list", "inspect",
              "set", "invert", "quit", "help", "unknown", "blank" }

(* What std::stoi makes of a text, and the components a text may name.     *)
Rejected  == <<>>
Number    == { <<n>> : n \in Word } \cup {Rejected}
Component == [ name : {"sp", "fp", "br", "pc", "S", "M", "P", "none"}, address : Word ]

Arguments(command) ==
  CASE command = "inspect" -> Component
    [] command = "set"     -> [component : Component, value : Number]
    [] OTHER               -> Number

ASSUME LinesAssumption ==
  \A l \in Lines : l.command \in Commands /\ l.args \in Seq(Arguments(l.command))

VARIABLES
  thread,            \* where the loop is
  breakpoints,       \* state.breakpoints
  remaining_steps,   \* state.remaining_steps, an unsigned number
  continue_running,  \* state.continue_running
  last_input         \* state.last_input

debugger_state == <<breakpoints, remaining_steps, continue_running>>
debuggerVars   == <<vars, thread, debugger_state, last_input>>

noInput == [command |-> "none", args |-> <<>>]

-----------------------------------------------------------------------------
(* The loop. *)
requires_user_interaction ==
  IF continue_running THEN vm.pc \in breakpoints ELSE remaining_steps = 0

Leaves(s) == vm' = s /\ looping' = FALSE /\ UNCHANGED <<program, thread, debugger_state>>

(* print_machine_state shows the frame, or the topmost elements of the     *)
(* stack outside a frame; the slots are read without a check.              *)
PrintedElements == 10

PrintedSlots(s) ==
  LET lower_bound == IF s.fp > 0 THEN s.fp
                     ELSE IF s.sp > PrintedElements THEN s.sp - PrintedElements
                     ELSE 0
  IN  lower_bound .. (s.sp - 1)

(* A read outside the stack may have any value, or end the process. *)
print_machine_state(A) ==
  \/ A
  \/ ~(PrintedSlots(vm) \subseteq Slots) /\ Leaves(Throw(vm, "undefined"))

(* Mutant: a stop at a breakpoint does not end the mode of run. *)
CheckKeepsRunning ==
  /\ looping /\ thread = "loop"
  /\ thread' = IF requires_user_interaction THEN "prompt" ELSE "step"
  /\ UNCHANGED <<vars, debugger_state, last_input>>

Check ==
  /\ looping /\ thread = "loop"
  /\ UNCHANGED last_input
  /\ IF requires_user_interaction
     THEN print_machine_state(
            /\ thread' = "prompt"
            /\ continue_running' = FALSE
            /\ UNCHANGED <<vars, breakpoints, remaining_steps>>)
     ELSE thread' = "step" /\ UNCHANGED <<vars, debugger_state>>

step_debugger_state(s, n) == IF n > 0 THEN n - 1 ELSE n

(* vm.step, then the bookkeeping, which an exception skips.                *)
Step ==
  /\ looping /\ thread = "step"
  /\ step(vm, vm')
  /\ looping' = (vm'.fault = "none" /\ vm'.running)
  /\ IF vm'.fault = "none"
     THEN /\ thread' = "loop"
          /\ remaining_steps' = step_debugger_state(vm', remaining_steps)
     ELSE UNCHANGED <<thread, remaining_steps>>
  /\ UNCHANGED <<program, breakpoints, continue_running, last_input>>

-----------------------------------------------------------------------------
(***************************************************************************)
(* The prompt.  An empty line stands for the last one, if there is any.    *)
(***************************************************************************)
Reads(l) ==
  /\ looping /\ thread = "prompt"
  /\ l \in Lines \/ l = last_input
  /\ last_input' = l

Prompts   == UNCHANGED <<looping, thread>>
Continues == thread' = "step" /\ UNCHANGED looping

(* stoi of the first argument; without one, or if it is rejected, 1.       *)
Steps(args) ==
  IF args = <<>> \/ args[1] = Rejected THEN 1 ELSE args[1][1]

Unsigned32(n) == n % (2 * HalfRange)

(* Mutant: the steps back are not negated. *)
debug_step_signed(l) ==
  LET steps == Steps(l.args)
  IN  /\ l.command = "step"
      /\ vm' = IF steps < 0 THEN invert_vm_direction(vm) ELSE vm
      /\ remaining_steps' = steps
      /\ Continues
      /\ UNCHANGED <<program, breakpoints, continue_running>>

debug_step(l) ==
  LET steps == Steps(l.args)
  IN  /\ l.command = "step"
      /\ vm' = IF steps < 0 THEN invert_vm_direction(vm) ELSE vm
      /\ remaining_steps' = Unsigned32(IF steps < 0 THEN NegW(steps) ELSE steps)
      /\ Continues
      /\ UNCHANGED <<program, breakpoints, continue_running>>

debug_run(l) ==
  /\ l.command = "run"
  /\ continue_running' = TRUE
  /\ Continues
  /\ UNCHANGED <<program, vm, breakpoints, remaining_steps>>

(* Rejected arguments are reported and skipped. *)
Numbers(args) == { a[1] : a \in { a \in Range(args) : a # Rejected } }

debug_breakpoint_create(l) ==
  /\ l.command = "breakpoint"
  /\ breakpoints' = breakpoints \cup Numbers(l.args)
  /\ Prompts
  /\ UNCHANGED <<program, vm, remaining_steps, continue_running>>

debug_breakpoint_clear(l) ==
  /\ l.command = "clear"
  /\ breakpoints' = breakpoints \ Numbers(l.args)
  /\ Prompts
  /\ UNCHANGED <<program, vm, remaining_steps, continue_running>>

debug_invert(l) ==
  /\ l.command = "invert"
  /\ vm' = invert_vm_direction(vm)
  /\ Prompts
  /\ UNCHANGED <<program, debugger_state>>

debug_quit(l) == l.command = "quit" /\ Leaves(vm)

debug_info(l) ==
  /\ l.command = "info"
  /\ print_machine_state(Prompts /\ UNCHANGED <<program, vm, debugger_state>>)

(* What only prints, and a name find_command does not find. *)
Prints(l) ==
  /\ l.command \in {"list", "help", "unknown"}
  /\ Prompts
  /\ UNCHANGED <<program, vm, debugger_state>>

(* A line of blanks is split into no words and its first word is read      *)
(* nevertheless: undefined.                                                *)
Blank(l) == l.command = "blank" /\ Leaves(Throw(vm, "undefined"))

-----------------------------------------------------------------------------
(***************************************************************************)
(* component_from_string: the specifiers of inspect and set.  S[n] is a    *)
(* cell of the memory, M[n] a slot of the stack, P[n] an instruction; the  *)
(* index is not checked.  "none" is a specifier that is refused.           *)
(***************************************************************************)
Outside(c) ==
  CASE c.name = "S" -> c.address \notin Addresses
    [] c.name = "M" -> c.address \notin Slots
    [] c.name = "P" -> c.address \notin 0 .. (Len(program) - 1)
    [] OTHER        -> FALSE

(* A read outside may have any value, or end the process. *)
debug_inspect(l) ==
  /\ l.command = "inspect"
  /\ \/ Prompts /\ UNCHANGED <<program, vm, debugger_state>>
     \/ /\ \E i \in DOMAIN l.args : Outside(l.args[i])
        /\ Leaves(Throw(vm, "undefined"))

(* One pair of set: refused for a program cell, for no component and for   *)
(* no number, and the pairs that follow are assigned nevertheless.         *)
Assign(s, c, value) ==
  IF value = Rejected \/ c.name \in {"P", "none"} \/ s.fault # "none" THEN s
  ELSE IF Outside(c) THEN Throw(s, "undefined")
  ELSE CASE c.name = "sp" -> [s EXCEPT !.sp = value[1]]
         [] c.name = "fp" -> [s EXCEPT !.fp = value[1]]
         [] c.name = "br" -> [s EXCEPT !.br = value[1]]
         [] c.name = "pc" -> [s EXCEPT !.pc = value[1]]
         [] c.name = "S"  -> [s EXCEPT !.memory[c.address] = value[1]]
         [] c.name = "M"  -> [s EXCEPT !.stack[c.address] = value[1]]

Assigned(s, pairs) ==
  LET after[k \in 0 .. Len(pairs)] ==
        IF k = 0 THEN s ELSE Assign(after[k - 1], pairs[k].component, pairs[k].value)
  IN  after[Len(pairs)]

debug_set(l) ==
  LET s == Assigned(vm, l.args)
  IN  /\ l.command = "set"
      /\ IF s.fault = "none"
         THEN vm' = s /\ Prompts /\ UNCHANGED <<program, debugger_state>>
         ELSE Leaves(s)

-----------------------------------------------------------------------------
Command ==
  \E l \in Lines \cup {last_input} :
    /\ Reads(l)
    /\ \/ debug_step(l)
       \/ debug_run(l)
       \/ debug_breakpoint_create(l)
       \/ debug_breakpoint_clear(l)
       \/ debug_invert(l)
       \/ debug_quit(l)
       \/ debug_inspect(l)
       \/ debug_set(l)
       \/ debug_info(l)
       \/ Prints(l)
       \/ Blank(l)

EndOfInput == looping /\ thread = "prompt" /\ Leaves(vm) /\ UNCHANGED last_input

DebuggerInit ==
  /\ Init
  /\ thread = "loop"
  /\ breakpoints = {}
  /\ remaining_steps = 0
  /\ continue_running = FALSE
  /\ last_input = noInput

DebuggerNext == Check \/ Step \/ Command \/ EndOfInput

(* The loop does not wait; the user need not type anything.                *)
DebuggerSpec ==
  DebuggerInit /\ [][DebuggerNext]_debuggerVars /\ WF_debuggerVars(Check \/ Step)

-----------------------------------------------------------------------------
(* Type correctness.  An address the debugger hands over (set pc) and the  *)
(* breakpoints are arbitrary words.                                        *)
DebuggerTypeOK ==
  /\ TypeOK
  /\ thread \in {"loop", "prompt", "step"}
  /\ breakpoints \subseteq Word
  /\ remaining_steps \in 0 .. (2 * HalfRange - 1)
  /\ continue_running \in BOOLEAN
  /\ last_input \in Lines \cup {noInput}

(* Whatever has been typed, set and undefined lines excepted, a command    *)
(* that lets the machine go comes back to the prompt or ends the session:  *)
(* run stops although no breakpoint need be on its way, also backwards,    *)
(* from before the first instruction, and after any number of turns.       *)
CommandsComeBack == (thread = "step") ~> (thread = "prompt" \/ ~looping)
=============================================================================
