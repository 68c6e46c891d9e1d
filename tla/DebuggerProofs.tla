--------------------------- MODULE DebuggerProofs ---------------------------
(***************************************************************************)
(* The debugger keeps the machine of the checked build sound until its     *)
(* user changes the machine with set: for every program, every line typed  *)
(* and every order of commands.  The machine invariant is not enough: the  *)
(* user turns the machine round where no instruction does, before the      *)
(* first instruction too, and the prompt reads slots without a check.      *)
(* The types hold even then, and in the unchecked build.                   *)
(***************************************************************************)
EXTENDS DebuggerHistory, MachineProofs, FiniteSetTheorems

(* Until set is used the machine is sound while the loop lives, and a      *)
(* session that ended in undefined behaviour was ended by such a line.     *)
Intact ==
  /\ program \in Seq(Instruction) /\ Len(program) < HalfRange
  /\ vm \in VM
  /\ Clean(vm.stack, vm.sp)
  /\ looping => vm.fault # "undefined"
  /\ vm.fault = "undefined" => last_input.command \in {"blank", "inspect"}

DInv == edited \/ Intact

(* invert_vm_direction goes back by the distance in br, wherever that is.  *)
LEMMA InvertSound ==
  ASSUME NEW s, Sound(s)
  PROVE  Sound(invert_vm_direction(s))
<1>1. Sound([s EXCEPT !.dir = -@])
  BY RegistersSound
<1> DEFINE u == [s EXCEPT !.dir = -@]
<1>2. u.pc \in Word /\ u.br \in Word /\ 1 \in Word
  BY <1>1, HalfRangeNat DEF Sound, VM, Word
<1>3. Sound(step_pc(u))
  BY <1>1, <1>2, AddWord, SubWord, RegistersSound DEF step_pc
<1> QED BY <1>3 DEF invert_vm_direction

(* The slots shown at the prompt are there as long as the machine is sound. *)
LEMMA PrintedExist ==
  ASSUME NEW s, Sound(s)
  PROVE  PrintedSlots(s) \subseteq Slots
<1>1. s.fp \in Int /\ s.sp \in Nat /\ s.sp <= StackSize /\ StackSize \in Nat
  BY StackPointer, HalfRangeNat DEF Sound, VM, Word
<1> QED BY <1>1 DEF PrintedSlots, PrintedElements, Slots

LEMMA IntactSound ==
  ASSUME Intact, looping
  PROVE  Sound(vm)
BY DEF Intact, Sound

(* A sound machine in the same program is all that the invariant needs.    *)
LEMMA StaysSound ==
  ASSUME Intact, Sound(vm'), UNCHANGED program
  PROVE  Intact'
BY DEF Intact, Sound

LEMMA InitDInv == HistoryInit => DInv
<1> SUFFICES ASSUME HistoryInit PROVE Intact
  BY DEF DInv
<1>1. IInv
  BY InitIInv DEF HistoryInit, DebuggerInit
<1> QED BY <1>1 DEF IInv, TypeOK, Sound, Intact

LEMMA CheckIntact ==
  ASSUME Intact, Check
  PROVE  Intact'
<1>1. Sound(vm)
  BY IntactSound DEF Check
<1>2. UNCHANGED vars
  BY <1>1, PrintedExist DEF Check, print_machine_state
<1> QED BY <1>1, <1>2, StaysSound DEF vars

LEMMA StepIntact ==
  ASSUME Intact, Step, UNSAFE_OPERATIONS = FALSE
  PROVE  Intact'
<1>1. Sound(vm)
  BY IntactSound DEF Step
<1>2. Sound(vm')
  BY <1>1, StepSound DEF Step, Intact
<1> QED BY <1>2, StaysSound DEF Step

(* A line that is not set.  Only a line of blanks and inspect can end the  *)
(* session in undefined behaviour.                                         *)
LEMMA CommandIntact ==
  ASSUME Intact, Command, last_input'.command # "set"
  PROVE  Intact'
<1> PICK l \in Lines \cup {last_input} :
      /\ Reads(l)
      /\ \/ debug_step(l)
         \/ debug_run(l)
         \/ debug_breakpoint_create(l)
         \/ debug_breakpoint_clear(l)
         \/ debug_invert(l)
         \/ debug_quit(l)
         \/ debug_inspect(l)
         \/ debug_set(l)
         \/ debug_info(l)
         \/ Prints(l)
         \/ Blank(l)
  BY DEF Command
<1>1. looping /\ last_input' = l /\ Sound(vm) /\ Sound(invert_vm_direction(vm))
  BY IntactSound, InvertSound DEF Reads
<1>2. CASE debug_step(l) \/ debug_invert(l)
  <2>1. vm' \in {vm, invert_vm_direction(vm)} /\ UNCHANGED program
    BY <1>2 DEF debug_step, debug_invert
  <2> QED BY <1>1, <2>1, StaysSound
<1>3. CASE debug_run(l) \/ debug_breakpoint_create(l) \/ debug_breakpoint_clear(l) \/ Prints(l)
  <2>1. UNCHANGED <<program, vm>>
    BY <1>3 DEF debug_run, debug_breakpoint_create, debug_breakpoint_clear, Prints
  <2> QED BY <1>1, <2>1, StaysSound
<1>4. CASE debug_quit(l)
  <2>1. UNCHANGED <<program, vm>>
    BY <1>4 DEF debug_quit, Leaves
  <2> QED BY <1>1, <2>1, StaysSound
<1>5. CASE debug_info(l)
  <2>1. UNCHANGED <<program, vm>>
    BY <1>1, <1>5, PrintedExist DEF debug_info, print_machine_state
  <2> QED BY <1>1, <2>1, StaysSound
<1>6. CASE debug_inspect(l) \/ Blank(l)
  <2>1. UNCHANGED program /\ l.command \in {"blank", "inspect"}
    BY <1>6 DEF debug_inspect, Blank, Leaves
  <2>2. CASE vm' = vm
    BY <1>1, <2>1, <2>2, StaysSound
  <2>3. CASE vm' = Throw(vm, "undefined") /\ ~looping'
    <3>1. vm' \in VM /\ vm'.stack = vm.stack /\ vm'.sp = vm.sp
      BY <2>3 DEF Intact, Throw, VM, Faults
    <3> QED BY <1>1, <2>1, <2>3, <3>1 DEF Intact
  <2> QED BY <1>6, <2>2, <2>3 DEF debug_inspect, Blank, Leaves
<1>7. CASE debug_set(l)
  BY <1>1, <1>7 DEF debug_set
<1> QED BY <1>2, <1>3, <1>4, <1>5, <1>6, <1>7

LEMMA NextDInv ==
  ASSUME UNSAFE_OPERATIONS = FALSE
  PROVE  DInv /\ [HistoryNext]_historyVars => DInv'
<1> SUFFICES ASSUME DInv, [HistoryNext]_historyVars, ~edited' PROVE Intact'
  BY DEF DInv
<1>1. CASE UNCHANGED historyVars
  BY <1>1 DEF historyVars, debuggerVars, vars, DInv, Intact
<1>2. CASE HistoryNext
  <2>1. Intact /\ ~Edited
    BY <1>2 DEF HistoryNext, Recording, DInv
  <2>2. CASE Check
    BY <2>1, <2>2, CheckIntact
  <2>3. CASE Step
    BY <2>1, <2>3, StepIntact
  <2>4. CASE Command
    BY <2>1, <2>4, CommandIntact DEF Edited, Command, Reads
  <2>5. CASE EndOfInput
    <3>1. Sound(vm) /\ UNCHANGED <<program, vm>>
      BY <2>1, <2>5, IntactSound DEF EndOfInput, Leaves
    <3> QED BY <2>1, <3>1, StaysSound
  <2> QED BY <1>2, <2>2, <2>3, <2>4, <2>5 DEF HistoryNext, DebuggerNext
<1> QED BY <1>1, <1>2

(* Whatever the user types, in whatever order: until set is used, no value *)
(* is left above the stack pointer and no slot outside the stack has been  *)
(* read, except by inspect or through a line of blanks.                    *)
THEOREM DebuggerSound ==
  ASSUME UNSAFE_OPERATIONS = FALSE
  PROVE  HistorySpec => []SoundUntilEdited
<1>1. DInv => SoundUntilEdited
  BY DEF DInv, Intact, SoundUntilEdited
<1> QED BY <1>1, InitDInv, NextDInv, PTL DEF HistorySpec

-----------------------------------------------------------------------------
(***************************************************************************)
(* Types.  set may put any word anywhere and the loop goes on from there,  *)
(* so what a step does from a stack pointer outside the stack matters, in  *)
(* either build.                                                           *)
(***************************************************************************)
LEMMA AssignTyped ==
  ASSUME NEW s, s \in VM, NEW c \in Component, NEW value \in Number
  PROVE  Assign(s, c, value) \in VM
<1>1. CASE value = Rejected \/ c.name \in {"P", "none"} \/ s.fault # "none"
  BY <1>1 DEF Assign
<1>2. CASE ~(value = Rejected \/ c.name \in {"P", "none"} \/ s.fault # "none") /\ Outside(c)
  BY <1>2, ThrowTyped DEF Assign, Faults
<1>3. CASE ~(value = Rejected \/ c.name \in {"P", "none"} \/ s.fault # "none") /\ ~Outside(c)
  <2>1. value[1] \in Word
    BY <1>3 DEF Number
  <2>2. c.name \in {"sp", "fp", "br", "pc", "S", "M"}
    BY <1>3 DEF Component
  <2>3. CASE c.name = "sp"
    BY <1>3, <2>1, <2>3, TypedUpdates DEF Assign
  <2>4. CASE c.name = "fp"
    BY <1>3, <2>1, <2>4, TypedUpdates DEF Assign
  <2>5. CASE c.name = "br"
    BY <1>3, <2>1, <2>5, TypedUpdates DEF Assign
  <2>6. CASE c.name = "pc"
    BY <1>3, <2>1, <2>6, TypedUpdates DEF Assign
  <2>7. CASE c.name = "S"
    BY <1>3, <2>1, <2>7, TypedUpdates DEF Assign
  <2>8. CASE c.name = "M"
    BY <1>3, <2>1, <2>8, TypedUpdates DEF Assign
  <2> QED BY <2>2, <2>3, <2>4, <2>5, <2>6, <2>7, <2>8
<1> QED BY <1>1, <1>2, <1>3

(* Pair by pair, by induction.                                             *)
LEMMA AssignedTyped ==
  ASSUME NEW s, s \in VM, NEW pairs \in Seq([component : Component, value : Number])
  PROVE  Assigned(s, pairs) \in VM
<1> DEFINE one(m, k) == Assign(m, pairs[k].component, pairs[k].value)
           Follows(f, n) == f = [k \in 0 .. n |-> IF k = 0 THEN s ELSE one(f[k - 1], k)]
<1>0. \A i \in 1 .. Len(pairs) : pairs[i] \in [component : Component, value : Number]
  <2> DEFINE Pair == [component : Component, value : Number]
  <2>1. pairs \in Seq(Pair)
    OBVIOUS
  <2> HIDE DEF Pair
  <2>2. \A i \in 1 .. Len(pairs) : pairs[i] \in Pair
    BY <2>1
  <2> QED BY <2>2 DEF Pair
<1>1. \A n \in Nat : \E f : Follows(f, n)
  <2> DEFINE Reached == {n \in Nat : \E f : Follows(f, n)}
  <2>1. 0 \in Reached
    <3>1. Follows([k \in 0 .. 0 |-> s], 0)
      <4> HIDE DEF one
      <4> QED OBVIOUS
    <3> QED BY <3>1
  <2>2. ASSUME NEW n \in Reached PROVE n + 1 \in Reached
    <3> PICK f : Follows(f, n)
      OBVIOUS
    <3> DEFINE g == [k \in 0 .. (n + 1) |-> IF k <= n THEN f[k] ELSE one(f[n], k)]
    <3>1. Follows(g, n + 1)
      <4> HIDE DEF one
      <4>1. \A k \in 0 .. n : g[k] = f[k]
        OBVIOUS
      <4>2. \A k \in 0 .. (n + 1) : g[k] = IF k = 0 THEN s ELSE one(g[k - 1], k)
        <5> TAKE k \in 0 .. (n + 1)
        <5>1. CASE k = 0
          BY <4>1, <5>1
        <5>2. CASE k # 0 /\ k <= n
          <6>1. k - 1 \in 0 .. n /\ k \in 0 .. n
            BY <5>2
          <6> QED BY <4>1, <5>2, <6>1
        <5>3. CASE k = n + 1
          <6>1. k - 1 = n /\ n \in 0 .. n /\ k # 0 /\ ~(k <= n)
            BY <5>3
          <6> QED BY <4>1, <6>1
        <5> QED BY <5>1, <5>2, <5>3
      <4> HIDE DEF g
      <4>3. g = [k \in 0 .. (n + 1) |-> g[k]]
        BY DEF g
      <4> QED BY <4>2, <4>3
    <3> HIDE DEF Follows
    <3> QED BY <3>1
  <2> HIDE DEF Follows
  <2> QED BY <2>1, <2>2, Induction
<1> DEFINE after == CHOOSE f : Follows(f, Len(pairs))
<1>2. Follows(after, Len(pairs))
  <2> HIDE DEF Follows
  <2>1. Len(pairs) \in Nat
    OBVIOUS
  <2> QED BY <1>1, <2>1
<1>3. Assigned(s, pairs) = after[Len(pairs)]
  BY DEF Assigned
<1> HIDE DEF after
<1>4. \A k \in Nat : k \in 0 .. Len(pairs) => after[k] \in VM
  <2> DEFINE Done == {k \in Nat : k \in 0 .. Len(pairs) => after[k] \in VM}
  <2>1. 0 \in Done
    BY <1>2
  <2>2. ASSUME NEW k \in Done PROVE k + 1 \in Done
    <3> SUFFICES ASSUME k + 1 \in 0 .. Len(pairs) PROVE after[k + 1] \in VM
      OBVIOUS
    <3>1. k \in 0 .. Len(pairs) /\ k + 1 \in 1 .. Len(pairs) /\ k + 1 # 0 /\ (k + 1) - 1 = k
      OBVIOUS
    <3>2. after[k + 1] = one(after[k], k + 1) /\ after[k] \in VM
      <4> HIDE DEF one
      <4> QED BY <1>2, <3>1
    <3>3. pairs[k + 1].component \in Component /\ pairs[k + 1].value \in Number
      <4>1. pairs[k + 1] \in [component : Component, value : Number]
        BY <1>0, <3>1
      <4> QED BY <4>1
    <3> QED BY <3>2, <3>3, AssignTyped
  <2> HIDE DEF Follows
  <2> QED BY <2>1, <2>2, Induction
<1> QED BY <1>3, <1>4

(* The arguments of a line are what its command takes.                     *)
LEMMA LineTyped ==
  ASSUME NEW l \in Lines
  PROVE  /\ l.command = "set" => l.args \in Seq([component : Component, value : Number])
         /\ l.command = "step" => Steps(l.args) \in Word
         /\ l.command \in {"breakpoint", "clear"} => Numbers(l.args) \subseteq Word
<1>1. \A n \in Number : n # Rejected => n[1] \in Word
  BY DEF Number, Rejected
<1>2. l.command = "set" => l.args \in Seq([component : Component, value : Number])
  BY LinesAssumption DEF Arguments
<1>3. l.command \in {"step", "breakpoint", "clear"} => l.args \in Seq(Number)
  BY LinesAssumption DEF Arguments
<1>4. l.command = "step" => Steps(l.args) \in Word
  <2>1. 1 \in Word
    BY HalfRangeNat DEF Word
  <2> QED BY <1>1, <1>3, <2>1 DEF Steps
<1>5. ASSUME l.args \in Seq(Number) PROVE Numbers(l.args) \subseteq Word
  <2>1. Range(l.args) \subseteq Number
    BY <1>5 DEF Range
  <2> QED BY <1>1, <2>1 DEF Numbers
<1> QED BY <1>2, <1>3, <1>4, <1>5

LEMMA Unsigned32Range ==
  ASSUME NEW n \in Int
  PROVE  Unsigned32(n) \in 0 .. (2 * HalfRange - 1)
<1>1. 2 * HalfRange \in Nat \ {0}
  BY HalfRangeNat
<1> DEFINE d == 2 * HalfRange
<1>2. d \in Nat \ {0}
  BY <1>1
<1> HIDE DEF d
<1>3. n % d \in 0 .. (d - 1)
  BY <1>2
<1> QED BY <1>3 DEF Unsigned32, d

LEMMA TurnTyped ==
  ASSUME NEW s, s \in VM
  PROVE  invert_vm_direction(s) \in VM
<1> DEFINE u == [s EXCEPT !.dir = -@]
<1>1. u \in VM
  BY TypedUpdates
<1>2. u.pc \in Word /\ u.br \in Word /\ 1 \in Word
  BY <1>1, TypedFields, HalfRangeNat DEF Word
<1> HIDE DEF u
<1>3. step_pc(u) \in VM
  BY <1>1, <1>2, AddWord, SubWord, TypedUpdates DEF step_pc
<1> QED BY <1>3 DEF invert_vm_direction, u

LEMMA CommandTyped ==
  ASSUME DebuggerTypeOK, Command
  PROVE  DebuggerTypeOK'
<1>1. PICK l \in Lines \cup {last_input} :
        /\ Reads(l)
        /\ \/ debug_step(l)
           \/ debug_run(l)
           \/ debug_breakpoint_create(l)
           \/ debug_breakpoint_clear(l)
           \/ debug_invert(l)
           \/ debug_quit(l)
           \/ debug_inspect(l)
           \/ debug_set(l)
           \/ debug_info(l)
           \/ Prints(l)
           \/ Blank(l)
  BY DEF Command
<1>2. l \in Lines /\ last_input' = l /\ thread = "prompt"
  <2>1. noInput.command = "none"
    BY DEF noInput
  <2>2. l # noInput
    BY <1>1, <2>1 DEF debug_step, debug_run, debug_breakpoint_create, debug_breakpoint_clear,
       debug_invert, debug_quit, debug_inspect, debug_set, debug_info, Prints, Blank
  <2> QED BY <1>1, <2>2 DEF DebuggerTypeOK, Reads
<1>3. program \in Seq(Instruction) /\ Len(program) < HalfRange /\ vm \in VM /\ looping \in BOOLEAN
  BY DEF DebuggerTypeOK, TypeOK
<1>4. UNCHANGED program
  BY <1>1 DEF debug_step, debug_run, debug_breakpoint_create, debug_breakpoint_clear,
     debug_invert, debug_quit, debug_inspect, debug_set, debug_info, Prints, Blank,
     Leaves, print_machine_state
<1>5. looping' \in BOOLEAN /\ thread' \in {"prompt", "step"}
  BY <1>1, <1>2, <1>3 DEF debug_step, debug_run, debug_breakpoint_create, debug_breakpoint_clear,
     debug_invert, debug_quit, debug_inspect, debug_set, debug_info, Prints, Blank,
     Leaves, print_machine_state, Prompts, Continues
<1>6. vm' \in VM
  <2>1. Throw(vm, "undefined") \in VM /\ invert_vm_direction(vm) \in VM
    BY <1>3, ThrowTyped, TurnTyped DEF Faults
  <2>2. CASE debug_set(l)
    <3>1. vm' = Assigned(vm, l.args)
      BY <2>2 DEF debug_set, Leaves
    <3>2. l.args \in Seq([component : Component, value : Number])
      BY <1>2, <2>2, LineTyped DEF debug_set
    <3> QED BY <1>3, <3>1, <3>2, AssignedTyped
  <2>3. CASE ~debug_set(l)
    <3>1. vm' \in {vm, invert_vm_direction(vm), Throw(vm, "undefined")}
      BY <1>1, <2>3 DEF debug_step, debug_run, debug_breakpoint_create, debug_breakpoint_clear,
         debug_invert, debug_quit, debug_inspect, debug_info, Prints, Blank,
         Leaves, print_machine_state
    <3> QED BY <1>3, <2>1, <3>1
  <2> QED BY <2>2, <2>3
<1>7. breakpoints' \subseteq Word
  <2>1. CASE debug_breakpoint_create(l) \/ debug_breakpoint_clear(l)
    <3>1. Numbers(l.args) \subseteq Word
      BY <1>2, <2>1, LineTyped DEF debug_breakpoint_create, debug_breakpoint_clear
    <3> QED BY <2>1, <3>1 DEF debug_breakpoint_create, debug_breakpoint_clear, DebuggerTypeOK
  <2>2. CASE ~(debug_breakpoint_create(l) \/ debug_breakpoint_clear(l))
    <3>1. UNCHANGED breakpoints
      BY <1>1, <2>2 DEF debug_step, debug_run, debug_invert, debug_quit, debug_inspect, debug_set,
         debug_info, Prints, Blank, Leaves, print_machine_state, debugger_state
    <3> QED BY <3>1 DEF DebuggerTypeOK
  <2> QED BY <2>1, <2>2
<1>8. remaining_steps' \in 0 .. (2 * HalfRange - 1) /\ continue_running' \in BOOLEAN
  <2>1. CASE debug_step(l)
    <3>1. Steps(l.args) \in Word
      BY <1>2, <2>1, LineTyped DEF debug_step
    <3>2. (IF Steps(l.args) < 0 THEN NegW(Steps(l.args)) ELSE Steps(l.args)) \in Int
      BY <3>1, NegWord, WordInt
    <3>3. remaining_steps' \in 0 .. (2 * HalfRange - 1)
      BY <2>1, <3>2, Unsigned32Range DEF debug_step
    <3> QED BY <2>1, <3>3 DEF debug_step, DebuggerTypeOK
  <2>2. CASE ~debug_step(l)
    <3>1. UNCHANGED remaining_steps
      BY <1>1, <2>2 DEF debug_run, debug_breakpoint_create, debug_breakpoint_clear,
         debug_invert, debug_quit, debug_inspect, debug_set, debug_info, Prints, Blank,
         Leaves, print_machine_state, debugger_state
    <3>2. continue_running' = continue_running \/ continue_running' = TRUE
      BY <1>1, <2>2 DEF debug_run, debug_breakpoint_create, debug_breakpoint_clear,
         debug_invert, debug_quit, debug_inspect, debug_set, debug_info, Prints, Blank,
         Leaves, print_machine_state, debugger_state
    <3> QED BY <3>1, <3>2 DEF DebuggerTypeOK
  <2> QED BY <2>1, <2>2
<1> QED BY <1>2, <1>3, <1>4, <1>5, <1>6, <1>7, <1>8 DEF DebuggerTypeOK, TypeOK

LEMMA NextDebuggerTypeOK ==
  DebuggerTypeOK /\ [DebuggerNext]_debuggerVars => DebuggerTypeOK'
<1> SUFFICES ASSUME DebuggerTypeOK, [DebuggerNext]_debuggerVars PROVE DebuggerTypeOK'
  OBVIOUS
<1>1. program \in Seq(Instruction) /\ Len(program) < HalfRange /\ vm \in VM /\ looping \in BOOLEAN
  BY DEF DebuggerTypeOK, TypeOK
<1>2. Throw(vm, "undefined") \in VM
  BY <1>1, ThrowTyped DEF Faults
<1>3. CASE Check
  <2>1. /\ UNCHANGED <<program, breakpoints, remaining_steps, last_input>>
        /\ vm' \in {vm, Throw(vm, "undefined")} /\ looping' \in BOOLEAN
        /\ thread' \in {"loop", "prompt", "step"}
        /\ continue_running' = continue_running \/ continue_running' = FALSE
    BY <1>1, <1>3 DEF Check, print_machine_state, Leaves, vars, debugger_state
  <2> QED BY <1>1, <1>2, <2>1 DEF DebuggerTypeOK, TypeOK
<1>4. CASE Step
  <2>1. vm' \in VM
    BY <1>1, <1>4, StepTyped DEF Step
  <2>2. remaining_steps' \in 0 .. (2 * HalfRange - 1)
    BY <1>4, HalfRangeNat DEF Step, step_debugger_state, DebuggerTypeOK
  <2>3. /\ UNCHANGED <<program, breakpoints, continue_running, last_input>>
        /\ looping' \in BOOLEAN /\ thread' \in {"loop", "step"}
    BY <1>4 DEF Step
  <2> QED BY <1>1, <2>1, <2>2, <2>3 DEF DebuggerTypeOK, TypeOK
<1>5. CASE Command
  BY <1>5, CommandTyped
<1>6. CASE EndOfInput
  BY <1>6 DEF EndOfInput, Leaves, debugger_state, DebuggerTypeOK, TypeOK
<1>7. CASE UNCHANGED debuggerVars
  BY <1>7 DEF debuggerVars, vars, debugger_state, DebuggerTypeOK, TypeOK
<1> QED BY <1>3, <1>4, <1>5, <1>6, <1>7 DEF DebuggerNext

(* In every session, whatever is typed, set included, and in both builds:  *)
(* registers, slots and cells hold words, breakpoints are words, and the   *)
(* number of steps that remain fits an unsigned word.                      *)
THEOREM DebuggerTypeCorrect == DebuggerSpec => []DebuggerTypeOK
<1>1. DebuggerInit => DebuggerTypeOK
  <2> SUFFICES ASSUME DebuggerInit PROVE DebuggerTypeOK
    OBVIOUS
  <2>1. TypeOK
    BY InitIInv DEF DebuggerInit, IInv
  <2>2. 0 \in 0 .. (2 * HalfRange - 1)
    BY HalfRangeNat
  <2> QED BY <2>1, <2>2 DEF DebuggerInit, DebuggerTypeOK
<1> QED BY <1>1, NextDebuggerTypeOK, PTL DEF DebuggerSpec

-----------------------------------------------------------------------------
(***************************************************************************)
(* The debugger implements Timeline, for every program, every line a user  *)
(* may type (set excepted) and every order of commands: the safety part of *)
(* the refinement DebuggerHistory states.                                  *)
(*                                                                         *)
(* Two machines that follow one another on the tape are joined by a step   *)
(* in both directions, or by the popl that cannot be undone (Joined).      *)
(* That a position visited again shows the same machine follows because    *)
(* step has one outcome, and is undone; that a refused step is a step that *)
(* has not been made before follows because the inverse of the popl onto   *)
(* itself is refused.                                                      *)
(***************************************************************************)


-----------------------------------------------------------------------------
(***************************************************************************)
(* Timeline sees the same program through another variable vm: what it     *)
(* calls a step is a step.                                                 *)
(***************************************************************************)
LEMMA TWords ==
  /\ \A a, b : T!AddW(a, b) = AddW(a, b)
  /\ \A a, b : T!SubW(a, b) = SubW(a, b)
  /\ \A a : T!NegW(a) = NegW(a)
  /\ \A bits : T!UpperBits(bits) = UpperBits(bits)
  /\ \A a, b : T!DivisionTraps(a, b) <=> DivisionTraps(a, b)
BY DEF AddW, T!AddW, SubW, T!SubW, NegW, T!NegW, Wrap, T!Wrap, HalfRange, T!HalfRange,
       UpperBits, T!UpperBits, DivisionTraps, T!DivisionTraps

LEMMA TTerms ==
  ASSUME NEW s
  PROVE  /\ T!Top(s) = Top(s) /\ T!Under(s) = Under(s) /\ T!Third(s) = Third(s)
         /\ \A f : T!Throw(s, f) = Throw(s, f)
         /\ \A f, m : T!WithStack(s, f, m) = WithStack(s, f, m)
         /\ \A v : T!SetTop(s, v) = SetTop(s, v)
         /\ \A f, i, j : T!Exchange(f, i, j) = Exchange(f, i, j)
         /\ \A n : T!Local(s, n) = Local(s, n)
BY TWords DEF Top, T!Top, Under, T!Under, Third, T!Third, Throw, T!Throw, WithStack, T!WithStack,
   SetTop, T!SetTop, Exchange, T!Exchange, Local, T!Local

LEMMA TChecks ==
  ASSUME NEW s, NEW n, NEW t
  PROVE  /\ T!Touch(s, n, t) = Touch(s, n, t)
         /\ T!REQUIRES_PARAMS(s, n, t) = REQUIRES_PARAMS(s, n, t)
         /\ T!PUSHES_VALUES(s, n, t) = PUSHES_VALUES(s, n, t)
         /\ T!REQUIRES_LOCAL(s, n, t) = REQUIRES_LOCAL(s, n, t)
         /\ T!ASSERT_POSITIVE(s, n, t) = ASSERT_POSITIVE(s, n, t)
         /\ T!MemoryAt(s, n, t) = MemoryAt(s, n, t)
         /\ T!ClearSlots(s, n, t) = ClearSlots(s, n, t)
BY TTerms DEF Touch, T!Touch, REQUIRES_PARAMS, T!REQUIRES_PARAMS, PUSHES_VALUES, T!PUSHES_VALUES,
   REQUIRES_LOCAL, T!REQUIRES_LOCAL, ASSERT_POSITIVE, T!ASSERT_POSITIVE, MemoryAt, T!MemoryAt,
   ClearSlots, T!ClearSlots, Slots, T!Slots, Addresses, T!Addresses

LEMMA TAccess ==
  ASSUME NEW s
  PROVE  /\ \A v : T!Push(s, v) = Push(s, v)
         /\ \A f, v : T!Clear(s, f, v) = Clear(s, f, v)
         /\ \A v : T!Pop(s, v) = Pop(s, v)
BY TTerms, TChecks DEF Push, T!Push, Clear, T!Clear, Pop, T!Pop

LEMMA TCompare ==
  ASSUME NEW op, NEW a, NEW b
  PROVE  T!Compare(op, a, b) = Compare(op, a, b)
BY DEF Compare, T!Compare, True, T!True, False, T!False, Forward, T!Forward,
       Backward, T!Backward

LEMMA TArithmetic ==
  ASSUME NEW op, NEW a, NEW b
  PROVE  T!Arithmetic(op, a, b) = Arithmetic(op, a, b)
BY DEF Arithmetic, T!Arithmetic, AddW, T!AddW, SubW, T!SubW, Wrap, T!Wrap,
       MulW, T!MulW, QuotW, T!QuotW, RemW, T!RemW, Magnitude, T!Magnitude,
       HalfRange, T!HalfRange

LEMMA TInstructions ==
  ASSUME NEW s
  PROVE  /\ T!Start(s) = Start(s) /\ T!Stop(s) = Stop(s)
         /\ T!Dup(s) = Dup(s) /\ T!Undup(s) = Undup(s)
         /\ T!Swap(s) = Swap(s) /\ T!Dig(s) = Dig(s) /\ T!Bury(s) = Bury(s)
         /\ T!Call(s) = Call(s) /\ T!Uncall(s) = Uncall(s)
         /\ T!Neg(s) = Neg(s) /\ T!Add(s) = Add(s) /\ T!Sub(s) = Sub(s)
         /\ T!XorTop(s) = XorTop(s) /\ T!Shl(s) = Shl(s) /\ T!Shr(s) = Shr(s)
BY TWords, TTerms, TChecks, TAccess
DEF Start, T!Start, Stop, T!Stop, Dup, T!Dup, Undup, T!Undup, Swap, T!Swap, Dig, T!Dig, Bury, T!Bury,
    Call, T!Call, Uncall, T!Uncall, Neg, T!Neg, Add, T!Add, Sub, T!Sub,
    XorTop, T!XorTop, Shl, T!Shl, Shr, T!Shr

LEMMA TOperands ==
  ASSUME NEW s, NEW n
  PROVE  /\ T!Pushc(s, n) = Pushc(s, n) /\ T!Popc(s, n) = Popc(s, n)
         /\ T!Allocpar(s, n) = Allocpar(s, n) /\ T!Releasepar(s, n) = Releasepar(s, n)
         /\ T!Asf(s, n) = Asf(s, n) /\ T!Rsf(s, n) = Rsf(s, n)
         /\ T!Pushl(s, n) = Pushl(s, n) /\ T!Popl(s, n) = Popl(s, n)
         /\ T!Branch(s, n) = Branch(s, n)
         /\ \A c : T!BranchIf(s, n, c) = BranchIf(s, n, c)
         /\ T!Inc(s, n) = Inc(s, n) /\ T!Dec(s, n) = Dec(s, n) /\ T!Xorhc(s, n) = Xorhc(s, n)
<1>1. T!Branch(s, n) = Branch(s, n)
  BY TWords DEF Branch, T!Branch, Forward, T!Forward
<1> QED
  BY <1>1, TWords, TTerms, TChecks, TAccess
  DEF Pushc, T!Pushc, Popc, T!Popc, Allocpar, T!Allocpar, Releasepar, T!Releasepar,
    Asf, T!Asf, Rsf, T!Rsf, Pushl, T!Pushl, Popl, T!Popl, BranchIf, T!BranchIf,
    Inc, T!Inc, Dec, T!Dec, Xorhc, T!Xorhc

LEMMA TOperators ==
  ASSUME NEW s, NEW op
  PROVE  /\ T!CmpPush(s, op) = CmpPush(s, op) /\ T!CmpPop(s, op) = CmpPop(s, op)
         /\ T!ArPush(s, op) = ArPush(s, op) /\ T!ArPop(s, op) = ArPop(s, op)
BY TWords, TCompare, TArithmetic, TTerms, TChecks, TAccess
DEF CmpPush, T!CmpPush, CmpPop, T!CmpPop, ArPush, T!ArPush, ArPop, T!ArPop, Computes, T!Computes

LEMMA THeap ==
  ASSUME NEW s, NEW n
  PROVE  /\ T!Pushm(s, n) = Pushm(s, n) /\ T!Popm(s, n) = Popm(s, n)
         /\ T!Load(s, n) = Load(s, n) /\ T!Store(s, n) = Store(s, n)
         /\ T!Memswap(s, n) = Memswap(s, n)
<1>1. \A a : T!PushFrom(s, a) = PushFrom(s, a) /\ T!PopInto(s, a) = PopInto(s, a)
  BY TTerms, TChecks, TAccess DEF PushFrom, T!PushFrom, PopInto, T!PopInto
<1> QED
  BY <1>1, TWords, TTerms, TChecks
  DEF Pushm, T!Pushm, Popm, T!Popm, Load, T!Load, Store, T!Store, Memswap, T!Memswap

LEMMA TFetch ==
  ASSUME NEW s
  PROVE  /\ T!Fetches(s) <=> Fetches(s)
         /\ T!Fetch(s) = Fetch(s) /\ T!Operand(s) = Operand(s)
         /\ \A op : (T!At(s, op) <=> At(s, op)) /\ (T!Fw(s, op) <=> Fw(s, op)) /\ (T!Bw(s, op) <=> Bw(s, op))
         /\ \A u : T!After(s, u) = After(s, u)
         /\ T!True = True /\ T!False = False
BY TTerms, TWords
DEF Fetches, T!Fetches, Fetch, T!Fetch, Operand, T!Operand, sign_extend, T!sign_extend,
    At, T!At, Fw, T!Fw, Bw, T!Bw, After, T!After, step_pc, T!step_pc,
    Forward, T!Forward, Backward, T!Backward, True, T!True, False, T!False

LEMMA TStep ==
  ASSUME NEW s, NEW t
  PROVE  T!step(s, t) <=> step(s, t)
<1>1. T!RunningInstruction(s, t) <=> RunningInstruction(s, t)
  BY TFetch, TInstructions DEF RunningInstruction, T!RunningInstruction
<1>2. T!ConstantInstruction(s, t) <=> ConstantInstruction(s, t)
  BY TFetch, TOperands DEF ConstantInstruction, T!ConstantInstruction
<1>3. T!ShuffleInstruction(s, t) <=> ShuffleInstruction(s, t)
  BY TFetch, TInstructions DEF ShuffleInstruction, T!ShuffleInstruction
<1>4. T!FrameInstruction(s, t) <=> FrameInstruction(s, t)
  BY TFetch, TOperands DEF FrameInstruction, T!FrameInstruction
<1>5. T!TransferInstruction(s, t) <=> TransferInstruction(s, t)
  BY TFetch, TInstructions, TOperands DEF TransferInstruction, T!TransferInstruction
<1>6. T!CompareInstruction(s, t) <=> CompareInstruction(s, t)
  BY TFetch, TOperators DEF CompareInstruction, T!CompareInstruction, Comparisons, T!Comparisons
<1>7. T!UpdateInstruction(s, t) <=> UpdateInstruction(s, t)
  BY TFetch, TInstructions, TOperands DEF UpdateInstruction, T!UpdateInstruction
<1>8. T!ArithmeticInstruction(s, t) <=> ArithmeticInstruction(s, t)
  BY TFetch, TOperators DEF ArithmeticInstruction, T!ArithmeticInstruction, Arithmetics, T!Arithmetics
<1>9. T!HeapInstruction(s, t) <=> HeapInstruction(s, t)
  BY TFetch, THeap DEF HeapInstruction, T!HeapInstruction
<1> QED BY <1>1, <1>2, <1>3, <1>4, <1>5, <1>6, <1>7, <1>8, <1>9, TFetch, TTerms DEF step, T!step
-----------------------------------------------------------------------------
(***************************************************************************)
(* step has one outcome.                                                   *)
(***************************************************************************)
LEMMA OneOperation ==
  ASSUME NEW s, NEW t
  PROVE  /\ RunningInstruction(s, t) => Fetch(s).op \in {"start", "nop"}
         /\ ConstantInstruction(s, t) => Fetch(s).op \in {"pushc", "pushtrue", "pushfalse"}
         /\ ShuffleInstruction(s, t) => Fetch(s).op \in {"dup", "swap", "bury"}
         /\ FrameInstruction(s, t) => Fetch(s).op \in {"allocpar", "asf", "pushl"}
         /\ TransferInstruction(s, t) => Fetch(s).op \in {"call", "uncall", "branch", "brt", "brf"}
         /\ CompareInstruction(s, t) => Fetch(s).op \in Comparisons
         /\ UpdateInstruction(s, t) => Fetch(s).op \in {"inc", "neg", "add", "xor", "shl", "xorhc"}
         /\ ArithmeticInstruction(s, t) => Fetch(s).op \in Arithmetics
         /\ HeapInstruction(s, t) => Fetch(s).op \in {"pushm", "load", "memswap"}
         /\ step(s, t) /\ ~Fetches(s) => t = Throw(s, "out_of_range")
BY DEF RunningInstruction, ConstantInstruction, ShuffleInstruction, FrameInstruction,
       TransferInstruction, CompareInstruction, UpdateInstruction, ArithmeticInstruction,
       HeapInstruction, step, Fw, Bw, At

LEMMA OneOutcome ==
  ASSUME NEW s, NEW t, NEW u, step(s, t), step(s, u)
  PROVE  t = u
<1>1. CASE ~Fetches(s)
  BY <1>1, OneOperation
<1>2. CASE Fetches(s)
  <2> USE <1>2
  <2>1. ASSUME RunningInstruction(s, t) PROVE t = u
    <3>1. RunningInstruction(s, u)
      BY <2>1, OneOperation DEF step, Comparisons, Arithmetics
    <3> QED BY <2>1, <3>1 DEF RunningInstruction, Fw, Bw, At
  <2>2. ASSUME ConstantInstruction(s, t) PROVE t = u
    <3>1. ConstantInstruction(s, u)
      BY <2>2, OneOperation DEF step, Comparisons, Arithmetics
    <3> QED BY <2>2, <3>1 DEF ConstantInstruction, Fw, Bw, At
  <2>3. ASSUME ShuffleInstruction(s, t) PROVE t = u
    <3>1. ShuffleInstruction(s, u)
      BY <2>3, OneOperation DEF step, Comparisons, Arithmetics
    <3> QED BY <2>3, <3>1 DEF ShuffleInstruction, Fw, Bw, At
  <2>4. ASSUME FrameInstruction(s, t) PROVE t = u
    <3>1. FrameInstruction(s, u)
      BY <2>4, OneOperation DEF step, Comparisons, Arithmetics
    <3> QED BY <2>4, <3>1 DEF FrameInstruction, Fw, Bw, At
  <2>5. ASSUME TransferInstruction(s, t) PROVE t = u
    <3>1. TransferInstruction(s, u)
      BY <2>5, OneOperation DEF step, Comparisons, Arithmetics
    <3> QED BY <2>5, <3>1 DEF TransferInstruction, Fw, Bw, At
  <2>6. ASSUME CompareInstruction(s, t) PROVE t = u
    <3>1. CompareInstruction(s, u)
      BY <2>6, OneOperation DEF step, Comparisons, Arithmetics
    <3> QED BY <2>6, <3>1 DEF CompareInstruction, Fw, Bw, At
  <2>7. ASSUME UpdateInstruction(s, t) PROVE t = u
    <3>1. UpdateInstruction(s, u)
      BY <2>7, OneOperation DEF step, Comparisons, Arithmetics
    <3> QED BY <2>7, <3>1 DEF UpdateInstruction, Fw, Bw, At
  <2>8. ASSUME ArithmeticInstruction(s, t) PROVE t = u
    <3>1. ArithmeticInstruction(s, u)
      BY <2>8, OneOperation DEF step, Comparisons, Arithmetics
    <3> QED BY <2>8, <3>1 DEF ArithmeticInstruction, Fw, Bw, At
  <2>9. ASSUME HeapInstruction(s, t) PROVE t = u
    <3>1. HeapInstruction(s, u)
      BY <2>9, OneOperation DEF step, Comparisons, Arithmetics
    <3> QED BY <2>9, <3>1 DEF HeapInstruction, Fw, Bw, At
  <2> QED BY <2>1, <2>2, <2>3, <2>4, <2>5, <2>6, <2>7, <2>8, <2>9 DEF step
<1> QED BY <1>1, <1>2

-----------------------------------------------------------------------------
(***************************************************************************)
(* Turning round twice, and the popl that cannot be undone.                *)
(***************************************************************************)
LEMMA TurnedTwice ==
  ASSUME NEW s, Sound(s)
  PROVE  /\ invert_vm_direction(invert_vm_direction(s)) = s
         /\ Sound(invert_vm_direction(s))
         /\ invert_vm_direction(s).fault = s.fault
         /\ invert_vm_direction(s).dir # s.dir
<1>1. s \in VM /\ Flip(s) \in VM /\ Flip(Flip(s)) = s /\ Flip(s).fault = s.fault /\ Flip(s).dir = -s.dir
  BY FlipFields DEF Sound
<1>2. invert_vm_direction(s) = step_pc(Flip(s))
  BY DEF invert_vm_direction, Flip
<1>3. invert_vm_direction(invert_vm_direction(s)) = step_pc(Flip(step_pc(Flip(s))))
  BY <1>2 DEF invert_vm_direction, Flip
<1>4. step_pc(Flip(s)).fault = s.fault /\ step_pc(Flip(s)).dir = -s.dir
  BY <1>1 DEF step_pc, VM
<1> QED BY <1>1, <1>2, <1>3, <1>4, BackToInstruction, InvertSound DEF VM, Forward, Backward

(* Onto itself, popl changes the stack pointer and nothing else.           *)
LEMMA SelfPopped ==
  ASSUME NEW s, Sound(s), s.fault = "none", program \in Seq(Instruction),
         UNSAFE_OPERATIONS = FALSE, PopsOntoItself(s),
         NEW t, step(s, t), t.fault = "none"
  PROVE  /\ Sound(invert_vm_direction(t))
         /\ invert_vm_direction(t) = [s EXCEPT !.dir = -@, !.sp = @ - 1]
<1> DEFINE n == Operand(s)
           v == Popl(s, n)
           top == s.sp - 1
           f == Exchange(s.stack, top, Local(s, n))
<1>1. Bw(s, "pushl") /\ Fetches(s) /\ Fetch(s).op = "pushl" /\ Local(s, n) = top
  BY DEF PopsOntoItself, Bw, At
<1>2. n \in Word /\ s \in VM /\ s.sp \in Nat
  BY <1>1, FetchedWord, StackPointer DEF Sound
<1>3. t = After(s, v)
  <2>1. FrameInstruction(s, t)
    BY <1>1, OneOperation DEF step, Comparisons, Arithmetics
  <2> QED BY <1>1, <2>1 DEF FrameInstruction, Fw, Bw, At
<1>4. Safe(v)
  BY <1>2, LocalAccessSafe
<1>5. v.fault = "none"
  BY <1>2, <1>3 DEF After, Throw, VM
<1>6. Sound(v) /\ v \in VM
  BY <1>4, <1>5 DEF Safe, Failures, Exceptions, Sound
<1>7. v = WithStack(s, s.stack, top)
  <2> DEFINE c == Clear(s, f, 0)
             r == REQUIRES_LOCAL(s, n, c)
  <2>1. v = REQUIRES_PARAMS(s, 1, r)
    BY DEF Popl
  <2>2. v = r /\ s.sp >= 1
    <3> HIDE DEF r, v
    <3> QED BY <1>5, <2>1, RequiresPasses
  <2>3. r = c
    <3> HIDE DEF c, v
    <3> QED BY <1>5, <2>2, LocalPasses
  <2>4. top \in Slots /\ s.stack \in [Slots -> Word] /\ 0 \in Word
    BY <2>2, StackPointer, HalfRangeNat DEF Slots, Word
  <2>5. f = s.stack
    BY <1>1, <2>4 DEF Exchange
  <2> HIDE DEF v, c, r, f
  <2>6. f[top] = 0 /\ c = WithStack(s, [f EXCEPT ![top] = 0], top)
    BY <1>5, <2>2, <2>3, <2>4, <2>5, ClearPasses DEF c
  <2>7. [f EXCEPT ![top] = 0] = s.stack
    BY <2>4, <2>5, <2>6
  <2> QED BY <2>2, <2>3, <2>6, <2>7
<1>8. invert_vm_direction(t) = Flip(v)
  <2>1. v.fault = "none" => v \in VM
    BY <1>6
  <2> HIDE DEF v
  <2> QED BY <1>2, <1>3, <2>1, StepMirrored
<1>9. Sound(Flip(v))
  BY <1>6, FlipSound
<1> HIDE DEF v
<1> QED BY <1>2, <1>7, <1>8, <1>9 DEF Flip, WithStack, VM

(* Backwards, the pushl finds its own slot above the stack pointer.        *)
LEMMA SelfPopRefused ==
  ASSUME NEW s, Sound(s), s.fault = "none", program \in Seq(Instruction),
         UNSAFE_OPERATIONS = FALSE, PopsOntoItself(s),
         NEW t, step(s, t), t.fault = "none",
         NEW u, step(invert_vm_direction(t), u)
  PROVE  u.fault # "none"
<1> DEFINE n == Operand(s)
           x == invert_vm_direction(t)
<1>1. Bw(s, "pushl") /\ Fetches(s) /\ Local(s, n) = s.sp - 1
  BY DEF PopsOntoItself, Bw, At
<1>2. n \in Word /\ s \in VM /\ s.sp \in Nat
  BY <1>1, FetchedWord, StackPointer DEF Sound
<1>3. Sound(x) /\ x.sp = s.sp - 1 /\ x.fp = s.fp /\ x.pc = s.pc /\ x.dir = -s.dir /\ x \in VM
  <2>1. Sound(x) /\ x = [s EXCEPT !.dir = -@, !.sp = @ - 1]
    BY SelfPopped
  <2> HIDE DEF x
  <2> QED BY <1>2, <2>1 DEF Sound, VM
<1> HIDE DEF x
<1>4. Mirrors(s, x)
  BY <1>2, <1>3, FetchMirrored
<1>5. Fw(x, "pushl") /\ Operand(x) = n
  BY <1>1, <1>4 DEF Mirrors
<1>6. u = After(x, Pushl(x, n))
  <2>1. Fetches(x) /\ Fetch(x).op = "pushl"
    BY <1>5 DEF Fw, At
  <2>2. FrameInstruction(x, u)
    BY <2>1, OneOperation DEF step, Comparisons, Arithmetics, x
  <2> QED BY <1>5, <2>1, <2>2 DEF FrameInstruction, Fw, Bw, At
<1>7. Local(x, n) = x.sp
  BY <1>1, <1>3 DEF Local
<1>8. Pushl(x, n).fault # "none"
  <2> SUFFICES ASSUME Pushl(x, n).fault = "none" PROVE FALSE
    OBVIOUS
  <2> DEFINE c == Touch(x, {x.sp},
                    WithStack(x, Exchange(x.stack, x.sp, Local(x, n)), x.sp + 1))
             r == REQUIRES_LOCAL(x, n, c)
  <2>1. Pushl(x, n) = PUSHES_VALUES(x, 1, r)
    BY DEF Pushl
  <2>2. r.fault = "none"
    <3> HIDE DEF r
    <3> QED BY <1>3, <2>1, ThrowFault DEF PUSHES_VALUES
  <2>3. Local(x, n) \in 0 .. (x.sp - 1)
    <3> HIDE DEF c
    <3> QED BY <1>3, <2>2, LocalPasses
  <2> QED BY <1>3, <1>7, <2>3, StackPointer
<1> QED BY <1>3, <1>6, <1>8, ThrowFault DEF After

-----------------------------------------------------------------------------
(***************************************************************************)
(* Neighbours on the tape, seen forwards.                                  *)
(***************************************************************************)
Joined(a, b) ==
  \/ step(a, b) /\ UndoneBy(a, b)
  \/ step(a, b) /\ PopsOntoItself(a)
  \/ UndoneBy(a, b) /\ PopsOntoItself(invert_vm_direction(b))

(* What a machine on the tape is.                                          *)
Kept(s) == Sound(s) /\ s.fault = "none"

Setting ==
  /\ program \in Seq(Instruction)
  /\ UNSAFE_OPERATIONS = FALSE /\ StackSize # 0

LEMMA Turned_Kept ==
  ASSUME NEW s, Kept(s)
  PROVE  /\ Kept(invert_vm_direction(s))
         /\ invert_vm_direction(invert_vm_direction(s)) = s
BY TurnedTwice DEF Kept

(* A step joins the machine it leaves to the one it reaches, whichever way *)
(* it was made.                                                            *)
LEMMA StepJoins ==
  ASSUME NEW s, NEW t, Kept(s), Kept(t), Setting, step(s, t)
  PROVE  /\ Joined(s, t)
         /\ Joined(invert_vm_direction(t), invert_vm_direction(s))
<1>1. ~PopsOntoItself(s) => UndoneBy(s, t)
  <2>1. Undoable(s, t)
    BY DEF Undoable, Kept, Setting
  <2> QED BY <2>1, StepUndone
<1>2. UndoneBy(invert_vm_direction(t), invert_vm_direction(s)) <=> step(s, t)
  BY Turned_Kept DEF UndoneBy
<1>3. step(invert_vm_direction(t), invert_vm_direction(s)) <=> UndoneBy(s, t)
  BY DEF UndoneBy
<1> QED BY <1>1, <1>2, <1>3, Turned_Kept DEF Joined

(* Going forwards from a leads to b again, or is refused because b was     *)
(* left backwards by the popl; and the same backwards.                     *)
LEMMA Forwards ==
  ASSUME NEW a, NEW b, Kept(a), Kept(b), Setting, Joined(a, b),
         NEW u, step(a, u)
  PROVE  /\ u.fault = "none" => u = b
         /\ u.fault # "none" => PopsOntoItself(invert_vm_direction(b))
<1>1. CASE step(a, b)
  <2>1. u = b
    BY <1>1, OneOutcome
  <2> QED BY <2>1 DEF Kept
<1>2. CASE UndoneBy(a, b) /\ PopsOntoItself(invert_vm_direction(b))
  <2> DEFINE s == invert_vm_direction(b)
             t == invert_vm_direction(a)
  <2>1. step(s, t) /\ Kept(s) /\ Kept(t) /\ invert_vm_direction(t) = a
    BY <1>2, Turned_Kept DEF UndoneBy
  <2>2. u.fault # "none"
    BY <1>2, <2>1, SelfPopRefused DEF Kept, Setting
  <2> QED BY <1>2, <2>2
<1> QED BY <1>1, <1>2 DEF Joined

LEMMA Backwards ==
  ASSUME NEW a, NEW b, Kept(a), Kept(b), Setting, Joined(a, b),
         NEW u, step(invert_vm_direction(b), u)
  PROVE  /\ u.fault = "none" => u = invert_vm_direction(a)
         /\ u.fault # "none" => PopsOntoItself(a)
<1> DEFINE c == invert_vm_direction(b)
           d == invert_vm_direction(a)
<1>1. Kept(c) /\ Kept(d) /\ invert_vm_direction(c) = b /\ invert_vm_direction(d) = a
  BY Turned_Kept
<1>2. Joined(c, d)
  BY <1>1 DEF Joined, UndoneBy
<1> HIDE DEF c, d
<1> QED BY <1>1, <1>2, Forwards DEF c, d

(* What a machine has come from is known: the step that undoes the last    *)
(* one leads there, or the last one was the popl, which leaves all that it *)
(* found but the stack pointer.                                            *)
LEMMA OnePredecessor ==
  ASSUME NEW a, NEW b, NEW c, Kept(a), Kept(b), Kept(c), Setting,
         Joined(a, b), Joined(c, b)
  PROVE  a = c
<1> DEFINE back == invert_vm_direction(b)
<1>1. ASSUME NEW u, NEW w, Kept(u), Kept(w), UndoneBy(u, b), Joined(w, b)
      PROVE  u = w
  <2> DEFINE x == invert_vm_direction(u)
  <2>1. step(back, x) /\ Kept(x) /\ invert_vm_direction(x) = u
    BY <1>1, Turned_Kept DEF UndoneBy
  <2>2. CASE UndoneBy(w, b)
    <3>1. step(back, invert_vm_direction(w))
      BY <2>2 DEF UndoneBy
    <3>2. x = invert_vm_direction(w)
      BY <2>1, <3>1, OneOutcome
    <3> QED BY <1>1, <2>1, <3>2, Turned_Kept
  <2>3. CASE step(w, b) /\ PopsOntoItself(w)
    BY <1>1, <2>1, <2>3, SelfPopRefused DEF Kept, Setting
  <2> QED BY <1>1, <2>2, <2>3 DEF Joined
<1>2. ASSUME NEW u, Kept(u), step(u, b), PopsOntoItself(u)
      PROVE  u = [back EXCEPT !.dir = -@, !.sp = @ + 1]
  <2>1. back = [u EXCEPT !.dir = -@, !.sp = @ - 1] /\ u \in VM /\ u.sp \in Nat
    BY <1>2, SelfPopped, StackPointer DEF Kept, Setting, Sound
  <2> HIDE DEF back
  <2>2. back.dir = -u.dir /\ back.sp = u.sp - 1
    BY <2>1 DEF VM
  <2>3. -(-u.dir) = u.dir /\ (u.sp - 1) + 1 = u.sp
    BY <2>1 DEF VM, Forward, Backward
  <2> DEFINE d == u.dir
             p == u.sp
             r == [back EXCEPT !.dir = d, !.sp = p]
  <2>4. [back EXCEPT !.dir = -@, !.sp = @ + 1] = r
    BY <2>2, <2>3
  <2>5. u = r
    BY <2>1 DEF VM
  <2> QED BY <2>4, <2>5
<1> HIDE DEF back
<1> QED BY <1>1, <1>2 DEF Joined

LEMMA OneSuccessor ==
  ASSUME NEW a, NEW b, NEW c, Kept(a), Kept(b), Kept(c), Setting,
         Joined(a, b), Joined(a, c)
  PROVE  b = c
<1> DEFINE d == invert_vm_direction(a)
           e == invert_vm_direction(b)
           f == invert_vm_direction(c)
<1>1. /\ Kept(d) /\ Kept(e) /\ Kept(f)
      /\ invert_vm_direction(d) = a /\ invert_vm_direction(e) = b /\ invert_vm_direction(f) = c
  BY Turned_Kept
<1>2. Joined(e, d) /\ Joined(f, d)
  BY <1>1 DEF Joined, UndoneBy
<1> HIDE DEF d, e, f
<1>3. e = f
  BY <1>1, <1>2, OnePredecessor
<1> QED BY <1>1, <1>3

-----------------------------------------------------------------------------
(***************************************************************************)
(* Machines seen forwards, and turned to the user.                         *)
(***************************************************************************)
(* The opposite direction. *)
LEMMA Opposite ==
  ASSUME NEW h \in {1, -1}
  PROVE  -h \in {1, -1} /\ (h = 1 => -h = -1) /\ (h = -1 => -h = 1)
<1> DEFINE k == -h
<1>1. h \in Int /\ k \in Int /\ h + k = 0
  OBVIOUS
<1> HIDE DEF k
<1>2. k \in {1, -1} /\ (h = 1 => k = -1) /\ (h = -1 => k = 1)
  BY <1>1
<1> QED BY <1>2 DEF k

LEMMA FacingKept ==
  ASSUME NEW s, Kept(s), NEW h \in {1, -1}
  PROVE  /\ Kept(FacingBy(s, h))
         /\ FacingBy(FacingBy(s, h), h) = s
         /\ FacingBy(invert_vm_direction(s), -h) = FacingBy(s, h)
         /\ FacingBy(FacingBy(s, h), -h) = invert_vm_direction(s)
<1>1. CASE h = 1
  <2>1. -h # 1
    BY <1>1, Opposite
  <2> QED BY <1>1, <2>1, Turned_Kept DEF FacingBy
<1>2. CASE h = -1
  <2>1. h # 1 /\ -h = 1
    BY <1>2, Opposite
  <2> QED BY <2>1, Turned_Kept DEF FacingBy
<1> QED BY <1>1, <1>2

(* An exception changes no register, so it can be thrown after turning.    *)
LEMMA FacingThrow ==
  ASSUME NEW s, s \in VM, NEW h, NEW f
  PROVE  FacingBy(Throw(s, f), h) = Throw(FacingBy(s, h), f)
<1>1. invert_vm_direction(Throw(s, f)) = Throw(invert_vm_direction(s), f)
  BY DEF invert_vm_direction, step_pc, Throw, VM
<1> QED BY <1>1 DEF FacingBy

(* Timeline's view of the machine is the debugger's machine.               *)
LEMMA TFacing ==
  ASSUME NEW s
  PROVE  /\ \A h : T!FacingBy(s, h) = FacingBy(s, h)
         /\ T!PopsItself(s) <=> PopsOntoItself(s)
<1>1. T!invert_vm_direction(s) = invert_vm_direction(s)
  <2>1. \A u : T!step_pc(u) = step_pc(u)
    BY TWords DEF T!step_pc, step_pc, T!Forward, Forward
  <2> QED BY <2>1 DEF T!invert_vm_direction, invert_vm_direction
<1>2. T!PopsOntoItself(s) <=> PopsOntoItself(s)
  BY TTerms, TFetch DEF T!PopsOntoItself, PopsOntoItself
<1>3. PopsOntoItself(s) => Fetches(s)
  BY DEF PopsOntoItself, Bw, At
<1> QED BY <1>1, <1>2, <1>3, TFetch DEF T!FacingBy, FacingBy, T!PopsItself

LEMMA TSeen ==
  ASSUME Kept(vm), heading \in {1, -1}
  PROVE  T!Seen = vm
<1>1. T!Seen = T!FacingBy(FacingBy(vm, heading), heading)
  BY DEF T!Seen, Seen
<1> QED BY <1>1, FacingKept, TFacing

-----------------------------------------------------------------------------
(***************************************************************************)
(* The inductive invariant.                                                *)
(***************************************************************************)
(* The conversation: no set, a run has ended when the prompt is back, and  *)
(* the steps that remain are a natural number.                             *)
Conversing ==
  /\ edited = FALSE
  /\ last_input \in Lines \cup {noInput}
  /\ thread \in {"loop", "prompt", "step"}
  /\ remaining_steps \in Nat
  /\ continue_running \in BOOLEAN
  /\ thread = "prompt" => ~continue_running
  /\ at \in Int
  /\ heading \in {1, -1}

(* The tape has no gaps, its machines are joined, and the debugger's       *)
(* machine is the one the user is at.                                      *)
OnTape ==
  /\ Kept(vm)
  /\ DOMAIN tape \subseteq Int
  /\ tape = [p \in DOMAIN tape |-> tape[p]]
  /\ at \in DOMAIN tape
  /\ tape[at] = Seen
  /\ \A p \in DOMAIN tape : Kept(tape[p])
  /\ \A p, q \in DOMAIN tape : \A r \in p .. q : r \in DOMAIN tape
  /\ \A p \in DOMAIN tape : p + 1 \in DOMAIN tape => Joined(tape[p], tape[p + 1])

HInv ==
  /\ Setting
  /\ Conversing
  /\ looping => OnTape

(* From here to a position visited before: the step leads to the machine   *)
(* that is known, or is one that a popl onto itself has made impossible.   *)
LEMMA MoveKnown ==
  ASSUME HInv, looping, step(vm, vm'), at + heading \in DOMAIN tape
  PROVE  /\ vm'.fault = "none" => FacingBy(vm', heading) = tape[at + heading]
         /\ vm'.fault # "none" => PopsOntoItself(FacingBy(tape[at + heading], -heading))
<1>1. at \in Int /\ heading \in {1, -1} /\ Kept(vm) /\ Setting /\ tape[at] = FacingBy(vm, heading)
  BY DEF HInv, Conversing, OnTape, Seen
<1>2. Kept(tape[at]) /\ Kept(tape[at + heading])
  BY DEF HInv, OnTape
<1>3. CASE heading = 1
  <2>1. Joined(vm, tape[at + 1]) /\ vm = tape[at]
    BY <1>1, <1>3 DEF HInv, OnTape, FacingBy
  <2>2. /\ vm'.fault = "none" => vm' = tape[at + 1]
        /\ vm'.fault # "none" => PopsOntoItself(invert_vm_direction(tape[at + 1]))
    BY <1>1, <1>2, <1>3, <2>1, Forwards
  <2> QED BY <1>3, <2>2 DEF FacingBy
<1>4. CASE heading = -1
  <2> DEFINE a == tape[at - 1]
             b == tape[at]
  <2>1. at + heading = at - 1 /\ (at - 1) + 1 = at /\ at - 1 \in DOMAIN tape /\ Kept(a)
    BY <1>1, <1>2, <1>4
  <2>2. Joined(a, b)
    BY <1>1, <2>1 DEF HInv, OnTape
  <2>3. b = invert_vm_direction(vm) /\ vm = invert_vm_direction(b)
    BY <1>1, <1>4, Turned_Kept DEF FacingBy
  <2> HIDE DEF a, b
  <2>4. /\ vm'.fault = "none" => vm' = invert_vm_direction(a)
        /\ vm'.fault # "none" => PopsOntoItself(a)
    BY <1>1, <1>2, <2>1, <2>2, <2>3, Backwards DEF b
  <2>5. invert_vm_direction(invert_vm_direction(a)) = a
    BY <2>1, Turned_Kept
  <2>6. heading # 1 /\ -heading = 1
    BY <1>1, <1>4, Opposite
  <2> QED BY <2>1, <2>4, <2>5, <2>6 DEF FacingBy, a
<1> QED BY <1>1, <1>3, <1>4

-----------------------------------------------------------------------------
(***************************************************************************)
(* What the user has asked for, by the state of the loop.                  *)
(***************************************************************************)
LEMMA RequestCases ==
  /\ thread = "prompt" => Request = T!Asking
  /\ thread # "prompt" /\ continue_running =>
       Request = T!Running(thread = "step" /\ vm.pc \in breakpoints)
  /\ thread # "prompt" /\ ~continue_running =>
       Request = T!Goal(IF thread = "step" /\ remaining_steps = 0
                        THEN at + heading ELSE at + heading * remaining_steps)
<1>1. ASSUME thread = "prompt" PROVE Request = T!Asking
  <2>1. Request = Asked
    BY <1>1 DEF Request
  <2> QED BY <2>1 DEF Asked, T!Asking
<1>2. ASSUME thread # "prompt", continue_running
      PROVE  Request = T!Running(thread = "step" /\ vm.pc \in breakpoints)
  <2>1. Request = Runs
    BY <1>2 DEF Request
  <2> QED BY <2>1 DEF Runs, T!Running
<1>3. ASSUME thread # "prompt", ~continue_running
      PROVE  Request = T!Goal(IF thread = "step" /\ remaining_steps = 0
                               THEN at + heading ELSE at + heading * remaining_steps)
  <2>1. Request = Reaches
    BY <1>3 DEF Request
  <2> QED BY <2>1 DEF Reaches, T!Goal
<1> QED BY <1>1, <1>2, <1>3

LEMMA RequestNext ==
  /\ thread' = "prompt" => Request' = T!Asking
  /\ thread' # "prompt" /\ continue_running' =>
       Request' = T!Running(thread' = "step" /\ vm'.pc \in breakpoints')
  /\ thread' # "prompt" /\ ~continue_running' =>
       Request' = T!Goal(IF thread' = "step" /\ remaining_steps' = 0
                         THEN at' + heading' ELSE at' + heading' * remaining_steps')
<1>1. ASSUME thread' = "prompt" PROVE Request' = T!Asking
  <2>1. Request' = Asked'
    BY <1>1 DEF Request
  <2> QED BY <2>1 DEF Asked, T!Asking
<1>2. ASSUME thread' # "prompt", continue_running'
      PROVE  Request' = T!Running(thread' = "step" /\ vm'.pc \in breakpoints')
  <2>1. Request' = Runs'
    BY <1>2 DEF Request
  <2> QED BY <2>1 DEF Runs, T!Running
<1>3. ASSUME thread' # "prompt", ~continue_running'
      PROVE  Request' = T!Goal(IF thread' = "step" /\ remaining_steps' = 0
                               THEN at' + heading' ELSE at' + heading' * remaining_steps')
  <2>1. Request' = Reaches'
    BY <1>3 DEF Request
  <2> QED BY <2>1 DEF Reaches, T!Goal
<1> QED BY <1>1, <1>2, <1>3

(* The requests differ. *)
LEMMA RequestsDiffer ==
  ASSUME NEW p, NEW q, NEW f \in BOOLEAN, NEW g \in BOOLEAN
  PROVE  /\ T!Goal(p) # T!Running(f) /\ T!Goal(p) # T!Asking /\ T!Running(f) # T!Asking
         /\ T!Goal(p) = T!Goal(q) <=> p = q
         /\ T!Running(f) = T!Running(g) <=> f = g
         /\ T!Goal(p).kind = "goal" /\ T!Running(f).kind = "run"
<1>1. T!Goal(p).kind = "goal" /\ T!Running(f).kind = "run" /\ T!Asking.kind = "ask"
  BY DEF T!Goal, T!Running, T!Asking
<1>2. T!Goal(p).position = p /\ T!Goal(q).position = q
  BY DEF T!Goal
<1>3. T!Running(f).fresh = f /\ T!Running(g).fresh = g
  BY DEF T!Running
<1> QED BY <1>1, <1>2, <1>3

(* Directions times numbers. *)
LEMMA Ahead ==
  ASSUME NEW h \in {1, -1}, NEW n \in Nat
  PROVE  /\ h * n \in Int /\ h * 0 = 0 /\ (n # 0 => h * n # 0)
         /\ n # 0 => h + h * (n - 1) = h * n
<1>1. CASE h = 1
  BY <1>1
<1>2. CASE h = -1
  BY <1>2
<1> QED BY <1>1, <1>2

(* The program does not change, and so what a step is does not. *)
LEMMA SameFetch ==
  ASSUME UNCHANGED program, NEW s
  PROVE  /\ Fetches(s)' <=> Fetches(s)
         /\ Fetch(s)' = Fetch(s) /\ Operand(s)' = Operand(s)
         /\ \A op : (At(s, op)' <=> At(s, op)) /\ (Fw(s, op)' <=> Fw(s, op)) /\ (Bw(s, op)' <=> Bw(s, op))
BY DEF Fetches, Fetch, Operand, At, Fw, Bw

LEMMA SameStep ==
  ASSUME UNCHANGED program, NEW s, NEW t
  PROVE  step(s, t)' <=> step(s, t)
<1>1. RunningInstruction(s, t)' <=> RunningInstruction(s, t)
  BY SameFetch DEF RunningInstruction
<1>2. ConstantInstruction(s, t)' <=> ConstantInstruction(s, t)
  BY SameFetch DEF ConstantInstruction
<1>3. ShuffleInstruction(s, t)' <=> ShuffleInstruction(s, t)
  BY SameFetch DEF ShuffleInstruction
<1>4. FrameInstruction(s, t)' <=> FrameInstruction(s, t)
  BY SameFetch DEF FrameInstruction
<1>5. TransferInstruction(s, t)' <=> TransferInstruction(s, t)
  BY SameFetch DEF TransferInstruction
<1>6. CompareInstruction(s, t)' <=> CompareInstruction(s, t)
  BY SameFetch DEF CompareInstruction
<1>7. UpdateInstruction(s, t)' <=> UpdateInstruction(s, t)
  BY SameFetch DEF UpdateInstruction
<1>8. ArithmeticInstruction(s, t)' <=> ArithmeticInstruction(s, t)
  BY SameFetch DEF ArithmeticInstruction
<1>9. HeapInstruction(s, t)' <=> HeapInstruction(s, t)
  BY SameFetch DEF HeapInstruction
<1> QED BY <1>1, <1>2, <1>3, <1>4, <1>5, <1>6, <1>7, <1>8, <1>9, SameFetch DEF step

LEMMA SameJoined ==
  ASSUME UNCHANGED program, NEW a, NEW b, Joined(a, b)
  PROVE  Joined(a, b)'
<1>1. UndoneBy(a, b)' <=> UndoneBy(a, b)
  BY SameStep DEF UndoneBy
<1>2. \A s : PopsOntoItself(s)' <=> PopsOntoItself(s)
  BY SameFetch DEF PopsOntoItself
<1> QED BY <1>1, <1>2, SameStep DEF Joined

(* A step of the loop that leaves the machine where it is. *)
LEMMA Stands ==
  ASSUME HInv, looping, UNCHANGED <<program, vm, at, heading, tape>>, Conversing'
  PROVE  HInv' /\ Seen' = Seen
<1>1. Setting' /\ Seen' = Seen
  BY DEF HInv, Setting, Seen
<1>2. OnTape'
  <2>1. Kept(vm')
    BY DEF HInv, OnTape
  <2>2. \A p \in DOMAIN tape' : p + 1 \in DOMAIN tape' => Joined(tape[p], tape[p + 1])'
    BY SameJoined DEF HInv, OnTape
  <2> QED BY <1>1, <2>1, <2>2 DEF HInv, OnTape
<1> QED BY <1>1, <1>2 DEF HInv

LEMMA RecordsNothing ==
  ASSUME Conversing, Recording, ~Moved, ~Turned, ~Edited
  PROVE  UNCHANGED <<at, heading, tape, edited>>
BY DEF Conversing, Recording

LEMMA CheckImplements ==
  ASSUME HInv, Check, Recording
  PROVE  /\ HInv'
         /\ T!Ask \/ UNCHANGED T!timelineVars
<1> looping /\ thread = "loop" /\ OnTape /\ Conversing
  BY DEF Check, HInv
<1>1. UNCHANGED <<vars, breakpoints, remaining_steps, last_input>>
  <2>1. PrintedSlots(vm) \subseteq Slots
    BY PrintedExist DEF OnTape, Kept
  <2> QED BY <2>1 DEF Check, print_machine_state, debugger_state
<1>2. \/ requires_user_interaction /\ thread' = "prompt" /\ continue_running' = FALSE
      \/ ~requires_user_interaction /\ thread' = "step" /\ UNCHANGED continue_running
  <2>1. PrintedSlots(vm) \subseteq Slots
    BY PrintedExist DEF OnTape, Kept
  <2> QED BY <2>1 DEF Check, print_machine_state, debugger_state
<1>3. UNCHANGED <<at, heading, tape, edited>>
  BY RecordsNothing DEF Moved, Turned, Edited
<1>4. Conversing'
  BY <1>1, <1>2, <1>3 DEF Conversing
<1>5. HInv' /\ Seen' = Seen
  BY <1>1, <1>3, <1>4, Stands DEF vars
<1>6. CASE requires_user_interaction
  <2>1. T!Arrived
    <3>1. CASE continue_running
      <4>1. vm.pc \in breakpoints /\ Request = T!Running(FALSE)
        BY <1>6, <3>1, RequestCases DEF requires_user_interaction
      <4>2. T!Seen.pc \in breakpoints
        BY <4>1, TSeen DEF OnTape, Conversing
      <4> QED BY <4>1, <4>2 DEF T!Arrived
    <3>2. CASE ~continue_running
      <4>1. Request = T!Goal(at + heading * 0)
        BY <1>6, <3>2, RequestCases DEF requires_user_interaction
      <4>2. at + heading * 0 = at
        BY Ahead DEF Conversing
      <4> QED BY <4>1, <4>2 DEF T!Arrived
    <3> QED BY <3>1, <3>2
  <2>2. Request' = T!Asking
    BY <1>2, <1>6, RequestNext
  <2> QED BY <1>1, <1>3, <1>5, <2>1, <2>2 DEF T!Ask, T!vars, vars
<1>7. CASE ~requires_user_interaction
  <2>1. Request' = Request
    <3>1. CASE continue_running
      <4>1. (thread' = "step" /\ vm'.pc \in breakpoints') = FALSE
        BY <1>1, <1>2, <1>7, <3>1 DEF requires_user_interaction, vars
      <4>2. (thread = "step" /\ vm.pc \in breakpoints) = FALSE
        OBVIOUS
      <4> QED BY <1>2, <1>7, <3>1, <4>1, <4>2, RequestCases, RequestNext
    <3>2. CASE ~continue_running
      <4>1. remaining_steps # 0
        BY <1>7, <3>2 DEF requires_user_interaction
      <4> QED BY <1>1, <1>2, <1>3, <1>7, <3>2, <4>1, RequestCases, RequestNext
    <3> QED BY <3>1, <3>2 DEF Conversing
  <2> QED BY <1>1, <1>3, <1>5, <2>1 DEF T!timelineVars, T!vars, vars
<1> QED BY <1>5, <1>6, <1>7

-----------------------------------------------------------------------------
(***************************************************************************)
(* One instruction.                                                        *)
(***************************************************************************)
LEMMA NotArrived ==
  ASSUME HInv, looping, thread = "step"
  PROVE  Request # T!Asking /\ ~T!Arrived
<1>1. Conversing /\ OnTape /\ T!Seen = vm
  BY TSeen DEF HInv, OnTape, Conversing
<1>2. CASE continue_running
  <2>1. PICK f \in BOOLEAN : Request = T!Running(f) /\ (f <=> vm.pc \in breakpoints)
    BY <1>2, RequestCases
  <2>2. Request # T!Asking /\ Request # T!Goal(at)
    BY <2>1, RequestsDiffer
  <2>3. Request = T!Running(FALSE) => ~(vm.pc \in breakpoints)
    BY <2>1, RequestsDiffer
  <2> QED BY <1>1, <2>2, <2>3 DEF T!Arrived
<1>3. CASE ~continue_running
  <2> DEFINE p == IF remaining_steps = 0 THEN at + heading ELSE at + heading * remaining_steps
  <2>1. Request = T!Goal(p)
    BY <1>3, RequestCases
  <2>2. at \in Int /\ heading \in {1, -1} /\ remaining_steps \in Nat
    BY <1>1 DEF Conversing
  <2>3. p # at
    <3>1. CASE remaining_steps = 0
      BY <2>2, <3>1
    <3>2. CASE remaining_steps # 0
      <4>1. heading * remaining_steps \in Int /\ heading * remaining_steps # 0
        BY <2>2, <3>2, Ahead
      <4> HIDE DEF HInv
      <4> QED BY <2>2, <3>2, <4>1
    <3> QED BY <3>1, <3>2
  <2> HIDE DEF p
  <2>4. Request # T!Asking /\ Request # T!Goal(at) /\ Request # T!Running(FALSE)
    BY <2>1, <2>3, RequestsDiffer
  <2> QED BY <2>4 DEF T!Arrived
<1> QED BY <1>2, <1>3

(* The steps that remain are counted down as the position advances.        *)
LEMMA RequestMoves ==
  ASSUME Conversing, Conversing', thread = "step", thread' = "loop",
         remaining_steps' = step_debugger_state(vm', remaining_steps),
         at' = at + heading, UNCHANGED <<heading, continue_running>>
  PROVE  Request' = IF Request.kind = "run" THEN T!Running(FALSE) ELSE Request
<1>1. CASE continue_running
  <2>1. Request' = T!Running(FALSE)
    <3>1. (thread' = "step" /\ vm'.pc \in breakpoints') = FALSE
      OBVIOUS
    <3> QED BY <1>1, <3>1, RequestNext
  <2>2. PICK f \in BOOLEAN : Request = T!Running(f)
    BY <1>1, RequestCases
  <2> QED BY <2>1, <2>2, RequestsDiffer
<1>2. CASE ~continue_running
  <2>1. at \in Int /\ heading \in {1, -1} /\ remaining_steps \in Nat
    BY DEF Conversing
  <2>2. Request' = T!Goal((at + heading) + heading * remaining_steps')
    BY <1>2, RequestNext
  <2>3. Request = T!Goal(IF remaining_steps = 0 THEN at + heading ELSE at + heading * remaining_steps)
    BY <1>2, RequestCases
  <2>4. (at + heading) + heading * remaining_steps'
          = IF remaining_steps = 0 THEN at + heading ELSE at + heading * remaining_steps
    <3>1. CASE remaining_steps = 0
      <4>1. remaining_steps' = 0 /\ heading * 0 = 0
        BY <2>1, <3>1, Ahead DEF step_debugger_state
      <4> QED BY <2>1, <3>1, <4>1
    <3>2. CASE remaining_steps # 0
      <4>1. remaining_steps' = remaining_steps - 1
        BY <2>1, <3>2 DEF step_debugger_state
      <4> DEFINE m == heading * (remaining_steps - 1)
                 n == heading * remaining_steps
      <4>2. m \in Int /\ n \in Int /\ heading + m = n
        BY <2>1, <3>2, Ahead
      <4> HIDE DEF m, n
      <4>3. (at + heading) + m = at + n
        BY <2>1, <4>2
      <4> QED BY <3>2, <4>1, <4>3 DEF m, n
    <3> QED BY <3>1, <3>2
  <2>5. Request' = Request
    BY <2>2, <2>3, <2>4
  <2>6. Request.kind # "run"
    BY <2>3, RequestsDiffer
  <2> QED BY <2>5, <2>6
<1> QED BY <1>1, <1>2

(* A position not visited before is beyond one end of the tape, and the    *)
(* machine there is joined to the one the step was made from.              *)
LEMMA TapeGrows ==
  ASSUME OnTape, Conversing, Setting, step(vm, vm'), Kept(vm'),
         NEW next, next = at + heading, next \notin DOMAIN tape,
         NEW new, new = [p \in DOMAIN tape \cup {next} |->
                           IF p = next THEN FacingBy(vm', heading) ELSE tape[p]]
  PROVE  /\ DOMAIN new \subseteq Int
         /\ next \in DOMAIN new /\ new[next] = FacingBy(vm', heading)
         /\ \A p \in DOMAIN new : Kept(new[p])
         /\ \A p, q \in DOMAIN new : \A r \in p .. q : r \in DOMAIN new
         /\ \A p \in DOMAIN new : p + 1 \in DOMAIN new => Joined(new[p], new[p + 1])
<1>1. at \in Int /\ heading \in {1, -1} /\ next \in Int /\ DOMAIN tape \subseteq Int /\ at \in DOMAIN tape
  BY DEF Conversing, OnTape
<1>2. DOMAIN new = DOMAIN tape \cup {next} /\ new[next] = FacingBy(vm', heading)
  OBVIOUS
<1>3. \A p \in DOMAIN tape : new[p] = tape[p]
  OBVIOUS
<1>4. \A p \in DOMAIN new : Kept(new[p])
  <2>1. Kept(FacingBy(vm', heading))
    BY <1>1, FacingKept
  <2> QED BY <1>2, <1>3, <2>1 DEF OnTape
<1>5. \A p, q \in DOMAIN tape : \A r \in p .. q : r \in DOMAIN tape
  BY DEF OnTape
<1>6. \A p, q \in DOMAIN new : \A r \in p .. q : r \in DOMAIN new
  <2> SUFFICES ASSUME NEW p \in DOMAIN new, NEW q \in DOMAIN new, NEW r \in p .. q, r # next
               PROVE  r \in DOMAIN tape
    BY <1>2
  <2>1. CASE p # next /\ q # next
    BY <1>2, <1>5, <2>1
  <2>2. CASE p = next /\ q # next
    <3>1. q \in DOMAIN tape /\ (r \in at .. q \/ r \in q .. at)
      BY <1>1, <1>2, <2>2
    <3> QED BY <1>1, <1>5, <3>1
  <2>3. CASE p # next /\ q = next
    <3>1. p \in DOMAIN tape /\ (r \in p .. at \/ r \in at .. p)
      BY <1>1, <1>2, <2>3
    <3> QED BY <1>1, <1>5, <3>1
  <2>4. CASE p = next /\ q = next
    BY <1>1, <2>4
  <2> QED BY <2>1, <2>2, <2>3, <2>4
<1>7. heading = 1 => Joined(tape[at], new[next])
  BY <1>2, StepJoins DEF OnTape, Seen, FacingBy
<1>8. heading = -1 => Joined(new[next], tape[at])
  <2>1. heading = -1 => heading # 1
    OBVIOUS
  <2> QED BY <1>2, <2>1, StepJoins DEF OnTape, Seen, FacingBy
<1>9. ASSUME NEW p \in DOMAIN new, p + 1 \in DOMAIN new
      PROVE  Joined(new[p], new[p + 1])
  <2>1. CASE p # next /\ p + 1 # next
    BY <1>2, <1>3, <1>9, <2>1 DEF OnTape
  <2>2. CASE p = next
    <3>1. p + 1 # next /\ p + 1 \in DOMAIN tape
      BY <1>1, <1>2, <1>9, <2>2
    <3>2. heading = -1
      <4> SUFFICES ASSUME heading = 1 PROVE FALSE
        BY <1>1
      <4>1. next \in at .. (p + 1)
        BY <1>1, <2>2
      <4> QED BY <1>1, <1>5, <3>1, <4>1
    <3>3. p + 1 = at
      BY <1>1, <2>2, <3>2
    <3> QED BY <1>1, <1>3, <1>8, <2>2, <3>2, <3>3
  <2>3. CASE p + 1 = next
    <3>1. p # next /\ p \in DOMAIN tape
      BY <1>1, <1>2, <2>3
    <3>2. heading = 1
      <4> SUFFICES ASSUME heading = -1 PROVE FALSE
        BY <1>1
      <4>1. next \in p .. at
        BY <1>1, <2>3, <3>1
      <4> QED BY <1>1, <1>5, <3>1, <4>1
    <3>3. p = at
      BY <1>1, <2>3, <3>1, <3>2
    <3> QED BY <1>1, <1>3, <1>7, <2>3, <3>2, <3>3
  <2> QED BY <2>1, <2>2, <2>3
<1> QED BY <1>1, <1>2, <1>4, <1>6, <1>9

LEMMA MoveImplements ==
  ASSUME HInv, Step, Recording, vm'.fault = "none"
  PROVE  HInv' /\ T!Move
<1>1. /\ looping /\ thread = "step" /\ step(vm, vm') /\ OnTape /\ Conversing /\ Setting
      /\ UNCHANGED <<program, breakpoints, continue_running, last_input>>
      /\ looping' = vm'.running /\ thread' = "loop"
      /\ remaining_steps' = step_debugger_state(vm', remaining_steps)
  <2>1. looping /\ OnTape /\ Conversing /\ Setting /\ step(vm, vm')
    BY DEF Step, HInv
  <2>2. vm'.running \in BOOLEAN
    <3>1. Outcome(vm, vm')
      BY <2>1, StepOutcome DEF OnTape, Kept, Setting
    <3> QED BY <3>1 DEF Outcome, Sound, VM
  <2> QED BY <2>1, <2>2 DEF Step
<1>2. Kept(vm')
  BY <1>1, StepOutcome DEF OnTape, Kept, Setting, Outcome
<1>3. at \in Int /\ heading \in {1, -1} /\ T!Seen = vm /\ edited = FALSE
  BY <1>1, TSeen DEF Conversing, OnTape
<1>4. /\ edited' = FALSE /\ at' = at + heading /\ heading' = heading
      /\ tape' = IF at' \notin DOMAIN tape
                 THEN [ p \in DOMAIN tape \cup {at'} |->
                          IF p = at' THEN FacingBy(vm', heading) ELSE tape[p] ]
                 ELSE tape
  BY <1>1, <1>3 DEF Recording, Moved, Turned, Edited
<1>5. Seen' = FacingBy(vm', heading) /\ Seen = FacingBy(vm, heading)
  BY <1>4 DEF Seen
<1>6. Conversing'
  <2>1. remaining_steps' \in Nat
    BY <1>1 DEF step_debugger_state, Conversing
  <2> QED BY <1>1, <1>3, <1>4, <2>1 DEF Conversing
<1>7. Request' = IF Request.kind = "run" THEN T!Running(FALSE) ELSE Request
  BY <1>1, <1>4, <1>6, RequestMoves
<1>8. Request # T!Asking /\ ~T!Arrived
  BY <1>1, NotArrived
<1>9. Seen'.fault = "none" /\ Seen'.running = vm'.running
  <2>1. Kept(FacingBy(vm', heading))
    BY <1>2, <1>3, FacingKept
  <2>2. vm' \in VM
    BY <1>2 DEF Kept, Sound
  <2>3. invert_vm_direction(vm').running = vm'.running
    BY <2>2 DEF invert_vm_direction, step_pc, VM
  <2> QED BY <1>5, <2>1, <2>3 DEF Kept, FacingBy
<1>10. OnTape' /\ T!Connected
  <2>1. CASE at' \in DOMAIN tape
    <3>1. tape' = tape /\ Seen' = tape[at']
      BY <1>1, <1>4, <1>5, <2>1, MoveKnown
    <3>2. \A p \in DOMAIN tape' : p + 1 \in DOMAIN tape' => Joined(tape[p], tape[p + 1])'
      BY <1>1, <3>1, SameJoined DEF OnTape
    <3>3. OnTape'
      BY <1>1, <1>2, <2>1, <3>1, <3>2 DEF OnTape
    <3>4. T!Connected
      BY <2>1, <3>1 DEF T!Connected
    <3> QED BY <3>3, <3>4
  <2>2. CASE at' \notin DOMAIN tape
    <3> DEFINE new == [ p \in DOMAIN tape \cup {at'} |->
                          IF p = at' THEN FacingBy(vm', heading) ELSE tape[p] ]
    <3>1. tape' = new
      BY <1>4, <2>2
    <3>2. /\ DOMAIN new \subseteq Int
          /\ at' \in DOMAIN new /\ new[at'] = FacingBy(vm', heading)
          /\ \A p \in DOMAIN new : Kept(new[p])
          /\ \A p, q \in DOMAIN new : \A r \in p .. q : r \in DOMAIN new
          /\ \A p \in DOMAIN new : p + 1 \in DOMAIN new => Joined(new[p], new[p + 1])
      <4> HIDE DEF new
      <4>1. new = [ p \in DOMAIN tape \cup {at'} |->
                      IF p = at' THEN FacingBy(vm', heading) ELSE tape[p] ]
        BY DEF new
      <4> QED BY <1>1, <1>2, <1>4, <2>2, <4>1, TapeGrows
    <3>3. new = [p \in DOMAIN new |-> new[p]]
      OBVIOUS
    <3> HIDE DEF new
    <3>4. \A p \in DOMAIN tape' : p + 1 \in DOMAIN tape' => Joined(tape[p], tape[p + 1])'
      BY <1>1, <3>1, <3>2, SameJoined
    <3>5. OnTape'
      BY <1>2, <1>5, <3>1, <3>2, <3>3, <3>4 DEF OnTape
    <3>6. \/ heading = 1  /\ step(Seen, Seen')
          \/ heading = -1 /\ (step(Seen', Seen) \/ PopsOntoItself(vm))
      <4>1. CASE heading = 1
        BY <1>1, <1>5, <4>1 DEF FacingBy
      <4>2. CASE heading = -1
        <5>1. heading # 1
          BY <4>2
        <5>2. Joined(Seen', Seen) /\ invert_vm_direction(Seen) = vm
          BY <1>1, <1>2, <1>5, <5>1, StepJoins, Turned_Kept DEF FacingBy, OnTape
        <5> QED BY <4>2, <5>2 DEF Joined
      <4> QED BY <1>3, <4>1, <4>2
    <3>7. /\ T!step(Seen, Seen') <=> step(Seen, Seen')
          /\ T!step(Seen', Seen) <=> step(Seen', Seen)
          /\ T!PopsItself(T!Seen) <=> PopsOntoItself(vm)
      BY <1>3, TStep, TFacing
    <3>8. tape' = [p \in DOMAIN tape \cup {at'} |-> IF p = at' THEN Seen' ELSE tape[p]]
      BY <1>5, <3>1 DEF new
    <3> QED BY <2>2, <3>5, <3>6, <3>7, <3>8 DEF T!Connected
  <2> QED BY <2>1, <2>2
<1>11. HInv'
  BY <1>1, <1>6, <1>10 DEF HInv, Setting
<1>12. T!Move
  BY <1>1, <1>4, <1>7, <1>8, <1>9, <1>10 DEF T!Move
<1> QED BY <1>11, <1>12

LEMMA FailImplements ==
  ASSUME HInv, Step, Recording, vm'.fault # "none"
  PROVE  HInv' /\ T!Fail
<1>1. /\ looping /\ thread = "step" /\ step(vm, vm') /\ OnTape /\ Conversing /\ Setting
      /\ UNCHANGED <<program, breakpoints, continue_running, last_input, thread, remaining_steps>>
      /\ looping' = FALSE
  BY DEF Step, HInv
<1>2. Outcome(vm, vm')
  BY <1>1, StepOutcome DEF OnTape, Kept, Setting
<1>3. vm' = Throw(vm, vm'.fault) /\ vm'.fault \in Faults /\ vm \in VM
  BY <1>1, <1>2 DEF Outcome, Sound, VM, OnTape, Kept
<1>4. UNCHANGED <<at, heading, tape, edited>>
  BY <1>1, RecordsNothing DEF Moved, Turned, Edited
<1>5. Seen' = Throw(Seen, vm'.fault)
  BY <1>3, <1>4, FacingThrow DEF Seen
<1>6. Request' = Request
  <2>1. vm'.pc = vm.pc
    BY <1>3 DEF Throw, VM
  <2>2. CASE continue_running
    BY <1>1, <2>1, <2>2, RequestCases, RequestNext
  <2>3. CASE ~continue_running
    BY <1>1, <1>4, <2>3, RequestCases, RequestNext
  <2> QED BY <2>2, <2>3
<1>7. Request # T!Asking /\ ~T!Arrived
  BY <1>1, NotArrived
<1>8. at + heading \in DOMAIN tape => T!PopsItself(T!FacingBy(tape[at + heading], -heading))
  BY <1>1, MoveKnown, TFacing
<1>9. Conversing'
  BY <1>1, <1>4 DEF Conversing
<1>10. HInv'
  BY <1>1, <1>9 DEF HInv, Setting
<1>11. \E fault \in T!Faults : Seen' = T!Throw(Seen, fault)
  BY <1>3, <1>5, TTerms DEF T!Faults, T!Exceptions, Faults, Exceptions
<1> QED BY <1>1, <1>4, <1>6, <1>7, <1>8, <1>10, <1>11 DEF T!Fail

-----------------------------------------------------------------------------
(***************************************************************************)
(* The prompt.                                                             *)
(***************************************************************************)
(* The distance a step command asks for. *)
LEMMA Distance ==
  ASSUME NEW n \in Word
  PROVE  Unsigned32(IF n < 0 THEN NegW(n) ELSE n) = Magnitude(n)
<1> DEFINE w == IF n < 0 THEN NegW(n) ELSE n
           m == Magnitude(n)
           d == 2 * HalfRange
<1>1. m \in 0 .. HalfRange /\ w \in Int /\ (w = m \/ (w = -HalfRange /\ m = HalfRange))
  BY HalfRangeNat DEF Word, NegW, Wrap, Magnitude
<1>2. d \in Nat \ {0} /\ d = 2 * HalfRange /\ HalfRange \in Nat /\ m < d
  BY <1>1, HalfRangeNat
<1> HIDE DEF w, m, d
<1>3. m % d = m
  BY <1>1, <1>2
<1>4. (-HalfRange) % d = HalfRange
  <2> DEFINE r == (-HalfRange) % d
             q == (-HalfRange) \div d
  <2>1. -HalfRange \in Int /\ -HalfRange = d * (-1) + HalfRange
    BY <1>2
  <2> QED BY <1>2, <2>1
<1>5. w % d = m
  BY <1>1, <1>3, <1>4
<1> QED BY <1>5 DEF Unsigned32, w, m, d

(* A command that leaves the machine and the loop's position alone. *)
LEMMA AnswerStands ==
  ASSUME HInv, looping, thread = "prompt", Recording, Conversing',
         UNCHANGED <<program, vm, looping, at, heading, tape>>, thread' = "prompt"
  PROVE  HInv' /\ T!SetBreakpoints
<1>1. HInv' /\ Seen' = Seen
  BY Stands
<1>2. Request = T!Asking /\ Request' = T!Asking
  BY RequestCases, RequestNext
<1> QED BY <1>1, <1>2 DEF T!SetBreakpoints, T!Answers

(* The session ends. *)
LEMMA LeaveImplements ==
  ASSUME HInv, looping, thread = "prompt", Recording, ~Edited, last_input' \in Lines \cup {noInput},
         NEW s \in {vm, Throw(vm, "undefined")}, Leaves(s)
  PROVE  HInv' /\ T!Leave
<1>1. Conversing /\ OnTape /\ UNCHANGED <<program, thread, debugger_state>> /\ vm' = s /\ looping' = FALSE
  BY DEF HInv, Leaves
<1>2. vm \in VM
  BY <1>1 DEF OnTape, Kept, Sound
<1>3. vm'.dir = vm.dir
  BY <1>1, <1>2 DEF Throw, VM
<1>4. UNCHANGED <<at, heading, tape, edited>>
  BY <1>1, <1>3, RecordsNothing DEF Moved, Turned
<1>5. Conversing'
  BY <1>1, <1>4 DEF Conversing, debugger_state
<1>6. HInv'
  BY <1>1, <1>5 DEF HInv, Setting
<1>7. Seen' \in {Seen, T!Throw(Seen, "undefined")}
  BY <1>1, <1>2, <1>4, FacingThrow, TTerms DEF Seen
<1>8. Request = T!Asking /\ Request' = Request
  BY <1>1, RequestCases, RequestNext
<1> QED BY <1>1, <1>4, <1>6, <1>7, <1>8 DEF T!Leave, T!Answers, debugger_state

(* The user turns round, and sees the same machine from the other side.    *)
LEMMA TurnStands ==
  ASSUME HInv, looping, thread = "prompt", Recording, last_input' \in Lines,
         last_input'.command # "set", vm' = invert_vm_direction(vm),
         UNCHANGED <<program, looping>>
  PROVE  /\ UNCHANGED <<at, tape>> /\ heading' = -heading /\ edited' = FALSE
         /\ Seen' = Seen
         /\ Conversing' => HInv'
<1>1. Conversing /\ OnTape /\ Setting
  BY DEF HInv
<1>2. vm'.dir # vm.dir /\ Kept(vm')
  BY <1>1, TurnedTwice, Turned_Kept DEF OnTape, Kept
<1>3. Turned /\ ~Moved /\ ~Edited
  BY <1>2 DEF Turned, Moved, Edited
<1>4. UNCHANGED <<at, tape>> /\ heading' = -heading /\ edited' = FALSE
  BY <1>1, <1>3 DEF Recording, Conversing
<1>5. Seen' = Seen
  BY <1>1, <1>4, FacingKept DEF Seen, OnTape, Conversing
<1>6. \A p \in DOMAIN tape' : p + 1 \in DOMAIN tape' => Joined(tape[p], tape[p + 1])'
  BY <1>1, <1>4, SameJoined DEF OnTape
<1>7. OnTape'
  BY <1>1, <1>2, <1>4, <1>5, <1>6 DEF OnTape
<1> QED BY <1>1, <1>4, <1>5, <1>7 DEF HInv, Setting

LEMMA StepCommandImplements ==
  ASSUME HInv, Recording, NEW l \in Lines, Reads(l), l.command # "set", debug_step(l)
  PROVE  HInv' /\ \E n \in T!Word : T!Walk(n)
<1> DEFINE n == Steps(l.args)
           d == IF n = 0 THEN 1 ELSE Magnitude(n)
<1>1. /\ Conversing /\ OnTape /\ looping /\ thread = "prompt" /\ last_input' = l /\ thread' = "step"
      /\ UNCHANGED <<program, breakpoints, continue_running, looping>>
      /\ vm' = IF n < 0 THEN invert_vm_direction(vm) ELSE vm
      /\ remaining_steps' = Unsigned32(IF n < 0 THEN NegW(n) ELSE n)
  BY DEF Reads, HInv, debug_step, Continues
<1>2. n \in Word /\ n \in Int /\ l.command = "step"
  BY LineTyped, WordInt DEF debug_step
<1> HIDE DEF n
<1>3. remaining_steps' = Magnitude(n) /\ Magnitude(n) \in Nat /\ (Magnitude(n) = 0 <=> n = 0)
  BY <1>1, <1>2, Distance DEF Magnitude
<1>4. ~continue_running /\ ~continue_running' /\ at \in Int /\ heading \in {1, -1} /\ edited = FALSE
  BY <1>1 DEF Conversing
<1>5. /\ UNCHANGED <<at, tape>> /\ edited' = FALSE
      /\ heading' = IF n < 0 THEN -heading ELSE heading
      /\ Seen' = Seen
      /\ HInv'
  <2>1. CASE n < 0
    <3>1. vm' = invert_vm_direction(vm)
      BY <1>1, <2>1
    <3>2. /\ UNCHANGED <<at, tape>> /\ heading' = -heading /\ edited' = FALSE
          /\ Seen' = Seen
          /\ Conversing' => HInv'
      BY <1>1, <3>1, TurnStands
    <3>3. Conversing'
      BY <1>1, <1>3, <1>4, <3>2, Opposite DEF Conversing
    <3> QED BY <2>1, <3>2, <3>3
  <2>2. CASE ~(n < 0)
    <3>1. vm' = vm
      BY <1>1, <2>2
    <3>2. UNCHANGED <<at, heading, tape, edited>>
      BY <1>1, <3>1, RecordsNothing DEF Moved, Turned, Edited
    <3>3. Conversing'
      BY <1>1, <1>3, <1>4, <3>2 DEF Conversing
    <3> QED BY <1>1, <1>4, <2>2, <3>1, <3>2, <3>3, Stands
  <2> QED BY <2>1, <2>2
<1>6. heading' \in {1, -1}
  BY <1>4, <1>5, Opposite
<1>7. Request' = T!Goal(at + heading' * d)
  <2>1. Request' = T!Goal(IF remaining_steps' = 0 THEN at + heading' ELSE at + heading' * remaining_steps')
    <3>1. thread' = "step" /\ thread' # "prompt" /\ ~continue_running'
      BY <1>1, <1>4
    <3>2. at' = at
      BY <1>5
    <3> QED BY <3>1, <3>2, RequestNext
  <2>2. heading' = heading' * 1
    <3>1. CASE heading' = 1
      BY <3>1
    <3>2. CASE heading' = -1
      BY <3>2
    <3> QED BY <1>6, <3>1, <3>2
  <2>3. CASE n = 0
    <3>1. remaining_steps' = 0 /\ d = 1
      BY <1>3, <2>3
    <3> HIDE DEF d
    <3> QED BY <2>1, <2>2, <3>1
  <2>4. CASE n # 0
    BY <1>3, <2>1, <2>4
  <2> QED BY <2>3, <2>4
<1>8. Request = T!Asking
  BY <1>1, RequestCases
<1>9. n \in T!Word /\ d = (IF n = 0 THEN 1 ELSE T!Magnitude(n))
  BY <1>2 DEF T!Word, Word, T!HalfRange, HalfRange, T!Magnitude, Magnitude
<1> HIDE DEF d
<1>10. T!Walk(n)
  BY <1>1, <1>5, <1>7, <1>8, <1>9 DEF T!Walk, T!Answers
<1> QED BY <1>5, <1>9, <1>10

LEMMA RunImplements ==
  ASSUME HInv, Recording, NEW l \in Lines, Reads(l), l.command # "set", debug_run(l)
  PROVE  HInv' /\ T!RunOn
<1>1. /\ Conversing /\ OnTape /\ looping /\ thread = "prompt" /\ last_input' = l /\ thread' = "step"
      /\ UNCHANGED <<program, vm, breakpoints, remaining_steps, looping>>
      /\ continue_running' = TRUE
  BY DEF Reads, HInv, debug_run, Continues
<1>2. UNCHANGED <<at, heading, tape, edited>>
  BY <1>1, RecordsNothing DEF Moved, Turned, Edited
<1>3. Conversing'
  BY <1>1, <1>2 DEF Conversing
<1>4. HInv' /\ Seen' = Seen
  BY <1>1, <1>2, <1>3, Stands
<1>5. T!Seen = vm
  BY <1>1, TSeen DEF Conversing, OnTape
<1>6. Request = T!Asking
  BY <1>1, RequestCases
<1>7. Request' = T!Running(T!Seen.pc \in breakpoints)
  <2>1. Request' = T!Running(thread' = "step" /\ vm'.pc \in breakpoints')
    <3>1. thread' # "prompt" /\ continue_running'
      BY <1>1
    <3> QED BY <3>1, RequestNext
  <2>2. (thread' = "step" /\ vm'.pc \in breakpoints') <=> T!Seen.pc \in breakpoints
    BY <1>1, <1>5
  <2> QED BY <2>1, <2>2
<1> QED BY <1>1, <1>2, <1>4, <1>6, <1>7 DEF T!RunOn, T!Answers

LEMMA InvertImplements ==
  ASSUME HInv, Recording, NEW l \in Lines, Reads(l), l.command # "set", debug_invert(l)
  PROVE  HInv' /\ T!Turn
<1>1. /\ Conversing /\ looping /\ thread = "prompt" /\ last_input' = l
      /\ UNCHANGED <<program, debugger_state, looping, thread>>
      /\ vm' = invert_vm_direction(vm)
  BY DEF Reads, HInv, debug_invert, Prompts
<1>2. /\ UNCHANGED <<at, tape>> /\ heading' = -heading /\ edited' = FALSE
      /\ Seen' = Seen
      /\ Conversing' => HInv'
  BY <1>1, TurnStands
<1>3. Conversing'
  BY <1>1, <1>2, Opposite DEF Conversing, debugger_state
<1>4. Request = T!Asking /\ Request' = T!Asking
  BY <1>1, RequestCases, RequestNext
<1> QED BY <1>1, <1>2, <1>3, <1>4 DEF T!Turn, T!Answers, debugger_state

(* What stays at the prompt, or leaves it for good.                        *)
LEMMA PromptImplements ==
  ASSUME HInv, Recording, NEW l \in Lines, Reads(l), l.command # "set",
         \/ debug_breakpoint_create(l) \/ debug_breakpoint_clear(l) \/ debug_quit(l)
         \/ debug_inspect(l) \/ debug_info(l) \/ Prints(l) \/ Blank(l)
  PROVE  HInv' /\ (T!SetBreakpoints \/ T!Leave)
<1>1. Conversing /\ OnTape /\ looping /\ thread = "prompt" /\ last_input' = l
  BY DEF Reads, HInv
<1>2. PrintedSlots(vm) \subseteq Slots
  BY <1>1, PrintedExist DEF OnTape, Kept
<1>3. \/ UNCHANGED <<program, vm, looping, thread, remaining_steps, continue_running>>
      \/ \E s \in {vm, Throw(vm, "undefined")} : Leaves(s)
  BY <1>2 DEF debug_breakpoint_create, debug_breakpoint_clear, debug_quit, debug_inspect,
     debug_info, Prints, Blank, Prompts, print_machine_state, debugger_state
<1>4. ~Edited
  BY <1>1 DEF Edited
<1>5. CASE UNCHANGED <<program, vm, looping, thread, remaining_steps, continue_running>>
  <2>1. UNCHANGED <<at, heading, tape, edited>>
    BY <1>1, <1>4, <1>5, RecordsNothing DEF Moved, Turned
  <2>2. Conversing'
    BY <1>1, <1>5, <2>1 DEF Conversing
  <2> QED BY <1>1, <1>5, <2>1, <2>2, AnswerStands
<1>6. CASE \E s \in {vm, Throw(vm, "undefined")} : Leaves(s)
  BY <1>1, <1>4, <1>6, LeaveImplements
<1> QED BY <1>3, <1>5, <1>6

(* The lines that come from last_input are lines that were typed; before   *)
(* the first one there is none to repeat.                                  *)
LEMMA CommandImplements ==
  ASSUME HInv, Recording, Command, \A l \in Lines : l.command # "set"
  PROVE  HInv' /\ T!TimelineNext
<1>1. PICK l \in Lines \cup {last_input} :
        /\ Reads(l)
        /\ \/ debug_step(l)
           \/ debug_run(l)
           \/ debug_breakpoint_create(l)
           \/ debug_breakpoint_clear(l)
           \/ debug_invert(l)
           \/ debug_quit(l)
           \/ debug_inspect(l)
           \/ debug_set(l)
           \/ debug_info(l)
           \/ Prints(l)
           \/ Blank(l)
  BY DEF Command
<1>2. l \in Lines /\ l.command # "set"
  <2>1. noInput.command = "none"
    BY DEF noInput
  <2>2. l # noInput
    BY <1>1, <2>1 DEF debug_step, debug_run, debug_breakpoint_create, debug_breakpoint_clear,
       debug_invert, debug_quit, debug_inspect, debug_set, debug_info, Prints, Blank
  <2> QED BY <2>2 DEF HInv, Conversing
<1>3. ~debug_set(l)
  BY <1>2 DEF debug_set
<1>4. CASE debug_step(l)
  BY <1>1, <1>2, <1>4, StepCommandImplements DEF T!TimelineNext
<1>5. CASE debug_run(l)
  BY <1>1, <1>2, <1>5, RunImplements DEF T!TimelineNext
<1>6. CASE debug_invert(l)
  BY <1>1, <1>2, <1>6, InvertImplements DEF T!TimelineNext
<1>7. CASE \/ debug_breakpoint_create(l) \/ debug_breakpoint_clear(l) \/ debug_quit(l)
           \/ debug_inspect(l) \/ debug_info(l) \/ Prints(l) \/ Blank(l)
  BY <1>1, <1>2, <1>7, PromptImplements DEF T!TimelineNext
<1> QED BY <1>1, <1>3, <1>4, <1>5, <1>6, <1>7

-----------------------------------------------------------------------------
(***************************************************************************)
(* The refinement.                                                         *)
(***************************************************************************)
LEMMA TInit ==
  ASSUME heading = 1
  PROVE  Init => T!Init
<1>1. Seen = vm
  BY DEF Seen, FacingBy
<1>2. \A image : T!Boot(image) = Boot(image)
  BY DEF T!Boot, Boot, T!Forward, Forward, T!Addresses, Addresses, T!Slots, Slots
<1>3. \A image, t : T!Construct(image, t) <=> Construct(image, t)
  BY <1>2, TTerms DEF T!Construct, Construct, T!Addresses, Addresses
<1> QED BY <1>1, <1>3 DEF T!Init, Init

LEMMA InitImplements ==
  ASSUME UNSAFE_OPERATIONS = FALSE, StackSize # 0, HistoryInit
  PROVE  HInv /\ T!TimelineInit
<1>1. /\ Init /\ thread = "loop" /\ breakpoints = {} /\ remaining_steps = 0
      /\ continue_running = FALSE /\ last_input = noInput
      /\ at = 0 /\ heading = 1 /\ tape = [p \in {0} |-> vm] /\ edited = FALSE
  BY DEF HistoryInit, DebuggerInit
<1>2. Sound(vm) /\ program \in Seq(Instruction)
  BY <1>1, InitIInv DEF IInv, TypeOK
<1>3. Seen = vm
  BY <1>1 DEF Seen, FacingBy
<1>4. DOMAIN tape = {0} /\ tape[0] = vm
  BY <1>1
<1>5. looping => Kept(vm)
  BY <1>1, <1>2 DEF Init, Kept
<1>6. Conversing
  <2>1. /\ thread = "loop" /\ remaining_steps = 0 /\ continue_running = FALSE
        /\ last_input = noInput /\ at = 0 /\ heading = 1 /\ edited = FALSE
    BY <1>1
  <2>2. remaining_steps \in Nat /\ at \in Int /\ heading \in {1, -1}
    BY <2>1
  <2>3. thread \in {"loop", "prompt", "step"} /\ thread # "prompt"
    BY <2>1
  <2>4. continue_running \in BOOLEAN
    BY <2>1
  <2>5. last_input \in Lines \cup {noInput}
    BY <2>1
  <2> QED BY <2>1, <2>2, <2>3, <2>4, <2>5 DEF Conversing
<1>7. looping => OnTape
  <2>1. \A p \in {0} : ~(p + 1 \in {0})
    OBVIOUS
  <2>2. tape = [p \in DOMAIN tape |-> tape[p]]
    BY <1>1
  <2>3. \A p, q \in {0} : \A r \in p .. q : r \in {0}
    OBVIOUS
  <2> QED BY <1>1, <1>3, <1>4, <1>5, <2>1, <2>2, <2>3 DEF OnTape
<1>8. Request = T!Goal(0)
  <2>1. heading * remaining_steps = 0
    BY <1>1
  <2>2. Request = T!Goal(at + heading * remaining_steps)
    BY <1>1, RequestCases
  <2> QED BY <1>1, <2>1, <2>2
<1> QED BY <1>1, <1>2, <1>3, <1>6, <1>7, <1>8, TInit DEF HInv, Setting, T!TimelineInit

LEMMA NextImplements ==
  ASSUME HInv, [HistoryNext]_historyVars, \A l \in Lines : l.command # "set"
  PROVE  HInv' /\ [T!TimelineNext]_(T!timelineVars)
<1>1. CASE UNCHANGED historyVars
  <2>1. UNCHANGED <<program, vm, looping, thread, breakpoints, remaining_steps,
                    continue_running, last_input, at, heading, tape, edited>>
    BY <1>1 DEF historyVars, debuggerVars, vars, debugger_state
  <2>2. Conversing' /\ Seen' = Seen /\ Request' = Request
    BY <2>1 DEF HInv, Conversing, Seen, Request, Asked, Runs, Reaches
  <2>3. HInv'
    BY <2>1, <2>2, Stands DEF HInv, Setting
  <2> QED BY <2>1, <2>2, <2>3 DEF T!timelineVars, T!vars
<1>2. CASE HistoryNext
  <2> Recording
    BY <1>2 DEF HistoryNext
  <2>1. CASE Check
    BY <2>1, CheckImplements DEF T!TimelineNext
  <2>2. CASE Step
    BY <2>2, MoveImplements, FailImplements DEF T!TimelineNext
  <2>3. CASE Command
    BY <2>3, CommandImplements
  <2>4. CASE EndOfInput
    <3>1. looping /\ thread = "prompt" /\ Leaves(vm) /\ last_input' = last_input
      BY <2>4 DEF EndOfInput
    <3>2. last_input' \in Lines \cup {noInput} /\ noInput.command = "none"
      BY <3>1 DEF HInv, Conversing, noInput
    <3>3. ~Edited
      BY <3>2 DEF Edited
    <3> QED BY <3>1, <3>2, <3>3, LeaveImplements DEF T!TimelineNext
  <2> QED BY <1>2, <2>1, <2>2, <2>3, <2>4 DEF HistoryNext, DebuggerNext
<1> QED BY <1>1, <1>2

(* As long as nobody can type set, the debugger moves along one line of    *)
(* machines: on stacks of one slot or more, for every program, whichever   *)
(* instructions it is made of and wherever the user turns round in it.     *)
THEOREM DebuggerImplementsTimeline ==
  ASSUME UNSAFE_OPERATIONS = FALSE, StackSize # 0,
         \A l \in Lines : l.command # "set"
  PROVE  HistorySpec => ImplementsTimeline
<1>1. HistoryInit => HInv /\ T!TimelineInit
  BY InitImplements
<1>2. HInv /\ [HistoryNext]_historyVars => HInv' /\ [T!TimelineNext]_(T!timelineVars)
  BY NextImplements
<1> QED BY <1>1, <1>2, PTL DEF HistorySpec, ImplementsTimeline, T!TimelineSpec

-----------------------------------------------------------------------------
(***************************************************************************)
(* No machine twice.  At the start the machine is not running and anywhere *)
(* else it is, so a session that lives has left the start for one side     *)
(* only.  A machine met again would have been come to from the same        *)
(* machine before, and so on back to the start.                            *)
(***************************************************************************)
Trodden ==
  /\ 0 \in DOMAIN tape
  /\ \A p \in DOMAIN tape : tape[p].running <=> p # 0
  /\ at = 0 => \A p \in DOMAIN tape : p = 0
  /\ (\A p \in DOMAIN tape : p >= 0) \/ (\A p \in DOMAIN tape : p <= 0)

NInv == HInv /\ (looping => Trodden) /\ NeverTwice

(* The position of a machine and of the one that a step makes of it.       *)
LEMMA NewOnTape ==
  ASSUME OnTape, Conversing, Setting, Trodden, NeverTwice, looping,
         step(vm, vm'), Kept(vm'), vm'.running,
         NEW next, next = at + heading, next \notin DOMAIN tape,
         NEW new, new = [p \in DOMAIN tape \cup {next} |->
                           IF p = next THEN FacingBy(vm', heading) ELSE tape[p]]
  PROVE  /\ 0 \in DOMAIN new
         /\ \A p \in DOMAIN new : new[p].running <=> p # 0
         /\ next # 0
         /\ (\A p \in DOMAIN new : p >= 0) \/ (\A p \in DOMAIN new : p <= 0)
         /\ \A p, q \in DOMAIN new : new[p] = new[q] => p = q
<1>1. /\ at \in Int /\ heading \in {1, -1} /\ next \in Int /\ DOMAIN tape \subseteq Int
      /\ at \in DOMAIN tape /\ 0 \in DOMAIN tape /\ next # 0
  BY DEF Conversing, OnTape, Trodden
<1>2. DOMAIN new = DOMAIN tape \cup {next} /\ \A p \in DOMAIN tape : new[p] = tape[p]
  OBVIOUS
<1>3. new[next].running
  <2>1. vm' \in VM /\ new[next] = FacingBy(vm', heading)
    BY DEF Kept, Sound
  <2>2. invert_vm_direction(vm').running = vm'.running
    BY <2>1 DEF invert_vm_direction, step_pc, VM
  <2> QED BY <2>1, <2>2 DEF FacingBy
<1>4. \A p \in DOMAIN new : new[p].running <=> p # 0
  BY <1>1, <1>2, <1>3 DEF Trodden
<1>5. /\ \A p \in DOMAIN new : Kept(new[p])
      /\ \A p \in DOMAIN new : p + 1 \in DOMAIN new => Joined(new[p], new[p + 1])
  BY TapeGrows
<1>6. \A p, q \in DOMAIN tape : \A r \in p .. q : r \in DOMAIN tape
  BY DEF OnTape
<1>7. \/ next > 0 /\ heading = 1 /\ \A p \in DOMAIN tape : p >= 0
      \/ next < 0 /\ heading = -1 /\ \A p \in DOMAIN tape : p <= 0
  <2>1. CASE at = 0
    <3>1. \A p \in DOMAIN tape : p = 0
      BY <2>1 DEF Trodden
    <3> QED BY <1>1, <2>1, <3>1
  <2>2. CASE at > 0
    <3>1. \A p \in DOMAIN tape : p >= 0
      BY <1>1, <2>2 DEF Trodden
    <3>2. next \notin 0 .. at
      BY <1>1, <1>6
    <3> QED BY <1>1, <2>2, <3>1, <3>2
  <2>3. CASE at < 0
    <3>1. \A p \in DOMAIN tape : p <= 0
      BY <1>1, <2>3 DEF Trodden
    <3>2. next \notin at .. 0
      BY <1>1, <1>6
    <3> QED BY <1>1, <2>3, <3>1, <3>2
  <2> QED BY <1>1, <2>1, <2>2, <2>3
<1>8. ASSUME NEW q \in DOMAIN tape, new[next] = new[q]
      PROVE  FALSE
  <2>1. q # 0 /\ q # next /\ q \in Int
    BY <1>1, <1>2, <1>3, <1>4, <1>8
  <2>2. CASE next > 0 /\ heading = 1 /\ \A p \in DOMAIN tape : p >= 0
    <3>1. q - 1 \in DOMAIN tape /\ (q - 1) + 1 = q /\ at + 1 = next
      <4>1. q - 1 \in 0 .. q
        BY <2>1, <2>2
      <4> QED BY <1>1, <1>6, <2>1, <2>2, <4>1
    <3>2. Joined(new[q - 1], new[q]) /\ Joined(new[at], new[next])
      BY <1>1, <1>2, <1>5, <3>1
    <3>3. new[q - 1] = new[at]
      <4>1. Kept(new[q - 1]) /\ Kept(new[q]) /\ Kept(new[at])
        BY <1>1, <1>2, <1>5, <3>1
      <4> QED BY <1>8, <3>2, <4>1, OnePredecessor
    <3>4. q - 1 = at
      BY <1>1, <1>2, <3>1, <3>3 DEF NeverTwice
    <3> QED BY <2>1, <3>1, <3>4
  <2>3. CASE next < 0 /\ heading = -1 /\ \A p \in DOMAIN tape : p <= 0
    <3>1. q + 1 \in DOMAIN tape /\ next + 1 = at
      <4>1. q + 1 \in q .. 0
        BY <2>1, <2>3
      <4> QED BY <1>1, <1>6, <2>1, <2>3, <4>1
    <3>2. Joined(new[q], new[q + 1]) /\ Joined(new[next], new[at])
      BY <1>1, <1>2, <1>5, <3>1
    <3>3. new[q + 1] = new[at]
      <4>1. Kept(new[q + 1]) /\ Kept(new[q]) /\ Kept(new[at])
        BY <1>1, <1>2, <1>5, <3>1
      <4> QED BY <1>8, <3>2, <4>1, OneSuccessor
    <3>4. q + 1 = at
      BY <1>1, <1>2, <3>1, <3>3 DEF NeverTwice
    <3> QED BY <1>1, <2>1, <3>1, <3>4
  <2> QED BY <1>7, <2>2, <2>3
<1>9. \A p, q \in DOMAIN new : new[p] = new[q] => p = q
  BY <1>2, <1>8 DEF NeverTwice
<1>10. (\A p \in DOMAIN new : p >= 0) \/ (\A p \in DOMAIN new : p <= 0)
  BY <1>1, <1>2, <1>7
<1> QED BY <1>1, <1>2, <1>4, <1>9, <1>10

LEMMA MoveNever ==
  ASSUME NInv, Step, Recording, vm'.fault = "none", looping'
  PROVE  Trodden' /\ NeverTwice'
<1>1. /\ looping /\ OnTape /\ Conversing /\ Setting /\ Trodden /\ NeverTwice
      /\ step(vm, vm') /\ vm'.running /\ ~Turned /\ ~Edited /\ Moved
  BY DEF NInv, HInv, Step, Turned, Edited, Moved
<1>2. /\ at' = at + heading /\ heading' = heading
      /\ tape' = IF at' \notin DOMAIN tape
                 THEN [ p \in DOMAIN tape \cup {at'} |->
                          IF p = at' THEN FacingBy(vm', heading) ELSE tape[p] ]
                 ELSE tape
  BY <1>1 DEF Recording, Conversing
<1>3. HInv' /\ Kept(vm')
  BY MoveImplements DEF NInv, HInv, OnTape
<1>4. CASE at' \in DOMAIN tape
  <2>1. tape' = tape /\ tape[at'] = FacingBy(vm', heading)
    BY <1>1, <1>2, <1>4, MoveKnown DEF NInv
  <2>2. tape[at'].running
    <3>1. vm' \in VM
      BY <1>3 DEF Kept, Sound
    <3>2. invert_vm_direction(vm').running = vm'.running
      BY <3>1 DEF invert_vm_direction, step_pc, VM
    <3> QED BY <1>1, <2>1, <3>2 DEF FacingBy
  <2>3. at' # 0
    BY <1>1, <1>4, <2>2 DEF Trodden
  <2> QED BY <1>1, <2>1, <2>3 DEF Trodden, NeverTwice
<1>5. CASE at' \notin DOMAIN tape
  <2> DEFINE new == [ p \in DOMAIN tape \cup {at'} |->
                        IF p = at' THEN FacingBy(vm', heading) ELSE tape[p] ]
  <2>1. tape' = new
    BY <1>2, <1>5
  <2> HIDE DEF new
  <2>2. /\ 0 \in DOMAIN new
        /\ \A p \in DOMAIN new : new[p].running <=> p # 0
        /\ at' # 0
        /\ (\A p \in DOMAIN new : p >= 0) \/ (\A p \in DOMAIN new : p <= 0)
        /\ \A p, q \in DOMAIN new : new[p] = new[q] => p = q
    <3>1. new = [ p \in DOMAIN tape \cup {at'} |->
                    IF p = at' THEN FacingBy(vm', heading) ELSE tape[p] ]
      BY DEF new
    <3> QED BY <1>1, <1>2, <1>3, <1>5, <3>1, NewOnTape
  <2> QED BY <2>1, <2>2 DEF Trodden, NeverTwice
<1> QED BY <1>4, <1>5

(* Only steps of the program move the position and prolong the tape.       *)
LEMMA NextNever ==
  ASSUME NInv, [HistoryNext]_historyVars, \A l \in Lines : l.command # "set"
  PROVE  NInv'
<1>1. HInv'
  BY NextImplements DEF NInv
<1> SUFFICES ASSUME looping' PROVE Trodden' /\ NeverTwice'
  BY <1>1 DEF NInv, NeverTwice
<1>2. CASE UNCHANGED <<at, tape>> /\ looping
  BY <1>2 DEF NInv, Trodden, NeverTwice
<1>3. CASE Step /\ Recording /\ vm'.fault = "none"
  BY <1>3, MoveNever
<1>4. looping /\ (UNCHANGED <<at, tape>> \/ (Step /\ Recording /\ vm'.fault = "none"))
  <2>1. CASE UNCHANGED historyVars
    BY <2>1 DEF historyVars, debuggerVars, vars
  <2>2. CASE HistoryNext
    <3>1. Recording /\ looping
      BY <2>2 DEF HistoryNext, DebuggerNext, Check, Step, Command, Reads, EndOfInput
    <3>2. edited' = FALSE
      BY <1>1 DEF HInv, Conversing
    <3>3. ~Moved => UNCHANGED <<at, tape>>
      BY <3>1, <3>2 DEF Recording
    <3>4. Moved => Step
      BY <2>2 DEF HistoryNext, DebuggerNext, Moved, Check, Command, Reads, EndOfInput
    <3> QED BY <3>1, <3>3, <3>4 DEF Moved
  <2> QED BY <2>1, <2>2
<1> QED BY <1>2, <1>3, <1>4

LEMMA InitNever ==
  ASSUME UNSAFE_OPERATIONS = FALSE, StackSize # 0, HistoryInit
  PROVE  NInv
<1>1. HInv
  BY InitImplements
<1>2. at = 0 /\ tape = [p \in {0} |-> vm]
  BY DEF HistoryInit
<1>3. ~vm.running
  <2> PICK image \in Images : Construct(image, vm)
    BY DEF HistoryInit, DebuggerInit, Init
  <2> DEFINE boot == Boot(image)
  <2>1. vm = boot \/ \E fault : vm = Throw(boot, fault)
    BY DEF Construct
  <2>2. ~boot.running /\ \A fault : Throw(boot, fault).running = boot.running
    BY DEF Boot, Throw
  <2> HIDE DEF boot
  <2> QED BY <2>1, <2>2
<1>4. DOMAIN tape = {0} /\ tape[0] = vm
  BY <1>2
<1>5. Trodden /\ NeverTwice
  BY <1>2, <1>3, <1>4 DEF Trodden, NeverTwice
<1> QED BY <1>1, <1>5 DEF NInv

(* Nobody meets a machine twice, as long as nobody can type set: on stacks *)
(* of one slot or more, for every program and however it is walked.        *)
THEOREM NoMachineTwice ==
  ASSUME UNSAFE_OPERATIONS = FALSE, StackSize # 0,
         \A l \in Lines : l.command # "set"
  PROVE  HistorySpec => []NeverTwice
<1>1. HistoryInit => NInv
  BY InitNever
<1>2. NInv /\ [HistoryNext]_historyVars => NInv'
  BY NextNever
<1>3. NInv => NeverTwice
  BY DEF NInv
<1> QED BY <1>1, <1>2, <1>3, PTL DEF HistorySpec

-----------------------------------------------------------------------------
(***************************************************************************)
(* Only so many machines.                                                  *)
(***************************************************************************)
(* What the machine may be while the loop lives. *)
Machines == { s \in VM : s.fault = "none" /\ s.sp \in 0 .. StackSize }

LEMMA FunctionsFinite ==
  ASSUME NEW A, IsFiniteSet(A), NEW B, IsFiniteSet(B)
  PROVE  IsFiniteSet([A -> B])
<1> DEFINE Graph(f) == { p \in A \X B : p[2] = f[p[1]] }
           graph == [f \in [A -> B] |-> Graph(f)]
<1>1. IsFiniteSet(SUBSET (A \X B))
  BY FS_Product, FS_SUBSET
<1>2. \A f, g \in [A -> B] : Graph(f) = Graph(g) => f = g
  <2> TAKE f, g \in [A -> B]
  <2> HAVE Graph(f) = Graph(g)
  <2>1. ASSUME NEW x \in A PROVE f[x] = g[x]
    <3>1. <<x, f[x]>> \in Graph(f)
      OBVIOUS
    <3>2. <<x, f[x]>> \in Graph(g)
      BY <3>1
    <3> QED BY <3>2
  <2> QED BY <2>1
<1>3. graph \in [[A -> B] -> SUBSET (A \X B)]
  OBVIOUS
<1> HIDE DEF Graph
<1>4. graph \in Injection([A -> B], SUBSET (A \X B))
  BY <1>2, <1>3 DEF Injection, IsInjective
<1> HIDE DEF graph
<1> QED BY <1>1, <1>4, FS_Injection

LEMMA MachinesFinite == IsFiniteSet(Machines)
<1> DEFINE control   == ({Forward, Backward} \X BOOLEAN) \X (Word \X Word)
           storage   == ((0 .. StackSize) \X Word) \X ([Addresses -> Word] \X [Slots -> Word])
           parts(s)  == << << <<s.dir, s.running>>, <<s.pc, s.br>> >>,
                           << <<s.sp, s.fp>>, <<s.memory, s.stack>> >> >>
           taken     == [s \in Machines |-> parts(s)]
<1>1. /\ IsFiniteSet(Word) /\ IsFiniteSet(Slots) /\ IsFiniteSet(Addresses)
      /\ IsFiniteSet(0 .. StackSize)
  <2>1. /\ -HalfRange \in Int /\ HalfRange - 1 \in Int /\ StackSize - 1 \in Int
        /\ MemorySize - 1 \in Int /\ StackSize \in Int /\ 0 \in Int
    BY SizeAssumption, HalfRangeNat
  <2> QED BY <2>1, FS_Interval DEF Word, Slots, Addresses
<1>2. IsFiniteSet([Addresses -> Word]) /\ IsFiniteSet([Slots -> Word])
  BY <1>1, FunctionsFinite
<1>3. IsFiniteSet({Forward, Backward}) /\ IsFiniteSet(BOOLEAN)
  <2>1. \A a, b : IsFiniteSet({a, b})
    <3> TAKE a, b
    <3>1. IsFiniteSet({a})
      BY FS_Singleton
    <3>2. IsFiniteSet({a} \cup {b})
      BY <3>1, FS_AddElement
    <3>3. {a} \cup {b} = {a, b}
      OBVIOUS
    <3> QED BY <3>2, <3>3
  <2>2. BOOLEAN = {TRUE, FALSE}
    OBVIOUS
  <2> QED BY <2>1, <2>2
<1>4. IsFiniteSet(control \X storage)
  <2>1. IsFiniteSet({Forward, Backward} \X BOOLEAN) /\ IsFiniteSet(Word \X Word)
    BY <1>1, <1>3, FS_Product
  <2>2. IsFiniteSet((0 .. StackSize) \X Word) /\ IsFiniteSet([Addresses -> Word] \X [Slots -> Word])
    BY <1>1, <1>2, FS_Product
  <2>3. IsFiniteSet(control) /\ IsFiniteSet(storage)
    BY <2>1, <2>2, FS_Product
  <2> HIDE DEF control, storage
  <2> QED BY <2>3, FS_Product
<1>5. \A s \in Machines : parts(s) \in control \X storage
  BY DEF Machines, VM
<1>6. \A s, u \in Machines : parts(s) = parts(u) => s = u
  BY DEF Machines, VM
<1> HIDE DEF parts, control, storage
<1>7. taken \in Injection(Machines, control \X storage)
  BY <1>5, <1>6 DEF Injection, IsInjective
<1> HIDE DEF taken
<1> QED BY <1>4, <1>7, FS_Injection

(* How far a session can have gone. *)
WithinMachines ==
  looping => IsFiniteSet(DOMAIN tape) /\ Cardinality(DOMAIN tape) <= Cardinality(Machines)

LEMMA NeverEndless == NInv => WithinMachines
<1> SUFFICES ASSUME NInv, looping
             PROVE  IsFiniteSet(DOMAIN tape) /\ Cardinality(DOMAIN tape) <= Cardinality(Machines)
  BY DEF WithinMachines
<1>1. \A p \in DOMAIN tape : tape[p] \in Machines
  BY StackPointer DEF NInv, HInv, OnTape, Kept, Machines, Sound
<1>2. tape = [p \in DOMAIN tape |-> tape[p]] /\ \A p, q \in DOMAIN tape : tape[p] = tape[q] => p = q
  BY DEF NInv, HInv, OnTape, NeverTwice
<1>3. tape \in Injection(DOMAIN tape, Machines)
  <2>1. tape \in [DOMAIN tape -> Machines]
    BY <1>1, <1>2
  <2> QED BY <1>2, <2>1 DEF Injection, IsInjective
<1> QED BY <1>3, MachinesFinite, FS_Injection

(* A session that lives has visited no more positions than there are       *)
(* machines (MachinesFinite), whatever the program and the user do: what   *)
(* the walks and runs to new positions can cost is bounded by the sizes    *)
(* of the words, the stack and the memory alone.                           *)
THEOREM SessionsAreBounded ==
  ASSUME UNSAFE_OPERATIONS = FALSE, StackSize # 0,
         \A l \in Lines : l.command # "set"
  PROVE  HistorySpec => []WithinMachines
<1>1. HistoryInit => NInv
  BY InitNever
<1>2. NInv /\ [HistoryNext]_historyVars => NInv'
  BY NextNever
<1> QED BY <1>1, <1>2, NeverEndless, PTL DEF HistorySpec
=============================================================================
