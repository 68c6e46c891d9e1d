----------------------------- MODULE MainProofs -----------------------------
(***************************************************************************)
(* The process as a whole: what parse_file may return is assembled, and    *)
(* what assemble returns is executed, with or without the debugger.        *)
(*                                                                         *)
(* Three properties of the composition, each with an invariant that joins  *)
(* those of its parts.  Jumps land on their labels, because the assembler  *)
(* has numbered the lines and the machine reads its distances back.  An    *)
(* entropy of zero is a clean machine, because the checks leave nothing    *)
(* above the stack pointer.  Who steps back over start has uncomputed      *)
(* everything, because the debugger moves along a line of machines that    *)
(* undo each other.  (The history variables of DebuggerProofs play no part *)
(* here.)                                                                  *)
(***************************************************************************)
EXTENDS Main, DebuggerProofs, FiniteSetTheorems

-----------------------------------------------------------------------------
(***************************************************************************)
(* The assembler of the process is the assembler AssemblerProofs is about. *)
(***************************************************************************)
AP == INSTANCE AssemblerProofs WITH program <- source

(* What the assembler's proofs assume is assumed here.                     *)
LEMMA WidthHolds == AP!WidthAssumption
BY WidthAssumption DEF AP!WidthAssumption

(* ... the laws of the bitwise operators, those of ^ included, and the     *)
(* shape of the programs.                                                  *)
LEMMA BitwiseHolds == AP!BitwiseAssumption
BY BitwiseAssumption
   DEF BitwiseAssumption, AP!BitwiseAssumption, AP!Word, AP!HalfRange, Word, HalfRange

LEMMA XorHolds == AP!XorAssumption
BY XorAssumption DEF AP!XorAssumption

LEMMA ProgramsHold == AP!ProgramsAssumption
<1>1. A!ParsedPrograms = AP!ParsedPrograms /\ A!HalfRange = AP!HalfRange
  BY DEF A!BssLines, AP!BssLines, A!CodeLines, AP!CodeLines, A!ComplexOperands,
         AP!ComplexOperands, A!DataLines, AP!DataLines, A!HalfRange,
         AP!HalfRange, A!KNOWN_INSTRUCTIONS, AP!KNOWN_INSTRUCTIONS, A!Labels,
         AP!Labels, A!Operands, AP!Operands, A!ParsedPrograms, AP!ParsedPrograms,
         A!PrimitiveOperands, AP!PrimitiveOperands, A!Word, AP!Word, A!noOperand,
         AP!noOperand
<1> QED BY <1>1, ParsedAssumption DEF A!ProgramsAssumption, AP!ProgramsAssumption

(* The terms the actions are built from are the same ...                   *)
LEMMA SamePlace ==
  /\ A!Id = AP!Id /\ A!Current = AP!Current
  /\ \A p : A!SectionOf(p) = AP!SectionOf(p) /\ A!Following(p) = AP!Following(p)
  /\ \A p : A!At(p) <=> AP!At(p)
  /\ A!EndOfSection <=> AP!EndOfSection
  /\ \A e : A!Throw(e) <=> AP!Throw(e)
  /\ A!Proceed <=> AP!Proceed
BY DEF A!At, AP!At, A!Current, AP!Current, A!EndOfSection, AP!EndOfSection,
       A!Following, AP!Following, A!Id, AP!Id, A!LineAt, AP!LineAt, A!Passes,
       AP!Passes, A!Proceed, AP!Proceed, A!SectionOf, AP!SectionOf, A!Throw,
       AP!Throw, A!Working, AP!Working, A!layoutVars, AP!layoutVars,
       A!translationVars, AP!translationVars

(* ... the values of operands ...                                          *)
LEMMA SameValues ==
  ASSUME NEW o
  PROVE  /\ A!RestrictEvaluates(o) <=> AP!RestrictEvaluates(o)
         /\ A!restrict_eval(o) = AP!restrict_eval(o)
         /\ \A t : A!Evaluates(o, t) <=> AP!Evaluates(o, t)
         /\ \A p, t : A!eval(o, p, t) = AP!eval(o, p, t)
BY DEF A!AddW, AP!AddW, A!Evaluates, AP!Evaluates, A!HalfRange, AP!HalfRange,
       A!Primitives, AP!Primitives, A!RestrictEvaluates, AP!RestrictEvaluates,
       A!SubW, AP!SubW, A!Wrap, AP!Wrap, A!eval, AP!eval, A!eval_primitive,
       AP!eval_primitive, A!restrict_eval, AP!restrict_eval

(* ... what is asked of a line ...                                         *)
LEMMA SameLine ==
  ASSUME NEW l
  PROVE  /\ A!TakesMemory(l) <=> AP!TakesMemory(l)
         /\ A!NamesSymbol(l) <=> AP!NamesSymbol(l)
         /\ A!IsStart(l) <=> AP!IsStart(l)
         /\ A!IsStop(l) <=> AP!IsStop(l)
         /\ A!Names(l) = AP!Names(l)
         /\ A!FixedOperands(l) = AP!FixedOperands(l)
         /\ A!Size(l) = AP!Size(l)
         /\ A!Range(l.data) = AP!Range(l.data)
         /\ \A v, p : A!encode(l, v, p) = AP!encode(l, v, p)
<1>1. /\ A!TakesMemory(l) <=> AP!TakesMemory(l)
      /\ A!NamesSymbol(l) <=> AP!NamesSymbol(l)
      /\ A!IsStart(l) <=> AP!IsStart(l)
      /\ A!IsStop(l) <=> AP!IsStop(l)
      /\ A!Range(l.data) = AP!Range(l.data)
  BY DEF A!IsStart, AP!IsStart, A!IsStop, AP!IsStop, A!NamesSymbol,
         AP!NamesSymbol, A!Range, AP!Range, A!TakesMemory, AP!TakesMemory
<1>2. A!Names(l) = AP!Names(l) /\ A!FixedOperands(l) = AP!FixedOperands(l)
  BY <1>1 DEF A!Names, AP!Names, A!FixedOperands, AP!FixedOperands
<1>3. A!Size(l) = AP!Size(l)
  BY SameValues DEF A!Size, AP!Size
<1>4. \A v, p : A!encode(l, v, p) = AP!encode(l, v, p)
  BY DEF A!ABSOLUTE, AP!ABSOLUTE, A!HalfRange, AP!HalfRange, A!RELATIVE,
         AP!RELATIVE, A!SubW, AP!SubW, A!UPPER, AP!UPPER, A!Wrap, AP!Wrap,
         A!encode, AP!encode, A!operand_high_value, AP!operand_high_value,
         A!operand_low_value, AP!operand_low_value
<1> QED BY <1>1, <1>2, <1>3, <1>4

(* ... the entries of the tables ...                                       *)
LEMMA SameSymbols ==
  /\ \A n : A!Fresh(n) <=> AP!Fresh(n)
  /\ \A n, a : A!enter_symbols(n, a) <=> AP!enter_symbols(n, a)
  /\ \A f, x, v : A!With(f, x, v) = AP!With(f, x, v)
  /\ A!Contains(A!IsStart) <=> AP!Contains(AP!IsStart)
  /\ A!Contains(A!IsStop) <=> AP!Contains(AP!IsStop)
BY DEF A!Contains, AP!Contains, A!Fresh, AP!Fresh, A!Id, AP!Id, A!IsInjective,
       AP!IsInjective, A!IsStart, AP!IsStart, A!IsStop, AP!IsStop, A!Range,
       AP!Range, A!SectionOf, AP!SectionOf, A!With, AP!With, A!enter_symbols,
       AP!enter_symbols

(* ... and so are the actions.                                             *)
LEMMA SameFixAddress == A!FixAddress <=> AP!FixAddress
BY SamePlace, SameValues, SameLine, SameSymbols
   DEF A!FixAddress, AP!FixAddress, A!Check, AP!Check, A!layoutVars,
       AP!layoutVars, A!translationVars, AP!translationVars

(* One lemma for each action.                                              *)
LEMMA SameFixSymbol == A!FixSymbol <=> AP!FixSymbol
BY SamePlace, SameValues, SameLine, SameSymbols
   DEF A!FixSymbol, AP!FixSymbol, A!Check, AP!Check, A!layoutVars,
       AP!layoutVars, A!translationVars, AP!translationVars

LEMMA SameAllocate ==
  ASSUME NEW size
  PROVE  A!allocate_range(size) <=> AP!allocate_range(size)
<1>1. A!AddW(base_address, size) = AP!AddW(base_address, size)
  BY DEF A!AddW, AP!AddW, A!Wrap, AP!Wrap, A!HalfRange, AP!HalfRange
<1>2. \A c : A!Collide(c) <=> AP!Collide(c)
  BY DEF A!Collide, AP!Collide, A!translationVars, AP!translationVars
<1>3. \A range : A!Reserve(range, size) <=> AP!Reserve(range, size)
  BY SamePlace, SameSymbols DEF A!Reserve, AP!Reserve, A!translationVars, AP!translationVars
<1> QED BY <1>1, <1>2, <1>3, SamePlace, SameSymbols
        DEF A!allocate_range, AP!allocate_range, A!Check, AP!Check

LEMMA SameLayoutMemory == A!LayoutMemory <=> AP!LayoutMemory
<1>1. (\A operand \in A!FixedOperands(A!Current) : A!RestrictEvaluates(operand))
        <=> \A operand \in AP!FixedOperands(AP!Current) : AP!RestrictEvaluates(operand)
  BY SamePlace, SameValues, SameLine
<1>2. A!Size(A!Current) = AP!Size(AP!Current)
  BY SamePlace, SameLine
<1>3. A!allocate_range(A!Size(A!Current)) <=> AP!allocate_range(AP!Size(AP!Current))
  BY <1>2, SameAllocate
<1> QED BY <1>1, <1>3, SamePlace DEF A!LayoutMemory, AP!LayoutMemory, A!Check, AP!Check

LEMMA SameLayoutInstruction == A!LayoutInstruction <=> AP!LayoutInstruction
BY SamePlace, SameValues, SameLine, SameSymbols
   DEF A!LayoutInstruction, AP!LayoutInstruction, A!Check, AP!Check,
       A!layoutVars, AP!layoutVars, A!translationVars, AP!translationVars

LEMMA SameBuildWords == A!BuildWords <=> AP!BuildWords
BY DEF A!AddW, AP!AddW, A!At, AP!At, A!BuildWords, AP!BuildWords, A!Check,
       AP!Check, A!Current, AP!Current, A!Evaluates, AP!Evaluates, A!HalfRange,
       AP!HalfRange, A!Id, AP!Id, A!LineAt, AP!LineAt, A!Primitives,
       AP!Primitives, A!Proceed, AP!Proceed, A!Range, AP!Range, A!SectionOf,
       AP!SectionOf, A!SubW, AP!SubW, A!Throw, AP!Throw, A!Wrap, AP!Wrap,
       A!Write, AP!Write, A!eval, AP!eval, A!eval_primitive, AP!eval_primitive,
       A!layoutVars, AP!layoutVars, A!translationVars, AP!translationVars

LEMMA SameBuildSet == A!BuildSet <=> AP!BuildSet
BY DEF A!AddW, AP!AddW, A!At, AP!At, A!BuildSet, AP!BuildSet, A!Check,
       AP!Check, A!Current, AP!Current, A!Evaluates, AP!Evaluates, A!HalfRange,
       AP!HalfRange, A!Id, AP!Id, A!LineAt, AP!LineAt, A!NamesSymbol,
       AP!NamesSymbol, A!Primitives, AP!Primitives, A!Proceed, AP!Proceed,
       A!SectionOf, AP!SectionOf, A!SubW, AP!SubW, A!TakesMemory,
       AP!TakesMemory, A!Throw, AP!Throw, A!Wrap, AP!Wrap, A!Write, AP!Write,
       A!eval, AP!eval, A!eval_primitive, AP!eval_primitive, A!layoutVars,
       AP!layoutVars, A!translationVars, AP!translationVars

LEMMA SameTranslate == A!Translate <=> AP!Translate
BY SamePlace, SameValues, SameLine, SameSymbols
   DEF A!Translate, AP!Translate, A!Check, AP!Check, A!layoutVars,
       AP!layoutVars, A!translationVars, AP!translationVars

LEMMA SameSkip == A!Skip <=> AP!Skip
BY SamePlace, SameValues, SameLine, SameSymbols
   DEF A!Skip, AP!Skip, A!Check, AP!Check, A!layoutVars, AP!layoutVars,
       A!translationVars, AP!translationVars

LEMMA SameNextPass == A!NextPass <=> AP!NextPass
BY SamePlace, SameValues, SameLine, SameSymbols
   DEF A!NextPass, AP!NextPass, A!Check, AP!Check, A!layoutVars, AP!layoutVars,
       A!translationVars, AP!translationVars

LEMMA SameFinish == A!Finish <=> AP!Finish
BY SamePlace, SameValues, SameLine, SameSymbols
   DEF A!Finish, AP!Finish, A!Check, AP!Check, A!layoutVars, AP!layoutVars,
       A!translationVars, AP!translationVars

LEMMA SameNext == A!Next <=> AP!Next
BY SameFixAddress, SameFixSymbol, SameLayoutInstruction, SameBuildWords, SameBuildSet,
   SameSkip, SameNextPass, SameFinish, SameLayoutMemory, SameTranslate
   DEF A!Next, AP!Next

Assembling == AP!AInv /\ AP!SInv /\ AP!LInv

(* The invariants of the assembler hold in the process as well.            *)
LEMMA InitAssembling == A!Init => Assembling
<1>1. A!Init <=> AP!Init
  BY DEF A!Init, AP!Init
<1>2. AP!Init => AP!AInv
  BY WidthHolds, BitwiseHolds, XorHolds, ProgramsHold, AP!InitAInv
<1>3. AP!Init => AP!SInv
  BY WidthHolds, BitwiseHolds, XorHolds, ProgramsHold, AP!InitSInv
<1>4. AP!Init => AP!LInv
  BY WidthHolds, BitwiseHolds, XorHolds, ProgramsHold, AP!InitLInv
<1> QED BY <1>1, <1>2, <1>3, <1>4 DEF Assembling

(* A step of the assembler keeps them, and so does any other step of the   *)
(* process.                                                                *)
LEMMA NextAssembling ==
  ASSUME Assembling, A!Next \/ UNCHANGED <<assemblerVars, source>>
  PROVE  Assembling'
<1>1. [AP!Next]_(AP!vars)
  BY SameNext DEF AP!vars, AP!layoutVars, AP!translationVars, assemblerVars
<1>2. AP!AInv /\ [AP!Next]_(AP!vars) => AP!AInv'
  BY WidthHolds, BitwiseHolds, XorHolds, ProgramsHold, AP!NextAInv
<1>3. AP!AInv /\ AP!SInv /\ [AP!Next]_(AP!vars) => AP!SInv'
  BY WidthHolds, BitwiseHolds, XorHolds, ProgramsHold, AP!NextSInv
<1>4. AP!AInv /\ AP!SInv /\ AP!LInv /\ [AP!Next]_(AP!vars) => AP!LInv'
  BY WidthHolds, BitwiseHolds, XorHolds, ProgramsHold, AP!NextLInv
<1> QED BY <1>1, <1>2, <1>3, <1>4 DEF Assembling

(* What the machine may rely on when the assembler is done.                *)
LEMMA ImageRuns ==
  ASSUME Assembling, pass = "done"
  PROVE  Runnable(A!Image)
<1>1. AP!AInv => AP!AssembledIsRunnable
  BY WidthHolds, BitwiseHolds, XorHolds, ProgramsHold, AP!ImageRunnable
<1>2. A!Image = AP!Image
  BY DEF A!Image, AP!Image
<1>3. AP!Runnable(A!Image) <=> Runnable(A!Image)
  BY DEF AP!Runnable, Runnable, AP!IsStart, IsStart, AP!IsStop, IsStop, AP!Instruction, Instruction,
         AP!KNOWN_INSTRUCTIONS, KNOWN_INSTRUCTIONS, AP!Word, Word, AP!HalfRange, HalfRange
<1> QED BY <1>1, <1>2, <1>3 DEF Assembling, AP!AssembledIsRunnable

(* What the program describes are words.                                   *)
LEMMA LayoutWords ==
  ASSUME Assembling
  PROVE  \A address : Expected(memory_layout, address) \in Word
<1>1. \A address \in DOMAIN memory_layout : memory_layout[address] \in AP!Word
  BY DEF Assembling, AP!AInv, AP!Tabled
<1>2. AP!Word = Word /\ 0 \in Word
  BY HalfRangeNat DEF AP!Word, Word, AP!HalfRange, HalfRange
<1> QED BY <1>1, <1>2 DEF Expected

-----------------------------------------------------------------------------
(***************************************************************************)
(* The process.  The machine executes what the assembler has returned, and *)
(* exists as long as it has not failed.                                    *)
(***************************************************************************)
Executing == phase \in {"execute", "report"}

MInv ==
  /\ DebuggerTypeOK
  /\ Assembling
  /\ configuration \in Configurations
  /\ phase \in {"parse", "assemble", "execute", "report", "exited"}
  /\ phase # "exited" => exit_code = -1
  /\ Executing => pass = "done" /\ program = code /\ vm.fault = "none"
  /\ phase = "execute" => looping

(* What stands for a machine before there is one.                          *)
LEMMA NoMachineTyped ==
  ASSUME NoMachine
  PROVE  DebuggerTypeOK /\ Clean(vm.stack, vm.sp) /\ vm.fault = "none"
<1>1. 0 \in Word /\ HalfRange \in Nat \ {0}
  BY HalfRangeNat DEF Word
<1>2. vm.memory \in [Addresses -> Word] /\ vm.stack \in [Slots -> Word]
  BY <1>1 DEF NoMachine, Boot
<1>3. vm \in VM
  BY <1>1, <1>2 DEF NoMachine, Boot, VM, Forward
<1>4. program \in Seq(Instruction) /\ Len(program) < HalfRange
  BY <1>1 DEF NoMachine
<1>5. DebuggerTypeOK
  <2>1. TypeOK
    BY <1>3, <1>4 DEF NoMachine, TypeOK
  <2>2. thread = "loop" /\ breakpoints = {} /\ remaining_steps = 0 /\ continue_running = FALSE
        /\ last_input = noInput
    BY DEF NoMachine
  <2>3. 0 \in 0 .. (2 * HalfRange - 1)
    BY <1>1
  <2> QED BY <2>1, <2>2, <2>3 DEF DebuggerTypeOK
<1>6. Clean(vm.stack, vm.sp) /\ vm.fault = "none"
  <2>1. vm.stack = [i \in Slots |-> 0] /\ vm.sp = 0 /\ vm.fault = "none"
    BY DEF NoMachine, Boot
  <2> QED BY <2>1 DEF Clean
<1> QED BY <1>5, <1>6

(* The process begins with the assembler and without a machine.            *)
LEMMA InitMInv == MainInit => MInv
BY InitAssembling, NoMachineTyped DEF MainInit, MInv, Executing

(* A step of either loop, without the outcomes main makes of it.           *)
LEMMA LoopTyped ==
  ASSUME DebuggerTypeOK, phase = "execute", Execute
  PROVE  DebuggerTypeOK' /\ UNCHANGED program
<1>1. CASE DebuggerNext
  <2>1. UNCHANGED program
    BY <1>1 DEF DebuggerNext, Check, Step, Command, EndOfInput, vars, print_machine_state, Leaves,
                debug_step, debug_run, debug_breakpoint_create, debug_breakpoint_clear, debug_invert,
                debug_quit, debug_inspect, debug_set, debug_info, Prints, Blank
  <2> QED BY <1>1, <2>1, NextDebuggerTypeOK
<1>2. CASE Next /\ UNCHANGED sessionVars
  <2>1. vm' \in VM
    BY <1>2, StepTyped DEF Next, Run, DebuggerTypeOK, TypeOK
  <2> QED BY <1>2, <2>1 DEF Next, Run, sessionVars, debugger_state, DebuggerTypeOK, TypeOK
<1> QED BY <1>1, <1>2 DEF Execute

(* A step of the process keeps the invariant of its parts.                 *)
LEMMA NextMInv == MInv /\ [MainNext]_mainVars => MInv'
<1> SUFFICES ASSUME MInv, [MainNext]_mainVars PROVE MInv'
  OBVIOUS
<1>1. CASE UNCHANGED mainVars
  <2>1. Assembling'
    BY <1>1, NextAssembling DEF MInv, mainVars
  <2>2. DebuggerTypeOK'
    BY <1>1, NextDebuggerTypeOK DEF MInv, mainVars
  <2> QED BY <1>1, <2>1, <2>2 DEF MInv, Executing, mainVars, debuggerVars, vars, assemblerVars, resultVars
<1>2. CASE ParseFile
  <2>1. Assembling'
    BY <1>2, NextAssembling DEF MInv, ParseFile
  <2>2. DebuggerTypeOK'
    BY <1>2, NextDebuggerTypeOK DEF MInv, ParseFile
  <2> QED BY <1>2, <2>1, <2>2 DEF MInv, Executing, ParseFile, GoOn, Caught, Exit, resultVars
<1>3. CASE Assemble
  <2>1. Assembling'
    BY <1>3, NextAssembling DEF MInv, Assemble
  <2>2. DebuggerTypeOK'
    BY <1>3, NextDebuggerTypeOK DEF MInv, Assemble
  <2> QED BY <1>3, <2>1, <2>2 DEF MInv, Executing, Assemble, GoOn, Caught, Exit, resultVars
<1>4. CASE ConstructMachine
  <2>1. Assembling'
    BY <1>4, NextAssembling DEF MInv, ConstructMachine
  <2>2. Runnable(A!Image) /\ program' = code /\ A!Image.code = code
    BY <1>4, ImageRuns DEF MInv, ConstructMachine, A!Image
  <2>3. Sound(vm')
    BY <1>4, <2>2, ConstructSound DEF ConstructMachine
  <2>4. DebuggerTypeOK'
    BY <1>4, <2>2, <2>3
       DEF ConstructMachine, Sound, MInv, DebuggerTypeOK, TypeOK, Runnable, sessionVars, debugger_state
  <2> QED BY <1>4, <2>1, <2>2, <2>4
          DEF MInv, Executing, ConstructMachine, GoOn, Caught, Exit, assemblerVars, resultVars
<1>5. CASE Execute
  <2>1. Assembling'
    BY <1>5, NextAssembling DEF MInv, Execute
  <2>2. DebuggerTypeOK' /\ UNCHANGED program
    BY <1>5, LoopTyped DEF MInv, Execute
  <2>3. looping' \in BOOLEAN /\ vm'.fault \in Exceptions \cup {"SIGFPE", "undefined", "none"}
    BY <2>2 DEF DebuggerTypeOK, TypeOK, VM, Faults
  <2>4. \/ phase' = "execute" /\ looping' /\ vm'.fault = "none" /\ UNCHANGED exit_code
        \/ phase' = "report" /\ vm'.fault = "none" /\ UNCHANGED exit_code
        \/ phase' = "exited"
    BY <1>5, <2>3 DEF Execute, GoOn, Caught, Exit, resultVars, Exceptions
  <2> QED BY <1>5, <2>1, <2>2, <2>4 DEF MInv, Executing, Execute, assemblerVars
<1>6. CASE Report
  <2>1. Assembling'
    BY <1>6, NextAssembling DEF MInv, Report
  <2>2. DebuggerTypeOK'
    BY <1>6, NextDebuggerTypeOK DEF MInv, Report
  <2> QED BY <1>6, <2>1, <2>2 DEF MInv, Executing, Report, Exit
<1> QED BY <1>1, <1>2, <1>3, <1>4, <1>5, <1>6 DEF MainNext

(* A distance an operand can hold is read back from the branch.            *)
LEMMA DistanceEncoded ==
  ASSUME NEW target \in Word, NEW position \in Nat, position < HalfRange,
         target - position \in -OPERAND_SIGN .. (OPERAND_SIGN - 1)
  PROVE  sign_extend(operand_low_value(SubW(target, position))) = target - position
<1>1. /\ target \in Int /\ position \in Int /\ OPERAND_SIGN \in Nat \ {0}
      /\ OPERAND_SIGN <= HalfRange /\ HalfRange \in Nat
  BY WidthAssumption, HalfRangeNat, WordInt DEF HalfRange
<1>2. SubW(target, position) = target - position
  BY <1>1 DEF SubW, Wrap
<1> QED BY <1>2, LowRestores

(* What the machine fetches where a branch to a label stands.              *)
LEMMA BranchFetched ==
  ASSUME MInv, phase = "execute", Fetches(vm), NEW l, l = source.code[vm.pc + 1], JumpsToLabel(l)
  PROVE  /\ Fetch(vm).op = "branch" /\ vm.pc \in Nat /\ vm.pc < HalfRange
         /\ symbol_table[l.operand.value] \in Word
         /\ Fetch(vm).bits = operand_low_value(SubW(symbol_table[l.operand.value], vm.pc))
<1>1. program = code /\ Len(program) < HalfRange /\ program \in Seq(Instruction) /\ vm \in VM
  BY DEF MInv, Executing, DebuggerTypeOK, TypeOK
<1>2. vm.pc \in 0 .. (Len(code) - 1) /\ vm.pc + 1 \in DOMAIN code /\ (vm.pc + 1) - 1 = vm.pc
  BY <1>1 DEF Fetches
<1>3. /\ AP!Evaluates(l.operand, symbol_table)
      /\ code[vm.pc + 1] = AP!encode(l, AP!eval(l.operand, vm.pc, symbol_table), vm.pc)
  BY <1>2 DEF MInv, Assembling, AP!LInv, AP!Translated
<1>4. AP!eval(l.operand, vm.pc, symbol_table) = symbol_table[l.operand.value]
  BY DEF AP!eval, AP!eval_primitive, JumpsToLabel
<1>5. l.operand.value \in DOMAIN symbol_table
  BY <1>3 DEF AP!Evaluates, AP!Primitives, JumpsToLabel
<1>6. symbol_table[l.operand.value] \in Word
  BY <1>5 DEF MInv, Assembling, AP!AInv, AP!Tabled, AP!Word, AP!HalfRange, Word, HalfRange
<1>7. /\ \A a, b : AP!SubW(a, b) = SubW(a, b)
      /\ \A a : AP!operand_low_value(a) = operand_low_value(a)
  BY DEF AP!SubW, SubW, AP!Wrap, Wrap, AP!HalfRange, HalfRange, AP!operand_low_value, operand_low_value
<1>8. \A value, position : AP!encode(l, value, position) =
        [op |-> l.op, back |-> l.back, bits |-> operand_low_value(SubW(value, position))]
  BY <1>7 DEF AP!encode, AP!RELATIVE, AP!UPPER, AP!ABSOLUTE, JumpsToLabel
<1>9. /\ Fetch(vm).op = l.op
      /\ Fetch(vm).bits = operand_low_value(SubW(symbol_table[l.operand.value], vm.pc))
  <2>1. code[vm.pc + 1] = [ op |-> l.op, back |-> l.back,
                            bits |-> operand_low_value(SubW(symbol_table[l.operand.value], vm.pc)) ]
    BY <1>3, <1>4, <1>8
  <2> QED BY <1>1, <2>1 DEF Fetch
<1>10. vm.pc \in Nat /\ vm.pc < HalfRange
  <2>1. Len(code) \in Nat /\ Len(code) < HalfRange /\ HalfRange \in Nat
    BY <1>1, HalfRangeNat
  <2> QED BY <1>2, <2>1
<1> QED BY <1>6, <1>9, <1>10 DEF JumpsToLabel

(* A branch from an empty register leads as far as its operand says.       *)
LEMMA BranchLeads ==
  ASSUME NEW s \in VM, s.fault = "none", s.br = 0, Fetches(s), Fetch(s).op = "branch",
         NEW distance \in Int \ {0}, Operand(s) = distance, distance \in Word,
         s.pc + distance \in Word, -distance \in Word,
         NEW t, step(s, t)
  PROVE  t.pc = s.pc + distance
<1>1. t = After(s, Branch(s, Operand(s)))
  <2>1. TransferInstruction(s, t)
    BY OneOperation DEF step, Comparisons, Arithmetics
  <2> QED BY <2>1 DEF TransferInstruction, At
<1>2. s.pc \in Int /\ s.dir \in {Forward, Backward} /\ HalfRange \in Nat
  BY HalfRangeNat DEF VM, Word
<1> DEFINE br == IF s.dir = Forward THEN distance ELSE -distance
<1>3. AddW(0, distance) = distance /\ SubW(0, distance) = -distance
  BY <1>2 DEF AddW, SubW, Wrap, Word
<1>4. Branch(s, Operand(s)) = [s EXCEPT !.br = br]
  BY <1>3 DEF Branch
<1>5. br # 0
  OBVIOUS
<1>6. IF s.dir = Forward THEN AddW(s.pc, br) = s.pc + distance
                         ELSE SubW(s.pc, br) = s.pc + distance
  BY <1>2 DEF AddW, SubW, Wrap, Word
<1> HIDE DEF br
<1> DEFINE u == [s EXCEPT !.br = br]
<1>7. u.fault = "none" /\ u.br = br /\ u.pc = s.pc /\ u.dir = s.dir /\ step_pc(u).pc =
        IF s.dir = Forward THEN AddW(s.pc, br) ELSE SubW(s.pc, br)
  BY <1>5 DEF VM, step_pc
<1>8. t = step_pc(u)
  BY <1>1, <1>4, <1>7 DEF After
<1> QED BY <1>6, <1>7, <1>8

(* Labels in front of and behind a branch, forwards and backwards.         *)
LEMMA StepLands ==
  ASSUME MInv, phase = "execute", step(vm, vm'), Fetches(vm), vm.br = 0,
         NEW l, l = source.code[vm.pc + 1], JumpsToLabel(l),
         symbol_table[l.operand.value] - vm.pc \in (-OPERAND_SIGN .. (OPERAND_SIGN - 1)) \ {0}
  PROVE  vm'.pc = symbol_table[l.operand.value]
<1> DEFINE target == symbol_table[l.operand.value]
           distance == target - vm.pc
<1>1. /\ Fetch(vm).op = "branch" /\ vm.pc \in Nat /\ vm.pc < HalfRange /\ target \in Word
      /\ Fetch(vm).bits = operand_low_value(SubW(target, vm.pc))
  BY BranchFetched
<1>2. Operand(vm) = distance
  BY <1>1, DistanceEncoded DEF Operand
<1>3. vm \in VM /\ vm.fault = "none"
  BY DEF MInv, Executing, DebuggerTypeOK, TypeOK
<1>4. target \in Int /\ distance \in Int \ {0} /\ vm.pc + distance = target
  BY <1>1, WordInt
<1>5. distance \in Word /\ -distance \in Word
  BY WidthAssumption, <1>4 DEF HalfRange, Word
<1> HIDE DEF distance, target
<1> QED BY <1>1, <1>2, <1>3, <1>4, <1>5, BranchLeads DEF target

(* For every program, every width of operands and both builds: a jump from *)
(* an empty branching register leads to the line its label stands on.      *)
THEOREM JumpsLand == MainSpec => LandsOnLabel
<1> DEFINE Lands ==
      Executes /\ Fetches(vm) /\ vm.br = 0 =>
        LET l == source.code[vm.pc + 1]
        IN  JumpsToLabel(l) =>
              LET target   == symbol_table[l.operand.value]
                  distance == target - vm.pc
              IN  distance \in (-OPERAND_SIGN .. (OPERAND_SIGN - 1)) \ {0} =>
                    vm'.pc = target
<1>1. MInv /\ MainNext => Lands
  <2> SUFFICES ASSUME MInv, MainNext, Executes, Fetches(vm), vm.br = 0,
                      NEW l, l = source.code[vm.pc + 1], JumpsToLabel(l),
                      symbol_table[l.operand.value] - vm.pc \in
                        (-OPERAND_SIGN .. (OPERAND_SIGN - 1)) \ {0}
               PROVE  vm'.pc = symbol_table[l.operand.value]
    OBVIOUS
  <2>1. phase = "execute" /\ Execute
    BY DEF MainNext, Executes, ParseFile, Assemble, ConstructMachine, Report
  <2>2. step(vm, vm')
    BY <2>1 DEF Execute, Executes, Next, Run, DebuggerNext, Check, Step, Command, Reads, EndOfInput
  <2> QED BY <2>1, <2>2, StepLands
<1>2. MInv /\ [MainNext]_mainVars => [Lands]_mainVars
  BY <1>1
<1> QED BY <1>2, InitMInv, NextMInv, PTL DEF MainSpec, LandsOnLabel

-----------------------------------------------------------------------------
(***************************************************************************)
(* What is counted.  Sums over finite sets and the number of bits of a     *)
(* word are recursive functions of the library and of Entropy; that they   *)
(* exist is proved first.                                                  *)
(***************************************************************************)
(* Any element of a set. *)
Pick(s) == CHOOSE x \in s : TRUE

(* it[s] is the sum of f over s, for all sets in Sets. *)
Sums(it, f, Sets) ==
  it = [s \in Sets |-> IF s = {} THEN 0 ELSE f[Pick(s)] + it[s \ {Pick(s)}]]

(* A set without its chosen element is smaller by one.                     *)
LEMMA PickRemoves ==
  ASSUME NEW S, IsFiniteSet(S), NEW s \in SUBSET S, s # {}
  PROVE  /\ Pick(s) \in s /\ s \ {Pick(s)} \in SUBSET S
         /\ Cardinality(s) \in Nat \ {0}
         /\ Cardinality(s \ {Pick(s)}) = Cardinality(s) - 1
<1>1. Pick(s) \in s
  BY DEF Pick
<1>2. IsFiniteSet(s)
  BY FS_Subset
<1>3. Cardinality(s) \in Nat /\ Cardinality(s) # 0
  BY <1>2, FS_CardinalityType, FS_EmptySet
<1> QED BY <1>1, <1>2, <1>3, FS_RemoveElement

(* The recursive function in MapThenFoldSet exists. *)
LEMMA SumsExist ==
  ASSUME NEW S, IsFiniteSet(S), NEW f
  PROVE  \E it : Sums(it, f, SUBSET S)
<1> DEFINE Small(n) == {s \in SUBSET S : Cardinality(s) <= n}
           Reached  == {n \in Nat : \E it : Sums(it, f, Small(n))}
<1>1. 0 \in Reached
  <2>1. \A s \in Small(0) : s = {}
    <3> SUFFICES ASSUME NEW s \in SUBSET S, Cardinality(s) <= 0, s # {} PROVE FALSE
      OBVIOUS
    <3>1. Cardinality(s) \in Nat \ {0}
      BY PickRemoves
    <3> QED BY <3>1
  <2>2. Sums([s \in Small(0) |-> 0], f, Small(0))
    <3> HIDE DEF Small
    <3> QED BY <2>1 DEF Sums
  <2> QED BY <2>2
<1>2. ASSUME NEW n \in Reached PROVE n + 1 \in Reached
  <2> PICK it : Sums(it, f, Small(n))
    OBVIOUS
  <2> DEFINE g == [s \in Small(n + 1) |->
                     IF s \in Small(n) THEN it[s] ELSE f[Pick(s)] + it[s \ {Pick(s)}]]
  <2>1. \A s \in Small(n + 1) : s # {} => s \ {Pick(s)} \in Small(n)
    BY PickRemoves
  <2>2. \A s \in Small(n) : s # {} => s \ {Pick(s)} \in Small(n)
    BY PickRemoves
  <2>3. Small(n) \subseteq Small(n + 1)
    <3>1. \A s \in SUBSET S : Cardinality(s) \in Nat
      BY FS_Subset, FS_CardinalityType
    <3> QED BY <3>1
  <2>4. {} \in Small(n)
    BY FS_EmptySet
  <2> HIDE DEF Small
  <2>5. \A s \in Small(n) : it[s] = IF s = {} THEN 0 ELSE f[Pick(s)] + it[s \ {Pick(s)}]
    BY DEF Sums
  <2>6. \A s \in Small(n) : g[s] = it[s]
    BY <2>3
  <2>7. \A s \in Small(n + 1) : g[s] = IF s = {} THEN 0 ELSE f[Pick(s)] + g[s \ {Pick(s)}]
    <3> TAKE s \in Small(n + 1)
    <3>1. CASE s \in Small(n)
      BY <2>2, <2>5, <2>6, <3>1
    <3>2. CASE s \notin Small(n)
      BY <2>1, <2>4, <2>6, <3>2
    <3> QED BY <3>1, <3>2
  <2>8. g = [s \in Small(n + 1) |-> g[s]]
    OBVIOUS
  <2> HIDE DEF g
  <2>9. Sums(g, f, Small(n + 1))
    BY <2>7, <2>8 DEF Sums
  <2> QED BY <2>9
<1>3. Reached = Nat
  <2> HIDE DEF Reached
  <2>1. Reached \in SUBSET Nat
    BY DEF Reached
  <2> QED BY <1>1, <1>2, <2>1, Induction
<1>4. Cardinality(S) \in Nat
  BY FS_CardinalityType
<1>5. Small(Cardinality(S)) = SUBSET S
  BY FS_Subset
<1> HIDE DEF Small
<1>6. Cardinality(S) \in Reached
  <2> HIDE DEF Reached
  <2> QED BY <1>3, <1>4
<1>7. \E it : Sums(it, f, Small(Cardinality(S)))
  BY <1>6
<1> QED BY <1>5, <1>7

(* A sum of numbers is zero if and only if all of them are. *)
LEMMA SumZero ==
  ASSUME NEW S, IsFiniteSet(S), NEW f \in [S -> Nat], NEW it, Sums(it, f, SUBSET S)
  PROVE  it[S] \in Nat /\ (it[S] = 0 <=> \A x \in S : f[x] = 0)
<1> DEFINE Right(s) == it[s] \in Nat /\ (it[s] = 0 <=> \A x \in s : f[x] = 0)
           Known    == {n \in Nat : \A s \in SUBSET S : Cardinality(s) <= n => Right(s)}
<1>0. \A s \in SUBSET S : it[s] = IF s = {} THEN 0 ELSE f[Pick(s)] + it[s \ {Pick(s)}]
  BY DEF Sums
<1>1. 0 \in Known
  <2>1. \A s \in SUBSET S : Cardinality(s) <= 0 => s = {}
    <3> SUFFICES ASSUME NEW s \in SUBSET S, Cardinality(s) <= 0, s # {} PROVE FALSE
      OBVIOUS
    <3>1. Cardinality(s) \in Nat \ {0}
      BY PickRemoves
    <3> QED BY <3>1
  <2>2. \A s \in SUBSET S : s = {} => Right(s)
    <3>1. it[{}] = 0
      BY <1>0
    <3> QED BY <3>1
  <2> QED BY <2>1, <2>2
<1>2. ASSUME NEW n \in Known PROVE n + 1 \in Known
  <2> SUFFICES ASSUME NEW s \in SUBSET S, Cardinality(s) <= n + 1 PROVE Right(s)
    OBVIOUS
  <2>1. CASE s = {}
    <3>1. it[s] = 0
      BY <1>0, <2>1
    <3> QED BY <2>1, <3>1
  <2>2. CASE s # {}
    <3>1. Pick(s) \in s /\ s \ {Pick(s)} \in SUBSET S /\ Cardinality(s \ {Pick(s)}) <= n
      BY <2>2, PickRemoves
    <3>2. Right(s \ {Pick(s)})
      BY <3>1
    <3> DEFINE first == f[Pick(s)]
               rest  == it[s \ {Pick(s)}]
    <3>3. it[s] = first + rest /\ first \in Nat
      BY <1>0, <2>2, <3>1
    <3>4. rest \in Nat
      BY <3>2
    <3> HIDE DEF first, rest
    <3>5. it[s] \in Nat /\ (it[s] = 0 <=> first = 0 /\ rest = 0)
      BY <3>3, <3>4
    <3> USE DEF first, rest
    <3> QED BY <3>2, <3>5
  <2> QED BY <2>1, <2>2
<1>3. Known = Nat
  <2> HIDE DEF Known
  <2>1. Known \in SUBSET Nat
    BY DEF Known
  <2> QED BY <1>1, <1>2, <2>1, Induction
<1>4. Cardinality(S) \in Nat /\ Cardinality(S) <= Cardinality(S)
  BY FS_CardinalityType
<1>5. Cardinality(S) \in Known
  BY <1>3, <1>4
<1>6. Right(S)
  BY <1>4, <1>5
<1> QED BY <1>6

-----------------------------------------------------------------------------
(* The recursive function in popcount, as far as m.                        *)
Counts(ones, m) ==
  ones = [n \in 0 .. m |-> IF n = 0 THEN 0 ELSE (n % 2) + ones[n \div 2]]

(* Half a number is smaller, and half an even one is not zero.             *)
LEMMA Halved ==
  ASSUME NEW n \in Nat \ {0}
  PROVE  /\ n \div 2 \in 0 .. (n - 1) /\ n % 2 \in {0, 1}
         /\ n % 2 = 0 => n \div 2 # 0
OBVIOUS

(* The recursive function in popcount exists.                              *)
LEMMA CountsExist == \A m \in Nat : \E ones : Counts(ones, m)
<1> DEFINE Reached == {m \in Nat : \E ones : Counts(ones, m)}
<1>1. 0 \in Reached
  <2>1. Counts([n \in 0 .. 0 |-> 0], 0)
    BY DEF Counts
  <2> QED BY <2>1
<1>2. ASSUME NEW m \in Reached PROVE m + 1 \in Reached
  <2> PICK ones : Counts(ones, m)
    OBVIOUS
  <2> DEFINE last == ((m + 1) % 2) + ones[(m + 1) \div 2]
             g    == [n \in 0 .. (m + 1) |-> IF n <= m THEN ones[n] ELSE last]
  <2>1. \A n \in 0 .. m : ones[n] = IF n = 0 THEN 0 ELSE (n % 2) + ones[n \div 2]
    BY DEF Counts
  <2>2. g = [n \in 0 .. (m + 1) |-> g[n]]
    OBVIOUS
  <2>3. /\ \A n \in 0 .. m : g[n] = ones[n]
        /\ g[m + 1] = last
    <3> HIDE DEF last
    <3> QED OBVIOUS
  <2> HIDE DEF g
  <2>4. \A n \in 0 .. (m + 1) : g[n] = IF n = 0 THEN 0 ELSE (n % 2) + g[n \div 2]
    <3> TAKE n \in 0 .. (m + 1)
    <3>1. CASE n = 0
      BY <2>1, <2>3, <3>1
    <3>2. CASE n \in 1 .. m
      <4>1. n \div 2 \in 0 .. m
        BY <3>2, Halved
      <4> QED BY <2>1, <2>3, <3>2, <4>1
    <3>3. CASE n = m + 1
      <4>1. n \div 2 \in 0 .. m /\ n # 0
        BY <3>3, Halved
      <4> QED BY <2>3, <3>3, <4>1
    <3> QED BY <3>1, <3>2, <3>3
  <2>5. Counts(g, m + 1)
    BY <2>2, <2>4 DEF Counts
  <2> QED BY <2>5
<1>3. Reached = Nat
  <2> HIDE DEF Reached
  <2>1. Reached \in SUBSET Nat
    BY DEF Reached
  <2> QED BY <1>1, <1>2, <2>1, Induction
<1> QED BY <1>3

(* Only zero has no bits. *)
LEMMA CountZero ==
  ASSUME NEW w \in Word
  PROVE  popcount(w) \in Nat /\ (popcount(w) = 0 <=> w = 0)
<1> DEFINE m    == 2 * HalfRange - 1
           ones == CHOOSE f : Counts(f, m)
<1>1. m \in Nat
  BY HalfRangeNat
<1>2. Counts(ones, m)
  <2> HIDE DEF m
  <2> QED BY <1>1, CountsExist
<1>3. popcount(w) = ones[w % (2 * HalfRange)]
  BY DEF popcount, Counts
<1> HIDE DEF m, ones
<1>4. \A n \in 0 .. m : ones[n] = IF n = 0 THEN 0 ELSE (n % 2) + ones[n \div 2]
  BY <1>2 DEF Counts
<1>5. \A n \in 0 .. m : ones[n] \in Nat /\ (ones[n] = 0 <=> n = 0)
  <2> DEFINE Wrong == {n \in Nat : n <= m /\ ~(ones[n] \in Nat /\ (ones[n] = 0 <=> n = 0))}
  <2> SUFFICES ASSUME Wrong # {} PROVE FALSE
    BY <1>1
  <2> PICK n \in Wrong : \A k \in Wrong : ~(k < n)
    BY LeastNumber
  <2>1. n \in 0 .. m /\ n # 0
    BY <1>1, <1>4
  <2> DEFINE half == n \div 2
             bit  == n % 2
  <2>2. half \in 0 .. (n - 1) /\ bit \in {0, 1} /\ (bit = 0 => half # 0)
    BY <2>1, Halved
  <2>3. ones[n] = bit + ones[half]
    BY <1>4, <2>1
  <2> HIDE DEF half, bit
  <2>4. half \in Nat /\ half <= m /\ half < n
    BY <1>1, <2>1, <2>2
  <2>5. ones[half] \in Nat /\ (ones[half] = 0 <=> half = 0)
    BY <2>4
  <2>6. ones[n] \in Nat /\ ones[n] # 0
    BY <2>2, <2>3, <2>5
  <2> QED BY <2>1, <2>6
<1>6. 2 * HalfRange \in Nat \ {0} /\ w \in Int /\ -HalfRange <= w /\ w < HalfRange
  BY HalfRangeNat, WordInt
<1>7. w % (2 * HalfRange) = IF w < 0 THEN w + 2 * HalfRange ELSE w
  <2> DEFINE d == 2 * HalfRange
  <2>1. d \in Nat \ {0} /\ -d <= w /\ w < d
    BY <1>6, HalfRangeNat
  <2> HIDE DEF d
  <2>2. w % d = IF w < 0 THEN w + d ELSE w
    <3>1. 0 <= w => w % d = w
      BY <1>6, <2>1, Remainder
    <3>2. w < 0 => w % d = w + d
      BY <1>6, <2>1, Remainder
    <3> QED BY <1>6, <3>1, <3>2
  <2> QED BY <2>2 DEF d
<1>8. w % (2 * HalfRange) \in 0 .. m
  BY <1>6, Division DEF m
<1>9. w % (2 * HalfRange) = 0 <=> w = 0
  <2> HIDE DEF m
  <2> QED BY <1>6, <1>7, HalfRangeNat
<1> QED BY <1>3, <1>5, <1>8, <1>9

Measures == {"HAMMING_WEIGHT", "WORD_DIFFERENCE"}

(* Either measure finds no difference between equal words only.            *)
LEMMA DifferenceZero ==
  ASSUME NEW measure \in Measures, NEW a \in Word, NEW b \in Word
  PROVE  /\ difference(measure, a, b) \in Nat
         /\ difference(measure, a, b) = 0 <=> a = b
<1>1. CASE measure = "HAMMING_WEIGHT"
  <2>1. BitXor(a, b) \in Word /\ (BitXor(a, b) = 0 <=> a = b)
    BY BitwiseAssumption
  <2>2. difference(measure, a, b) = popcount(BitXor(a, b))
    BY <1>1 DEF difference, hamming_weight
  <2> QED BY <2>1, <2>2, CountZero
<1>2. CASE measure = "WORD_DIFFERENCE"
  BY <1>2 DEF difference, word_difference
<1> QED BY <1>1, <1>2 DEF Measures

(* The recursive functions that MapThenSumSet makes of the differences.    *)
LEMMA SumChosen ==
  ASSUME NEW S, IsFiniteSet(S), NEW f \in [S -> Nat], NEW sum,
         (\E it : Sums(it, f, SUBSET S)) => Sums(sum, f, SUBSET S)
  PROVE  sum[S] \in Nat /\ (sum[S] = 0 <=> \A x \in S : f[x] = 0)
BY SumsExist, SumZero

(* Nothing is counted, so nothing is there.                                *)
LEMMA NothingCounted ==
  ASSUME NEW measure \in Measures, NEW layout, NEW s,
         \A address \in Addresses : s.memory[address] \in Word /\ Expected(layout, address) \in Word,
         s.sp \in Word, s.sp \in Nat, \A i \in Counted(s) : s.stack[i] \in Word
  PROVE  count_entropy(measure, layout, s) = 0 <=>
           /\ s.sp = 0
           /\ \A address \in Addresses : s.memory[address] = Expected(layout, address)
<1> DEFINE f == [address \in Addresses |->
                   difference(measure, s.memory[address], Expected(layout, address))]
           P(it) == it = [S \in SUBSET Addresses |->
                      IF S = {} THEN 0
                      ELSE difference(measure, s.memory[Pick(S)], Expected(layout, Pick(S)))
                             + it[S \ {Pick(S)}]]
           g == [i \in Counted(s) |-> difference(measure, s.stack[i], 0)]
           Q(it) == it = [S \in SUBSET Counted(s) |->
                      IF S = {} THEN 0
                      ELSE difference(measure, s.stack[Pick(S)], 0) + it[S \ {Pick(S)}]]
           cells == CHOOSE it : P(it)
           slots == CHOOSE it : Q(it)
<1>1. count_entropy(measure, layout, s) =
        cells[Addresses] + slots[Counted(s)] + difference(measure, s.sp, 0)
  BY DEF count_entropy, MapThenSumSet, MapThenFoldSet, Pick
<1>2. \A it : P(it) <=> Sums(it, f, SUBSET Addresses)
  <2> TAKE it
  <2>1. \A S \in SUBSET Addresses : S # {} => f[Pick(S)] =
          difference(measure, s.memory[Pick(S)], Expected(layout, Pick(S)))
    BY DEF Pick
  <2> HIDE DEF f
  <2> QED BY <2>1 DEF Sums
<1>3. \A it : Q(it) <=> Sums(it, g, SUBSET Counted(s))
  <2> TAKE it
  <2>1. \A S \in SUBSET Counted(s) : S # {} => g[Pick(S)] = difference(measure, s.stack[Pick(S)], 0)
    BY DEF Pick
  <2> HIDE DEF g
  <2> QED BY <2>1 DEF Sums
<1> HIDE DEF P, Q
<1>4. /\ (\E it : Sums(it, f, SUBSET Addresses)) => Sums(cells, f, SUBSET Addresses)
      /\ (\E it : Sums(it, g, SUBSET Counted(s))) => Sums(slots, g, SUBSET Counted(s))
  <2> HIDE DEF f, g
  <2> QED BY <1>2, <1>3
<1>5. 0 \in Word
  BY HalfRangeNat DEF Word
<1>6. f \in [Addresses -> Nat] /\ g \in [Counted(s) -> Nat]
  BY <1>5, DifferenceZero
<1>7. IsFiniteSet(Addresses) /\ IsFiniteSet(Counted(s))
  <2>1. 0 \in Int /\ MemorySize - 1 \in Int /\ s.sp - 1 \in Int
    BY SizeAssumption
  <2> QED BY <2>1, FS_Interval DEF Addresses, Counted
<1> HIDE DEF cells, slots
<1>8. /\ cells[Addresses] \in Nat
      /\ cells[Addresses] = 0 <=> \A address \in Addresses : f[address] = 0
  <2> HIDE DEF f
  <2> QED BY <1>4, <1>6, <1>7, SumChosen
<1>9. /\ slots[Counted(s)] \in Nat
      /\ slots[Counted(s)] = 0 <=> \A i \in Counted(s) : g[i] = 0
  <2> HIDE DEF g
  <2> QED BY <1>4, <1>6, <1>7, SumChosen
<1>10. difference(measure, s.sp, 0) \in Nat /\ (difference(measure, s.sp, 0) = 0 <=> s.sp = 0)
  BY <1>5, DifferenceZero
<1>11. \A address \in Addresses :
         f[address] = 0 <=> s.memory[address] = Expected(layout, address)
  BY DifferenceZero
<1>12. s.sp = 0 => slots[Counted(s)] = 0
  BY <1>9 DEF Counted
<1>13. count_entropy(measure, layout, s) = 0 <=>
         cells[Addresses] = 0 /\ slots[Counted(s)] = 0 /\ difference(measure, s.sp, 0) = 0
  <2> DEFINE c == cells[Addresses]
             d == slots[Counted(s)]
             e == difference(measure, s.sp, 0)
  <2>1. c \in Nat /\ d \in Nat /\ e \in Nat
    BY <1>8, <1>9, <1>10
  <2> HIDE DEF c, d, e
  <2>2. c + d + e = 0 <=> c = 0 /\ d = 0 /\ e = 0
    BY <2>1
  <2> QED BY <1>1, <2>2 DEF c, d, e
<1> QED BY <1>8, <1>10, <1>11, <1>12, <1>13

-----------------------------------------------------------------------------
(***************************************************************************)
(* The checked build, as long as no line of the user is a set.             *)
(***************************************************************************)
NoSet == \A l \in Lines : l.command # "set"

Reported ==
  phase = "exited" /\ exit_code = 0 /\ vm.fault = "none" =>
    /\ printed = [i \in 1 .. Cardinality(Counted(vm)) |-> vm.stack[vm.sp - i]]
    /\ entropy = report_entropy(configuration.measure, memory_layout, vm)

Undisturbed == Intact /\ last_input.command # "set" /\ Reported

(* The machine that stands for none is clean.                              *)
LEMMA InitUndisturbed == MainInit => Undisturbed
<1> SUFFICES ASSUME MainInit PROVE Undisturbed
  OBVIOUS
<1>1. Intact
  BY NoMachineTyped DEF MainInit, Intact, DebuggerTypeOK, TypeOK
<1> QED BY <1>1 DEF MainInit, NoMachine, noInput, Undisturbed, Reported

(* Either loop keeps the machine.                                          *)
LEMMA LoopIntact ==
  ASSUME Intact, last_input.command # "set", NoSet, UNSAFE_OPERATIONS = FALSE, Execute, looping
  PROVE  Intact' /\ last_input'.command # "set"
<1>1. CASE Next /\ UNCHANGED sessionVars
  <2>1. Sound(vm') /\ UNCHANGED <<program, last_input>>
    BY <1>1, IntactSound, StepSound DEF Next, Run, Intact, sessionVars
  <2> QED BY <2>1, StaysSound
<1>2. CASE Check
  BY <1>2, CheckIntact DEF Check
<1>3. CASE Step
  BY <1>3, StepIntact DEF Step
<1>4. CASE Command
  <2>1. last_input'.command # "set"
    BY <1>4 DEF Command, Reads, NoSet
  <2> QED BY <1>4, <2>1, CommandIntact
<1>5. CASE EndOfInput
  <2>1. Sound(vm') /\ UNCHANGED <<program, last_input>>
    BY <1>5, IntactSound DEF EndOfInput, Leaves
  <2> QED BY <2>1, StaysSound
<1> QED BY <1>1, <1>2, <1>3, <1>4, <1>5 DEF Execute, DebuggerNext

(* A step of the process keeps the machine sound, and the report reads     *)
(* slots that exist.                                                       *)
LEMMA NextUndisturbed ==
  ASSUME UNSAFE_OPERATIONS = FALSE, NoSet
  PROVE  MInv /\ Undisturbed /\ [MainNext]_mainVars => Undisturbed'
<1> SUFFICES ASSUME MInv, Undisturbed, [MainNext]_mainVars PROVE Undisturbed'
  OBVIOUS
<1>1. CASE UNCHANGED mainVars
  BY <1>1 DEF mainVars, debuggerVars, vars, assemblerVars, resultVars, Undisturbed, Intact, Reported
<1>2. CASE ParseFile \/ Assemble
  BY <1>2 DEF ParseFile, Assemble, GoOn, Caught, Exit, MInv, debuggerVars, vars, Undisturbed, Intact, Reported,
              resultVars
<1>3. CASE ConstructMachine
  <2>1. Runnable(A!Image) /\ program' = code /\ A!Image.code = code
    BY <1>3, ImageRuns DEF MInv, ConstructMachine, A!Image
  <2>2. Sound(vm')
    BY <1>3, <2>1, ConstructSound DEF ConstructMachine
  <2>3. Intact' /\ last_input' = last_input
    BY <1>3, <2>1, <2>2 DEF ConstructMachine, Sound, Runnable, Intact, sessionVars
  <2> QED BY <1>3, <2>3 DEF Undisturbed, Reported, MInv, ConstructMachine, GoOn, Caught, Exit
<1>4. CASE Execute
  <2>1. looping
    BY <1>4 DEF MInv, Execute
  <2>2. Intact' /\ last_input'.command # "set"
    BY <1>4, <2>1, LoopIntact DEF Undisturbed
  <2>3. vm'.fault = "none" => phase' \in {"execute", "report"}
    <3>1. DebuggerTypeOK'
      BY <1>4, LoopTyped DEF MInv, Execute
    <3> QED BY <1>4, <3>1 DEF Execute, GoOn, Exceptions, DebuggerTypeOK, TypeOK
  <2> QED BY <2>2, <2>3 DEF Undisturbed, Reported
<1>5. CASE Report
  <2>1. UNCHANGED <<program, vm, looping, last_input, configuration, memory_layout>>
    BY <1>5 DEF Report, debuggerVars, vars, assemblerVars
  <2>2. Intact'
    BY <2>1 DEF Undisturbed, Intact
  <2>3. Sound(vm)
    BY <1>5 DEF MInv, Executing, Report, Undisturbed, Intact, Sound
  <2>4. Counted(vm) \subseteq Slots
    BY <2>3, StackPointer DEF Counted, Slots
  <2> QED BY <1>5, <2>1, <2>2, <2>4 DEF Report, Undisturbed, Reported
<1> QED BY <1>1, <1>2, <1>3, <1>4, <1>5 DEF MainNext

(* In the checked build, for every program: an entropy of zero says that   *)
(* the memory is as the program describes it and that every slot is zero.  *)
THEOREM NothingLeft ==
  ASSUME UNSAFE_OPERATIONS = FALSE, NoSet
  PROVE  MainSpec => []ZeroEntropyIsClean
<1>1. MInv /\ Undisturbed => ZeroEntropyIsClean
  <2> SUFFICES ASSUME MInv, Undisturbed, phase = "exited", exit_code = 0, vm.fault = "none",
                      configuration.measure # "NONE", entropy = 0
               PROVE  /\ printed = <<>>
                      /\ vm.memory = [address \in Addresses |-> Expected(memory_layout, address)]
                      /\ vm.stack = [i \in Slots |-> 0]
    BY DEF ZeroEntropyIsClean, Exited
  <2>1. Sound(vm)
    BY DEF Undisturbed, Intact, Sound
  <2>2. /\ vm.sp \in Nat /\ vm.sp \in Word /\ Counted(vm) \subseteq Slots
        /\ vm.memory \in [Addresses -> Word] /\ vm.stack \in [Slots -> Word]
    <3>1. /\ vm.sp \in Nat /\ vm.sp <= StackSize /\ vm.stack \in [Slots -> Word]
          /\ StackSize \in Nat /\ StackSize < HalfRange /\ HalfRange \in Nat
      BY <2>1, StackPointer, SizeAssumption, HalfRangeNat
    <3>2. vm.memory \in [Addresses -> Word]
      BY <2>1 DEF Sound, VM
    <3> QED BY <3>1, <3>2 DEF Counted, Slots, Word
  <2>3. configuration.measure \in Measures
    BY ConfigurationsAssumption DEF MInv, Measures
  <2>4. count_entropy(configuration.measure, memory_layout, vm) = 0
    BY DEF Undisturbed, Reported, report_entropy
  <2>5. /\ \A address \in Addresses :
             vm.memory[address] \in Word /\ Expected(memory_layout, address) \in Word
        /\ \A i \in Counted(vm) : vm.stack[i] \in Word
    BY <2>2, LayoutWords DEF MInv
  <2>6. vm.sp = 0 /\ \A address \in Addresses : vm.memory[address] = Expected(memory_layout, address)
    BY <2>2, <2>3, <2>4, <2>5, NothingCounted
  <2>7. vm.memory = [address \in Addresses |-> Expected(memory_layout, address)]
    BY <2>2, <2>6
  <2>8. vm.stack = [i \in Slots |-> 0]
    <3>1. \A i \in Slots : i >= 0
      BY <2>1, StackPointer DEF Slots
    <3>2. \A i \in Slots : vm.stack[i] = 0
      BY <2>1, <2>6, <3>1, StackPointer
    <3> QED BY <2>2, <3>2
  <2>9. printed = <<>>
    <3>1. Counted(vm) = {}
      BY <2>6 DEF Counted
    <3>2. Cardinality(Counted(vm)) = 0
      BY <3>1, FS_EmptySet
    <3> QED BY <3>2 DEF Undisturbed, Reported
  <2> QED BY <2>7, <2>8, <2>9
<1> QED BY <1>1, InitMInv, NextMInv, InitUndisturbed, NextUndisturbed, PTL DEF MainSpec

-----------------------------------------------------------------------------
(***************************************************************************)
(* What an instruction leaves alone.                                       *)
(***************************************************************************)
Fields == {"dir", "pc", "br", "sp", "fp", "memory", "stack", "running", "fault"}

(* u is s with another stack, memory or frame, or a thrown exception.      *)
Plain(s, u) ==
  /\ DOMAIN u = Fields
  /\ u.dir = s.dir /\ u.pc = s.pc /\ u.running = s.running

(* A machine differs from itself in nothing.                               *)
LEMMA PlainSelf ==
  ASSUME NEW s \in VM
  PROVE  Plain(s, s)
BY DEF Plain, VM, Fields

(* Updates of the other fields and exceptions are plain.                   *)
LEMMA PlainUpdates ==
  ASSUME NEW s, NEW t, Plain(s, t), NEW v, NEW w, NEW x
  PROVE  /\ Plain(s, Throw(t, v))
         /\ Plain(s, WithStack(t, v, w))
         /\ Plain(s, SetTop(t, v))
         /\ Plain(s, [t EXCEPT !.br = v]) /\ Plain(s, [t EXCEPT !.fp = v])
         /\ Plain(s, [t EXCEPT !.memory = v])
         /\ Plain(s, [t EXCEPT !.memory[w] = v])
BY DEF Plain, Fields, Throw, WithStack, SetTop

(* So is a check around something plain ...                                *)
LEMMA PlainChecks ==
  ASSUME NEW s, Plain(s, s), NEW t, Plain(s, t), NEW n, NEW e
  PROVE  /\ Plain(s, Touch(s, n, t))
         /\ Plain(s, REQUIRES_PARAMS(s, n, t))
         /\ Plain(s, PUSHES_VALUES(s, n, t))
         /\ Plain(s, REQUIRES_LOCAL(s, n, t))
         /\ Plain(s, ASSERT_POSITIVE(s, n, t))
         /\ Plain(s, MemoryAt(s, n, t))
         /\ Plain(s, ClearSlots(s, n, t))
         /\ \A a, b : Plain(s, Computes(s, n, a, b, t))
BY PlainUpdates DEF Touch, REQUIRES_PARAMS, PUSHES_VALUES, REQUIRES_LOCAL, ASSERT_POSITIVE, MemoryAt,
                    ClearSlots, Computes

(* ... the removal of a value ...                                          *)
LEMMA PlainClear ==
  ASSUME NEW s, NEW t, Plain(s, t), NEW stack, NEW v
  PROVE  Plain(s, Clear(t, stack, v))
BY PlainUpdates DEF Clear

(* ... a push and a pop ...                                                *)
LEMMA PlainPush ==
  ASSUME NEW s, Plain(s, s), NEW v
  PROVE  Plain(s, Push(s, v)) /\ Plain(s, Pop(s, v))
BY PlainUpdates, PlainChecks, PlainClear DEF Push, Pop

(* ... and every instruction but start and uncall.                         *)
LEMMA PlainInstructions ==
  ASSUME NEW s \in VM, NEW n, NEW op
  PROVE  /\ Plain(s, Pushc(s, n)) /\ Plain(s, Popc(s, n))
         /\ Plain(s, Dup(s)) /\ Plain(s, Undup(s))
         /\ Plain(s, Swap(s)) /\ Plain(s, Bury(s)) /\ Plain(s, Dig(s))
         /\ Plain(s, Allocpar(s, n)) /\ Plain(s, Releasepar(s, n))
         /\ Plain(s, Asf(s, n)) /\ Plain(s, Rsf(s, n))
         /\ Plain(s, Pushl(s, n)) /\ Plain(s, Popl(s, n))
         /\ Plain(s, Call(s)) /\ Plain(s, Branch(s, n)) /\ Plain(s, BranchIf(s, n, op))
         /\ Plain(s, CmpPush(s, op)) /\ Plain(s, CmpPop(s, op))
         /\ Plain(s, Inc(s, n)) /\ Plain(s, Dec(s, n)) /\ Plain(s, Neg(s))
         /\ Plain(s, Add(s)) /\ Plain(s, Sub(s)) /\ Plain(s, XorTop(s))
         /\ Plain(s, Shl(s)) /\ Plain(s, Shr(s)) /\ Plain(s, Xorhc(s, n))
         /\ Plain(s, ArPush(s, op)) /\ Plain(s, ArPop(s, op))
         /\ Plain(s, Pushm(s, n)) /\ Plain(s, Popm(s, n))
         /\ Plain(s, Load(s, n)) /\ Plain(s, Store(s, n)) /\ Plain(s, Memswap(s, n))
<1>0. Plain(s, s)
  BY PlainSelf
<1>1. Plain(s, Pushc(s, n)) /\ Plain(s, Popc(s, n)) /\ Plain(s, Dup(s)) /\ Plain(s, Undup(s))
  BY <1>0, PlainChecks, PlainPush DEF Pushc, Popc, Dup, Undup
<1>2. Plain(s, Swap(s)) /\ Plain(s, Bury(s)) /\ Plain(s, Dig(s))
  BY <1>0, PlainChecks, PlainUpdates DEF Swap, Bury, Dig
<1>3. Plain(s, Allocpar(s, n)) /\ Plain(s, Releasepar(s, n))
  BY <1>0, PlainChecks, PlainUpdates DEF Allocpar, Releasepar
<1>4. Plain(s, Asf(s, n)) /\ Plain(s, Rsf(s, n))
  BY <1>0, PlainChecks, PlainUpdates DEF Asf, Rsf
<1>5. Plain(s, Pushl(s, n)) /\ Plain(s, Popl(s, n))
  BY <1>0, PlainChecks, PlainUpdates, PlainClear DEF Pushl, Popl
<1>6. Plain(s, Call(s)) /\ Plain(s, Branch(s, n)) /\ Plain(s, BranchIf(s, n, op))
  BY <1>0, PlainChecks, PlainUpdates DEF Call, Branch, BranchIf
<1>7. Plain(s, CmpPush(s, op)) /\ Plain(s, CmpPop(s, op))
  BY <1>0, PlainChecks, PlainPush DEF CmpPush, CmpPop
<1>8. /\ Plain(s, Inc(s, n)) /\ Plain(s, Dec(s, n)) /\ Plain(s, Neg(s))
      /\ Plain(s, Add(s)) /\ Plain(s, Sub(s)) /\ Plain(s, XorTop(s))
      /\ Plain(s, Shl(s)) /\ Plain(s, Shr(s)) /\ Plain(s, Xorhc(s, n))
  BY <1>0, PlainChecks, PlainUpdates DEF Inc, Dec, Neg, Add, Sub, XorTop, Shl, Shr, Xorhc
<1>9. Plain(s, ArPush(s, op)) /\ Plain(s, ArPop(s, op))
  BY <1>0, PlainChecks, PlainPush DEF ArPush, ArPop
<1>10. \A address : Plain(s, PushFrom(s, address)) /\ Plain(s, PopInto(s, address))
  <2> TAKE address
  <2>1. Plain(s, PushFrom(s, address))
    BY <1>0, PlainChecks, PlainUpdates DEF PushFrom
  <2>2. Plain(s, [s EXCEPT !.memory[address] = Top(s)])
    BY <1>0, PlainUpdates
  <2>3. Plain(s, PopInto(s, address))
    BY <1>0, <2>2, PlainChecks, PlainClear DEF PopInto
  <2> QED BY <2>1, <2>3
<1>11. /\ Plain(s, Pushm(s, n)) /\ Plain(s, Popm(s, n))
       /\ Plain(s, Load(s, n)) /\ Plain(s, Store(s, n))
  BY <1>0, <1>10, PlainChecks DEF Pushm, Popm, Load, Store
<1>12. Plain(s, Memswap(s, n))
  BY <1>0, PlainChecks, PlainUpdates DEF Memswap
<1> QED BY <1>1, <1>2, <1>3, <1>4, <1>5, <1>6, <1>7, <1>8, <1>9, <1>11, <1>12

(* The program counter moves with every instruction, the direction is left *)
(* to uncall and the running flag to start and stop.                       *)
LEMMA PlainAfter ==
  ASSUME NEW s \in VM, NEW u, Plain(s, u), NEW t \in VM, t = After(s, u), t.fault = "none"
  PROVE  t.dir = s.dir /\ t.running = s.running /\ t.pc # s.pc
<1>1. u.fault = "none" /\ t = step_pc(u)
  BY DEF After, Throw, VM
<1> DEFINE d == IF t.br = 0 THEN 1 ELSE t.br
<1>2. t.dir = s.dir /\ t.running = s.running /\ t.pc \in {AddW(s.pc, d), SubW(s.pc, d)}
  BY <1>1 DEF step_pc, Plain, Fields
<1>3. d \in Word /\ d # 0 /\ s.pc \in Word
  BY HalfRangeNat DEF VM, Word
<1> HIDE DEF d
<1>4. AddW(s.pc, d) # s.pc /\ SubW(s.pc, d) # s.pc
  BY <1>3, HalfRangeNat DEF AddW, SubW, Wrap, Word
<1> QED BY <1>2, <1>4

(* A step that does not throw: only uncall turns, only start starts or     *)
(* stops, and all others move the program counter.                         *)
LEMMA PlainStep ==
  ASSUME NEW s \in VM, program \in Seq(Instruction), NEW t, step(s, t), t.fault = "none"
  PROVE  /\ Fetches(s)
         /\ Fetch(s).op # "uncall" => t.dir = s.dir
         /\ Fetch(s).op # "start" => t.running = s.running
         /\ Fetch(s).op \notin {"start", "uncall"} => t.pc # s.pc
<1>0. Fetches(s) /\ t \in VM
  BY OneOperation, StepTyped DEF Throw, VM
<1>1. CASE RunningInstruction(s, t)
  <2>1. /\ DOMAIN Start(s) = Fields /\ Start(s).dir = s.dir
        /\ DOMAIN Stop(s) = Fields /\ Stop(s).dir = s.dir
    BY DEF Start, Stop, Throw, VM, Fields
  <2>2. \A u : DOMAIN u = Fields /\ u.dir = s.dir /\ t = After(s, u) => t.dir = s.dir
    BY DEF After, Throw, VM, step_pc, Fields
  <2>3. At(s, "nop") /\ t = After(s, s) => t.running = s.running /\ t.dir = s.dir /\ t.pc # s.pc
    BY <1>0, PlainSelf, PlainAfter
  <2> QED BY <1>0, <1>1, <2>1, <2>2, <2>3 DEF RunningInstruction, Fw, Bw, At
<1>2. CASE ConstantInstruction(s, t)
  BY <1>0, <1>2, PlainInstructions, PlainAfter DEF ConstantInstruction
<1>3. CASE ShuffleInstruction(s, t)
  BY <1>0, <1>3, PlainInstructions, PlainAfter DEF ShuffleInstruction
<1>4. CASE FrameInstruction(s, t)
  BY <1>0, <1>4, PlainInstructions, PlainAfter DEF FrameInstruction
<1>5. CASE TransferInstruction(s, t)
  <2>1. DOMAIN Uncall(s) = Fields /\ Uncall(s).running = s.running
    BY DEF Uncall, REQUIRES_PARAMS, Touch, Throw, SetTop, WithStack, VM, Fields
  <2>2. \A u : DOMAIN u = Fields /\ u.running = s.running /\ t = After(s, u) => t.running = s.running
    BY DEF After, Throw, VM, step_pc, Fields
  <2>3. At(s, "uncall") /\ t = After(s, Uncall(s)) => Fetch(s).op = "uncall" /\ t.running = s.running
    BY <2>1, <2>2 DEF At
  <2> QED BY <1>0, <1>5, <2>3, PlainInstructions, PlainAfter DEF TransferInstruction
<1>6. CASE CompareInstruction(s, t)
  BY <1>0, <1>6, PlainInstructions, PlainAfter DEF CompareInstruction
<1>7. CASE UpdateInstruction(s, t)
  <2>1. \A u : Plain(s, u) /\ t = After(s, u) => t.dir = s.dir /\ t.running = s.running /\ t.pc # s.pc
    BY <1>0, PlainAfter
  <2>2. /\ \A n : Plain(s, Inc(s, n)) /\ Plain(s, Dec(s, n)) /\ Plain(s, Xorhc(s, n))
        /\ Plain(s, Neg(s)) /\ Plain(s, Add(s)) /\ Plain(s, Sub(s))
        /\ Plain(s, XorTop(s)) /\ Plain(s, Shl(s)) /\ Plain(s, Shr(s))
    BY PlainInstructions
  <2> QED BY <1>0, <1>7, <2>1, <2>2 DEF UpdateInstruction
<1>8. CASE ArithmeticInstruction(s, t)
  BY <1>0, <1>8, PlainInstructions, PlainAfter DEF ArithmeticInstruction
<1>9. CASE HeapInstruction(s, t)
  BY <1>0, <1>9, PlainInstructions, PlainAfter DEF HeapInstruction
<1> QED BY <1>0, <1>1, <1>2, <1>3, <1>4, <1>5, <1>6, <1>7, <1>8, <1>9 DEF step

-----------------------------------------------------------------------------
(***************************************************************************)
(* Programs without uncall, under the debugger of the checked build: what  *)
(* has been executed forwards is undone in the same order.                 *)
(***************************************************************************)
Booted == Boot(A!Image)

(* The condition of SteppedBack on the program.                            *)
Straight ==
  \A i \in DOMAIN code : /\ code[i].op # "uncall"
                         /\ i = entry_address => ~IsStop(code[i])

(* The machines from the first to the n-th instruction, facing forwards.   *)
Follows(n, trail) ==
  /\ trail[0] = Booted
  /\ \A i \in 0 .. n : /\ Kept(trail[i]) /\ trail[i].dir = Forward
                       /\ trail[i].running <=> i > 0
  /\ \A i \in 0 .. (n - 1) : Joined(trail[i], trail[i + 1])

Uncomputing(s) ==
  \E n \in Nat : \E trail :
    Follows(n, trail) /\ s \in {trail[n], invert_vm_direction(trail[n])}

(* Back before the first instruction.                                      *)
Back(s) == s.dir = Backward /\ ~s.running /\ s.pc = entry_address - 1

Arrives(s) == Back(s) => s = invert_vm_direction(Booted)

UInv ==
  /\ phase \in {"parse", "assemble"} => vm.dir = Forward
  /\ configuration.debug /\ Straight =>
       /\ phase = "execute" => Uncomputing(vm)
       /\ phase = "report" => Arrives(vm)
  /\ UncomputedIsClean

(* What turning round changes and what it keeps.                           *)
LEMMA Turning ==
  ASSUME NEW s, Kept(s)
  PROVE  LET t == invert_vm_direction(s)
         IN  /\ t.dir = -s.dir /\ t.running = s.running /\ t.sp = s.sp
             /\ t.memory = s.memory /\ t.stack = s.stack /\ t.fault = s.fault
             /\ s.br = 0 => t.pc = IF s.dir = Forward THEN SubW(s.pc, 1) ELSE AddW(s.pc, 1)
<1>1. s \in VM
  BY DEF Kept, Sound
<1> DEFINE u == [s EXCEPT !.dir = -@]
<1>2. /\ u.dir = -s.dir /\ u.running = s.running /\ u.sp = s.sp /\ u.br = s.br /\ u.pc = s.pc
      /\ u.memory = s.memory /\ u.stack = s.stack /\ u.fault = s.fault /\ DOMAIN u = DOMAIN s
  BY <1>1 DEF VM
<1>3. invert_vm_direction(s) = step_pc(u)
  BY DEF invert_vm_direction
<1>4. s.dir = Forward => u.dir # Forward
  BY <1>2 DEF Forward
<1>5. s.dir # Forward => u.dir = Forward
  <2>1. s.dir \in {1, -1}
    BY <1>1 DEF VM, Forward, Backward
  <2> QED BY <1>2, <2>1, Opposite DEF Forward
<1>6. DOMAIN u = Fields
  BY <1>1 DEF VM, Fields
<1> HIDE DEF u
<1>7. /\ step_pc(u).dir = u.dir /\ step_pc(u).running = u.running /\ step_pc(u).sp = u.sp
      /\ step_pc(u).memory = u.memory /\ step_pc(u).stack = u.stack /\ step_pc(u).fault = u.fault
      /\ u.br = 0 => step_pc(u).pc = IF u.dir = Forward THEN AddW(u.pc, 1) ELSE SubW(u.pc, 1)
  BY <1>6 DEF step_pc, Fields
<1> QED BY <1>2, <1>3, <1>4, <1>5, <1>7

(* The machine the constructor leaves.                                     *)
LEMMA BootedFields ==
  ASSUME Kept(Booted)
  PROVE  /\ Booted.dir = Forward /\ ~Booted.running /\ Booted.sp = 0 /\ Booted.br = 0
         /\ Booted.pc = entry_address
         /\ Booted.memory = [address \in Addresses |-> Expected(memory_layout, address)]
BY DEF Booted, Boot, A!Image, Expected

(* A start that succeeds while the machine is not running faces forwards.  *)
LEMMA StartsForward ==
  ASSUME NEW s \in VM, NEW t, step(s, t), t.fault = "none", ~s.running, Fetch(s).op = "start"
  PROVE  Fw(s, "start")
<1>1. Fetches(s) /\ RunningInstruction(s, t)
  BY OneOperation DEF step, Comparisons, Arithmetics, Throw, VM
<1>2. ASSUME Bw(s, "start"), t = After(s, Stop(s)) PROVE FALSE
  BY <1>2 DEF Stop, After, Throw, VM
<1> QED BY <1>1, <1>2 DEF RunningInstruction, At, Fw

(* A forward step follows the trail.                                       *)
LEMMA GoesOn ==
  ASSUME Setting, program = code, Straight, NEW n \in Nat, NEW trail, Follows(n, trail),
         NEW t, Kept(t), step(trail[n], t)
  PROVE  /\ t.running => Uncomputing(t)
         /\ ~t.running => Arrives(t)
<1> DEFINE s == trail[n]
           longer == [i \in 0 .. (n + 1) |-> IF i <= n THEN trail[i] ELSE t]
<1>1. n \in 0 .. n /\ Kept(s) /\ s.dir = Forward /\ s \in VM
  BY DEF Follows, Kept, Sound
<1>2. Fetches(s) /\ (Fetch(s).op # "uncall" => t.dir = s.dir)
  BY <1>1, PlainStep DEF Setting, Kept
<1>3. Fetch(s).op # "uncall"
  <2>1. s.pc + 1 \in DOMAIN code
    BY <1>2 DEF Fetches, Setting
  <2> QED BY <2>1 DEF Straight, Fetch
<1>4. t.dir = Forward
  BY <1>1, <1>2, <1>3
<1>5. ~t.running => Arrives(t)
  BY <1>4 DEF Arrives, Back, Forward, Backward
<1>6. ASSUME t.running PROVE Follows(n + 1, longer)
  <2>1. Joined(s, t)
    BY <1>1, StepJoins
  <2>2. longer[0] = trail[0] /\ longer[n + 1] = t /\ \A i \in 0 .. n : longer[i] = trail[i]
    OBVIOUS
  <2>3. \A i \in 0 .. (n + 1) : /\ Kept(longer[i]) /\ longer[i].dir = Forward
                                /\ longer[i].running <=> i > 0
    <3> TAKE i \in 0 .. (n + 1)
    <3>1. CASE i \in 0 .. n
      BY <2>2, <3>1 DEF Follows
    <3>2. CASE i = n + 1
      BY <1>4, <1>6, <2>2, <3>2
    <3> QED BY <3>1, <3>2
  <2>4. \A i \in 0 .. ((n + 1) - 1) : Joined(longer[i], longer[i + 1])
    <3> TAKE i \in 0 .. ((n + 1) - 1)
    <3>1. CASE i \in 0 .. (n - 1)
      <4>1. longer[i] = trail[i] /\ longer[i + 1] = trail[i + 1]
        BY <2>2, <3>1
      <4> QED BY <3>1, <4>1 DEF Follows
    <3>2. CASE i = n
      BY <2>1, <2>2, <3>2
    <3> QED BY <3>1, <3>2
  <2> HIDE DEF longer
  <2> QED BY <2>2, <2>3, <2>4 DEF Follows
<1>7. longer[n + 1] = t
  OBVIOUS
<1> HIDE DEF longer
<1>8. n + 1 \in Nat
  OBVIOUS
<1> QED BY <1>5, <1>6, <1>7, <1>8 DEF Uncomputing

(* A step backwards goes one machine back, or leaves the program by what   *)
(* stands before start.                                                    *)
LEMMA GoesBack ==
  ASSUME Setting, program = code, Straight, entry_address \in Nat, NEW n \in Nat,
         NEW trail, Follows(n, trail), NEW t, Kept(t), step(invert_vm_direction(trail[n]), t)
  PROVE  /\ t.running => Uncomputing(t)
         /\ ~t.running => Arrives(t)
<1> DEFINE s == invert_vm_direction(trail[n])
<1>1. n \in 0 .. n /\ Kept(trail[n]) /\ trail[n].dir = Forward /\ trail[0] = Booted
  BY DEF Follows
<1>2. CASE n = 0
  <2>0. Kept(Booted) /\ s = invert_vm_direction(Booted)
    BY <1>1, <1>2
  <2>1. Kept(s) /\ s \in VM
    BY <2>0, Turned_Kept DEF Kept, Sound
  <2>2. ~s.running /\ s.pc = SubW(entry_address, 1)
    BY <2>0, BootedFields, Turning
  <2>3. s.dir = Backward
    BY <2>0, BootedFields, Turning DEF Forward, Backward
  <2> HIDE DEF s
  <2>4. /\ Fetches(s)
        /\ Fetch(s).op # "uncall" => t.dir = s.dir
        /\ Fetch(s).op # "start" => t.running = s.running
        /\ Fetch(s).op \notin {"start", "uncall"} => t.pc # s.pc
    BY <2>1, PlainStep DEF s, Setting, Kept
  <2>5. entry_address \in Word
    <3>1. Booted \in VM
      BY <2>0 DEF Kept, Sound
    <3> QED BY <2>0, <3>1, BootedFields DEF VM
  <2>6. s.pc = entry_address - 1 /\ entry_address \in DOMAIN code /\ Fetch(s) = code[entry_address]
    <3>1. s.pc \in Nat
      BY <2>4 DEF Fetches
    <3>2. s.pc = entry_address - 1
      BY <2>2, <2>5, <3>1, HalfRangeNat DEF SubW, Wrap, Word
    <3>3. s.pc + 1 = entry_address
      BY <2>5, <3>2, HalfRangeNat DEF Word
    <3>4. s.pc + 1 \in DOMAIN code
      BY <2>4 DEF Fetches, Setting
    <3> QED BY <3>2, <3>3, <3>4 DEF Fetch
  <2>7. Fetch(s).op # "uncall" /\ ~IsStop(Fetch(s))
    BY <2>6 DEF Straight
  <2>8. Fetch(s).op # "start"
    <3>1. Fetch(s).op = "start" => Fw(s, "start")
      BY <2>1, <2>2, StartsForward DEF s, Kept
    <3> QED BY <2>3, <2>7, <3>1 DEF Fw, IsStop
  <2> QED BY <2>2, <2>4, <2>6, <2>7, <2>8 DEF Arrives, Back
<1>3. CASE n # 0
  <2>1. n - 1 \in 0 .. n /\ n - 1 \in 0 .. (n - 1) /\ n - 1 \in Nat /\ (n - 1) + 1 = n
    BY <1>3
  <2>2. Kept(trail[n - 1]) /\ Joined(trail[n - 1], trail[n]) /\ (trail[n - 1].running <=> n - 1 > 0)
    BY <2>1 DEF Follows
  <2>3. t = invert_vm_direction(trail[n - 1])
    BY <1>1, <2>2, Backwards DEF Kept
  <2>4. t.running = trail[n - 1].running
    BY <2>2, <2>3, Turning
  <2>5. Follows(n - 1, trail)
    BY <1>1, <2>1 DEF Follows
  <2>6. Uncomputing(t)
    BY <2>1, <2>3, <2>5 DEF Uncomputing
  <2>7. ~t.running => trail[n - 1] = Booted
    <3>1. ~(n - 1 > 0) => n - 1 = 0
      BY <2>1
    <3>2. ~t.running => n - 1 = 0
      BY <2>2, <2>4, <3>1
    <3> QED BY <1>1, <3>2
  <2> QED BY <2>3, <2>6, <2>7 DEF Arrives
<1> QED BY <1>2, <1>3

(* While nothing but the machine changes, the trail stays what it is.      *)
LEMMA FollowsStays ==
  ASSUME UNCHANGED <<program, assemblerVars>>, NEW n, NEW trail, Follows(n, trail)
  PROVE  Follows(n, trail)'
<1>1. Booted' = Booted
  BY DEF Booted, Boot, A!Image, assemblerVars
<1>2. \A i \in 0 .. n : Kept(trail[i])'
  BY DEF Follows, Kept, Sound, Clean
<1>3. \A i \in 0 .. (n - 1) : Joined(trail[i], trail[i + 1])'
  BY SameJoined DEF Follows
<1> QED BY <1>1, <1>2, <1>3 DEF Follows

(* The prompt leaves the machine where it is or turns it round.            *)
LEMMA StaysUncomputing ==
  ASSUME NEW s, Uncomputing(s)
  PROVE  Kept(s) /\ Uncomputing(invert_vm_direction(s)) /\ Arrives(s)
<1> PICK n, trail : n \in Nat /\ Follows(n, trail) /\ s \in {trail[n], invert_vm_direction(trail[n])}
  BY DEF Uncomputing
<1>1. n \in 0 .. n
  OBVIOUS
<1>2. Kept(trail[n]) /\ trail[n].dir = Forward /\ (trail[n].running <=> n > 0) /\ trail[0] = Booted
  BY <1>1 DEF Follows
<1>3. Kept(s) /\ invert_vm_direction(s) \in {trail[n], invert_vm_direction(trail[n])}
  BY <1>2, Turned_Kept
<1>4. s.running = trail[n].running
  BY <1>2, Turning
<1>5. Arrives(s)
  <2>1. ~s.running => n = 0
    BY <1>2, <1>4
  <2>2. s = trail[n] => ~Back(s)
    BY <1>2 DEF Back, Forward, Backward
  <2> QED BY <1>2, <2>1, <2>2 DEF Arrives, Back
<1> QED BY <1>3, <1>5 DEF Uncomputing

(* A command that ends the session regularly or returns to the loop.       *)
LEMMA CommandTurns ==
  ASSUME Intact, Command, last_input'.command # "set", vm'.fault = "none"
  PROVE  /\ vm' \in {vm, invert_vm_direction(vm)} /\ UNCHANGED program
         /\ ~looping' => vm' = vm
<1> PICK l \in Lines \cup {last_input} :
      /\ Reads(l)
      /\ \/ debug_step(l)
         \/ debug_run(l)
         \/ debug_breakpoint_create(l)
         \/ debug_breakpoint_clear(l)
         \/ debug_invert(l)
         \/ debug_quit(l)
         \/ debug_inspect(l)
         \/ debug_set(l)
         \/ debug_info(l)
         \/ Prints(l)
         \/ Blank(l)
  BY DEF Command
<1>1. looping /\ last_input' = l /\ l.command # "set" /\ Throw(vm, "undefined").fault # "none"
  BY DEF Reads, Intact, Throw, VM
<1>2. CASE debug_step(l) \/ debug_run(l) \/ debug_breakpoint_create(l) \/ debug_breakpoint_clear(l)
  BY <1>1, <1>2 DEF debug_step, debug_run, debug_breakpoint_create, debug_breakpoint_clear, Continues, Prompts
<1>3. CASE debug_invert(l) \/ debug_quit(l) \/ Prints(l) \/ Blank(l)
  BY <1>1, <1>3 DEF debug_invert, debug_quit, Prints, Blank, Leaves, Prompts
<1>4. CASE debug_inspect(l) \/ debug_info(l)
  BY <1>1, <1>4 DEF debug_inspect, debug_info, print_machine_state, Leaves, Prompts
<1>5. CASE debug_set(l)
  BY <1>1, <1>5 DEF debug_set
<1> QED BY <1>2, <1>3, <1>4, <1>5

-----------------------------------------------------------------------------
(* Before there is a program nothing has been executed.                    *)
LEMMA InitUInv == MainInit => UInv
BY DEF MainInit, NoMachine, Boot, UInv, UncomputedIsClean, SteppedBack, Exited

(* What the loop of the debugger makes of a machine on the trail.          *)
LEMMA LoopUncomputing ==
  ASSUME UNSAFE_OPERATIONS = FALSE, StackSize # 0, NoSet, MInv, Undisturbed, UInv,
         configuration.debug, Straight, Execute, phase' # "exited"
  PROVE  /\ looping' => Uncomputing(vm)'
         /\ ~looping' => Arrives(vm)'
<1>0. /\ looping /\ Intact /\ phase = "execute" /\ pass = "done" /\ program = code
      /\ Uncomputing(vm) /\ UNCHANGED assemblerVars
  BY DEF MInv, Executing, Execute, Undisturbed, UInv
<1>1. vm'.fault = "none" /\ UNCHANGED program /\ Intact' /\ last_input'.command # "set"
  <2>1. DebuggerTypeOK' /\ UNCHANGED program
    BY <1>0, LoopTyped DEF MInv
  <2>2. vm'.fault = "none"
    BY <2>1 DEF Execute, Caught, Exit, Exceptions, DebuggerTypeOK, TypeOK, VM, Faults
  <2>3. Intact' /\ last_input'.command # "set"
    BY <1>0, LoopIntact DEF Undisturbed
  <2> QED BY <2>1, <2>2, <2>3
<1>2. Setting /\ entry_address \in Nat
  <2>1. Runnable(A!Image)
    BY <1>0, ImageRuns DEF MInv
  <2>2. entry_address \in 0 .. (Len(code) - 1)
    BY <2>1 DEF Runnable, A!Image
  <2> QED BY <1>0, <2>2 DEF Setting, Intact
<1>3. Kept(vm')
  BY <1>1 DEF Kept, Sound, Intact
<1>4. ASSUME Uncomputing(vm') PROVE Uncomputing(vm)'
  <2> DEFINE t == vm'
  <2>1. Uncomputing(t)
    BY <1>4
  <2> PICK n, trail : n \in Nat /\ Follows(n, trail) /\ vm' \in {trail[n], invert_vm_direction(trail[n])}
    BY <1>4 DEF Uncomputing
  <2>2. Follows(n, trail)'
    BY <1>0, <1>1, FollowsStays
  <2>3. vm' \in {trail[n], invert_vm_direction(trail[n])}'
    OBVIOUS
  <2> QED BY <2>2, <2>3 DEF Uncomputing
<1>5. ASSUME Arrives(vm') PROVE Arrives(vm)'
  <2>1. Booted' = Booted /\ UNCHANGED entry_address
    BY <1>0 DEF Booted, Boot, A!Image, assemblerVars
  <2> QED BY <1>5, <2>1 DEF Arrives, Back
<1>6. CASE Step
  <2> PICK n, trail : n \in Nat /\ Follows(n, trail) /\ vm \in {trail[n], invert_vm_direction(trail[n])}
    BY <1>0 DEF Uncomputing
  <2>1. (vm'.running => Uncomputing(vm')) /\ (~vm'.running => Arrives(vm'))
    BY <1>0, <1>2, <1>3, <1>6, GoesOn, GoesBack DEF Step
  <2> QED BY <1>1, <1>4, <1>5, <1>6, <2>1 DEF Step
<1>7. CASE Command
  <2>1. vm' \in {vm, invert_vm_direction(vm)} /\ (~looping' => vm' = vm)
    BY <1>0, <1>1, <1>7, CommandTurns
  <2>2. Uncomputing(vm')
    BY <1>0, <2>1, StaysUncomputing
  <2>3. ~looping' => Arrives(vm')
    BY <1>0, <2>1, StaysUncomputing
  <2> QED BY <1>4, <1>5, <2>2, <2>3
<1>8. CASE Check \/ EndOfInput
  <2>1. Throw(vm, "undefined").fault # "none"
    BY <1>0 DEF Intact, Throw, VM
  <2>2. vm' = vm
    BY <1>1, <1>8, <2>1 DEF Check, EndOfInput, print_machine_state, Leaves, vars
  <2>3. Uncomputing(vm') /\ Arrives(vm')
    BY <1>0, <2>2, StaysUncomputing
  <2> QED BY <1>4, <1>5, <2>3
<1> QED BY <1>6, <1>7, <1>8 DEF Execute, DebuggerNext

(* A step of the process keeps the trail and what is reported of its       *)
(* beginning.                                                              *)
LEMMA NextUInv ==
  ASSUME UNSAFE_OPERATIONS = FALSE, StackSize # 0, NoSet
  PROVE  MInv /\ Undisturbed /\ UInv /\ [MainNext]_mainVars => UInv'
<1> SUFFICES ASSUME MInv, Undisturbed, UInv, [MainNext]_mainVars PROVE UInv'
  OBVIOUS
<1>1. CASE UNCHANGED mainVars
  <2>1. UNCHANGED <<program, assemblerVars, vm, phase, configuration, exit_code, printed, entropy>>
    BY <1>1 DEF mainVars, debuggerVars, vars, resultVars
  <2>2. Straight' = Straight /\ Arrives(vm)' = Arrives(vm)
    BY <2>1 DEF Straight, Arrives, Back, Booted, Boot, A!Image, assemblerVars
  <2>3. Uncomputing(vm) => Uncomputing(vm)'
    <3>1. ASSUME NEW n \in Nat, NEW trail, Follows(n, trail), vm \in {trail[n], invert_vm_direction(trail[n])}
          PROVE  Follows(n, trail)' /\ vm' \in {trail[n], invert_vm_direction(trail[n])}
      BY <2>1, <3>1, FollowsStays
    <3> QED BY <3>1 DEF Uncomputing
  <2>4. UncomputedIsClean' = UncomputedIsClean
    BY <2>1 DEF UncomputedIsClean, SteppedBack, Exited, assemblerVars
  <2> QED BY <2>1, <2>2, <2>3, <2>4 DEF UInv
<1>2. CASE ParseFile \/ Assemble
  <2>1. vm' = vm /\ vm.dir = Forward /\ phase' \in {"assemble", "exited"}
    BY <1>2 DEF ParseFile, Assemble, GoOn, Caught, Exit, UInv, debuggerVars, vars
  <2> QED BY <2>1 DEF UInv, UncomputedIsClean, SteppedBack, Forward, Backward
<1>3. CASE ConstructMachine
  <2>1. Runnable(A!Image) /\ program' = code
    BY <1>3, ImageRuns DEF MInv, ConstructMachine
  <2>2. Sound(vm') /\ vm'.dir = Forward
    <3>1. Sound(vm')
      BY <1>3, <2>1, ConstructSound DEF ConstructMachine
    <3>2. vm' \in {Booted, Throw(Booted, "out_of_memory"), Throw(Booted, "out_of_range")}
      BY <1>3 DEF ConstructMachine, Construct, Booted
    <3>3. Booted.dir = Forward /\ \A e : Throw(Booted, e).dir = Booted.dir
      BY DEF Booted, Boot, Throw
    <3> QED BY <3>1, <3>2, <3>3
  <2>3. CASE vm'.fault = "none"
    <3>1. phase' = "execute" /\ vm' = Booted /\ UNCHANGED <<assemblerVars, configuration>>
      BY <1>3, <2>3 DEF ConstructMachine, Construct, GoOn, Booted, Boot, Throw
    <3>2. Booted' = Booted
      BY <3>1 DEF Booted, Boot, A!Image, assemblerVars
    <3> PICK trail : trail = [i \in {0} |-> Booted]
      OBVIOUS
    <3>3. trail[0] = Booted /\ Kept(Booted) /\ Booted.dir = Forward /\ ~Booted.running
      BY <2>2, <2>3, <3>1, BootedFields DEF Kept
    <3>4. Follows(0, trail)'
      <4>1. \A i \in 0 .. 0 : i = 0
        OBVIOUS
      <4>2. \A i \in 0 .. (0 - 1) : FALSE
        OBVIOUS
      <4>3. Kept(trail[0])'
        BY <3>3 DEF Kept, Sound, Clean
      <4> QED BY <3>2, <3>3, <4>1, <4>2, <4>3 DEF Follows
    <3>5. Uncomputing(vm)'
      BY <3>1, <3>3, <3>4 DEF Uncomputing
    <3> QED BY <3>1, <3>5 DEF UInv, UncomputedIsClean, SteppedBack, Exited
  <2>4. CASE vm'.fault # "none"
    <3>1. phase' = "exited"
      BY <1>3, <2>4 DEF ConstructMachine, Caught, Exit
    <3> QED BY <2>4, <3>1 DEF UInv, UncomputedIsClean, SteppedBack
  <2> QED BY <2>3, <2>4
<1>4. CASE Execute
  <2>1. UNCHANGED <<assemblerVars, configuration>> /\ Straight' = Straight
    BY <1>4 DEF Execute, Straight, assemblerVars
  <2>2. phase' # "exited" => UncomputedIsClean'
    BY DEF UncomputedIsClean, SteppedBack, Exited
  <2>3. CASE phase' = "exited"
    <3>1. vm'.fault # "none"
      <4>1. looping' \in BOOLEAN
        BY <1>4, LoopTyped DEF MInv, Execute, DebuggerTypeOK, TypeOK
      <4> QED BY <1>4, <2>3, <4>1 DEF Execute, GoOn, Caught, Exit, Exceptions
    <3> QED BY <2>3, <3>1 DEF UInv, UncomputedIsClean, SteppedBack
  <2>4. CASE phase' # "exited"
    <3>1. phase' \in {"execute", "report"} /\ (phase' = "execute" => looping') /\ (phase' = "report" => ~looping')
      <4>1. DebuggerTypeOK'
        BY <1>4, LoopTyped DEF MInv, Execute
      <4> QED BY <1>4, <2>4, <4>1
              DEF Execute, GoOn, Caught, Exit, Exceptions, DebuggerTypeOK, TypeOK, VM, Faults
    <3> QED BY <1>4, <2>1, <2>2, <2>4, <3>1, LoopUncomputing DEF UInv
  <2> QED BY <2>3, <2>4
<1>5. CASE Report
  <2>1. /\ UNCHANGED <<program, vm, looping, configuration, assemblerVars>> /\ phase' = "exited"
        /\ phase = "report"
    BY <1>5 DEF Report, Exit, debuggerVars, vars
  <2>2. Straight' = Straight /\ Sound(vm) /\ vm.fault = "none"
    BY <2>1 DEF Straight, assemblerVars, MInv, Executing, Undisturbed, Intact, Sound
  <2>3. ASSUME SteppedBack' PROVE exit_code' = 0 /\ printed' = <<>> /\ entropy' = 0
    <3>1. configuration.debug /\ Straight /\ Back(vm) /\ vm = invert_vm_direction(Booted)
      <4>1. configuration.debug /\ Back(vm)
        BY <2>1, <2>3 DEF SteppedBack, Back, assemblerVars
      <4>2. Straight
        <5>1. Straight'
          BY <2>3 DEF SteppedBack, Straight
        <5> QED BY <2>2, <5>1
      <4>3. Arrives(vm)
        BY <2>1, <4>1, <4>2 DEF UInv
      <4> QED BY <4>1, <4>2, <4>3 DEF Arrives
    <3>2. Kept(Booted)
      <4>1. A!Image \in {A!Image} /\ Runnable(A!Image)
        BY <2>1, ImageRuns DEF MInv, Executing
      <4>2. Sound(Booted)
        BY <4>1, BootSound DEF Booted
      <4> QED BY <4>2 DEF Kept, Booted, Boot
    <3>3. /\ vm.sp = 0 /\ ~vm.running
          /\ vm.memory = [address \in Addresses |-> Expected(memory_layout, address)]
      BY <3>1, <3>2, BootedFields, Turning
    <3>4. Counted(vm) = {} /\ Counted(vm) \subseteq Slots /\ Cardinality(Counted(vm)) = 0
      BY <3>3, FS_EmptySet DEF Counted
    <3>5. exit_code' = 0 /\ printed' = <<>>
      BY <1>5, <3>3, <3>4 DEF Report, Exit
    <3>6. entropy' = report_entropy(configuration.measure, memory_layout, vm)
      BY <1>5, <3>4 DEF Report
    <3>7. configuration.measure # "NONE" => configuration.measure \in Measures
      BY ConfigurationsAssumption DEF MInv, Measures
    <3>8. count_entropy(configuration.measure, memory_layout, vm) = 0
          \/ configuration.measure = "NONE"
      <4>1. \A address \in Addresses :
              vm.memory[address] \in Word /\ Expected(memory_layout, address) \in Word
        BY <3>3, LayoutWords DEF MInv
      <4>2. vm.sp \in Word /\ vm.sp \in Nat
        BY <3>3, HalfRangeNat DEF Word
      <4>3. \A address \in Addresses : vm.memory[address] = Expected(memory_layout, address)
        BY <3>3
      <4> QED BY <3>3, <3>4, <3>7, <4>1, <4>2, <4>3, NothingCounted
    <3>9. entropy' = 0
      BY <3>6, <3>8 DEF report_entropy
    <3> QED BY <3>5, <3>9
  <2> QED BY <2>1, <2>3 DEF UInv, UncomputedIsClean
<1> QED BY <1>1, <1>2, <1>3, <1>4, <1>5 DEF MainNext

(* In the checked build, for every program without uncall, whatever the    *)
(* user types but set: who steps back over where execution began has       *)
(* uncomputed everything.                                                  *)
THEOREM Uncomputed ==
  ASSUME UNSAFE_OPERATIONS = FALSE, StackSize # 0, NoSet
  PROVE  MainSpec => []UncomputedIsClean
<1>1. UInv => UncomputedIsClean
  BY DEF UInv
<1> QED BY <1>1, InitMInv, NextMInv, InitUndisturbed, NextUndisturbed, InitUInv, NextUInv, PTL DEF MainSpec
=============================================================================
