------------------------------ MODULE Machine ------------------------------
(***************************************************************************)
(* The reversible stack machine: struct VM, its checked and unchecked      *)
(* stack accesses, every instruction of step_instr, step_pc and the loop   *)
(* of run.                                                                 *)
(*                                                                         *)
(* The state of the machine is one record, as it is one object in the      *)
(* source; an instruction is an operator from a machine to a machine.  The *)
(* field fault holds the C++ exception an instruction throws ("none"       *)
(* while it succeeds).  An exception leaves run and destroys the machine,  *)
(* so what an instruction wrote before it threw is never read again: a     *)
(* faulting step keeps the old state and records the fault.                *)
(***************************************************************************)
EXTENDS Instructions

CONSTANTS
  UNSAFE_OPERATIONS, \* is the build compiled with the macro of this name?
  StackSize,         \* stack_size, the capacity of the operand stack
  MemorySize,        \* memory_size
  Images             \* what assemble may return: code, layout and entry

Slots     == 0 .. (StackSize - 1)
Addresses == 0 .. (MemorySize - 1)

ASSUME SizeAssumption ==
  /\ UNSAFE_OPERATIONS \in BOOLEAN
  /\ StackSize \in 0 .. (HalfRange - 1)
  /\ MemorySize \in 0 .. (HalfRange - 1)

ASSUME ImageAssumption == \A image \in Images : Runnable(image)

VARIABLES
  program,   \* the instruction words, a reference the machine never changes
  vm,        \* the machine
  looping    \* is run still in its loop?

vars == <<program, vm, looping>>

Forward  == 1
Backward == -1
True     == Backward
False    == Forward

Exceptions ==
  { "logic_error", "overflow_error", "underflow_error", "out_of_range",
    "invalid_argument", "domain_error", "out_of_memory" }

(* How a step may fail: a C++ exception, the signal of an undefined        *)
(* division, or an access outside the stack's storage, after which the     *)
(* program may do anything.                                                *)
Faults == Exceptions \cup {"SIGFPE", "undefined"}

VM == [ dir     : {Forward, Backward},
        pc      : Word,
        br      : Word,
        sp      : Int,
        fp      : Word,
        memory  : [Addresses -> Word],
        stack   : [Slots -> Word],
        running : BOOLEAN,
        fault   : Faults \cup {"none"} ]

-----------------------------------------------------------------------------
(***************************************************************************)
(* The checks.  With UNSAFE_OPERATIONS the macros are empty and clear only *)
(* xors, and nothing stands between an instruction and a slot that does    *)
(* not exist.                                                              *)
(***************************************************************************)
Throw(s, fault) == [s EXCEPT !.fault = fault]

Touch(s, slots, t) == IF slots \subseteq Slots THEN t ELSE Throw(s, "undefined")

(* Mutant: an underflow check that is off by one. *)
RequiresOneLess(s, n, t) ==
  IF ~UNSAFE_OPERATIONS /\ s.sp < n - 1
  THEN Throw(s, "underflow_error")
  ELSE Touch(s, (s.sp - n) .. (s.sp - 1), t)

(* Every instruction that requires n parameters accesses the n topmost     *)
(* slots.                                                                  *)
REQUIRES_PARAMS(s, n, t) ==
  IF ~UNSAFE_OPERATIONS /\ s.sp < n
  THEN Throw(s, "underflow_error")
  ELSE Touch(s, (s.sp - n) .. (s.sp - 1), t)

(* capacity() - sp is unsigned: a stack pointer beyond the capacity passes. *)
PUSHES_VALUES(s, n, t) ==
  IF ~UNSAFE_OPERATIONS /\ (StackSize - s.sp) \in 0 .. n
  THEN Throw(s, "overflow_error")
  ELSE t

(* REQUIRES_LOCAL and the range check of stack.at, which stays in the      *)
(* unchecked build.                                                        *)
Local(s, n) == AddW(s.fp, n)

REQUIRES_LOCAL(s, n, t) ==
  IF \/ ~UNSAFE_OPERATIONS /\ Local(s, n) \notin 0 .. (s.sp - 1)
     \/ Local(s, n) \notin Slots
  THEN Throw(s, "out_of_range")
  ELSE t

ASSERT_POSITIVE(s, n, t) ==
  IF ~UNSAFE_OPERATIONS /\ n < 0 THEN Throw(s, "invalid_argument") ELSE t

(* memory.at *)
MemoryAt(s, address, t) ==
  IF address \in Addresses THEN t ELSE Throw(s, "out_of_range")

(* for (i = 1 .. n) clear(stack[sp - i], 0) *)
ClearSlots(s, slots, t) ==
  Touch(s, slots,
        IF ~UNSAFE_OPERATIONS /\ \E i \in slots : s.stack[i] # 0
        THEN Throw(s, "domain_error")
        ELSE t)

-----------------------------------------------------------------------------
(* Access to the stack. *)
Top(s)   == s.stack[s.sp - 1]
Under(s) == s.stack[s.sp - 2]
Third(s) == s.stack[s.sp - 3]

WithStack(s, stack, sp) == [s EXCEPT !.stack = stack, !.sp = sp]

SetTop(s, value) == WithStack(s, [s.stack EXCEPT ![s.sp - 1] = value], s.sp)

Push(s, value) ==
  Touch(s, {s.sp}, WithStack(s, [s.stack EXCEPT ![s.sp] = value], s.sp + 1))

(* Mutant: the unchecked build's clear forgets the value it is given.      *)
ClearDropped(s, stack, expected) ==
  IF UNSAFE_OPERATIONS
  THEN WithStack(s, stack, s.sp - 1)
  ELSE IF stack[s.sp - 1] # expected
  THEN Throw(s, "domain_error")
  ELSE WithStack(s, [stack EXCEPT ![s.sp - 1] = 0], s.sp - 1)

(* clear: the machine gives up the top slot of the stack, which must hold  *)
(* the expected value.                                                     *)
Clear(s, stack, expected) ==
  LET top   == s.sp - 1
      value == BitXor(stack[top], expected)
  IN  IF ~UNSAFE_OPERATIONS /\ value # 0
      THEN Throw(s, "domain_error")
      ELSE WithStack(s, [stack EXCEPT ![top] = value], top)

Pop(s, expected) == Clear(s, s.stack, expected)

Exchange(f, i, j) == [f EXCEPT ![i] = f[j], ![j] = f[i]]

-----------------------------------------------------------------------------
(***************************************************************************)
(* The instructions.  s is the machine, n the sign-extended operand.       *)
(***************************************************************************)
Start(s) ==
  IF s.running THEN Throw(s, "logic_error") ELSE [s EXCEPT !.running = TRUE]
Stop(s) ==
  IF ~s.running THEN Throw(s, "logic_error") ELSE [s EXCEPT !.running = FALSE]

(* pushc, pushtrue and pushfalse; popc, poptrue and popfalse *)
Pushc(s, value) == PUSHES_VALUES(s, 1, Push(s, value))
Popc(s, value)  == REQUIRES_PARAMS(s, 1, Pop(s, value))

Dup(s)   == PUSHES_VALUES(s, 1, REQUIRES_PARAMS(s, 1, Push(s, Top(s))))
Undup(s) == REQUIRES_PARAMS(s, 2, Pop(s, Under(s)))

Swap(s) ==
  REQUIRES_PARAMS(s, 2,
    WithStack(s, Exchange(s.stack, s.sp - 1, s.sp - 2), s.sp))

Dig(s) ==
  REQUIRES_PARAMS(s, 3,
    WithStack(s, [s.stack EXCEPT ![s.sp - 1] = Third(s),
                                 ![s.sp - 2] = Top(s),
                                 ![s.sp - 3] = Under(s)], s.sp))
(* Mutant: bury rotates the way dig does. *)
BuryDigs(s) == Dig(s)

Bury(s) ==
  REQUIRES_PARAMS(s, 3,
    WithStack(s, [s.stack EXCEPT ![s.sp - 3] = Top(s),
                                 ![s.sp - 2] = Third(s),
                                 ![s.sp - 1] = Under(s)], s.sp))

Allocpar(s, n) ==
  ASSERT_POSITIVE(s, n, PUSHES_VALUES(s, n, WithStack(s, s.stack, s.sp + n)))
Releasepar(s, n) ==
  ASSERT_POSITIVE(s, n,
    REQUIRES_PARAMS(s, n,
      ClearSlots(s, (s.sp - n) .. (s.sp - 1), WithStack(s, s.stack, s.sp - n))))

(* Open a frame of n local variables above the saved frame pointer. *)
Asf(s, n) ==
  ASSERT_POSITIVE(s, n,
    PUSHES_VALUES(s, n + 1,
      Touch(s, {s.sp},
        [WithStack(s, [s.stack EXCEPT ![s.sp] = s.fp], s.sp + n + 1)
           EXCEPT !.fp = s.sp])))

(* Close it: the locals must be zero, and fp must be where asf left it. *)
Rsf(s, n) ==
  LET base    == s.sp - (n + 1)
      cleared == BitXor(s.fp, base)
  IN  ASSERT_POSITIVE(s, n,
        REQUIRES_PARAMS(s, n + 1,
          ClearSlots(s, (s.sp - n) .. (s.sp - 1),
            IF ~UNSAFE_OPERATIONS /\ cleared # 0
            THEN Throw(s, "domain_error")
            ELSE Touch(s, {base},
                   [WithStack(s, [s.stack EXCEPT ![base] = cleared], base)
                      EXCEPT !.fp = s.stack[base]]))))

Pushl(s, n) ==
  PUSHES_VALUES(s, 1,
    REQUIRES_LOCAL(s, n,
      Touch(s, {s.sp},
        WithStack(s, Exchange(s.stack, s.sp, Local(s, n)), s.sp + 1))))
(* Mutant: popl does not clear the slot it gives up. *)
PoplKeeps(s, n) ==
  REQUIRES_PARAMS(s, 1,
    REQUIRES_LOCAL(s, n,
      WithStack(s, Exchange(s.stack, s.sp - 1, Local(s, n)), s.sp - 1)))

Popl(s, n) ==
  REQUIRES_PARAMS(s, 1,
    REQUIRES_LOCAL(s, n,
      Clear(s, Exchange(s.stack, s.sp - 1, Local(s, n)), 0)))

(* Control flow: a transfer loads br, and the matching instruction at the  *)
(* target unloads it.                                                      *)
Call(s) ==
  REQUIRES_PARAMS(s, 1, [SetTop(s, s.br) EXCEPT !.br = Top(s)])

(* Mutants: uncall turns round with the built-in ! of C++, which makes any *)
(* direction 0; and uncall keeps the sign of the distance.                 *)
UncallLogicalNot(s) ==
  REQUIRES_PARAMS(s, 1,
    [SetTop(s, NegW(s.br)) EXCEPT !.br = NegW(Top(s)), !.dir = 0])
UncallSameSign(s) ==
  REQUIRES_PARAMS(s, 1,
    [SetTop(s, s.br) EXCEPT !.br = Top(s), !.dir = -@])

Uncall(s) ==
  REQUIRES_PARAMS(s, 1,
    [SetTop(s, NegW(s.br)) EXCEPT !.br = NegW(Top(s)), !.dir = -@])

(* Mutant: a branch that ignores the direction of execution. *)
BranchForward(s, n) == [s EXCEPT !.br = AddW(@, n)]

Branch(s, n) ==
  [s EXCEPT !.br = IF s.dir = Forward THEN AddW(@, n) ELSE SubW(@, n)]

BranchIf(s, n, condition) ==
  REQUIRES_PARAMS(s, 1, IF Top(s) = condition THEN Branch(s, n) ELSE s)

Compare(op, a, b) ==
  LET holds == CASE op = "cmpusheq" -> a = b
                 [] op = "cmpushne" -> a # b
                 [] op = "cmpushlt" -> a < b
                 [] op = "cmpushle" -> a <= b
  IN  IF holds THEN True ELSE False

CmpPush(s, op) ==
  PUSHES_VALUES(s, 1,
    REQUIRES_PARAMS(s, 2, Push(s, Compare(op, Top(s), Under(s)))))
CmpPop(s, op) ==
  REQUIRES_PARAMS(s, 3, Pop(s, Compare(op, Under(s), Third(s))))

Inc(s, n) == REQUIRES_PARAMS(s, 1, SetTop(s, AddW(Top(s), n)))
Dec(s, n) == REQUIRES_PARAMS(s, 1, SetTop(s, SubW(Top(s), n)))
Neg(s)    == REQUIRES_PARAMS(s, 1, SetTop(s, NegW(Top(s))))
Add(s)    == REQUIRES_PARAMS(s, 2, SetTop(s, AddW(Top(s), Under(s))))
Sub(s)    == REQUIRES_PARAMS(s, 2, SetTop(s, SubW(Top(s), Under(s))))
XorTop(s) == REQUIRES_PARAMS(s, 2, SetTop(s, BitXor(Top(s), Under(s))))
Shl(s)    == REQUIRES_PARAMS(s, 2, SetTop(s, RotL(Top(s), Under(s))))
Shr(s)    == REQUIRES_PARAMS(s, 2, SetTop(s, RotR(Top(s), Under(s))))

(* xorhc takes the raw bits of the operand. *)
Xorhc(s, bits) == REQUIRES_PARAMS(s, 1, SetTop(s, BitXor(Top(s), UpperBits(bits))))

Arithmetic(op, a, b) ==
  CASE op = "arpushadd" -> AddW(a, b)
    [] op = "arpushsub" -> SubW(a, b)
    [] op = "arpushmul" -> MulW(a, b)
    [] op = "arpushdiv" -> QuotW(a, b)
    [] op = "arpushmod" -> RemW(a, b)
    [] op = "arpushand" -> BitAnd(a, b)
    [] op = "arpushor"  -> BitOr(a, b)

Computes(s, op, a, b, t) ==
  IF op \in {"arpushdiv", "arpushmod"} /\ DivisionTraps(a, b)
  THEN Throw(s, "SIGFPE")
  ELSE t

ArPush(s, op) ==
  PUSHES_VALUES(s, 1,
    REQUIRES_PARAMS(s, 2,
      Computes(s, op, Top(s), Under(s),
        Push(s, Arithmetic(op, Top(s), Under(s))))))
ArPop(s, op) ==
  REQUIRES_PARAMS(s, 3,
    Computes(s, op, Under(s), Third(s),
      Pop(s, Arithmetic(op, Under(s), Third(s)))))

(* The heap: values are exchanged with the slot above the stack.  The      *)
(* instructions below differ in how they find the address.                 *)
PushFrom(s, address) ==
  MemoryAt(s, address,
    Touch(s, {s.sp},
      [WithStack(s, [s.stack EXCEPT ![s.sp] = s.memory[address]], s.sp + 1)
         EXCEPT !.memory[address] = s.stack[s.sp]]))
PopInto(s, address) ==
  MemoryAt(s, address,
    Clear([s EXCEPT !.memory[address] = Top(s)],
          [s.stack EXCEPT ![s.sp - 1] = s.memory[address]], 0))

Pushm(s, n) == PUSHES_VALUES(s, 1, PushFrom(s, n))
Popm(s, n)  == REQUIRES_PARAMS(s, 1, PopInto(s, n))
Load(s, n)  ==
  PUSHES_VALUES(s, 1, REQUIRES_PARAMS(s, 1, PushFrom(s, AddW(Top(s), n))))
Store(s, n) == REQUIRES_PARAMS(s, 2, PopInto(s, AddW(Under(s), n)))

Memswap(s, n) ==
  LET a == AddW(Top(s), n)
      b == AddW(Under(s), n)
  IN  REQUIRES_PARAMS(s, 2,
        MemoryAt(s, a, MemoryAt(s, b, [s EXCEPT !.memory = Exchange(@, a, b)])))

-----------------------------------------------------------------------------
(***************************************************************************)
(* One step: fetch, decode, execute, advance the program counter.          *)
(***************************************************************************)
(* Mutant: a jump that resets the branching register, as the jumps of      *)
(* irreversible machines do.                                               *)
StepPcResets(s) ==
  LET distance == IF s.br = 0 THEN 1 ELSE s.br
  IN  [s EXCEPT !.pc = IF s.dir = Forward THEN AddW(@, distance)
                                          ELSE SubW(@, distance),
                !.br = 0]

step_pc(s) ==
  LET distance == IF s.br = 0 THEN 1 ELSE s.br
  IN  [s EXCEPT !.pc = IF s.dir = Forward THEN AddW(@, distance)
                                          ELSE SubW(@, distance)]

Fetches(s) == s.pc \in 0 .. (Len(program) - 1)    \* program.at(pc) succeeds
Fetch(s)   == program[s.pc + 1]
Operand(s) == sign_extend(Fetch(s).bits)

(* Executing backwards inverts the opcode: the direction bit and the       *)
(* direction of execution together select a member of the pair.            *)
At(s, op) == Fetches(s) /\ Fetch(s).op = op
Fw(s, op) == At(s, op) /\ (Fetch(s).back <=> s.dir = Backward)
Bw(s, op) == At(s, op) /\ ~(Fetch(s).back <=> s.dir = Backward)

(* u is the machine after the instruction; an exception leaves step before *)
(* step_pc.                                                                *)
After(s, u) == IF u.fault = "none" THEN step_pc(u) ELSE Throw(s, u.fault)

Comparisons == {"cmpusheq", "cmpushne", "cmpushlt", "cmpushle"}
Arithmetics == {"arpushadd", "arpushsub", "arpushmul", "arpushdiv",
                "arpushmod", "arpushand", "arpushor"}

(* VM::step as a relation: t is what step makes of s.  The families of     *)
(* instructions first.                                                     *)
RunningInstruction(s, t) ==
  \/ Fw(s, "start")     /\ t = After(s, Start(s))
  \/ Bw(s, "start")     /\ t = After(s, Stop(s))
  \/ At(s, "nop")       /\ t = After(s, s)

ConstantInstruction(s, t) ==
  \/ Fw(s, "pushc")     /\ t = After(s, Pushc(s, Operand(s)))
  \/ Bw(s, "pushc")     /\ t = After(s, Popc(s, Operand(s)))
  \/ Fw(s, "pushtrue")  /\ t = After(s, Pushc(s, True))
  \/ Bw(s, "pushtrue")  /\ t = After(s, Popc(s, True))
  \/ Fw(s, "pushfalse") /\ t = After(s, Pushc(s, False))
  \/ Bw(s, "pushfalse") /\ t = After(s, Popc(s, False))

ShuffleInstruction(s, t) ==
  \/ Fw(s, "dup")       /\ t = After(s, Dup(s))
  \/ Bw(s, "dup")       /\ t = After(s, Undup(s))
  \/ At(s, "swap")      /\ t = After(s, Swap(s))
  \/ Fw(s, "bury")      /\ t = After(s, Bury(s))
  \/ Bw(s, "bury")      /\ t = After(s, Dig(s))

FrameInstruction(s, t) ==
  \/ Fw(s, "allocpar")  /\ t = After(s, Allocpar(s, Operand(s)))
  \/ Bw(s, "allocpar")  /\ t = After(s, Releasepar(s, Operand(s)))
  \/ Fw(s, "asf")       /\ t = After(s, Asf(s, Operand(s)))
  \/ Bw(s, "asf")       /\ t = After(s, Rsf(s, Operand(s)))
  \/ Fw(s, "pushl")     /\ t = After(s, Pushl(s, Operand(s)))
  \/ Bw(s, "pushl")     /\ t = After(s, Popl(s, Operand(s)))

TransferInstruction(s, t) ==
  \/ At(s, "call")      /\ t = After(s, Call(s))
  \/ At(s, "uncall")    /\ t = After(s, Uncall(s))
  \/ At(s, "branch")    /\ t = After(s, Branch(s, Operand(s)))
  \/ At(s, "brt")       /\ t = After(s, BranchIf(s, Operand(s), True))
  \/ At(s, "brf")       /\ t = After(s, BranchIf(s, Operand(s), False))

CompareInstruction(s, t) ==
  \E op \in Comparisons :
    \/ Fw(s, op)        /\ t = After(s, CmpPush(s, op))
    \/ Bw(s, op)        /\ t = After(s, CmpPop(s, op))

UpdateInstruction(s, t) ==
  \/ Fw(s, "inc")       /\ t = After(s, Inc(s, Operand(s)))
  \/ Bw(s, "inc")       /\ t = After(s, Dec(s, Operand(s)))
  \/ At(s, "neg")       /\ t = After(s, Neg(s))
  \/ Fw(s, "add")       /\ t = After(s, Add(s))
  \/ Bw(s, "add")       /\ t = After(s, Sub(s))
  \/ At(s, "xor")       /\ t = After(s, XorTop(s))
  \/ Fw(s, "shl")       /\ t = After(s, Shl(s))
  \/ Bw(s, "shl")       /\ t = After(s, Shr(s))
  \/ At(s, "xorhc")     /\ t = After(s, Xorhc(s, Fetch(s).bits))

ArithmeticInstruction(s, t) ==
  \E op \in Arithmetics :
    \/ Fw(s, op)        /\ t = After(s, ArPush(s, op))
    \/ Bw(s, op)        /\ t = After(s, ArPop(s, op))

HeapInstruction(s, t) ==
  \/ Fw(s, "pushm")     /\ t = After(s, Pushm(s, Operand(s)))
  \/ Bw(s, "pushm")     /\ t = After(s, Popm(s, Operand(s)))
  \/ Fw(s, "load")      /\ t = After(s, Load(s, Operand(s)))
  \/ Bw(s, "load")      /\ t = After(s, Store(s, Operand(s)))
  \/ At(s, "memswap")   /\ t = After(s, Memswap(s, Operand(s)))

step(s, t) ==
  \/ ~Fetches(s) /\ t = Throw(s, "out_of_range")
  \/ RunningInstruction(s, t)
  \/ ConstantInstruction(s, t)
  \/ ShuffleInstruction(s, t)
  \/ FrameInstruction(s, t)
  \/ TransferInstruction(s, t)
  \/ CompareInstruction(s, t)
  \/ UpdateInstruction(s, t)
  \/ ArithmeticInstruction(s, t)
  \/ HeapInstruction(s, t)

-----------------------------------------------------------------------------
(***************************************************************************)
(* Construction and the loop of run.                                       *)
(***************************************************************************)
Boot(image) ==
  [ dir     |-> Forward,
    pc      |-> image.entry,
    br      |-> 0,
    sp      |-> 0,
    fp      |-> 0,
    memory  |-> [address \in Addresses |->
                   IF address \in DOMAIN image.layout
                   THEN image.layout[address] ELSE 0],
    stack   |-> [i \in Slots |-> 0],
    running |-> FALSE,
    fault   |-> "none" ]

(* The constructor reads the address behind the last one of the layout     *)
(* (end()->first, undefined) to decide whether the layout fits the memory, *)
(* so any layout may be refused; if it is not, memory.at has the last word. *)
Construct(image, t) ==
  LET addresses == DOMAIN image.layout
  IN  \/ addresses # {} /\ t = Throw(Boot(image), "out_of_memory")
      \/ /\ \A address \in addresses : address >= 0
         /\ t = IF addresses \subseteq Addresses
                THEN Boot(image)
                ELSE Throw(Boot(image), "out_of_range")

Init ==
  /\ \E image \in Images : program = image.code /\ Construct(image, vm)
  /\ looping = (vm.fault = "none")

(* do step while running: an exception leaves the loop as well. *)
Run ==
  /\ looping
  /\ step(vm, vm')
  /\ looping' = (vm'.fault = "none" /\ vm'.running)
  /\ UNCHANGED program

Next == Run

(* Nothing else runs in the process and the loop does not wait. *)
Spec == Init /\ [][Next]_vars /\ WF_vars(Next)

-----------------------------------------------------------------------------
(***************************************************************************)
(* Properties                                                              *)
(***************************************************************************)
(* Registers, slots and cells hold words and the program is one of the     *)
(* assembled programs' instruction sequences.                              *)
TypeOK ==
  /\ program \in Seq(Instruction) /\ Len(program) < HalfRange
  /\ vm \in VM
  /\ looping \in BOOLEAN

Clean(stack, sp) ==
  /\ sp = 0 \/ sp \in Slots
  /\ \A i \in Slots : i >= sp => stack[i] = 0

(* The checked build keeps the stack pointer in the stack's storage and    *)
(* every slot from the stack pointer upwards zero: popl, popm, store, rsf  *)
(* and releasepar throw rather than leave a value behind that pushl, load  *)
(* or allocpar, which take over what they find above the stack, would      *)
(* bring back.                                                             *)
CleanAboveSp == Clean(vm.stack, vm.sp)

(* The macros of the checked build let no instruction reach an element     *)
(* outside the storage of the stack.                                       *)
NoUndefinedAccess == vm.fault # "undefined"

(* Mutant: the direction changes and the program counter stays. *)
InvertInPlace(s) == [s EXCEPT !.dir = -@]

(* invert_vm_direction of the debugger, or what uncall does with dir: turn *)
(* round and go back to the instruction just executed.                     *)
invert_vm_direction(s) == step_pc([s EXCEPT !.dir = -@])

(* Executing t backwards for one step leads to s. *)
UndoneBy(s, t) == step(invert_vm_direction(t), invert_vm_direction(s))

(* popl onto the very slot it pops: accepted when that slot holds zero.    *)
PopsOntoItself(s) ==
  Bw(s, "pushl") /\ Local(s, Operand(s)) = s.sp - 1

(* Reversibility: whatever instruction the machine has executed, turning   *)
(* round and executing one step restores the machine exactly, registers,   *)
(* stack and memory.  The one exception is a popl onto the slot it pops.   *)
StepsAreUndone ==
  [][vm'.fault = "none" /\ ~PopsOntoItself(vm) => UndoneBy(vm, vm')]_vars

(* The README's claim without the exception. *)
EveryStepIsUndone ==
  [][vm'.fault = "none" => UndoneBy(vm, vm')]_vars

(* The capacity of the stack is the number of values it can hold: a push   *)
(* of a constant is refused only when that many are on it.                 *)
CapacityIsUsable ==
  [][vm'.fault = "overflow_error" /\ Fw(vm, "pushc") => vm.sp = StackSize]_vars

(* Every program terminates.  The machine cannot enter a loop it has not   *)
(* been in from the beginning, because a step has only one predecessor,    *)
(* and the state before the first step has none; so run returns or throws. *)
RunTerminates == <>~looping
=============================================================================
