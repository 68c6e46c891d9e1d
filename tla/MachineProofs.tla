--------------------------- MODULE MachineProofs ---------------------------
(***************************************************************************)
(* The checked build keeps its machine sound, for every program, every     *)
(* width of words and every size of stack and memory: registers, slots and *)
(* cells hold words, every slot from the stack pointer upwards is zero,    *)
(* and no instruction has reached outside the storage of the stack.  None  *)
(* of the three is inductive alone: a push writes the slot at sp, which    *)
(* exists because sp stays below the capacity, and pops what it finds      *)
(* there; popl, load and store stay typed because their slots exist.       *)
(*                                                                         *)
(* The proof follows the code.  For each check there is a lemma that hands *)
(* its bound to what the check guards, for each family of instructions a   *)
(* lemma that the family is safe: it throws, or it leaves a sound machine. *)
(* The types of the fields alone hold in the unchecked build as well, and  *)
(* from any stack pointer; the second part of the module shows that.  The  *)
(* third is about reversibility.                                           *)
(***************************************************************************)
EXTENDS Machine, WordsProofs

(* What every machine of the checked build is. *)
Sound(s) ==
  /\ s \in VM
  /\ s.fault # "undefined"
  /\ Clean(s.stack, s.sp)

Failures == Exceptions \cup {"SIGFPE"}

Safe(u) == u.fault \in Failures \/ Sound(u)

(* A step that fails keeps the machine it found and records the exception. *)
LEMMA ThrowSafe ==
  ASSUME NEW s, Sound(s), NEW f \in Failures
  PROVE  Safe(Throw(s, f)) /\ Sound(Throw(s, f))
BY DEF Sound, Safe, Throw, VM, Faults, Failures, Exceptions

(* What soundness says of the stack: sp is inside the storage, everything  *)
(* below it is there, everything above it is zero.                         *)
LEMMA StackPointer ==
  ASSUME NEW s, Sound(s)
  PROVE  /\ StackSize \in Nat
         /\ s.sp \in Nat /\ s.sp <= StackSize
         /\ StackSize # 0 => s.sp < StackSize
         /\ s.stack \in [Slots -> Word]
         /\ \A i \in Slots : i >= s.sp => s.stack[i] = 0
         /\ \A n \in 1 .. s.sp : s.sp - n \in Slots /\ s.stack[s.sp - n] \in Word
BY SizeAssumption, HalfRangeNat DEF Sound, Clean, Slots, VM

(* New stack contents and a new stack pointer, clean again above it.       *)
LEMMA WithStackSound ==
  ASSUME NEW s, Sound(s), NEW stack \in [Slots -> Word], NEW sp \in Int, Clean(stack, sp)
  PROVE  Sound(WithStack(s, stack, sp))
BY DEF Sound, WithStack, VM

(* REQUIRES_PARAMS(n) throws or lets n values below sp be relied upon.     *)
LEMMA RequiresSafe ==
  ASSUME NEW s, Sound(s), NEW n \in Nat, NEW t, UNSAFE_OPERATIONS = FALSE,
         s.sp >= n => Safe(t)
  PROVE  Safe(REQUIRES_PARAMS(s, n, t))
<1>1. CASE s.sp < n
  BY <1>1, ThrowSafe DEF REQUIRES_PARAMS, Failures, Exceptions
<1>2. CASE s.sp >= n
  <2>1. (s.sp - n) .. (s.sp - 1) \subseteq Slots
    BY <1>2, StackPointer DEF Slots
  <2> QED BY <1>2, <2>1, StackPointer DEF REQUIRES_PARAMS, Touch
<1> QED BY <1>1, <1>2, StackPointer

(* PUSHES_VALUES(n) throws or lets n slots from sp upwards be relied upon, *)
(* and one more.                                                           *)
LEMMA PushesSafe ==
  ASSUME NEW s, Sound(s), NEW n \in Nat, NEW t, UNSAFE_OPERATIONS = FALSE,
         s.sp + n < StackSize => Safe(t)
  PROVE  Safe(PUSHES_VALUES(s, n, t))
<1>1. CASE (StackSize - s.sp) \in 0 .. n
  BY <1>1, ThrowSafe DEF PUSHES_VALUES, Failures, Exceptions
<1>2. CASE ~((StackSize - s.sp) \in 0 .. n)
  <2>1. s.sp + n < StackSize BY StackPointer, <1>2
  <2> QED BY <1>2, <2>1 DEF PUSHES_VALUES
<1> QED BY <1>1, <1>2

(* REQUIRES_LOCAL throws or the slot addressed from fp is below sp.        *)
LEMMA LocalSafe ==
  ASSUME NEW s, Sound(s), NEW n \in Word, NEW t, UNSAFE_OPERATIONS = FALSE,
         Local(s, n) \in 0 .. (s.sp - 1) => Safe(t)
  PROVE  Safe(REQUIRES_LOCAL(s, n, t))
BY ThrowSafe DEF REQUIRES_LOCAL, Failures, Exceptions

(* ASSERT_POSITIVE throws or the operand is a number of slots.             *)
LEMMA PositiveSafe ==
  ASSUME NEW s, Sound(s), NEW n \in Word, NEW t, UNSAFE_OPERATIONS = FALSE,
         n \in Nat => Safe(t)
  PROVE  Safe(ASSERT_POSITIVE(s, n, t))
BY ThrowSafe, WordInt DEF ASSERT_POSITIVE, Failures, Exceptions

(* memory.at throws or the address is one of the memory.                   *)
LEMMA MemorySafe ==
  ASSUME NEW s, Sound(s), NEW address, NEW t,
         address \in Addresses => Safe(t)
  PROVE  Safe(MemoryAt(s, address, t))
BY ThrowSafe DEF MemoryAt, Failures, Exceptions

(* A value is pushed on a slot that exists.                                *)
LEMMA PushSafe ==
  ASSUME NEW s, Sound(s), s.sp + 1 < StackSize, NEW value \in Word
  PROVE  /\ Safe(Push(s, value))
         /\ Sound(WithStack(s, [s.stack EXCEPT ![s.sp] = value], s.sp + 1))
<1>1. s.sp \in Slots /\ s.sp + 1 \in Slots /\ s.sp + 1 \in Int
  BY StackPointer DEF Slots
<1>2. [s.stack EXCEPT ![s.sp] = value] \in [Slots -> Word]
  BY <1>1, StackPointer
<1>3. Clean([s.stack EXCEPT ![s.sp] = value], s.sp + 1)
  BY <1>1, StackPointer DEF Clean, Slots
<1> QED BY <1>1, <1>2, <1>3, WithStackSound DEF Push, Touch, Safe

(* clear throws or leaves the slot it gives up zero.                       *)
LEMMA ClearSafe ==
  ASSUME NEW s, Sound(s), s.sp >= 1, NEW stack \in [Slots -> Word],
         \A i \in Slots : i >= s.sp => stack[i] = 0,
         NEW expected \in Word, UNSAFE_OPERATIONS = FALSE
  PROVE  Safe(Clear(s, stack, expected))
<1> DEFINE top   == s.sp - 1
           value == BitXor(stack[top], expected)
<1>1. top \in Slots /\ s.sp \in Nat
  BY StackPointer DEF Slots
<1>2. CASE value = 0
  <2>1. [stack EXCEPT ![top] = value] \in [Slots -> Word]
    BY <1>1, <1>2, HalfRangeNat DEF Word
  <2>2. Clean([stack EXCEPT ![top] = value], top)
    BY <1>1, <1>2 DEF Clean, Slots
  <2>3. top \in Int BY <1>1
  <2> QED BY <1>2, <2>1, <2>2, <2>3, WithStackSound DEF Clear, Safe
<1>3. CASE value # 0
  BY <1>3, ThrowSafe DEF Clear, Failures, Exceptions
<1> QED BY <1>2, <1>3

(* The same of a pop that moves nothing before it clears.                  *)
LEMMA PopSafe ==
  ASSUME NEW s, Sound(s), s.sp >= 1, NEW expected \in Word,
         UNSAFE_OPERATIONS = FALSE
  PROVE  Safe(Pop(s, expected))
BY StackPointer, ClearSafe DEF Pop

(* The topmost value is replaced by another word.                          *)
LEMMA SetTopSound ==
  ASSUME NEW s, Sound(s), s.sp >= 1, NEW value \in Word
  PROVE  Sound(SetTop(s, value))
<1>1. s.sp - 1 \in Slots /\ s.sp \in Int
  BY StackPointer DEF Slots
<1>2. [s.stack EXCEPT ![s.sp - 1] = value] \in [Slots -> Word]
  BY <1>1, StackPointer
<1>3. Clean([s.stack EXCEPT ![s.sp - 1] = value], s.sp)
  BY <1>1, StackPointer DEF Clean, Slots, Sound
<1> QED BY <1>1, <1>2, <1>3, WithStackSound DEF SetTop

(* Registers and memory cells take any word of theirs.                     *)
LEMMA RegistersSound ==
  ASSUME NEW s, Sound(s)
  PROVE  /\ \A w \in Word : /\ Sound([s EXCEPT !.br = w])
                            /\ Sound([s EXCEPT !.fp = w])
                            /\ Sound([s EXCEPT !.pc = w])
                            /\ \A a \in Addresses : Sound([s EXCEPT !.memory[a] = w])
         /\ \A b \in BOOLEAN : Sound([s EXCEPT !.running = b])
         /\ Sound([s EXCEPT !.dir = -@])
BY DEF Sound, VM, Forward, Backward

-----------------------------------------------------------------------------
(* start and stop.                                                         *)
LEMMA RunningSafe == ASSUME NEW s, Sound(s) PROVE Safe(Start(s)) /\ Safe(Stop(s))
BY ThrowSafe, RegistersSound DEF Start, Stop, Safe, Failures, Exceptions

(* pushc, pushtrue, pushfalse and their inverses.                          *)
LEMMA ConstantSafe ==
  ASSUME NEW s, Sound(s), UNSAFE_OPERATIONS = FALSE, NEW w \in Word
  PROVE  Safe(Pushc(s, w)) /\ Safe(Popc(s, w))
<1>1. Safe(Pushc(s, w))
  BY PushesSafe, PushSafe DEF Pushc
<1>2. Safe(Popc(s, w))
  BY RequiresSafe, PopSafe DEF Popc
<1> QED BY <1>1, <1>2

(* The values an instruction may look at are words.                        *)
LEMMA TopWord ==
  ASSUME NEW s, Sound(s)
  PROVE  /\ s.sp >= 1 => Top(s) \in Word
         /\ s.sp >= 2 => Under(s) \in Word
         /\ s.sp >= 3 => Third(s) \in Word
BY StackPointer DEF Top, Under, Third

(* dup and undup.                                                          *)
LEMMA DupSafe ==
  ASSUME NEW s, Sound(s), UNSAFE_OPERATIONS = FALSE
  PROVE  Safe(Dup(s)) /\ Safe(Undup(s))
<1>1. Safe(Dup(s))
  <2>1. ASSUME s.sp + 1 < StackSize PROVE Safe(REQUIRES_PARAMS(s, 1, Push(s, Top(s))))
    BY <2>1, RequiresSafe, PushSafe, TopWord
  <2> QED BY <2>1, PushesSafe DEF Dup
<1>2. Safe(Undup(s))
  <2>1. s.sp >= 2 => s.sp >= 1 BY StackPointer
  <2> QED BY <2>1, RequiresSafe, PopSafe, TopWord DEF Undup
<1> QED BY <1>1, <1>2

(* A rearrangement of slots below the stack pointer.                       *)
LEMMA RearrangeSound ==
  ASSUME NEW s, Sound(s), NEW n \in 1 .. s.sp,
         NEW stack \in [Slots -> Word],
         \A i \in Slots : i >= s.sp => stack[i] = s.stack[i]
  PROVE  Sound(WithStack(s, stack, s.sp))
<1>1. Clean(stack, s.sp) /\ s.sp \in Int
  BY StackPointer DEF Clean, Sound
<1> QED BY <1>1, WithStackSound

(* swap, bury and dig.                                                     *)
LEMMA ShuffleSafe ==
  ASSUME NEW s, Sound(s), UNSAFE_OPERATIONS = FALSE
  PROVE  Safe(Swap(s)) /\ Safe(Dig(s)) /\ Safe(Bury(s))
<1>1. ASSUME s.sp >= 2
      PROVE  Sound(WithStack(s, Exchange(s.stack, s.sp - 1, s.sp - 2), s.sp))
  <2>1. 2 \in 1 .. s.sp /\ s.sp \in Int /\ s.sp - 1 \in Slots /\ s.sp - 2 \in Slots
    BY <1>1, StackPointer
  <2>2. Exchange(s.stack, s.sp - 1, s.sp - 2) \in [Slots -> Word]
    BY <2>1, StackPointer DEF Exchange
  <2>3. \A i \in Slots : i >= s.sp => Exchange(s.stack, s.sp - 1, s.sp - 2)[i] = s.stack[i]
    <3> TAKE i \in Slots
    <3> HAVE i >= s.sp
    <3>1. i # s.sp - 1 /\ i # s.sp - 2
      BY <2>1 DEF Slots
    <3> QED BY <2>1, <3>1, StackPointer DEF Exchange
  <2> QED BY <2>1, <2>2, <2>3, RearrangeSound
<1>2. Safe(Swap(s))
  BY <1>1, RequiresSafe DEF Swap, Safe
<1>3. ASSUME s.sp >= 3, NEW a \in Word, NEW b \in Word, NEW c \in Word
      PROVE  /\ Sound(WithStack(s, [s.stack EXCEPT ![s.sp - 1] = a, ![s.sp - 2] = b, ![s.sp - 3] = c], s.sp))
             /\ Sound(WithStack(s, [s.stack EXCEPT ![s.sp - 3] = c, ![s.sp - 2] = b, ![s.sp - 1] = a], s.sp))
  <2>1. /\ 3 \in 1 .. s.sp /\ s.sp \in Int
        /\ s.sp - 1 \in Slots /\ s.sp - 2 \in Slots /\ s.sp - 3 \in Slots
    BY <1>3, StackPointer
  <2> DEFINE f == [s.stack EXCEPT ![s.sp - 1] = a, ![s.sp - 2] = b, ![s.sp - 3] = c]
             g == [s.stack EXCEPT ![s.sp - 3] = c, ![s.sp - 2] = b, ![s.sp - 1] = a]
  <2>2. f \in [Slots -> Word] /\ g \in [Slots -> Word]
    BY <1>3, <2>1, StackPointer
  <2>3. \A i \in Slots : i >= s.sp => f[i] = s.stack[i] /\ g[i] = s.stack[i]
    <3> TAKE i \in Slots
    <3> HAVE i >= s.sp
    <3>1. i # s.sp - 1 /\ i # s.sp - 2 /\ i # s.sp - 3
      BY <2>1 DEF Slots
    <3> QED BY <2>1, <3>1, StackPointer
  <2> HIDE DEF f, g
  <2>4. Sound(WithStack(s, f, s.sp)) /\ Sound(WithStack(s, g, s.sp))
    BY <2>1, <2>2, <2>3, RearrangeSound
  <2> QED BY <2>4 DEF f, g
<1>4. Safe(Dig(s)) /\ Safe(Bury(s))
  <2>1. s.sp >= 3 => Top(s) \in Word /\ Under(s) \in Word /\ Third(s) \in Word
    BY TopWord, StackPointer
  <2> QED BY <1>3, <2>1, RequiresSafe DEF Dig, Bury, Safe
<1> QED BY <1>2, <1>4

(* The instructions that update the topmost value in place.                *)
LEMMA UnarySafe ==
  ASSUME NEW s, Sound(s), UNSAFE_OPERATIONS = FALSE, NEW n \in Word
  PROVE  /\ Safe(Inc(s, n)) /\ Safe(Dec(s, n)) /\ Safe(Neg(s))
         /\ Safe(Add(s)) /\ Safe(Sub(s)) /\ Safe(XorTop(s))
         /\ Safe(Shl(s)) /\ Safe(Shr(s))
<1>0. /\ s.sp >= 2 => s.sp >= 1
      /\ s.sp >= 1 => Top(s) \in Word
      /\ s.sp >= 2 => Under(s) \in Word
  BY StackPointer, TopWord
<1>1. ASSUME NEW w \in Word, s.sp >= 1 PROVE Safe(SetTop(s, w))
  BY <1>1, SetTopSound DEF Safe
<1>2. Safe(Inc(s, n)) /\ Safe(Dec(s, n)) /\ Safe(Neg(s))
  <2>1. s.sp >= 1 => /\ AddW(Top(s), n) \in Word /\ SubW(Top(s), n) \in Word
                     /\ NegW(Top(s)) \in Word
    BY <1>0, AddWord, SubWord, NegWord
  <2> QED BY <1>1, <2>1, RequiresSafe DEF Inc, Dec, Neg
<1>3. Safe(Add(s)) /\ Safe(Sub(s))
  <2>1. s.sp >= 2 => /\ AddW(Top(s), Under(s)) \in Word
                     /\ SubW(Top(s), Under(s)) \in Word
    BY <1>0, AddWord, SubWord
  <2> QED BY <1>0, <1>1, <2>1, RequiresSafe DEF Add, Sub
<1>4. Safe(XorTop(s)) /\ Safe(Shl(s)) /\ Safe(Shr(s))
  <2>1. s.sp >= 2 => /\ BitXor(Top(s), Under(s)) \in Word
                     /\ RotL(Top(s), Under(s)) \in Word
                     /\ RotR(Top(s), Under(s)) \in Word
    BY <1>0, BitwiseAssumption
  <2> QED BY <1>0, <1>1, <2>1, RequiresSafe DEF XorTop, Shl, Shr
<1> QED BY <1>2, <1>3, <1>4

(* xorhc, whose operand is not sign-extended.                              *)
LEMMA XorhcSafe ==
  ASSUME NEW s, Sound(s), UNSAFE_OPERATIONS = FALSE, NEW bits \in 0 .. (2 * OPERAND_SIGN - 1)
  PROVE  Safe(Xorhc(s, bits))
<1>1. s.sp >= 1 => BitXor(Top(s), UpperBits(bits)) \in Word
  BY TopWord, OperandWord, BitwiseAssumption
<1> QED BY <1>1, SetTopSound, RequiresSafe DEF Xorhc, Safe

(* allocpar takes over zero slots, releasepar gives zero slots back.       *)
LEMMA AllocparSafe ==
  ASSUME NEW s, Sound(s), UNSAFE_OPERATIONS = FALSE, NEW n \in Word
  PROVE  Safe(Allocpar(s, n)) /\ Safe(Releasepar(s, n))
<1>1. ASSUME n \in Nat, s.sp + n < StackSize
      PROVE  Sound(WithStack(s, s.stack, s.sp + n))
  <2>1. s.sp + n \in Int /\ Clean(s.stack, s.sp + n)
    BY <1>1, StackPointer DEF Clean, Slots
  <2> QED BY <2>1, StackPointer, WithStackSound
<1>2. Safe(Allocpar(s, n))
  <2>1. n \in Nat => Safe(PUSHES_VALUES(s, n, WithStack(s, s.stack, s.sp + n)))
    BY <1>1, PushesSafe DEF Safe
  <2> QED BY <2>1, PositiveSafe DEF Allocpar
<1>3. ASSUME n \in Nat, s.sp >= n
      PROVE  Safe(ClearSlots(s, (s.sp - n) .. (s.sp - 1), WithStack(s, s.stack, s.sp - n)))
  <2>1. (s.sp - n) .. (s.sp - 1) \subseteq Slots
    BY <1>3, StackPointer DEF Slots
  <2>2. CASE \E i \in (s.sp - n) .. (s.sp - 1) : s.stack[i] # 0
    BY <2>1, <2>2, ThrowSafe DEF ClearSlots, Touch, Failures, Exceptions
  <2>3. CASE \A i \in (s.sp - n) .. (s.sp - 1) : s.stack[i] = 0
    <3>1. s.sp - n \in Int /\ Clean(s.stack, s.sp - n)
      BY <1>3, <2>3, StackPointer DEF Clean, Slots
    <3>2. Sound(WithStack(s, s.stack, s.sp - n))
      BY <3>1, StackPointer, WithStackSound
    <3> QED BY <2>1, <2>3, <3>2 DEF ClearSlots, Touch, Safe
  <2> QED BY <2>2, <2>3
<1>4. Safe(Releasepar(s, n))
  <2>1. n \in Nat => Safe(REQUIRES_PARAMS(s, n, ClearSlots(s, (s.sp - n) .. (s.sp - 1), WithStack(s, s.stack, s.sp - n))))
    BY <1>3, RequiresSafe
  <2> QED BY <2>1, PositiveSafe DEF Releasepar
<1> QED BY <1>2, <1>4

(* asf: fp takes the value of sp, which a word can hold.                   *)
LEMMA AsfSafe ==
  ASSUME NEW s, Sound(s), UNSAFE_OPERATIONS = FALSE, NEW n \in Word
  PROVE  Safe(Asf(s, n))
<1> DEFINE stack == [s.stack EXCEPT ![s.sp] = s.fp]
           framed == [WithStack(s, stack, s.sp + n + 1) EXCEPT !.fp = s.sp]
<1>1. ASSUME n \in Nat, s.sp + (n + 1) < StackSize PROVE Safe(Touch(s, {s.sp}, framed))
  <2>1. s.sp \in Slots /\ s.sp \in Word /\ s.sp + n + 1 \in Int /\ s.fp \in Word
    <3>1. s.sp \in Slots /\ s.sp + n + 1 \in Int
      BY <1>1, StackPointer DEF Slots
    <3>2. s.sp \in Word
      BY <3>1, SizeAssumption, HalfRangeNat DEF Slots, Word
    <3>3. s.fp \in Word
      BY DEF Sound, VM
    <3> QED BY <3>1, <3>2, <3>3
  <2>2. stack \in [Slots -> Word] /\ Clean(stack, s.sp + n + 1)
    BY <1>1, <2>1, StackPointer DEF Clean, Slots
  <2> HIDE DEF stack
  <2>3. Sound(WithStack(s, stack, s.sp + n + 1))
    BY <2>1, <2>2, WithStackSound
  <2>4. Sound(framed)
    BY <2>1, <2>3, RegistersSound
  <2> QED BY <2>1, <2>4 DEF Touch, Safe
<1>2. n \in Nat => Safe(PUSHES_VALUES(s, n + 1, Touch(s, {s.sp}, framed)))
  <2> HIDE DEF framed
  <2> HAVE n \in Nat
  <2>1. n + 1 \in Nat
    OBVIOUS
  <2> QED BY <1>1, <2>1, PushesSafe
<1> QED BY <1>2, PositiveSafe DEF Asf

(* rsf: the slot of the frame pointer is cleared by the check that fp is   *)
(* where asf left it.                                                      *)
LEMMA RsfSafe ==
  ASSUME NEW s, Sound(s), UNSAFE_OPERATIONS = FALSE, NEW n \in Word
  PROVE  Safe(Rsf(s, n))
<1> DEFINE base    == s.sp - (n + 1)
           cleared == BitXor(s.fp, base)
           stack   == [s.stack EXCEPT ![base] = cleared]
           unframed == IF ~UNSAFE_OPERATIONS /\ cleared # 0
                       THEN Throw(s, "domain_error")
                       ELSE Touch(s, {base}, [WithStack(s, stack, base) EXCEPT !.fp = s.stack[base]])
           locals  == (s.sp - n) .. (s.sp - 1)
<1>1. ASSUME n \in Nat, s.sp >= n + 1 PROVE Safe(ClearSlots(s, locals, unframed))
  <2>1. /\ locals \subseteq Slots /\ base \in Slots /\ base \in Int
        /\ s.stack[base] \in Word
    BY <1>1, StackPointer DEF Slots
  <2>2. CASE \E i \in locals : s.stack[i] # 0
    BY <2>1, <2>2, ThrowSafe DEF ClearSlots, Touch, Failures, Exceptions
  <2>3. CASE cleared # 0 /\ \A i \in locals : s.stack[i] = 0
    BY <2>1, <2>3, ThrowSafe DEF ClearSlots, Touch, Failures, Exceptions
  <2>4. CASE cleared = 0 /\ \A i \in locals : s.stack[i] = 0
    <3>1. stack \in [Slots -> Word]
      BY <2>1, <2>4, StackPointer, HalfRangeNat DEF Word
    <3>2. Clean(stack, base)
      BY <1>1, <2>1, <2>4, StackPointer DEF Clean, Slots
    <3>3. Sound([WithStack(s, stack, base) EXCEPT !.fp = s.stack[base]])
      <4> HIDE DEF stack
      <4>1. Sound(WithStack(s, stack, base))
        BY <2>1, <3>1, <3>2, WithStackSound
      <4> QED BY <2>1, <4>1, RegistersSound
    <3> QED BY <2>1, <2>4, <3>3 DEF ClearSlots, Touch, Safe
  <2> QED BY <2>2, <2>3, <2>4
<1>2. n \in Nat => Safe(REQUIRES_PARAMS(s, n + 1, ClearSlots(s, locals, unframed)))
  <2> HIDE DEF locals, unframed
  <2> HAVE n \in Nat
  <2>1. n + 1 \in Nat
    OBVIOUS
  <2> QED BY <1>1, <2>1, RequiresSafe
<1> QED BY <1>2, PositiveSafe DEF Rsf

(* pushl and popl, also when popl addresses the slot it pops.              *)
LEMMA LocalAccessSafe ==
  ASSUME NEW s, Sound(s), UNSAFE_OPERATIONS = FALSE, NEW n \in Word
  PROVE  Safe(Pushl(s, n)) /\ Safe(Popl(s, n))
<1> DEFINE i == Local(s, n)
           above == Exchange(s.stack, s.sp, i)
           below == Exchange(s.stack, s.sp - 1, i)
<1>1. ASSUME s.sp + 1 < StackSize, i \in 0 .. (s.sp - 1)
      PROVE  Safe(Touch(s, {s.sp}, WithStack(s, above, s.sp + 1)))
  <2>1. s.sp \in Slots /\ s.sp + 1 \in Int /\ i \in Slots /\ s.sp + 1 \in Slots
    BY <1>1, StackPointer DEF Slots
  <2>2. above \in [Slots -> Word]
    BY <2>1, StackPointer DEF Exchange
  <2>3. Clean(above, s.sp + 1)
    <3>1. ASSUME NEW j \in Slots, j >= s.sp + 1 PROVE above[j] = 0
      <4>1. j # s.sp /\ j # i /\ j >= s.sp
        BY <1>1, <2>1, <3>1, StackPointer DEF Slots
      <4> QED BY <2>1, <4>1, StackPointer DEF Exchange
    <3> QED BY <2>1, <3>1 DEF Clean
  <2> HIDE DEF above
  <2>4. Sound(WithStack(s, above, s.sp + 1))
    BY <2>1, <2>2, <2>3, WithStackSound
  <2> QED BY <2>1, <2>4 DEF Touch, Safe
<1>2. Safe(Pushl(s, n))
  <2> HIDE DEF above, i
  <2>1. s.sp + 1 < StackSize =>
          Safe(REQUIRES_LOCAL(s, n, Touch(s, {s.sp}, WithStack(s, above, s.sp + 1))))
    BY <1>1, LocalSafe DEF i
  <2> QED BY <2>1, PushesSafe DEF Pushl, above, i
<1>3. ASSUME s.sp >= 1, i \in 0 .. (s.sp - 1)
      PROVE  Safe(Clear(s, below, 0))
  <2>1. s.sp - 1 \in Slots /\ i \in Slots
    BY <1>3, StackPointer DEF Slots
  <2>2. below \in [Slots -> Word]
    BY <2>1, StackPointer DEF Exchange
  <2>3. ASSUME NEW j \in Slots, j >= s.sp PROVE below[j] = 0
    <3>1. j # s.sp - 1 /\ j # i
      BY <1>3, <2>1, <2>3, StackPointer DEF Slots
    <3> QED BY <2>1, <2>3, <3>1, StackPointer DEF Exchange
  <2>4. 0 \in Word
    BY HalfRangeNat DEF Word
  <2> HIDE DEF below
  <2> QED BY <1>3, <2>2, <2>3, <2>4, ClearSafe
<1>4. Safe(Popl(s, n))
  <2> HIDE DEF below, i
  <2>1. s.sp >= 1 => Safe(REQUIRES_LOCAL(s, n, Clear(s, below, 0)))
    BY <1>3, LocalSafe DEF i
  <2> QED BY <2>1, RequiresSafe DEF Popl, below, i
<1> QED BY <1>2, <1>4

(* call, uncall and the branches.                                          *)
LEMMA TransferSafe ==
  ASSUME NEW s, Sound(s), UNSAFE_OPERATIONS = FALSE, NEW n \in Word
  PROVE  /\ Safe(Call(s)) /\ Safe(Uncall(s)) /\ Safe(Branch(s, n))
         /\ \A condition \in Word : Safe(BranchIf(s, n, condition))
<1>1. s.br \in Word /\ NegW(s.br) \in Word /\ AddW(s.br, n) \in Word /\ SubW(s.br, n) \in Word
  BY NegWord, AddWord, SubWord DEF Sound, VM
<1>2. Safe(Call(s))
  <2>1. s.sp >= 1 => Sound([SetTop(s, s.br) EXCEPT !.br = Top(s)])
    BY <1>1, SetTopSound, TopWord, RegistersSound
  <2> QED BY <2>1, RequiresSafe DEF Call, Safe
<1>3. Safe(Uncall(s))
  <2> DEFINE r == [SetTop(s, NegW(s.br)) EXCEPT !.br = NegW(Top(s))]
  <2>1. s.sp >= 1 => Sound(r)
    BY <1>1, SetTopSound, TopWord, NegWord, RegistersSound
  <2>2. s.sp >= 1 => Sound([r EXCEPT !.dir = -@])
    <3> HIDE DEF r
    <3> QED BY <2>1, RegistersSound
  <2> QED BY <2>2, RequiresSafe DEF Uncall, Safe
<1>4. Safe(Branch(s, n))
  BY <1>1, RegistersSound DEF Branch, Safe
<1>5. ASSUME NEW condition \in Word PROVE Safe(BranchIf(s, n, condition))
  BY <1>4, RequiresSafe DEF BranchIf, Safe
<1> QED BY <1>2, <1>3, <1>4, <1>5

(* cmpush and cmpop for every comparison.                                  *)
LEMMA CompareSafe ==
  ASSUME NEW s, Sound(s), UNSAFE_OPERATIONS = FALSE, NEW op \in Comparisons
  PROVE  Safe(CmpPush(s, op)) /\ Safe(CmpPop(s, op))
<1>1. \A a, b : Compare(op, a, b) \in Word
  <2>1. True \in Word /\ False \in Word
    BY HalfRangeNat DEF True, False, Forward, Backward, Word
  <2> QED BY <2>1, Zenon DEF Compare
<1>2. Safe(CmpPush(s, op))
  <2>1. s.sp + 1 < StackSize =>
          Safe(REQUIRES_PARAMS(s, 2, Push(s, Compare(op, Top(s), Under(s)))))
    BY <1>1, PushSafe, RequiresSafe
  <2> QED BY <2>1, PushesSafe DEF CmpPush
<1>3. Safe(CmpPop(s, op))
  <2>1. s.sp >= 3 => s.sp >= 1
    BY StackPointer
  <2> QED BY <1>1, <2>1, PopSafe, RequiresSafe DEF CmpPop
<1> QED BY <1>2, <1>3

(* A result that is computed without a trap is a word.                     *)
LEMMA ArithmeticWord ==
  ASSUME NEW op \in Arithmetics, NEW a \in Word, NEW b \in Word,
         ~(op \in {"arpushdiv", "arpushmod"} /\ DivisionTraps(a, b))
  PROVE  Arithmetic(op, a, b) \in Word
BY AddWord, SubWord, MulWord, QuotWord, BitwiseAssumption DEF Arithmetic, Arithmetics

(* The trap of an undefined division is a failure as good as an exception. *)
LEMMA ComputesSafe ==
  ASSUME NEW s, Sound(s), NEW op, NEW a, NEW b, NEW t,
         ~(op \in {"arpushdiv", "arpushmod"} /\ DivisionTraps(a, b)) => Safe(t)
  PROVE  Safe(Computes(s, op, a, b, t))
BY ThrowSafe DEF Computes, Failures

(* arpush and arpop for every operator.                                    *)
LEMMA ArithmeticSafe ==
  ASSUME NEW s, Sound(s), UNSAFE_OPERATIONS = FALSE, NEW op \in Arithmetics
  PROVE  Safe(ArPush(s, op)) /\ Safe(ArPop(s, op))
<1>1. Safe(ArPush(s, op))
  <2> DEFINE t == Push(s, Arithmetic(op, Top(s), Under(s)))
  <2>1. s.sp + 1 < StackSize /\ s.sp >= 2 => Safe(Computes(s, op, Top(s), Under(s), t))
    <3> HAVE s.sp + 1 < StackSize /\ s.sp >= 2
    <3>1. Top(s) \in Word /\ Under(s) \in Word
      BY TopWord, StackPointer
    <3>2. ~(op \in {"arpushdiv", "arpushmod"} /\ DivisionTraps(Top(s), Under(s))) => Safe(t)
      BY <3>1, ArithmeticWord, PushSafe
    <3> HIDE DEF t
    <3> QED BY <3>2, ComputesSafe
  <2> HIDE DEF t
  <2>2. s.sp + 1 < StackSize => Safe(REQUIRES_PARAMS(s, 2, Computes(s, op, Top(s), Under(s), t)))
    BY <2>1, RequiresSafe
  <2> QED BY <2>2, PushesSafe DEF ArPush, t
<1>2. Safe(ArPop(s, op))
  <2> DEFINE t == Pop(s, Arithmetic(op, Under(s), Third(s)))
  <2>1. s.sp >= 3 => Safe(Computes(s, op, Under(s), Third(s), t))
    <3> HAVE s.sp >= 3
    <3>1. Under(s) \in Word /\ Third(s) \in Word /\ s.sp >= 1
      BY TopWord, StackPointer
    <3>2. ~(op \in {"arpushdiv", "arpushmod"} /\ DivisionTraps(Under(s), Third(s))) => Safe(t)
      BY <3>1, ArithmeticWord, PopSafe
    <3> HIDE DEF t
    <3> QED BY <3>2, ComputesSafe
  <2> HIDE DEF t
  <2> QED BY <2>1, RequiresSafe DEF ArPop, t
<1> QED BY <1>1, <1>2

(* pushm, popm, load, store and memswap, whatever address they compute.    *)
LEMMA HeapSafe ==
  ASSUME NEW s, Sound(s), UNSAFE_OPERATIONS = FALSE, NEW n \in Word
  PROVE  /\ Safe(Pushm(s, n)) /\ Safe(Popm(s, n))
         /\ Safe(Load(s, n)) /\ Safe(Store(s, n)) /\ Safe(Memswap(s, n))
<1>1. ASSUME NEW a, s.sp + 1 < StackSize PROVE Safe(PushFrom(s, a))
  <2>1. ASSUME a \in Addresses
        PROVE  Safe(Touch(s, {s.sp},
                 [WithStack(s, [s.stack EXCEPT ![s.sp] = s.memory[a]], s.sp + 1)
                    EXCEPT !.memory[a] = s.stack[s.sp]]))
    <3>1. s.sp \in Slots /\ s.memory[a] \in Word /\ s.stack[s.sp] \in Word
      BY <1>1, <2>1, StackPointer DEF Slots, Sound, VM
    <3>2. Sound(WithStack(s, [s.stack EXCEPT ![s.sp] = s.memory[a]], s.sp + 1))
      BY <1>1, <3>1, PushSafe
    <3> QED BY <2>1, <3>1, <3>2, RegistersSound DEF Touch, Safe
  <2> QED BY <2>1, MemorySafe DEF PushFrom
<1>2. ASSUME NEW a, s.sp >= 1 PROVE Safe(PopInto(s, a))
  <2> DEFINE r == [s EXCEPT !.memory[a] = Top(s)]
             stack == [s.stack EXCEPT ![s.sp - 1] = s.memory[a]]
  <2>1. ASSUME a \in Addresses PROVE Safe(Clear(r, stack, 0))
    <3>1. Sound(r) /\ r.sp = s.sp
      BY <1>2, <2>1, TopWord, RegistersSound DEF Sound, VM
    <3>2. s.sp - 1 \in Slots /\ s.memory[a] \in Word /\ 0 \in Word
      BY <1>2, <2>1, StackPointer, HalfRangeNat DEF Sound, VM, Slots, Word
    <3>3. stack \in [Slots -> Word]
      BY <3>2, StackPointer
    <3>4. \A i \in Slots : i >= s.sp => stack[i] = 0
      BY <1>2, <3>2, StackPointer DEF Slots
    <3> HIDE DEF r, stack
    <3> QED BY <1>2, <3>1, <3>2, <3>3, <3>4, ClearSafe
  <2> QED BY <2>1, MemorySafe DEF PopInto
<1>3. Safe(Pushm(s, n)) /\ Safe(Popm(s, n))
  BY <1>1, <1>2, PushesSafe, RequiresSafe DEF Pushm, Popm
<1>4. Safe(Load(s, n))
  <2>1. s.sp + 1 < StackSize => Safe(REQUIRES_PARAMS(s, 1, PushFrom(s, AddW(Top(s), n))))
    BY <1>1, RequiresSafe
  <2> QED BY <2>1, PushesSafe DEF Load
<1>5. Safe(Store(s, n))
  <2>1. s.sp >= 2 => s.sp >= 1
    BY StackPointer
  <2> QED BY <1>2, <2>1, RequiresSafe DEF Store
<1>6. Safe(Memswap(s, n))
  <2> DEFINE a == AddW(Top(s), n)
             b == AddW(Under(s), n)
             u == [s EXCEPT !.memory = Exchange(@, a, b)]
  <2>1. ASSUME a \in Addresses, b \in Addresses PROVE Safe(u)
    BY <2>1 DEF Safe, Sound, VM, Exchange
  <2> HIDE DEF a, b, u
  <2>2. Safe(MemoryAt(s, a, MemoryAt(s, b, u)))
    BY <2>1, MemorySafe
  <2> QED BY <2>2, RequiresSafe DEF Memswap, a, b, u
<1> QED BY <1>3, <1>4, <1>5, <1>6

-----------------------------------------------------------------------------
(* What a step leads to: a sound machine, the one it started from if it    *)
(* has thrown.                                                             *)
Outcome(s, t) ==
  /\ Sound(t)
  /\ t.fault # "none" => t = Throw(s, t.fault)

LEMMA ThrowOutcome ==
  ASSUME NEW s, Sound(s), NEW f \in Failures
  PROVE  Outcome(s, Throw(s, f))
<1>1. Throw(s, f).fault = f
  BY DEF Throw, Sound, VM
<1> QED BY <1>1, ThrowSafe DEF Outcome

(* step_pc keeps the machine sound after an instruction that did not       *)
(* throw.                                                                  *)
LEMMA AfterOutcome ==
  ASSUME NEW s, Sound(s), NEW u, Safe(u)
  PROVE  Outcome(s, After(s, u))
<1>1. CASE u.fault = "none"
  <2>1. Sound(u)
    BY <1>1 DEF Safe, Failures, Exceptions
  <2>2. u.pc \in Word /\ u.br \in Word /\ 1 \in Word
    BY <2>1, HalfRangeNat DEF Sound, VM, Word
  <2>3. Sound(step_pc(u))
    BY <2>1, <2>2, AddWord, SubWord, RegistersSound DEF step_pc
  <2>4. step_pc(u).fault = "none"
    BY <1>1, <2>1 DEF step_pc, Sound, VM
  <2> QED BY <1>1, <2>3, <2>4 DEF After, Outcome
<1>2. CASE u.fault # "none"
  <2>1. u.fault \in Failures
    BY <1>2 DEF Safe, Sound, VM, Failures, Faults
  <2> QED BY <1>2, <2>1, ThrowOutcome DEF After
<1> QED BY <1>1, <1>2

(* The word that program.at returns decodes to an instruction.             *)
LEMMA FetchedWord ==
  ASSUME NEW s, Sound(s), program \in Seq(Instruction), Fetches(s)
  PROVE  /\ Fetch(s) \in Instruction
         /\ Operand(s) \in Word
         /\ Fetch(s).bits \in 0 .. (2 * OPERAND_SIGN - 1)
<1>1. s.pc + 1 \in 1 .. Len(program)
  BY DEF Fetches, Sound, VM
<1>2. Fetch(s) \in Instruction
  BY <1>1 DEF Fetch
<1> QED BY <1>2, OperandWord DEF Instruction, Operand

(* Every step of the checked build has such an outcome.                    *)
LEMMA StepOutcome ==
  ASSUME NEW s, Sound(s), program \in Seq(Instruction), UNSAFE_OPERATIONS = FALSE,
         NEW t, step(s, t)
  PROVE  Outcome(s, t)
<1>1. CASE ~Fetches(s) /\ t = Throw(s, "out_of_range")
  BY <1>1, ThrowOutcome DEF Failures, Exceptions
<1>2. CASE RunningInstruction(s, t)
  BY <1>2, AfterOutcome, RunningSafe DEF RunningInstruction, Safe
<1>3. CASE ConstantInstruction(s, t)
  <2>1. /\ Operand(s) \in Word
        /\ Fetch(s).bits \in 0 .. (2 * OPERAND_SIGN - 1)
    BY <1>3, FetchedWord DEF ConstantInstruction, Fw, Bw, At
  <2>2. True \in Word /\ False \in Word
    BY HalfRangeNat DEF True, False, Forward, Backward, Word
  <2> QED BY <1>3, <2>1, <2>2, AfterOutcome, ConstantSafe DEF ConstantInstruction
<1>4. CASE ShuffleInstruction(s, t)
  BY <1>4, AfterOutcome, DupSafe, ShuffleSafe DEF ShuffleInstruction
<1>5. CASE FrameInstruction(s, t)
  <2>1. /\ Operand(s) \in Word
        /\ Fetch(s).bits \in 0 .. (2 * OPERAND_SIGN - 1)
    BY <1>5, FetchedWord DEF FrameInstruction, Fw, Bw, At
  <2> QED BY <1>5, <2>1, AfterOutcome, AllocparSafe, AsfSafe, RsfSafe, LocalAccessSafe DEF FrameInstruction
<1>6. CASE TransferInstruction(s, t)
  <2>1. /\ Operand(s) \in Word
        /\ Fetch(s).bits \in 0 .. (2 * OPERAND_SIGN - 1)
    BY <1>6, FetchedWord DEF TransferInstruction, Fw, Bw, At
  <2>2. True \in Word /\ False \in Word
    BY HalfRangeNat DEF True, False, Forward, Backward, Word
  <2> QED BY <1>6, <2>1, <2>2, AfterOutcome, TransferSafe DEF TransferInstruction
<1>7. CASE CompareInstruction(s, t)
  BY <1>7, AfterOutcome, CompareSafe DEF CompareInstruction
<1>8. CASE UpdateInstruction(s, t)
  <2>1. /\ Operand(s) \in Word
        /\ Fetch(s).bits \in 0 .. (2 * OPERAND_SIGN - 1)
    BY <1>8, FetchedWord DEF UpdateInstruction, Fw, Bw, At
  <2> QED BY <1>8, <2>1, AfterOutcome, UnarySafe, XorhcSafe DEF UpdateInstruction
<1>9. CASE ArithmeticInstruction(s, t)
  BY <1>9, AfterOutcome, ArithmeticSafe DEF ArithmeticInstruction
<1>10. CASE HeapInstruction(s, t)
  <2>1. /\ Operand(s) \in Word
        /\ Fetch(s).bits \in 0 .. (2 * OPERAND_SIGN - 1)
    BY <1>10, FetchedWord DEF HeapInstruction, Fw, Bw, At
  <2> QED BY <1>10, <2>1, AfterOutcome, HeapSafe DEF HeapInstruction
<1> QED BY <1>1, <1>2, <1>3, <1>4, <1>5, <1>6, <1>7, <1>8, <1>9, <1>10 DEF step

(* Every step of the checked build takes a sound machine to a sound one.   *)
LEMMA StepSound ==
  ASSUME NEW s, Sound(s), program \in Seq(Instruction), UNSAFE_OPERATIONS = FALSE,
         NEW t, step(s, t)
  PROVE  Sound(t)
BY StepOutcome DEF Outcome

(* The inductive invariant. *)
IInv == TypeOK /\ Sound(vm)

(* The constructor leaves a sound machine or throws.                       *)
LEMMA BootSound ==
  ASSUME NEW image, Runnable(image)
  PROVE  Sound(Boot(image))
<1>1. image.entry \in Word /\ 0 \in Word
  BY HalfRangeNat DEF Word, Runnable
<1>2. Boot(image).memory \in [Addresses -> Word] /\ Boot(image).stack \in [Slots -> Word]
  BY <1>1 DEF Boot, Runnable
<1>3. Boot(image) \in VM
  BY <1>1, <1>2 DEF Boot, VM, Forward
<1> QED BY <1>3 DEF Boot, Sound, Clean

LEMMA ConstructSound ==
  ASSUME NEW image, Runnable(image), NEW t, Construct(image, t)
  PROVE  Sound(t)
BY BootSound, ThrowSafe DEF Construct, Failures, Exceptions

LEMMA InitIInv == Init => IInv
<1> SUFFICES ASSUME NEW image \in Images, program = image.code,
                    Construct(image, vm), looping = (vm.fault = "none")
             PROVE  IInv
  BY DEF Init
<1>1. program \in Seq(Instruction) /\ Len(program) < HalfRange
  BY ImageAssumption DEF Runnable
<1>2. Sound(vm)
  BY ImageAssumption, ConstructSound
<1> QED BY <1>1, <1>2 DEF IInv, TypeOK, Sound

(* A step of run preserves the inductive invariant.                        *)
LEMMA NextIInv ==
  ASSUME UNSAFE_OPERATIONS = FALSE
  PROVE  IInv /\ [Next]_vars => IInv'
<1> SUFFICES ASSUME IInv, [Next]_vars PROVE IInv'
  OBVIOUS
<1>1. CASE Run
  <2>1. Sound(vm')
    BY <1>1, StepSound DEF Run, IInv, TypeOK
  <2> QED BY <1>1, <2>1 DEF Run, IInv, TypeOK, Sound
<1>2. CASE UNCHANGED vars
  BY <1>2 DEF vars, IInv, TypeOK
<1> QED BY <1>1, <1>2 DEF Next

(* The machine of the checked build is sound in every reachable state:     *)
(* step, for every instruction and both directions, throws or keeps it so. *)
THEOREM MachineInvariant ==
  ASSUME UNSAFE_OPERATIONS = FALSE
  PROVE  Spec => []IInv
BY InitIInv, NextIInv, PTL DEF Spec

(* No program leaves a value behind above the stack pointer: popl, popm,   *)
(* store, rsf, releasepar and every pop throw instead.                     *)
THEOREM CleanAlways ==
  ASSUME UNSAFE_OPERATIONS = FALSE
  PROVE  Spec => []CleanAboveSp
<1>1. IInv => CleanAboveSp
  BY DEF IInv, Sound, CleanAboveSp
<1> QED BY <1>1, MachineInvariant, PTL

(* No program makes the machine access a slot that does not exist: the     *)
(* macros REQUIRES_PARAMS, PUSHES_VALUES, REQUIRES_LOCAL, ASSERT_POSITIVE  *)
(* are enough, on stacks of every capacity, one of no slots included.      *)
THEOREM AccessDefined ==
  ASSUME UNSAFE_OPERATIONS = FALSE
  PROVE  Spec => []NoUndefinedAccess
<1>1. IInv => NoUndefinedAccess
  BY DEF IInv, Sound, NoUndefinedAccess
<1> QED BY <1>1, MachineInvariant, PTL
-----------------------------------------------------------------------------
(***************************************************************************)
(* Types alone need neither the checks nor a clean stack: what an          *)
(* instruction reads outside the storage it never keeps.  In both builds,  *)
(* and wherever the debugger's set has put the registers, a step leads to  *)
(* a machine of words.                                                     *)
(***************************************************************************)
Typed(u) == u.fault \in Faults \/ u \in VM

Depth(s, n) == (s.sp - n) .. (s.sp - 1)

LEMMA ThrowTyped ==
  ASSUME NEW s, s \in VM, NEW f \in Faults
  PROVE  Typed(Throw(s, f)) /\ Throw(s, f) \in VM
BY DEF Typed, Throw, VM, Faults, Exceptions

LEMMA TouchTyped ==
  ASSUME NEW s, s \in VM, NEW slots, NEW t, slots \subseteq Slots => Typed(t)
  PROVE  Typed(Touch(s, slots, t))
BY ThrowTyped DEF Touch, Faults

LEMMA RequiresTyped ==
  ASSUME NEW s, s \in VM, NEW n, NEW t, Depth(s, n) \subseteq Slots => Typed(t)
  PROVE  Typed(REQUIRES_PARAMS(s, n, t))
BY ThrowTyped, TouchTyped DEF REQUIRES_PARAMS, Depth, Faults, Exceptions

LEMMA PushesTyped ==
  ASSUME NEW s, s \in VM, NEW n, NEW t, Typed(t)
  PROVE  Typed(PUSHES_VALUES(s, n, t))
BY ThrowTyped DEF PUSHES_VALUES, Faults, Exceptions

LEMMA LocalTyped ==
  ASSUME NEW s, s \in VM, NEW n, NEW t, Local(s, n) \in Slots => Typed(t)
  PROVE  Typed(REQUIRES_LOCAL(s, n, t))
BY ThrowTyped DEF REQUIRES_LOCAL, Faults, Exceptions

LEMMA PositiveTyped ==
  ASSUME NEW s, s \in VM, NEW n, NEW t, Typed(t)
  PROVE  Typed(ASSERT_POSITIVE(s, n, t))
BY ThrowTyped DEF ASSERT_POSITIVE, Faults, Exceptions

LEMMA MemoryTyped ==
  ASSUME NEW s, s \in VM, NEW address, NEW t, address \in Addresses => Typed(t)
  PROVE  Typed(MemoryAt(s, address, t))
BY ThrowTyped DEF MemoryAt, Faults, Exceptions

LEMMA ClearSlotsTyped ==
  ASSUME NEW s, s \in VM, NEW slots, NEW t, Typed(t)
  PROVE  Typed(ClearSlots(s, slots, t))
BY ThrowTyped, TouchTyped DEF ClearSlots, Faults, Exceptions

(* What the fields hold, and the words below the stack pointer.            *)
LEMMA TypedFields ==
  ASSUME NEW s, s \in VM
  PROVE  /\ s.sp \in Int /\ s.fp \in Word /\ s.br \in Word /\ s.pc \in Word
         /\ s.stack \in [Slots -> Word] /\ s.memory \in [Addresses -> Word]
         /\ s.fault \in Faults \cup {"none"} /\ s.dir \in {Forward, Backward}
BY DEF VM

LEMMA TypedBelow ==
  ASSUME NEW s, s \in VM
  PROVE  /\ Depth(s, 1) \subseteq Slots => s.sp - 1 \in Slots /\ Top(s) \in Word
         /\ Depth(s, 2) \subseteq Slots => /\ s.sp - 1 \in Slots /\ s.sp - 2 \in Slots
                                           /\ Top(s) \in Word /\ Under(s) \in Word
         /\ Depth(s, 3) \subseteq Slots =>
              /\ s.sp - 1 \in Slots /\ s.sp - 2 \in Slots /\ s.sp - 3 \in Slots
              /\ Top(s) \in Word /\ Under(s) \in Word /\ Third(s) \in Word
<1>1. s.sp \in Int /\ s.stack \in [Slots -> Word]
  BY TypedFields
<1>2. s.sp - 1 \in Depth(s, 1) /\ s.sp - 1 \in Depth(s, 2) /\ s.sp - 1 \in Depth(s, 3)
  BY <1>1 DEF Depth
<1>3. s.sp - 2 \in Depth(s, 2) /\ s.sp - 2 \in Depth(s, 3) /\ s.sp - 3 \in Depth(s, 3)
  BY <1>1 DEF Depth
<1> QED BY <1>1, <1>2, <1>3 DEF Top, Under, Third

(* New contents of the stack, the registers and the memory.                *)
LEMMA TypedUpdates ==
  ASSUME NEW s, s \in VM
  PROVE  /\ \A stack \in [Slots -> Word], sp \in Int : WithStack(s, stack, sp) \in VM
         /\ \A w \in Word : /\ [s EXCEPT !.br = w] \in VM
                            /\ [s EXCEPT !.fp = w] \in VM
                            /\ [s EXCEPT !.pc = w] \in VM
                            /\ [s EXCEPT !.sp = w] \in VM
                            /\ \A a : [s EXCEPT !.memory[a] = w] \in VM
                            /\ \A i : [s EXCEPT !.stack[i] = w] \in VM
         /\ \A b \in BOOLEAN : [s EXCEPT !.running = b] \in VM
         /\ [s EXCEPT !.dir = -@] \in VM
<1>1. Word \subseteq Int
  BY WordInt
<1>2. \A w \in Word : [s EXCEPT !.sp = w] \in VM
  BY <1>1 DEF VM
<1>3. \A stack \in [Slots -> Word], sp \in Int : WithStack(s, stack, sp) \in VM
  BY DEF WithStack, VM
<1>4. \A b \in BOOLEAN : [s EXCEPT !.running = b] \in VM
  BY DEF VM
<1>5. [s EXCEPT !.dir = -@] \in VM
  BY DEF VM, Forward, Backward
<1>6. \A w \in Word : /\ [s EXCEPT !.br = w] \in VM
                      /\ [s EXCEPT !.fp = w] \in VM
                      /\ [s EXCEPT !.pc = w] \in VM
  BY DEF VM
<1>7. ASSUME NEW w \in Word, NEW a PROVE [s EXCEPT !.memory[a] = w] \in VM
  <2>1. [s.memory EXCEPT ![a] = w] \in [Addresses -> Word]
    BY TypedFields
  <2> QED BY <2>1 DEF VM
<1>8. ASSUME NEW w \in Word, NEW i PROVE [s EXCEPT !.stack[i] = w] \in VM
  <2>1. [s.stack EXCEPT ![i] = w] \in [Slots -> Word]
    BY TypedFields
  <2> QED BY <2>1 DEF VM
<1> QED BY <1>2, <1>3, <1>4, <1>5, <1>6, <1>7, <1>8

LEMMA SetTopTyped ==
  ASSUME NEW s, s \in VM, NEW w \in Word
  PROVE  SetTop(s, w) \in VM
<1>1. [s.stack EXCEPT ![s.sp - 1] = w] \in [Slots -> Word]
  BY TypedFields
<1> QED BY <1>1, TypedFields, TypedUpdates DEF SetTop

LEMMA PushTyped ==
  ASSUME NEW s, s \in VM, NEW w \in Word
  PROVE  Typed(Push(s, w))
<1>1. [s.stack EXCEPT ![s.sp] = w] \in [Slots -> Word] /\ s.sp + 1 \in Int
  <2>1. s.sp + 1 \in Int
    BY TypedFields
  <2>2. [s.stack EXCEPT ![s.sp] = w] \in [Slots -> Word]
    BY TypedFields
  <2> QED BY <2>1, <2>2
<1>2. WithStack(s, [s.stack EXCEPT ![s.sp] = w], s.sp + 1) \in VM
  BY <1>1, TypedUpdates
<1> QED BY <1>2, TouchTyped DEF Push, Typed

LEMMA ClearTyped ==
  ASSUME NEW s, s \in VM, NEW stack \in [Slots -> Word], NEW expected \in Word,
         s.sp - 1 \in Slots
  PROVE  Typed(Clear(s, stack, expected))
<1> DEFINE value == BitXor(stack[s.sp - 1], expected)
<1>1. value \in Word
  BY BitwiseAssumption
<1>2. [stack EXCEPT ![s.sp - 1] = value] \in [Slots -> Word] /\ s.sp - 1 \in Int
  BY <1>1, TypedFields
<1> HIDE DEF value
<1>3. WithStack(s, [stack EXCEPT ![s.sp - 1] = value], s.sp - 1) \in VM
  BY <1>2, TypedUpdates
<1> QED BY <1>3, ThrowTyped DEF Clear, Typed, value, Faults, Exceptions

LEMMA PopTyped ==
  ASSUME NEW s, s \in VM, NEW expected \in Word, s.sp - 1 \in Slots
  PROVE  Typed(Pop(s, expected))
BY TypedFields, ClearTyped DEF Pop

LEMMA ExchangeTyped ==
  ASSUME NEW S, NEW f \in [S -> Word], NEW i \in S, NEW j \in S
  PROVE  Exchange(f, i, j) \in [S -> Word]
BY DEF Exchange

-----------------------------------------------------------------------------
(* The families of instructions.                                           *)
LEMMA ConstantTyped ==
  ASSUME NEW s, s \in VM, NEW w \in Word
  PROVE  Typed(Pushc(s, w)) /\ Typed(Popc(s, w))
BY PushTyped, PushesTyped, PopTyped, RequiresTyped, TypedBelow DEF Pushc, Popc

LEMMA ShuffleTyped ==
  ASSUME NEW s, s \in VM
  PROVE  /\ Typed(Dup(s)) /\ Typed(Undup(s))
         /\ Typed(Swap(s)) /\ Typed(Dig(s)) /\ Typed(Bury(s))
<1>1. Typed(Dup(s))
  <2>1. Typed(REQUIRES_PARAMS(s, 1, Push(s, Top(s))))
    BY PushTyped, RequiresTyped, TypedBelow
  <2> QED BY <2>1, PushesTyped DEF Dup
<1>2. Typed(Undup(s))
  BY PopTyped, RequiresTyped, TypedBelow DEF Undup
<1>3. Typed(Swap(s))
  <2>1. ASSUME s.sp - 1 \in Slots, s.sp - 2 \in Slots
        PROVE  WithStack(s, Exchange(s.stack, s.sp - 1, s.sp - 2), s.sp) \in VM
    BY <2>1, TypedFields, ExchangeTyped, TypedUpdates
  <2> QED BY <2>1, RequiresTyped, TypedBelow DEF Swap, Typed
<1>4. ASSUME NEW i, NEW j, NEW k, NEW a \in Word, NEW b \in Word, NEW c \in Word
      PROVE  WithStack(s, [s.stack EXCEPT ![i] = a, ![j] = b, ![k] = c], s.sp) \in VM
  <2>1. [s.stack EXCEPT ![i] = a, ![j] = b, ![k] = c] \in [Slots -> Word]
    BY TypedFields
  <2> QED BY <2>1, TypedFields, TypedUpdates
<1>5. Typed(Dig(s)) /\ Typed(Bury(s))
  BY <1>4, RequiresTyped, TypedBelow DEF Dig, Bury, Typed
<1> QED BY <1>1, <1>2, <1>3, <1>5

LEMMA UnaryTyped ==
  ASSUME NEW s, s \in VM, NEW n \in Word
  PROVE  /\ Typed(Inc(s, n)) /\ Typed(Dec(s, n)) /\ Typed(Neg(s))
         /\ Typed(Add(s)) /\ Typed(Sub(s)) /\ Typed(XorTop(s))
         /\ Typed(Shl(s)) /\ Typed(Shr(s))
<1>1. ASSUME NEW w \in Word PROVE Typed(SetTop(s, w))
  BY SetTopTyped DEF Typed
<1>2. Typed(Inc(s, n)) /\ Typed(Dec(s, n)) /\ Typed(Neg(s))
  <2>1. Depth(s, 1) \subseteq Slots => /\ AddW(Top(s), n) \in Word /\ SubW(Top(s), n) \in Word
                                       /\ NegW(Top(s)) \in Word
    BY TypedBelow, AddWord, SubWord, NegWord
  <2> QED BY <1>1, <2>1, RequiresTyped DEF Inc, Dec, Neg
<1>3. Typed(Add(s)) /\ Typed(Sub(s))
  <2>1. Depth(s, 2) \subseteq Slots => /\ AddW(Top(s), Under(s)) \in Word
                                       /\ SubW(Top(s), Under(s)) \in Word
    BY TypedBelow, AddWord, SubWord
  <2> QED BY <1>1, <2>1, RequiresTyped DEF Add, Sub
<1>4. Typed(XorTop(s)) /\ Typed(Shl(s)) /\ Typed(Shr(s))
  <2>1. Depth(s, 2) \subseteq Slots => /\ BitXor(Top(s), Under(s)) \in Word
                                       /\ RotL(Top(s), Under(s)) \in Word
                                       /\ RotR(Top(s), Under(s)) \in Word
    BY TypedBelow, BitwiseAssumption
  <2> QED BY <1>1, <2>1, RequiresTyped DEF XorTop, Shl, Shr
<1> QED BY <1>2, <1>3, <1>4

LEMMA XorhcTyped ==
  ASSUME NEW s, s \in VM, NEW bits \in 0 .. (2 * OPERAND_SIGN - 1)
  PROVE  Typed(Xorhc(s, bits))
<1>1. Depth(s, 1) \subseteq Slots => BitXor(Top(s), UpperBits(bits)) \in Word
  BY TypedBelow, OperandWord, BitwiseAssumption
<1> QED BY <1>1, SetTopTyped, RequiresTyped DEF Xorhc, Typed

LEMMA FrameTyped ==
  ASSUME NEW s, s \in VM, NEW n \in Word
  PROVE  /\ Typed(Allocpar(s, n)) /\ Typed(Releasepar(s, n))
         /\ Typed(Asf(s, n)) /\ Typed(Rsf(s, n))
         /\ Typed(Pushl(s, n)) /\ Typed(Popl(s, n))
<1>0. n \in Int /\ 0 \in Word /\ s.sp \in Int /\ s.fp \in Word /\ s.stack \in [Slots -> Word]
  BY WordInt, TypedFields, HalfRangeNat DEF Word
<1>1. Typed(Allocpar(s, n)) /\ Typed(Releasepar(s, n))
  <2>1. WithStack(s, s.stack, s.sp + n) \in VM /\ WithStack(s, s.stack, s.sp - n) \in VM
    <3>1. s.sp + n \in Int /\ s.sp - n \in Int
      BY <1>0
    <3> QED BY <1>0, <3>1, TypedUpdates
  <2>2. Typed(PUSHES_VALUES(s, n, WithStack(s, s.stack, s.sp + n)))
    BY <2>1, PushesTyped DEF Typed
  <2>3. Typed(REQUIRES_PARAMS(s, n, ClearSlots(s, (s.sp - n) .. (s.sp - 1), WithStack(s, s.stack, s.sp - n))))
    BY <2>1, ClearSlotsTyped, RequiresTyped DEF Typed
  <2> QED BY <2>2, <2>3, PositiveTyped DEF Allocpar, Releasepar
<1>2. Typed(Asf(s, n))
  <2> DEFINE stack  == [s.stack EXCEPT ![s.sp] = s.fp]
             framed == [WithStack(s, stack, s.sp + n + 1) EXCEPT !.fp = s.sp]
  <2>1. ASSUME s.sp \in Slots PROVE framed \in VM
    <3>1. s.sp \in Word
      BY <2>1, SizeAssumption, HalfRangeNat DEF Slots, Word
    <3>2. stack \in [Slots -> Word] /\ s.sp + n + 1 \in Int
      <4>1. s.sp + n + 1 \in Int
        BY <1>0
      <4>2. stack \in [Slots -> Word]
        BY <1>0
      <4> QED BY <4>1, <4>2
    <3> HIDE DEF stack
    <3>3. WithStack(s, stack, s.sp + n + 1) \in VM
      BY <3>2, TypedUpdates
    <3> QED BY <3>1, <3>3, TypedUpdates
  <2> HIDE DEF framed
  <2>2. Typed(Touch(s, {s.sp}, framed))
    BY <2>1, TouchTyped DEF Typed
  <2>3. Typed(PUSHES_VALUES(s, n + 1, Touch(s, {s.sp}, framed)))
    BY <2>2, PushesTyped
  <2> QED BY <2>3, PositiveTyped DEF Asf, framed
<1>3. Typed(Rsf(s, n))
  <2> DEFINE base     == s.sp - (n + 1)
             cleared  == BitXor(s.fp, base)
             stack    == [s.stack EXCEPT ![base] = cleared]
             unframed == IF ~UNSAFE_OPERATIONS /\ cleared # 0
                         THEN Throw(s, "domain_error")
                         ELSE Touch(s, {base}, [WithStack(s, stack, base) EXCEPT !.fp = s.stack[base]])
  <2>1. ASSUME base \in Slots
        PROVE  [WithStack(s, stack, base) EXCEPT !.fp = s.stack[base]] \in VM
    <3>1. base \in Word /\ base \in Int
      BY <2>1, SizeAssumption, HalfRangeNat DEF Slots, Word
    <3>2. cleared \in Word /\ s.stack[base] \in Word
      BY <1>0, <2>1, <3>1, BitwiseAssumption
    <3>3. stack \in [Slots -> Word]
      <4> HIDE DEF cleared, base
      <4> QED BY <1>0, <3>2
    <3> HIDE DEF stack
    <3>4. WithStack(s, stack, base) \in VM
      BY <3>1, <3>3, TypedUpdates
    <3> QED BY <3>2, <3>4, TypedUpdates
  <2>2. Typed(unframed)
    <3> DEFINE r == [WithStack(s, stack, base) EXCEPT !.fp = s.stack[base]]
    <3>1. base \in Slots => r \in VM
      BY <2>1
    <3> HIDE DEF r, base, cleared
    <3>2. Typed(Touch(s, {base}, r))
      BY <3>1, TouchTyped DEF Typed
    <3>3. Typed(Throw(s, "domain_error"))
      BY ThrowTyped DEF Faults, Exceptions
    <3> QED BY <3>2, <3>3 DEF r
  <2> HIDE DEF unframed
  <2>3. Typed(REQUIRES_PARAMS(s, n + 1, ClearSlots(s, (s.sp - n) .. (s.sp - 1), unframed)))
    BY <2>2, ClearSlotsTyped, RequiresTyped
  <2> QED BY <2>3, PositiveTyped DEF Rsf, unframed, base, cleared, stack
<1>4. Typed(Pushl(s, n))
  <2> DEFINE i == Local(s, n)
             r == WithStack(s, Exchange(s.stack, s.sp, i), s.sp + 1)
  <2>1. ASSUME i \in Slots, s.sp \in Slots PROVE r \in VM
    <3>1. Exchange(s.stack, s.sp, i) \in [Slots -> Word] /\ s.sp + 1 \in Int
      BY <1>0, <2>1, ExchangeTyped
    <3> QED BY <3>1, TypedUpdates
  <2> HIDE DEF r
  <2>2. i \in Slots => Typed(Touch(s, {s.sp}, r))
    BY <2>1, TouchTyped DEF Typed
  <2>3. Typed(REQUIRES_LOCAL(s, n, Touch(s, {s.sp}, r)))
    BY <2>2, LocalTyped
  <2> QED BY <2>3, PushesTyped DEF Pushl, r
<1>5. Typed(Popl(s, n))
  <2> DEFINE i == Local(s, n)
             r == Clear(s, Exchange(s.stack, s.sp - 1, i), 0)
  <2>1. ASSUME i \in Slots, s.sp - 1 \in Slots PROVE Typed(r)
    <3>1. Exchange(s.stack, s.sp - 1, i) \in [Slots -> Word]
      BY <1>0, <2>1, ExchangeTyped
    <3> QED BY <1>0, <2>1, <3>1, ClearTyped
  <2> HIDE DEF r
  <2>2. Depth(s, 1) \subseteq Slots => Typed(REQUIRES_LOCAL(s, n, r))
    BY <2>1, TypedBelow, LocalTyped
  <2> QED BY <2>2, RequiresTyped DEF Popl, r
<1> QED BY <1>1, <1>2, <1>3, <1>4, <1>5

LEMMA TransferTyped ==
  ASSUME NEW s, s \in VM, NEW n \in Word
  PROVE  /\ Typed(Call(s)) /\ Typed(Uncall(s)) /\ Typed(Branch(s, n))
         /\ \A condition : Typed(BranchIf(s, n, condition))
<1>1. s.br \in Word /\ NegW(s.br) \in Word /\ AddW(s.br, n) \in Word /\ SubW(s.br, n) \in Word
  BY TypedFields, NegWord, AddWord, SubWord
<1>2. Typed(Call(s))
  <2>1. Depth(s, 1) \subseteq Slots => [SetTop(s, s.br) EXCEPT !.br = Top(s)] \in VM
    BY <1>1, SetTopTyped, TypedBelow, TypedUpdates
  <2> QED BY <2>1, RequiresTyped DEF Call, Typed
<1>3. Typed(Uncall(s))
  <2> DEFINE r == [SetTop(s, NegW(s.br)) EXCEPT !.br = NegW(Top(s))]
  <2>1. Depth(s, 1) \subseteq Slots => r \in VM
    BY <1>1, SetTopTyped, TypedBelow, NegWord, TypedUpdates
  <2>2. Depth(s, 1) \subseteq Slots => [r EXCEPT !.dir = -@] \in VM
    <3> HIDE DEF r
    <3> QED BY <2>1, TypedUpdates
  <2> QED BY <2>2, RequiresTyped DEF Uncall, Typed
<1>4. Branch(s, n) \in VM
  BY <1>1, TypedUpdates DEF Branch
<1>5. ASSUME NEW condition PROVE Typed(BranchIf(s, n, condition))
  BY <1>4, RequiresTyped DEF BranchIf, Typed
<1> QED BY <1>2, <1>3, <1>4, <1>5 DEF Typed

LEMMA CompareTyped ==
  ASSUME NEW s, s \in VM, NEW op \in Comparisons
  PROVE  Typed(CmpPush(s, op)) /\ Typed(CmpPop(s, op))
<1>1. \A a, b : Compare(op, a, b) \in Word
  <2>1. True \in Word /\ False \in Word
    BY HalfRangeNat DEF True, False, Forward, Backward, Word
  <2> QED BY <2>1, Zenon DEF Compare
<1>2. Typed(REQUIRES_PARAMS(s, 2, Push(s, Compare(op, Top(s), Under(s)))))
  BY <1>1, PushTyped, RequiresTyped
<1>3. Typed(CmpPop(s, op))
  BY <1>1, PopTyped, TypedBelow, RequiresTyped DEF CmpPop
<1> QED BY <1>2, <1>3, PushesTyped DEF CmpPush

LEMMA ComputesTyped ==
  ASSUME NEW s, s \in VM, NEW op, NEW a, NEW b, NEW t,
         ~(op \in {"arpushdiv", "arpushmod"} /\ DivisionTraps(a, b)) => Typed(t)
  PROVE  Typed(Computes(s, op, a, b, t))
BY ThrowTyped DEF Computes, Faults

LEMMA ArithmeticTyped ==
  ASSUME NEW s, s \in VM, NEW op \in Arithmetics
  PROVE  Typed(ArPush(s, op)) /\ Typed(ArPop(s, op))
<1>1. Typed(ArPush(s, op))
  <2> DEFINE t == Push(s, Arithmetic(op, Top(s), Under(s)))
  <2>1. Depth(s, 2) \subseteq Slots => Typed(Computes(s, op, Top(s), Under(s), t))
    <3> HAVE Depth(s, 2) \subseteq Slots
    <3>1. Top(s) \in Word /\ Under(s) \in Word
      BY TypedBelow
    <3>2. ~(op \in {"arpushdiv", "arpushmod"} /\ DivisionTraps(Top(s), Under(s))) => Typed(t)
      BY <3>1, ArithmeticWord, PushTyped
    <3> HIDE DEF t
    <3> QED BY <3>2, ComputesTyped
  <2> HIDE DEF t
  <2>2. Typed(REQUIRES_PARAMS(s, 2, Computes(s, op, Top(s), Under(s), t)))
    BY <2>1, RequiresTyped
  <2> QED BY <2>2, PushesTyped DEF ArPush, t
<1>2. Typed(ArPop(s, op))
  <2> DEFINE t == Pop(s, Arithmetic(op, Under(s), Third(s)))
  <2>1. Depth(s, 3) \subseteq Slots => Typed(Computes(s, op, Under(s), Third(s), t))
    <3> HAVE Depth(s, 3) \subseteq Slots
    <3>1. Under(s) \in Word /\ Third(s) \in Word /\ s.sp - 1 \in Slots
      BY TypedBelow
    <3>2. ~(op \in {"arpushdiv", "arpushmod"} /\ DivisionTraps(Under(s), Third(s))) => Typed(t)
      BY <3>1, ArithmeticWord, PopTyped
    <3> HIDE DEF t
    <3> QED BY <3>2, ComputesTyped
  <2> HIDE DEF t
  <2> QED BY <2>1, RequiresTyped DEF ArPop, t
<1> QED BY <1>1, <1>2

LEMMA HeapTyped ==
  ASSUME NEW s, s \in VM, NEW n \in Word
  PROVE  /\ Typed(Pushm(s, n)) /\ Typed(Popm(s, n))
         /\ Typed(Load(s, n)) /\ Typed(Store(s, n)) /\ Typed(Memswap(s, n))
<1>1. ASSUME NEW a PROVE Typed(PushFrom(s, a))
  <2> DEFINE stack == [s.stack EXCEPT ![s.sp] = s.memory[a]]
             r     == [WithStack(s, stack, s.sp + 1) EXCEPT !.memory[a] = s.stack[s.sp]]
  <2>1. ASSUME a \in Addresses, s.sp \in Slots PROVE r \in VM
    <3>1. s.memory[a] \in Word /\ s.stack[s.sp] \in Word /\ s.sp + 1 \in Int
      BY <2>1, TypedFields
    <3>2. stack \in [Slots -> Word]
      BY <3>1, TypedFields
    <3> HIDE DEF stack
    <3>3. WithStack(s, stack, s.sp + 1) \in VM
      BY <3>1, <3>2, TypedUpdates
    <3> QED BY <3>1, <3>3, TypedUpdates
  <2> HIDE DEF r
  <2>2. a \in Addresses => Typed(Touch(s, {s.sp}, r))
    BY <2>1, TouchTyped DEF Typed
  <2> QED BY <2>2, MemoryTyped DEF PushFrom, r
<1>2. ASSUME NEW a, s.sp - 1 \in Slots, Top(s) \in Word PROVE Typed(PopInto(s, a))
  <2> DEFINE r     == [s EXCEPT !.memory[a] = Top(s)]
             stack == [s.stack EXCEPT ![s.sp - 1] = s.memory[a]]
  <2>1. ASSUME a \in Addresses PROVE Typed(Clear(r, stack, 0))
    <3>1. r \in VM /\ r.sp = s.sp
      BY <1>2, TypedUpdates DEF VM
    <3>2. s.memory[a] \in Word /\ 0 \in Word
      BY <2>1, TypedFields, HalfRangeNat DEF Word
    <3>3. stack \in [Slots -> Word]
      BY <3>2, TypedFields
    <3> HIDE DEF r, stack
    <3> QED BY <1>2, <3>1, <3>2, <3>3, ClearTyped
  <2> QED BY <2>1, MemoryTyped DEF PopInto
<1>3. Typed(Pushm(s, n)) /\ Typed(Popm(s, n))
  BY <1>1, <1>2, TypedBelow, PushesTyped, RequiresTyped DEF Pushm, Popm
<1>4. Typed(Load(s, n))
  <2>1. Typed(REQUIRES_PARAMS(s, 1, PushFrom(s, AddW(Top(s), n))))
    BY <1>1, RequiresTyped
  <2> QED BY <2>1, PushesTyped DEF Load
<1>5. Typed(Store(s, n))
  BY <1>2, TypedBelow, RequiresTyped DEF Store
<1>6. Typed(Memswap(s, n))
  <2> DEFINE a == AddW(Top(s), n)
             b == AddW(Under(s), n)
             u == [s EXCEPT !.memory = Exchange(@, a, b)]
  <2>1. ASSUME a \in Addresses, b \in Addresses PROVE Typed(u)
    BY <2>1 DEF Typed, VM, Exchange
  <2> HIDE DEF a, b, u
  <2>2. Typed(MemoryAt(s, a, MemoryAt(s, b, u)))
    BY <2>1, MemoryTyped
  <2> QED BY <2>2, RequiresTyped DEF Memswap, a, b, u
<1> QED BY <1>3, <1>4, <1>5, <1>6

LEMMA RunningTyped ==
  ASSUME NEW s, s \in VM
  PROVE  Typed(Start(s)) /\ Typed(Stop(s)) /\ Typed(s)
BY ThrowTyped, TypedUpdates DEF Start, Stop, Typed, Faults, Exceptions

LEMMA AfterTyped ==
  ASSUME NEW s, s \in VM, NEW u, Typed(u)
  PROVE  After(s, u) \in VM
<1>1. CASE u.fault = "none"
  <2>1. u \in VM
    BY <1>1 DEF Typed, Faults, Exceptions
  <2>2. u.pc \in Word /\ u.br \in Word /\ 1 \in Word
    BY <2>1, TypedFields, HalfRangeNat DEF Word
  <2>3. step_pc(u) \in VM
    BY <2>1, <2>2, AddWord, SubWord, TypedUpdates DEF step_pc
  <2> QED BY <1>1, <2>3 DEF After
<1>2. CASE u.fault # "none"
  <2>1. u.fault \in Faults
    BY <1>2 DEF Typed, VM
  <2> QED BY <1>2, <2>1, ThrowTyped DEF After
<1> QED BY <1>1, <1>2

LEMMA StepTyped ==
  ASSUME NEW s, s \in VM, program \in Seq(Instruction), NEW t, step(s, t)
  PROVE  t \in VM
<1>0. Fetches(s) => Operand(s) \in Word /\ Fetch(s).bits \in 0 .. (2 * OPERAND_SIGN - 1)
  <2> HAVE Fetches(s)
  <2>1. s.pc + 1 \in 1 .. Len(program)
    BY DEF Fetches, VM
  <2>2. Fetch(s) \in Instruction
    BY <2>1 DEF Fetch
  <2> QED BY <2>2, OperandWord DEF Instruction, Operand
<1>1. CASE ~Fetches(s) /\ t = Throw(s, "out_of_range")
  BY <1>1, ThrowTyped DEF Faults, Exceptions
<1>2. CASE RunningInstruction(s, t)
  BY <1>2, AfterTyped, RunningTyped DEF RunningInstruction
<1>3. CASE ConstantInstruction(s, t)
  <2>1. Operand(s) \in Word
    BY <1>0, <1>3 DEF ConstantInstruction, Fw, Bw, At
  <2>2. True \in Word /\ False \in Word
    BY HalfRangeNat DEF True, False, Forward, Backward, Word
  <2> QED BY <1>3, <2>1, <2>2, AfterTyped, ConstantTyped DEF ConstantInstruction
<1>4. CASE ShuffleInstruction(s, t)
  BY <1>4, AfterTyped, ShuffleTyped DEF ShuffleInstruction
<1>5. CASE FrameInstruction(s, t)
  <2>1. Operand(s) \in Word
    BY <1>0, <1>5 DEF FrameInstruction, Fw, Bw, At
  <2> QED BY <1>5, <2>1, AfterTyped, FrameTyped DEF FrameInstruction
<1>6. CASE TransferInstruction(s, t)
  <2>1. Operand(s) \in Word
    BY <1>0, <1>6 DEF TransferInstruction, At
  <2> QED BY <1>6, <2>1, AfterTyped, TransferTyped DEF TransferInstruction
<1>7. CASE CompareInstruction(s, t)
  BY <1>7, AfterTyped, CompareTyped DEF CompareInstruction
<1>8. CASE UpdateInstruction(s, t)
  <2>1. Operand(s) \in Word /\ Fetch(s).bits \in 0 .. (2 * OPERAND_SIGN - 1)
    BY <1>0, <1>8 DEF UpdateInstruction, Fw, Bw, At
  <2> QED BY <1>8, <2>1, AfterTyped, UnaryTyped, XorhcTyped DEF UpdateInstruction
<1>9. CASE ArithmeticInstruction(s, t)
  BY <1>9, AfterTyped, ArithmeticTyped DEF ArithmeticInstruction
<1>10. CASE HeapInstruction(s, t)
  <2>1. Operand(s) \in Word
    BY <1>0, <1>10 DEF HeapInstruction, Fw, Bw, At
  <2> QED BY <1>10, <2>1, AfterTyped, HeapTyped DEF HeapInstruction
<1> QED BY <1>1, <1>2, <1>3, <1>4, <1>5, <1>6, <1>7, <1>8, <1>9, <1>10 DEF step

(* Registers, slots and cells always hold words, in the build with         *)
(* UNSAFE_OPERATIONS too: wrapping arithmetic, rotation, truncated         *)
(* division and the saved frame pointer included.                          *)
THEOREM TypeCorrect == Spec => []TypeOK
<1>1. Init => TypeOK
  BY InitIInv DEF IInv
<1>2. TypeOK /\ [Next]_vars => TypeOK'
  <2> SUFFICES ASSUME TypeOK, [Next]_vars PROVE TypeOK'
    OBVIOUS
  <2>1. CASE Run
    BY <2>1, StepTyped DEF Run, TypeOK
  <2>2. CASE UNCHANGED vars
    BY <2>2 DEF vars, TypeOK
  <2> QED BY <2>1, <2>2 DEF Next
<1> QED BY <1>1, <1>2, PTL DEF Spec

-----------------------------------------------------------------------------
(***************************************************************************)
(* Reversibility of the checked build: whatever instruction the machine    *)
(* has executed, turning round and executing one step restores it.         *)
(*                                                                         *)
(* First the pairs of instructions: what an instruction that does not      *)
(* throw makes of a machine, its partner, executed by the machine that has *)
(* turned round, unmakes.  Every proof has the same course.  The           *)
(* instruction has passed its checks, so its outcome is known; its outcome *)
(* passes the checks of the partner, whose outcome is therefore known too; *)
(* and the two updates of stack and memory cancel, because the slot a push *)
(* takes over is zero (Sound) and the slot a pop gives up is made zero.    *)
(***************************************************************************)
Flip(s) == [s EXCEPT !.dir = -@]

(* Wrapped sums and differences cancel. *)
LEMMA AddSub ==
  ASSUME NEW a \in Word, NEW b \in Word
  PROVE  /\ SubW(AddW(a, b), b) = a
         /\ AddW(SubW(a, b), b) = a
BY HalfRangeNat DEF AddW, SubW, Wrap, Word

(* Negation undoes itself. *)
LEMMA NegNeg ==
  ASSUME NEW a \in Word
  PROVE  NegW(NegW(a)) = a
BY HalfRangeNat DEF NegW, Wrap, Word

(* A machine is its fields. *)
LEMMA SameMachine ==
  ASSUME NEW s \in VM, NEW t \in VM,
         s.dir = t.dir, s.pc = t.pc, s.br = t.br, s.sp = t.sp, s.fp = t.fp,
         s.memory = t.memory, s.stack = t.stack, s.running = t.running, s.fault = t.fault
  PROVE  s = t
BY DEF VM

(* What turning round changes. *)
LEMMA FlipFields ==
  ASSUME NEW s \in VM
  PROVE  /\ Flip(s) \in VM /\ Flip(Flip(s)) = s
         /\ Flip(s).dir = -s.dir /\ Flip(s).pc = s.pc /\ Flip(s).br = s.br
         /\ Flip(s).sp = s.sp /\ Flip(s).fp = s.fp /\ Flip(s).memory = s.memory
         /\ Flip(s).stack = s.stack /\ Flip(s).running = s.running
         /\ Flip(s).fault = s.fault
<1>1. Flip(s) \in VM
  BY DEF Flip, VM, Forward, Backward
<1>2. /\ Flip(s).dir = -s.dir /\ Flip(s).pc = s.pc /\ Flip(s).br = s.br
      /\ Flip(s).sp = s.sp /\ Flip(s).fp = s.fp /\ Flip(s).memory = s.memory
      /\ Flip(s).stack = s.stack /\ Flip(s).running = s.running
      /\ Flip(s).fault = s.fault
  BY DEF Flip, VM
<1>3. -(-s.dir) = s.dir
  BY DEF VM, Forward, Backward
<1>4. Flip(Flip(s)) = s
  BY <1>3 DEF Flip, VM
<1> QED BY <1>1, <1>2, <1>4

(* A step backwards of the program counter undoes a step forwards: br and  *)
(* the distance it stands for are those of the step that is undone.        *)
LEMMA BackToInstruction ==
  ASSUME NEW u \in VM
  PROVE  step_pc(Flip(step_pc(u))) = Flip(u)
<1> DEFINE d  == IF u.br = 0 THEN 1 ELSE u.br
           pc == IF u.dir = Forward THEN AddW(u.pc, d) ELSE SubW(u.pc, d)
           t  == [u EXCEPT !.pc = pc]
           x  == Flip(t)
<1>1. d \in Word /\ u.pc \in Word /\ u.dir \in {Forward, Backward}
  BY HalfRangeNat DEF VM, Word
<1>2. pc \in Word
  BY <1>1, AddWord, SubWord
<1>3. step_pc(u) = t
  BY DEF step_pc
<1>4. t \in VM /\ t.dir = u.dir /\ t.br = u.br /\ t.pc = pc
  <2> HIDE DEF pc, d
  <2> QED BY <1>2 DEF VM
<1>5. x \in VM /\ x.dir = -u.dir /\ x.br = u.br /\ x.pc = pc
  <2> HIDE DEF t
  <2> QED BY <1>4, FlipFields
<1>6. step_pc(x) = [x EXCEPT !.pc = IF x.dir = Forward THEN AddW(pc, d) ELSE SubW(pc, d)]
  <2> HIDE DEF x, pc
  <2> QED BY <1>5 DEF step_pc
<1>7. (IF x.dir = Forward THEN AddW(pc, d) ELSE SubW(pc, d)) = u.pc
  <2> HIDE DEF x, d
  <2> QED BY <1>1, <1>5, AddSub DEF Forward, Backward
<1>8. [x EXCEPT !.pc = u.pc] = Flip(u)
  <2> HIDE DEF pc
  <2> QED BY <1>1 DEF Flip, VM
<1> QED BY <1>3, <1>6, <1>7, <1>8

-----------------------------------------------------------------------------
(* An instruction that has not thrown has passed its checks, and a check   *)
(* whose condition holds passes.                                           *)
LEMMA ThrowFault ==
  ASSUME NEW s, Sound(s), NEW f
  PROVE  Throw(s, f).fault = f
BY DEF Throw, Sound, VM

(* The stack pointer is a number of values. *)
LEMMA SpNat ==
  ASSUME NEW s, Sound(s)
  PROVE  s.sp \in Nat
BY StackPointer

(* REQUIRES_PARAMS. *)
LEMMA RequiresPasses ==
  ASSUME NEW s, Sound(s), NEW n \in Nat, NEW t, UNSAFE_OPERATIONS = FALSE
  PROVE  /\ s.sp \in Nat
         /\ s.sp >= n => REQUIRES_PARAMS(s, n, t) = t
         /\ REQUIRES_PARAMS(s, n, t).fault = "none" => s.sp >= n
<1>1. s.sp >= n => (s.sp - n) .. (s.sp - 1) \subseteq Slots
  BY StackPointer DEF Slots
<1>2. ~(s.sp >= n) <=> s.sp < n
  BY StackPointer
<1> QED BY <1>1, <1>2, StackPointer, ThrowFault DEF REQUIRES_PARAMS, Touch

(* PUSHES_VALUES. *)
LEMMA PushesPasses ==
  ASSUME NEW s, Sound(s), NEW n \in Nat, NEW t, UNSAFE_OPERATIONS = FALSE
  PROVE  /\ s.sp + n < StackSize => PUSHES_VALUES(s, n, t) = t
         /\ PUSHES_VALUES(s, n, t).fault = "none" => s.sp + n < StackSize
<1>1. s.sp + n < StackSize <=> ~((StackSize - s.sp) \in 0 .. n)
  BY StackPointer
<1> QED BY <1>1, ThrowFault DEF PUSHES_VALUES

(* REQUIRES_LOCAL. *)
LEMMA LocalPasses ==
  ASSUME NEW s, Sound(s), NEW n, NEW t, UNSAFE_OPERATIONS = FALSE
  PROVE  /\ Local(s, n) \in 0 .. (s.sp - 1) => REQUIRES_LOCAL(s, n, t) = t
         /\ REQUIRES_LOCAL(s, n, t).fault = "none" => Local(s, n) \in 0 .. (s.sp - 1)
<1>1. Local(s, n) \in 0 .. (s.sp - 1) => Local(s, n) \in Slots
  BY StackPointer DEF Slots
<1> QED BY <1>1, ThrowFault DEF REQUIRES_LOCAL

(* ASSERT_POSITIVE. *)
LEMMA PositivePasses ==
  ASSUME NEW s, Sound(s), NEW n \in Word, NEW t, UNSAFE_OPERATIONS = FALSE
  PROVE  /\ n \in Nat => ASSERT_POSITIVE(s, n, t) = t
         /\ ASSERT_POSITIVE(s, n, t).fault = "none" => n \in Nat
<1>1. n \in Nat <=> ~(n < 0)
  BY WordInt
<1> QED BY <1>1, ThrowFault DEF ASSERT_POSITIVE

(* memory.at *)
LEMMA MemoryPasses ==
  ASSUME NEW s, Sound(s), NEW address, NEW t
  PROVE  /\ address \in Addresses => MemoryAt(s, address, t) = t
         /\ MemoryAt(s, address, t).fault = "none" => address \in Addresses
BY ThrowFault DEF MemoryAt

(* The loop of clears in releasepar and rsf. *)
LEMMA ClearSlotsPasses ==
  ASSUME NEW s, Sound(s), NEW slots, slots \subseteq Slots, NEW t, UNSAFE_OPERATIONS = FALSE
  PROVE  /\ (\A i \in slots : s.stack[i] = 0) => ClearSlots(s, slots, t) = t
         /\ ClearSlots(s, slots, t).fault = "none" => \A i \in slots : s.stack[i] = 0
BY ThrowFault DEF ClearSlots, Touch

(* clear: the slot that is given up holds what is expected.                *)
LEMMA ClearPasses ==
  ASSUME NEW s, Sound(s), s.sp >= 1, NEW stack \in [Slots -> Word],
         NEW expected \in Word, UNSAFE_OPERATIONS = FALSE
  PROVE  /\ stack[s.sp - 1] = expected =>
              Clear(s, stack, expected) =
                WithStack(s, [stack EXCEPT ![s.sp - 1] = 0], s.sp - 1)
         /\ Clear(s, stack, expected).fault = "none" => stack[s.sp - 1] = expected
<1>1. s.sp - 1 \in Slots /\ stack[s.sp - 1] \in Word
  <2>1. 1 \in 1 .. s.sp
    BY StackPointer
  <2> QED BY <2>1, StackPointer
<1>2. BitXor(stack[s.sp - 1], expected) = 0 <=> stack[s.sp - 1] = expected
  <2> DEFINE v == stack[s.sp - 1]
  <2>1. v \in Word
    BY <1>1
  <2> HIDE DEF v
  <2>2. BitXor(v, expected) = 0 <=> v = expected
    BY <2>1, BitwiseAssumption
  <2> QED BY <2>2 DEF v
<1> QED BY <1>1, <1>2, ThrowFault DEF Clear

(* A push finds its slot. *)
LEMMA PushPasses ==
  ASSUME NEW s, Sound(s), s.sp + 1 < StackSize, NEW value
  PROVE  Push(s, value) = WithStack(s, [s.stack EXCEPT ![s.sp] = value], s.sp + 1)
<1>1. s.sp \in Slots
  BY StackPointer DEF Slots
<1> QED BY <1>1 DEF Push, Touch

-----------------------------------------------------------------------------
(* The stack of a machine is replaced: what else there is stays.           *)
LEMMA StackAlgebra ==
  ASSUME NEW s \in VM, NEW f \in [Slots -> Word], NEW m \in Int
  PROVE  /\ WithStack(s, f, m) \in VM
         /\ WithStack(s, f, m).stack = f /\ WithStack(s, f, m).sp = m
         /\ WithStack(s, f, m).pc = s.pc /\ WithStack(s, f, m).dir = s.dir
         /\ WithStack(s, f, m).br = s.br /\ WithStack(s, f, m).fp = s.fp
         /\ WithStack(s, f, m).memory = s.memory
         /\ WithStack(s, f, m).running = s.running
         /\ WithStack(s, f, m).fault = s.fault
         /\ Flip(WithStack(s, f, m)) = WithStack(Flip(s), f, m)
         /\ WithStack(WithStack(s, f, m), s.stack, s.sp) = s
<1>1. WithStack(s, f, m) \in VM
  BY DEF WithStack, VM
<1>2. /\ WithStack(s, f, m).stack = f /\ WithStack(s, f, m).sp = m
      /\ WithStack(s, f, m).pc = s.pc /\ WithStack(s, f, m).dir = s.dir
      /\ WithStack(s, f, m).br = s.br /\ WithStack(s, f, m).fp = s.fp
      /\ WithStack(s, f, m).memory = s.memory
      /\ WithStack(s, f, m).running = s.running
      /\ WithStack(s, f, m).fault = s.fault
  BY DEF WithStack, VM
<1>3. Flip(WithStack(s, f, m)) = WithStack(Flip(s), f, m)
  BY DEF WithStack, Flip, VM
<1>4. WithStack(WithStack(s, f, m), s.stack, s.sp) = s
  BY DEF WithStack, VM
<1> QED BY <1>1, <1>2, <1>3, <1>4

(* u is what an instruction makes of s; v is what its inverse makes of u,  *)
(* executed in the other direction.                                        *)
Restores(s, u, v) ==
  u.fault = "none" =>
    /\ u \in VM /\ u.pc = s.pc /\ u.dir = s.dir
    /\ v = Flip(s)

(* An instruction on the stack alone is undone by one that brings back the *)
(* stack and the stack pointer.                                            *)
LEMMA StackRestored ==
  ASSUME NEW s \in VM, NEW f \in [Slots -> Word], NEW m \in Int
  PROVE  Restores(s, WithStack(s, f, m),
                  WithStack(Flip(WithStack(s, f, m)), s.stack, s.sp))
<1>1. Flip(s) \in VM /\ Flip(s).stack = s.stack /\ Flip(s).sp = s.sp
  BY FlipFields
<1>2. WithStack(WithStack(Flip(s), f, m), s.stack, s.sp) = Flip(s)
  BY <1>1, StackAlgebra
<1> QED BY <1>2, StackAlgebra DEF Restores

(* Turning round keeps a machine sound. *)
LEMMA FlipSound ==
  ASSUME NEW s, Sound(s)
  PROVE  Sound(Flip(s))
BY RegistersSound DEF Flip

(* What a push leaves, and that a pop of the same value undoes it: the     *)
(* slot it wrote was zero.                                                 *)
LEMMA PushUndone ==
  ASSUME NEW s, Sound(s), s.sp + 1 < StackSize, NEW w \in Word,
         UNSAFE_OPERATIONS = FALSE,
         NEW x, x = Flip(Push(s, w))
  PROVE  /\ Sound(x) /\ x.sp = s.sp + 1
         /\ Top(x) = w
         /\ s.sp >= 1 => Under(x) = Top(s)
         /\ s.sp >= 2 => Third(x) = Under(s)
         /\ Restores(s, Push(s, w), Pop(x, w))
<1> DEFINE f == [s.stack EXCEPT ![s.sp] = w]
           u == WithStack(s, f, s.sp + 1)
<1>1. /\ s \in VM /\ s.sp \in Slots /\ s.sp \in Nat /\ s.sp + 1 \in Int
      /\ s.stack \in [Slots -> Word] /\ s.stack[s.sp] = 0
      /\ \A n \in 1 .. s.sp : s.sp - n \in Slots
  BY StackPointer DEF Slots, Sound
<1>2. Push(s, w) = u /\ Sound(u)
  BY PushPasses, PushSafe
<1>3. f \in [Slots -> Word] /\ f[s.sp] = w
  BY <1>1
<1>4. \A n \in 1 .. s.sp : f[s.sp - n] = s.stack[s.sp - n]
  BY <1>1
<1>5. [f EXCEPT ![s.sp] = 0] = s.stack
  BY <1>1
<1> HIDE DEF f
<1>6. u.stack = f /\ u.sp = s.sp + 1 /\ u \in VM
  BY <1>1, <1>3, StackAlgebra
<1>7. Sound(x) /\ x.stack = f /\ x.sp = s.sp + 1
  <2> HIDE DEF u
  <2> QED BY <1>2, <1>6, FlipSound, FlipFields
<1>8. Pop(x, w) = WithStack(x, s.stack, s.sp)
  <2>1. x.sp >= 1 /\ x.sp - 1 = s.sp /\ x.stack[x.sp - 1] = w /\ x.stack \in [Slots -> Word]
    BY <1>1, <1>3, <1>7
  <2>2. Clear(x, x.stack, w) = WithStack(x, [x.stack EXCEPT ![x.sp - 1] = 0], x.sp - 1)
    BY <1>7, <2>1, ClearPasses
  <2> QED BY <1>5, <1>7, <2>1, <2>2 DEF Pop
<1>9. Restores(s, u, WithStack(Flip(u), s.stack, s.sp))
  BY <1>1, <1>3, StackRestored
<1>10. Top(x) = w
  BY <1>1, <1>3, <1>7 DEF Top
<1>11. s.sp >= 1 => Under(x) = Top(s)
  BY <1>1, <1>4, <1>7 DEF Top, Under
<1>12. s.sp >= 2 => Third(x) = Under(s)
  BY <1>1, <1>4, <1>7 DEF Third, Under
<1> QED BY <1>2, <1>7, <1>8, <1>9, <1>10, <1>11, <1>12

(* What a pop leaves, and that a push of the same value undoes it.         *)
LEMMA PopUndone ==
  ASSUME NEW s, Sound(s), s.sp >= 1, NEW w \in Word,
         UNSAFE_OPERATIONS = FALSE, Pop(s, w).fault = "none",
         NEW x, x = Flip(Pop(s, w))
  PROVE  /\ Sound(x) /\ x.sp = s.sp - 1 /\ x.sp + 1 < StackSize
         /\ s.sp >= 2 => Top(x) = Under(s)
         /\ s.sp >= 3 => Under(x) = Third(s)
         /\ Restores(s, Pop(s, w), Push(x, w))
<1> DEFINE top == s.sp - 1
           f == [s.stack EXCEPT ![top] = 0]
           u == WithStack(s, f, top)
<1>1. /\ s \in VM /\ top \in Slots /\ s.sp \in Nat /\ top \in Int
      /\ s.stack \in [Slots -> Word]
      /\ \A n \in 1 .. s.sp : s.sp - n \in Slots
      /\ s.sp < StackSize
  BY StackPointer DEF Slots, Sound
<1>2. s.stack[top] = w /\ Pop(s, w) = u
  BY <1>1, ClearPasses DEF Pop
<1>3. Sound(u)
  <2>1. u.fault = "none"
    BY <1>2
  <2> QED BY <1>2, <2>1, PopSafe DEF Safe, Failures, Exceptions
<1>4. f \in [Slots -> Word]
  BY <1>1, HalfRangeNat DEF Word
<1>5. \A n \in 2 .. s.sp : f[s.sp - n] = s.stack[s.sp - n]
  BY <1>1
<1>6. [f EXCEPT ![top] = w] = s.stack
  BY <1>1, <1>2
<1> HIDE DEF f
<1>7. u.stack = f /\ u.sp = top /\ u \in VM
  BY <1>1, <1>4, StackAlgebra
<1>8. Sound(x) /\ x.stack = f /\ x.sp = top
  <2> HIDE DEF u
  <2> QED BY <1>2, <1>3, <1>7, FlipSound, FlipFields
<1>9. x.sp + 1 < StackSize /\ x.sp + 1 = s.sp
  BY <1>1, <1>8
<1>10. Push(x, w) = WithStack(x, s.stack, s.sp)
  BY <1>6, <1>8, <1>9, PushPasses
<1>11. Restores(s, u, WithStack(Flip(u), s.stack, s.sp))
  BY <1>1, <1>4, StackRestored
<1>12. s.sp >= 2 => Top(x) = Under(s)
  BY <1>1, <1>5, <1>8 DEF Top, Under
<1>13. s.sp >= 3 => Under(x) = Third(s)
  BY <1>1, <1>5, <1>8 DEF Third, Under
<1> QED BY <1>2, <1>8, <1>9, <1>10, <1>11, <1>12, <1>13

-----------------------------------------------------------------------------
(* The pairs of instructions.  start and stop: *)
LEMMA RunningRestored ==
  ASSUME NEW s \in VM
  PROVE  /\ Restores(s, Start(s), Stop(Flip(Start(s))))
         /\ Restores(s, Stop(s), Start(Flip(Stop(s))))
<1>1. ASSUME Start(s).fault = "none" PROVE Restores(s, Start(s), Stop(Flip(Start(s))))
  <2>1. s.running = FALSE /\ Start(s) = [s EXCEPT !.running = TRUE]
    BY <1>1 DEF Start, Throw, VM
  <2> QED BY <2>1 DEF Restores, Stop, Flip, VM
<1>2. ASSUME Stop(s).fault = "none" PROVE Restores(s, Stop(s), Start(Flip(Stop(s))))
  <2>1. s.running = TRUE /\ Stop(s) = [s EXCEPT !.running = FALSE]
    BY <1>2 DEF Stop, Throw, VM
  <2> QED BY <2>1 DEF Restores, Start, Flip, VM
<1> QED BY <1>1, <1>2 DEF Restores

(* pushc and popc, pushtrue and poptrue, pushfalse and popfalse. *)
LEMMA ConstantRestored ==
  ASSUME NEW s, Sound(s), UNSAFE_OPERATIONS = FALSE, NEW w \in Word
  PROVE  /\ Restores(s, Pushc(s, w), Popc(Flip(Pushc(s, w)), w))
         /\ Restores(s, Popc(s, w), Pushc(Flip(Popc(s, w)), w))
<1>1. ASSUME Pushc(s, w).fault = "none"
      PROVE  Restores(s, Pushc(s, w), Popc(Flip(Pushc(s, w)), w))
  <2> DEFINE x == Flip(Push(s, w))
  <2>1. s.sp + 1 < StackSize /\ Pushc(s, w) = Push(s, w)
    BY <1>1, PushesPasses DEF Pushc
  <2>2. Sound(x) /\ x.sp = s.sp + 1 /\ Restores(s, Push(s, w), Pop(x, w))
    BY <2>1, PushUndone
  <2>3. Popc(x, w) = Pop(x, w)
    <3>1. x.sp >= 1 BY <2>2, StackPointer
    <3> QED BY <2>2, <3>1, RequiresPasses DEF Popc
  <2> QED BY <2>1, <2>2, <2>3
<1>2. ASSUME Popc(s, w).fault = "none"
      PROVE  Restores(s, Popc(s, w), Pushc(Flip(Popc(s, w)), w))
  <2> DEFINE x == Flip(Pop(s, w))
  <2>1. s.sp >= 1 /\ Popc(s, w) = Pop(s, w)
    BY <1>2, RequiresPasses DEF Popc
  <2>2. Sound(x) /\ x.sp + 1 < StackSize /\ Restores(s, Pop(s, w), Push(x, w))
    BY <1>2, <2>1, PopUndone
  <2>3. Pushc(x, w) = Push(x, w)
    BY <2>2, PushesPasses DEF Pushc
  <2> QED BY <2>1, <2>2, <2>3
<1> QED BY <1>1, <1>2 DEF Restores

(* dup and undup: what is pushed and popped is found below it. *)
LEMMA DupRestored ==
  ASSUME NEW s, Sound(s), UNSAFE_OPERATIONS = FALSE
  PROVE  /\ Restores(s, Dup(s), Undup(Flip(Dup(s))))
         /\ Restores(s, Undup(s), Dup(Flip(Undup(s))))
<1>1. ASSUME Dup(s).fault = "none"
      PROVE  Restores(s, Dup(s), Undup(Flip(Dup(s))))
  <2> DEFINE x == Flip(Push(s, Top(s)))
  <2>1. s.sp + 1 < StackSize /\ Dup(s) = REQUIRES_PARAMS(s, 1, Push(s, Top(s)))
    BY <1>1, PushesPasses DEF Dup
  <2>2. s.sp >= 1 /\ Dup(s) = Push(s, Top(s))
    BY <1>1, <2>1, RequiresPasses
  <2>3. /\ Sound(x) /\ x.sp = s.sp + 1 /\ Under(x) = Top(s)
        /\ Restores(s, Push(s, Top(s)), Pop(x, Top(s)))
    BY <2>1, <2>2, PushUndone, TopWord
  <2>4. Undup(x) = Pop(x, Top(s))
    <3>1. x.sp >= 2 BY <2>2, <2>3, SpNat
    <3> QED BY <2>3, <3>1, RequiresPasses DEF Undup
  <2> QED BY <2>2, <2>3, <2>4
<1>2. ASSUME Undup(s).fault = "none"
      PROVE  Restores(s, Undup(s), Dup(Flip(Undup(s))))
  <2> DEFINE x == Flip(Pop(s, Under(s)))
  <2>1. s.sp >= 2 /\ s.sp >= 1 /\ Undup(s) = Pop(s, Under(s))
    <3>1. s.sp >= 2 /\ s.sp \in Nat /\ Undup(s) = Pop(s, Under(s))
      BY <1>2, RequiresPasses DEF Undup
    <3> QED BY <3>1
  <2>2. /\ Sound(x) /\ x.sp = s.sp - 1 /\ x.sp + 1 < StackSize /\ Top(x) = Under(s)
        /\ Restores(s, Pop(s, Under(s)), Push(x, Under(s)))
    BY <1>2, <2>1, PopUndone, TopWord
  <2>3. Dup(x) = Push(x, Under(s))
    <3>1. x.sp >= 1 BY <2>1, <2>2, SpNat
    <3> QED BY <2>2, <3>1, PushesPasses, RequiresPasses DEF Dup
  <2> QED BY <2>1, <2>2, <2>3
<1> QED BY <1>1, <1>2 DEF Restores

(* cmpush and cmpop compare the same two values. *)
LEMMA CompareRestored ==
  ASSUME NEW s, Sound(s), UNSAFE_OPERATIONS = FALSE, NEW op \in Comparisons
  PROVE  /\ Restores(s, CmpPush(s, op), CmpPop(Flip(CmpPush(s, op)), op))
         /\ Restores(s, CmpPop(s, op), CmpPush(Flip(CmpPop(s, op)), op))
<1>1. \A a, b : Compare(op, a, b) \in Word
  <2>1. True \in Word /\ False \in Word
    BY HalfRangeNat DEF True, False, Forward, Backward, Word
  <2> QED BY <2>1, Zenon DEF Compare
<1>2. ASSUME CmpPush(s, op).fault = "none"
      PROVE  Restores(s, CmpPush(s, op), CmpPop(Flip(CmpPush(s, op)), op))
  <2> DEFINE w == Compare(op, Top(s), Under(s))
             x == Flip(Push(s, w))
  <2>1. s.sp + 1 < StackSize /\ CmpPush(s, op) = REQUIRES_PARAMS(s, 2, Push(s, w))
    BY <1>2, PushesPasses DEF CmpPush
  <2>2. s.sp >= 2 /\ s.sp >= 1 /\ CmpPush(s, op) = Push(s, w)
    <3>1. s.sp >= 2 /\ s.sp \in Nat /\ CmpPush(s, op) = Push(s, w)
      BY <1>2, <2>1, RequiresPasses
    <3> QED BY <3>1
  <2>3. /\ Sound(x) /\ x.sp = s.sp + 1 /\ Under(x) = Top(s) /\ Third(x) = Under(s)
        /\ Restores(s, Push(s, w), Pop(x, w))
    <3>1. w \in Word BY <1>1
    <3> HIDE DEF w
    <3> QED BY <2>1, <2>2, <3>1, PushUndone
  <2>4. CmpPop(x, op) = Pop(x, w)
    <3>1. x.sp >= 3 BY <2>2, <2>3, SpNat
    <3> QED BY <2>3, <3>1, RequiresPasses DEF CmpPop
  <2> QED BY <2>2, <2>3, <2>4
<1>3. ASSUME CmpPop(s, op).fault = "none"
      PROVE  Restores(s, CmpPop(s, op), CmpPush(Flip(CmpPop(s, op)), op))
  <2> DEFINE w == Compare(op, Under(s), Third(s))
             x == Flip(Pop(s, w))
  <2>1. s.sp >= 3 /\ s.sp >= 2 /\ s.sp >= 1 /\ CmpPop(s, op) = Pop(s, w)
    <3>1. s.sp >= 3 /\ s.sp \in Nat /\ CmpPop(s, op) = Pop(s, w)
      BY <1>3, RequiresPasses DEF CmpPop
    <3> QED BY <3>1
  <2>2. /\ Sound(x) /\ x.sp = s.sp - 1 /\ x.sp + 1 < StackSize
        /\ Top(x) = Under(s) /\ Under(x) = Third(s)
        /\ Restores(s, Pop(s, w), Push(x, w))
    <3>1. w \in Word BY <1>1
    <3> HIDE DEF w
    <3> QED BY <1>3, <2>1, <3>1, PopUndone
  <2>3. CmpPush(x, op) = Push(x, w)
    <3>1. x.sp >= 2 BY <2>1, <2>2, SpNat
    <3> QED BY <2>2, <3>1, PushesPasses, RequiresPasses DEF CmpPush
  <2> QED BY <2>1, <2>2, <2>3
<1> QED BY <1>2, <1>3 DEF Restores

(* A division that does not trap. *)
LEMMA ComputesPasses ==
  ASSUME NEW s, Sound(s), NEW op, NEW a, NEW b, NEW t
  PROVE  /\ ~(op \in {"arpushdiv", "arpushmod"} /\ DivisionTraps(a, b)) =>
              Computes(s, op, a, b, t) = t
         /\ Computes(s, op, a, b, t).fault = "none" =>
              ~(op \in {"arpushdiv", "arpushmod"} /\ DivisionTraps(a, b))
BY ThrowFault DEF Computes

(* arpush and arpop compute the same from the same two values. *)
LEMMA ArithmeticRestored ==
  ASSUME NEW s, Sound(s), UNSAFE_OPERATIONS = FALSE, NEW op \in Arithmetics
  PROVE  /\ Restores(s, ArPush(s, op), ArPop(Flip(ArPush(s, op)), op))
         /\ Restores(s, ArPop(s, op), ArPush(Flip(ArPop(s, op)), op))
<1>1. ASSUME ArPush(s, op).fault = "none"
      PROVE  Restores(s, ArPush(s, op), ArPop(Flip(ArPush(s, op)), op))
  <2> DEFINE w == Arithmetic(op, Top(s), Under(s))
             x == Flip(Push(s, w))
             c == Computes(s, op, Top(s), Under(s), Push(s, w))
  <2>1. s.sp + 1 < StackSize /\ ArPush(s, op) = REQUIRES_PARAMS(s, 2, c)
    BY <1>1, PushesPasses DEF ArPush
  <2>2. s.sp >= 2 /\ s.sp >= 1 /\ ArPush(s, op) = c
    <3> HIDE DEF c
    <3>1. s.sp >= 2 /\ s.sp \in Nat /\ ArPush(s, op) = c
      BY <1>1, <2>1, RequiresPasses
    <3> QED BY <3>1
  <2>3. /\ ~(op \in {"arpushdiv", "arpushmod"} /\ DivisionTraps(Top(s), Under(s)))
        /\ ArPush(s, op) = Push(s, w)
    BY <1>1, <2>2, ComputesPasses
  <2>4. w \in Word
    BY <2>2, <2>3, TopWord, ArithmeticWord
  <2>5. /\ Sound(x) /\ x.sp = s.sp + 1 /\ Under(x) = Top(s) /\ Third(x) = Under(s)
        /\ Restores(s, Push(s, w), Pop(x, w))
    <3> HIDE DEF w
    <3> QED BY <2>1, <2>2, <2>4, PushUndone
  <2>6. Computes(x, op, Under(x), Third(x), Pop(x, Arithmetic(op, Under(x), Third(x)))) = Pop(x, w)
    BY <2>3, <2>5, ComputesPasses
  <2>7. ArPop(x, op) = Pop(x, w)
    <3>1. x.sp >= 3
      BY <2>2, <2>5, StackPointer
    <3> QED BY <2>5, <2>6, <3>1, RequiresPasses DEF ArPop
  <2> QED BY <2>3, <2>5, <2>7
<1>2. ASSUME ArPop(s, op).fault = "none"
      PROVE  Restores(s, ArPop(s, op), ArPush(Flip(ArPop(s, op)), op))
  <2> DEFINE w == Arithmetic(op, Under(s), Third(s))
             x == Flip(Pop(s, w))
             c == Computes(s, op, Under(s), Third(s), Pop(s, w))
  <2>1. s.sp >= 3 /\ s.sp >= 2 /\ s.sp >= 1 /\ ArPop(s, op) = c
    <3>1. s.sp >= 3 /\ s.sp \in Nat /\ ArPop(s, op) = c
      BY <1>2, RequiresPasses DEF ArPop
    <3> QED BY <3>1
  <2>2. /\ ~(op \in {"arpushdiv", "arpushmod"} /\ DivisionTraps(Under(s), Third(s)))
        /\ ArPop(s, op) = Pop(s, w)
    BY <1>2, <2>1, ComputesPasses
  <2>3. w \in Word
    BY <2>1, <2>2, TopWord, ArithmeticWord
  <2>4. /\ Sound(x) /\ x.sp = s.sp - 1 /\ x.sp + 1 < StackSize
        /\ Top(x) = Under(s) /\ Under(x) = Third(s)
        /\ Restores(s, Pop(s, w), Push(x, w))
    <3> HIDE DEF w
    <3> QED BY <1>2, <2>1, <2>2, <2>3, PopUndone
  <2>5. Computes(x, op, Top(x), Under(x), Push(x, Arithmetic(op, Top(x), Under(x)))) = Push(x, w)
    BY <2>2, <2>4, ComputesPasses
  <2>6. ArPush(x, op) = Push(x, w)
    <3>1. x.sp >= 2
      BY <2>1, <2>4, StackPointer
    <3> QED BY <2>4, <2>5, <3>1, PushesPasses, RequiresPasses DEF ArPush
  <2> QED BY <2>2, <2>4, <2>6
<1> QED BY <1>1, <1>2 DEF Restores

-----------------------------------------------------------------------------
(* Instructions that rewrite the stack in place. *)
LEMMA StackReplaced ==
  ASSUME NEW s, Sound(s), NEW f \in [Slots -> Word],
         \A i \in Slots : i >= s.sp => f[i] = s.stack[i],
         NEW x, x = Flip(WithStack(s, f, s.sp))
  PROVE  /\ Sound(x) /\ x.sp = s.sp /\ x.stack = f
         /\ Restores(s, WithStack(s, f, s.sp), WithStack(x, s.stack, s.sp))
<1>1. s \in VM /\ s.sp \in Int /\ Clean(f, s.sp)
  BY SpNat DEF Sound, Clean
<1> DEFINE u == WithStack(s, f, s.sp)
<1>2. Sound(u) /\ u.stack = f /\ u.sp = s.sp /\ u \in VM
  BY <1>1, WithStackSound, StackAlgebra
<1>3. Restores(s, u, WithStack(Flip(u), s.stack, s.sp))
  BY <1>1, StackRestored
<1> HIDE DEF u
<1>4. Sound(Flip(u)) /\ Flip(u).stack = f /\ Flip(u).sp = s.sp
  BY <1>2, FlipSound, FlipFields
<1> QED BY <1>3, <1>4 DEF u

(* swap, and bury against dig. *)
LEMMA ShuffleRestored ==
  ASSUME NEW s, Sound(s), UNSAFE_OPERATIONS = FALSE
  PROVE  /\ Restores(s, Swap(s), Swap(Flip(Swap(s))))
         /\ Restores(s, Bury(s), Dig(Flip(Bury(s))))
         /\ Restores(s, Dig(s), Bury(Flip(Dig(s))))
<1> DEFINE i == s.sp - 1
           j == s.sp - 2
           k == s.sp - 3
<1>0. s.sp \in Nat /\ s.stack \in [Slots -> Word] 
  BY StackPointer
<1>1. ASSUME Swap(s).fault = "none" PROVE Restores(s, Swap(s), Swap(Flip(Swap(s))))
  <2> DEFINE f == Exchange(s.stack, i, j)
             x == Flip(WithStack(s, f, s.sp))
  <2>1. s.sp >= 2 /\ Swap(s) = WithStack(s, f, s.sp)
    BY <1>1, RequiresPasses DEF Swap
  <2>2. i \in Slots /\ j \in Slots /\ i # j /\ i < s.sp /\ j < s.sp
    BY <1>0, <2>1, StackPointer
  <2>3. /\ f \in [Slots -> Word] /\ Exchange(f, i, j) = s.stack
        /\ \A m \in Slots : m >= s.sp => f[m] = s.stack[m]
    <3>1. \A m \in Slots : m >= s.sp => m # i /\ m # j
      BY <1>0, <2>2 DEF Slots
    <3> HIDE DEF i, j
    <3> QED BY <1>0, <2>2, <3>1 DEF Exchange
  <2>4. /\ Sound(x) /\ x.sp = s.sp /\ x.stack = f
        /\ Restores(s, WithStack(s, f, s.sp), WithStack(x, s.stack, s.sp))
    <3> HIDE DEF f
    <3> QED BY <2>3, StackReplaced
  <2>5. Swap(x) = WithStack(x, s.stack, s.sp)
    <3>1. x.sp - 1 = i /\ x.sp - 2 = j
      BY <2>4
    <3> HIDE DEF x, f, i, j
    <3> QED BY <2>1, <2>3, <2>4, <3>1, RequiresPasses DEF Swap
  <2> QED BY <2>1, <2>4, <2>5
<1> DEFINE b == [s.stack EXCEPT ![k] = s.stack[i], ![j] = s.stack[k], ![i] = s.stack[j]]
           d == [s.stack EXCEPT ![i] = s.stack[k], ![j] = s.stack[i], ![k] = s.stack[j]]
<1>2. ASSUME s.sp >= 3
      PROVE  /\ b \in [Slots -> Word] /\ d \in [Slots -> Word]
             /\ \A m \in Slots : m >= s.sp => b[m] = s.stack[m] /\ d[m] = s.stack[m]
             /\ [b EXCEPT ![i] = b[k], ![j] = b[i], ![k] = b[j]] = s.stack
             /\ [d EXCEPT ![k] = d[i], ![j] = d[k], ![i] = d[j]] = s.stack
  <2>1. /\ i \in Slots /\ j \in Slots /\ k \in Slots /\ i # j /\ j # k /\ i # k
        /\ \A m \in Slots : m >= s.sp => m # i /\ m # j /\ m # k
    <3>1. /\ i \in Slots /\ j \in Slots /\ k \in Slots
      BY <1>0, <1>2, StackPointer
    <3> QED BY <1>0, <3>1 DEF Slots
  <2> HIDE DEF i, j, k
  <2>2. b \in [Slots -> Word] /\ d \in [Slots -> Word]
    BY <1>0, <2>1
  <2>3. \A m \in Slots : m >= s.sp => b[m] = s.stack[m] /\ d[m] = s.stack[m]
    BY <1>0, <2>1
  <2>4. [b EXCEPT ![i] = b[k], ![j] = b[i], ![k] = b[j]] = s.stack
    BY <1>0, <2>1
  <2>5. [d EXCEPT ![k] = d[i], ![j] = d[k], ![i] = d[j]] = s.stack
    BY <1>0, <2>1
  <2> QED BY <2>2, <2>3, <2>4, <2>5
<1>3. ASSUME Bury(s).fault = "none" PROVE Restores(s, Bury(s), Dig(Flip(Bury(s))))
  <2> DEFINE x == Flip(WithStack(s, b, s.sp))
  <2>1. s.sp >= 3 /\ Bury(s) = WithStack(s, b, s.sp)
    BY <1>3, RequiresPasses DEF Bury, Top, Under, Third
  <2>2. /\ Sound(x) /\ x.sp = s.sp /\ x.stack = b
        /\ Restores(s, WithStack(s, b, s.sp), WithStack(x, s.stack, s.sp))
    <3>1. b \in [Slots -> Word] /\ \A m \in Slots : m >= s.sp => b[m] = s.stack[m]
      BY <1>2, <2>1
    <3> HIDE DEF b
    <3> QED BY <3>1, StackReplaced
  <2>3. Dig(x) = WithStack(x, s.stack, s.sp)
    <3>1. [b EXCEPT ![i] = b[k], ![j] = b[i], ![k] = b[j]] = s.stack
      BY <1>2, <2>1
    <3>2. x.sp - 1 = i /\ x.sp - 2 = j /\ x.sp - 3 = k
      BY <2>2
    <3> HIDE DEF x, b, i, j, k
    <3> QED BY <2>1, <2>2, <3>1, <3>2, RequiresPasses DEF Dig, Top, Under, Third
  <2> QED BY <2>1, <2>2, <2>3
<1>4. ASSUME Dig(s).fault = "none" PROVE Restores(s, Dig(s), Bury(Flip(Dig(s))))
  <2> DEFINE x == Flip(WithStack(s, d, s.sp))
  <2>1. s.sp >= 3 /\ Dig(s) = WithStack(s, d, s.sp)
    BY <1>4, RequiresPasses DEF Dig, Top, Under, Third
  <2>2. /\ Sound(x) /\ x.sp = s.sp /\ x.stack = d
        /\ Restores(s, WithStack(s, d, s.sp), WithStack(x, s.stack, s.sp))
    <3>1. d \in [Slots -> Word] /\ \A m \in Slots : m >= s.sp => d[m] = s.stack[m]
      BY <1>2, <2>1
    <3> HIDE DEF d
    <3> QED BY <3>1, StackReplaced
  <2>3. Bury(x) = WithStack(x, s.stack, s.sp)
    <3>1. [d EXCEPT ![k] = d[i], ![j] = d[k], ![i] = d[j]] = s.stack
      BY <1>2, <2>1
    <3>2. x.sp - 1 = i /\ x.sp - 2 = j /\ x.sp - 3 = k
      BY <2>2
    <3> HIDE DEF x, d, i, j, k
    <3> QED BY <2>1, <2>2, <3>1, <3>2, RequiresPasses DEF Bury, Top, Under, Third
  <2> QED BY <2>1, <2>2, <2>3
<1> QED BY <1>1, <1>3, <1>4 DEF Restores

(* A new top value, undone by setting the old one. *)
LEMMA SetTopUndone ==
  ASSUME NEW s, Sound(s), s.sp >= 1, NEW w \in Word,
         NEW x, x = Flip(SetTop(s, w))
  PROVE  /\ Sound(x) /\ x.sp = s.sp /\ Top(x) = w
         /\ s.sp >= 2 => Under(x) = Under(s)
         /\ Restores(s, SetTop(s, w), SetTop(x, Top(s)))
<1> DEFINE top == s.sp - 1
           f == [s.stack EXCEPT ![top] = w]
<1>1. /\ s.sp \in Nat /\ top \in Slots 
      /\ \A i \in Slots : i >= s.sp => i # top
      /\ s.stack \in [Slots -> Word]
      /\ s.sp >= 2 => s.sp - 2 \in Slots /\ s.sp - 2 # top
  <2>1. /\ s.sp \in Nat /\ top \in Slots /\ s.stack \in [Slots -> Word]
        /\ s.sp >= 2 => s.sp - 2 \in Slots
    BY StackPointer
  <2> QED BY <2>1 DEF Slots
<1>2. /\ f \in [Slots -> Word] /\ f[top] = w
      /\ \A i \in Slots : i >= s.sp => f[i] = s.stack[i]
  BY <1>1
<1>3. [f EXCEPT ![top] = s.stack[top]] = s.stack
  BY <1>1
<1>4. s.sp >= 2 => f[s.sp - 2] = s.stack[s.sp - 2]
  BY <1>1
<1>5. SetTop(s, w) = WithStack(s, f, s.sp)
  BY DEF SetTop
<1> HIDE DEF f
<1>6. /\ Sound(x) /\ x.sp = s.sp /\ x.stack = f
      /\ Restores(s, WithStack(s, f, s.sp), WithStack(x, s.stack, s.sp))
  BY <1>2, <1>5, StackReplaced
<1>7. SetTop(x, Top(s)) = WithStack(x, s.stack, s.sp)
  BY <1>3, <1>6 DEF SetTop, Top
<1>8. Top(x) = w /\ (s.sp >= 2 => Under(x) = Under(s))
  BY <1>2, <1>4, <1>6 DEF Top, Under
<1> QED BY <1>5, <1>6, <1>7, <1>8

(* An update w of the top value whose inverse computes v from it. *)
LEMMA UpdateRestored ==
  ASSUME NEW s, Sound(s), UNSAFE_OPERATIONS = FALSE, NEW k \in {1, 2}, NEW w, NEW v,
         s.sp >= k => w \in Word,
         NEW u, u = REQUIRES_PARAMS(s, k, SetTop(s, w)),
         NEW x, x = Flip(u),
         s.sp >= k /\ Top(x) = w /\ (k = 2 => Under(x) = Under(s)) => v = Top(s)
  PROVE  Restores(s, u, REQUIRES_PARAMS(x, k, SetTop(x, v)))
<1> SUFFICES ASSUME u.fault = "none" PROVE Restores(s, u, REQUIRES_PARAMS(x, k, SetTop(x, v)))
  BY DEF Restores
<1>1. k \in Nat /\ s.sp \in Nat
  BY SpNat
<1>2. s.sp >= k /\ u = SetTop(s, w)
  BY <1>1, RequiresPasses
<1>3. s.sp >= 1 /\ w \in Word /\ (k = 2 => s.sp >= 2)
  BY <1>1, <1>2
<1>4. /\ Sound(x) /\ x.sp = s.sp /\ Top(x) = w
      /\ s.sp >= 2 => Under(x) = Under(s)
      /\ Restores(s, SetTop(s, w), SetTop(x, Top(s)))
  BY <1>2, <1>3, SetTopUndone
<1>5. v = Top(s)
  BY <1>2, <1>3, <1>4
<1>6. REQUIRES_PARAMS(x, k, SetTop(x, v)) = SetTop(x, v)
  BY <1>1, <1>2, <1>4, RequiresPasses
<1> QED BY <1>2, <1>4, <1>5, <1>6

(* inc and dec, and neg. *)
LEMMA UnaryRestored ==
  ASSUME NEW s, Sound(s), UNSAFE_OPERATIONS = FALSE, NEW n \in Word
  PROVE  /\ Restores(s, Inc(s, n), Dec(Flip(Inc(s, n)), n))
         /\ Restores(s, Dec(s, n), Inc(Flip(Dec(s, n)), n))
         /\ Restores(s, Neg(s), Neg(Flip(Neg(s))))
<1>1. s.sp >= 1 => Top(s) \in Word
  BY TopWord
<1>2. Restores(s, Inc(s, n), Dec(Flip(Inc(s, n)), n))
  <2>1. s.sp >= 1 => AddW(Top(s), n) \in Word /\ SubW(AddW(Top(s), n), n) = Top(s)
    BY <1>1, AddWord, AddSub
  <2> QED BY <2>1, UpdateRestored DEF Inc, Dec
<1>3. Restores(s, Dec(s, n), Inc(Flip(Dec(s, n)), n))
  <2>1. s.sp >= 1 => SubW(Top(s), n) \in Word /\ AddW(SubW(Top(s), n), n) = Top(s)
    BY <1>1, SubWord, AddSub
  <2> QED BY <2>1, UpdateRestored DEF Inc, Dec
<1>4. Restores(s, Neg(s), Neg(Flip(Neg(s))))
  <2>1. s.sp >= 1 => NegW(Top(s)) \in Word /\ NegW(NegW(Top(s))) = Top(s)
    BY <1>1, NegWord, NegNeg
  <2> QED BY <2>1, UpdateRestored DEF Neg
<1> QED BY <1>2, <1>3, <1>4

(* add and sub, xor, shl and shr: the value under the top stays. *)
LEMMA BinaryRestored ==
  ASSUME NEW s, Sound(s), UNSAFE_OPERATIONS = FALSE
  PROVE  /\ Restores(s, Add(s), Sub(Flip(Add(s))))
         /\ Restores(s, Sub(s), Add(Flip(Sub(s))))
         /\ Restores(s, XorTop(s), XorTop(Flip(XorTop(s))))
         /\ Restores(s, Shl(s), Shr(Flip(Shl(s))))
         /\ Restores(s, Shr(s), Shl(Flip(Shr(s))))
<1> DEFINE a == Top(s)
           b == Under(s)
<1>1. s.sp >= 2 => a \in Word /\ b \in Word
  BY TopWord, SpNat
<1>2. s.sp >= 2 =>
        /\ AddW(a, b) \in Word /\ SubW(AddW(a, b), b) = a
        /\ SubW(a, b) \in Word /\ AddW(SubW(a, b), b) = a
  <2> HIDE DEF a, b
  <2> QED BY <1>1, AddWord, SubWord, AddSub
<1>3. s.sp >= 2 =>
        /\ BitXor(a, b) \in Word /\ BitXor(BitXor(a, b), b) = a
        /\ RotL(a, b) \in Word /\ RotR(RotL(a, b), b) = a
        /\ RotR(a, b) \in Word /\ RotL(RotR(a, b), b) = a
  <2> HIDE DEF a, b
  <2> QED BY <1>1, BitwiseAssumption
<1>4. Restores(s, Add(s), Sub(Flip(Add(s))))
  BY <1>2, UpdateRestored DEF Add, Sub
<1>5. Restores(s, Sub(s), Add(Flip(Sub(s))))
  BY <1>2, UpdateRestored DEF Add, Sub
<1>6. Restores(s, XorTop(s), XorTop(Flip(XorTop(s))))
  BY <1>3, UpdateRestored DEF XorTop
<1>7. Restores(s, Shl(s), Shr(Flip(Shl(s))))
  BY <1>3, UpdateRestored DEF Shl, Shr
<1>8. Restores(s, Shr(s), Shl(Flip(Shr(s))))
  BY <1>3, UpdateRestored DEF Shl, Shr
<1> QED BY <1>4, <1>5, <1>6, <1>7, <1>8

(* xorhc, which takes the upper bits of the same operand twice. *)
LEMMA XorhcRestored ==
  ASSUME NEW s, Sound(s), UNSAFE_OPERATIONS = FALSE,
         NEW bits \in 0 .. (2 * OPERAND_SIGN - 1)
  PROVE  Restores(s, Xorhc(s, bits), Xorhc(Flip(Xorhc(s, bits)), bits))
<1> DEFINE a == Top(s)
           b == UpperBits(bits)
<1>1. (s.sp >= 1 => a \in Word) /\ b \in Word
  BY TopWord, OperandWord
<1>2. s.sp >= 1 => BitXor(a, b) \in Word /\ BitXor(BitXor(a, b), b) = a
  <2> HIDE DEF a, b
  <2> QED BY <1>1, BitwiseAssumption
<1> QED BY <1>2, UpdateRestored DEF Xorhc

-----------------------------------------------------------------------------
(* Parameters.  Slots above the stack pointer are zero, so what allocpar   *)
(* takes over is what releasepar demands.                                  *)
LEMMA ParametersRestored ==
  ASSUME NEW s, Sound(s), UNSAFE_OPERATIONS = FALSE, StackSize # 0, NEW n \in Word
  PROVE  /\ Restores(s, Allocpar(s, n), Releasepar(Flip(Allocpar(s, n)), n))
         /\ Restores(s, Releasepar(s, n), Allocpar(Flip(Releasepar(s, n)), n))
<1>0. /\ s \in VM /\ s.sp \in Nat /\ s.sp < StackSize /\ s.stack \in [Slots -> Word]
      /\ StackSize \in Nat
  BY StackPointer DEF Sound
<1> DEFINE more == WithStack(s, s.stack, s.sp + n)
           less == WithStack(s, s.stack, s.sp - n)
<1>1. ASSUME Allocpar(s, n).fault = "none"
      PROVE  Restores(s, Allocpar(s, n), Releasepar(Flip(Allocpar(s, n)), n))
  <2> DEFINE x == Flip(more)
             below == WithStack(x, x.stack, x.sp - n)
             slots == (x.sp - n) .. (x.sp - 1)
  <2>1. n \in Nat /\ Allocpar(s, n) = PUSHES_VALUES(s, n, more)
    BY <1>1, PositivePasses DEF Allocpar
  <2>2. s.sp + n < StackSize /\ Allocpar(s, n) = more
    <3> HIDE DEF more
    <3> QED BY <1>1, <2>1, PushesPasses
  <2>3. s.sp + n \in Nat /\ s.sp + n \in Slots
    BY <1>0, <2>1, <2>2 DEF Slots
  <2>4. Sound(more) /\ more.sp = s.sp + n /\ more.stack = s.stack
    <3>1. Safe(more)
      BY <2>2, AllocparSafe
    <3> QED BY <1>0, <1>1, <2>2, <2>3, <3>1, StackAlgebra DEF Safe, Failures, Exceptions
  <2>5. Sound(x) /\ x.sp = s.sp + n /\ x.stack = s.stack
    <3> HIDE DEF more
    <3> QED BY <2>4, FlipSound, FlipFields DEF Sound
  <2>6. /\ slots = s.sp .. (s.sp + n - 1) /\ slots \subseteq Slots
        /\ x.sp - n = s.sp /\ x.sp >= n
    <3> HIDE DEF x
    <3> QED BY <1>0, <2>1, <2>2, <2>5 DEF Slots
  <2>7. \A i \in slots : x.stack[i] = 0
    <3>1. \A i \in slots : i \in Slots /\ i >= s.sp
      BY <1>0, <2>1, <2>6 DEF Slots
    <3> QED BY <2>5, <3>1, StackPointer
  <2>8. Restores(s, more, WithStack(x, s.stack, s.sp))
    BY <1>0, <2>3, StackRestored
  <2>9. Releasepar(x, n) = below
    <3> HIDE DEF x, below, slots
    <3>1. ClearSlots(x, slots, below) = below
      BY <2>5, <2>6, <2>7, ClearSlotsPasses
    <3>2. REQUIRES_PARAMS(x, n, ClearSlots(x, slots, below)) = below
      BY <2>1, <2>5, <2>6, <3>1, RequiresPasses
    <3> QED BY <2>1, <2>5, <3>2, PositivePasses DEF Releasepar, below, slots
  <2> QED BY <2>2, <2>5, <2>6, <2>8, <2>9
<1>2. ASSUME Releasepar(s, n).fault = "none"
      PROVE  Restores(s, Releasepar(s, n), Allocpar(Flip(Releasepar(s, n)), n))
  <2> DEFINE x == Flip(less)
             above == WithStack(x, x.stack, x.sp + n)
             slots == (s.sp - n) .. (s.sp - 1)
  <2>1. n \in Nat /\ Releasepar(s, n) = REQUIRES_PARAMS(s, n, ClearSlots(s, slots, less))
    BY <1>2, PositivePasses DEF Releasepar
  <2>2. s.sp >= n /\ Releasepar(s, n) = ClearSlots(s, slots, less)
    <3> HIDE DEF less, slots
    <3> QED BY <1>2, <2>1, RequiresPasses
  <2>3. slots \subseteq Slots
    BY <1>0, <2>1, <2>2 DEF Slots
  <2>4. Releasepar(s, n) = less
    <3> HIDE DEF less, slots
    <3> QED BY <1>2, <2>2, <2>3, ClearSlotsPasses
  <2>5. Sound(less) /\ less.sp = s.sp - n /\ less.stack = s.stack
    <3>1. Safe(less)
      BY <2>4, AllocparSafe
    <3>2. s.sp - n \in Int
      BY <1>0, <2>1
    <3> QED BY <1>0, <1>2, <2>4, <3>1, <3>2, StackAlgebra DEF Safe, Failures, Exceptions
  <2>6. Sound(x) /\ x.sp = s.sp - n /\ x.stack = s.stack
    <3> HIDE DEF less
    <3> QED BY <2>5, FlipSound, FlipFields DEF Sound
  <2>7. x.sp + n = s.sp /\ x.sp + n < StackSize /\ s.sp - n \in Int
    BY <1>0, <2>1, <2>6
  <2>8. Restores(s, less, WithStack(x, s.stack, s.sp))
    BY <1>0, <2>7, StackRestored
  <2>9. Allocpar(x, n) = above
    <3> HIDE DEF x, above
    <3>1. PUSHES_VALUES(x, n, above) = above
      BY <2>1, <2>6, <2>7, PushesPasses
    <3> QED BY <2>1, <2>6, <3>1, PositivePasses DEF Allocpar, above
  <2> QED BY <2>4, <2>6, <2>7, <2>8, <2>9
<1> QED BY <1>1, <1>2 DEF Restores

-----------------------------------------------------------------------------
(* Instructions that write more than the stack.                            *)
Becomes(s, stack, sp, fp, br, memory) ==
  [s EXCEPT !.stack = stack, !.sp = sp, !.fp = fp, !.br = br, !.memory = memory]

(* The fields of the result, and that writing the old ones back undoes it. *)
LEMMA BecomesRestored ==
  ASSUME NEW s \in VM, NEW f \in [Slots -> Word], NEW m \in Int, NEW p \in Word,
         NEW b \in Word, NEW h \in [Addresses -> Word],
         NEW u, u = Becomes(s, f, m, p, b, h),
         NEW x, x = Flip(u)
  PROVE  /\ u \in VM /\ u.fault = s.fault
         /\ x \in VM
         /\ x.stack = f /\ x.sp = m /\ x.fp = p /\ x.br = b /\ x.memory = h
         /\ x.dir = -s.dir
         /\ Restores(s, u, Becomes(x, s.stack, s.sp, s.fp, s.br, s.memory))
<1> DEFINE v == Becomes(x, s.stack, s.sp, s.fp, s.br, s.memory)
<1>1. /\ u \in VM /\ u.stack = f /\ u.sp = m /\ u.fp = p /\ u.br = b /\ u.memory = h
      /\ u.pc = s.pc /\ u.dir = s.dir /\ u.running = s.running /\ u.fault = s.fault
  BY DEF Becomes, VM
<1>2. /\ x \in VM /\ x.stack = f /\ x.sp = m /\ x.fp = p /\ x.br = b /\ x.memory = h
      /\ x.pc = s.pc /\ x.dir = -s.dir /\ x.running = s.running /\ x.fault = s.fault
  BY <1>1, FlipFields
<1>3. v = Flip(s)
  <2>1. /\ s.stack \in [Slots -> Word] /\ s.sp \in Int /\ s.fp \in Word /\ s.br \in Word
        /\ s.memory \in [Addresses -> Word]
    BY DEF VM
  <2>2. /\ v \in VM /\ v.stack = s.stack /\ v.sp = s.sp /\ v.fp = s.fp /\ v.br = s.br
        /\ v.memory = s.memory /\ v.pc = s.pc /\ v.dir = -s.dir /\ v.running = s.running
        /\ v.fault = s.fault
    BY <1>2, <2>1 DEF Becomes, VM
  <2> HIDE DEF v
  <2> QED BY <2>2, FlipFields, SameMachine
<1> QED BY <1>1, <1>2, <1>3 DEF Restores

(* asf and rsf: fp names the slot that keeps the old fp, and the slots of  *)
(* the locals are zero before and after.                                   *)
LEMMA AsfUndone ==
  ASSUME NEW s, Sound(s), UNSAFE_OPERATIONS = FALSE, NEW n \in Word
  PROVE  Restores(s, Asf(s, n), Rsf(Flip(Asf(s, n)), n))
<1> SUFFICES ASSUME Asf(s, n).fault = "none"
             PROVE  Restores(s, Asf(s, n), Rsf(Flip(Asf(s, n)), n))
  BY DEF Restores
<1> DEFINE f == [s.stack EXCEPT ![s.sp] = s.fp]
           m == s.sp + n + 1
           framed == [WithStack(s, f, m) EXCEPT !.fp = s.sp]
           u == Becomes(s, f, m, s.sp, s.br, s.memory)
           x == Flip(u)
           touched == Touch(s, {s.sp}, framed)
<1>1. n \in Nat /\ Asf(s, n) = PUSHES_VALUES(s, n + 1, touched)
  BY PositivePasses DEF Asf
<1>2. s.sp + (n + 1) < StackSize /\ Asf(s, n) = touched
  <2>1. n + 1 \in Nat
    BY <1>1
  <2> HIDE DEF touched
  <2> QED BY <1>1, <2>1, PushesPasses
<1>3. /\ s \in VM /\ s.sp \in Nat /\ s.sp \in Slots /\ m \in Nat /\ m < StackSize
      /\ s.sp \in Int /\ m \in Int /\ StackSize \in Nat
      /\ s.stack \in [Slots -> Word] /\ s.stack[s.sp] = 0
      /\ s.fp \in Word /\ s.br \in Word /\ s.memory \in [Addresses -> Word]
  BY <1>1, <1>2, StackPointer DEF Sound, VM, Slots
<1>4. s.sp \in Word
  BY <1>3, SizeAssumption, HalfRangeNat DEF Slots, Word
<1>5. f \in [Slots -> Word] /\ f[s.sp] = s.fp /\ [f EXCEPT ![s.sp] = 0] = s.stack
  BY <1>3
<1>6. \A i \in Slots : i > s.sp => f[i] = 0
  <2>1. \A i \in Slots : i > s.sp => i # s.sp /\ i >= s.sp
    BY <1>3 DEF Slots
  <2> QED BY <1>3, <2>1, StackPointer
<1> HIDE DEF f
<1>7. Asf(s, n) = u
  <2>1. framed = u
    <3> HIDE DEF m
    <3> QED BY <1>3 DEF WithStack, Becomes, VM
  <2> QED BY <1>2, <1>3, <2>1 DEF Touch
<1>8. /\ u \in VM /\ x \in VM
      /\ x.stack = f /\ x.sp = m /\ x.fp = s.sp /\ x.br = s.br /\ x.memory = s.memory
      /\ Restores(s, u, Becomes(x, s.stack, s.sp, s.fp, s.br, s.memory))
  <2>1. u = Becomes(s, f, m, s.sp, s.br, s.memory) /\ x = Flip(u)
    OBVIOUS
  <2>2. /\ s \in VM /\ f \in [Slots -> Word] /\ m \in Int /\ s.sp \in Word
        /\ s.br \in Word /\ s.memory \in [Addresses -> Word]
    BY <1>3, <1>4, <1>5
  <2> HIDE DEF m, u, x
  <2> QED BY <2>1, <2>2, BecomesRestored
<1>9. Sound(x)
  <2>1. Safe(u)
    BY <1>7, AsfSafe
  <2>2. Sound(u)
    BY <1>7, <2>1 DEF Safe, Failures, Exceptions
  <2> QED BY <2>2, FlipSound
<1>10. Rsf(x, n) = Becomes(x, s.stack, s.sp, s.fp, s.br, s.memory)
  <2> DEFINE slots == (x.sp - n) .. (x.sp - 1)
             unframed == [WithStack(x, s.stack, s.sp) EXCEPT !.fp = s.fp]
             checked == IF ~UNSAFE_OPERATIONS /\ BitXor(x.fp, s.sp) # 0
                        THEN Throw(x, "domain_error")
                        ELSE Touch(x, {s.sp},
                               [WithStack(x, [x.stack EXCEPT ![s.sp] = BitXor(x.fp, s.sp)], s.sp)
                                  EXCEPT !.fp = x.stack[s.sp]])
  <2> HIDE DEF x
  <2>1. x.sp - (n + 1) = s.sp /\ x.sp >= n + 1 /\ n + 1 \in Nat
    BY <1>1, <1>3, <1>8
  <2>2. BitXor(x.fp, s.sp) = 0
    BY <1>4, <1>8, BitwiseAssumption
  <2>3. checked = unframed
    BY <1>3, <1>5, <1>8, <2>2 DEF Touch
  <2>4. slots \subseteq Slots /\ \A i \in slots : i \in Slots /\ i > s.sp
    <3>1. x.sp = s.sp + n + 1 /\ n \in Nat
      BY <1>1, <1>8
    <3> QED BY <1>3, <3>1 DEF Slots
  <2>5. ClearSlots(x, slots, checked) = checked
    <3> HIDE DEF slots, checked
    <3> QED BY <1>6, <1>8, <1>9, <2>4, ClearSlotsPasses
  <2>6. Rsf(x, n) = ASSERT_POSITIVE(x, n, REQUIRES_PARAMS(x, n + 1, ClearSlots(x, slots, checked)))
    BY <2>1 DEF Rsf
  <2>7. Rsf(x, n) = checked
    <3> HIDE DEF slots, checked
    <3>1. REQUIRES_PARAMS(x, n + 1, checked) = checked
      BY <1>9, <2>1, RequiresPasses
    <3>2. ASSERT_POSITIVE(x, n, checked) = checked
      BY <1>1, <1>9, PositivePasses
    <3> QED BY <2>5, <2>6, <3>1, <3>2
  <2>8. unframed = Becomes(x, s.stack, s.sp, s.fp, x.br, x.memory)
    BY <1>3, <1>8 DEF WithStack, Becomes, VM
  <2> QED BY <1>8, <2>3, <2>7, <2>8
<1> QED BY <1>7, <1>8, <1>10

(* rsf and asf: the slot rsf gave up is where asf writes fp again. *)
LEMMA RsfUndone ==
  ASSUME NEW s, Sound(s), UNSAFE_OPERATIONS = FALSE, NEW n \in Word
  PROVE  Restores(s, Rsf(s, n), Asf(Flip(Rsf(s, n)), n))
<1> SUFFICES ASSUME Rsf(s, n).fault = "none"
             PROVE  Restores(s, Rsf(s, n), Asf(Flip(Rsf(s, n)), n))
  BY DEF Restores
<1> DEFINE base  == s.sp - (n + 1)
           slots == (s.sp - n) .. (s.sp - 1)
           f == [s.stack EXCEPT ![base] = 0]
           p == s.stack[base]
           u == Becomes(s, f, base, p, s.br, s.memory)
           x == Flip(u)
           cleared == BitXor(s.fp, base)
           checked == IF ~UNSAFE_OPERATIONS /\ cleared # 0
                      THEN Throw(s, "domain_error")
                      ELSE Touch(s, {base},
                             [WithStack(s, [s.stack EXCEPT ![base] = cleared], base)
                                EXCEPT !.fp = s.stack[base]])
<1>1. n \in Nat /\ Rsf(s, n) = REQUIRES_PARAMS(s, n + 1, ClearSlots(s, slots, checked))
  <2> HIDE DEF checked, slots
  <2>1. Rsf(s, n) = ASSERT_POSITIVE(s, n, REQUIRES_PARAMS(s, n + 1, ClearSlots(s, slots, checked)))
    BY DEF Rsf, checked, slots
  <2> QED BY <2>1, PositivePasses
<1>2. s.sp >= n + 1 /\ Rsf(s, n) = ClearSlots(s, slots, checked)
  <2>1. n + 1 \in Nat
    BY <1>1
  <2> HIDE DEF checked, slots
  <2> QED BY <1>1, <2>1, RequiresPasses
<1>3. /\ s \in VM /\ s.sp \in Nat /\ s.sp < StackSize /\ StackSize \in Nat
      /\ s.stack \in [Slots -> Word]
      /\ s.fp \in Word /\ s.br \in Word /\ s.memory \in [Addresses -> Word]
  <2>1. s.sp # 0
    BY <1>1, <1>2, SpNat
  <2>2. s.sp \in Nat /\ s.sp < StackSize /\ StackSize \in Nat
    BY <2>1, StackPointer
  <2> QED BY <2>2 DEF Sound, VM
<1>4. /\ base \in Nat /\ base \in Int /\ base \in Slots /\ slots \subseteq Slots
      /\ base + (n + 1) = s.sp
  BY <1>1, <1>2, <1>3 DEF Slots
<1>5. base \in Word /\ p \in Word
  <2>1. base \in Word
    <3> HIDE DEF base
    <3> QED BY <1>4, SizeAssumption, HalfRangeNat DEF Slots, Word
  <2> QED BY <1>3, <1>4, <2>1
<1>6. Rsf(s, n) = checked
  <2> HIDE DEF checked, slots
  <2> QED BY <1>2, <1>4, ClearSlotsPasses
<1>7. cleared = 0
  <2> HIDE DEF base, cleared
  <2> QED BY <1>6, ThrowFault DEF checked
<1>8. s.fp = base
  <2> HIDE DEF base
  <2> QED BY <1>3, <1>5, <1>7, BitwiseAssumption
<1>9. Rsf(s, n) = u
  <2>1. checked = [WithStack(s, f, base) EXCEPT !.fp = p]
    <3> HIDE DEF base, cleared
    <3> QED BY <1>4, <1>7 DEF Touch
  <2>2. [WithStack(s, f, base) EXCEPT !.fp = p] = u
    <3> HIDE DEF base, f, p
    <3> QED BY <1>3 DEF WithStack, Becomes, VM
  <2> QED BY <1>6, <2>1, <2>2
<1>10. f \in [Slots -> Word] /\ [f EXCEPT ![base] = p] = s.stack
  <2> HIDE DEF base
  <2> QED BY <1>3, <1>4, HalfRangeNat DEF Word
<1> HIDE DEF f
<1>11. /\ u \in VM /\ x \in VM
       /\ x.stack = f /\ x.sp = base /\ x.fp = p /\ x.br = s.br /\ x.memory = s.memory
       /\ Restores(s, u, Becomes(x, s.stack, s.sp, s.fp, s.br, s.memory))
  <2>1. u = Becomes(s, f, base, p, s.br, s.memory) /\ x = Flip(u)
    OBVIOUS
  <2>2. /\ s \in VM /\ f \in [Slots -> Word] /\ base \in Int /\ p \in Word
        /\ s.br \in Word /\ s.memory \in [Addresses -> Word]
    BY <1>3, <1>4, <1>5, <1>10
  <2> HIDE DEF base, p, u, x
  <2> QED BY <2>1, <2>2, BecomesRestored
<1>12. Sound(x)
  <2>1. Safe(u)
    BY <1>9, RsfSafe
  <2>2. Sound(u)
    BY <1>9, <2>1 DEF Safe, Failures, Exceptions
  <2> QED BY <2>2, FlipSound
<1>13. Asf(x, n) = Becomes(x, s.stack, s.sp, s.fp, s.br, s.memory)
  <2> DEFINE framed == [WithStack(x, s.stack, s.sp) EXCEPT !.fp = s.fp]
             touched == Touch(x, {x.sp},
                          [WithStack(x, [x.stack EXCEPT ![x.sp] = x.fp], x.sp + n + 1)
                             EXCEPT !.fp = x.sp])
  <2>1. /\ n + 1 \in Nat /\ x.sp + n + 1 = s.sp
        /\ x.sp + (n + 1) < StackSize
    <3> HIDE DEF x, base
    <3> QED BY <1>1, <1>3, <1>4, <1>11
  <2> HIDE DEF x, base, p
  <2>2. touched = framed
    <3>1. [x.stack EXCEPT ![x.sp] = x.fp] = s.stack
      BY <1>10, <1>11
    <3>2. {x.sp} \subseteq Slots
      BY <1>4, <1>11
    <3> QED BY <1>8, <1>11, <2>1, <3>1, <3>2 DEF Touch
  <2>3. PUSHES_VALUES(x, n + 1, touched) = touched
    <3> HIDE DEF touched
    <3> QED BY <1>12, <2>1, PushesPasses
  <2>4. ASSERT_POSITIVE(x, n, touched) = touched
    <3> HIDE DEF touched
    <3> QED BY <1>1, <1>12, PositivePasses
  <2>5. Asf(x, n) = touched
    BY <2>3, <2>4 DEF Asf
  <2>6. framed = Becomes(x, s.stack, s.sp, s.fp, x.br, x.memory)
    BY <1>3, <1>11 DEF WithStack, Becomes, VM
  <2> QED BY <1>11, <2>2, <2>5, <2>6
<1> QED BY <1>9, <1>11, <1>13

(* pushl and popl, unless popl addresses the slot it pops: the slot above  *)
(* the stack is zero and takes the value of the local variable.            *)
LEMMA PushlUndone ==
  ASSUME NEW s, Sound(s), UNSAFE_OPERATIONS = FALSE, NEW n \in Word
  PROVE  Restores(s, Pushl(s, n), Popl(Flip(Pushl(s, n)), n))
<1> SUFFICES ASSUME Pushl(s, n).fault = "none"
             PROVE  Restores(s, Pushl(s, n), Popl(Flip(Pushl(s, n)), n))
  BY DEF Restores
<1> DEFINE i == Local(s, n)
           top == s.sp
           f == Exchange(s.stack, top, i)
           u == WithStack(s, f, s.sp + 1)
           x == Flip(u)
           local == REQUIRES_LOCAL(s, n, Touch(s, {s.sp}, u))
<1>1. s.sp + 1 < StackSize /\ Pushl(s, n) = local
  <2>1. Pushl(s, n) = PUSHES_VALUES(s, 1, local)
    BY DEF Pushl
  <2> HIDE DEF local
  <2> QED BY <2>1, PushesPasses
<1>2. i \in 0 .. (s.sp - 1) /\ local = Touch(s, {s.sp}, u)
  <2> HIDE DEF i, u
  <2> QED BY <1>1, LocalPasses DEF i
<1>3. /\ s \in VM /\ s.sp \in Nat /\ s.sp + 1 \in Int /\ top \in Slots /\ i \in Slots /\ i # top
      /\ s.stack \in [Slots -> Word] /\ s.stack[top] = 0
  <2> HIDE DEF i
  <2> QED BY <1>1, <1>2, StackPointer DEF Slots, Sound
<1>4. Pushl(s, n) = u
  BY <1>1, <1>2, <1>3 DEF Touch
<1>5. f \in [Slots -> Word] /\ Exchange(f, top, i) = s.stack
  <2> HIDE DEF i, top
  <2> QED BY <1>3 DEF Exchange
<1>6. Sound(x) /\ x.sp = s.sp + 1 /\ x.stack = f /\ x.fp = s.fp
  <2>1. Safe(u)
    BY <1>4, LocalAccessSafe
  <2>2. Sound(u)
    BY <1>4, <2>1 DEF Safe, Failures, Exceptions
  <2>3. u \in VM /\ u.sp = s.sp + 1 /\ u.stack = f /\ u.fp = s.fp
    <3> HIDE DEF f
    <3> QED BY <1>3, <1>5, StackAlgebra
  <2> HIDE DEF u
  <2> QED BY <2>2, <2>3, FlipSound, FlipFields
<1>7. Restores(s, u, WithStack(x, s.stack, s.sp))
  <2> HIDE DEF f
  <2> QED BY <1>3, <1>5, StackRestored
<1>8. Popl(x, n) = WithStack(x, s.stack, s.sp)
  <2> HIDE DEF f, x
  <2>1. x.sp >= 1 /\ x.sp - 1 = top /\ Local(x, n) = i
    BY <1>3, <1>6 DEF Local
  <2>2. i \in 0 .. (x.sp - 1)
    <3> HIDE DEF i
    <3> QED BY <1>2, <1>3, <1>6
  <2> HIDE DEF i
  <2>3. [s.stack EXCEPT ![top] = 0] = s.stack
    <3> HIDE DEF top
    <3> QED BY <1>3
  <2>4. 0 \in Word
    BY HalfRangeNat DEF Word
  <2> HIDE DEF top
  <2>5. Clear(x, s.stack, 0) = WithStack(x, s.stack, top)
    <3>1. s.stack[x.sp - 1] = 0 /\ [s.stack EXCEPT ![x.sp - 1] = 0] = s.stack
      BY <1>3, <2>1, <2>3
    <3>2. Clear(x, s.stack, 0) = WithStack(x, [s.stack EXCEPT ![x.sp - 1] = 0], x.sp - 1)
      BY <1>3, <1>6, <2>1, <2>4, <3>1, ClearPasses
    <3> QED BY <2>1, <3>1, <3>2
  <2>6. REQUIRES_LOCAL(x, n, Clear(x, s.stack, 0)) = WithStack(x, s.stack, top)
    BY <1>6, <2>1, <2>2, <2>5, LocalPasses
  <2>7. Popl(x, n) = REQUIRES_PARAMS(x, 1, REQUIRES_LOCAL(x, n, Clear(x, s.stack, 0)))
    BY <1>5, <1>6, <2>1 DEF Popl
  <2> QED BY <1>6, <2>1, <2>6, <2>7, RequiresPasses DEF top
<1> QED BY <1>4, <1>7, <1>8

(* popl and pushl: the two slots are different, so the slot given up is    *)
(* the one that was exchanged.                                             *)
LEMMA PoplUndone ==
  ASSUME NEW s, Sound(s), UNSAFE_OPERATIONS = FALSE, NEW n \in Word,
         Local(s, n) # s.sp - 1
  PROVE  Restores(s, Popl(s, n), Pushl(Flip(Popl(s, n)), n))
<1> SUFFICES ASSUME Popl(s, n).fault = "none"
             PROVE  Restores(s, Popl(s, n), Pushl(Flip(Popl(s, n)), n))
  BY DEF Restores
<1> DEFINE i == Local(s, n)
           top == s.sp - 1
           f == Exchange(s.stack, top, i)
           u == WithStack(s, f, top)
           x == Flip(u)
           cleared == Clear(s, f, 0)
           local == REQUIRES_LOCAL(s, n, cleared)
<1>1. s.sp >= 1 /\ Popl(s, n) = local
  <2>1. Popl(s, n) = REQUIRES_PARAMS(s, 1, local)
    BY DEF Popl
  <2> HIDE DEF local
  <2> QED BY <2>1, RequiresPasses
<1>2. i \in 0 .. (s.sp - 1) /\ local = cleared
  <2> HIDE DEF i, cleared
  <2> QED BY <1>1, LocalPasses DEF i
<1>3. /\ s \in VM /\ s.sp \in Nat /\ top \in Int /\ top \in Slots /\ i \in Slots /\ i # top
      /\ s.stack \in [Slots -> Word] /\ s.sp < StackSize
  <2>1. s.sp # 0
    BY <1>1
  <2>2. s.sp \in Nat /\ s.sp < StackSize /\ StackSize \in Nat
    BY <2>1, StackPointer
  <2>3. i # top
    OBVIOUS
  <2> HIDE DEF i
  <2> QED BY <1>1, <1>2, <2>2, <2>3, StackPointer DEF Slots, Sound
<1>4. f \in [Slots -> Word] /\ Exchange(f, top, i) = s.stack
  <2> HIDE DEF i, top
  <2> QED BY <1>3 DEF Exchange
<1>5. 0 \in Word
  BY HalfRangeNat DEF Word
<1> HIDE DEF f
<1>6. f[top] = 0 /\ cleared = WithStack(s, [f EXCEPT ![top] = 0], top)
  BY <1>1, <1>2, <1>4, <1>5, ClearPasses
<1>7. Popl(s, n) = u
  <2>1. [f EXCEPT ![top] = 0] = f
    <3> HIDE DEF top
    <3> QED BY <1>3, <1>4, <1>6
  <2> QED BY <1>1, <1>2, <1>6, <2>1
<1>8. Sound(x) /\ x.sp = top /\ x.stack = f /\ x.fp = s.fp
  <2>1. Safe(u)
    BY <1>7, LocalAccessSafe
  <2>2. Sound(u)
    BY <1>7, <2>1 DEF Safe, Failures, Exceptions
  <2>3. u \in VM /\ u.sp = top /\ u.stack = f /\ u.fp = s.fp
    <3> HIDE DEF top
    <3> QED BY <1>3, <1>4, StackAlgebra
  <2> HIDE DEF u
  <2> QED BY <2>2, <2>3, FlipSound, FlipFields
<1>9. Restores(s, u, WithStack(x, s.stack, s.sp))
  <2> HIDE DEF top
  <2> QED BY <1>3, <1>4, StackRestored
<1>10. Pushl(x, n) = WithStack(x, s.stack, s.sp)
  <2> HIDE DEF x
  <2>1. x.sp + 1 = s.sp /\ x.sp + 1 < StackSize /\ Local(x, n) = i
    BY <1>3, <1>8 DEF Local
  <2>2. i \in 0 .. (x.sp - 1)
    <3> HIDE DEF i
    <3> QED BY <1>2, <1>3, <1>8
  <2> DEFINE pushed == WithStack(x, s.stack, s.sp)
  <2> HIDE DEF i, top
  <2>3. Touch(x, {x.sp}, WithStack(x, Exchange(x.stack, x.sp, Local(x, n)), x.sp + 1)) = pushed
    BY <1>3, <1>4, <1>8, <2>1 DEF Touch
  <2> HIDE DEF pushed
  <2>4. REQUIRES_LOCAL(x, n, pushed) = pushed
    BY <1>8, <2>1, <2>2, LocalPasses
  <2>5. Pushl(x, n) = PUSHES_VALUES(x, 1, REQUIRES_LOCAL(x, n, pushed))
    BY <2>3 DEF Pushl
  <2> QED BY <1>8, <2>1, <2>4, <2>5, PushesPasses DEF pushed
<1> QED BY <1>7, <1>9, <1>10

-----------------------------------------------------------------------------
(* A branch changes br by the distance that the inverse branch, executed   *)
(* in the other direction, changes back; its condition is still there.     *)
LEMMA BranchUndone ==
  ASSUME NEW s, Sound(s), NEW n \in Word,
         NEW u, u = Branch(s, n), NEW x, x = Flip(u)
  PROVE  Sound(x) /\ x.sp = s.sp /\ x.stack = s.stack /\ Restores(s, u, Branch(x, n))
<1> DEFINE b == IF s.dir = Forward THEN AddW(s.br, n) ELSE SubW(s.br, n)
<1>1. /\ s \in VM /\ s.dir \in {Forward, Backward} /\ s.br \in Word /\ s.sp \in Int
      /\ s.stack \in [Slots -> Word] /\ s.fp \in Word /\ s.memory \in [Addresses -> Word]
  BY DEF Sound, VM
<1>2. b \in Word /\ (IF s.dir = Forward THEN SubW(b, n) ELSE AddW(b, n)) = s.br
  BY <1>1, AddWord, SubWord, AddSub
<1>3. u = [s EXCEPT !.br = b]
  BY DEF Branch
<1> HIDE DEF b
<1>4. u = Becomes(s, s.stack, s.sp, s.fp, b, s.memory)
  BY <1>1, <1>3 DEF Becomes, VM
<1>5. /\ x \in VM /\ x.stack = s.stack /\ x.sp = s.sp /\ x.fp = s.fp /\ x.br = b
      /\ x.memory = s.memory /\ x.dir = -s.dir
      /\ Restores(s, u, Becomes(x, s.stack, s.sp, s.fp, s.br, s.memory))
  <2>1. b \in Word
    BY <1>2
  <2> QED BY <1>1, <1>4, <2>1, BecomesRestored
<1>6. Sound(x)
  BY <1>2, <1>3, RegistersSound, FlipSound
<1>7. Branch(x, n) = [x EXCEPT !.br = s.br]
  BY <1>1, <1>2, <1>5 DEF Branch, Forward, Backward
<1>8. [x EXCEPT !.br = s.br] = Becomes(x, s.stack, s.sp, s.fp, s.br, s.memory)
  BY <1>1, <1>5 DEF Becomes, VM
<1> QED BY <1>5, <1>6, <1>7, <1>8

(* A conditional branch finds the same condition on the stack. *)
LEMMA BranchIfRestored ==
  ASSUME NEW s, Sound(s), UNSAFE_OPERATIONS = FALSE, NEW n \in Word, NEW c
  PROVE  Restores(s, BranchIf(s, n, c), BranchIf(Flip(BranchIf(s, n, c)), n, c))
<1> SUFFICES ASSUME BranchIf(s, n, c).fault = "none"
             PROVE  Restores(s, BranchIf(s, n, c), BranchIf(Flip(BranchIf(s, n, c)), n, c))
  BY DEF Restores
<1>1. s.sp >= 1 /\ BranchIf(s, n, c) = IF Top(s) = c THEN Branch(s, n) ELSE s
  BY RequiresPasses DEF BranchIf
<1>2. CASE Top(s) = c
  <2> DEFINE x == Flip(Branch(s, n))
  <2>1. Sound(x) /\ x.sp = s.sp /\ x.stack = s.stack /\ Restores(s, Branch(s, n), Branch(x, n))
    BY BranchUndone
  <2> HIDE DEF x
  <2>2. Top(x) = c
    BY <1>2, <2>1 DEF Top
  <2>3. BranchIf(x, n, c) = Branch(x, n)
    BY <1>1, <2>1, <2>2, RequiresPasses DEF BranchIf
  <2> QED BY <1>1, <1>2, <2>1, <2>3 DEF x
<1>3. CASE Top(s) # c
  <2>1. s \in VM
    BY DEF Sound
  <2>2. Sound(Flip(s)) /\ Flip(s).sp = s.sp /\ Top(Flip(s)) = Top(s)
    BY <2>1, FlipSound, FlipFields DEF Top
  <2>3. BranchIf(Flip(s), n, c) = Flip(s)
    BY <1>1, <1>3, <2>2, RequiresPasses DEF BranchIf
  <2> QED BY <1>1, <1>3, <2>1, <2>3 DEF Restores
<1> QED BY <1>2, <1>3

(* call exchanges br with the top of the stack. *)
LEMMA CallRestored ==
  ASSUME NEW s, Sound(s), UNSAFE_OPERATIONS = FALSE
  PROVE  Restores(s, Call(s), Call(Flip(Call(s))))
<1> SUFFICES ASSUME Call(s).fault = "none"
             PROVE  Restores(s, Call(s), Call(Flip(Call(s))))
  BY DEF Restores
<1> DEFINE top == s.sp - 1
           f == [s.stack EXCEPT ![top] = s.br]
           b == s.stack[top]
           u == Becomes(s, f, s.sp, s.fp, b, s.memory)
           x == Flip(u)
<1>1. s.sp >= 1 /\ Call(s) = [SetTop(s, s.br) EXCEPT !.br = Top(s)]
  BY RequiresPasses DEF Call
<1>2. /\ s \in VM /\ s.sp \in Int /\ s.stack \in [Slots -> Word] /\ s.fp \in Word
      /\ s.br \in Word /\ s.memory \in [Addresses -> Word]
  BY DEF Sound, VM
<1>3. top \in Slots
  <2>1. 1 \in 1 .. s.sp
    BY <1>1, SpNat
  <2> QED BY <2>1, StackPointer
<1>4. f \in [Slots -> Word] /\ f[top] = s.br /\ [f EXCEPT ![top] = b] = s.stack /\ b \in Word
  <2> HIDE DEF top
  <2> QED BY <1>2, <1>3
<1> HIDE DEF f, b
<1>5. Call(s) = u
  <2>1. Call(s) = [WithStack(s, f, s.sp) EXCEPT !.br = b]
    BY <1>1 DEF SetTop, Top, f, b
  <2>2. [WithStack(s, f, s.sp) EXCEPT !.br = b] = u
    BY <1>2 DEF WithStack, Becomes, VM
  <2> QED BY <2>1, <2>2
<1>6. Sound(x)
  <2>1. 0 \in Word
    BY HalfRangeNat DEF Word
  <2>2. Safe(u)
    BY <1>5, <2>1, TransferSafe
  <2>3. Sound(u)
    BY <1>5, <2>2 DEF Safe, Failures, Exceptions
  <2> QED BY <2>3, FlipSound
<1>7. /\ x \in VM /\ x.stack = f /\ x.sp = s.sp /\ x.fp = s.fp /\ x.br = b
      /\ x.memory = s.memory
      /\ Restores(s, u, Becomes(x, s.stack, s.sp, s.fp, s.br, s.memory))
  <2>1. u = Becomes(s, f, s.sp, s.fp, b, s.memory) /\ x = Flip(u)
    OBVIOUS
  <2>2. /\ s \in VM /\ f \in [Slots -> Word] /\ s.sp \in Int /\ s.fp \in Word
        /\ b \in Word /\ s.memory \in [Addresses -> Word]
    BY <1>2, <1>4
  <2> HIDE DEF u, x
  <2> QED BY <2>1, <2>2, BecomesRestored
<1> HIDE DEF x
<1>8. Call(x) = [SetTop(x, x.br) EXCEPT !.br = Top(x)]
  BY <1>1, <1>6, <1>7, RequiresPasses DEF Call
<1>9. SetTop(x, x.br) = WithStack(x, s.stack, s.sp) /\ Top(x) = s.br
  BY <1>4, <1>7 DEF SetTop, Top
<1>10. [WithStack(x, s.stack, s.sp) EXCEPT !.br = s.br] =
         Becomes(x, s.stack, s.sp, s.fp, s.br, s.memory)
  BY <1>2, <1>7 DEF WithStack, Becomes, VM
<1> QED BY <1>5, <1>7, <1>8, <1>9, <1>10 DEF x

(* uncall turns round itself: it negates what it exchanges, and a second   *)
(* uncall in the direction of the first brings everything back.            *)
LEMMA UncallUndone ==
  ASSUME NEW s, Sound(s), UNSAFE_OPERATIONS = FALSE, Uncall(s).fault = "none"
  PROVE  /\ Uncall(s) \in VM /\ Uncall(s).pc = s.pc
         /\ Uncall(Flip(Uncall(s))) = Flip(s)
<1> DEFINE top == s.sp - 1
           f == [s.stack EXCEPT ![top] = NegW(s.br)]
           b == NegW(s.stack[top])
           x == Becomes(s, f, s.sp, s.fp, b, s.memory)
<1>1. s.sp >= 1 /\ Uncall(s) = [SetTop(s, NegW(s.br)) EXCEPT !.br = NegW(Top(s)), !.dir = -@]
  BY RequiresPasses DEF Uncall
<1>2. /\ s \in VM /\ s.sp \in Int /\ s.stack \in [Slots -> Word] /\ s.fp \in Word
      /\ s.br \in Word /\ s.memory \in [Addresses -> Word] /\ s.dir \in {Forward, Backward}
  BY DEF Sound, VM
<1>3. top \in Slots
  <2>1. 1 \in 1 .. s.sp
    BY <1>1, SpNat
  <2> QED BY <2>1, StackPointer
<1>4. /\ NegW(s.br) \in Word /\ NegW(NegW(s.br)) = s.br
      /\ b \in Word /\ NegW(b) = s.stack[top]
  <2> HIDE DEF top
  <2>1. s.stack[top] \in Word
    BY <1>2, <1>3
  <2> QED BY <1>2, <2>1, NegWord, NegNeg
<1>5. f \in [Slots -> Word] /\ f[top] = NegW(s.br) /\ [f EXCEPT ![top] = s.stack[top]] = s.stack
  <2> HIDE DEF top
  <2> QED BY <1>2, <1>3, <1>4
<1> HIDE DEF f, b
<1>6. Uncall(s) = [WithStack(s, f, s.sp) EXCEPT !.br = b, !.dir = -@]
  BY <1>1 DEF SetTop, Top, f, b
<1>7. x \in VM /\ x.stack = f /\ x.sp = s.sp /\ x.fp = s.fp /\ x.br = b /\ x.memory = s.memory
      /\ x.pc = s.pc /\ x.dir = s.dir /\ x.running = s.running /\ x.fault = s.fault
  BY <1>2, <1>4, <1>5 DEF Becomes, VM
<1>8. Uncall(s) = Flip(x)
  BY <1>2, <1>6 DEF WithStack, Becomes, Flip, VM
<1> HIDE DEF x
<1>9. Uncall(s) \in VM /\ Uncall(s).pc = s.pc /\ Flip(Uncall(s)) = x
  BY <1>7, <1>8, FlipFields
<1>10. Sound(x)
  <2>1. 0 \in Word
    BY HalfRangeNat DEF Word
  <2>2. Safe(Uncall(s))
    BY <2>1, TransferSafe
  <2>3. Sound(Uncall(s))
    BY <2>2 DEF Safe, Failures, Exceptions
  <2> QED BY <1>9, <2>3, FlipSound
<1>11. Uncall(x) = [SetTop(x, NegW(x.br)) EXCEPT !.br = NegW(Top(x)), !.dir = -@]
  BY <1>1, <1>7, <1>10, RequiresPasses DEF Uncall
<1>12. SetTop(x, NegW(x.br)) = WithStack(x, s.stack, s.sp) /\ NegW(Top(x)) = s.br
  BY <1>4, <1>5, <1>7 DEF SetTop, Top
<1> DEFINE v == [WithStack(x, s.stack, s.sp) EXCEPT !.br = s.br, !.dir = -@]
<1>13. v = Flip(s)
  <2> DEFINE y == WithStack(x, s.stack, s.sp)
  <2>0. /\ y \in VM /\ y.dir = s.dir /\ y.pc = s.pc /\ y.sp = s.sp /\ y.fp = s.fp
        /\ y.memory = s.memory /\ y.stack = s.stack /\ y.running = s.running
        /\ y.fault = s.fault
    BY <1>2, <1>7, StackAlgebra
  <2> HIDE DEF y
  <2>1. /\ v.dir = -s.dir /\ v.pc = s.pc /\ v.br = s.br /\ v.sp = s.sp
        /\ v.fp = s.fp /\ v.memory = s.memory /\ v.stack = s.stack
        /\ v.running = s.running /\ v.fault = s.fault /\ v \in VM
    <3>1. v = [y EXCEPT !.br = s.br, !.dir = -@]
      BY DEF y
    <3>2. -s.dir \in {Forward, Backward}
      BY <1>2 DEF Forward, Backward
    <3> HIDE DEF v
    <3> QED BY <1>2, <2>0, <3>1, <3>2 DEF VM
  <2> HIDE DEF v
  <2> QED BY <1>2, <2>1, FlipFields, SameMachine
<1> QED BY <1>9, <1>11, <1>12, <1>13

-----------------------------------------------------------------------------
(* The heap.  The cell at an address and the slot above the stack, which   *)
(* is zero, are exchanged, and exchanged back.                             *)
LEMMA PushFromUndone ==
  ASSUME NEW s, Sound(s), UNSAFE_OPERATIONS = FALSE, s.sp + 1 < StackSize,
         NEW a, Sound(PushFrom(s, a)), PushFrom(s, a).fault = "none",
         NEW x, x = Flip(PushFrom(s, a))
  PROVE  /\ Sound(x) /\ x.sp = s.sp + 1
         /\ s.sp >= 1 => Under(x) = Top(s)
         /\ Restores(s, PushFrom(s, a), PopInto(x, a))
<1> DEFINE top == s.sp
           m == s.sp + 1
           c == s.memory[a]
           f == [s.stack EXCEPT ![top] = c]
           h == [s.memory EXCEPT ![a] = 0]
           u == Becomes(s, f, m, s.fp, s.br, h)
           back == Becomes(x, s.stack, s.sp, s.fp, s.br, s.memory)
<1>1. /\ s \in VM /\ s.sp \in Nat /\ m \in Int /\ m >= 1 /\ top \in Slots
      /\ s.stack \in [Slots -> Word] /\ s.stack[top] = 0
      /\ s.fp \in Word /\ s.br \in Word /\ s.memory \in [Addresses -> Word]
      /\ s.sp >= 1 => s.sp - 1 \in Slots /\ s.sp - 1 # top
  BY StackPointer DEF Sound, VM, Slots
<1>2. a \in Addresses
  BY MemoryPasses DEF PushFrom
<1>3. 0 \in Word /\ c \in Word
  BY <1>1, <1>2, HalfRangeNat DEF Word
<1>4. /\ f \in [Slots -> Word] /\ f[top] = c /\ [f EXCEPT ![top] = 0] = s.stack
      /\ s.sp >= 1 => f[s.sp - 1] = s.stack[s.sp - 1]
  <2> HIDE DEF c
  <2> QED BY <1>1, <1>3
<1>5. h \in [Addresses -> Word] /\ h[a] = 0 /\ [h EXCEPT ![a] = c] = s.memory
  BY <1>1, <1>2, <1>3
<1>6. PushFrom(s, a) = u
  <2>1. PushFrom(s, a) = [WithStack(s, f, m) EXCEPT !.memory[a] = 0]
    BY <1>1, <1>2, MemoryPasses DEF PushFrom, Touch
  <2> HIDE DEF f, m
  <2>2. [WithStack(s, f, m) EXCEPT !.memory[a] = 0] = u
    BY <1>1, <1>2, <1>4 DEF WithStack, Becomes, VM
  <2> QED BY <2>1, <2>2
<1> HIDE DEF f, h
<1>7. /\ x \in VM /\ x.stack = f /\ x.sp = m /\ x.fp = s.fp /\ x.br = s.br /\ x.memory = h
      /\ Restores(s, u, back)
  <2>1. u = Becomes(s, f, m, s.fp, s.br, h) /\ x = Flip(u)
    BY <1>6
  <2>2. /\ s \in VM /\ f \in [Slots -> Word] /\ m \in Int /\ s.fp \in Word
        /\ s.br \in Word /\ h \in [Addresses -> Word]
    BY <1>1, <1>4, <1>5
  <2> HIDE DEF u, m
  <2> QED BY <2>1, <2>2, BecomesRestored
<1>8. Sound(x)
  BY FlipSound
<1>9. x.sp >= 1 /\ x.sp - 1 = top /\ Top(x) = c
  BY <1>1, <1>4, <1>7 DEF Top
<1>10. s.sp >= 1 => Under(x) = Top(s)
  BY <1>1, <1>4, <1>7 DEF Under, Top
<1> DEFINE r == [x EXCEPT !.memory[a] = c]
<1>11. Sound(r) /\ r.sp = x.sp
  <2> HIDE DEF c
  <2>1. Sound(r)
    BY <1>2, <1>3, <1>8, RegistersSound
  <2> QED BY <1>7, <2>1 DEF VM
<1>12. PopInto(x, a) = Clear(r, s.stack, 0)
  <2>1. [x.stack EXCEPT ![x.sp - 1] = x.memory[a]] = s.stack
    BY <1>4, <1>5, <1>7, <1>9
  <2> HIDE DEF c
  <2> QED BY <1>2, <1>8, <1>9, <2>1, MemoryPasses DEF PopInto
<1>13. Clear(r, s.stack, 0) = WithStack(r, s.stack, top)
  <2> HIDE DEF r
  <2>1. r.sp >= 1 /\ r.sp - 1 = top
    BY <1>9, <1>11
  <2> HIDE DEF top
  <2>2. s.stack[r.sp - 1] = 0 /\ [s.stack EXCEPT ![r.sp - 1] = 0] = s.stack
    BY <1>1, <2>1
  <2>3. Clear(r, s.stack, 0) = WithStack(r, [s.stack EXCEPT ![r.sp - 1] = 0], r.sp - 1)
    BY <1>1, <1>3, <1>11, <2>1, <2>2, ClearPasses
  <2> QED BY <2>1, <2>2, <2>3
<1>14. WithStack(r, s.stack, top) = back
  <2> HIDE DEF c
  <2>1. WithStack(r, s.stack, top) =
          Becomes(x, s.stack, s.sp, x.fp, x.br, [x.memory EXCEPT ![a] = c])
    BY <1>1, <1>2, <1>7 DEF WithStack, Becomes, VM
  <2> QED BY <1>5, <1>7, <2>1
<1> QED BY <1>6, <1>7, <1>8, <1>10, <1>12, <1>13, <1>14

(* And the other way round: the cell is zero when the pop succeeds.        *)
LEMMA PopIntoUndone ==
  ASSUME NEW s, Sound(s), UNSAFE_OPERATIONS = FALSE, s.sp >= 1,
         NEW a, Sound(PopInto(s, a)), PopInto(s, a).fault = "none",
         NEW x, x = Flip(PopInto(s, a))
  PROVE  /\ Sound(x) /\ x.sp = s.sp - 1 /\ x.sp + 1 < StackSize
         /\ s.sp >= 2 => Top(x) = Under(s)
         /\ Restores(s, PopInto(s, a), PushFrom(x, a))
<1> DEFINE top == s.sp - 1
           w == s.stack[top]
           f == [s.stack EXCEPT ![top] = 0]
           h == [s.memory EXCEPT ![a] = w]
           u == Becomes(s, f, top, s.fp, s.br, h)
           back == Becomes(x, s.stack, s.sp, s.fp, s.br, s.memory)
           r == [s EXCEPT !.memory[a] = w]
           g == [s.stack EXCEPT ![top] = s.memory[a]]
<1>1. /\ s \in VM /\ s.sp \in Nat /\ s.sp \in Int /\ top \in Int /\ top \in Slots
      /\ s.sp < StackSize /\ s.stack \in [Slots -> Word]
      /\ s.fp \in Word /\ s.br \in Word /\ s.memory \in [Addresses -> Word]
      /\ s.sp >= 2 => s.sp - 2 \in Slots /\ s.sp - 2 # top
  <2>1. s.sp # 0
    OBVIOUS
  <2>2. s.sp \in Nat /\ s.sp < StackSize /\ StackSize \in Nat
    BY <2>1, StackPointer
  <2> QED BY <2>2 DEF Sound, VM, Slots
<1>2. a \in Addresses
  BY MemoryPasses DEF PopInto
<1>3. 0 \in Word /\ w \in Word /\ s.memory[a] \in Word
  <2> HIDE DEF top
  <2> QED BY <1>1, <1>2, HalfRangeNat DEF Word
<1>4. Sound(r) /\ r.sp = s.sp
  <2> HIDE DEF w
  <2>1. Sound(r)
    BY <1>2, <1>3, RegistersSound
  <2> QED BY <1>1, <2>1 DEF VM
<1>5. PopInto(s, a) = Clear(r, g, 0)
  BY <1>2, MemoryPasses DEF PopInto, Top
<1>6. g \in [Slots -> Word] /\ g[top] = s.memory[a] /\ [g EXCEPT ![top] = 0] = f
  <2> HIDE DEF top
  <2> QED BY <1>1, <1>3
<1>7. s.memory[a] = 0 /\ Clear(r, g, 0) = WithStack(r, f, top)
  <2> HIDE DEF r, g, f
  <2>1. r.sp >= 1 /\ r.sp - 1 = top
    BY <1>4
  <2> HIDE DEF top
  <2>2. g[top] = 0 /\ Clear(r, g, 0) = WithStack(r, [g EXCEPT ![r.sp - 1] = 0], r.sp - 1)
    BY <1>3, <1>4, <1>5, <1>6, <2>1, ClearPasses
  <2> QED BY <1>6, <2>1, <2>2
<1>8. /\ f \in [Slots -> Word] /\ [f EXCEPT ![top] = w] = s.stack
      /\ s.sp >= 2 => f[s.sp - 2] = s.stack[s.sp - 2]
  BY <1>1, <1>3
<1>9. /\ h \in [Addresses -> Word] /\ h[a] = w /\ [h EXCEPT ![a] = 0] = s.memory
  <2> HIDE DEF w
  <2> QED BY <1>1, <1>2, <1>3, <1>7
<1>10. f[top] = 0
  <2> HIDE DEF top
  <2> QED BY <1>1
<1> HIDE DEF f
<1>11. PopInto(s, a) = u
  <2> HIDE DEF top, w
  <2>1. WithStack(r, f, top) = u
    BY <1>1, <1>2, <1>8 DEF WithStack, Becomes, VM
  <2> QED BY <1>5, <1>7, <2>1
<1> HIDE DEF h
<1>12. /\ x \in VM /\ x.stack = f /\ x.sp = top /\ x.fp = s.fp /\ x.br = s.br /\ x.memory = h
       /\ Restores(s, u, back)
  <2>1. u = Becomes(s, f, top, s.fp, s.br, h) /\ x = Flip(u)
    BY <1>11
  <2>2. /\ s \in VM /\ f \in [Slots -> Word] /\ top \in Int /\ s.fp \in Word
        /\ s.br \in Word /\ h \in [Addresses -> Word]
    BY <1>1, <1>8, <1>9
  <2> HIDE DEF u, top
  <2> QED BY <2>1, <2>2, BecomesRestored
<1>13. Sound(x)
  BY FlipSound
<1>14. x.sp + 1 = s.sp /\ x.sp + 1 < StackSize
  BY <1>1, <1>12
<1>15. s.sp >= 2 => Top(x) = Under(s)
  BY <1>1, <1>8, <1>12 DEF Under, Top
<1>16. PushFrom(x, a) = [WithStack(x, s.stack, s.sp) EXCEPT !.memory[a] = 0]
  <2> HIDE DEF top, w
  <2>1. [x.stack EXCEPT ![x.sp] = x.memory[a]] = s.stack /\ x.stack[x.sp] = 0 /\ x.sp \in Slots
    BY <1>1, <1>8, <1>9, <1>10, <1>12
  <2> QED BY <1>2, <1>13, <1>14, <2>1, MemoryPasses DEF PushFrom, Touch
<1>17. [WithStack(x, s.stack, s.sp) EXCEPT !.memory[a] = 0] = back
  <2>1. [WithStack(x, s.stack, s.sp) EXCEPT !.memory[a] = 0] =
          Becomes(x, s.stack, s.sp, x.fp, x.br, [x.memory EXCEPT ![a] = 0])
    BY <1>1, <1>2, <1>12 DEF WithStack, Becomes, VM
  <2> QED BY <1>9, <1>12, <2>1
<1> QED BY <1>11, <1>12, <1>13, <1>14, <1>15, <1>16, <1>17

(* pushm and popm. *)
LEMMA CellRestored ==
  ASSUME NEW s, Sound(s), UNSAFE_OPERATIONS = FALSE, NEW n \in Word
  PROVE  /\ Restores(s, Pushm(s, n), Popm(Flip(Pushm(s, n)), n))
         /\ Restores(s, Popm(s, n), Pushm(Flip(Popm(s, n)), n))
<1>1. ASSUME Pushm(s, n).fault = "none"
      PROVE  Restores(s, Pushm(s, n), Popm(Flip(Pushm(s, n)), n))
  <2> DEFINE x == Flip(PushFrom(s, n))
  <2>1. s.sp + 1 < StackSize /\ Pushm(s, n) = PushFrom(s, n)
    BY <1>1, PushesPasses DEF Pushm
  <2>2. Sound(PushFrom(s, n))
    BY <1>1, <2>1, HeapSafe DEF Safe, Failures, Exceptions
  <2>3. Sound(x) /\ x.sp = s.sp + 1 /\ Restores(s, PushFrom(s, n), PopInto(x, n))
    BY <1>1, <2>1, <2>2, PushFromUndone
  <2> HIDE DEF x
  <2>4. x.sp >= 1
    BY <2>3, SpNat
  <2>5. Popm(x, n) = PopInto(x, n)
    BY <2>3, <2>4, RequiresPasses DEF Popm
  <2> QED BY <2>1, <2>3, <2>5 DEF x
<1>2. ASSUME Popm(s, n).fault = "none"
      PROVE  Restores(s, Popm(s, n), Pushm(Flip(Popm(s, n)), n))
  <2> DEFINE x == Flip(PopInto(s, n))
  <2>1. s.sp >= 1 /\ Popm(s, n) = PopInto(s, n)
    BY <1>2, RequiresPasses DEF Popm
  <2>2. Sound(PopInto(s, n))
    BY <1>2, <2>1, HeapSafe DEF Safe, Failures, Exceptions
  <2>3. Sound(x) /\ x.sp + 1 < StackSize /\ Restores(s, PopInto(s, n), PushFrom(x, n))
    BY <1>2, <2>1, <2>2, PopIntoUndone
  <2> HIDE DEF x
  <2>4. Pushm(x, n) = PushFrom(x, n)
    BY <2>3, PushesPasses DEF Pushm
  <2> QED BY <2>1, <2>3, <2>4 DEF x
<1> QED BY <1>1, <1>2 DEF Restores

(* load and store: the value that gives the address stays below. *)
LEMMA LoadRestored ==
  ASSUME NEW s, Sound(s), UNSAFE_OPERATIONS = FALSE, NEW n \in Word
  PROVE  /\ Restores(s, Load(s, n), Store(Flip(Load(s, n)), n))
         /\ Restores(s, Store(s, n), Load(Flip(Store(s, n)), n))
<1>1. ASSUME Load(s, n).fault = "none"
      PROVE  Restores(s, Load(s, n), Store(Flip(Load(s, n)), n))
  <2> DEFINE a == AddW(Top(s), n)
             x == Flip(PushFrom(s, a))
             loads == REQUIRES_PARAMS(s, 1, PushFrom(s, a))
  <2>1. s.sp + 1 < StackSize /\ Load(s, n) = loads
    <3>1. Load(s, n) = PUSHES_VALUES(s, 1, loads)
      BY DEF Load
    <3> HIDE DEF loads
    <3> QED BY <1>1, <3>1, PushesPasses
  <2>2. s.sp >= 1 /\ loads = PushFrom(s, a)
    <3> HIDE DEF a
    <3> QED BY <1>1, <2>1, RequiresPasses
  <2>3. Sound(PushFrom(s, a))
    BY <1>1, <2>1, <2>2, HeapSafe DEF Safe, Failures, Exceptions
  <2>4. Sound(x) /\ x.sp = s.sp + 1 /\ Under(x) = Top(s) /\ Restores(s, PushFrom(s, a), PopInto(x, a))
    <3> HIDE DEF a
    <3> QED BY <1>1, <2>1, <2>2, <2>3, PushFromUndone
  <2> HIDE DEF x
  <2>5. x.sp >= 2
    BY <2>2, <2>4, SpNat
  <2>6. Store(x, n) = PopInto(x, a)
    BY <2>4, <2>5, RequiresPasses DEF Store
  <2> QED BY <2>1, <2>2, <2>4, <2>6 DEF x
<1>2. ASSUME Store(s, n).fault = "none"
      PROVE  Restores(s, Store(s, n), Load(Flip(Store(s, n)), n))
  <2> DEFINE a == AddW(Under(s), n)
             x == Flip(PopInto(s, a))
  <2>1. s.sp >= 2 /\ Store(s, n) = PopInto(s, a)
    BY <1>2, RequiresPasses DEF Store
  <2>2. s.sp >= 1
    BY <2>1, SpNat
  <2>3. Sound(PopInto(s, a))
    BY <1>2, <2>1, HeapSafe DEF Safe, Failures, Exceptions
  <2>4. /\ Sound(x) /\ x.sp = s.sp - 1 /\ x.sp + 1 < StackSize /\ Top(x) = Under(s)
        /\ Restores(s, PopInto(s, a), PushFrom(x, a))
    <3> HIDE DEF a
    <3> QED BY <1>2, <2>1, <2>2, <2>3, PopIntoUndone
  <2> HIDE DEF x
  <2>5. x.sp >= 1
    BY <2>1, <2>4, SpNat
  <2>6. Load(x, n) = PushFrom(x, a)
    <3>1. Load(x, n) = PUSHES_VALUES(x, 1, REQUIRES_PARAMS(x, 1, PushFrom(x, a)))
      BY <2>4 DEF Load
    <3> HIDE DEF a
    <3> QED BY <2>4, <2>5, <3>1, RequiresPasses, PushesPasses
  <2> QED BY <2>1, <2>4, <2>6 DEF x
<1> QED BY <1>1, <1>2 DEF Restores

(* memswap exchanges the same two cells again. *)
LEMMA MemswapRestored ==
  ASSUME NEW s, Sound(s), UNSAFE_OPERATIONS = FALSE, NEW n \in Word
  PROVE  Restores(s, Memswap(s, n), Memswap(Flip(Memswap(s, n)), n))
<1> SUFFICES ASSUME Memswap(s, n).fault = "none"
             PROVE  Restores(s, Memswap(s, n), Memswap(Flip(Memswap(s, n)), n))
  BY DEF Restores
<1> DEFINE a == AddW(Top(s), n)
           b == AddW(Under(s), n)
           h == Exchange(s.memory, a, b)
           u == Becomes(s, s.stack, s.sp, s.fp, s.br, h)
           x == Flip(u)
           swapped == [s EXCEPT !.memory = Exchange(@, a, b)]
           checked == MemoryAt(s, a, MemoryAt(s, b, swapped))
<1>1. s.sp >= 2 /\ Memswap(s, n) = checked
  <2>1. Memswap(s, n) = REQUIRES_PARAMS(s, 2, checked)
    BY DEF Memswap
  <2> HIDE DEF checked
  <2> QED BY <2>1, RequiresPasses
<1>2. a \in Addresses /\ b \in Addresses /\ checked = swapped
  <2> HIDE DEF a, b, swapped
  <2> QED BY <1>1, MemoryPasses
<1>3. /\ s \in VM /\ s.sp \in Int /\ s.stack \in [Slots -> Word] /\ s.fp \in Word
      /\ s.br \in Word /\ s.memory \in [Addresses -> Word]
  BY DEF Sound, VM
<1>4. h \in [Addresses -> Word] /\ Exchange(h, a, b) = s.memory
  <2> HIDE DEF a, b
  <2> QED BY <1>2, <1>3 DEF Exchange
<1>5. Memswap(s, n) = u
  <2>1. swapped = u
    <3> HIDE DEF a, b
    <3> QED BY <1>3 DEF Becomes, VM
  <2> QED BY <1>1, <1>2, <2>1
<1> HIDE DEF h
<1>6. Sound(x)
  <2>1. Safe(u)
    BY <1>5, HeapSafe
  <2>2. Sound(u)
    BY <1>5, <2>1 DEF Safe, Failures, Exceptions
  <2> QED BY <2>2, FlipSound
<1>7. /\ x \in VM /\ x.stack = s.stack /\ x.sp = s.sp /\ x.fp = s.fp /\ x.br = s.br
      /\ x.memory = h
      /\ Restores(s, u, Becomes(x, s.stack, s.sp, s.fp, s.br, s.memory))
  <2>1. u = Becomes(s, s.stack, s.sp, s.fp, s.br, h) /\ x = Flip(u)
    OBVIOUS
  <2>2. /\ s \in VM /\ s.stack \in [Slots -> Word] /\ s.sp \in Int /\ s.fp \in Word
        /\ s.br \in Word /\ h \in [Addresses -> Word]
    BY <1>3, <1>4
  <2> HIDE DEF u, x
  <2> QED BY <2>1, <2>2, BecomesRestored
<1> HIDE DEF x
<1> DEFINE again == [x EXCEPT !.memory = s.memory]
<1>8. Memswap(x, n) = again
  <2>1. AddW(Top(x), n) = a /\ AddW(Under(x), n) = b
    BY <1>7 DEF Top, Under
  <2> HIDE DEF a, b
  <2>2. [x EXCEPT !.memory = Exchange(@, a, b)] = again
    BY <1>4, <1>7
  <2>3. Memswap(x, n) = REQUIRES_PARAMS(x, 2, MemoryAt(x, a, MemoryAt(x, b, again)))
    BY <2>1, <2>2 DEF Memswap
  <2> HIDE DEF again
  <2>4. MemoryAt(x, a, MemoryAt(x, b, again)) = again
    BY <1>2, <1>6, MemoryPasses
  <2>5. x.sp >= 2
    BY <1>1, <1>7
  <2> QED BY <1>6, <2>3, <2>4, <2>5, RequiresPasses
<1>9. again = Becomes(x, s.stack, s.sp, s.fp, s.br, s.memory)
  BY <1>3, <1>7 DEF Becomes, VM
<1> QED BY <1>5, <1>7, <1>8, <1>9 DEF x

-----------------------------------------------------------------------------
(* From instructions to steps.  The machine that has turned round finds    *)
(* the instruction it executed, and takes it for its inverse.              *)
Mirrors(s, x) ==
  /\ Fetch(x) = Fetch(s) /\ Operand(x) = Operand(s)
  /\ \A op : At(s, op) => At(x, op)
  /\ \A op : (Fw(s, op) => Bw(x, op)) /\ (Bw(s, op) => Fw(x, op))

(* It finds it because pc is the same. *)
LEMMA FetchMirrored ==
  ASSUME NEW s \in VM, NEW x \in VM, x.pc = s.pc
  PROVE  /\ Fetch(x) = Fetch(s) /\ Operand(x) = Operand(s)
         /\ \A op : At(s, op) => At(x, op)
         /\ x.dir = -s.dir => Mirrors(s, x)
<1>1. Fetch(x) = Fetch(s) /\ (Fetches(x) <=> Fetches(s))
  BY DEF Fetch, Fetches
<1>2. Operand(x) = Operand(s) /\ \A op : At(s, op) <=> At(x, op)
  BY <1>1 DEF Operand, At
<1>3. x.dir = -s.dir => (x.dir = Backward <=> s.dir # Backward)
  BY DEF VM, Forward, Backward
<1>4. x.dir = -s.dir => \A op : (Fw(s, op) => Bw(x, op)) /\ (Bw(s, op) => Fw(x, op))
  BY <1>1, <1>2, <1>3 DEF Fw, Bw
<1> QED BY <1>1, <1>2, <1>4 DEF Mirrors

(* The step that undoes a step whose instruction is undone.                *)
LEMMA StepMirrored ==
  ASSUME NEW s \in VM, s.fault = "none", NEW u, u.fault = "none" => u \in VM,
         NEW t, t = After(s, u), t.fault = "none"
  PROVE  /\ u.fault = "none" /\ u \in VM
         /\ invert_vm_direction(t) = Flip(u)
         /\ invert_vm_direction(s) = After(Flip(u), Flip(s))
<1>1. u.fault = "none"
  BY DEF After, Throw, VM
<1>2. t = step_pc(u) /\ u \in VM
  BY <1>1 DEF After
<1>3. invert_vm_direction(t) = Flip(u)
  BY <1>2, BackToInstruction DEF invert_vm_direction, Flip
<1>4. invert_vm_direction(s) = After(Flip(u), Flip(s))
  BY FlipFields DEF invert_vm_direction, Flip, After
<1> QED BY <1>1, <1>2, <1>3, <1>4

(* What the cases of the theorem below use: v, the result of the inverse   *)
(* instruction in the machine that has turned round, is the outcome of a   *)
(* step of that machine.                                                   *)
LEMMA Undoing ==
  ASSUME NEW s \in VM, s.fault = "none", NEW u, NEW v, Restores(s, u, v),
         NEW t, t = After(s, u), t.fault = "none"
  PROVE  /\ invert_vm_direction(t) = Flip(u)
         /\ invert_vm_direction(s) = After(Flip(u), v)
         /\ Mirrors(s, Flip(u))
<1>1. u.fault = "none" => u \in VM /\ u.pc = s.pc /\ u.dir = s.dir /\ v = Flip(s)
  BY DEF Restores
<1>2. /\ u.fault = "none" /\ u \in VM
      /\ invert_vm_direction(t) = Flip(u)
      /\ invert_vm_direction(s) = After(Flip(u), Flip(s))
  BY <1>1, StepMirrored
<1>3. Mirrors(s, Flip(u))
  BY <1>1, <1>2, FlipFields, FetchMirrored
<1> QED BY <1>1, <1>2, <1>3

-----------------------------------------------------------------------------
(* The families of instructions, one lemma each.  Undoable says what a     *)
(* step starts from.                                                       *)
Undoable(s, t) ==
  /\ Sound(s) /\ s.fault = "none" /\ t.fault = "none"
  /\ program \in Seq(Instruction)
  /\ UNSAFE_OPERATIONS = FALSE /\ StackSize # 0

(* start, stop and nop. *)
LEMMA UndoRunning ==
  ASSUME NEW s, NEW t, Undoable(s, t), RunningInstruction(s, t)
  PROVE  RunningInstruction(invert_vm_direction(t), invert_vm_direction(s))
<1>1. s \in VM /\ s.fault = "none" /\ t.fault = "none"
  BY DEF Undoable, Sound
<1>2. CASE Fw(s, "start") /\ t = After(s, Start(s))
  <2>1. Restores(s, Start(s), Stop(Flip(Start(s))))
    BY <1>1, RunningRestored
  <2> QED BY <1>1, <1>2, <2>1, Undoing DEF RunningInstruction, Mirrors
<1>3. CASE Bw(s, "start") /\ t = After(s, Stop(s))
  <2>1. Restores(s, Stop(s), Start(Flip(Stop(s))))
    BY <1>1, RunningRestored
  <2> QED BY <1>1, <1>3, <2>1, Undoing DEF RunningInstruction, Mirrors
<1>4. CASE At(s, "nop") /\ t = After(s, s)
  <2>1. Restores(s, s, Flip(s))
    BY <1>1 DEF Restores
  <2> QED BY <1>1, <1>4, <2>1, Undoing DEF RunningInstruction, Mirrors
<1> QED BY <1>2, <1>3, <1>4 DEF RunningInstruction

(* pushc, pushtrue, pushfalse and their inverses. *)
LEMMA UndoConstant ==
  ASSUME NEW s, NEW t, Undoable(s, t), ConstantInstruction(s, t)
  PROVE  ConstantInstruction(invert_vm_direction(t), invert_vm_direction(s))
<1>1. /\ s \in VM /\ s.fault = "none" /\ t.fault = "none" /\ Sound(s)
      /\ UNSAFE_OPERATIONS = FALSE /\ program \in Seq(Instruction)
  BY DEF Undoable, Sound
<1>2. Operand(s) \in Word /\ True \in Word /\ False \in Word
  <2>1. True \in Word /\ False \in Word
    BY HalfRangeNat DEF True, False, Forward, Backward, Word
  <2> QED BY <1>1, <2>1, FetchedWord DEF ConstantInstruction, Fw, Bw, At
<1>3. ASSUME NEW w \in Word, t = After(s, Pushc(s, w))
      PROVE  /\ invert_vm_direction(s) =
                  After(invert_vm_direction(t), Popc(invert_vm_direction(t), w))
             /\ Mirrors(s, invert_vm_direction(t))
  <2>1. Restores(s, Pushc(s, w), Popc(Flip(Pushc(s, w)), w))
    BY <1>1, ConstantRestored
  <2> QED BY <1>1, <1>3, <2>1, Undoing
<1>4. ASSUME NEW w \in Word, t = After(s, Popc(s, w))
      PROVE  /\ invert_vm_direction(s) =
                  After(invert_vm_direction(t), Pushc(invert_vm_direction(t), w))
             /\ Mirrors(s, invert_vm_direction(t))
  <2>1. Restores(s, Popc(s, w), Pushc(Flip(Popc(s, w)), w))
    BY <1>1, ConstantRestored
  <2> QED BY <1>1, <1>4, <2>1, Undoing
<1> QED BY <1>2, <1>3, <1>4 DEF ConstantInstruction, Mirrors

(* dup, undup, swap, bury and dig. *)
LEMMA UndoShuffle ==
  ASSUME NEW s, NEW t, Undoable(s, t), ShuffleInstruction(s, t)
  PROVE  ShuffleInstruction(invert_vm_direction(t), invert_vm_direction(s))
<1>1. /\ s \in VM /\ s.fault = "none" /\ t.fault = "none" /\ Sound(s)
      /\ UNSAFE_OPERATIONS = FALSE /\ program \in Seq(Instruction) /\ StackSize # 0
  BY DEF Undoable, Sound
<1>2. CASE Fw(s, "dup") /\ t = After(s, Dup(s))
  <2>1. Restores(s, Dup(s), Undup(Flip(Dup(s))))
    BY <1>1, DupRestored
  <2> QED BY <1>1, <1>2, <2>1, Undoing DEF ShuffleInstruction, Mirrors
<1>3. CASE Bw(s, "dup") /\ t = After(s, Undup(s))
  <2>1. Restores(s, Undup(s), Dup(Flip(Undup(s))))
    BY <1>1, DupRestored
  <2> QED BY <1>1, <1>3, <2>1, Undoing DEF ShuffleInstruction, Mirrors
<1>4. CASE At(s, "swap") /\ t = After(s, Swap(s))
  <2>1. Restores(s, Swap(s), Swap(Flip(Swap(s))))
    BY <1>1, ShuffleRestored
  <2> QED BY <1>1, <1>4, <2>1, Undoing DEF ShuffleInstruction, Mirrors
<1>5. CASE Fw(s, "bury") /\ t = After(s, Bury(s))
  <2>1. Restores(s, Bury(s), Dig(Flip(Bury(s))))
    BY <1>1, ShuffleRestored
  <2> QED BY <1>1, <1>5, <2>1, Undoing DEF ShuffleInstruction, Mirrors
<1>6. CASE Bw(s, "bury") /\ t = After(s, Dig(s))
  <2>1. Restores(s, Dig(s), Bury(Flip(Dig(s))))
    BY <1>1, ShuffleRestored
  <2> QED BY <1>1, <1>6, <2>1, Undoing DEF ShuffleInstruction, Mirrors
<1> QED BY <1>2, <1>3, <1>4, <1>5, <1>6 DEF ShuffleInstruction

(* allocpar, releasepar, asf, rsf, pushl and popl. *)
LEMMA UndoFrame ==
  ASSUME NEW s, NEW t, Undoable(s, t), FrameInstruction(s, t),
         ~PopsOntoItself(s)
  PROVE  FrameInstruction(invert_vm_direction(t), invert_vm_direction(s))
<1>1. /\ s \in VM /\ s.fault = "none" /\ t.fault = "none" /\ Sound(s)
      /\ UNSAFE_OPERATIONS = FALSE /\ program \in Seq(Instruction) /\ StackSize # 0
  BY DEF Undoable, Sound
<1>2. Operand(s) \in Word /\ Fetch(s).bits \in 0 .. (2 * OPERAND_SIGN - 1)
  BY <1>1, FetchedWord DEF FrameInstruction, Fw, Bw, At
<1>3. CASE Fw(s, "allocpar") /\ t = After(s, Allocpar(s, Operand(s)))
  <2>1. Restores(s, Allocpar(s, Operand(s)), Releasepar(Flip(Allocpar(s, Operand(s))), Operand(s)))
    BY <1>1, <1>2, ParametersRestored
  <2> QED BY <1>1, <1>3, <2>1, Undoing DEF FrameInstruction, Mirrors
<1>4. CASE Bw(s, "allocpar") /\ t = After(s, Releasepar(s, Operand(s)))
  <2>1. Restores(s, Releasepar(s, Operand(s)), Allocpar(Flip(Releasepar(s, Operand(s))), Operand(s)))
    BY <1>1, <1>2, ParametersRestored
  <2> QED BY <1>1, <1>4, <2>1, Undoing DEF FrameInstruction, Mirrors
<1>5. CASE Fw(s, "asf") /\ t = After(s, Asf(s, Operand(s)))
  <2>1. Restores(s, Asf(s, Operand(s)), Rsf(Flip(Asf(s, Operand(s))), Operand(s)))
    BY <1>1, <1>2, AsfUndone
  <2> QED BY <1>1, <1>5, <2>1, Undoing DEF FrameInstruction, Mirrors
<1>6. CASE Bw(s, "asf") /\ t = After(s, Rsf(s, Operand(s)))
  <2>1. Restores(s, Rsf(s, Operand(s)), Asf(Flip(Rsf(s, Operand(s))), Operand(s)))
    BY <1>1, <1>2, RsfUndone
  <2> QED BY <1>1, <1>6, <2>1, Undoing DEF FrameInstruction, Mirrors
<1>7. CASE Fw(s, "pushl") /\ t = After(s, Pushl(s, Operand(s)))
  <2>1. Restores(s, Pushl(s, Operand(s)), Popl(Flip(Pushl(s, Operand(s))), Operand(s)))
    BY <1>1, <1>2, PushlUndone
  <2> QED BY <1>1, <1>7, <2>1, Undoing DEF FrameInstruction, Mirrors
<1>8. CASE Bw(s, "pushl") /\ t = After(s, Popl(s, Operand(s)))
  <2>1. Local(s, Operand(s)) # s.sp - 1
    BY <1>8 DEF PopsOntoItself
  <2>2. Restores(s, Popl(s, Operand(s)), Pushl(Flip(Popl(s, Operand(s))), Operand(s)))
    BY <1>1, <1>2, <2>1, PoplUndone
  <2> QED BY <1>1, <1>8, <2>2, Undoing DEF FrameInstruction, Mirrors
<1> QED BY <1>3, <1>4, <1>5, <1>6, <1>7, <1>8 DEF FrameInstruction

(* call, uncall and the branches. *)
LEMMA UndoTransfer ==
  ASSUME NEW s, NEW t, Undoable(s, t), TransferInstruction(s, t)
  PROVE  TransferInstruction(invert_vm_direction(t), invert_vm_direction(s))
<1>1. /\ s \in VM /\ s.fault = "none" /\ t.fault = "none" /\ Sound(s)
      /\ UNSAFE_OPERATIONS = FALSE /\ program \in Seq(Instruction) /\ StackSize # 0
  BY DEF Undoable, Sound
<1>2. Operand(s) \in Word /\ Fetch(s).bits \in 0 .. (2 * OPERAND_SIGN - 1)
  BY <1>1, FetchedWord DEF TransferInstruction, Fw, Bw, At
<1>3. CASE At(s, "call") /\ t = After(s, Call(s))
  <2>1. Restores(s, Call(s), Call(Flip(Call(s))))
    BY <1>1, <1>2, CallRestored
  <2> QED BY <1>1, <1>3, <2>1, Undoing DEF TransferInstruction, Mirrors
<1>4. CASE At(s, "uncall") /\ t = After(s, Uncall(s))
  <2> DEFINE u == Uncall(s)
  <2>1. u.fault = "none" => u \in VM /\ u.pc = s.pc /\ Uncall(Flip(u)) = Flip(s)
    BY <1>1, UncallUndone
  <2> HIDE DEF u
  <2>2. /\ u.fault = "none" /\ u \in VM /\ invert_vm_direction(t) = Flip(u)
        /\ invert_vm_direction(s) = After(Flip(u), Flip(s))
    <3>1. t = After(s, u)
      BY <1>4 DEF u
    <3> QED BY <1>1, <2>1, <3>1, StepMirrored
  <2>3. At(Flip(u), "uncall")
    BY <1>1, <1>4, <2>1, <2>2, FlipFields, FetchMirrored
  <2> QED BY <2>1, <2>2, <2>3 DEF TransferInstruction
<1>5. CASE At(s, "branch") /\ t = After(s, Branch(s, Operand(s)))
  <2>1. Restores(s, Branch(s, Operand(s)), Branch(Flip(Branch(s, Operand(s))), Operand(s)))
    BY <1>1, <1>2, BranchUndone
  <2> QED BY <1>1, <1>5, <2>1, Undoing DEF TransferInstruction, Mirrors
<1>6. CASE At(s, "brt") /\ t = After(s, BranchIf(s, Operand(s), True))
  <2>1. Restores(s, BranchIf(s, Operand(s), True), BranchIf(Flip(BranchIf(s, Operand(s), True)), Operand(s), True))
    BY <1>1, <1>2, BranchIfRestored
  <2> QED BY <1>1, <1>6, <2>1, Undoing DEF TransferInstruction, Mirrors
<1>7. CASE At(s, "brf") /\ t = After(s, BranchIf(s, Operand(s), False))
  <2>1. Restores(s, BranchIf(s, Operand(s), False), BranchIf(Flip(BranchIf(s, Operand(s), False)), Operand(s), False))
    BY <1>1, <1>2, BranchIfRestored
  <2> QED BY <1>1, <1>7, <2>1, Undoing DEF TransferInstruction, Mirrors
<1> QED BY <1>3, <1>4, <1>5, <1>6, <1>7 DEF TransferInstruction

(* inc, dec, neg, add, sub, xor, shl, shr and xorhc. *)
LEMMA UndoUpdate ==
  ASSUME NEW s, NEW t, Undoable(s, t), UpdateInstruction(s, t)
  PROVE  UpdateInstruction(invert_vm_direction(t), invert_vm_direction(s))
<1>1. /\ s \in VM /\ s.fault = "none" /\ t.fault = "none" /\ Sound(s)
      /\ UNSAFE_OPERATIONS = FALSE /\ program \in Seq(Instruction) /\ StackSize # 0
  BY DEF Undoable, Sound
<1>2. Operand(s) \in Word /\ Fetch(s).bits \in 0 .. (2 * OPERAND_SIGN - 1)
  BY <1>1, FetchedWord DEF UpdateInstruction, Fw, Bw, At
<1>3. CASE Fw(s, "inc") /\ t = After(s, Inc(s, Operand(s)))
  <2>1. Restores(s, Inc(s, Operand(s)), Dec(Flip(Inc(s, Operand(s))), Operand(s)))
    BY <1>1, <1>2, UnaryRestored
  <2> QED BY <1>1, <1>3, <2>1, Undoing DEF UpdateInstruction, Mirrors
<1>4. CASE Bw(s, "inc") /\ t = After(s, Dec(s, Operand(s)))
  <2>1. Restores(s, Dec(s, Operand(s)), Inc(Flip(Dec(s, Operand(s))), Operand(s)))
    BY <1>1, <1>2, UnaryRestored
  <2> QED BY <1>1, <1>4, <2>1, Undoing DEF UpdateInstruction, Mirrors
<1>5. CASE At(s, "neg") /\ t = After(s, Neg(s))
  <2>1. Restores(s, Neg(s), Neg(Flip(Neg(s))))
    BY <1>1, <1>2, UnaryRestored
  <2> QED BY <1>1, <1>5, <2>1, Undoing DEF UpdateInstruction, Mirrors
<1>6. CASE Fw(s, "add") /\ t = After(s, Add(s))
  <2>1. Restores(s, Add(s), Sub(Flip(Add(s))))
    BY <1>1, <1>2, BinaryRestored
  <2> QED BY <1>1, <1>6, <2>1, Undoing DEF UpdateInstruction, Mirrors
<1>7. CASE Bw(s, "add") /\ t = After(s, Sub(s))
  <2>1. Restores(s, Sub(s), Add(Flip(Sub(s))))
    BY <1>1, <1>2, BinaryRestored
  <2> QED BY <1>1, <1>7, <2>1, Undoing DEF UpdateInstruction, Mirrors
<1>8. CASE At(s, "xor") /\ t = After(s, XorTop(s))
  <2>1. Restores(s, XorTop(s), XorTop(Flip(XorTop(s))))
    BY <1>1, <1>2, BinaryRestored
  <2> QED BY <1>1, <1>8, <2>1, Undoing DEF UpdateInstruction, Mirrors
<1>9. CASE Fw(s, "shl") /\ t = After(s, Shl(s))
  <2>1. Restores(s, Shl(s), Shr(Flip(Shl(s))))
    BY <1>1, <1>2, BinaryRestored
  <2> QED BY <1>1, <1>9, <2>1, Undoing DEF UpdateInstruction, Mirrors
<1>10. CASE Bw(s, "shl") /\ t = After(s, Shr(s))
  <2>1. Restores(s, Shr(s), Shl(Flip(Shr(s))))
    BY <1>1, <1>2, BinaryRestored
  <2> QED BY <1>1, <1>10, <2>1, Undoing DEF UpdateInstruction, Mirrors
<1>11. CASE At(s, "xorhc") /\ t = After(s, Xorhc(s, Fetch(s).bits))
  <2>1. Restores(s, Xorhc(s, Fetch(s).bits), Xorhc(Flip(Xorhc(s, Fetch(s).bits)), Fetch(s).bits))
    BY <1>1, <1>2, XorhcRestored
  <2> QED BY <1>1, <1>11, <2>1, Undoing DEF UpdateInstruction, Mirrors
<1> QED BY <1>3, <1>4, <1>5, <1>6, <1>7, <1>8, <1>9, <1>10, <1>11 DEF UpdateInstruction

(* pushm, popm, load, store and memswap. *)
LEMMA UndoHeap ==
  ASSUME NEW s, NEW t, Undoable(s, t), HeapInstruction(s, t)
  PROVE  HeapInstruction(invert_vm_direction(t), invert_vm_direction(s))
<1>1. /\ s \in VM /\ s.fault = "none" /\ t.fault = "none" /\ Sound(s)
      /\ UNSAFE_OPERATIONS = FALSE /\ program \in Seq(Instruction) /\ StackSize # 0
  BY DEF Undoable, Sound
<1>2. Operand(s) \in Word /\ Fetch(s).bits \in 0 .. (2 * OPERAND_SIGN - 1)
  BY <1>1, FetchedWord DEF HeapInstruction, Fw, Bw, At
<1>3. CASE Fw(s, "pushm") /\ t = After(s, Pushm(s, Operand(s)))
  <2>1. Restores(s, Pushm(s, Operand(s)), Popm(Flip(Pushm(s, Operand(s))), Operand(s)))
    BY <1>1, <1>2, CellRestored
  <2> QED BY <1>1, <1>3, <2>1, Undoing DEF HeapInstruction, Mirrors
<1>4. CASE Bw(s, "pushm") /\ t = After(s, Popm(s, Operand(s)))
  <2>1. Restores(s, Popm(s, Operand(s)), Pushm(Flip(Popm(s, Operand(s))), Operand(s)))
    BY <1>1, <1>2, CellRestored
  <2> QED BY <1>1, <1>4, <2>1, Undoing DEF HeapInstruction, Mirrors
<1>5. CASE Fw(s, "load") /\ t = After(s, Load(s, Operand(s)))
  <2>1. Restores(s, Load(s, Operand(s)), Store(Flip(Load(s, Operand(s))), Operand(s)))
    BY <1>1, <1>2, LoadRestored
  <2> QED BY <1>1, <1>5, <2>1, Undoing DEF HeapInstruction, Mirrors
<1>6. CASE Bw(s, "load") /\ t = After(s, Store(s, Operand(s)))
  <2>1. Restores(s, Store(s, Operand(s)), Load(Flip(Store(s, Operand(s))), Operand(s)))
    BY <1>1, <1>2, LoadRestored
  <2> QED BY <1>1, <1>6, <2>1, Undoing DEF HeapInstruction, Mirrors
<1>7. CASE At(s, "memswap") /\ t = After(s, Memswap(s, Operand(s)))
  <2>1. Restores(s, Memswap(s, Operand(s)), Memswap(Flip(Memswap(s, Operand(s))), Operand(s)))
    BY <1>1, <1>2, MemswapRestored
  <2> QED BY <1>1, <1>7, <2>1, Undoing DEF HeapInstruction, Mirrors
<1> QED BY <1>3, <1>4, <1>5, <1>6, <1>7 DEF HeapInstruction

(* cmpush and cmpop for every comparison. *)
LEMMA UndoCompare ==
  ASSUME NEW s, NEW t, Undoable(s, t), CompareInstruction(s, t)
  PROVE  CompareInstruction(invert_vm_direction(t), invert_vm_direction(s))
<1>1. /\ s \in VM /\ s.fault = "none" /\ t.fault = "none" /\ Sound(s)
      /\ UNSAFE_OPERATIONS = FALSE /\ program \in Seq(Instruction) /\ StackSize # 0
  BY DEF Undoable, Sound
<1>2. PICK op \in Comparisons :
         \/ Fw(s, op) /\ t = After(s, CmpPush(s, op))
         \/ Bw(s, op) /\ t = After(s, CmpPop(s, op))
  BY DEF CompareInstruction
<1>3. CASE Fw(s, op) /\ t = After(s, CmpPush(s, op))
  <2>1. Restores(s, CmpPush(s, op), CmpPop(Flip(CmpPush(s, op)), op))
    BY <1>1, CompareRestored
  <2> QED BY <1>1, <1>3, <2>1, Undoing DEF CompareInstruction, Mirrors
<1>4. CASE Bw(s, op) /\ t = After(s, CmpPop(s, op))
  <2>1. Restores(s, CmpPop(s, op), CmpPush(Flip(CmpPop(s, op)), op))
    BY <1>1, CompareRestored
  <2> QED BY <1>1, <1>4, <2>1, Undoing DEF CompareInstruction, Mirrors
<1> QED BY <1>2, <1>3, <1>4

(* arpush and arpop for every operator. *)
LEMMA UndoArithmetic ==
  ASSUME NEW s, NEW t, Undoable(s, t), ArithmeticInstruction(s, t)
  PROVE  ArithmeticInstruction(invert_vm_direction(t), invert_vm_direction(s))
<1>1. /\ s \in VM /\ s.fault = "none" /\ t.fault = "none" /\ Sound(s)
      /\ UNSAFE_OPERATIONS = FALSE /\ program \in Seq(Instruction) /\ StackSize # 0
  BY DEF Undoable, Sound
<1>2. PICK op \in Arithmetics :
         \/ Fw(s, op) /\ t = After(s, ArPush(s, op))
         \/ Bw(s, op) /\ t = After(s, ArPop(s, op))
  BY DEF ArithmeticInstruction
<1>3. CASE Fw(s, op) /\ t = After(s, ArPush(s, op))
  <2>1. Restores(s, ArPush(s, op), ArPop(Flip(ArPush(s, op)), op))
    BY <1>1, ArithmeticRestored
  <2> QED BY <1>1, <1>3, <2>1, Undoing DEF ArithmeticInstruction, Mirrors
<1>4. CASE Bw(s, op) /\ t = After(s, ArPop(s, op))
  <2>1. Restores(s, ArPop(s, op), ArPush(Flip(ArPop(s, op)), op))
    BY <1>1, ArithmeticRestored
  <2> QED BY <1>1, <1>4, <2>1, Undoing DEF ArithmeticInstruction, Mirrors
<1> QED BY <1>2, <1>3, <1>4

(* Every step of the checked build that succeeds is undone, a popl onto    *)
(* the slot it pops excepted.                                              *)
LEMMA StepUndone ==
  ASSUME NEW s, NEW t, Undoable(s, t), step(s, t), ~PopsOntoItself(s)
  PROVE  UndoneBy(s, t)
<1> DEFINE x == invert_vm_direction(t)
           y == invert_vm_direction(s)
<1> SUFFICES step(x, y)
  BY DEF UndoneBy
<1>1. CASE ~Fetches(s) /\ t = Throw(s, "out_of_range")
  <2>1. t.fault = "out_of_range"
    BY <1>1, ThrowFault DEF Undoable
  <2> QED BY <2>1 DEF Undoable
<1>2. CASE RunningInstruction(s, t)
  BY <1>2, UndoRunning DEF step
<1>3. CASE ConstantInstruction(s, t)
  BY <1>3, UndoConstant DEF step
<1>4. CASE ShuffleInstruction(s, t)
  BY <1>4, UndoShuffle DEF step
<1>5. CASE FrameInstruction(s, t)
  BY <1>5, UndoFrame DEF step
<1>6. CASE TransferInstruction(s, t)
  BY <1>6, UndoTransfer DEF step
<1>7. CASE CompareInstruction(s, t)
  BY <1>7, UndoCompare DEF step
<1>8. CASE UpdateInstruction(s, t)
  BY <1>8, UndoUpdate DEF step
<1>9. CASE ArithmeticInstruction(s, t)
  BY <1>9, UndoArithmetic DEF step
<1>10. CASE HeapInstruction(s, t)
  BY <1>10, UndoHeap DEF step
<1> QED BY <1>1, <1>2, <1>3, <1>4, <1>5, <1>6, <1>7, <1>8, <1>9, <1>10 DEF step

-----------------------------------------------------------------------------
(* A machine that is in the loop of run has not thrown. *)
LoopingIntact == looping => vm.fault = "none"

(* An exception leaves the loop. *)
LEMMA StaysIntact ==
  /\ Init => LoopingIntact
  /\ LoopingIntact /\ [Next]_vars => LoopingIntact'
<1>1. Init => LoopingIntact
  BY DEF Init, LoopingIntact
<1>2. LoopingIntact /\ [Next]_vars => LoopingIntact'
  BY DEF LoopingIntact, Next, Run, vars
<1> QED BY <1>1, <1>2

(* Reversibility, for every program, every size of stack and memory and    *)
(* every width of words: after any step of run that does not throw,        *)
(* turning round and executing one step of VM::step restores every         *)
(* register, every slot of the stack and every cell of the memory.  Only   *)
(* a popl onto the slot it pops is excepted, and only a machine without a  *)
(* single slot, whose allocpar 0 throws though its releasepar 0 does not.  *)
THEOREM Reversibility ==
  ASSUME UNSAFE_OPERATIONS = FALSE, StackSize # 0
  PROVE  Spec => StepsAreUndone
<1> DEFINE Undoes == vm'.fault = "none" /\ ~PopsOntoItself(vm) => UndoneBy(vm, vm')
<1>1. IInv /\ LoopingIntact /\ Next => Undoes
  <2> SUFFICES ASSUME IInv, LoopingIntact, Next, vm'.fault = "none", ~PopsOntoItself(vm)
               PROVE  UndoneBy(vm, vm')
    OBVIOUS
  <2>1. step(vm, vm') /\ vm.fault = "none"
    BY DEF Next, Run, LoopingIntact
  <2>2. Undoable(vm, vm')
    BY <2>1 DEF Undoable, IInv, TypeOK
  <2> QED BY <2>1, <2>2, StepUndone
<1>2. IInv /\ LoopingIntact /\ [Next]_vars => [Undoes]_vars
  BY <1>1
<1>3. Spec => []IInv
  BY MachineInvariant
<1>4. Spec => []LoopingIntact
  BY StaysIntact, PTL DEF Spec
<1> QED BY <1>2, <1>3, <1>4, PTL DEF Spec, StepsAreUndone
=============================================================================
