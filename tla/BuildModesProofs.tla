-------------------------- MODULE BuildModesProofs --------------------------
(***************************************************************************)
(* The build without checks does what the checked build does, for every    *)
(* program and every size: a step the checks let pass has the same result  *)
(* without them, and a step that divides by zero or finds start or stop    *)
(* out of place fails in the same way.                                     *)
(*                                                                         *)
(* The two builds are two instances of one module, so the terms they share *)
(* are shown to be equal first, then the checks to be transparent around   *)
(* whatever they guard, and the instructions follow family by family.      *)
(***************************************************************************)
EXTENDS BuildModes, MachineProofs

(* w, the outcome in the fast build, is u, that of the checked build,      *)
(* unless the checks have refused.                                         *)
Same(u, w) == u.fault \in CommonFaults => w = u

-----------------------------------------------------------------------------
(* What both builds compile alike.                                         *)
LEMMA SameTerms ==
  ASSUME NEW s
  PROVE  /\ \A f : Fast!Throw(s, f) = Throw(s, f)
         /\ Fast!Top(s) = Top(s) /\ Fast!Under(s) = Under(s) /\ Fast!Third(s) = Third(s)
         /\ \A stack, sp : Fast!WithStack(s, stack, sp) = WithStack(s, stack, sp)
         /\ \A value : Fast!SetTop(s, value) = SetTop(s, value)
         /\ \A n : Fast!Local(s, n) = Local(s, n)
BY DEF Throw, Fast!Throw, Top, Fast!Top, Under, Fast!Under, Third, Fast!Third,
       WithStack, Fast!WithStack, SetTop, Fast!SetTop, Local, Fast!Local,
       AddW, Fast!AddW, Wrap, Fast!Wrap, HalfRange, Fast!HalfRange

LEMMA SameWords ==
  /\ \A a, b : Fast!AddW(a, b) = AddW(a, b)
  /\ \A a, b : Fast!SubW(a, b) = SubW(a, b)
  /\ \A a : Fast!NegW(a) = NegW(a)
  /\ \A bits : Fast!UpperBits(bits) = UpperBits(bits)
  /\ \A f, i, j : Fast!Exchange(f, i, j) = Exchange(f, i, j)
  /\ \A a, b : Fast!DivisionTraps(a, b) = DivisionTraps(a, b)
BY DEF AddW, Fast!AddW, SubW, Fast!SubW, NegW, Fast!NegW, Wrap, Fast!Wrap,
       HalfRange, Fast!HalfRange, UpperBits, Fast!UpperBits, Exchange, Fast!Exchange,
       DivisionTraps, Fast!DivisionTraps

LEMMA SameCompare ==
  ASSUME NEW op, NEW a, NEW b
  PROVE  Fast!Compare(op, a, b) = Compare(op, a, b)
BY DEF Compare, Fast!Compare, True, Fast!True, False, Fast!False, Forward, Fast!Forward,
       Backward, Fast!Backward

LEMMA SameArithmetic ==
  ASSUME NEW op, NEW a, NEW b
  PROVE  Fast!Arithmetic(op, a, b) = Arithmetic(op, a, b)
BY DEF Arithmetic, Fast!Arithmetic, AddW, Fast!AddW, SubW, Fast!SubW, Wrap, Fast!Wrap,
       MulW, Fast!MulW, QuotW, Fast!QuotW, RemW, Fast!RemW, Magnitude, Fast!Magnitude,
       HalfRange, Fast!HalfRange

LEMMA SameTouch ==
  ASSUME NEW s, NEW slots, NEW t
  PROVE  Fast!Touch(s, slots, t) = Touch(s, slots, t)
BY DEF Touch, Fast!Touch, Throw, Fast!Throw, Slots, Fast!Slots

LEMMA SamePush ==
  ASSUME NEW s, NEW value
  PROVE  Fast!Push(s, value) = Push(s, value)
BY SameTouch, SameTerms DEF Push, Fast!Push

-----------------------------------------------------------------------------
(* A check is transparent around what it guards.                           *)
LEMMA SameTouched ==
  ASSUME NEW s, s \in VM, NEW slots, NEW t, NEW u, Same(t, u)
  PROVE  Same(Touch(s, slots, t), Fast!Touch(s, slots, u))
BY SameTouch DEF Same, Touch, Throw, CommonFaults, VM

LEMMA SameRequires ==
  ASSUME NEW s, s \in VM, NEW n, NEW t, NEW u, Same(t, u)
  PROVE  Same(REQUIRES_PARAMS(s, n, t), Fast!REQUIRES_PARAMS(s, n, u))
BY CheckedAssumption
DEF Same, REQUIRES_PARAMS, Fast!REQUIRES_PARAMS, Touch, Fast!Touch, Throw, Fast!Throw,
    Slots, Fast!Slots, CommonFaults, VM

LEMMA SamePushes ==
  ASSUME NEW s, s \in VM, NEW n, NEW t, NEW u, Same(t, u)
  PROVE  Same(PUSHES_VALUES(s, n, t), Fast!PUSHES_VALUES(s, n, u))
BY CheckedAssumption DEF Same, PUSHES_VALUES, Fast!PUSHES_VALUES, Throw, CommonFaults, VM

LEMMA SameLocal ==
  ASSUME NEW s, s \in VM, NEW n, NEW t, NEW u, Same(t, u)
  PROVE  Same(REQUIRES_LOCAL(s, n, t), Fast!REQUIRES_LOCAL(s, n, u))
BY CheckedAssumption, SameTerms
DEF Same, REQUIRES_LOCAL, Fast!REQUIRES_LOCAL, Throw, Slots, Fast!Slots, CommonFaults, VM

LEMMA SamePositive ==
  ASSUME NEW s, s \in VM, NEW n, NEW t, NEW u, Same(t, u)
  PROVE  Same(ASSERT_POSITIVE(s, n, t), Fast!ASSERT_POSITIVE(s, n, u))
BY CheckedAssumption DEF Same, ASSERT_POSITIVE, Fast!ASSERT_POSITIVE, Throw, CommonFaults, VM

LEMMA SameMemory ==
  ASSUME NEW s, s \in VM, NEW address, NEW t, NEW u, Same(t, u)
  PROVE  Same(MemoryAt(s, address, t), Fast!MemoryAt(s, address, u))
BY DEF Same, MemoryAt, Fast!MemoryAt, Throw, Addresses, Fast!Addresses, CommonFaults, VM

LEMMA SameClearSlots ==
  ASSUME NEW s, s \in VM, NEW slots, NEW t, NEW u, Same(t, u)
  PROVE  Same(ClearSlots(s, slots, t), Fast!ClearSlots(s, slots, u))
BY CheckedAssumption, SameTouched DEF Same, ClearSlots, Fast!ClearSlots, Touch, Throw, CommonFaults, VM

(* clear: where the checked build does not throw, both store a zero.       *)
LEMMA SameClear ==
  ASSUME NEW s, s \in VM, NEW stack, NEW expected
  PROVE  Same(Clear(s, stack, expected), Fast!Clear(s, stack, expected))
BY CheckedAssumption, SameTerms DEF Same, Clear, Fast!Clear, Throw, CommonFaults, VM

LEMMA SamePop ==
  ASSUME NEW s, s \in VM, NEW expected
  PROVE  Same(Pop(s, expected), Fast!Pop(s, expected))
BY SameClear DEF Pop, Fast!Pop

-----------------------------------------------------------------------------
(* The instructions.                                                       *)
LEMMA SameReflexive == \A t : Same(t, t)
BY DEF Same

LEMMA SameRunning ==
  ASSUME NEW s
  PROVE  Fast!Start(s) = Start(s) /\ Fast!Stop(s) = Stop(s)
BY SameTerms DEF Start, Fast!Start, Stop, Fast!Stop

LEMMA SameConstant ==
  ASSUME NEW s, s \in VM, NEW n
  PROVE  Same(Pushc(s, n), Fast!Pushc(s, n)) /\ Same(Popc(s, n), Fast!Popc(s, n))
BY SamePush, SamePop, SameReflexive, SamePushes, SameRequires
DEF Pushc, Fast!Pushc, Popc, Fast!Popc

LEMMA SameShuffle ==
  ASSUME NEW s, s \in VM
  PROVE  /\ Same(Dup(s), Fast!Dup(s)) /\ Same(Undup(s), Fast!Undup(s))
         /\ Same(Swap(s), Fast!Swap(s))
         /\ Same(Bury(s), Fast!Bury(s)) /\ Same(Dig(s), Fast!Dig(s))
<1>1. Same(Dup(s), Fast!Dup(s))
  BY SameTerms, SamePush, SameReflexive, SamePushes, SameRequires DEF Dup, Fast!Dup
<1>2. Same(Undup(s), Fast!Undup(s))
  BY SameTerms, SamePop, SameRequires DEF Undup, Fast!Undup
<1>3. Same(Swap(s), Fast!Swap(s))
  BY SameTerms, SameWords, SameReflexive, SameRequires DEF Swap, Fast!Swap
<1>4. Same(Bury(s), Fast!Bury(s)) /\ Same(Dig(s), Fast!Dig(s))
  BY SameTerms, SameReflexive, SameRequires DEF Bury, Fast!Bury, Dig, Fast!Dig
<1> QED BY <1>1, <1>2, <1>3, <1>4

LEMMA SameParameters ==
  ASSUME NEW s, s \in VM, NEW n
  PROVE  /\ Same(Allocpar(s, n), Fast!Allocpar(s, n))
         /\ Same(Releasepar(s, n), Fast!Releasepar(s, n))
BY SameTerms, SameReflexive, SamePositive, SamePushes, SameRequires, SameClearSlots
DEF Allocpar, Fast!Allocpar, Releasepar, Fast!Releasepar

(* A frame is closed at the same base, and its cleared slot holds zero.    *)
LEMMA SameFrame ==
  ASSUME NEW s, s \in VM, NEW n
  PROVE  Same(Asf(s, n), Fast!Asf(s, n)) /\ Same(Rsf(s, n), Fast!Rsf(s, n))
<1>1. Same(Asf(s, n), Fast!Asf(s, n))
  BY SameTerms, SameReflexive, SamePositive, SamePushes, SameTouched DEF Asf, Fast!Asf
<1>2. Same(Rsf(s, n), Fast!Rsf(s, n))
  <2> DEFINE base      == s.sp - (n + 1)
             cleared   == BitXor(s.fp, base)
             closed    == Touch(s, {base}, [WithStack(s, [s.stack EXCEPT ![base] = cleared], base)
                                              EXCEPT !.fp = s.stack[base]])
             refusable == IF ~UNSAFE_OPERATIONS /\ cleared # 0 THEN Throw(s, "domain_error") ELSE closed
  <2>1. Same(refusable, closed)
    BY CheckedAssumption DEF Same, Throw, CommonFaults, VM
  <2>2. Same(ClearSlots(s, (s.sp - n) .. (s.sp - 1), refusable),
             Fast!ClearSlots(s, (s.sp - n) .. (s.sp - 1), closed))
    BY <2>1, SameClearSlots
  <2> HIDE DEF refusable
  <2>3. Same(ASSERT_POSITIVE(s, n, REQUIRES_PARAMS(s, n + 1,
               ClearSlots(s, (s.sp - n) .. (s.sp - 1), refusable))),
             Fast!ASSERT_POSITIVE(s, n, Fast!REQUIRES_PARAMS(s, n + 1,
               Fast!ClearSlots(s, (s.sp - n) .. (s.sp - 1), closed))))
    BY <2>2, SamePositive, SameRequires
  <2>4. Fast!Rsf(s, n) =
          Fast!ASSERT_POSITIVE(s, n, Fast!REQUIRES_PARAMS(s, n + 1,
            Fast!ClearSlots(s, (s.sp - n) .. (s.sp - 1), closed)))
    BY SameTouch, SameTerms DEF Fast!Rsf
  <2> QED BY <2>3, <2>4 DEF Rsf, refusable
<1> QED BY <1>1, <1>2

LEMMA SameLocals ==
  ASSUME NEW s, s \in VM, NEW n
  PROVE  Same(Pushl(s, n), Fast!Pushl(s, n)) /\ Same(Popl(s, n), Fast!Popl(s, n))
<1>1. Same(Pushl(s, n), Fast!Pushl(s, n))
  BY SameTerms, SameWords, SameReflexive, SamePushes, SameLocal, SameTouched DEF Pushl, Fast!Pushl
<1>2. Same(Popl(s, n), Fast!Popl(s, n))
  BY SameTerms, SameWords, SameRequires, SameLocal, SameClear DEF Popl, Fast!Popl
<1> QED BY <1>1, <1>2

LEMMA SameTransfer ==
  ASSUME NEW s, s \in VM, NEW n
  PROVE  /\ Same(Call(s), Fast!Call(s)) /\ Same(Uncall(s), Fast!Uncall(s))
         /\ Fast!Branch(s, n) = Branch(s, n)
         /\ \A condition : Same(BranchIf(s, n, condition), Fast!BranchIf(s, n, condition))
<1>1. Same(Call(s), Fast!Call(s)) /\ Same(Uncall(s), Fast!Uncall(s))
  BY SameTerms, SameWords, SameReflexive, SameRequires DEF Call, Fast!Call, Uncall, Fast!Uncall
<1>2. Fast!Branch(s, n) = Branch(s, n)
  BY SameWords DEF Branch, Fast!Branch, Forward, Fast!Forward
<1>3. ASSUME NEW condition
      PROVE  Same(BranchIf(s, n, condition), Fast!BranchIf(s, n, condition))
  BY <1>2, SameTerms, SameReflexive, SameRequires DEF BranchIf, Fast!BranchIf
<1> QED BY <1>1, <1>2, <1>3

LEMMA SameComparison ==
  ASSUME NEW s, s \in VM, NEW op
  PROVE  Same(CmpPush(s, op), Fast!CmpPush(s, op)) /\ Same(CmpPop(s, op), Fast!CmpPop(s, op))
BY SameTerms, SameCompare, SamePush, SamePop, SameReflexive, SamePushes, SameRequires
DEF CmpPush, Fast!CmpPush, CmpPop, Fast!CmpPop

LEMMA SameUpdate ==
  ASSUME NEW s, s \in VM, NEW n
  PROVE  /\ Same(Inc(s, n), Fast!Inc(s, n)) /\ Same(Dec(s, n), Fast!Dec(s, n))
         /\ Same(Neg(s), Fast!Neg(s)) /\ Same(XorTop(s), Fast!XorTop(s))
         /\ Same(Add(s), Fast!Add(s)) /\ Same(Sub(s), Fast!Sub(s))
         /\ Same(Shl(s), Fast!Shl(s)) /\ Same(Shr(s), Fast!Shr(s))
         /\ Same(Xorhc(s, n), Fast!Xorhc(s, n))
BY SameTerms, SameWords, SameReflexive, SameRequires
DEF Inc, Fast!Inc, Dec, Fast!Dec, Neg, Fast!Neg, XorTop, Fast!XorTop, Add, Fast!Add,
    Sub, Fast!Sub, Shl, Fast!Shl, Shr, Fast!Shr, Xorhc, Fast!Xorhc

(* A division that traps does so in both builds.                           *)
LEMMA SameComputes ==
  ASSUME NEW s, NEW op, NEW a, NEW b, NEW t, NEW u, Same(t, u)
  PROVE  Same(Computes(s, op, a, b, t), Fast!Computes(s, op, a, b, u))
BY SameTerms, SameWords DEF Same, Computes, Fast!Computes

LEMMA SameArPush ==
  ASSUME NEW s, s \in VM, NEW op
  PROVE  Same(ArPush(s, op), Fast!ArPush(s, op)) /\ Same(ArPop(s, op), Fast!ArPop(s, op))
<1>1. Same(ArPush(s, op), Fast!ArPush(s, op))
  BY SameTerms, SameArithmetic, SameComputes, SamePush, SameReflexive, SamePushes, SameRequires
  DEF ArPush, Fast!ArPush
<1>2. Same(ArPop(s, op), Fast!ArPop(s, op))
  BY SameTerms, SameArithmetic, SameComputes, SamePop, SameRequires DEF ArPop, Fast!ArPop
<1> QED BY <1>1, <1>2

LEMMA SameAtAddress ==
  ASSUME NEW s, s \in VM, NEW address
  PROVE  /\ Same(PushFrom(s, address), Fast!PushFrom(s, address))
         /\ Same(PopInto(s, address), Fast!PopInto(s, address))
<1>1. Same(PushFrom(s, address), Fast!PushFrom(s, address))
  BY SameTerms, SameReflexive, SameMemory, SameTouched DEF PushFrom, Fast!PushFrom
<1>2. Same(PopInto(s, address), Fast!PopInto(s, address))
  <2> DEFINE v == [s EXCEPT !.memory[address] = Top(s)]
             stack == [s.stack EXCEPT ![s.sp - 1] = s.memory[address]]
  <2>1. Same(Clear(v, stack, 0), Fast!Clear(v, stack, 0))
    BY CheckedAssumption, SameTerms DEF Same, Clear, Fast!Clear, Throw, CommonFaults, VM
  <2> QED BY <2>1, SameMemory, SameTerms DEF PopInto, Fast!PopInto
<1> QED BY <1>1, <1>2

LEMMA SameHeap ==
  ASSUME NEW s, s \in VM, NEW n
  PROVE  /\ Same(Pushm(s, n), Fast!Pushm(s, n)) /\ Same(Popm(s, n), Fast!Popm(s, n))
         /\ Same(Load(s, n), Fast!Load(s, n)) /\ Same(Store(s, n), Fast!Store(s, n))
         /\ Same(Memswap(s, n), Fast!Memswap(s, n))
<1>1. /\ Same(Pushm(s, n), Fast!Pushm(s, n)) /\ Same(Popm(s, n), Fast!Popm(s, n))
      /\ Same(Load(s, n), Fast!Load(s, n)) /\ Same(Store(s, n), Fast!Store(s, n))
  BY SameTerms, SameWords, SameAtAddress, SamePushes, SameRequires
  DEF Pushm, Fast!Pushm, Popm, Fast!Popm, Load, Fast!Load, Store, Fast!Store
<1>2. Same(Memswap(s, n), Fast!Memswap(s, n))
  BY SameTerms, SameWords, SameReflexive, SameMemory, SameRequires DEF Memswap, Fast!Memswap
<1> QED BY <1>1, <1>2

-----------------------------------------------------------------------------
(* One step.                                                               *)
LEMMA SameAfter ==
  ASSUME NEW s, s \in VM, NEW u, NEW w, Same(u, w), After(s, u).fault \in CommonFaults
  PROVE  After(s, u) = Fast!After(s, w)
<1>1. Fast!step_pc(u) = step_pc(u)
  BY SameWords DEF step_pc, Fast!step_pc, Forward, Fast!Forward
<1>2. u.fault \in CommonFaults
  BY DEF After, Throw, CommonFaults, VM
<1>3. w = u
  BY <1>2 DEF Same
<1> QED BY <1>1, <1>3, SameTerms DEF After, Fast!After

LEMMA SameFetch ==
  ASSUME NEW s
  PROVE  /\ Fast!Fetches(s) <=> Fetches(s)
         /\ Fast!Fetch(s) = Fetch(s)
         /\ Fast!Operand(s) = Operand(s)
         /\ \A op : /\ Fast!At(s, op) <=> At(s, op)
                    /\ Fast!Fw(s, op) <=> Fw(s, op)
                    /\ Fast!Bw(s, op) <=> Bw(s, op)
BY DEF Fetches, Fast!Fetches, Fetch, Fast!Fetch, Operand, Fast!Operand, sign_extend,
       Fast!sign_extend, At, Fast!At, Fw, Fast!Fw, Bw, Fast!Bw, Backward, Fast!Backward

LEMMA SameStep ==
  ASSUME NEW s, s \in VM, NEW t, step(s, t), t.fault \in CommonFaults
  PROVE  Fast!step(s, t)
<1> DEFINE n == Operand(s)
<1>0. /\ True = Fast!True /\ False = Fast!False
      /\ Comparisons = Fast!Comparisons /\ Arithmetics = Fast!Arithmetics
  BY DEF True, Fast!True, False, Fast!False, Forward, Fast!Forward, Backward, Fast!Backward,
         Comparisons, Fast!Comparisons, Arithmetics, Fast!Arithmetics
<1>1. CASE ~Fetches(s) /\ t = Throw(s, "out_of_range")
  BY <1>1, SameFetch, SameTerms DEF Fast!step
<1>2. CASE RunningInstruction(s, t)
  BY <1>2, SameFetch, SameAfter, SameRunning, SameReflexive
  DEF RunningInstruction, Fast!RunningInstruction, Fast!step
<1>3. CASE ConstantInstruction(s, t)
  BY <1>0, <1>3, SameFetch, SameAfter, SameConstant
  DEF ConstantInstruction, Fast!ConstantInstruction, Fast!step
<1>4. CASE ShuffleInstruction(s, t)
  BY <1>4, SameFetch, SameAfter, SameShuffle
  DEF ShuffleInstruction, Fast!ShuffleInstruction, Fast!step
<1>5. CASE FrameInstruction(s, t)
  BY <1>5, SameFetch, SameAfter, SameParameters, SameFrame, SameLocals
  DEF FrameInstruction, Fast!FrameInstruction, Fast!step
<1>6. CASE TransferInstruction(s, t)
  BY <1>0, <1>6, SameFetch, SameAfter, SameTransfer, SameReflexive
  DEF TransferInstruction, Fast!TransferInstruction, Fast!step
<1>7. CASE CompareInstruction(s, t)
  BY <1>0, <1>7, SameFetch, SameAfter, SameComparison
  DEF CompareInstruction, Fast!CompareInstruction, Fast!step
<1>8. CASE UpdateInstruction(s, t)
  BY <1>8, SameFetch, SameAfter, SameUpdate
  DEF UpdateInstruction, Fast!UpdateInstruction, Fast!step
<1>9. CASE ArithmeticInstruction(s, t)
  BY <1>0, <1>9, SameFetch, SameAfter, SameArPush
  DEF ArithmeticInstruction, Fast!ArithmeticInstruction, Fast!step
<1>10. CASE HeapInstruction(s, t)
  BY <1>10, SameFetch, SameAfter, SameHeap
  DEF HeapInstruction, Fast!HeapInstruction, Fast!step
<1> QED BY <1>1, <1>2, <1>3, <1>4, <1>5, <1>6, <1>7, <1>8, <1>9, <1>10 DEF step

(* Compiling with -DUNSAFE_OPERATIONS=ON changes no step that a program    *)
(* makes without being refused: the empty macros and the xor that is left  *)
(* of clear compute what the checked build computes.                       *)
THEOREM Transparency == Spec => ChecksAreTransparent
<1>1. IInv /\ [Next]_vars => [vm'.fault \in CommonFaults => Fast!step(vm, vm')]_vars
  BY SameStep DEF IInv, TypeOK, Next, Run
<1>2. Spec => []IInv
  BY MachineInvariant, CheckedAssumption
<1> QED BY <1>1, <1>2, PTL DEF Spec, ChecksAreTransparent
=============================================================================
