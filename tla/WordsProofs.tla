---------------------------- MODULE WordsProofs ----------------------------
(***************************************************************************)
(* The arithmetic of machine words is closed: whatever an instruction      *)
(* computes is a word again.  The two halves of a word, encoded as the     *)
(* operands of pushc and xorhc, give the word back.  And induction, in the *)
(* form the provers can use: over a set of numbers, not over a predicate.  *)
(***************************************************************************)
EXTENDS Instructions, WellFoundedInduction, TLAPS

(* There are at least two words on each side of zero.                      *)
LEMMA HalfRangeNat == HalfRange \in Nat \ {0, 1}
BY WidthAssumption DEF HalfRange

(* Words are integers of a bounded range.                                  *)
LEMMA WordInt == \A a \in Word : a \in Int /\ -HalfRange <= a /\ a < HalfRange
BY HalfRangeNat DEF Word

(* A sum that is wrapped once is a word, and so on for the other           *)
(* operators.                                                              *)
LEMMA AddWord == \A a, b \in Word : AddW(a, b) \in Word
BY HalfRangeNat DEF AddW, Wrap, Word

(* The difference is a word.                                               *)
LEMMA SubWord == \A a, b \in Word : SubW(a, b) \in Word
BY HalfRangeNat DEF SubW, Wrap, Word

(* The negation is a word, that of the smallest word included.             *)
LEMMA NegWord == \A a \in Word : NegW(a) \in Word
BY HalfRangeNat DEF NegW, Wrap, Word

(* The product is a word, however many turns it wraps.                     *)
LEMMA MulWord == \A a, b \in Word : MulW(a, b) \in Word
<1> SUFFICES ASSUME NEW a \in Word, NEW b \in Word PROVE MulW(a, b) \in Word
  OBVIOUS
<1> DEFINE p == a * b + HalfRange
<1>1. p \in Int
  BY HalfRangeNat DEF Word
<1>2. p % (2 * HalfRange) \in 0 .. (2 * HalfRange - 1)
  <2> HIDE DEF p
  <2> QED BY <1>1, HalfRangeNat
<1> QED BY <1>2, HalfRangeNat DEF MulW, Word

(* Division is closed where it does not trap: only -HalfRange \div -1      *)
(* would leave the range.                                                  *)
LEMMA QuotWord ==
  ASSUME NEW a \in Word, NEW b \in Word, ~DivisionTraps(a, b)
  PROVE  QuotW(a, b) \in Word /\ RemW(a, b) \in Word
<1> DEFINE m == Magnitude(a)
           n == Magnitude(b)
<1>1. m \in Nat /\ m <= HalfRange /\ n \in Nat \ {0}
  BY HalfRangeNat DEF Magnitude, Word, DivisionTraps
<1>2. m \div n \in 0 .. m /\ m % n \in 0 .. (n - 1)
  <2> HIDE DEF m, n
  <2> QED BY <1>1
<1> QED BY <1>1, <1>2, HalfRangeNat
     DEF QuotW, RemW, Magnitude, Word, DivisionTraps

(* An operand is a word, however it is decoded. *)
LEMMA OperandWord ==
  ASSUME NEW bits \in 0 .. (2 * OPERAND_SIGN - 1)
  PROVE  sign_extend(bits) \in Word /\ UpperBits(bits) \in Word
BY WidthAssumption DEF sign_extend, UpperBits, Word, HalfRange

-----------------------------------------------------------------------------
(* Division with a remainder that is not negative. *)
LEMMA Division ==
  ASSUME NEW a \in Int, NEW n \in Nat \ {0}
  PROVE  /\ a \div n \in Int /\ a % n \in 0 .. (n - 1)
         /\ a = n * (a \div n) + (a % n)
OBVIOUS

(* The remainder of a number that is at most one turn off.                 *)
LEMMA Remainder ==
  ASSUME NEW a \in Int, NEW n \in Nat \ {0}
  PROVE  /\ 0 <= a /\ a < n => a % n = a
         /\ -n <= a /\ a < 0 => a % n = a + n
OBVIOUS

(* The low half of a word, read as a signed number, is the word when the   *)
(* word is small enough.                                                   *)
LEMMA LowRestores ==
  ASSUME NEW value \in -OPERAND_SIGN .. (OPERAND_SIGN - 1)
  PROVE  sign_extend(operand_low_value(value)) = value
<1>1. /\ value \in Int /\ OPERAND_SIGN \in Nat \ {0}
      /\ -OPERAND_SIGN <= value /\ value < OPERAND_SIGN
  BY WidthAssumption
<1>2. value % OPERAND_SIGN = IF value < 0 THEN value + OPERAND_SIGN ELSE value
  <2>1. 0 <= value => value % OPERAND_SIGN = value
    BY <1>1, Remainder
  <2>2. value < 0 => value % OPERAND_SIGN = value + OPERAND_SIGN
    BY <1>1, Remainder
  <2> QED BY <1>1, <2>1, <2>2
<1> DEFINE low == value % OPERAND_SIGN
<1>3. operand_low_value(value) = low + (IF value < 0 THEN OPERAND_SIGN ELSE 0)
  BY DEF operand_low_value
<1> HIDE DEF low
<1> QED BY <1>1, <1>2, <1>3 DEF sign_extend, low

(* pushc and xorhc together load any word.                                 *)
LEMMA HalvesRestore ==
  ASSUME NEW value \in Word
  PROVE  BitXor(sign_extend(operand_low_value(value)),
                UpperBits(operand_high_value(value))) = value
<1>1. value \in Int /\ OPERAND_SIGN \in Nat \ {0} /\ 2 * OPERAND_SIGN \in Nat \ {0}
      /\ -HalfRange <= value /\ value < HalfRange
  BY WidthAssumption, WordInt
<1> PICK q \in Int, low \in 0 .. (OPERAND_SIGN - 1) :
           /\ q = value \div OPERAND_SIGN /\ low = value % OPERAND_SIGN
           /\ value = OPERAND_SIGN * q + low
  BY <1>1, Division
<1>2. -2 * OPERAND_SIGN <= q /\ q < 2 * OPERAND_SIGN
  BY <1>1 DEF HalfRange
<1>3. value < 0 <=> q < 0
  BY <1>1
<1>4. sign_extend(operand_low_value(value)) = IF value < 0 THEN low - OPERAND_SIGN ELSE low
  <2>1. operand_low_value(value) = low + (IF value < 0 THEN OPERAND_SIGN ELSE 0)
    BY DEF operand_low_value
  <2> QED BY <1>1, <2>1 DEF sign_extend
<1>5. q % (2 * OPERAND_SIGN) = IF q < 0 THEN q + 2 * OPERAND_SIGN ELSE q
  BY <1>1, <1>2, Remainder
<1>6. operand_high_value(value) = IF value < 0 THEN -1 - q ELSE q
  <2>1. operand_high_value(value) = IF value < 0 THEN 2 * OPERAND_SIGN - 1 - (q % (2 * OPERAND_SIGN))
                                                 ELSE q % (2 * OPERAND_SIGN)
    BY DEF operand_high_value
  <2> QED BY <1>1, <1>2, <1>3, <1>5, <2>1
<1>7. CASE value < 0
  <2>1. BitXor(low - OPERAND_SIGN, (-1 - q) * OPERAND_SIGN) =
          low - OPERAND_SIGN - ((-1 - q) * OPERAND_SIGN)
    <3>1. /\ low - OPERAND_SIGN \in -OPERAND_SIGN .. (OPERAND_SIGN - 1)
          /\ low - OPERAND_SIGN < 0 /\ -1 - q \in 0 .. (2 * OPERAND_SIGN - 1)
      BY <1>1, <1>2, <1>3, <1>7
    <3> QED BY <3>1, XorAssumption
  <2>2. low - OPERAND_SIGN - ((-1 - q) * OPERAND_SIGN) = value
    BY <1>1
  <2> QED BY <1>4, <1>6, <1>7, <2>1, <2>2 DEF UpperBits
<1>8. CASE ~(value < 0)
  <2>1. BitXor(low, q * OPERAND_SIGN) = low + (q * OPERAND_SIGN)
    <3>1. /\ low \in -OPERAND_SIGN .. (OPERAND_SIGN - 1)
          /\ ~(low < 0) /\ q \in 0 .. (2 * OPERAND_SIGN - 1)
      BY <1>1, <1>2, <1>3, <1>8
    <3> QED BY <3>1, XorAssumption
  <2>2. low + (q * OPERAND_SIGN) = value
    BY <1>1
  <2> QED BY <1>4, <1>6, <1>8, <2>1, <2>2 DEF UpperBits
<1> QED BY <1>7, <1>8

-----------------------------------------------------------------------------
(* A set of numbers that is not empty has a least element.                 *)
LEMMA LeastNumber ==
  ASSUME NEW T \in SUBSET Nat, T # {}
  PROVE  \E n \in T : \A m \in T : ~(m < n)
<1>1. IsWellFoundedOn(OpToRel(<, Nat), Nat)
  BY NatLessThanWellFounded
<1>2. \E x \in T : \A y \in T : ~(<<y, x>> \in OpToRel(<, Nat))
  BY <1>1, WFMin
<1>3. \A x, y \in Nat : <<y, x>> \in OpToRel(<, Nat) <=> y < x
  BY DEF OpToRel
<1> QED BY <1>2, <1>3

(* Induction.                                                              *)
LEMMA Induction ==
  ASSUME NEW T \in SUBSET Nat, 0 \in T, \A n \in T : n + 1 \in T
  PROVE  T = Nat
<1> SUFFICES ASSUME Nat \ T # {} PROVE FALSE
  OBVIOUS
<1>1. PICK n \in Nat \ T : \A m \in Nat \ T : ~(m < n)
  BY LeastNumber
<1>2. n - 1 \in Nat /\ n - 1 < n
  BY <1>1
<1>3. n - 1 \in T
  BY <1>1, <1>2
<1> QED BY <1>1, <1>3
=============================================================================
