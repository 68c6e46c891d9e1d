------------------------------- MODULE Words -------------------------------
(***************************************************************************)
(* Machine words.  The virtual machine keeps every register, stack slot    *)
(* and memory cell in an int32_t and computes on them with the operators   *)
(* of C++ as the x86-64 build executes them: sums, differences, negations  *)
(* and products wrap around, quotients truncate towards zero.              *)
(*                                                                         *)
(* The width is a parameter.  OPERAND_SIGN is the sign bit of an           *)
(* instruction operand; an operand has the values 0 .. 2*OPERAND_SIGN-1    *)
(* and a word is as wide as an opcode and an operand, two halves of one    *)
(* size.  In the source OPERAND_SIGN = 2^15 and words have 32 bits.        *)
(*                                                                         *)
(* The bitwise operators are parameters too: the model needs no more of    *)
(* them than the laws BitwiseAssumption and XorAssumption state, which the *)
(* model checker evaluates for the operators its configurations supply.    *)
(***************************************************************************)
EXTENDS Integers

CONSTANTS
  OPERAND_SIGN,   \* 1 << (OPERAND_WIDTH - 1)
  BitAnd(_, _),   \* a & b
  BitOr(_, _),    \* a | b
  BitXor(_, _),   \* a ^ b
  RotL(_, _),     \* std::rotl on the bits of a word
  RotR(_, _)      \* std::rotr on the bits of a word

ASSUME WidthAssumption == OPERAND_SIGN \in Nat \ {0}

(* Half the number of words: words are the two's complement integers from  *)
(* -HalfRange up to HalfRange - 1.                                         *)
HalfRange == 2 * OPERAND_SIGN * OPERAND_SIGN

Word == -HalfRange .. (HalfRange - 1)

ASSUME BitwiseAssumption ==
  /\ \A a, b \in Word : BitAnd(a, b) \in Word /\ BitOr(a, b) \in Word
  /\ \A a, b \in Word : BitXor(a, b) \in Word
  /\ \A a, b \in Word : (BitXor(a, b) = 0) <=> (a = b)
  /\ \A a, b \in Word : BitXor(BitXor(a, b), b) = a
  /\ \A a, n \in Word : RotL(a, n) \in Word /\ RotR(a, n) \in Word
  /\ \A a, n \in Word : RotR(RotL(a, n), n) = a /\ RotL(RotR(a, n), n) = a

(* xor with upper bits sets them in a number whose own are 0 and clears    *)
(* them in one whose own are 1.                                            *)
ASSUME XorAssumption ==
  \A a \in -OPERAND_SIGN .. (OPERAND_SIGN - 1), n \in 0 .. (2 * OPERAND_SIGN - 1) :
    BitXor(a, n * OPERAND_SIGN) = IF a < 0 THEN a - n * OPERAND_SIGN
                                           ELSE a + n * OPERAND_SIGN

-----------------------------------------------------------------------------
(* A sum or difference of two words is off by at most one full turn.       *)
Wrap(x) ==
  CASE x >= HalfRange  -> x - 2 * HalfRange
    [] x < -HalfRange  -> x + 2 * HalfRange
    [] OTHER           -> x

AddW(a, b) == Wrap(a + b)
SubW(a, b) == Wrap(a - b)
NegW(a)    == Wrap(-a)

(* A product may be off by many turns. *)
MulW(a, b) == ((a * b + HalfRange) % (2 * HalfRange)) - HalfRange

Magnitude(a) == IF a < 0 THEN -a ELSE a

(* idiv: the quotient is truncated, the remainder has the dividend's sign. *)
QuotW(a, b) ==
  LET q == Magnitude(a) \div Magnitude(b)
  IN  IF (a < 0) = (b < 0) THEN q ELSE -q

RemW(a, b) ==
  LET r == Magnitude(a) % Magnitude(b)
  IN  IF a < 0 THEN -r ELSE r

(* The operands for which C++ leaves / and % undefined, and for which the  *)
(* idiv instruction they are compiled to raises SIGFPE.                    *)
DivisionTraps(a, b) == b = 0 \/ (a = -HalfRange /\ b = -1)
=============================================================================
