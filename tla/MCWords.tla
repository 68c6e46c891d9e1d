------------------------------ MODULE MCWords ------------------------------
(***************************************************************************)
(* Bitwise operators for TLC, on words of the width of the instance.       *)
(***************************************************************************)
EXTENDS Words, Bitwise

WordBits == CHOOSE bits \in 1 .. 32 : 2^bits = 2 * HalfRange

Unsigned(a) == a % (2 * HalfRange)
Signed(u)   == IF u >= HalfRange THEN u - 2 * HalfRange ELSE u

AndBits(a, b) == Signed(Unsigned(a) & Unsigned(b))
OrBits(a, b)  == Signed(Unsigned(a) | Unsigned(b))
XorBits(a, b) == Signed(Unsigned(a) ^^ Unsigned(b))

Rotate(a, n) ==
  LET k == n % WordBits
      u == Unsigned(a)
  IN  Signed(((u * 2^k) % (2 * HalfRange)) + (u \div 2^(WordBits - k)))

RotLBits(a, n) == Rotate(a, n)
RotRBits(a, n) == Rotate(a, -n)
=============================================================================
