------------------------------ MODULE Entropy ------------------------------
(***************************************************************************)
(* report_entropy: how much of a machine differs from what the program     *)
(* describes, in bits or in words.  Counted are the memory, the slots      *)
(* below the stack pointer and the stack pointer.                          *)
(***************************************************************************)
EXTENDS Machine, FiniteSetsExt

(* std::popcount of the bits of a word. *)
popcount(a) ==
  LET ones[n \in 0 .. (2 * HalfRange - 1)] ==
        IF n = 0 THEN 0 ELSE (n % 2) + ones[n \div 2]
  IN  ones[a % (2 * HalfRange)]

hamming_weight(a, b)  == popcount(BitXor(a, b))
word_difference(a, b) == IF a # b THEN 1 ELSE 0

Expected(layout, address) ==
  IF address \in DOMAIN layout THEN layout[address] ELSE 0

(* The slots are read without a check, as far as the stack pointer says.   *)
Counted(s) == 0 .. (s.sp - 1)

(* A template of the function that compares two words. *)
difference(measure, a, b) ==
  CASE measure = "HAMMING_WEIGHT"  -> hamming_weight(a, b)
    [] measure = "WORD_DIFFERENCE" -> word_difference(a, b)

count_entropy(measure, layout, s) ==
  LET InMemory(address) == difference(measure, s.memory[address], Expected(layout, address))
      OnStack(i)        == difference(measure, s.stack[i], 0)
  IN  MapThenSumSet(InMemory, Addresses)
        + MapThenSumSet(OnStack, Counted(s))
        + difference(measure, s.sp, 0)

(* The bits or the words reported; nothing without a measure.  (The word   *)
(* measure also prints the words times 32.)                                *)
report_entropy(measure, layout, s) ==
  IF measure = "NONE" THEN 0 ELSE count_entropy(measure, layout, s)
=============================================================================
