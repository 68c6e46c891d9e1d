---------------------------- MODULE Instructions ----------------------------
(***************************************************************************)
(* The instruction set and the encoding of operands.                       *)
(*                                                                         *)
(* Instructions come in pairs of inverses.  An instruction word is         *)
(* modelled by a record: op names the pair (by its forward mnemonic), back *)
(* is the DIRECTION_BIT of the opcode, which selects the backward member   *)
(* of the pair, and bits is the operand half of the word.                  *)
(***************************************************************************)
EXTENDS Words, Sequences

KNOWN_INSTRUCTIONS ==
  { "start", "nop", "pushc", "dup", "swap", "bury", "allocpar", "asf",
    "pushl", "call", "uncall", "branch", "brt", "brf", "pushtrue",
    "pushfalse", "cmpusheq", "cmpushne", "cmpushlt", "cmpushle", "inc",
    "neg", "add", "xor", "shl", "arpushadd", "arpushsub", "arpushmul",
    "arpushdiv", "arpushmod", "arpushand", "arpushor", "pushm", "load",
    "memswap", "xorhc" }

Instruction ==
  [ op   : KNOWN_INSTRUCTIONS,
    back : BOOLEAN,
    bits : 0 .. (2 * OPERAND_SIGN - 1) ]

(* OperandMode: which instructions take an operand, and what they make of  *)
(* it: its value, its distance from the instruction, or its upper bits.    *)
ABSOLUTE == { "pushc", "allocpar", "asf", "pushl", "inc", "pushm", "load",
              "memswap" }
RELATIVE == { "branch", "brt", "brf" }
UPPER    == { "xorhc" }

(* The instructions that are their own inverses have one mnemonic.         *)
SelfInverse == { "nop", "swap", "call", "uncall", "branch", "brt", "brf",
                 "neg", "xor", "memswap", "xorhc" }

IsStart(i) == i.op = "start" /\ ~i.back
IsStop(i)  == i.op = "start" /\ i.back

(* What assemble returns: a program has exactly one start, where execution *)
(* begins, and one stop.                                                   *)
Runnable(image) ==
  /\ image.code \in Seq(Instruction)
  /\ Len(image.code) < HalfRange
  /\ image.entry \in 0 .. (Len(image.code) - 1)
  /\ \A i \in DOMAIN image.code :
       IsStart(image.code[i]) <=> (i = image.entry + 1)
  /\ \E i \in DOMAIN image.code : \A j \in DOMAIN image.code :
       IsStop(image.code[j]) <=> (j = i)
  /\ DOMAIN image.layout \subseteq Word
  /\ \A address \in DOMAIN image.layout : image.layout[address] \in Word

-----------------------------------------------------------------------------
(* Decoding: the operand half of a word, read as a signed number ...       *)
sign_extend(bits) ==
  IF bits >= OPERAND_SIGN THEN bits - 2 * OPERAND_SIGN ELSE bits

(* ... or shifted to the upper bits (the sign bit excepted), for xorhc.    *)
UpperBits(bits) == bits * OPERAND_SIGN

(* Encoding: the low bits of a word with the sign of the word, and ...     *)
operand_low_value(value) ==
  (value % OPERAND_SIGN) + (IF value < 0 THEN OPERAND_SIGN ELSE 0)

(* ... the bits above them, inverted when the low half sign-extends to     *)
(* ones, so that pushc v, xorhc v leaves v on the stack for every word v.  *)
operand_high_value(value) ==
  LET higher_bits == (value \div OPERAND_SIGN) % (2 * OPERAND_SIGN)
  IN  IF value < 0 THEN 2 * OPERAND_SIGN - 1 - higher_bits ELSE higher_bits
=============================================================================
