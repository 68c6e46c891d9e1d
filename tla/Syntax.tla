------------------------------- MODULE Syntax -------------------------------
(***************************************************************************)
(* Parsed programs: the operands and lines the parser hands to the         *)
(* assembler, and the evaluation of operands.  Names are model values; a   *)
(* line keeps what the assembler reads of it, its number is left out.      *)
(***************************************************************************)
EXTENDS Instructions, Functions

CONSTANT Symbols   \* the names of a program

PrimitiveOperands ==
  [variant : {"PRIMITIVE_SYMBOL"}, value : Symbols] \cup
  [variant : {"PRIMITIVE_CONSTANT", "PRIMITIVE_RELATIVE"}, value : Word]

ComplexOperands ==
  [ variant : {"COMPLEX_ADD", "COMPLEX_SUB"},
    lhs : PrimitiveOperands, rhs : PrimitiveOperands ]

noOperand == [variant |-> "NO_OPERAND"]

Operands == PrimitiveOperands \cup ComplexOperands

(* The parser sorts lines into sections: instructions are code, .bss lines *)
(* are bss, .word and .set lines are data.                                 *)
Labels == Seq(Symbols)

CodeLines == [ variant : {"LINE_INSTRUCTION"}, labels : Labels,
               op : KNOWN_INSTRUCTIONS, back : BOOLEAN,
               operand : Operands \cup {noOperand} ]
DataLines == [ variant : {"LINE_WORDS"}, labels : Labels, data : Seq(Operands) ]
        \cup [ variant : {"LINE_SET"}, labels : Labels,
               memoryAddress : Operands, value : Operands ]
BssLines  == [ variant : {"LINE_RESERVED"}, labels : Labels, size : Operands ]

ParsedPrograms == [ code : Seq(CodeLines), data : Seq(DataLines), bss : Seq(BssLines) ]

-----------------------------------------------------------------------------
(* Evaluation: which operands throw invalid_operand, and the value of the  *)
(* others at a position.                                                   *)
Primitives(operand) ==
  CASE operand.variant = "NO_OPERAND" -> {}
    [] operand.variant \in {"COMPLEX_ADD", "COMPLEX_SUB"} -> {operand.lhs, operand.rhs}
    [] OTHER -> {operand}

RestrictEvaluates(operand) ==
  \A primitive \in Primitives(operand) : primitive.variant = "PRIMITIVE_CONSTANT"

Evaluates(operand, table) ==
  \A primitive \in Primitives(operand) :
    primitive.variant = "PRIMITIVE_SYMBOL" => primitive.value \in DOMAIN table

eval_primitive(primitive, position, table) ==
  CASE primitive.variant = "PRIMITIVE_SYMBOL"   -> table[primitive.value]
    [] primitive.variant = "PRIMITIVE_CONSTANT" -> primitive.value
    [] primitive.variant = "PRIMITIVE_RELATIVE" -> AddW(position, primitive.value)

eval(operand, position, table) ==
  CASE operand.variant = "NO_OPERAND"  -> 0
    [] operand.variant = "COMPLEX_ADD" ->
         AddW(eval_primitive(operand.lhs, position, table),
              eval_primitive(operand.rhs, position, table))
    [] operand.variant = "COMPLEX_SUB" ->
         SubW(eval_primitive(operand.lhs, position, table),
              eval_primitive(operand.rhs, position, table))
    [] OTHER -> eval_primitive(operand, position, table)

restrict_eval(operand) == eval(operand, 0, <<>>)

-----------------------------------------------------------------------------
(* .set with a symbol defines the symbol and takes no memory. *)
NamesSymbol(l) ==
  l.variant = "LINE_SET" /\ l.memoryAddress.variant = "PRIMITIVE_SYMBOL"

TakesMemory(l) == l.variant # "LINE_INSTRUCTION" /\ ~NamesSymbol(l)

(* The names a line defines, all with the same value. *)
Names(l) ==
  IF NamesSymbol(l) THEN <<l.memoryAddress.value>> \o l.labels ELSE l.labels

(* The operands that must be constants, and those symbols may occur in.    *)
FixedOperands(l) ==
  CASE l.variant = "LINE_RESERVED" -> {l.size}
    [] l.variant = "LINE_SET"      -> {IF NamesSymbol(l) THEN l.value ELSE l.memoryAddress}
    [] OTHER                       -> {}

OpenOperands(l) ==
  CASE l.variant = "LINE_WORDS"       -> Range(l.data)
    [] l.variant = "LINE_INSTRUCTION" -> {l.operand}
    [] l.variant = "LINE_SET"         -> IF NamesSymbol(l) THEN {} ELSE {l.value}
    [] OTHER                          -> {}

Size(l) ==
  CASE l.variant = "LINE_WORDS"    -> Len(l.data)
    [] l.variant = "LINE_RESERVED" -> restrict_eval(l.size)
    [] OTHER                       -> 1

(* A map with one entry added or overwritten. *)
With(f, x, value) == [y \in DOMAIN f \cup {x} |-> IF y = x THEN value ELSE f[y]]
=============================================================================
