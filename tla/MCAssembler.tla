---------------------------- MODULE MCAssembler ----------------------------
(***************************************************************************)
(* Instances of Assembler for TLC: the sets of programs the runs assemble. *)
(***************************************************************************)
EXTENDS Assembler, MCWords

CONSTANTS alpha, beta   \* two symbols

(* Operands. *)
sym(name) == [variant |-> "PRIMITIVE_SYMBOL", value |-> name]
const(n)  == [variant |-> "PRIMITIVE_CONSTANT", value |-> n]
at(n)     == [variant |-> "PRIMITIVE_RELATIVE", value |-> n]
plus(x, y)  == [variant |-> "COMPLEX_ADD", lhs |-> x, rhs |-> y]
minus(x, y) == [variant |-> "COMPLEX_SUB", lhs |-> x, rhs |-> y]

(* Lines. *)
instruction(labels, op, back, operand) ==
  [ variant |-> "LINE_INSTRUCTION", labels |-> labels,
    op |-> op, back |-> back, operand |-> operand ]
word(labels, data) == [variant |-> "LINE_WORDS", labels |-> labels, data |-> data]
set(labels, address, value) ==
  [variant |-> "LINE_SET", labels |-> labels, memoryAddress |-> address, value |-> value]
reserved_word(labels, size) ==
  [variant |-> "LINE_RESERVED", labels |-> labels, size |-> size]

start == instruction(<<>>, "start", FALSE, noOperand)
stop  == instruction(<<>>, "start", TRUE, noOperand)

SequencesUpTo(S, n) == UNION { [1 .. k -> S] : k \in 0 .. n }

-----------------------------------------------------------------------------
(* Memory: two or three lines of data and one of bss, with names, forward  *)
(* references, clashes and sizes that do and do not fit into the addresses *)
(* from 0 to 31.                                                           *)
DataLine ==
  { word(<<alpha>>, <<>>), word(<<>>, <<const(5)>>), word(<<alpha>>, <<sym(beta), at(1)>>),
    set(<<>>, const(0), sym(alpha)), set(<<beta>>, const(1), at(-1)), set(<<>>, const(-1), const(2)),
    set(<<>>, const(31), minus(sym(alpha), at(0))), set(<<>>, at(0), const(0)),
    set(<<beta>>, sym(alpha), minus(const(6), const(1))), set(<<>>, sym(beta), sym(alpha)) }

BssLine ==
  { reserved_word(labels, size) :
      labels \in {<<>>, <<beta>>},
      size \in { const(0), plus(const(1), const(1)), const(31), const(-1), sym(alpha) } }

MemoryPrograms ==
  { [code |-> <<start, stop>>, data |-> data, bss |-> bss] :
      data \in SequencesUpTo(DataLine, 2), bss \in SequencesUpTo(BssLine, 1) }

(* Three fixed addresses and the lines laid out around them.               *)
Around ==
  { [ code |-> <<start, stop>>,
      data |-> << word(<<alpha>>, [i \in 1 .. n |-> at(0)]), set(<<>>, const(x), const(1)),
                  set(<<>>, const(y), const(2)), set(<<>>, const(z), sym(alpha)),
                  word(<<beta>>, <<at(2), sym(beta)>>) >>,
      bss  |-> << reserved_word(<<>>, const(m)), reserved_word(<<>>, const(1)) >> ] :
      n \in 1 .. 3, x \in 0 .. 2, y \in 3 .. 4, z \in {5, 7, 30}, m \in {1, 3, 20} }

LayoutPrograms == MemoryPrograms \cup Around

-----------------------------------------------------------------------------
(* Code: one or two instructions with every kind of operand between start  *)
(* and stop, or in their place, with labels before, on and behind them.    *)
CodeOperand ==
  { noOperand, sym(alpha), sym(beta), const(-9), const(2), at(-1), at(1),
    plus(sym(beta), const(1)), minus(sym(alpha), at(0)), minus(sym(alpha), sym(beta)) }

Translated ==
  { instruction(<<>>, op, FALSE, operand) :
      op \in {"pushc", "xorhc", "branch", "add"}, operand \in CodeOperand }

Other ==
  { start, stop, instruction(<<beta>>, "start", TRUE, noOperand),
    instruction(<<beta>>, "pushc", TRUE, sym(alpha)),
    instruction(<<alpha, beta>>, "nop", FALSE, noOperand) }

CodeData ==
  { <<>>, << set(<<>>, sym(alpha), const(-20)) >>,
    << word(<<>>, <<at(0)>>), word(<<alpha>>, <<sym(beta), const(1)>>) >> }

CodePrograms ==
  { [code |-> <<first, second, third>>, data |-> data, bss |-> <<>>] :
      first  \in { start, instruction(<<beta>>, "branch", FALSE, sym(alpha)) },
      second \in Translated \cup Other,
      third  \in Other,
      data   \in CodeData }

Everything == LayoutPrograms \cup CodePrograms
=============================================================================
