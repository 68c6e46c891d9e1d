------------------------------- MODULE MCMain -------------------------------
(***************************************************************************)
(* Instances of Main for TLC: the programs in the file and the options.    *)
(***************************************************************************)
EXTENDS Main, MCWords

CONSTANTS alpha, beta, gamma   \* symbols

noOperand == [variant |-> "NO_OPERAND"]
sym(name) == [variant |-> "PRIMITIVE_SYMBOL", value |-> name]
const(n)  == [variant |-> "PRIMITIVE_CONSTANT", value |-> n]
rel(n)    == [variant |-> "PRIMITIVE_RELATIVE", value |-> n]
minus(x, y) == [variant |-> "COMPLEX_SUB", lhs |-> x, rhs |-> y]

instruction(op, back, operand) ==
  [ variant |-> "LINE_INSTRUCTION", labels |-> <<>>,
    op |-> op, back |-> back, operand |-> operand ]
fw(op)    == instruction(op, FALSE, noOperand)
bw(op)    == instruction(op, TRUE, noOperand)
fwn(op, operand) == instruction(op, FALSE, operand)
bwn(op, operand) == instruction(op, TRUE, operand)

start == fw("start")
stop  == bw("start")

Labelled(lines, name, i) == [lines EXCEPT ![i].labels = Append(@, name)]

word(labels, data) == [variant |-> "LINE_WORDS", labels |-> labels, data |-> data]

-----------------------------------------------------------------------------
(* Jumps, frames, the heap and a division between start and stop, with     *)
(* labels before and behind.                                               *)
Statements ==
  { fwn("branch", sym(alpha)), fwn("branch", sym(beta)), fwn("brf", sym(beta)),
    bwn("pushc", const(0)), fwn("asf", const(0)), fwn("pushl", const(0)),
    bwn("pushl", const(0)), fwn("pushm", const(0)), bwn("load", const(-1)),
    fw("arpushdiv"), fw("uncall") }

Positions == { <<1, 5>>, <<5, 1>>, <<4, 3>>, <<3, 3>> }   \* of alpha and beta

Short ==
  { Labelled(Labelled(<<start, fwn("pushc", const(1)), a, b, stop>>, alpha, at[1]), beta, at[2]) :
      a, b \in Statements, at \in Positions }

(* A procedure in the manner of uncall1.rsc, which is executed backwards.  *)
Uncalled ==
  << start, fwn("pushc", minus(sym(alpha), rel(1))), fw("uncall"), stop,
     Labelled(<<fwn("branch", sym(gamma))>>, beta, 1)[1],
     Labelled(<<fw("call")>>, alpha, 1)[1],
     fw("nop"),
     Labelled(<<fwn("branch", sym(beta))>>, gamma, 1)[1] >>

(* Instructions before start, which the debugger can reach.                *)
Late == << bwn("pushc", const(1)), fw("nop"), start, fwn("pushc", const(1)), stop >>
Later == << bwn("inc", const(1)), bwn("pushc", const(0)), start, fw("nop"), stop >>

FileOf(lines) ==
  [code |-> lines, data |-> <<word(<<>>, <<const(2)>>)>>, bss |-> <<>>]

Files == { FileOf(lines) : lines \in Short \cup {Uncalled, Late, Later} }

(* Both measures without the debugger, one of them with it. *)
Options ==
  { [debug |-> FALSE, measure |-> "HAMMING_WEIGHT"],
    [debug |-> FALSE, measure |-> "WORD_DIFFERENCE"],
    [debug |-> TRUE,  measure |-> "HAMMING_WEIGHT"] }

Line(command)          == [command |-> command, args |-> <<>>]
Typed(command, number) == [command |-> command, args |-> <<number>>]

Walks   == { Line("step"), Typed("step", <<-1>>), Line("run"), Line("invert"),
             Typed("breakpoint", <<3>>), Line("quit") }

NoImages == {}
=============================================================================
