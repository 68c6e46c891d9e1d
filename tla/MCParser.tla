------------------------------ MODULE MCParser ------------------------------
(***************************************************************************)
(* Instances of Parser for TLC: every text of up to four lines.            *)
(***************************************************************************)
EXTENDS Parser, MCWords

CONSTANTS alpha, beta   \* two symbols

number(n)  == [kind |-> "number", value |-> n]
at(sign, n) == [kind |-> sign, value |-> n]
name(s)    == [kind |-> "identifier", value |-> s]
difference(a, b) == [kind |-> "difference", lhs |-> a, rhs |-> b]
total(a, b)      == [kind |-> "sum", lhs |-> a, rhs |-> b]
bracketed(p)     == [kind |-> "bracketed", primitive |-> p]

Blank(labels) == [labels |-> labels, head |-> "none", operands |-> <<>>]
Directive(labels, head, operands) == [labels |-> labels, head |-> head, operands |-> operands]
Instruct(labels, op, back, operands) ==
  [labels |-> labels, head |-> "instruction", op |-> op, back |-> back, operands |-> operands]

(* Beyond a long, for words of 6 bits. *)
Huge == number(4 * HalfRange * HalfRange)

(* Among them an @ with a number behind it that is one operand, in front   *)
(* of [5] two, and with too few left for .set; [@ - 3], which is no        *)
(* difference, and [@ + x], which is nothing.                              *)
TextLines ==
  { Blank(<<>>), Blank(<<alpha>>), Blank(<<alpha, beta>>),
    Directive(<<>>, "error", <<>>),
    Instruct(<<>>, "start", FALSE, <<>>),
    Instruct(<<beta>>, "pushc", TRUE, <<difference(name(alpha), at("at_minus_n", -HalfRange))>>),
    Instruct(<<>>, "inc", FALSE, <<at("at", 0), number(2)>>),
    Instruct(<<>>, "inc", TRUE, <<number(1), number(2)>>),
    Directive(<<alpha>>, "word", <<Huge, at("at", 0), number(2 * HalfRange + 1), at("at_plus_n", 2)>>),
    Directive(<<>>, "set", <<at("at", 0), bracketed(number(5))>>),
    Directive(<<>>, "set", <<at("at", 0), number(5)>>),
    Directive(<<beta>>, "bss", <<difference(at("at", 0), number(3))>>),
    Directive(<<>>, "bss", <<total(at("at", 0), name(beta))>>) }

UpToFour == UNION { [1 .. n -> TextLines] : n \in 0 .. 4 }
=============================================================================
