------------------------------- MODULE Parser -------------------------------
(***************************************************************************)
(* The actions of the grammar and parse_file: how the lines of a text      *)
(* become the three sections of a program.  The rules for lines are right- *)
(* recursive: the parser reads to the end of the text, keeps every line on *)
(* its stack, and prepends the lines to their sections while it unwinds.   *)
(*                                                                         *)
(* A line is what stands between two LINEBREAK tokens: a record of its     *)
(* labels, what its statement starts with ("none" without one; a dot       *)
(* stands in front of word, set and bss), and its operands as the writer   *)
(* spells them; "error" starts what no rule accepts.  The tokens do not    *)
(* tell where an operand ends: behind an @ bison resolves the conflicts of *)
(* the grammar by shifting, whatever the writer means.                     *)
(***************************************************************************)
EXTENDS Syntax, SequencesExt

CONSTANT Texts   \* the files

Heads == {"none", "instruction", "word", "set", "bss", "error"}

(* The operands of the grammar, as they are spelled: a primitive is a name,*)
(* a number, or an @ ("at") with or without a sign and a number behind it; *)
(* in brackets it stands alone, or in a sum or a difference.               *)
SpelledPrimitives ==
  [kind : {"identifier"}, value : Symbols] \cup
  [kind : {"number", "at", "at_n", "at_plus_n", "at_minus_n"}, value : Int]

SpelledOperands ==
  SpelledPrimitives \cup
  [kind : {"bracketed"}, primitive : SpelledPrimitives] \cup
  [kind : {"sum", "difference"}, lhs : SpelledPrimitives, rhs : SpelledPrimitives]

IsLine(l) ==
  /\ l.labels \in Labels /\ l.head \in Heads /\ l.operands \in Seq(SpelledOperands)
  /\ l.head = "instruction" => l.op \in KNOWN_INSTRUCTIONS /\ l.back \in BOOLEAN

ASSUME TextsAssumption ==
  \A text \in Texts : text \in Seq(Range(text)) /\ \A l \in Range(text) : IsLine(l)

VARIABLES
  text,         \* the file
  position,     \* the line that is read next
  linenumber,   \* the parser's own count of lines
  pending,      \* the labels that wait for a statement
  stack,        \* the lines that have been read
  failed,       \* has an error been detected?
  sections,     \* code, data and bss
  outcome       \* "reading", "unwinding", "parsed" or "parse_error"

vars == <<text, position, linenumber, pending, stack, failed, sections, outcome>>

-----------------------------------------------------------------------------
(* strtol saturates at the ends of a long, which has twice the bits of an  *)
(* int; the scanner cuts that to an int.  The minus behind an @ is not     *)
(* part of the number.                                                     *)
HalfLong == 2 * HalfRange * HalfRange

strtol(n) == IF n < -HalfLong THEN -HalfLong ELSE IF n >= HalfLong THEN HalfLong - 1 ELSE n

NUMBER(n) == ((strtol(n) + HalfRange) % (2 * HalfRange)) - HalfRange

primitive(p) ==
  CASE p.kind = "identifier" -> [variant |-> "PRIMITIVE_SYMBOL", value |-> p.value]
    [] p.kind = "number"     -> [variant |-> "PRIMITIVE_CONSTANT", value |-> NUMBER(p.value)]
    [] p.kind = "at"         -> [variant |-> "PRIMITIVE_RELATIVE", value |-> 0]
    [] p.kind \in {"at_n", "at_plus_n"} -> [variant |-> "PRIMITIVE_RELATIVE", value |-> NUMBER(p.value)]
    [] p.kind = "at_minus_n" -> [variant |-> "PRIMITIVE_RELATIVE", value |-> NegW(NUMBER(p.value))]

(* Behind [@ a sign is that of the @, and must have a number behind it.    *)
SignOfAt(o) == o.kind \in {"sum", "difference"} /\ o.lhs.kind = "at"

Malformed(o) == SignOfAt(o) /\ o.rhs.kind # "number"

operand(o) ==
  CASE SignOfAt(o) ->
         primitive([ kind  |-> IF o.kind = "sum" THEN "at_plus_n" ELSE "at_minus_n",
                     value |-> o.rhs.value ])
    [] o.kind = "sum" /\ ~SignOfAt(o) ->
         [variant |-> "COMPLEX_ADD", lhs |-> primitive(o.lhs), rhs |-> primitive(o.rhs)]
    [] o.kind = "difference" /\ ~SignOfAt(o) ->
         [variant |-> "COMPLEX_SUB", lhs |-> primitive(o.lhs), rhs |-> primitive(o.rhs)]
    [] o.kind = "bracketed" -> primitive(o.primitive)
    [] OTHER -> primitive(o)

(* A number behind an @ is that of the @, on a line with operands too.     *)
BelongsToAt(l, k) ==
  /\ k \in DOMAIN l.operands /\ l.operands[k].kind = "number"
  /\ k > 1 /\ l.operands[k - 1].kind = "at"

OperandsAt(l, k) ==
  CASE BelongsToAt(l, k)     -> <<>>
    [] BelongsToAt(l, k + 1) -> <<primitive([kind |-> "at_n", value |-> l.operands[k + 1].value])>>
    [] OTHER                 -> <<operand(l.operands[k])>>

(* The operands the parser finds. *)
OperandsOf(l) == FlattenSeq([k \in 1 .. Len(l.operands) |-> OperandsAt(l, k)])

(* Which lines bison accepts.  Every instruction may have an operand or    *)
(* none.                                                                   *)
Accepted(l) ==
  /\ Len(l.labels) <= 1
  /\ \A k \in DOMAIN l.operands : ~Malformed(l.operands[k])
  /\ CASE l.head = "none"        -> l.operands = <<>>
       [] l.head = "instruction" -> Len(OperandsOf(l)) <= 1
       [] l.head = "word"        -> TRUE
       [] l.head = "set"         -> Len(OperandsOf(l)) = 2
       [] l.head = "bss"         -> Len(OperandsOf(l)) = 1
       [] l.head = "error"       -> FALSE

(* mkInstruction, mkWords, mkSetValue and mkReservedWords. *)
Line(l, labels, number) ==
  LET operands == OperandsOf(l)
  IN  [ number |-> number,
        line   |->
          CASE l.head = "instruction" ->
                 [ variant |-> "LINE_INSTRUCTION", labels |-> labels, op |-> l.op,
                   back |-> l.back,
                   operand |-> IF operands = <<>> THEN noOperand ELSE operands[1] ]
            [] l.head = "word" ->
                 [variant |-> "LINE_WORDS", labels |-> labels, data |-> operands]
            [] l.head = "set" ->
                 [ variant |-> "LINE_SET", labels |-> labels,
                   memoryAddress |-> operands[1], value |-> operands[2] ]
            [] l.head = "bss" ->
                 [variant |-> "LINE_RESERVED", labels |-> labels, size |-> operands[1]] ]

SectionFor(variant) ==
  CASE variant = "LINE_RESERVED"               -> "bss"
    [] variant \in {"LINE_WORDS", "LINE_SET"}  -> "data"
    [] variant = "LINE_INSTRUCTION"            -> "code"

-----------------------------------------------------------------------------
Current == text[position]

Reading == outcome = "reading" /\ position <= Len(text)

NextLine == position' = position + 1 /\ linenumber' = linenumber + 1

(* A blank line, or one of a label only. *)
ReadLabels ==
  /\ Reading
  /\ Accepted(Current) /\ Current.head = "none"
  /\ pending' = pending \o Current.labels
  /\ NextLine
  /\ UNCHANGED <<text, stack, failed, sections, outcome>>

ReadStatement ==
  /\ Reading
  /\ Accepted(Current) /\ Current.head # "none"
  /\ stack' = Append(stack, Line(Current, pending \o Current.labels, linenumber))
  /\ pending' = <<>>
  /\ NextLine
  /\ UNCHANGED <<text, failed, sections, outcome>>

(* error endofline lines: what has been read of a line and its labels is   *)
(* dropped, and reading goes on behind the next line break.                *)
Recover ==
  /\ Reading
  /\ ~Accepted(Current)
  /\ failed' = TRUE
  /\ pending' = <<>>
  /\ NextLine
  /\ UNCHANGED <<text, stack, sections, outcome>>

(* Mutant: labels behind the last statement are forgotten. *)
EndOfFileDropsLabels ==
  /\ outcome = "reading" /\ position > Len(text)
  /\ outcome' = "unwinding"
  /\ UNCHANGED <<text, position, linenumber, pending, stack, failed, sections>>

(* Labels need a statement. *)
EndOfFile ==
  /\ outcome = "reading" /\ position > Len(text)
  /\ failed' = (failed \/ pending # <<>>)
  /\ outcome' = "unwinding"
  /\ UNCHANGED <<text, position, linenumber, pending, stack, sections>>

(* Mutant: the sections come out in the order of reading. *)
AppendList ==
  /\ outcome = "unwinding" /\ stack # <<>>
  /\ LET section == SectionFor(Last(stack).line.variant)
     IN  sections' = [sections EXCEPT ![section] = Append(@, Last(stack))]
  /\ stack' = Front(stack)
  /\ UNCHANGED <<text, position, linenumber, pending, failed, outcome>>

preprendList ==
  /\ outcome = "unwinding" /\ stack # <<>>
  /\ LET section == SectionFor(Last(stack).line.variant)
     IN  sections' = [sections EXCEPT ![section] = <<Last(stack)>> \o @]
  /\ stack' = Front(stack)
  /\ UNCHANGED <<text, position, linenumber, pending, failed, outcome>>

(* finishProgram and parse_file. *)
Finish ==
  /\ outcome = "unwinding" /\ stack = <<>>
  /\ outcome' = IF failed THEN "parse_error" ELSE "parsed"
  /\ UNCHANGED <<text, position, linenumber, pending, stack, failed, sections>>

Init ==
  /\ text \in Texts
  /\ position = 1
  /\ linenumber = 1
  /\ pending = <<>>
  /\ stack = <<>>
  /\ failed = FALSE
  /\ sections = [code |-> <<>>, data |-> <<>>, bss |-> <<>>]
  /\ outcome = "reading"

Next == ReadLabels \/ ReadStatement \/ Recover \/ EndOfFile \/ preprendList \/ Finish

Spec == Init /\ [][Next]_vars

-----------------------------------------------------------------------------
(* What parse_file returns. *)
Program ==
  [section \in DOMAIN sections |->
     [n \in DOMAIN sections[section] |-> sections[section][n].line]]

(* What the text says, without a stack: the statements in their order,     *)
(* each with its own label and those of the lines between it and the       *)
(* statement in front, and the number of its line.                         *)
Statements == { n \in DOMAIN text : text[n].head # "none" }

(* The line behind the last statement in front of line n. *)
Behind(n) ==
  CHOOSE m \in 1 .. n : /\ m = 1 \/ (m - 1) \in Statements
                        /\ \A k \in m .. (n - 1) : k \notin Statements

LabelsBefore(n) ==
  FlattenSeq([k \in 1 .. (n - Behind(n)) |-> text[Behind(n) + k - 1].labels])

Written(n) == Line(text[n], LabelsBefore(n) \o text[n].labels, n)

StatementsOf(section) ==
  { n \in Statements : SectionFor(Written(n).line.variant) = section }

(* What the lines say of a section: its statements, in their order. *)
Lists(lines, section) ==
  LET numbers == [k \in DOMAIN lines |-> lines[k].number]
  IN  /\ Range(numbers) = StatementsOf(section)
      /\ \A j, k \in DOMAIN lines : j < k => numbers[j] < numbers[k]
      /\ \A k \in DOMAIN lines : lines[k] = Written(numbers[k])

(* The program that is parsed is the one that is written, although it is   *)
(* built from its end: every section in the order of the text, with the    *)
(* labels on the statements they stand before, and the line numbers the    *)
(* assembler's messages name.  It is one the assembler expects.            *)
ParsesWhatIsWritten ==
  outcome = "parsed" =>
    /\ \A section \in DOMAIN sections : Lists(sections[section], section)
    /\ Program \in ParsedPrograms

(* A text with a line the parser does not accept, or with labels behind    *)
(* the last statement, is refused as a whole, wherever that line is and    *)
(* however well the parser has recovered from it; no other is.  Accepted   *)
(* are the lines of the grammar with its conflicts resolved by shifting.   *)
RefusesWhatIsNot ==
  /\ outcome = "parse_error" =>
       \/ \E n \in DOMAIN text : ~Accepted(text[n])
       \/ \E n \in DOMAIN text : text[n].labels # <<>> /\ \A m \in n .. Len(text) : m \notin Statements
  /\ outcome = "parsed" =>
       /\ \A n \in DOMAIN text : Accepted(text[n])
       /\ \A n \in DOMAIN text : text[n].labels # <<>> => \E m \in n .. Len(text) : m \in Statements
=============================================================================
