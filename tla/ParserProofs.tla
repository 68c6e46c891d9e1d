---------------------------- MODULE ParserProofs ----------------------------
(***************************************************************************)
(* The parser reads what is written: for every text, and whatever the      *)
(* words of the machine.  While it reads, its stack is the list of the     *)
(* statements in front of it, and while it unwinds, the sections list the  *)
(* statements behind those that are still on the stack.                    *)
(***************************************************************************)
EXTENDS Parser, WordsProofs, SequenceTheorems

-----------------------------------------------------------------------------
(***************************************************************************)
(* FlattenSeq, one sequence at a time.                                     *)
(***************************************************************************)
Flattens(f, s, n) ==
  f = [i \in 1 .. n |-> IF i = 1 THEN s[i] ELSE f[i - 1] \o s[i]]

(* The recursive function in FlattenSeq exists. *)
LEMMA FlattenExists == \A s : \A n \in Nat : \E f : Flattens(f, s, n)
<1> TAKE s
<1> DEFINE Reached == {n \in Nat : \E f : Flattens(f, s, n)}
<1>1. 0 \in Reached
  <2>1. Flattens([i \in 1 .. 0 |-> s[i]], s, 0)
    BY DEF Flattens
  <2> QED BY <2>1
<1>2. ASSUME NEW n \in Reached PROVE n + 1 \in Reached
  <2> PICK f : Flattens(f, s, n)
    OBVIOUS
  <2> DEFINE last == IF n = 0 THEN s[n + 1] ELSE f[n] \o s[n + 1]
             g == [i \in 1 .. (n + 1) |-> IF i <= n THEN f[i] ELSE last]
  <2>1. \A i \in 1 .. n : f[i] = IF i = 1 THEN s[i] ELSE f[i - 1] \o s[i]
    BY DEF Flattens
  <2>2. \A i \in 1 .. n : g[i] = f[i]
    <3> HIDE DEF last
    <3> QED OBVIOUS
  <2>3. g[n + 1] = last
    <3> HIDE DEF last
    <3> QED OBVIOUS
  <2>4. \A i \in 1 .. (n + 1) : g[i] = IF i = 1 THEN s[i] ELSE g[i - 1] \o s[i]
    <3> TAKE i \in 1 .. (n + 1)
    <3>1. CASE i = 1 /\ n = 0
      <4>1. i = n + 1
        BY <3>1
      <4> HIDE DEF g
      <4> QED BY <2>3, <3>1, <4>1
    <3>2. CASE i \in 1 .. n
      <4>1. i = 1 \/ i - 1 \in 1 .. n
        BY <3>2
      <4> HIDE DEF g
      <4> QED BY <2>1, <2>2, <3>2, <4>1
    <3>3. CASE i = n + 1 /\ n # 0
      <4>1. i - 1 = n /\ n \in 1 .. n /\ i # 1
        BY <3>3
      <4> HIDE DEF g
      <4> QED BY <2>2, <2>3, <3>3, <4>1
    <3> QED BY <3>1, <3>2, <3>3
  <2> HIDE DEF g
  <2>5. g = [i \in 1 .. (n + 1) |-> g[i]]
    BY DEF g
  <2>6. Flattens(g, s, n + 1)
    BY <2>4, <2>5 DEF Flattens
  <2> QED BY <2>6
<1>3. Reached = Nat
  <2> HIDE DEF Reached
  <2>1. Reached \in SUBSET Nat
    BY DEF Reached
  <2> QED BY <1>1, <1>2, <2>1, Induction
<1> QED BY <1>3

(* Two runs of it agree as far as both go. *)
LEMMA FlattensAgree ==
  ASSUME NEW f, NEW g, NEW s, NEW t, NEW m \in Nat, NEW n \in Nat, m <= n,
         Flattens(f, s, m), Flattens(g, t, n), \A i \in 1 .. m : s[i] = t[i]
  PROVE  \A i \in 1 .. m : f[i] = g[i]
<1> DEFINE Same == {i \in Nat : i \in 1 .. m => f[i] = g[i]}
<1>1. \A i \in 1 .. m : f[i] = IF i = 1 THEN s[i] ELSE f[i - 1] \o s[i]
  BY DEF Flattens
<1>2. \A i \in 1 .. n : g[i] = IF i = 1 THEN t[i] ELSE g[i - 1] \o t[i]
  BY DEF Flattens
<1>3. 0 \in Same
  OBVIOUS
<1>4. ASSUME NEW i \in Same PROVE i + 1 \in Same
  <2> SUFFICES ASSUME i + 1 \in 1 .. m PROVE f[i + 1] = g[i + 1]
    OBVIOUS
  <2>1. i + 1 \in 1 .. n /\ (i + 1) - 1 = i
    OBVIOUS
  <2>2. i + 1 = 1 \/ f[i] = g[i]
    OBVIOUS
  <2> QED BY <1>1, <1>2, <2>1, <2>2
<1>5. Same = Nat
  <2> HIDE DEF Same
  <2>1. Same \in SUBSET Nat
    BY DEF Same
  <2> QED BY <1>3, <1>4, <2>1, Induction
<1> QED BY <1>5

LEMMA FlattenValue ==
  ASSUME NEW n \in Nat \ {0}, NEW s, s = [i \in 1 .. n |-> s[i]]
  PROVE  \E f : Flattens(f, s, n) /\ FlattenSeq(s) = f[n]
<1>1. Len(s) = n
  OBVIOUS
<1> DEFINE flatten == CHOOSE f : Flattens(f, s, n)
<1>2. Flattens(flatten, s, n)
  <2> HIDE DEF Flattens
  <2> QED BY FlattenExists
<1>3. FlattenSeq(s) = flatten[n]
  BY <1>1 DEF FlattenSeq, Flattens
<1> QED BY <1>2, <1>3

LEMMA FlattenNone == FlattenSeq(<<>>) = <<>>
BY DEF FlattenSeq

(* One sequence more.                                                      *)
LEMMA FlattenMore ==
  ASSUME NEW S, NEW n \in Nat, NEW s \in [1 .. n + 1 -> Seq(S)]
  PROVE  FlattenSeq(s) = FlattenSeq([i \in 1 .. n |-> s[i]]) \o s[n + 1]
<1> DEFINE r == [i \in 1 .. n |-> s[i]]
<1>1. PICK g : Flattens(g, s, n + 1) /\ FlattenSeq(s) = g[n + 1]
  BY FlattenValue
<1>2. \A i \in 1 .. (n + 1) : g[i] = IF i = 1 THEN s[i] ELSE g[i - 1] \o s[i]
  BY <1>1 DEF Flattens
<1>3. CASE n = 0
  <2>1. r = <<>>
    BY <1>3
  <2>2. FlattenSeq(r) = <<>>
    BY <2>1, FlattenNone
  <2>3. g[n + 1] = s[n + 1] /\ s[n + 1] \in Seq(S)
    BY <1>2, <1>3
  <2>4. <<>> \o s[n + 1] = s[n + 1]
    BY <2>3, ConcatEmptySeq
  <2> QED BY <1>1, <2>2, <2>3, <2>4
<1>4. CASE n # 0
  <2> HIDE DEF r
  <2>1. r = [i \in 1 .. n |-> r[i]] /\ \A i \in 1 .. n : r[i] = s[i]
    BY DEF r
  <2>2. PICK f : Flattens(f, r, n) /\ FlattenSeq(r) = f[n]
    BY <1>4, <2>1, FlattenValue
  <2>3. f[n] = g[n]
    <3>1. n + 1 \in Nat /\ n <= n + 1 /\ n \in 1 .. n
      BY <1>4
    <3> QED BY <1>1, <2>1, <2>2, <3>1, FlattensAgree
  <2>4. g[n + 1] = g[n] \o s[n + 1]
    <3>1. n + 1 \in 1 .. (n + 1) /\ n + 1 # 1 /\ (n + 1) - 1 = n
      BY <1>4
    <3> QED BY <1>2, <3>1
  <2> QED BY <1>1, <2>2, <2>3, <2>4 DEF r
<1> QED BY <1>3, <1>4

(* What it returns has the members of the sequences it is given.           *)
LEMMA FlattenTyped ==
  ASSUME NEW S
  PROVE  \A n \in Nat : \A s \in [1 .. n -> Seq(S)] : FlattenSeq(s) \in Seq(S)
<1> DEFINE Known == {n \in Nat : \A s \in [1 .. n -> Seq(S)] : FlattenSeq(s) \in Seq(S)}
<1>1. 0 \in Known
  <2> SUFFICES ASSUME NEW s \in [1 .. 0 -> Seq(S)] PROVE FlattenSeq(s) \in Seq(S)
    OBVIOUS
  <2>1. s = <<>>
    OBVIOUS
  <2>2. <<>> \in Seq(S)
    OBVIOUS
  <2> QED BY <2>1, <2>2, FlattenNone
<1>2. ASSUME NEW n \in Known PROVE n + 1 \in Known
  <2> SUFFICES ASSUME NEW s \in [1 .. n + 1 -> Seq(S)] PROVE FlattenSeq(s) \in Seq(S)
    OBVIOUS
  <2> DEFINE r == [i \in 1 .. n |-> s[i]]
  <2>1. r \in [1 .. n -> Seq(S)] /\ s[n + 1] \in Seq(S)
    OBVIOUS
  <2>2. FlattenSeq(s) = FlattenSeq(r) \o s[n + 1]
    BY FlattenMore
  <2> HIDE DEF r
  <2>3. FlattenSeq(r) \in Seq(S)
    BY <2>1
  <2> QED BY <2>1, <2>2, <2>3, ConcatProperties
<1>3. Known = Nat
  <2> HIDE DEF Known
  <2>1. Known \in SUBSET Nat
    BY DEF Known
  <2> QED BY <1>1, <1>2, <2>1, Induction
<1> QED BY <1>3

-----------------------------------------------------------------------------
(***************************************************************************)
(* The lines of a text, and the records they become.                       *)
(***************************************************************************)
SectionNames == {"code", "data", "bss"}

LinesOf == [code |-> CodeLines, data |-> DataLines, bss |-> BssLines]

(* A text is a sequence of lines. *)
LEMMA TextLines ==
  ASSUME text \in Texts
  PROVE  /\ Len(text) \in Nat /\ DOMAIN text = 1 .. Len(text)
         /\ \A n \in DOMAIN text : IsLine(text[n])
         /\ Statements \subseteq DOMAIN text
<1>1. text \in Seq(Range(text)) /\ \A l \in Range(text) : IsLine(l)
  BY TextsAssumption
<1>2. \A n \in DOMAIN text : text[n] \in Range(text)
  BY DEF Range
<1>3. Len(text) \in Nat /\ DOMAIN text = 1 .. Len(text)
  BY <1>1
<1> QED BY <1>1, <1>2, <1>3 DEF Statements

(* Whatever number is spelled, it becomes a word. *)
LEMMA NumberWord == \A n \in Int : NUMBER(n) \in Word
<1> TAKE n \in Int
<1>1. HalfLong \in Int
  BY HalfRangeNat DEF HalfLong
<1>2. strtol(n) \in Int
  BY <1>1 DEF strtol
<1> DEFINE p == strtol(n) + HalfRange
<1>3. p \in Int
  BY <1>2, HalfRangeNat
<1>4. p % (2 * HalfRange) \in 0 .. (2 * HalfRange - 1)
  <2> HIDE DEF p
  <2> QED BY <1>3, HalfRangeNat
<1> QED BY <1>4, HalfRangeNat DEF NUMBER, Word

LEMMA PrimitiveTyped ==
  ASSUME NEW p \in SpelledPrimitives
  PROVE  primitive(p) \in PrimitiveOperands
<1>1. 0 \in Word
  BY HalfRangeNat DEF Word
<1>2. \/ p.kind = "identifier" /\ p.value \in Symbols
      \/ p.kind \in {"number", "at", "at_n", "at_plus_n", "at_minus_n"} /\ p.value \in Int
  BY DEF SpelledPrimitives
<1>3. p.value \in Int => NUMBER(p.value) \in Word /\ NegW(NUMBER(p.value)) \in Word
  BY NumberWord, NegWord
<1>4. CASE p.kind = "identifier"
  BY <1>2, <1>4 DEF primitive, PrimitiveOperands
<1>5. CASE p.kind \in {"number", "at", "at_n", "at_plus_n", "at_minus_n"}
  <2> DEFINE relative(v) == [variant |-> "PRIMITIVE_RELATIVE", value |-> v]
  <2>1. \A v \in Word : relative(v) \in PrimitiveOperands
    BY DEF PrimitiveOperands
  <2>2. CASE p.kind = "number"
    BY <1>2, <1>3, <2>2 DEF primitive, PrimitiveOperands
  <2>3. CASE p.kind # "number"
    <3>1. primitive(p) \in {relative(0), relative(NUMBER(p.value)), relative(NegW(NUMBER(p.value)))}
      BY <1>5, <2>3 DEF primitive
    <3> HIDE DEF relative
    <3> QED BY <1>1, <1>2, <1>3, <1>5, <2>1, <3>1
  <2> QED BY <2>2, <2>3
<1> QED BY <1>2, <1>4, <1>5

LEMMA OperandTyped ==
  ASSUME NEW o \in SpelledOperands, ~Malformed(o)
  PROVE  operand(o) \in Operands
<1>1. CASE o \in SpelledPrimitives
  <2>1. o.kind \notin {"sum", "difference", "bracketed"}
    BY <1>1 DEF SpelledPrimitives
  <2>2. operand(o) = primitive(o)
    BY <2>1 DEF operand, SignOfAt
  <2> QED BY <1>1, <2>2, PrimitiveTyped DEF Operands
<1>2. CASE o \in [kind : {"bracketed"}, primitive : SpelledPrimitives]
  <2>1. o.kind = "bracketed" /\ o.primitive \in SpelledPrimitives
    BY <1>2
  <2>2. operand(o) = primitive(o.primitive)
    BY <2>1 DEF operand, SignOfAt
  <2> QED BY <2>1, <2>2, PrimitiveTyped DEF Operands
<1>3. CASE o \in [kind : {"sum", "difference"}, lhs : SpelledPrimitives, rhs : SpelledPrimitives]
  <2>1. /\ o.kind \in {"sum", "difference"}
        /\ o.lhs \in SpelledPrimitives /\ o.rhs \in SpelledPrimitives
    BY <1>3
  <2>2. CASE SignOfAt(o)
    <3>1. o.rhs.kind = "number"
      BY <2>2 DEF Malformed
    <3>2. o.rhs.value \in Int
      BY <2>1, <3>1 DEF SpelledPrimitives
    <3> DEFINE p == [ kind  |-> IF o.kind = "sum" THEN "at_plus_n" ELSE "at_minus_n",
                      value |-> o.rhs.value ]
    <3>3. p \in SpelledPrimitives
      BY <3>2 DEF SpelledPrimitives
    <3>4. o.kind # "bracketed"
      BY <2>1
    <3>5. operand(o) = primitive(p)
      BY <2>2, <3>4, Zenon DEF operand
    <3> HIDE DEF p
    <3> QED BY <3>3, <3>5, PrimitiveTyped DEF Operands
  <2>3. CASE ~SignOfAt(o)
    <3>1. primitive(o.lhs) \in PrimitiveOperands /\ primitive(o.rhs) \in PrimitiveOperands
      BY <2>1, PrimitiveTyped
    <3>2. operand(o) \in ComplexOperands
      BY <2>1, <2>3, <3>1 DEF operand, ComplexOperands
    <3> QED BY <3>2 DEF Operands
  <2> QED BY <2>2, <2>3
<1> QED BY <1>1, <1>2, <1>3 DEF SpelledOperands

(* So are those the parser finds, with the numbers that an @ takes.        *)
LEMMA OperandsTyped ==
  ASSUME NEW l, IsLine(l), Accepted(l)
  PROVE  OperandsOf(l) \in Seq(Operands)
<1>1. l.operands \in Seq(SpelledOperands)
  BY DEF IsLine
<1>2. /\ Len(l.operands) \in Nat /\ DOMAIN l.operands = 1 .. Len(l.operands)
      /\ \A k \in 1 .. Len(l.operands) : l.operands[k] \in SpelledOperands /\ ~Malformed(l.operands[k])
  BY <1>1 DEF Accepted
<1> DEFINE found == [k \in 1 .. Len(l.operands) |-> OperandsAt(l, k)]
<1>3. \A k \in 1 .. Len(l.operands) : OperandsAt(l, k) \in Seq(Operands)
  <2> TAKE k \in 1 .. Len(l.operands)
  <2>1. CASE BelongsToAt(l, k)
    <3>1. OperandsAt(l, k) = <<>>
      BY <2>1 DEF OperandsAt, BelongsToAt
    <3> QED BY <3>1
  <2>2. CASE ~BelongsToAt(l, k) /\ BelongsToAt(l, k + 1)
    <3> DEFINE p == [kind |-> "at_n", value |-> l.operands[k + 1].value]
    <3>1. l.operands[k + 1] \in SpelledOperands /\ l.operands[k + 1].kind = "number"
      BY <1>2, <2>2 DEF BelongsToAt
    <3>2. l.operands[k + 1].value \in Int
      BY <3>1 DEF SpelledOperands, SpelledPrimitives
    <3>3. p \in SpelledPrimitives
      BY <3>2 DEF SpelledPrimitives
    <3>4. OperandsAt(l, k) = <<primitive(p)>>
      BY <2>2 DEF OperandsAt
    <3> HIDE DEF p
    <3>5. primitive(p) \in Operands
      BY <3>3, PrimitiveTyped DEF Operands
    <3> QED BY <3>4, <3>5
  <2>3. CASE ~BelongsToAt(l, k) /\ ~BelongsToAt(l, k + 1)
    <3>1. OperandsAt(l, k) = <<operand(l.operands[k])>>
      BY <2>3 DEF OperandsAt
    <3>2. operand(l.operands[k]) \in Operands
      BY <1>2, OperandTyped
    <3> QED BY <3>1, <3>2
  <2> QED BY <2>1, <2>2, <2>3
<1>4. found \in [1 .. Len(l.operands) -> Seq(Operands)]
  BY <1>3
<1>5. OperandsOf(l) = FlattenSeq(found)
  BY DEF OperandsOf
<1> HIDE DEF found
<1> QED BY <1>2, <1>4, <1>5, FlattenTyped

(* A statement that is accepted becomes a line of its section.             *)
LEMMA LineTyped ==
  ASSUME NEW l, IsLine(l), Accepted(l), l.head # "none",
         NEW labels \in Labels, NEW n
  PROVE  /\ SectionFor(Line(l, labels, n).line.variant) \in SectionNames
         /\ Line(l, labels, n).line \in LinesOf[SectionFor(Line(l, labels, n).line.variant)]
<1> DEFINE operands == OperandsOf(l)
           made == Line(l, labels, n).line
<1>1. operands \in Seq(Operands) /\ Len(operands) \in Nat
  BY OperandsTyped
<1>2. \A k \in 1 .. Len(operands) : operands[k] \in Operands
  BY <1>1
<1>3. l.head \in {"instruction", "word", "set", "bss"}
  BY DEF IsLine, Heads, Accepted
<1>4. CASE l.head = "instruction"
  <2>1. made = [ variant |-> "LINE_INSTRUCTION", labels |-> labels, op |-> l.op,
                 back |-> l.back,
                 operand |-> IF operands = <<>> THEN noOperand ELSE operands[1] ]
    BY <1>4 DEF Line
  <2>2. operands = <<>> \/ operands[1] \in Operands
    <3>1. operands = <<>> \/ 1 \in 1 .. Len(operands)
      BY <1>1
    <3> QED BY <1>2, <3>1
  <2>3. made \in CodeLines
    <3>1. (IF operands = <<>> THEN noOperand ELSE operands[1]) \in Operands \cup {noOperand}
      BY <2>2
    <3> HIDE DEF operands
    <3> QED BY <1>4, <2>1, <3>1 DEF CodeLines, IsLine
  <2>4. made.variant = "LINE_INSTRUCTION"
    <3> HIDE DEF operands, made
    <3> QED BY <2>1
  <2> HIDE DEF made
  <2>5. SectionFor(made.variant) = "code"
    BY <2>4 DEF SectionFor
  <2> QED BY <2>3, <2>5 DEF SectionNames, LinesOf, made
<1>5. CASE l.head = "word"
  <2>1. made = [variant |-> "LINE_WORDS", labels |-> labels, data |-> operands]
    BY <1>5 DEF Line
  <2> HIDE DEF operands, made
  <2>2. made \in DataLines /\ made.variant = "LINE_WORDS"
    BY <1>1, <2>1 DEF DataLines
  <2>3. SectionFor(made.variant) = "data"
    BY <2>2 DEF SectionFor
  <2> QED BY <2>2, <2>3 DEF SectionNames, LinesOf, made
<1>6. CASE l.head = "set"
  <2>1. made = [ variant |-> "LINE_SET", labels |-> labels,
                 memoryAddress |-> operands[1], value |-> operands[2] ]
    BY <1>6 DEF Line
  <2>2. 1 \in 1 .. Len(operands) /\ 2 \in 1 .. Len(operands)
    <3>1. Len(operands) = 2
      BY <1>6 DEF Accepted
    <3> QED BY <3>1
  <2> HIDE DEF operands, made
  <2>3. made \in DataLines /\ made.variant = "LINE_SET"
    BY <1>2, <2>1, <2>2 DEF DataLines
  <2>4. SectionFor(made.variant) = "data"
    BY <2>3 DEF SectionFor
  <2> QED BY <2>3, <2>4 DEF SectionNames, LinesOf, made
<1>7. CASE l.head = "bss"
  <2>1. made = [variant |-> "LINE_RESERVED", labels |-> labels, size |-> operands[1]]
    BY <1>7 DEF Line
  <2>2. 1 \in 1 .. Len(operands)
    <3>1. Len(operands) = 1
      BY <1>7 DEF Accepted
    <3> QED BY <3>1
  <2> HIDE DEF operands, made
  <2>3. made \in BssLines /\ made.variant = "LINE_RESERVED"
    BY <1>2, <2>1, <2>2 DEF BssLines
  <2>4. SectionFor(made.variant) = "bss"
    BY <2>3 DEF SectionFor
  <2> QED BY <2>3, <2>4 DEF SectionNames, LinesOf, made
<1> QED BY <1>3, <1>4, <1>5, <1>6, <1>7

-----------------------------------------------------------------------------
(***************************************************************************)
(* The labels that wait in front of a line.                                *)
(***************************************************************************)
IsBehind(m, n) ==
  /\ m = 1 \/ (m - 1) \in Statements
  /\ \A k \in m .. (n - 1) : k \notin Statements

LEMMA BehindIs ==
  ASSUME text \in Texts, NEW n \in Nat \ {0}
  PROVE  Behind(n) \in 1 .. n /\ IsBehind(Behind(n), n)
<1> DEFINE Known == {k \in Nat : \E m \in 1 .. (k + 1) : IsBehind(m, k + 1)}
<1>1. 0 \in Known
  <2>1. 1 \in 1 .. (0 + 1) /\ IsBehind(1, 0 + 1)
    BY DEF IsBehind
  <2> QED BY <2>1
<1>2. ASSUME NEW k \in Known PROVE k + 1 \in Known
  <2>1. CASE (k + 1) \in Statements
    <3>1. k + 2 \in 1 .. ((k + 1) + 1) /\ IsBehind(k + 2, (k + 1) + 1)
      BY <2>1 DEF IsBehind
    <3> QED BY <3>1
  <2>2. CASE (k + 1) \notin Statements
    <3> PICK m \in 1 .. (k + 1) : IsBehind(m, k + 1)
      OBVIOUS
    <3>1. \A i \in m .. (((k + 1) + 1) - 1) : i \notin Statements
      <4> TAKE i \in m .. (((k + 1) + 1) - 1)
      <4>1. i = k + 1 \/ i \in m .. ((k + 1) - 1)
        OBVIOUS
      <4> QED BY <2>2, <4>1 DEF IsBehind
    <3>2. m \in 1 .. ((k + 1) + 1) /\ IsBehind(m, (k + 1) + 1)
      BY <3>1 DEF IsBehind
    <3> QED BY <3>2
  <2> QED BY <2>1, <2>2
<1>3. Known = Nat
  <2> HIDE DEF Known
  <2>1. Known \in SUBSET Nat
    BY DEF Known
  <2> QED BY <1>1, <1>2, <2>1, Induction
<1>4. n - 1 \in Known /\ (n - 1) + 1 = n
  <2> HIDE DEF Known
  <2> QED BY <1>3
<1>5. \E m \in 1 .. n : IsBehind(m, n)
  BY <1>4
<1> QED BY <1>5 DEF Behind, IsBehind

LEMMA BehindOnly ==
  ASSUME text \in Texts, NEW n \in Nat \ {0}, NEW m \in 1 .. n, IsBehind(m, n)
  PROVE  Behind(n) = m
<1>1. Behind(n) \in 1 .. n /\ IsBehind(Behind(n), n)
  BY BehindIs
<1>2. ASSUME NEW i \in 1 .. n, NEW j \in 1 .. n, IsBehind(i, n), IsBehind(j, n), i < j
      PROVE  FALSE
  <2>1. (j - 1) \in Statements /\ (j - 1) \in i .. (n - 1)
    BY <1>2 DEF IsBehind
  <2> QED BY <1>2, <2>1 DEF IsBehind
<1>3. Behind(n) < m \/ m < Behind(n) \/ m = Behind(n)
  BY <1>1
<1> QED BY <1>1, <1>2, <1>3

(* Behind a statement, and in front of the first line, none are waiting.   *)
LEMMA NoneWaiting ==
  ASSUME text \in Texts, NEW n \in Nat \ {0}, n = 1 \/ (n - 1) \in Statements
  PROVE  LabelsBefore(n) = <<>>
<1>1. IsBehind(n, n)
  BY DEF IsBehind
<1>2. Behind(n) = n
  BY <1>1, BehindOnly
<1>3. [k \in 1 .. (n - n) |-> text[n + k - 1].labels] = <<>>
  OBVIOUS
<1> QED BY <1>2, <1>3, FlattenNone DEF LabelsBefore

(* A line without a statement adds its own.                                *)
LEMMA MoreWaiting ==
  ASSUME text \in Texts, NEW n \in 1 .. Len(text), n \notin Statements
  PROVE  LabelsBefore(n + 1) = LabelsBefore(n) \o text[n].labels
<1>1. n \in Nat \ {0} /\ n + 1 \in Nat \ {0}
  BY TextLines
<1> DEFINE m == Behind(n)
<1>2. m \in 1 .. n /\ IsBehind(m, n)
  BY <1>1, BehindIs
<1> HIDE DEF m
<1>3. \A i \in m .. ((n + 1) - 1) : i \notin Statements
  <2> TAKE i \in m .. ((n + 1) - 1)
  <2>1. i = n \/ i \in m .. (n - 1)
    BY <1>2
  <2> QED BY <1>2, <2>1 DEF IsBehind
<1>4. m \in 1 .. (n + 1) /\ IsBehind(m, n + 1)
  BY <1>2, <1>3 DEF IsBehind
<1>5. Behind(n + 1) = m
  BY <1>1, <1>4, BehindOnly
<1> DEFINE d == n - m
           labels == [k \in 1 .. (d + 1) |-> text[m + k - 1].labels]
<1>6. d \in Nat /\ (n + 1) - m = d + 1 /\ m + (d + 1) - 1 = n
  BY <1>2
<1>7. labels \in [1 .. (d + 1) -> Seq(Symbols)]
  <2>1. \A k \in 1 .. (d + 1) : m + k - 1 \in 1 .. Len(text)
    BY <1>2, <1>6, TextLines
  <2>2. \A i \in 1 .. Len(text) : text[i].labels \in Seq(Symbols)
    BY TextLines DEF IsLine, Labels
  <2> QED BY <2>1, <2>2
<1>8. labels[d + 1] = text[n].labels
  <2>1. d + 1 \in 1 .. (d + 1)
    BY <1>6
  <2> HIDE DEF d
  <2> QED BY <1>6, <2>1
<1>9. LabelsBefore(n + 1) = FlattenSeq(labels)
  BY <1>5, <1>6 DEF LabelsBefore
<1>10. LabelsBefore(n) = FlattenSeq([k \in 1 .. d |-> labels[k]])
  <2>1. \A k \in 1 .. d : labels[k] = text[m + k - 1].labels
    BY <1>6
  <2>2. [k \in 1 .. d |-> labels[k]] = [k \in 1 .. d |-> text[m + k - 1].labels]
    <3> HIDE DEF labels
    <3> QED BY <2>1
  <2>3. LabelsBefore(n) = FlattenSeq([k \in 1 .. d |-> text[m + k - 1].labels])
    BY DEF LabelsBefore, m
  <2> QED BY <2>2, <2>3
<1> HIDE DEF labels, d
<1> QED BY <1>6, <1>7, <1>8, <1>9, <1>10, FlattenMore

LEMMA LabelsTyped ==
  ASSUME text \in Texts
  PROVE  \A n \in 1 .. (Len(text) + 1) : LabelsBefore(n) \in Labels
<1> DEFINE Known == {k \in Nat : k + 1 \in 1 .. (Len(text) + 1) => LabelsBefore(k + 1) \in Labels}
<1>1. <<>> \in Labels /\ Len(text) \in Nat
  BY TextLines DEF Labels
<1>2. 0 \in Known
  <2>1. LabelsBefore(0 + 1) = <<>>
    BY NoneWaiting
  <2> QED BY <1>1, <2>1
<1>3. ASSUME NEW k \in Known PROVE k + 1 \in Known
  <2> SUFFICES ASSUME (k + 1) + 1 \in 1 .. (Len(text) + 1)
               PROVE  LabelsBefore((k + 1) + 1) \in Labels
    OBVIOUS
  <2>1. k + 1 \in 1 .. Len(text) /\ LabelsBefore(k + 1) \in Labels
    BY <1>1
  <2>2. CASE (k + 1) \in Statements
    <3>1. (k + 1) + 1 \in Nat \ {0} /\ ((k + 1) + 1) - 1 = k + 1
      OBVIOUS
    <3>2. LabelsBefore((k + 1) + 1) = <<>>
      BY <2>2, <3>1, NoneWaiting
    <3> QED BY <1>1, <3>2
  <2>3. CASE (k + 1) \notin Statements
    <3>1. LabelsBefore((k + 1) + 1) = LabelsBefore(k + 1) \o text[k + 1].labels
      BY <2>1, <2>3, MoreWaiting
    <3>2. text[k + 1].labels \in Labels
      BY <2>1, TextLines DEF IsLine
    <3> QED BY <2>1, <3>1, <3>2, ConcatProperties DEF Labels
  <2> QED BY <2>2, <2>3
<1>4. Known = Nat
  <2> HIDE DEF Known
  <2>1. Known \in SUBSET Nat
    BY DEF Known
  <2> QED BY <1>2, <1>3, <2>1, Induction
<1> TAKE n \in 1 .. (Len(text) + 1)
<1>5. n - 1 \in Known /\ (n - 1) + 1 = n
  <2> HIDE DEF Known
  <2> QED BY <1>1, <1>4
<1> QED BY <1>5

-----------------------------------------------------------------------------
(***************************************************************************)
(* The invariant.                                                          *)
(***************************************************************************)

(* Labels wait at the end of the lines in front of p. *)
Dangling(p) ==
  \E n \in 1 .. (p - 1) :
    text[n].labels # <<>> /\ \A m \in n .. (p - 1) : m \notin Statements

Reader ==
  /\ text \in Texts
  /\ position \in 1 .. (Len(text) + 1)
  /\ linenumber = position
  /\ failed \in BOOLEAN
  /\ outcome \in {"reading", "unwinding", "parsed", "parse_error"}
  /\ outcome # "reading" => position = Len(text) + 1

(* An error has been detected if and only if there is one. *)
Judgement ==
  /\ pending \in Labels
  /\ pending # <<>> => Dangling(position)
  /\ failed => \/ \E n \in 1 .. (position - 1) : ~Accepted(text[n])
               \/ outcome # "reading" /\ pending # <<>>
  /\ ~failed => /\ \A n \in 1 .. (position - 1) : Accepted(text[n])
                /\ Dangling(position) => pending # <<>>
                /\ outcome # "reading" => pending = <<>>
  /\ outcome = "parsed" => ~failed
  /\ outcome = "parse_error" => failed

Entries == { Written(n) : n \in Statements }

Increasing(lines) ==
  \A j, k \in DOMAIN lines : j < k => lines[j].number < lines[k].number

(* The stack and the sections share the statements that have been read:    *)
(* the stack has those in front.                                           *)
Listing ==
  /\ pending = LabelsBefore(position)
  /\ stack \in Seq(Entries) /\ Increasing(stack)
  /\ \A j \in DOMAIN stack : stack[j].number < position
  /\ sections \in [SectionNames -> Seq(Entries)]
  /\ \A section \in SectionNames :
       /\ Increasing(sections[section])
       /\ \A k \in DOMAIN sections[section] :
            /\ sections[section][k].number \in StatementsOf(section)
            /\ \A j \in DOMAIN stack : stack[j].number < sections[section][k].number
  /\ \A n \in Statements : n < position =>
       \/ \E j \in DOMAIN stack : stack[j].number = n
       \/ \E section \in SectionNames : \E k \in DOMAIN sections[section] :
            sections[section][k].number = n
  /\ outcome = "reading" => \A section \in SectionNames : sections[section] = <<>>
  /\ outcome \in {"parsed", "parse_error"} => stack = <<>>

PInv == Reader /\ Judgement /\ (~failed => Listing)

-----------------------------------------------------------------------------
(* What is said of the text does not change. *)
LEMMA SameText ==
  ASSUME text' = text
  PROVE  /\ Statements' = Statements
         /\ \A n : Written(n)' = Written(n)
         /\ \A n : LabelsBefore(n)' = LabelsBefore(n)
         /\ \A section : StatementsOf(section)' = StatementsOf(section)
         /\ Entries' = Entries
         /\ \A p : Dangling(p)' <=> Dangling(p)
         /\ \A n : Accepted(text[n])' <=> Accepted(text[n])
<1>1. Statements' = Statements
  BY DEF Statements
<1>2. \A n : Behind(n)' = Behind(n)
  BY <1>1 DEF Behind
<1>3. \A n : LabelsBefore(n)' = LabelsBefore(n)
  BY <1>2 DEF LabelsBefore
<1>4. \A n : Written(n)' = Written(n)
  BY <1>3 DEF Written
<1>5. \A n : Accepted(text[n])' <=> Accepted(text[n])
  OBVIOUS
<1> QED BY <1>1, <1>3, <1>4, <1>5 DEF StatementsOf, Entries, Dangling

LEMMA NumberOf == \A n : Written(n).number = n
BY DEF Written, Line

(* An entry says its line. *)
LEMMA EntryIs ==
  ASSUME NEW e \in Entries
  PROVE  e.number \in Statements /\ e = Written(e.number)
BY NumberOf DEF Entries

(* Every statement that is accepted has a section, and belongs there.      *)
LEMMA StatementTyped ==
  ASSUME text \in Texts, NEW n \in Statements, Accepted(text[n])
  PROVE  LET section == SectionFor(Written(n).line.variant)
         IN  /\ section \in SectionNames /\ n \in StatementsOf(section)
             /\ Written(n).line \in LinesOf[section]
<1>1. n \in 1 .. Len(text) /\ IsLine(text[n]) /\ text[n].head # "none"
  BY TextLines DEF Statements
<1>2. n \in 1 .. (Len(text) + 1)
  BY <1>1, TextLines
<1>3. LabelsBefore(n) \o text[n].labels \in Labels
  BY <1>1, <1>2, LabelsTyped, ConcatProperties DEF Labels, IsLine
<1> DEFINE labels == LabelsBefore(n) \o text[n].labels
<1>4. Written(n) = Line(text[n], labels, n)
  BY DEF Written
<1> HIDE DEF labels
<1>5. labels \in Labels
  BY <1>3 DEF labels
<1>6. /\ SectionFor(Written(n).line.variant) \in SectionNames
      /\ Written(n).line \in LinesOf[SectionFor(Written(n).line.variant)]
  BY <1>1, <1>4, <1>5, LineTyped
<1> QED BY <1>6 DEF StatementsOf

LEMMA InitPInv == Init => PInv
<1> SUFFICES ASSUME Init PROVE PInv
  OBVIOUS
<1> USE DEF Init
<1>1. Len(text) \in Nat /\ Statements \subseteq 1 .. Len(text)
  BY TextLines
<1>2. Reader
  <2>1. position \in 1 .. (Len(text) + 1)
    BY <1>1
  <2> QED BY <2>1 DEF Reader
<1>3. ~Dangling(1)
  BY DEF Dangling
<1>4. Judgement
  BY <1>3 DEF Judgement, Labels
<1>5. LabelsBefore(1) = <<>>
  BY NoneWaiting
<1>6. sections \in [SectionNames -> Seq(Entries)] /\ \A section \in SectionNames : sections[section] = <<>>
  <2>1. <<>> \in Seq(Entries)
    OBVIOUS
  <2>2. \A section \in SectionNames : sections[section] = <<>>
    BY DEF SectionNames
  <2>3. sections \in [SectionNames -> {<<>>}]
    BY DEF SectionNames
  <2> QED BY <2>1, <2>2, <2>3
<1>7. Listing
  BY <1>1, <1>5, <1>6 DEF Listing, Increasing
<1> QED BY <1>2, <1>4, <1>7 DEF PInv

-----------------------------------------------------------------------------
(***************************************************************************)
(* One lemma for each action.                                              *)
(***************************************************************************)
LEMMA DanglingNext ==
  ASSUME text \in Texts, NEW p \in 1 .. Len(text)
  PROVE  /\ p \in Statements => ~Dangling(p + 1)
         /\ p \notin Statements => (Dangling(p + 1) <=> Dangling(p) \/ text[p].labels # <<>>)
<1>1. Len(text) \in Nat
  BY TextLines
<1>2. \A n \in 1 .. p : n = p \/ n \in 1 .. (p - 1)
  BY <1>1
<1>3. p \in 1 .. ((p + 1) - 1) /\ (p + 1) - 1 = p
  BY <1>1
<1>4. ASSUME p \in Statements PROVE ~Dangling(p + 1)
  <2>1. \A n \in 1 .. p : p \in n .. p
    BY <1>1
  <2> QED BY <1>3, <1>4, <2>1 DEF Dangling
<1>5. ASSUME p \notin Statements
      PROVE  Dangling(p + 1) <=> Dangling(p) \/ text[p].labels # <<>>
  <2>1. ASSUME Dangling(p + 1), text[p].labels = <<>> PROVE Dangling(p)
    <3> PICK n \in 1 .. p : text[n].labels # <<>> /\ \A m \in n .. p : m \notin Statements
      BY <1>3, <2>1 DEF Dangling
    <3>1. n \in 1 .. (p - 1)
      BY <1>2, <2>1
    <3>2. \A m \in n .. (p - 1) : m \in n .. p
      BY <1>1
    <3> QED BY <3>1, <3>2 DEF Dangling
  <2>2. ASSUME Dangling(p) PROVE Dangling(p + 1)
    <3> PICK n \in 1 .. (p - 1) : text[n].labels # <<>> /\ \A m \in n .. (p - 1) : m \notin Statements
      BY <2>2 DEF Dangling
    <3>1. n \in 1 .. p /\ \A m \in n .. p : m = p \/ m \in n .. (p - 1)
      BY <1>1
    <3> QED BY <1>3, <1>5, <3>1 DEF Dangling
  <2>3. ASSUME text[p].labels # <<>> PROVE Dangling(p + 1)
    <3>1. p \in 1 .. p /\ \A m \in p .. p : m = p
      BY <1>1
    <3> QED BY <1>3, <1>5, <2>3, <3>1 DEF Dangling
  <2> QED BY <2>1, <2>2, <2>3
<1> QED BY <1>4, <1>5

(* Reading a line moves the reader behind it. *)
LEMMA ReaderMoves ==
  ASSUME Reader, Reading, NextLine, text' = text, outcome' = outcome, failed' \in BOOLEAN
  PROVE  /\ Reader' /\ position' = position + 1 /\ outcome = "reading"
         /\ position \in 1 .. Len(text) /\ IsLine(Current)
         /\ position \in Statements <=> Current.head # "none"
         /\ \A n \in 1 .. (position' - 1) : n = position \/ n \in 1 .. (position - 1)
         /\ position \in 1 .. (position' - 1)
         /\ \A n \in 1 .. (position - 1) : n \in 1 .. (position' - 1)
<1>1. /\ Len(text) \in Nat /\ DOMAIN text = 1 .. Len(text)
      /\ \A n \in DOMAIN text : IsLine(text[n])
  BY TextLines DEF Reader
<1>2. position \in 1 .. Len(text) /\ position' = position + 1 /\ outcome = "reading"
  BY <1>1 DEF Reader, Reading, NextLine
<1>3. position' \in 1 .. (Len(text) + 1) /\ linenumber' = position'
  BY <1>1, <1>2 DEF Reader, NextLine
<1>4. Reader'
  BY <1>2, <1>3 DEF Reader
<1>5. IsLine(Current) /\ (position \in Statements <=> Current.head # "none")
  BY <1>1, <1>2 DEF Current, Statements
<1> QED BY <1>1, <1>2, <1>4, <1>5

LEMMA ReadLabelsKeeps ==
  ASSUME PInv, ReadLabels
  PROVE  PInv'
<1> DEFINE labels == Current.labels
<1>1. text' = text /\ failed' = failed /\ outcome' = outcome
  BY DEF ReadLabels
<1>2. Reading /\ NextLine /\ Accepted(Current) /\ Current.head = "none" /\ pending' = pending \o labels
  BY DEF ReadLabels
<1>3. Reader /\ failed' \in BOOLEAN /\ text \in Texts
  BY <1>1 DEF PInv, Reader
<1>4. /\ Reader' /\ position' = position + 1 /\ outcome = "reading"
      /\ position \in 1 .. Len(text) /\ IsLine(Current) /\ position \notin Statements
      /\ \A n \in 1 .. (position' - 1) : n = position \/ n \in 1 .. (position - 1)
      /\ position \in 1 .. (position' - 1)
      /\ \A n \in 1 .. (position - 1) : n \in 1 .. (position' - 1)
  BY <1>1, <1>2, <1>3, ReaderMoves
<1>5. pending \in Seq(Symbols) /\ labels \in Seq(Symbols)
  BY <1>4 DEF PInv, Judgement, IsLine, Labels
<1>6. pending' \in Labels /\ (pending' = <<>> <=> pending = <<>> /\ labels = <<>>)
  BY <1>2, <1>5, ConcatProperties, ConcatEqualIffEmpty DEF Labels
<1>7. Dangling(position)' <=> Dangling(position) \/ labels # <<>>
  <2>1. Dangling(position + 1) <=> Dangling(position) \/ labels # <<>>
    BY <1>3, <1>4, DanglingNext DEF Current
  <2>2. Dangling(position)' <=> Dangling(position + 1)
    BY <1>1, <1>4, SameText DEF Dangling
  <2> QED BY <2>1, <2>2
<1>8. Judgement'
  <2>1. Judgement
    BY DEF PInv
  <2>2. \A n : Accepted(text[n])' <=> Accepted(text[n])
    BY <1>1, SameText
  <2>3. Accepted(text[position])
    BY <1>2 DEF Current
  <2>4. pending' # <<>> => Dangling(position)'
    BY <1>6, <1>7, <2>1 DEF Judgement
  <2>5. failed' => \E n \in 1 .. (position' - 1) : Accepted(text[n])' = FALSE
    BY <1>1, <1>4, <2>1, <2>2 DEF Judgement
  <2>6. ~failed' => \A n \in 1 .. (position' - 1) : Accepted(text[n])'
    BY <1>1, <1>4, <2>1, <2>2, <2>3 DEF Judgement
  <2>7. ~failed' => (Dangling(position)' => pending' # <<>>)
    BY <1>1, <1>6, <1>7, <2>1 DEF Judgement
  <2> QED BY <1>1, <1>4, <1>6, <2>4, <2>5, <2>6, <2>7 DEF Judgement
<1>9. ASSUME ~failed' PROVE Listing'
  <2>1. Listing
    BY <1>1, <1>9 DEF PInv
  <2>2. LabelsBefore(position)' = pending'
    <3>1. LabelsBefore(position + 1) = LabelsBefore(position) \o text[position].labels
      BY <1>3, <1>4, MoreWaiting
    <3>2. LabelsBefore(position)' = LabelsBefore(position + 1)
      BY <1>1, <1>4, SameText
    <3> QED BY <1>2, <2>1, <3>1, <3>2 DEF Listing, Current
  <2>3. stack' = stack /\ sections' = sections
    BY DEF ReadLabels
  <2>4. \A n \in Statements : n < position' => n < position
    BY <1>3, <1>4, TextLines
  <2>5. \A j \in DOMAIN stack : stack[j].number < position'
    <3>1. \A j \in DOMAIN stack : stack[j] \in Entries /\ stack[j].number < position
      BY <2>1 DEF Listing
    <3>2. \A j \in DOMAIN stack : stack[j].number \in 1 .. Len(text)
      BY <1>3, <3>1, EntryIs, TextLines
    <3> QED BY <1>4, <3>1, <3>2
  <2>6. Increasing(stack)' <=> Increasing(stack)
    BY <2>3 DEF Increasing
  <2>7. \A section : Increasing(sections[section])' <=> Increasing(sections[section])
    BY <2>3 DEF Increasing
  <2> QED BY <1>1, <2>1, <2>2, <2>3, <2>4, <2>5, <2>6, <2>7, SameText DEF Listing
<1> QED BY <1>4, <1>8, <1>9 DEF PInv

LEMMA ReadStatementKeeps ==
  ASSUME PInv, ReadStatement
  PROVE  PInv'
<1>1. text' = text /\ failed' = failed /\ outcome' = outcome /\ sections' = sections
  BY DEF ReadStatement
<1>2. /\ Reading /\ NextLine /\ Accepted(Current) /\ Current.head # "none" /\ pending' = <<>>
      /\ stack' = Append(stack, Line(Current, pending \o Current.labels, linenumber))
  BY DEF ReadStatement
<1>3. Reader /\ failed' \in BOOLEAN /\ text \in Texts
  BY <1>1 DEF PInv, Reader
<1>4. /\ Reader' /\ position' = position + 1 /\ outcome = "reading"
      /\ position \in 1 .. Len(text) /\ position \in Statements
      /\ \A n \in 1 .. (position' - 1) : n = position \/ n \in 1 .. (position - 1)
      /\ position \in 1 .. (position' - 1)
      /\ \A n \in 1 .. (position - 1) : n \in 1 .. (position' - 1)
  BY <1>1, <1>2, <1>3, ReaderMoves
<1>5. ~Dangling(position)'
  <2>1. Dangling(position)' <=> Dangling(position + 1)
    BY <1>1, <1>4, SameText DEF Dangling
  <2> QED BY <1>3, <1>4, <2>1, DanglingNext
<1>6. Judgement'
  <2>1. Judgement
    BY DEF PInv
  <2>2. \A n : Accepted(text[n])' <=> Accepted(text[n])
    BY <1>1, SameText
  <2>3. Accepted(text[position])
    BY <1>2 DEF Current
  <2>4. failed' => \E n \in 1 .. (position' - 1) : Accepted(text[n])' = FALSE
    BY <1>1, <1>4, <2>1, <2>2 DEF Judgement
  <2>5. ~failed' => \A n \in 1 .. (position' - 1) : Accepted(text[n])'
    BY <1>1, <1>4, <2>1, <2>2, <2>3 DEF Judgement
  <2>6. pending' \in Labels
    BY <1>2 DEF Labels
  <2> QED BY <1>1, <1>2, <1>4, <1>5, <2>4, <2>5, <2>6 DEF Judgement
<1>7. ASSUME ~failed' PROVE Listing'
  <2>1. Listing
    BY <1>1, <1>7 DEF PInv
  <2>2. LabelsBefore(position)' = <<>>
    <3>1. position + 1 \in Nat \ {0} /\ (position + 1) - 1 = position
      BY <1>3, <1>4, TextLines
    <3>2. LabelsBefore(position + 1) = <<>>
      BY <1>3, <1>4, <3>1, NoneWaiting
    <3>3. LabelsBefore(position)' = LabelsBefore(position + 1)
      BY <1>1, <1>4, SameText
    <3> QED BY <3>2, <3>3
  <2>3. stack' = Append(stack, Written(position))
    BY <1>2, <1>3, <2>1 DEF Listing, Current, Written, Reader
  <2> DEFINE e == Written(position)
  <2>4. e \in Entries /\ e.number = position
    BY <1>4, NumberOf DEF Entries
  <2> HIDE DEF e
  <2>5. stack' = Append(stack, e) /\ stack \in Seq(Entries)
    BY <2>1, <2>3 DEF e, Listing
  <2>6. /\ stack' \in Seq(Entries) /\ DOMAIN stack' = 1 .. (Len(stack) + 1)
        /\ DOMAIN stack = 1 .. Len(stack) /\ Len(stack) \in Nat
        /\ \A j \in 1 .. Len(stack) : stack'[j] = stack[j]
        /\ stack'[Len(stack) + 1] = e
    BY <2>4, <2>5
  <2>7. \A j \in DOMAIN stack' : j = Len(stack) + 1 \/ j \in DOMAIN stack
    BY <2>6
  <2>8. \A j \in DOMAIN stack : stack[j].number < position /\ stack[j].number \in Nat
    <3>1. \A j \in DOMAIN stack : stack[j].number \in Statements
      BY <2>5, <2>6, EntryIs
    <3> QED BY <1>3, <2>1, <3>1, TextLines DEF Listing
  <2>9. position \in Nat
    BY <1>3, <1>4, TextLines
  <2>10. \A j \in DOMAIN stack' : stack'[j].number < position'
    BY <1>4, <2>4, <2>6, <2>7, <2>8, <2>9
  <2>11. Increasing(stack)'
    <3> SUFFICES ASSUME NEW j \in DOMAIN stack', NEW k \in DOMAIN stack', j < k
                 PROVE  stack'[j].number < stack'[k].number
      BY DEF Increasing
    <3>1. j \in DOMAIN stack
      BY <2>6
    <3>2. CASE k \in DOMAIN stack
      BY <2>1, <2>6, <3>1, <3>2 DEF Listing, Increasing
    <3>3. CASE k = Len(stack) + 1
      BY <2>4, <2>6, <2>8, <3>1, <3>3
    <3> QED BY <2>7, <3>2, <3>3
  <2>12. \A n \in Statements : n < position' => \E j \in DOMAIN stack' : stack'[j].number = n
    <3> SUFFICES ASSUME NEW n \in Statements, n < position'
                 PROVE  \E j \in DOMAIN stack' : stack'[j].number = n
      OBVIOUS
    <3>1. n = position \/ n < position
      BY <1>3, <1>4, <2>9, TextLines
    <3>2. CASE n = position
      <4>1. Len(stack) + 1 \in DOMAIN stack'
        BY <2>6
      <4> QED BY <2>4, <2>6, <3>2, <4>1
    <3>3. CASE n < position
      <4>1. \E j \in DOMAIN stack : stack[j].number = n
        <5>1. \A section \in SectionNames : sections[section] = <<>>
          BY <1>4, <2>1 DEF Listing
        <5>2. DOMAIN <<>> = {}
          OBVIOUS
        <5> QED BY <2>1, <3>3, <5>1, <5>2 DEF Listing
      <4> QED BY <2>6, <4>1
    <3> QED BY <3>1, <3>2, <3>3
  <2>13. \A section \in SectionNames : sections'[section] = <<>> /\ DOMAIN sections'[section] = {}
    <3>1. \A section \in SectionNames : sections'[section] = <<>>
      BY <1>1, <1>4, <2>1 DEF Listing
    <3> QED BY <3>1
  <2>14. \A section \in SectionNames : Increasing(sections[section])'
    BY <2>13 DEF Increasing
  <2>15. sections' \in [SectionNames -> Seq(Entries)]
    BY <1>1, <2>1 DEF Listing
  <2> QED BY <1>1, <1>2, <1>4, <2>2, <2>6, <2>10, <2>11, <2>12, <2>13, <2>14, <2>15, SameText DEF Listing
<1> QED BY <1>4, <1>6, <1>7 DEF PInv

LEMMA RecoverKeeps ==
  ASSUME PInv, Recover
  PROVE  PInv'
<1>1. /\ text' = text /\ failed' = TRUE /\ outcome' = outcome /\ pending' = <<>>
      /\ Reading /\ NextLine /\ ~Accepted(Current)
  BY DEF Recover
<1>2. Reader /\ text \in Texts
  BY DEF PInv, Reader
<1>3. /\ Reader' /\ outcome = "reading" /\ position \in 1 .. (position' - 1)
  BY <1>1, <1>2, ReaderMoves
<1>4. Judgement'
  <2>1. \E n \in 1 .. (position' - 1) : Accepted(text[n])' = FALSE
    <3>1. \A n : Accepted(text[n])' <=> Accepted(text[n])
      BY <1>1, SameText
    <3>2. ~Accepted(text[position])
      BY <1>1 DEF Current
    <3> QED BY <1>3, <3>1, <3>2
  <2>2. pending' \in Labels
    BY <1>1 DEF Labels
  <2> QED BY <1>1, <1>3, <2>1, <2>2 DEF Judgement
<1> QED BY <1>1, <1>3, <1>4 DEF PInv

(* What an action leaves of the listing that neither reads nor unwinds.    *)
LEMMA ListingStays ==
  ASSUME Listing, UNCHANGED <<text, position, pending, stack, sections>>,
         outcome' = "reading" => outcome = "reading",
         outcome' \in {"parsed", "parse_error"} => stack = <<>>
  PROVE  Listing'
<1>1. Increasing(stack)' <=> Increasing(stack)
  BY DEF Increasing
<1>2. \A section : Increasing(sections[section])' <=> Increasing(sections[section])
  BY DEF Increasing
<1> QED BY <1>1, <1>2, SameText DEF Listing

LEMMA EndOfFileKeeps ==
  ASSUME PInv, EndOfFile
  PROVE  PInv'
<1>1. /\ UNCHANGED <<text, position, linenumber, pending, stack, sections>>
      /\ outcome = "reading" /\ position > Len(text) /\ outcome' = "unwinding"
      /\ failed' = (failed \/ pending # <<>>)
  BY DEF EndOfFile
<1>2. Reader'
  <2>1. position = Len(text) + 1
    BY <1>1, TextLines DEF PInv, Reader
  <2> QED BY <1>1, <2>1 DEF PInv, Reader
<1>3. Judgement'
  <2>1. Judgement
    BY DEF PInv
  <2>2. \A n : Accepted(text[n])' <=> Accepted(text[n])
    BY <1>1, SameText
  <2>3. Dangling(position)' <=> Dangling(position)
    BY <1>1, SameText DEF Dangling
  <2> QED BY <1>1, <2>1, <2>2, <2>3 DEF Judgement
<1>4. ASSUME ~failed' PROVE Listing'
  <2>1. Listing
    BY <1>1, <1>4 DEF PInv
  <2> QED BY <1>1, <2>1, ListingStays
<1> QED BY <1>2, <1>3, <1>4 DEF PInv

LEMMA FinishKeeps ==
  ASSUME PInv, Finish
  PROVE  PInv'
<1>1. /\ UNCHANGED <<text, position, linenumber, pending, stack, failed, sections>>
      /\ outcome = "unwinding" /\ stack = <<>>
      /\ outcome' = IF failed THEN "parse_error" ELSE "parsed"
  BY DEF Finish
<1>2. outcome' \in {"parsed", "parse_error"} /\ (outcome' = "parsed" <=> ~failed)
  BY <1>1
<1>3. Reader'
  BY <1>1, <1>2 DEF PInv, Reader
<1>4. Judgement'
  <2>1. Judgement
    BY DEF PInv
  <2>2. \A n : Accepted(text[n])' <=> Accepted(text[n])
    BY <1>1, SameText
  <2>3. Dangling(position)' <=> Dangling(position)
    BY <1>1, SameText DEF Dangling
  <2> QED BY <1>1, <1>2, <2>1, <2>2, <2>3 DEF Judgement
<1>5. ASSUME ~failed' PROVE Listing'
  <2>1. Listing
    BY <1>1, <1>5 DEF PInv
  <2> QED BY <1>1, <1>2, <2>1, ListingStays
<1> QED BY <1>3, <1>4, <1>5 DEF PInv

(* The last statement on the stack goes in front of its section.           *)
LEMMA preprendListKeeps ==
  ASSUME PInv, preprendList
  PROVE  PInv'
<1> DEFINE e == Last(stack)
           to == SectionFor(e.line.variant)
<1>1. /\ UNCHANGED <<text, position, linenumber, pending, failed, outcome>>
      /\ outcome = "unwinding" /\ stack # <<>> /\ stack' = Front(stack)
      /\ sections' = [sections EXCEPT ![to] = <<e>> \o @]
  BY DEF preprendList
<1>2. Reader'
  BY <1>1 DEF PInv, Reader
<1>3. Judgement'
  <2>1. Judgement
    BY DEF PInv
  <2>2. \A n : Accepted(text[n])' <=> Accepted(text[n])
    BY <1>1, SameText
  <2>3. Dangling(position)' <=> Dangling(position)
    BY <1>1, SameText DEF Dangling
  <2> QED BY <1>1, <2>1, <2>2, <2>3 DEF Judgement
<1>4. ASSUME ~failed' PROVE Listing'
  <2>1. Listing /\ text \in Texts /\ position \in 1 .. (Len(text) + 1)
    BY <1>1, <1>4 DEF PInv, Reader
  <2>2. stack \in Seq(Entries) /\ Len(stack) \in Nat \ {0} /\ DOMAIN stack = 1 .. Len(stack)
    BY <1>1, <2>1 DEF Listing
  <2>3. Len(stack) \in DOMAIN stack /\ e = stack[Len(stack)] /\ e \in Entries
    BY <2>2 DEF Last
  <2>4. /\ stack' \in Seq(Entries) /\ DOMAIN stack' = 1 .. (Len(stack) - 1)
        /\ \A j \in 1 .. (Len(stack) - 1) : stack'[j] = stack[j]
    <3>1. stack' = SubSeq(stack, 1, Len(stack) - 1)
      BY <1>1 DEF Front
    <3>2. \A i \in 1 .. (Len(stack) - 1) : stack[i] \in Entries
      BY <2>2
    <3>3. /\ stack' \in Seq(Entries)
          /\ Len(stack') = IF 1 <= Len(stack) - 1 THEN (Len(stack) - 1) - 1 + 1 ELSE 0
          /\ \A i \in 1 .. ((Len(stack) - 1) - 1 + 1) : stack'[i] = stack[1 + i - 1]
      BY <2>2, <3>1, <3>2, SubSeqProperties
    <3>4. Len(stack') = Len(stack) - 1
      <4> DEFINE m == Len(stack) - 1
      <4>1. Len(stack') = IF 1 <= m THEN m - 1 + 1 ELSE 0
        BY <3>3, Zenon
      <4>2. m \in Nat
        BY <2>2
      <4> HIDE DEF m
      <4>3. Len(stack') = m
        BY <4>1, <4>2
      <4> QED BY <4>3 DEF m
    <3>5. DOMAIN stack' = 1 .. Len(stack')
      BY <3>3
    <3>6. \A i \in 1 .. (Len(stack) - 1) : i \in 1 .. ((Len(stack) - 1) - 1 + 1) /\ 1 + i - 1 = i
      BY <2>2
    <3> QED BY <3>3, <3>4, <3>5, <3>6
  <2>5. e.number \in Statements /\ e = Written(e.number) /\ e.number < position
    BY <2>1, <2>3, EntryIs DEF Listing
  <2>6. \A n \in Statements : n \in Nat
    BY <2>1, TextLines
  <2>7. to \in SectionNames /\ e.number \in StatementsOf(to)
    <3>1. Accepted(text[e.number])
      <4>1. e.number \in 1 .. (position - 1)
        BY <2>1, <2>5, TextLines
      <4> QED BY <1>1, <1>4, <4>1 DEF PInv, Judgement
    <3> HIDE DEF e
    <3> QED BY <2>1, <2>5, <3>1, StatementTyped
  <2> HIDE DEF e, to
  <2>8. sections \in [SectionNames -> Seq(Entries)] /\ sections[to] \in Seq(Entries)
    BY <2>1, <2>7 DEF Listing
  <2> DEFINE old == sections[to]
             new == <<e>> \o old
  <2>9. /\ new \in Seq(Entries) /\ DOMAIN new = 1 .. (Len(old) + 1) /\ new[1] = e
        /\ Len(old) \in Nat /\ DOMAIN old = 1 .. Len(old)
        /\ \A k \in 1 .. Len(old) : k + 1 \in DOMAIN new /\ new[k + 1] = old[k]
        /\ \A k \in DOMAIN new : k = 1 \/ (k - 1 \in DOMAIN old /\ new[k] = old[k - 1])
    <3> HIDE DEF old
    <3>1. old \in Seq(Entries) /\ <<e>> \in Seq(Entries) /\ Len(<<e>>) = 1 /\ <<e>>[1] = e
      BY <2>3, <2>8 DEF old
    <3>2. /\ new \in Seq(Entries) /\ Len(new) = 1 + Len(old)
          /\ \A i \in 1 .. (1 + Len(old)) : new[i] = IF i <= 1 THEN <<e>>[i] ELSE old[i - 1]
      BY <3>1, ConcatProperties
    <3>3. Len(old) \in Nat /\ DOMAIN old = 1 .. Len(old)
      BY <3>1
    <3>4. DOMAIN new = 1 .. (Len(old) + 1)
      <4> HIDE DEF new
      <4> QED BY <3>2, <3>3
    <3>5. new[1] = e
      <4> HIDE DEF new
      <4> QED BY <3>1, <3>2, <3>3
    <3>6. \A k \in 1 .. Len(old) : k + 1 \in DOMAIN new /\ new[k + 1] = old[k]
      <4> HIDE DEF new
      <4> QED BY <3>2, <3>3, <3>4
    <3>7. \A k \in DOMAIN new : k = 1 \/ (k - 1 \in DOMAIN old /\ new[k] = old[k - 1])
      <4> HIDE DEF new
      <4> QED BY <3>2, <3>3, <3>4
    <3> QED BY <3>2, <3>3, <3>4, <3>5, <3>6, <3>7
  <2>10. sections' \in [SectionNames -> Seq(Entries)] /\ sections'[to] = new
    BY <1>1, <2>7, <2>8, <2>9 DEF to
  <2>11. \A section \in SectionNames : section # to => sections'[section] = sections[section]
    BY <1>1, <2>8 DEF to
  <2>12. /\ \A j \in DOMAIN stack' : j \in DOMAIN stack /\ j < Len(stack) /\ stack'[j] = stack[j]
         /\ \A j \in DOMAIN stack : j \in DOMAIN stack' \/ j = Len(stack)
    BY <2>2, <2>4
  <2> HIDE DEF old, new
  <2>13. Increasing(stack)'
    BY <2>1, <2>12 DEF Listing, Increasing
  <2>14. \A j \in DOMAIN stack' : stack'[j].number < e.number
    BY <2>1, <2>3, <2>12 DEF Listing, Increasing
  <2>15. \A k \in DOMAIN old : /\ old[k].number \in StatementsOf(to) /\ e.number < old[k].number
                               /\ \A j \in DOMAIN stack : stack[j].number < old[k].number
    BY <2>1, <2>3, <2>7 DEF Listing, old
  <2>16. Increasing(new)
    <3> SUFFICES ASSUME NEW j \in DOMAIN new, NEW k \in DOMAIN new, j < k
                 PROVE  new[j].number < new[k].number
      BY DEF Increasing
    <3>1. k - 1 \in DOMAIN old /\ new[k] = old[k - 1] /\ j \in Int /\ k \in Int
      BY <2>9
    <3>2. CASE j = 1
      BY <2>9, <2>15, <3>1, <3>2
    <3>3. CASE j - 1 \in DOMAIN old /\ new[j] = old[j - 1]
      <4>1. Increasing(old)
        BY <2>1, <2>7 DEF Listing, old
      <4>2. j - 1 < k - 1
        BY <3>1
      <4> QED BY <3>1, <3>3, <4>1, <4>2 DEF Increasing
    <3> QED BY <2>9, <3>2, <3>3
  <2>17. \A k \in DOMAIN new : /\ new[k].number \in StatementsOf(to)
                               /\ \A j \in DOMAIN stack' : stack'[j].number < new[k].number
    <3> TAKE k \in DOMAIN new
    <3>1. CASE k = 1
      BY <2>7, <2>9, <2>14, <3>1
    <3>2. CASE k - 1 \in DOMAIN old /\ new[k] = old[k - 1]
      BY <2>12, <2>15, <3>2
    <3> QED BY <2>9, <3>1, <3>2
  <2>18. \A section \in SectionNames :
           /\ Increasing(sections'[section])
           /\ \A k \in DOMAIN sections'[section] :
                /\ sections'[section][k].number \in StatementsOf(section)
                /\ \A j \in DOMAIN stack' : stack'[j].number < sections'[section][k].number
    <3> TAKE section \in SectionNames
    <3>1. CASE section = to
      BY <2>10, <2>16, <2>17, <3>1
    <3>2. CASE section # to
      BY <2>1, <2>11, <2>12, <3>2 DEF Listing
    <3> QED BY <3>1, <3>2
  <2>19. \A n \in Statements : n < position =>
           \/ \E j \in DOMAIN stack' : stack'[j].number = n
           \/ \E section \in SectionNames : \E k \in DOMAIN sections'[section] :
                sections'[section][k].number = n
    <3> SUFFICES ASSUME NEW n \in Statements, n < position
                 PROVE  \/ \E j \in DOMAIN stack' : stack'[j].number = n
                        \/ \E section \in SectionNames : \E k \in DOMAIN sections'[section] :
                             sections'[section][k].number = n
      OBVIOUS
    <3>1. CASE n = e.number
      <4>1. 1 \in DOMAIN new
        BY <2>9
      <4> QED BY <2>7, <2>9, <2>10, <3>1, <4>1
    <3>2. CASE \E j \in DOMAIN stack : stack[j].number = n /\ j # Len(stack)
      BY <2>12, <3>2
    <3>3. CASE \E section \in SectionNames : \E k \in DOMAIN sections[section] :
                 sections[section][k].number = n
      <4> PICK section \in SectionNames : \E k \in DOMAIN sections[section] :
                 sections[section][k].number = n
        BY <3>3
      <4>1. CASE section # to
        BY <2>11, <4>1
      <4>2. CASE section = to
        <5> PICK k \in DOMAIN old : old[k].number = n
          BY <4>2 DEF old
        <5>1. k + 1 \in DOMAIN new /\ new[k + 1].number = n
          BY <2>9
        <5> QED BY <2>7, <2>10, <5>1
      <4> QED BY <4>1, <4>2
    <3>4. \/ \E j \in DOMAIN stack : stack[j].number = n
          \/ \E section \in SectionNames : \E k \in DOMAIN sections[section] :
               sections[section][k].number = n
      BY <2>1 DEF Listing
    <3> QED BY <2>3, <3>1, <3>2, <3>3, <3>4
  <2>20. pending' = LabelsBefore(position)'
    <3>1. LabelsBefore(position)' = LabelsBefore(position)
      BY <1>1, SameText DEF LabelsBefore
    <3> QED BY <1>1, <2>1, <3>1 DEF Listing
  <2>21. \A section : Increasing(sections[section])' <=> Increasing(sections'[section])
    BY DEF Increasing
  <2>22. \A j \in DOMAIN stack' : stack'[j].number < position'
    BY <1>1, <2>1, <2>12 DEF Listing
  <2>23. /\ outcome' = "unwinding" /\ Statements' = Statements /\ Entries' = Entries
         /\ \A section : StatementsOf(section)' = StatementsOf(section)
    BY <1>1, SameText
  <2>24. \A section \in SectionNames :
           /\ Increasing(sections[section])'
           /\ \A k \in DOMAIN sections'[section] :
                /\ sections'[section][k].number \in StatementsOf(section)'
                /\ \A j \in DOMAIN stack' : stack'[j].number < sections'[section][k].number
    BY <2>18, <2>21, <2>23
  <2> QED BY <1>1, <2>4, <2>10, <2>13, <2>19, <2>20, <2>22, <2>23, <2>24 DEF Listing
<1> QED BY <1>2, <1>3, <1>4 DEF PInv

LEMMA NextPInv == PInv /\ [Next]_vars => PInv'
<1> SUFFICES ASSUME PInv, [Next]_vars PROVE PInv'
  OBVIOUS
<1>1. CASE ReadLabels
  BY <1>1, ReadLabelsKeeps
<1>2. CASE ReadStatement
  BY <1>2, ReadStatementKeeps
<1>3. CASE Recover
  BY <1>3, RecoverKeeps
<1>4. CASE EndOfFile
  BY <1>4, EndOfFileKeeps
<1>5. CASE preprendList
  BY <1>5, preprendListKeeps
<1>6. CASE Finish
  BY <1>6, FinishKeeps
<1>7. CASE UNCHANGED vars
  <2>1. UNCHANGED <<text, position, linenumber, pending, stack, failed, sections, outcome>>
    BY <1>7 DEF vars
  <2>2. Reader'
    BY <2>1 DEF PInv, Reader
  <2>3. Judgement'
    <3>1. \A n : Accepted(text[n])' <=> Accepted(text[n])
      BY <2>1, SameText
    <3>2. Dangling(position)' <=> Dangling(position)
      BY <2>1, SameText DEF Dangling
    <3> QED BY <2>1, <3>1, <3>2 DEF PInv, Judgement
  <2>4. ASSUME ~failed' PROVE Listing'
    <3>1. Listing
      BY <2>1, <2>4 DEF PInv
    <3>2. outcome \in {"parsed", "parse_error"} => stack = <<>>
      BY <3>1 DEF Listing
    <3> QED BY <2>1, <3>1, <3>2, ListingStays
  <2> QED BY <2>2, <2>3, <2>4 DEF PInv
<1> QED BY <1>1, <1>2, <1>3, <1>4, <1>5, <1>6, <1>7 DEF Next

-----------------------------------------------------------------------------
(* The invariant holds of the parser, for every set of texts.              *)
THEOREM ParserInvariant == Spec => []PInv
<1>1. Init => PInv
  BY InitPInv
<1>2. PInv /\ [Next]_vars => PInv'
  BY NextPInv
<1> QED BY <1>1, <1>2, PTL DEF Spec

(* The parser refuses the texts with a line bison does not accept, its     *)
(* conflicts resolved by shifting, or with labels at the end, and no       *)
(* others: an error it has recovered from is not forgotten.                *)
THEOREM RefusesErrors == Spec => []RefusesWhatIsNot
<1>1. PInv => RefusesWhatIsNot
  <2> SUFFICES ASSUME PInv PROVE RefusesWhatIsNot
    OBVIOUS
  <2>1. Len(text) \in Nat /\ DOMAIN text = 1 .. Len(text)
    BY TextLines DEF PInv, Reader
  <2>2. outcome \in {"parse_error", "parsed"} => position - 1 = Len(text)
    BY <2>1 DEF PInv, Reader
  <2>3. ASSUME outcome = "parse_error"
        PROVE  \/ \E n \in DOMAIN text : ~Accepted(text[n])
               \/ \E n \in DOMAIN text : /\ text[n].labels # <<>>
                                         /\ \A m \in n .. Len(text) : m \notin Statements
    BY <2>1, <2>2, <2>3 DEF PInv, Judgement, Dangling
  <2>4. ASSUME outcome = "parsed"
        PROVE  /\ \A n \in DOMAIN text : Accepted(text[n])
               /\ \A n \in DOMAIN text : text[n].labels # <<>> =>
                    \E m \in n .. Len(text) : m \in Statements
    BY <2>1, <2>2, <2>4 DEF PInv, Judgement, Dangling
  <2> QED BY <2>3, <2>4 DEF RefusesWhatIsNot
<1> QED BY <1>1, ParserInvariant, PTL

(* The sections are those of the text, and a program for the assembler.    *)
THEOREM ParsesText == Spec => []ParsesWhatIsWritten
<1>1. PInv => ParsesWhatIsWritten
  <2> SUFFICES ASSUME PInv, outcome = "parsed"
               PROVE  /\ \A section \in DOMAIN sections : Lists(sections[section], section)
                      /\ Program \in ParsedPrograms
    BY DEF ParsesWhatIsWritten
  <2>1. /\ text \in Texts /\ Len(text) \in Nat /\ Statements \subseteq 1 .. Len(text)
        /\ position = Len(text) + 1
    BY TextLines DEF PInv, Reader
  <2>2. ~failed /\ Listing /\ \A n \in Statements : Accepted(text[n])
    BY <2>1 DEF PInv, Judgement
  <2>3. sections \in [SectionNames -> Seq(Entries)] /\ stack = <<>>
    BY <2>2 DEF Listing
  <2>4. ASSUME NEW section \in SectionNames
        PROVE  /\ Increasing(sections[section])
               /\ \A k \in DOMAIN sections[section] :
                    /\ sections[section][k] = Written(sections[section][k].number)
                    /\ sections[section][k].number \in StatementsOf(section)
    <3>1. sections[section] \in Seq(Entries)
      BY <2>3
    <3>2. \A k \in DOMAIN sections[section] : sections[section][k] \in Entries
      BY <3>1
    <3> QED BY <2>2, <3>2, EntryIs DEF Listing
  <2>5. ASSUME NEW section \in SectionNames, NEW n \in StatementsOf(section)
        PROVE  \E k \in DOMAIN sections[section] : sections[section][k].number = n
    <3>1. n \in Statements /\ n < position /\ SectionFor(Written(n).line.variant) = section
      BY <2>1 DEF StatementsOf
    <3>2. DOMAIN stack = {}
      BY <2>3
    <3> PICK other \in SectionNames : \E k \in DOMAIN sections[other] : sections[other][k].number = n
      BY <2>2, <3>1, <3>2 DEF Listing
    <3>3. n \in StatementsOf(other)
      BY <2>4
    <3>4. other = section
      BY <3>1, <3>3 DEF StatementsOf
    <3> QED BY <3>4
  <2>6. ASSUME NEW section \in SectionNames PROVE Lists(sections[section], section)
    <3> DEFINE lines == sections[section]
               numbers == [k \in DOMAIN lines |-> lines[k].number]
    <3> HIDE DEF lines
    <3>1. Range(numbers) = StatementsOf(section)
      <4>1. \A n : n \in Range(numbers) <=> \E k \in DOMAIN lines : lines[k].number = n
        BY DEF Range
      <4> HIDE DEF numbers
      <4>2. \A k \in DOMAIN lines : lines[k].number \in StatementsOf(section)
        BY <2>4 DEF lines
      <4>3. \A n \in StatementsOf(section) : \E k \in DOMAIN lines : lines[k].number = n
        BY <2>5 DEF lines
      <4> QED BY <4>1, <4>2, <4>3
    <3>2. \A j, k \in DOMAIN lines : j < k => numbers[j] < numbers[k]
      BY <2>4 DEF Increasing, lines
    <3>3. \A k \in DOMAIN lines : lines[k] = Written(numbers[k])
      BY <2>4 DEF lines
    <3> QED BY <3>1, <3>2, <3>3 DEF Lists, lines
  <2>7. ASSUME NEW section \in SectionNames
        PROVE  Program[section] \in Seq(LinesOf[section])
    <3>1. sections[section] \in Seq(Entries)
      BY <2>3
    <3>2. \A k \in DOMAIN sections[section] : sections[section][k].line \in LinesOf[section]
      <4> TAKE k \in DOMAIN sections[section]
      <4> DEFINE n == sections[section][k].number
      <4>1. n \in StatementsOf(section) /\ sections[section][k] = Written(n)
        BY <2>4
      <4> HIDE DEF n
      <4>2. n \in Statements /\ SectionFor(Written(n).line.variant) = section
        BY <4>1 DEF StatementsOf
      <4> QED BY <2>1, <2>2, <4>1, <4>2, StatementTyped
    <3>3. Program[section] = [k \in DOMAIN sections[section] |-> sections[section][k].line]
      BY <2>3 DEF Program
    <3>4. DOMAIN sections[section] = 1 .. Len(sections[section]) /\ Len(sections[section]) \in Nat
      BY <3>1
    <3> QED BY <3>2, <3>3, <3>4
  <2>8. Program = [section \in SectionNames |-> Program[section]]
    BY <2>3 DEF Program
  <2>9. /\ Program["code"] \in Seq(CodeLines) /\ Program["data"] \in Seq(DataLines)
        /\ Program["bss"] \in Seq(BssLines)
    <3>1. "code" \in SectionNames /\ "data" \in SectionNames /\ "bss" \in SectionNames
      BY DEF SectionNames
    <3>2. LinesOf["code"] = CodeLines /\ LinesOf["data"] = DataLines /\ LinesOf["bss"] = BssLines
      BY DEF LinesOf
    <3>3. /\ Program["code"] \in Seq(LinesOf["code"]) /\ Program["data"] \in Seq(LinesOf["data"])
          /\ Program["bss"] \in Seq(LinesOf["bss"])
      BY <2>7, <3>1
    <3> QED BY <3>2, <3>3
  <2>10. Program \in ParsedPrograms
    BY <2>8, <2>9 DEF ParsedPrograms, SectionNames
  <2>11. DOMAIN sections = SectionNames
    BY <2>3
  <2> QED BY <2>6, <2>10, <2>11
<1> QED BY <1>1, ParserInvariant, PTL
=============================================================================
