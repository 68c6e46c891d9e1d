-------------------------- MODULE AssemblerProofs --------------------------
(***************************************************************************)
(* The assembler is correct for every set of programs: what it keeps is    *)
(* typed, what it returns is a program the machine can be started on, and  *)
(* the search for free memory wastes none.  The invariant says where the   *)
(* passes are: which lines have got their address, what is translated, and *)
(* what is known of the addresses behind which the search goes on.         *)
(***************************************************************************)
EXTENDS Assembler, WordsProofs

LineIds == UNION { {section} \X DOMAIN program[section] :
                     section \in {"code", "data", "bss"} }

(* The lines that have got their address.                                  *)
LaidOut(id) ==
  \/ /\ id[1] = "data" /\ LineAt(id).variant = "LINE_SET"
     /\ pass = "layout_fixed" => id[2] < line
  \/ /\ id[1] = "data" /\ LineAt(id).variant = "LINE_WORDS"
     /\ pass # "layout_fixed" /\ (pass = "layout_data" => id[2] < line)
  \/ /\ id[1] = "bss"
     /\ pass \notin {"layout_fixed", "layout_data"} /\ (pass = "layout_bss" => id[2] < line)
  \/ /\ id[1] = "code"
     /\ pass \notin {"layout_fixed", "layout_data", "layout_bss"}
     /\ pass = "layout_code" => id[2] < line

Positioned ==
  /\ program \in Programs
  /\ pass \in Range(Passes)
  /\ line \in Nat \ {0}
  /\ pass # "done" => line <= Len(program[SectionOf(pass)]) + 1
  /\ exception \in Exceptions \cup {"none"}

Tabled ==
  /\ base_address \in 0 .. (HalfRange - 1)
  /\ pass = "layout_code" => base_address = line - 1
  /\ DOMAIN memory_layout \subseteq Word
  /\ \A address \in DOMAIN memory_layout : memory_layout[address] \in Word
  /\ DOMAIN symbol_table \subseteq Symbols
  /\ \A name \in DOMAIN symbol_table : symbol_table[name] \in Word

EndOf(id) == base_of[id] + Size(LineAt(id))

Placed ==
  /\ DOMAIN base_of = { id \in LineIds : LaidOut(id) }
  /\ \A id \in DOMAIN base_of : base_of[id] \in Word
  /\ \A id \in DOMAIN base_of : id[1] = "code" => base_of[id] = id[2] - 1
  /\ \A id \in Allocated :
       /\ Size(LineAt(id)) \in Nat
       /\ 0 <= base_of[id] /\ EndOf(id) < HalfRange

Coded ==
  /\ code \in Seq(Instruction)
  /\ Len(code) = IF pass = "translate_program" THEN line - 1
                 ELSE IF pass = "done" THEN Len(program.code) ELSE 0
  /\ entry_address \in -1 .. (Len(code) - 1)
  /\ \A i \in DOMAIN code : IsStart(code[i]) <=> i = entry_address + 1
  /\ \A i, j \in DOMAIN code : IsStop(code[i]) /\ IsStop(code[j]) => i = j
  /\ pass = "done" => Contains(IsStart) /\ Contains(IsStop)

AInv == Positioned /\ Tabled /\ Placed /\ Coded

-----------------------------------------------------------------------------
(* The passes, by name. *)
LEMMA PassNames ==
  Range(Passes) = { "layout_fixed", "layout_data", "layout_bss", "layout_code",
                    "build_data", "build_bss", "translate_program", "done" }
BY DEF Passes, Range

LEMMA FollowingPass ==
  /\ Following("layout_fixed") = "layout_data"
  /\ Following("layout_data")  = "layout_bss"
  /\ Following("layout_bss")   = "layout_code"
  /\ Following("layout_code")  = "build_data"
  /\ Following("build_data")   = "build_bss"
  /\ Following("build_bss")    = "translate_program"
  /\ Following("translate_program") = "done"
<1>1. DOMAIN Passes = 1 .. 8
  BY DEF Passes
<1> DEFINE Place(p) == CHOOSE i \in DOMAIN Passes : Passes[i] = p
<1>2. /\ Place("layout_fixed") = 1 /\ Place("layout_data") = 2
      /\ Place("layout_bss") = 3 /\ Place("layout_code") = 4
      /\ Place("build_data") = 5 /\ Place("build_bss") = 6
      /\ Place("translate_program") = 7
  BY <1>1 DEF Passes
<1> QED BY <1>2 DEF Following, Passes

(* The lines of a program. *)
LEMMA ProgramLines ==
  ASSUME program \in Programs
  PROVE  /\ program.code \in Seq(CodeLines) /\ Len(program.code) < HalfRange
         /\ program.data \in Seq(DataLines)
         /\ program.bss \in Seq(BssLines)
         /\ \A i \in DOMAIN program.data : program.data[i].variant = "LINE_WORDS" =>
              Len(program.data[i].data) < HalfRange
BY ProgramsAssumption DEF ParsedPrograms

LEMMA LineKinds ==
  ASSUME program \in Programs
  PROVE  /\ \A i \in DOMAIN program.code : program.code[i] \in CodeLines
         /\ \A i \in DOMAIN program.data : program.data[i] \in DataLines
         /\ \A i \in DOMAIN program.bss : program.bss[i] \in BssLines
         /\ DOMAIN program.code = 1 .. Len(program.code) /\ Len(program.code) \in Nat
         /\ DOMAIN program.data = 1 .. Len(program.data) /\ Len(program.data) \in Nat
         /\ DOMAIN program.bss = 1 .. Len(program.bss) /\ Len(program.bss) \in Nat
<1>1. \A S : \A s \in Seq(S) : /\ Len(s) \in Nat /\ DOMAIN s = 1 .. Len(s)
                               /\ \A i \in DOMAIN s : s[i] \in S
  OBVIOUS
<1> QED BY <1>1, ProgramLines

LEMMA Variants ==
  /\ \A l \in CodeLines : l.variant = "LINE_INSTRUCTION"
  /\ \A l \in DataLines : l.variant \in {"LINE_WORDS", "LINE_SET"}
  /\ \A l \in BssLines : l.variant = "LINE_RESERVED"
BY DEF CodeLines, DataLines, BssLines

-----------------------------------------------------------------------------
(* Evaluation. *)
LEMMA PrimitiveWord ==
  ASSUME NEW primitive \in PrimitiveOperands, NEW position \in Word, NEW table,
         \A name \in DOMAIN table : table[name] \in Word,
         primitive.variant = "PRIMITIVE_SYMBOL" => primitive.value \in DOMAIN table
  PROVE  eval_primitive(primitive, position, table) \in Word
<1>1. CASE primitive.variant = "PRIMITIVE_SYMBOL"
  BY <1>1 DEF eval_primitive
<1>2. CASE primitive.variant = "PRIMITIVE_CONSTANT"
  BY <1>2 DEF eval_primitive, PrimitiveOperands
<1>3. CASE primitive.variant = "PRIMITIVE_RELATIVE"
  <2>1. primitive.value \in Word
    BY <1>3 DEF PrimitiveOperands
  <2>2. AddW(position, primitive.value) \in Word
    BY <2>1, AddWord
  <2> QED BY <1>3, <2>2 DEF eval_primitive
<1> QED BY <1>1, <1>2, <1>3 DEF PrimitiveOperands

LEMMA EvalWord ==
  ASSUME NEW operand \in Operands \cup {noOperand}, NEW position \in Word, NEW table,
         \A name \in DOMAIN table : table[name] \in Word,
         Evaluates(operand, table)
  PROVE  eval(operand, position, table) \in Word
<1>1. CASE operand = noOperand
  BY <1>1, HalfRangeNat DEF noOperand, eval, Word
<1>2. CASE operand \in PrimitiveOperands
  <2>1. Primitives(operand) = {operand}
    BY <1>2 DEF PrimitiveOperands, Primitives
  <2>2. operand.variant = "PRIMITIVE_SYMBOL" => operand.value \in DOMAIN table
    BY <2>1 DEF Evaluates
  <2>3. eval_primitive(operand, position, table) \in Word
    BY <1>2, <2>2, PrimitiveWord
  <2> QED BY <1>2, <2>3 DEF PrimitiveOperands, eval
<1>3. CASE operand \in ComplexOperands
  <2>1. /\ operand.variant \in {"COMPLEX_ADD", "COMPLEX_SUB"}
        /\ operand.lhs \in PrimitiveOperands /\ operand.rhs \in PrimitiveOperands
    BY <1>3 DEF ComplexOperands
  <2>2. Primitives(operand) = {operand.lhs, operand.rhs}
    BY <2>1 DEF Primitives
  <2> DEFINE a == eval_primitive(operand.lhs, position, table)
             b == eval_primitive(operand.rhs, position, table)
  <2>3. a \in Word /\ b \in Word
    BY <2>1, <2>2, PrimitiveWord DEF Evaluates
  <2>4. eval(operand, position, table) \in {AddW(a, b), SubW(a, b)}
    BY <2>1 DEF eval
  <2> QED BY <2>3, <2>4, AddWord, SubWord
<1> QED BY <1>1, <1>2, <1>3 DEF Operands

LEMMA RestrictWord ==
  ASSUME NEW operand \in Operands, RestrictEvaluates(operand)
  PROVE  restrict_eval(operand) \in Word
<1>1. Evaluates(operand, <<>>)
  BY DEF RestrictEvaluates, Evaluates
<1>2. 0 \in Word
  BY HalfRangeNat DEF Word
<1>3. \A name \in DOMAIN <<>> : <<>>[name] \in Word
  OBVIOUS
<1> QED BY <1>1, <1>2, <1>3, EvalWord DEF restrict_eval

(* The operand half of an instruction word. *)
LEMMA EncodedBits ==
  ASSUME NEW value \in Word
  PROVE  /\ operand_low_value(value) \in 0 .. (2 * OPERAND_SIGN - 1)
         /\ operand_high_value(value) \in 0 .. (2 * OPERAND_SIGN - 1)
<1>1. value \in Int
  BY WordInt
<1>2. \A a \in Int, n \in Nat \ {0} : a % n \in 0 .. (n - 1)
  OBVIOUS
<1>3. value % OPERAND_SIGN \in 0 .. (OPERAND_SIGN - 1)
  BY <1>1, <1>2, WidthAssumption
<1>4. value \div OPERAND_SIGN \in Int
  BY <1>1, WidthAssumption
<1> DEFINE q == value \div OPERAND_SIGN
           higher_bits == q % (2 * OPERAND_SIGN)
<1>5. higher_bits \in 0 .. (2 * OPERAND_SIGN - 1)
  <2> HIDE DEF q
  <2>1. 2 * OPERAND_SIGN \in Nat \ {0}
    BY WidthAssumption
  <2> QED BY <1>2, <1>4, <2>1 DEF q
<1>6. operand_high_value(value) = IF value < 0 THEN 2 * OPERAND_SIGN - 1 - higher_bits
                                               ELSE higher_bits
  BY DEF operand_high_value
<1>7. operand_high_value(value) \in 0 .. (2 * OPERAND_SIGN - 1)
  <2> HIDE DEF higher_bits
  <2> QED BY <1>1, <1>5, <1>6, WidthAssumption
<1>8. operand_low_value(value) \in 0 .. (2 * OPERAND_SIGN - 1)
  <2> DEFINE low == value % OPERAND_SIGN
  <2>1. operand_low_value(value) = low + (IF value < 0 THEN OPERAND_SIGN ELSE 0)
    BY DEF operand_low_value
  <2> HIDE DEF low
  <2> QED BY <1>1, <1>3, <2>1, WidthAssumption DEF low
<1> QED BY <1>7, <1>8

-----------------------------------------------------------------------------
(* The positions of lines. *)
LEMMA IdKinds ==
  ASSUME program \in Programs, NEW id \in LineIds
  PROVE  /\ id = <<id[1], id[2]>>
         /\ id[1] \in {"code", "data", "bss"}
         /\ id[2] \in DOMAIN program[id[1]]
         /\ id[2] \in Nat \ {0} /\ id[2] <= Len(program[id[1]])
         /\ id[1] = "code" => LineAt(id) \in CodeLines
         /\ id[1] = "data" => LineAt(id) \in DataLines
         /\ id[1] = "bss"  => LineAt(id) \in BssLines
<1>1. PICK section \in {"code", "data", "bss"} : id \in {section} \X DOMAIN program[section]
  BY DEF LineIds
<1>2. id = <<id[1], id[2]>> /\ id[1] = section /\ id[2] \in DOMAIN program[section]
  BY <1>1
<1>3. id[2] \in Nat \ {0} /\ id[2] <= Len(program[section])
  BY <1>2, LineKinds
<1> QED BY <1>2, <1>3, LineKinds DEF LineAt

LEMMA IsId ==
  ASSUME NEW section \in {"code", "data", "bss"}, NEW i \in DOMAIN program[section]
  PROVE  <<section, i>> \in LineIds
BY DEF LineIds

(* The line a pass is at, in the section of the pass. *)
LEMMA Here ==
  ASSUME Positioned, NEW passes, At(passes), pass # "done"
  PROVE  /\ SectionOf(pass) \in {"code", "data", "bss"}
         /\ Id \in LineIds /\ Id[1] = SectionOf(pass) /\ Id[2] = line
         /\ line < Len(program[SectionOf(pass)]) + 1
         /\ SectionOf(pass) = "code" => Current \in CodeLines
         /\ SectionOf(pass) = "data" => Current \in DataLines
         /\ SectionOf(pass) = "bss"  => Current \in BssLines
<1>1. SectionOf(pass) \in {"code", "data", "bss"}
  BY PassNames DEF SectionOf, Positioned
<1>2. Id \in LineIds /\ Id[1] = SectionOf(pass) /\ Id[2] = line
  BY <1>1, IsId DEF At, Id
<1> QED BY <1>1, <1>2, IdKinds DEF Positioned, Current

(* The line gets its address now. *)
Lays ==
  \/ pass = "layout_fixed" /\ Current.variant = "LINE_SET"
  \/ pass = "layout_data" /\ Current.variant = "LINE_WORDS"
  \/ pass \in {"layout_bss", "layout_code"}

LEMMA Proceeds ==
  ASSUME Positioned, NEW passes, At(passes), pass # "done", Proceed
  PROVE  Positioned'
<1>1. line' = line + 1 /\ UNCHANGED <<program, pass, exception>>
  BY DEF Proceed
<1>2. line' <= Len(program[SectionOf(pass)]) + 1
  BY <1>1, Here, LineKinds DEF Positioned
<1>3. (SectionOf(pass))' = SectionOf(pass)
  BY <1>1 DEF SectionOf
<1> QED BY <1>1, <1>2, <1>3 DEF Positioned

LEMMA LaidOutGrows ==
  ASSUME Positioned, NEW passes, At(passes), pass # "done", Proceed, NEW id \in LineIds
  PROVE  LaidOut(id)' <=> LaidOut(id) \/ (Lays /\ id = Id)
<1>1. line' = line + 1 /\ UNCHANGED <<program, pass>> /\ line \in Nat
  BY DEF Proceed, Positioned
<1>2. UNCHANGED LineAt(id)
  BY <1>1 DEF LineAt
<1>3. /\ id = <<id[1], id[2]>> /\ id[1] \in {"code", "data", "bss"} /\ id[2] \in Nat
  BY IdKinds DEF Positioned
<1>4. id[2] < line' <=> id[2] < line \/ id[2] = line
  BY <1>1, <1>3
<1>5. id = Id <=> id[1] = SectionOf(pass) /\ id[2] = line
  BY <1>3 DEF Id
<1>6. id = Id => LineAt(id) = Current
  BY DEF Current
<1>7. /\ SectionOf("layout_fixed") = "data" /\ SectionOf("layout_data") = "data"
      /\ SectionOf("layout_bss") = "bss" /\ SectionOf("layout_code") = "code"
  BY DEF SectionOf
<1>8. CASE id[1] = "data"
  <2>1. LineAt(id).variant \in {"LINE_WORDS", "LINE_SET"}
    BY <1>8, IdKinds, Variants DEF Positioned
  <2> QED BY <1>1, <1>2, <1>4, <1>5, <1>6, <1>7, <1>8, <2>1 DEF LaidOut, Lays
<1>9. CASE id[1] = "bss"
  BY <1>1, <1>2, <1>4, <1>5, <1>6, <1>7, <1>9 DEF LaidOut, Lays
<1>10. CASE id[1] = "code"
  BY <1>1, <1>2, <1>4, <1>5, <1>6, <1>7, <1>10 DEF LaidOut, Lays
<1> QED BY <1>3, <1>8, <1>9, <1>10

(* A line is laid out once. *)
LEMMA NotYet ==
  ASSUME Positioned, NEW passes, At(passes), pass # "done", Lays
  PROVE  ~LaidOut(Id)
<1>1. Id[1] = SectionOf(pass) /\ Id[2] = line /\ line \in Nat /\ LineAt(Id) = Current
  BY Here DEF Current, Positioned
<1>2. /\ SectionOf("layout_fixed") = "data" /\ SectionOf("layout_data") = "data"
      /\ SectionOf("layout_bss") = "bss" /\ SectionOf("layout_code") = "code"
  BY DEF SectionOf
<1> QED BY <1>1, <1>2 DEF Lays, LaidOut

LEMMA EnterPlaced ==
  ASSUME Positioned, Placed, NEW passes, At(passes), pass # "done", Proceed, Lays,
         NEW names, NEW address \in Word, enter_symbols(names, address),
         pass = "layout_code" => address = line - 1,
         Current.variant \in {"LINE_WORDS", "LINE_RESERVED"} =>
           /\ Size(Current) \in Nat
           /\ 0 <= address /\ address + Size(Current) < HalfRange
  PROVE  Placed'
<1>1. UNCHANGED <<program, pass>> /\ LineIds' = LineIds
  BY DEF Proceed, LineIds
<1>2. base_of' = With(base_of, Id, address)
  BY DEF enter_symbols
<1>3. /\ DOMAIN base_of' = DOMAIN base_of \cup {Id}
      /\ base_of'[Id] = address
      /\ \A id \in DOMAIN base_of : id # Id => base_of'[id] = base_of[id]
  BY <1>2 DEF With
<1>4. Id \in LineIds /\ Id[1] = SectionOf(pass) /\ Id[2] = line
  BY Here
<1>5. DOMAIN base_of' = { id \in LineIds : LaidOut(id)' }
  BY <1>3, <1>4, LaidOutGrows DEF Placed
<1>6. \A id \in DOMAIN base_of' : base_of'[id] \in Word
  BY <1>3 DEF Placed
<1>7. \A id \in DOMAIN base_of' : id[1] = "code" => base_of'[id] = id[2] - 1
  <2>1. Id[1] = "code" => pass = "layout_code"
    BY <1>4 DEF SectionOf, Lays
  <2> QED BY <1>3, <1>4, <2>1 DEF Placed
<1>8. \A id : LineAt(id)' = LineAt(id) /\ Size(LineAt(id))' = Size(LineAt(id))
  BY <1>1 DEF LineAt, Size
<1>9. ASSUME NEW id \in Allocated'
      PROVE  /\ Size(LineAt(id))' \in Nat
             /\ 0 <= base_of'[id] /\ EndOf(id)' < HalfRange
  <2>1. id \in DOMAIN base_of' /\ LineAt(id).variant \in {"LINE_WORDS", "LINE_RESERVED"}
    BY <1>8, <1>9 DEF Allocated
  <2>2. EndOf(id)' = base_of'[id] + Size(LineAt(id))
    BY <1>8 DEF EndOf
  <2>3. CASE id = Id
    BY <1>3, <1>8, <2>1, <2>2, <2>3 DEF Current
  <2>4. CASE id # Id
    <3>1. id \in Allocated /\ base_of'[id] = base_of[id]
      BY <1>3, <2>1, <2>4 DEF Allocated
    <3> QED BY <1>8, <2>2, <3>1 DEF Placed, EndOf
  <2> QED BY <2>3, <2>4
<1> QED BY <1>1, <1>5, <1>6, <1>7, <1>9 DEF Placed

LEMMA KeepPlaced ==
  ASSUME Positioned, Placed, NEW passes, At(passes), pass # "done", Proceed, ~Lays,
         UNCHANGED base_of
  PROVE  Placed'
<1>1. UNCHANGED <<program, pass>> /\ LineIds' = LineIds
  BY DEF Proceed, LineIds
<1>2. DOMAIN base_of' = { id \in LineIds : LaidOut(id)' }
  BY LaidOutGrows DEF Placed
<1>3. \A id : LineAt(id)' = LineAt(id) /\ Size(LineAt(id))' = Size(LineAt(id))
  BY <1>1 DEF LineAt, Size
<1>4. Allocated' = Allocated /\ \A id : EndOf(id)' = EndOf(id)
  BY <1>3 DEF Allocated, EndOf
<1> QED BY <1>1, <1>2, <1>3, <1>4 DEF Placed

-----------------------------------------------------------------------------
(* The steps, table by table. *)
LEMMA StillPlaced ==
  ASSUME Placed, UNCHANGED <<program, pass, line, base_of>>
  PROVE  /\ Placed'
         /\ UNCHANGED <<LineIds, Allocated, FixedCells>>
         /\ \A id : LineAt(id)' = LineAt(id) /\ EndOf(id)' = EndOf(id)
<1>1. LineIds' = LineIds /\ \A id : LineAt(id)' = LineAt(id)
  BY DEF LineIds, LineAt
<1>2. \A id : LaidOut(id)' = LaidOut(id) /\ EndOf(id)' = EndOf(id)
  BY <1>1 DEF LaidOut, EndOf, LineAt, Size
<1>3. Allocated' = Allocated /\ FixedCells' = FixedCells
  BY <1>1 DEF Allocated, FixedCells, TakesMemory, NamesSymbol
<1>4. Placed'
  BY <1>1, <1>2, <1>3 DEF Placed, Size
<1> QED BY <1>1, <1>2, <1>3, <1>4

LEMMA ThrowKeeps ==
  ASSUME AInv, NEW e \in Exceptions, Throw(e)
  PROVE  AInv'
<1>1. UNCHANGED <<program, pass, line, base_address, memory_layout, symbol_table,
                  base_of, code, entry_address>>
  BY DEF Throw, layoutVars, translationVars
<1>2. Positioned'
  BY <1>1 DEF AInv, Positioned, Throw, SectionOf
<1>3. Tabled'
  BY <1>1 DEF AInv, Tabled
<1>4. Placed'
  BY <1>1, StillPlaced DEF AInv
<1>5. Coded'
  BY <1>1 DEF AInv, Coded, Contains
<1> QED BY <1>2, <1>3, <1>4, <1>5 DEF AInv

LEMMA EnterTabled ==
  ASSUME Tabled, NEW names \in Labels, NEW address \in Word, enter_symbols(names, address)
  PROVE  /\ DOMAIN symbol_table' \subseteq Symbols
         /\ \A name \in DOMAIN symbol_table' : symbol_table'[name] \in Word
<1>1. Range(names) \subseteq Symbols
  BY DEF Range, Labels
<1>2. symbol_table' = [ name \in DOMAIN symbol_table \cup Range(names) |->
                         IF name \in Range(names) THEN address ELSE symbol_table[name] ]
  BY DEF enter_symbols
<1> HIDE DEF enter_symbols
<1> QED BY <1>1, <1>2 DEF Tabled

LEMMA KeepCoded ==
  ASSUME Coded, Proceed, pass \notin {"translate_program", "done"}, UNCHANGED translationVars
  PROVE  Coded'
BY DEF Coded, Proceed, translationVars, Contains

LEMMA LabelsOf ==
  /\ \A l \in CodeLines \cup DataLines \cup BssLines : l.labels \in Labels
  /\ \A l \in DataLines : Names(l) \in Labels
<1>1. \A l \in CodeLines : l.labels \in Labels
  BY DEF CodeLines
<1>2. \A l \in DataLines : l.labels \in Labels
  BY DEF DataLines
<1>3. \A l \in BssLines : l.labels \in Labels
  BY DEF BssLines
<1>4. ASSUME NEW l \in DataLines, NamesSymbol(l)
      PROVE  Names(l) \in Labels
  <2>1. l.memoryAddress \in Operands /\ l.memoryAddress.variant = "PRIMITIVE_SYMBOL"
    BY <1>4 DEF NamesSymbol, DataLines
  <2>2. l.memoryAddress.value \in Symbols
    BY <2>1 DEF Operands, PrimitiveOperands, ComplexOperands
  <2>3. <<l.memoryAddress.value>> \o l.labels \in Seq(Symbols)
    BY <1>2, <2>2 DEF Labels
  <2> QED BY <1>4, <2>3 DEF Names, Labels
<1> QED BY <1>1, <1>2, <1>3, <1>4 DEF Names

LEMMA SetLines ==
  ASSUME NEW l \in DataLines, l.variant = "LINE_SET"
  PROVE  l.memoryAddress \in Operands /\ l.value \in Operands
BY DEF DataLines

LEMMA FixAddressKeeps ==
  ASSUME AInv, FixAddress
  PROVE  AInv'
<1> DEFINE l == Current
           address == restrict_eval(l.memoryAddress)
<1>1. Positioned /\ At({"layout_fixed"}) /\ pass = "layout_fixed" /\ l.variant = "LINE_SET"
  BY DEF AInv, FixAddress, At
<1>2. CASE \E e \in Exceptions : Throw(e)
  BY <1>2, ThrowKeeps
<1>3. CASE /\ RestrictEvaluates(l.memoryAddress)
           /\ memory_layout' = With(memory_layout, address, 0)
           /\ enter_symbols(l.labels, address)
           /\ Proceed
           /\ UNCHANGED <<base_address, translationVars>>
  <2>1. l \in DataLines
    BY <1>1, Here DEF SectionOf
  <2>2. address \in Word /\ l.labels \in Labels
    BY <1>1, <1>3, <2>1, SetLines, RestrictWord, LabelsOf
  <2>3. Positioned'
    BY <1>1, <1>3, Proceeds
  <2>4. Placed'
    <3>1. Lays /\ pass # "layout_code" /\ pass # "done"
      BY <1>1 DEF Lays
    <3>2. Current.variant \notin {"LINE_WORDS", "LINE_RESERVED"}
      BY <1>1
    <3> HIDE DEF l, address
    <3> QED BY <1>1, <1>3, <2>2, <3>1, <3>2, EnterPlaced DEF AInv
  <2>5. Coded'
    BY <1>1, <1>3, KeepCoded DEF AInv
  <2>6. /\ DOMAIN symbol_table' \subseteq Symbols
        /\ \A name \in DOMAIN symbol_table' : symbol_table'[name] \in Word
    BY <1>3, <2>2, EnterTabled DEF AInv
  <2>7. /\ DOMAIN memory_layout' \subseteq Word
        /\ \A a \in DOMAIN memory_layout' : memory_layout'[a] \in Word
    <3>1. 0 \in Word
      BY HalfRangeNat DEF Word
    <3> HIDE DEF address
    <3> QED BY <1>3, <2>2, <3>1 DEF AInv, Tabled, With
  <2>8. base_address' = base_address /\ pass' # "layout_code"
    BY <1>1, <1>3 DEF Proceed
  <2>9. Tabled'
    BY <2>6, <2>7, <2>8 DEF AInv, Tabled
  <2> QED BY <2>3, <2>4, <2>5, <2>9 DEF AInv
<1> QED BY <1>2, <1>3 DEF FixAddress, Check, Exceptions

LEMMA FixSymbolKeeps ==
  ASSUME AInv, FixSymbol
  PROVE  AInv'
<1> DEFINE l == Current
           value == restrict_eval(l.value)
<1>1. /\ Positioned /\ At({"layout_fixed"}) /\ pass = "layout_fixed"
      /\ l.variant = "LINE_SET"
  BY DEF AInv, FixSymbol, At, NamesSymbol
<1>2. CASE \E e \in Exceptions : Throw(e)
  BY <1>2, ThrowKeeps
<1>3. CASE /\ RestrictEvaluates(l.value)
           /\ enter_symbols(Names(l), value)
           /\ Proceed
           /\ UNCHANGED <<base_address, memory_layout, translationVars>>
  <2>1. l \in DataLines
    BY <1>1, Here DEF SectionOf
  <2>2. value \in Word /\ Names(l) \in Labels
    BY <1>1, <1>3, <2>1, SetLines, RestrictWord, LabelsOf
  <2>3. Positioned'
    BY <1>1, <1>3, Proceeds
  <2>4. Placed'
    <3>1. Lays /\ pass # "layout_code" /\ pass # "done"
      BY <1>1 DEF Lays
    <3>2. Current.variant \notin {"LINE_WORDS", "LINE_RESERVED"}
      BY <1>1
    <3> HIDE DEF l, value
    <3> QED BY <1>1, <1>3, <2>2, <3>1, <3>2, EnterPlaced DEF AInv
  <2>5. Coded'
    BY <1>1, <1>3, KeepCoded DEF AInv
  <2>6. /\ DOMAIN symbol_table' \subseteq Symbols
        /\ \A name \in DOMAIN symbol_table' : symbol_table'[name] \in Word
    BY <1>3, <2>2, EnterTabled DEF AInv
  <2>7. UNCHANGED <<base_address, memory_layout>> /\ pass' # "layout_code"
    BY <1>1, <1>3 DEF Proceed
  <2>8. Tabled'
    BY <2>6, <2>7 DEF AInv, Tabled
  <2> QED BY <2>3, <2>4, <2>5, <2>8 DEF AInv
<1> QED BY <1>2, <1>3 DEF FixSymbol, Check, Exceptions

(* The size of a block of memory is a word, and what allocate_range checks *)
(* keeps the block within the addresses.                                   *)
LEMMA BlockSize ==
  ASSUME Positioned, At({"layout_data", "layout_bss"}),
         Current.variant \in {"LINE_WORDS", "LINE_RESERVED"},
         \A operand \in FixedOperands(Current) : RestrictEvaluates(operand)
  PROVE  Size(Current) \in Word /\ Lays /\ Current.labels \in Labels
<1>1. pass \in {"layout_data", "layout_bss"} /\ pass # "done"
  BY DEF At
<1>2. CASE pass = "layout_data"
  <2>1. Current \in DataLines /\ Current.variant = "LINE_WORDS"
    BY <1>1, <1>2, Here, Variants DEF SectionOf
  <2>2. Current = program.data[line] /\ line \in DOMAIN program.data
    BY <1>2 DEF Current, LineAt, Id, SectionOf, At
  <2>3. Current.data \in Seq(Operands)
    BY <2>1 DEF DataLines
  <2>4. Len(Current.data) \in Nat /\ Len(Current.data) < HalfRange
    BY <2>1, <2>2, <2>3, ProgramLines DEF Positioned
  <2>5. Size(Current) = Len(Current.data)
    BY <2>1 DEF Size
  <2> QED BY <1>2, <2>1, <2>4, <2>5, HalfRangeNat, LabelsOf DEF Word, Lays
<1>3. CASE pass = "layout_bss"
  <2>1. Current \in BssLines /\ Current.variant = "LINE_RESERVED"
    BY <1>1, <1>3, Here, Variants DEF SectionOf
  <2>2. Current.size \in Operands
    BY <2>1 DEF BssLines
  <2>3. RestrictEvaluates(Current.size)
    BY <2>1 DEF FixedOperands
  <2>4. Size(Current) = restrict_eval(Current.size)
    BY <2>1 DEF Size
  <2> QED BY <1>3, <2>1, <2>2, <2>3, <2>4, RestrictWord, LabelsOf DEF Lays
<1> QED BY <1>1, <1>2, <1>3

LEMMA NoWrap ==
  ASSUME NEW base \in 0 .. (HalfRange - 1), NEW size \in Word,
         size >= 0, AddW(base, size) >= 0
  PROVE  base + size < HalfRange
BY HalfRangeNat DEF AddW, Wrap, Word

(* What becomes of a block: the next round of the search, a refusal, or    *)
(* its addresses.                                                          *)
LEMMA AllocationCases ==
  ASSUME AInv, LayoutMemory
  PROVE  \/ \E e \in Exceptions : Throw(e)
         \/ /\ Positioned /\ At({"layout_data", "layout_bss"}) /\ Lays
            /\ pass \in {"layout_data", "layout_bss"}
            /\ Current.variant \in {"LINE_WORDS", "LINE_RESERVED"}
            /\ \A operand \in FixedOperands(Current) : RestrictEvaluates(operand)
            /\ Size(Current) \in Nat /\ Current.labels \in Labels
            /\ base_address \in Nat /\ base_address + Size(Current) < HalfRange
            /\ LET range     == base_address .. (base_address + Size(Current) - 1)
                   colliding == range \cap DOMAIN memory_layout
               IN  \/ colliding # {} /\ Collide(colliding)
                   \/ colliding = {} /\ Fresh(Current.labels) /\ Reserve(range, Size(Current))
<1> DEFINE size == Size(Current)
           range == base_address .. (base_address + size - 1)
           colliding == range \cap DOMAIN memory_layout
<1> SUFFICES ASSUME ~\E e \in Exceptions : Throw(e)
             PROVE  /\ Positioned /\ At({"layout_data", "layout_bss"}) /\ Lays
                    /\ pass \in {"layout_data", "layout_bss"}
                    /\ Current.variant \in {"LINE_WORDS", "LINE_RESERVED"}
                    /\ \A operand \in FixedOperands(Current) : RestrictEvaluates(operand)
                    /\ size \in Nat /\ Current.labels \in Labels
                    /\ base_address \in Nat /\ base_address + size < HalfRange
                    /\ \/ colliding # {} /\ Collide(colliding)
                       \/ colliding = {} /\ Fresh(Current.labels) /\ Reserve(range, size)
  OBVIOUS
<1>1. /\ At({"layout_data", "layout_bss"})
      /\ Current.variant \in {"LINE_WORDS", "LINE_RESERVED"}
      /\ \A operand \in FixedOperands(Current) : RestrictEvaluates(operand)
      /\ allocate_range(size)
  BY DEF LayoutMemory, Check, Exceptions
<1>2. size \in Word /\ Lays /\ Current.labels \in Labels /\ Positioned
  BY <1>1, BlockSize DEF AInv
<1> HIDE DEF size
<1>3. /\ size >= 0 /\ AddW(base_address, size) >= 0
      /\ \/ colliding # {} /\ Collide(colliding)
         \/ colliding = {} /\ Fresh(Current.labels) /\ Reserve(range, size)
  BY <1>1 DEF allocate_range, Check, Exceptions
<1>4. base_address \in 0 .. (HalfRange - 1)
  BY DEF AInv, Tabled
<1>5. base_address + size < HalfRange
  BY <1>2, <1>3, <1>4, NoWrap
<1>6. size \in Nat /\ base_address \in Nat
  BY <1>2, <1>3, <1>4, WordInt, HalfRangeNat
<1> QED BY <1>1, <1>2, <1>3, <1>5, <1>6 DEF At

LEMMA CollideKeeps ==
  ASSUME AInv, Positioned, NEW size \in Nat,
         base_address \in Nat, base_address + size < HalfRange,
         pass # "layout_code",
         NEW colliding \in SUBSET (base_address .. (base_address + size - 1)),
         Collide(colliding)
  PROVE  AInv'
<1>1. PICK address \in colliding :
        /\ base_address' = address + 1
        /\ UNCHANGED <<program, pass, line, memory_layout, symbol_table, base_of,
                       code, entry_address, exception>>
  BY DEF Collide, translationVars
<1>2. base_address' \in 0 .. (HalfRange - 1)
  BY <1>1, HalfRangeNat
<1>3. Positioned'
  BY <1>1 DEF Positioned, SectionOf
<1>4. Tabled'
  BY <1>1, <1>2 DEF AInv, Tabled
<1>5. Placed'
  BY <1>1, StillPlaced DEF AInv
<1>6. Coded'
  BY <1>1 DEF AInv, Coded, Contains
<1> QED BY <1>3, <1>4, <1>5, <1>6 DEF AInv

LEMMA ReserveKeeps ==
  ASSUME AInv, At({"layout_data", "layout_bss"}), Lays,
         Current.variant \in {"LINE_WORDS", "LINE_RESERVED"},
         Size(Current) \in Nat, Current.labels \in Labels,
         base_address \in Nat, base_address + Size(Current) < HalfRange,
         Reserve(base_address .. (base_address + Size(Current) - 1), Size(Current))
  PROVE  AInv'
<1> DEFINE size == Size(Current)
           range == base_address .. (base_address + size - 1)
<1>1. /\ memory_layout' = [ address \in DOMAIN memory_layout \cup range |->
                              IF address \in range THEN 0 ELSE memory_layout[address] ]
      /\ base_address' = base_address + size
      /\ enter_symbols(Current.labels, base_address)
      /\ Proceed
      /\ UNCHANGED translationVars
  BY DEF Reserve
<1>2. Positioned /\ pass \in {"layout_data", "layout_bss"}
  BY DEF AInv, At
<1>3. base_address \in Word /\ 0 \in Word /\ base_address' \in 0 .. (HalfRange - 1)
  BY <1>1, HalfRangeNat DEF Word
<1>4. range \subseteq Word
  BY HalfRangeNat DEF Word
<1>5. Positioned'
  BY <1>1, <1>2, Proceeds
<1>6. Placed'
  <2>1. pass \notin {"done", "layout_code"}
    BY <1>2
  <2>2. Placed
    BY DEF AInv
  <2> QED BY <1>1, <1>2, <1>3, <2>1, <2>2, EnterPlaced
<1>7. Coded'
  BY <1>1, <1>2, KeepCoded DEF AInv
<1>8. Tabled'
  <2> HIDE DEF range
  <2>1. /\ DOMAIN memory_layout' \subseteq Word
        /\ \A a \in DOMAIN memory_layout' : memory_layout'[a] \in Word
    BY <1>1, <1>3, <1>4 DEF AInv, Tabled
  <2>2. /\ DOMAIN symbol_table' \subseteq Symbols
        /\ \A name \in DOMAIN symbol_table' : symbol_table'[name] \in Word
    BY <1>1, <1>3, EnterTabled DEF AInv
  <2>3. pass' # "layout_code"
    BY <1>1, <1>2 DEF Proceed
  <2> QED BY <1>3, <2>1, <2>2, <2>3 DEF Tabled
<1> QED BY <1>5, <1>6, <1>7, <1>8 DEF AInv

LEMMA LayoutMemoryKeeps ==
  ASSUME AInv, LayoutMemory
  PROVE  AInv'
<1> DEFINE size == Size(Current)
           range == base_address .. (base_address + size - 1)
           colliding == range \cap DOMAIN memory_layout
<1>1. CASE \E e \in Exceptions : Throw(e)
  BY <1>1, ThrowKeeps
<1>2. CASE ~\E e \in Exceptions : Throw(e)
  <2>1. /\ At({"layout_data", "layout_bss"}) /\ Lays
        /\ pass \in {"layout_data", "layout_bss"}
        /\ Current.variant \in {"LINE_WORDS", "LINE_RESERVED"}
        /\ size \in Nat /\ Current.labels \in Labels
        /\ base_address \in Nat /\ base_address + size < HalfRange
        /\ Collide(colliding) \/ Reserve(range, size)
    BY <1>2, AllocationCases
  <2>2. CASE Collide(colliding)
    <3>1. Positioned /\ pass # "layout_code"
      BY <2>1 DEF AInv
    <3> HIDE DEF size
    <3>2. colliding \in SUBSET range
      OBVIOUS
    <3> HIDE DEF colliding
    <3> QED BY <2>1, <2>2, <3>1, <3>2, CollideKeeps
  <2>3. CASE Reserve(range, size)
    BY <2>1, <2>3, ReserveKeeps
  <2> QED BY <2>1, <2>2, <2>3
<1> QED BY <1>1, <1>2

LEMMA LayoutInstructionKeeps ==
  ASSUME AInv, LayoutInstruction
  PROVE  AInv'
<1>1. Positioned /\ At({"layout_code"}) /\ pass = "layout_code"
  BY DEF AInv, LayoutInstruction, At
<1>2. CASE \E e \in Exceptions : Throw(e)
  BY <1>2, ThrowKeeps
<1>3. CASE /\ enter_symbols(Current.labels, base_address)
           /\ base_address' = base_address + 1
           /\ Proceed
           /\ UNCHANGED <<memory_layout, translationVars>>
  <2>1. Current \in CodeLines /\ SectionOf(pass) = "code"
    BY <1>1, Here DEF SectionOf
  <2>2. Current.variant = "LINE_INSTRUCTION" /\ Current.labels \in Labels
    BY <2>1, Variants, LabelsOf
  <2>3. base_address = line - 1 /\ line \in Nat /\ line < Len(program.code) + 1
    BY <1>1, <2>1, Here DEF AInv, Tabled, Positioned
  <2>4. Len(program.code) \in Nat /\ Len(program.code) < HalfRange
    BY <1>1, LineKinds, ProgramLines DEF Positioned
  <2>5. base_address' \in 0 .. (HalfRange - 1) /\ base_address' = line' - 1
    BY <1>1, <1>3, <2>3, <2>4, HalfRangeNat DEF Proceed, AInv, Tabled
  <2>6. base_address \in Word
    BY HalfRangeNat DEF AInv, Tabled, Word
  <2>7. Positioned'
    BY <1>1, <1>3, Proceeds
  <2>8. Placed'
    <3>1. Lays /\ pass # "done" /\ Current.variant \notin {"LINE_WORDS", "LINE_RESERVED"}
      BY <1>1, <2>2 DEF Lays
    <3> QED BY <1>1, <1>3, <2>3, <2>6, <3>1, EnterPlaced DEF AInv
  <2>9. Coded'
    BY <1>1, <1>3, KeepCoded DEF AInv
  <2>10. Tabled'
    <3>1. /\ DOMAIN symbol_table' \subseteq Symbols
          /\ \A name \in DOMAIN symbol_table' : symbol_table'[name] \in Word
      BY <1>3, <2>2, <2>6, EnterTabled DEF AInv
    <3> QED BY <1>3, <2>5, <3>1 DEF AInv, Tabled
  <2> QED BY <2>7, <2>8, <2>9, <2>10 DEF AInv
<1> QED BY <1>1, <1>2, <1>3 DEF LayoutInstruction, Check, Exceptions

(* Filling the memory changes no address. *)
LEMMA WriteKeeps ==
  ASSUME AInv, At({"build_data"}), Proceed,
         UNCHANGED <<base_address, symbol_table, base_of, translationVars>>,
         DOMAIN memory_layout' \subseteq Word,
         \A address \in DOMAIN memory_layout' : memory_layout'[address] \in Word
  PROVE  AInv'
<1>1. Positioned /\ pass = "build_data" /\ ~Lays
  BY DEF AInv, At, Lays
<1>2. Positioned'
  BY <1>1, Proceeds
<1>3. Placed'
  BY <1>1, KeepPlaced DEF AInv
<1>4. Coded'
  BY <1>1, KeepCoded DEF AInv
<1>5. Tabled'
  BY <1>1 DEF AInv, Tabled, Proceed
<1> QED BY <1>2, <1>3, <1>4, <1>5 DEF AInv

LEMMA BuildWordsKeeps ==
  ASSUME AInv, BuildWords
  PROVE  AInv'
<1> DEFINE l == Current
           base == base_of[Id]
           Word_(address) == eval(l.data[address - base + 1], address, symbol_table)
           addresses == base .. (base + Len(l.data) - 1)
<1>1. /\ Positioned /\ At({"build_data"}) /\ pass = "build_data"
      /\ l.variant = "LINE_WORDS"
  BY DEF AInv, BuildWords, At
<1>2. CASE \E e \in Exceptions : Throw(e)
  BY <1>2, ThrowKeeps
<1>3. CASE /\ \A operand \in Range(l.data) : Evaluates(operand, symbol_table)
           /\ Write(addresses, Word_)
  <2>1. l \in DataLines /\ Id \in LineIds /\ Id[1] = "data"
    BY <1>1, Here DEF SectionOf
  <2>2. l.data \in Seq(Operands) /\ Size(l) = Len(l.data)
    BY <1>1, <2>1 DEF DataLines, Size
  <2>3. Id \in Allocated
    BY <1>1, <2>1 DEF AInv, Placed, LaidOut, Allocated, Current
  <2>4. base \in Word /\ 0 <= base /\ base + Len(l.data) < HalfRange /\ Len(l.data) \in Nat
    BY <2>2, <2>3 DEF AInv, Placed, EndOf, Current, Allocated
  <2>5. base \in Int
    BY <2>4, WordInt
  <2>6. ASSUME NEW address \in addresses
        PROVE  address \in Word /\ Word_(address) \in Word
    <3>1. address \in Word
      BY <2>4, <2>5, HalfRangeNat DEF Word
    <3>2. address - base + 1 \in 1 .. Len(l.data)
      BY <2>4, <2>5
    <3>3. /\ l.data[address - base + 1] \in Operands
          /\ l.data[address - base + 1] \in Range(l.data)
      BY <2>2, <3>2 DEF Range
    <3> HIDE DEF l, base
    <3> QED BY <1>3, <3>1, <3>3, EvalWord DEF AInv, Tabled
  <2> HIDE DEF l, base, addresses, Word_
  <2>7. /\ memory_layout' = [ address \in DOMAIN memory_layout \cup addresses |->
                                IF address \in addresses THEN Word_(address)
                                                         ELSE memory_layout[address] ]
        /\ Proceed
        /\ UNCHANGED <<base_address, symbol_table, base_of, translationVars>>
    BY <1>3 DEF Write
  <2>8. /\ DOMAIN memory_layout' \subseteq Word
        /\ \A address \in DOMAIN memory_layout' : memory_layout'[address] \in Word
    BY <2>6, <2>7 DEF AInv, Tabled
  <2> QED BY <1>1, <2>7, <2>8, WriteKeeps
<1> QED BY <1>2, <1>3 DEF BuildWords, Check, Exceptions

LEMMA BuildSetKeeps ==
  ASSUME AInv, BuildSet
  PROVE  AInv'
<1> DEFINE l == Current
           Value(address) == eval(l.value, address, symbol_table)
<1>1. /\ Positioned /\ At({"build_data"}) /\ pass = "build_data"
      /\ l.variant = "LINE_SET"
  BY DEF AInv, BuildSet, At
<1>2. CASE \E e \in Exceptions : Throw(e)
  BY <1>2, ThrowKeeps
<1>3. CASE Evaluates(l.value, symbol_table) /\ Write({base_of[Id]}, Value)
  <2>1. l \in DataLines /\ Id \in LineIds /\ Id[1] = "data"
    BY <1>1, Here DEF SectionOf
  <2>2. l.value \in Operands
    BY <1>1, <2>1, SetLines
  <2>3. base_of[Id] \in Word
    BY <1>1, <2>1 DEF AInv, Placed, LaidOut, Current
  <2>4. Value(base_of[Id]) \in Word
    <3> HIDE DEF l
    <3> QED BY <1>3, <2>2, <2>3, EvalWord DEF AInv, Tabled
  <2>5. /\ memory_layout' = [ address \in DOMAIN memory_layout \cup {base_of[Id]} |->
                                IF address \in {base_of[Id]} THEN Value(address)
                                                             ELSE memory_layout[address] ]
        /\ Proceed
        /\ UNCHANGED <<base_address, symbol_table, base_of, translationVars>>
    BY <1>3 DEF Write
  <2> HIDE DEF l, Value
  <2>6. /\ DOMAIN memory_layout' \subseteq Word
        /\ \A address \in DOMAIN memory_layout' : memory_layout'[address] \in Word
    BY <2>3, <2>4, <2>5 DEF AInv, Tabled
  <2> QED BY <1>1, <2>5, <2>6, WriteKeeps
<1> QED BY <1>2, <1>3 DEF BuildSet, Check, Exceptions

(* An instruction word of the line's pair and direction. *)
LEMMA EncodedInstruction ==
  ASSUME NEW l \in CodeLines, NEW value \in Word, NEW position \in Word
  PROVE  /\ encode(l, value, position) \in Instruction
         /\ IsStart(encode(l, value, position)) <=> IsStart(l)
         /\ IsStop(encode(l, value, position)) <=> IsStop(l)
<1> DEFINE bits == CASE l.op \in RELATIVE -> operand_low_value(SubW(value, position))
                     [] l.op \in UPPER    -> operand_high_value(value)
                     [] l.op \in ABSOLUTE -> operand_low_value(value)
                     [] OTHER             -> 0
<1>1. bits \in 0 .. (2 * OPERAND_SIGN - 1)
  BY EncodedBits, SubWord, WidthAssumption
<1>2. l.op \in KNOWN_INSTRUCTIONS /\ l.back \in BOOLEAN
  BY DEF CodeLines
<1>3. encode(l, value, position) = [op |-> l.op, back |-> l.back, bits |-> bits]
  BY DEF encode
<1> HIDE DEF bits
<1> QED BY <1>1, <1>2, <1>3 DEF Instruction, IsStart, IsStop

LEMMA TranslateKeeps ==
  ASSUME AInv, Translate
  PROVE  AInv'
<1> DEFINE l == Current
           position == base_of[Id]
           word == encode(l, eval(l.operand, position, symbol_table), position)
<1>1. Positioned /\ At({"translate_program"}) /\ pass = "translate_program"
  BY DEF AInv, Translate, At
<1>2. CASE \E e \in Exceptions : Throw(e)
  BY <1>2, ThrowKeeps
<1>3. CASE /\ ~(IsStart(l) /\ Contains(IsStart)) /\ ~(IsStop(l) /\ Contains(IsStop))
           /\ Evaluates(l.operand, symbol_table)
           /\ code' = Append(code, word)
           /\ entry_address' = IF IsStart(l) THEN position ELSE entry_address
           /\ Proceed
           /\ UNCHANGED layoutVars
  <2>1. l \in CodeLines /\ Id \in LineIds /\ Id[1] = "code" /\ Id[2] = line
    BY <1>1, Here DEF SectionOf
  <2>2. l.operand \in Operands \cup {noOperand}
    BY <2>1 DEF CodeLines
  <2>3. position = line - 1 /\ position \in Word
    BY <1>1, <2>1 DEF AInv, Placed, LaidOut
  <2>4. code \in Seq(Instruction) /\ Len(code) = line - 1 /\ line \in Nat \ {0}
    BY <1>1 DEF AInv, Coded, Positioned
  <2>5. eval(l.operand, position, symbol_table) \in Word
    <3> HIDE DEF l, position
    <3> QED BY <1>3, <2>2, <2>3, EvalWord DEF AInv, Tabled
  <2>6. word \in Instruction /\ (IsStart(word) <=> IsStart(l)) /\ (IsStop(word) <=> IsStop(l))
    <3> HIDE DEF l, position
    <3> QED BY <2>1, <2>3, <2>5, EncodedInstruction DEF word
  <2> HIDE DEF l, position, word
  <2>7. /\ code' \in Seq(Instruction) /\ Len(code') = line
        /\ DOMAIN code' = 1 .. line /\ DOMAIN code = 1 .. (line - 1)
        /\ code'[line] = word
        /\ \A i \in DOMAIN code : code'[i] = code[i]
    BY <1>3, <2>4, <2>6
  <2>8. entry_address \in -1 .. (line - 2)
    BY <2>4 DEF AInv, Coded
  <2>9. \A i \in DOMAIN code : IsStart(code[i]) <=> i = entry_address + 1
    BY DEF AInv, Coded
  <2>10. entry_address' \in -1 .. (Len(code') - 1)
    BY <1>3, <2>3, <2>4, <2>7, <2>8
  <2>11. \A i \in DOMAIN code' : IsStart(code'[i]) <=> i = entry_address' + 1
    <3>1. CASE IsStart(l)
      <4>1. \A i \in DOMAIN code : ~IsStart(code[i])
        BY <1>3, <3>1 DEF Contains
      <4> QED BY <1>3, <2>3, <2>4, <2>6, <2>7, <3>1, <4>1
    <3>2. CASE ~IsStart(l)
      BY <1>3, <2>4, <2>6, <2>7, <2>8, <2>9, <3>2
    <3> QED BY <3>1, <3>2
  <2>12. \A i, j \in DOMAIN code' : IsStop(code'[i]) /\ IsStop(code'[j]) => i = j
    <3>1. \A i, j \in DOMAIN code : IsStop(code[i]) /\ IsStop(code[j]) => i = j
      BY DEF AInv, Coded
    <3>2. IsStop(l) => \A i \in DOMAIN code : ~IsStop(code[i])
      BY <1>3 DEF Contains
    <3> QED BY <2>4, <2>6, <2>7, <3>1, <3>2
  <2>13. pass' = "translate_program" /\ line' = line + 1
    BY <1>1, <1>3 DEF Proceed
  <2>14. Coded'
    BY <2>4, <2>7, <2>10, <2>11, <2>12, <2>13 DEF Coded
  <2>15. Positioned'
    BY <1>1, <1>3, Proceeds
  <2>16. Placed'
    BY <1>1, <1>3, KeepPlaced DEF AInv, Lays, layoutVars
  <2>17. Tabled'
    BY <1>3, <2>13 DEF AInv, Tabled, layoutVars
  <2> QED BY <2>14, <2>15, <2>16, <2>17 DEF AInv
<1> QED BY <1>2, <1>3 DEF Translate, Check, Exceptions

LEMMA SkipKeeps ==
  ASSUME AInv, Skip
  PROVE  AInv'
<1>1. PICK passes : /\ At(passes) /\ pass \notin {"translate_program", "done", "layout_code"}
                    /\ ~Lays
  <2>1. CASE At({"layout_fixed"}) /\ Current.variant # "LINE_SET"
    BY <2>1 DEF At, Lays
  <2>2. CASE At({"layout_data"}) /\ Current.variant = "LINE_SET"
    BY <2>2 DEF At, Lays
  <2>3. CASE At({"build_data"}) /\ NamesSymbol(Current)
    BY <2>3 DEF At, Lays
  <2>4. CASE At({"build_bss"})
    BY <2>4 DEF At, Lays
  <2> QED BY <2>1, <2>2, <2>3, <2>4 DEF Skip
<1>2. Proceed /\ UNCHANGED <<layoutVars, translationVars>>
  BY DEF Skip
<1>3. Positioned'
  BY <1>1, <1>2, Proceeds DEF AInv
<1>4. Placed'
  BY <1>1, <1>2, KeepPlaced DEF AInv, layoutVars
<1>5. Coded'
  BY <1>1, <1>2, KeepCoded DEF AInv
<1>6. Tabled'
  BY <1>1, <1>2 DEF AInv, Tabled, layoutVars, Proceed
<1> QED BY <1>3, <1>4, <1>5, <1>6 DEF AInv

(* At the end of a section the pass has been at all of its lines. *)
LEMMA PassEnds ==
  ASSUME Positioned, EndOfSection
  PROVE  /\ SectionOf(pass) \in {"code", "data", "bss"}
         /\ \A id \in LineIds : id[1] = SectionOf(pass) => id[2] < line
         /\ Len(program[SectionOf(pass)]) \in Nat
         /\ line = Len(program[SectionOf(pass)]) + 1
<1>1. pass # "done" /\ SectionOf(pass) \in {"code", "data", "bss"}
  BY PassNames DEF SectionOf, Positioned, EndOfSection, Working
<1>2. Len(program[SectionOf(pass)]) \in Nat /\ line \in Nat
  BY <1>1, LineKinds DEF Positioned
<1>3. line > Len(program[SectionOf(pass)]) /\ line <= Len(program[SectionOf(pass)]) + 1
  BY <1>1 DEF EndOfSection, Positioned
<1>4. \A id \in LineIds : /\ id[2] \in Nat /\ id[2] <= Len(program[id[1]])
  BY IdKinds DEF Positioned
<1> QED BY <1>1, <1>2, <1>3, <1>4

LEMMA LaidOutStays ==
  ASSUME Positioned, NextPass, NEW id \in LineIds
  PROVE  LaidOut(id)' <=> LaidOut(id)
<1>1. /\ EndOfSection /\ pass' = Following(pass) /\ line' = 1 /\ UNCHANGED program
      /\ pass \notin {"translate_program", "done"}
  BY DEF NextPass, EndOfSection, Working
<1>2. /\ id[1] \in {"code", "data", "bss"} /\ ~(id[2] < line')
      /\ id[1] = SectionOf(pass) => id[2] < line
      /\ LineAt(id)' = LineAt(id)
  BY <1>1, IdKinds, PassEnds DEF Positioned, LineAt
<1>3. /\ SectionOf("layout_fixed") = "data" /\ SectionOf("layout_data") = "data"
      /\ SectionOf("layout_bss") = "bss" /\ SectionOf("layout_code") = "code"
  BY DEF SectionOf
<1>4. pass \in {"layout_fixed", "layout_data", "layout_bss", "layout_code", "build_data",
                "build_bss"}
  BY <1>1, PassNames DEF Positioned
<1>5. CASE pass = "layout_fixed"
  BY <1>1, <1>2, <1>3, <1>5, FollowingPass DEF LaidOut
<1>6. CASE pass = "layout_data"
  BY <1>1, <1>2, <1>3, <1>6, FollowingPass DEF LaidOut
<1>7. CASE pass = "layout_bss"
  BY <1>1, <1>2, <1>3, <1>7, FollowingPass DEF LaidOut
<1>8. CASE pass = "layout_code"
  BY <1>1, <1>2, <1>3, <1>8, FollowingPass DEF LaidOut
<1>9. CASE pass \in {"build_data", "build_bss"}
  BY <1>1, <1>2, <1>9, FollowingPass DEF LaidOut
<1> QED BY <1>4, <1>5, <1>6, <1>7, <1>8, <1>9

LEMMA NextPassKeeps ==
  ASSUME AInv, NextPass
  PROVE  AInv'
<1>1. /\ EndOfSection /\ pass' = Following(pass) /\ line' = 1
      /\ base_address' = IF pass' = "layout_code" THEN 0 ELSE base_address
      /\ UNCHANGED <<program, memory_layout, symbol_table, base_of, code, entry_address,
                     exception>>
      /\ pass \notin {"translate_program", "done"}
  BY DEF NextPass, EndOfSection, Working, translationVars
<1>2. Positioned
  BY DEF AInv
<1>3. pass \in {"layout_fixed", "layout_data", "layout_bss", "layout_code", "build_data",
                "build_bss"}
  BY <1>1, <1>2, PassNames DEF Positioned
<1>4. pass' \in Range(Passes) \ {"done", "layout_fixed"}
  BY <1>1, <1>3, FollowingPass, PassNames
<1>5. Positioned'
  <2>1. SectionOf(pass') \in {"code", "data", "bss"}
    BY <1>4, PassNames DEF SectionOf
  <2>2. Len(program[SectionOf(pass')]) \in Nat
    BY <1>2, <2>1, LineKinds DEF Positioned
  <2> QED BY <1>1, <1>2, <1>4, <2>2 DEF Positioned, SectionOf
<1>6. LineIds' = LineIds /\ \A id : LineAt(id)' = LineAt(id)
  BY <1>1 DEF LineIds, LineAt
<1>7. /\ Allocated' = Allocated
      /\ \A id : Size(LineAt(id))' = Size(LineAt(id)) /\ EndOf(id)' = EndOf(id)
  BY <1>1, <1>6 DEF Allocated, EndOf, Size
<1>8. Placed'
  BY <1>1, <1>2, <1>6, <1>7, LaidOutStays DEF AInv, Placed
<1>9. Coded'
  BY <1>1, <1>4 DEF AInv, Coded, Contains
<1>10. Tabled'
  BY <1>1, HalfRangeNat DEF AInv, Tabled
<1> QED BY <1>5, <1>8, <1>9, <1>10 DEF AInv

LEMMA FinishKeeps ==
  ASSUME AInv, Finish
  PROVE  AInv'
<1>1. EndOfSection /\ pass = "translate_program" /\ Positioned
  BY DEF Finish, AInv
<1>2. CASE \E e \in Exceptions : Throw(e)
  BY <1>2, ThrowKeeps
<1>3. CASE /\ Contains(IsStart) /\ Contains(IsStop) /\ pass' = "done"
           /\ UNCHANGED <<program, line, layoutVars, translationVars, exception>>
  <2>1. UNCHANGED <<program, line, base_address, memory_layout, symbol_table, base_of,
                    code, entry_address, exception>> /\ pass' = "done"
    BY <1>3 DEF layoutVars, translationVars
  <2>2. Positioned'
    BY <1>1, <2>1, PassNames DEF Positioned
  <2>3. Tabled'
    BY <2>1 DEF AInv, Tabled
  <2>4. LineIds' = LineIds /\ \A id : LineAt(id)' = LineAt(id)
    BY <2>1 DEF LineIds, LineAt
  <2>5. \A id : LaidOut(id)' = LaidOut(id) /\ EndOf(id)' = EndOf(id)
    BY <1>1, <2>1, <2>4 DEF LaidOut, EndOf, LineAt, Size
  <2>6. Allocated' = Allocated
    BY <2>1, <2>4 DEF Allocated
  <2>7. Placed'
    BY <2>1, <2>4, <2>5, <2>6 DEF AInv, Placed, Size
  <2>8. line = Len(program.code) + 1 /\ Len(program.code) \in Nat
    BY <1>1, PassEnds DEF SectionOf
  <2>9. Coded'
    BY <1>1, <1>3, <2>1, <2>8 DEF AInv, Coded, Contains
  <2> QED BY <2>2, <2>3, <2>7, <2>9 DEF AInv
<1> QED BY <1>1, <1>2, <1>3 DEF Finish, Check, Exceptions

LEMMA InitAInv == Init => AInv
<1> SUFFICES ASSUME Init PROVE AInv
  OBVIOUS
<1>1. Len(program.data) \in Nat /\ SectionOf(pass) = "data"
  BY LineKinds DEF Init, SectionOf
<1>2. Positioned
  BY <1>1, PassNames DEF Init, Positioned
<1>3. Tabled
  BY HalfRangeNat DEF Init, Tabled
<1>4. { id \in LineIds : LaidOut(id) } = {}
  BY <1>2, IdKinds DEF Init, LaidOut, Positioned
<1>5. DOMAIN base_of = {}
  BY DEF Init
<1>6. Placed
  BY <1>4, <1>5 DEF Placed, Allocated
<1>7. Coded
  BY DEF Init, Coded
<1> QED BY <1>2, <1>3, <1>6, <1>7 DEF AInv

LEMMA NextAInv == AInv /\ [Next]_vars => AInv'
<1> SUFFICES ASSUME AInv, [Next]_vars PROVE AInv'
  OBVIOUS
<1>1. CASE UNCHANGED vars
  <2>1. UNCHANGED <<program, pass, line, base_address, memory_layout, symbol_table,
                    base_of, code, entry_address, exception>>
    BY <1>1 DEF vars, layoutVars, translationVars
  <2>2. Placed'
    BY <2>1, StillPlaced DEF AInv
  <2>3. Positioned'
    BY <2>1 DEF AInv, Positioned, SectionOf
  <2> QED BY <2>1, <2>2, <2>3 DEF AInv, Tabled, Coded, Contains
<1>2. CASE Next
  BY <1>2, FixAddressKeeps, FixSymbolKeeps, LayoutMemoryKeeps, LayoutInstructionKeeps,
     BuildWordsKeeps, BuildSetKeeps, TranslateKeeps, SkipKeeps, NextPassKeeps, FinishKeeps
     DEF Next
<1> QED BY <1>1, <1>2

(* What the passes of the assembler keep holds of every program. *)
THEOREM AssemblerInvariant == Spec => []AInv
<1> QED BY InitAInv, NextAInv, PTL DEF Spec

(* Type correctness: the variables of assemble, resolve_symbols and        *)
(* translate_program hold what their types say; every value in the tables  *)
(* is a word, however the operands wrap around.                            *)
THEOREM AssemblerTypeCorrect == Spec => []TypeOK
<1>1. AInv => TypeOK
  <2> SUFFICES ASSUME AInv PROVE TypeOK
    OBVIOUS
  <2>1. base_address \in Word
    BY HalfRangeNat DEF AInv, Tabled, Word
  <2>2. entry_address \in Word
    <3>1. Len(program.code) < HalfRange /\ Len(program.code) \in Nat
      BY ProgramLines, LineKinds DEF AInv, Positioned
    <3>2. Len(code) < HalfRange
      <4>1. CASE pass = "translate_program"
        <5>1. line <= Len(program.code) + 1 /\ line \in Nat
          BY <4>1 DEF AInv, Positioned, SectionOf
        <5> QED BY <3>1, <4>1, <5>1, HalfRangeNat DEF AInv, Coded
      <4> QED BY <3>1, <4>1, HalfRangeNat DEF AInv, Coded
    <3>3. Len(code) \in Nat
      BY DEF AInv, Coded
    <3> QED BY <3>2, <3>3, HalfRangeNat DEF AInv, Coded, Word
  <2>3. program \in ParsedPrograms
    BY ProgramsAssumption DEF AInv, Positioned
  <2> QED BY <2>1, <2>2, <2>3 DEF AInv, Positioned, Tabled, Placed, Coded, TypeOK
<1> QED BY <1>1, AssemblerInvariant, PTL

LEMMA ImageRunnable == AInv => AssembledIsRunnable
<1> SUFFICES ASSUME AInv, pass = "done" PROVE Runnable(Image)
  BY DEF AssembledIsRunnable
<1>1. /\ code \in Seq(Instruction) /\ Len(code) = Len(program.code)
      /\ entry_address \in -1 .. (Len(code) - 1)
      /\ \A i \in DOMAIN code : IsStart(code[i]) <=> i = entry_address + 1
      /\ \A i, j \in DOMAIN code : IsStop(code[i]) /\ IsStop(code[j]) => i = j
      /\ Contains(IsStart) /\ Contains(IsStop)
  BY DEF AInv, Coded
<1>2. Len(code) < HalfRange /\ Len(code) \in Nat /\ DOMAIN code = 1 .. Len(code)
  BY <1>1, ProgramLines DEF AInv, Positioned
<1>3. entry_address \in 0 .. (Len(code) - 1)
  BY <1>1, <1>2 DEF Contains
<1>4. \E i \in DOMAIN code : \A j \in DOMAIN code : IsStop(code[j]) <=> (j = i)
  BY <1>1 DEF Contains
<1> QED BY <1>1, <1>2, <1>3, <1>4 DEF Image, Runnable, AInv, Tabled

(* The interface to the machine: whatever assemble returns, the machine    *)
(* can be started on it; there is one start, at the entry address, and one *)
(* stop, as the two checks of translate_program demand.                    *)
THEOREM AssembledRuns == Spec => []AssembledIsRunnable
BY ImageRunnable, AssemblerInvariant, PTL

-----------------------------------------------------------------------------
(***************************************************************************)
(* The search for free memory.  While the sections are laid out, the       *)
(* addresses taken are the fixed cells and the allocated blocks, blocks    *)
(* end below the base address, and the addresses between the end of the    *)
(* last block and the base address have been passed over with reason.      *)
(***************************************************************************)
CellsOf(id) == base_of[id] .. (EndOf(id) - 1)

Laying == pass \in {"layout_fixed", "layout_data", "layout_bss"}

Filled ==
  Laying => DOMAIN memory_layout =
              FixedCells \cup UNION { CellsOf(id) : id \in Allocated }

(* end is where the last block ends. *)
LastEnd(end) ==
  /\ end \in {0} \cup { EndOf(id) : id \in Allocated }
  /\ \A id \in Allocated : EndOf(id) <= end

PassedOver(end) ==
  /\ pass # "layout_fixed" /\ line \in DOMAIN program[SectionOf(pass)]
  /\ Current.variant # "LINE_SET"
  /\ \A address \in end .. (base_address - 1) :
       (address .. (address + Size(Current) - 1)) \cap FixedCells # {}

Searched ==
  Laying => \E end : /\ LastEnd(end) /\ end <= base_address
                     /\ base_address = end \/ PassedOver(end)

SInv == Filled /\ Searched /\ LowestFit

(* The ends of the blocks before a line, and the greatest number of a set. *)
Ends(id) == {0} \cup { EndOf(other) : other \in { other \in Allocated : Before(other, id) } }

LEMMA Greatest ==
  ASSUME NEW numbers \in SUBSET Nat, NEW n \in numbers, \A other \in numbers : other <= n
  PROVE  (CHOOSE m \in numbers : \A other \in numbers : other <= m) = n
<1>1. \A m \in numbers : (\A other \in numbers : other <= m) => m = n
  OBVIOUS
<1> QED BY <1>1

(* Nothing changes for a block when no address and no program changes.     *)
LEMMA StillLowest ==
  ASSUME LowestFit, UNCHANGED <<program, base_of>>
  PROVE  LowestFit' /\ Allocated' = Allocated /\ FixedCells' = FixedCells
         /\ \A id : EndOf(id)' = EndOf(id) /\ CellsOf(id)' = CellsOf(id)
<1>1. \A id : LineAt(id)' = LineAt(id)
  BY DEF LineAt
<1>2. Allocated' = Allocated /\ FixedCells' = FixedCells
  BY <1>1 DEF Allocated, FixedCells, TakesMemory, NamesSymbol
<1>3. \A id : Size(LineAt(id))' = Size(LineAt(id)) /\ EndOf(id)' = EndOf(id)
  BY <1>1 DEF Size, EndOf
<1>4. \A id : PreviousEnd(id)' = PreviousEnd(id)
  BY <1>1, <1>2, <1>3 DEF PreviousEnd, Before, Size
<1>5. \A id : CellsOf(id)' = CellsOf(id)
  BY <1>3 DEF CellsOf
<1>6. LowestFit'
  BY <1>1, <1>2, <1>3, <1>4 DEF LowestFit, Size
<1> QED BY <1>2, <1>3, <1>5, <1>6

(* Before the sections are laid out there are no blocks. *)
LEMMA NoBlocksYet ==
  ASSUME AInv, pass = "layout_fixed"
  PROVE  Allocated = {}
<1> SUFFICES ASSUME NEW id \in Allocated PROVE FALSE
  OBVIOUS
<1>1. LaidOut(id) /\ id \in LineIds /\ LineAt(id).variant \in {"LINE_WORDS", "LINE_RESERVED"}
  BY DEF Allocated, AInv, Placed
<1>2. id[1] = "data" /\ LineAt(id).variant = "LINE_SET"
  BY <1>1 DEF LaidOut
<1> QED BY <1>1, <1>2

(* All blocks are blocks of lines before the one that is laid out now.     *)
LEMMA BlocksBefore ==
  ASSUME AInv, At({"layout_data", "layout_bss"}), NEW id \in Allocated
  PROVE  Before(id, Id) /\ ~Before(Id, id)
<1>1. /\ pass \in {"layout_data", "layout_bss"} /\ Positioned /\ line \in Nat
  BY DEF AInv, At, Positioned
<1>2. Id = <<SectionOf(pass), line>>
  BY DEF Id
<1>3. /\ SectionOf("layout_data") = "data" /\ SectionOf("layout_bss") = "bss"
  BY DEF SectionOf
<1>4. LaidOut(id) /\ id \in LineIds /\ LineAt(id).variant \in {"LINE_WORDS", "LINE_RESERVED"}
  BY DEF Allocated, AInv, Placed
<1>5. id[1] \in {"data", "bss"} /\ id[2] \in Nat
  BY <1>1, <1>4, IdKinds DEF LaidOut, Positioned
<1>6. CASE pass = "layout_data"
  <2>1. id[1] = "data" /\ id[2] < line
    BY <1>4, <1>6 DEF LaidOut
  <2> QED BY <1>1, <1>2, <1>3, <1>5, <1>6, <2>1 DEF Before
<1>7. CASE pass = "layout_bss"
  <2>1. id[1] = "bss" => id[2] < line
    BY <1>4, <1>7 DEF LaidOut
  <2> QED BY <1>1, <1>2, <1>3, <1>5, <1>7, <2>1 DEF Before
<1> QED BY <1>1, <1>6, <1>7

LEMMA EndsAreNumbers ==
  ASSUME AInv
  PROVE  \A id \in Allocated : /\ EndOf(id) \in Nat /\ base_of[id] \in Nat
                               /\ Size(LineAt(id)) \in Nat
                               /\ base_of[id] <= EndOf(id)
<1> SUFFICES ASSUME NEW id \in Allocated
             PROVE  /\ EndOf(id) \in Nat /\ base_of[id] \in Nat
                    /\ Size(LineAt(id)) \in Nat
                    /\ base_of[id] <= EndOf(id)
  OBVIOUS
<1>1. base_of[id] \in Int
  BY WordInt DEF AInv, Placed, Allocated
<1> QED BY <1>1 DEF AInv, Placed, EndOf

(* Whatever reserves and moves nothing keeps what is known of the search.  *)
LEMMA KeepSearch ==
  ASSUME SInv, UNCHANGED <<program, base_of, memory_layout, base_address>>,
         Laying' => Laying /\ \A end : PassedOver(end) => PassedOver(end)'
  PROVE  SInv'
<1>1. /\ LowestFit' /\ Allocated' = Allocated /\ FixedCells' = FixedCells
      /\ \A id : EndOf(id)' = EndOf(id) /\ CellsOf(id)' = CellsOf(id)
  BY StillLowest DEF SInv
<1>2. Filled'
  BY <1>1 DEF SInv, Filled
<1>3. \A end : LastEnd(end)' <=> LastEnd(end)
  BY <1>1 DEF LastEnd
<1>4. Searched'
  BY <1>3 DEF SInv, Searched
<1> QED BY <1>1, <1>2, <1>4 DEF SInv

LEMMA KeepSearchStill ==
  ASSUME SInv,
         UNCHANGED <<program, pass, line, base_of, memory_layout, base_address>>
  PROVE  SInv'
<1>1. \A id : LineAt(id)' = LineAt(id)
  BY DEF LineAt
<1>2. Id' = Id /\ Current' = Current /\ SectionOf(pass)' = SectionOf(pass)
  BY <1>1 DEF Id, Current, SectionOf, LineAt
<1>3. FixedCells' = FixedCells
  BY <1>1 DEF FixedCells, TakesMemory, NamesSymbol
<1>4. \A end : PassedOver(end) => PassedOver(end)'
  BY <1>2, <1>3 DEF PassedOver, Size
<1>5. Laying' => Laying
  BY DEF Laying
<1> QED BY <1>4, <1>5, KeepSearch

LEMMA ThrowSearch ==
  ASSUME SInv, NEW e, Throw(e)
  PROVE  SInv'
BY KeepSearchStill DEF Throw, layoutVars

(* A line that gets an address without a block. *)
LEMMA NoBlock ==
  ASSUME AInv, NEW passes, At(passes), pass # "done", Lays, Proceed,
         Current.variant \notin {"LINE_WORDS", "LINE_RESERVED"}, LowestFit,
         NEW names, NEW address, enter_symbols(names, address)
  PROVE  /\ Allocated' = Allocated
         /\ \A id \in Allocated : EndOf(id)' = EndOf(id) /\ CellsOf(id)' = CellsOf(id)
         /\ ~TakesMemory(Current) => FixedCells' = FixedCells /\ LowestFit'
         /\ TakesMemory(Current) /\ Current.variant = "LINE_SET" =>
              FixedCells' = FixedCells \cup {address}
<1> PICK here : here = Id
  OBVIOUS
<1>1. UNCHANGED program /\ base_of' = With(base_of, here, address)
  BY DEF Proceed, enter_symbols
<1>2. here \notin DOMAIN base_of /\ LineAt(here) = Current
  BY NotYet DEF AInv, Placed, Current
<1>3. /\ DOMAIN base_of' = DOMAIN base_of \cup {here} /\ base_of'[here] = address
      /\ \A id \in DOMAIN base_of : base_of'[id] = base_of[id]
  BY <1>1, <1>2 DEF With
<1>4. \A id : LineAt(id)' = LineAt(id) /\ Size(LineAt(id))' = Size(LineAt(id))
  BY <1>1 DEF LineAt, Size
<1>5. Allocated' = Allocated
  BY <1>2, <1>3, <1>4 DEF Allocated
<1>6. \A id \in Allocated : EndOf(id)' = EndOf(id) /\ CellsOf(id)' = CellsOf(id)
  BY <1>3, <1>4 DEF Allocated, EndOf, CellsOf
<1> DEFINE fixed(id) == LineAt(id).variant = "LINE_SET" /\ TakesMemory(LineAt(id))
<1>7. \A id : fixed(id)' <=> fixed(id)
  BY <1>4 DEF TakesMemory, NamesSymbol
<1>8. FixedCells = { base_of[id] : id \in { id \in DOMAIN base_of : fixed(id) } }
  BY DEF FixedCells
<1>9. FixedCells' = { base_of'[id] : id \in { id \in DOMAIN base_of' : fixed(id) } }
  BY <1>7 DEF FixedCells
<1>10. fixed(here) <=> Current.variant = "LINE_SET" /\ TakesMemory(Current)
  BY <1>2
<1> HIDE DEF fixed
<1>11. ~fixed(here) => FixedCells' = FixedCells
  BY <1>3, <1>8, <1>9
<1>12. fixed(here) => FixedCells' = FixedCells \cup {address}
  BY <1>2, <1>3, <1>8, <1>9
<1>13. \A id \in Allocated : Ends(id)' = Ends(id)
  BY <1>5, <1>6 DEF Ends, Before
<1>14. \A id : /\ PreviousEnd(id) = CHOOSE end \in Ends(id) : \A other \in Ends(id) : other <= end
               /\ PreviousEnd(id)' = CHOOSE end \in Ends(id)' : \A other \in Ends(id)' : other <= end
  BY DEF PreviousEnd, Ends, EndOf
<1>15. \A id \in Allocated : PreviousEnd(id)' = PreviousEnd(id) /\ base_of'[id] = base_of[id]
  BY <1>3, <1>13, <1>14 DEF Allocated
<1>16. FixedCells' = FixedCells => LowestFit'
  BY <1>4, <1>5, <1>15 DEF LowestFit
<1> QED BY <1>5, <1>6, <1>10, <1>11, <1>12, <1>16

LEMMA FixAddressSearch ==
  ASSUME AInv, SInv, FixAddress
  PROVE  SInv'
<1> DEFINE l == Current
           address == restrict_eval(l.memoryAddress)
<1>1. /\ At({"layout_fixed"}) /\ pass = "layout_fixed" /\ l.variant = "LINE_SET"
      /\ TakesMemory(l) /\ Lays
  BY DEF FixAddress, At, Lays
<1>2. CASE \E e \in Exceptions : Throw(e)
  BY <1>2, ThrowSearch
<1>3. CASE /\ memory_layout' = With(memory_layout, address, 0)
           /\ enter_symbols(l.labels, address)
           /\ Proceed
           /\ UNCHANGED <<base_address, translationVars>>
  <2>1. Allocated = {}
    BY <1>1, NoBlocksYet
  <2>2. Allocated' = {} /\ FixedCells' = FixedCells \cup {address}
    BY <1>1, <1>3, <2>1, NoBlock DEF SInv
  <2>3. UNCHANGED <<pass, base_address>>
    BY <1>3 DEF Proceed
  <2>4. DOMAIN memory_layout = FixedCells
    BY <1>1, <2>1 DEF SInv, Filled, Laying
  <2>5. DOMAIN memory_layout' = FixedCells'
    <3> HIDE DEF address
    <3> QED BY <1>3, <2>2, <2>4 DEF With
  <2>6. Filled'
    BY <2>2, <2>5 DEF Filled
  <2>7. base_address = 0
    BY <1>1, <2>1 DEF SInv, Searched, Laying, LastEnd, PassedOver
  <2>8. LastEnd(0)'
    BY <2>2 DEF LastEnd
  <2>9. Searched'
    BY <2>3, <2>7, <2>8 DEF Searched
  <2> QED BY <2>2, <2>6, <2>9 DEF SInv, LowestFit
<1> QED BY <1>2, <1>3 DEF FixAddress, Check, Exceptions

LEMMA FixSymbolSearch ==
  ASSUME AInv, SInv, FixSymbol
  PROVE  SInv'
<1> DEFINE l == Current
           value == restrict_eval(l.value)
<1>1. /\ At({"layout_fixed"}) /\ pass = "layout_fixed" /\ l.variant = "LINE_SET"
      /\ ~TakesMemory(l) /\ Lays
  BY DEF FixSymbol, At, Lays, NamesSymbol, TakesMemory
<1>2. CASE \E e \in Exceptions : Throw(e)
  BY <1>2, ThrowSearch
<1>3. CASE /\ enter_symbols(Names(l), value)
           /\ Proceed
           /\ UNCHANGED <<base_address, memory_layout, translationVars>>
  <2>1. Allocated = {}
    BY <1>1, NoBlocksYet
  <2>2. Allocated' = {} /\ FixedCells' = FixedCells
    BY <1>1, <1>3, <2>1, NoBlock DEF SInv
  <2>3. UNCHANGED <<pass, base_address, memory_layout>>
    BY <1>3 DEF Proceed
  <2>4. Filled'
    BY <1>1, <2>1, <2>2, <2>3 DEF SInv, Filled, Laying
  <2>5. base_address = 0
    BY <1>1, <2>1 DEF SInv, Searched, Laying, LastEnd, PassedOver
  <2>6. LastEnd(0)'
    BY <2>2 DEF LastEnd
  <2>7. Searched'
    BY <2>3, <2>5, <2>6 DEF Searched
  <2> QED BY <2>2, <2>4, <2>7 DEF SInv, LowestFit
<1> QED BY <1>2, <1>3 DEF FixSymbol, Check, Exceptions

(* Behind the base address only .set has taken cells.                      *)
LEMMA CollidesFixed ==
  ASSUME AInv, SInv, At({"layout_data", "layout_bss"}), base_address \in Nat,
         NEW address \in DOMAIN memory_layout, address \in Int, base_address <= address
  PROVE  address \in FixedCells
<1>1. Laying /\ pass # "layout_fixed"
  BY DEF At, Laying
<1>2. PICK end : LastEnd(end) /\ end <= base_address
  BY <1>1 DEF SInv, Searched
<1>3. end \in Nat
  BY <1>2, EndsAreNumbers DEF LastEnd
<1>4. ASSUME NEW id \in Allocated, address \in CellsOf(id) PROVE FALSE
  <2>1. EndOf(id) <= end /\ EndOf(id) \in Nat /\ base_of[id] \in Nat
    BY <1>2, EndsAreNumbers DEF LastEnd
  <2>2. address < EndOf(id)
    BY <1>4, <2>1 DEF CellsOf
  <2> QED BY <1>2, <1>3, <2>1, <2>2
<1> QED BY <1>1, <1>4 DEF SInv, Filled

(* A round that collides: what is taken at or behind the base address is   *)
(* fixed, and no block fits up to the highest address that collides.       *)
LEMMA CollideSearch ==
  ASSUME AInv, SInv, At({"layout_data", "layout_bss"}),
         Current.variant \in {"LINE_WORDS", "LINE_RESERVED"}, Size(Current) \in Nat,
         base_address \in Nat,
         Collide((base_address .. (base_address + Size(Current) - 1))
                   \cap DOMAIN memory_layout)
  PROVE  SInv'
<1> DEFINE size == Size(Current)
           colliding == (base_address .. (base_address + size - 1)) \cap DOMAIN memory_layout
<1>1. PICK highest \in colliding :
        /\ base_address' = highest + 1
        /\ UNCHANGED <<program, pass, line, memory_layout, base_of>>
  BY DEF Collide
<1>2. highest \in base_address .. (base_address + size - 1) /\ highest \in DOMAIN memory_layout
  BY <1>1
<1> HIDE DEF colliding, size
<1>3. Laying /\ pass # "layout_fixed" /\ line \in DOMAIN program[SectionOf(pass)]
  BY DEF At, Laying
<1>4. PICK end : /\ LastEnd(end) /\ end <= base_address
                 /\ base_address = end \/ PassedOver(end)
  BY <1>3 DEF SInv, Searched
<1>5. end \in Nat
  BY <1>4, EndsAreNumbers DEF LastEnd
<1>6. highest \in FixedCells
  BY <1>2, CollidesFixed
<1>7. /\ LowestFit' /\ Allocated' = Allocated /\ FixedCells' = FixedCells
      /\ \A id : EndOf(id)' = EndOf(id) /\ CellsOf(id)' = CellsOf(id)
  BY <1>1, StillLowest DEF SInv
<1>8. Current' = Current /\ size' = size /\ SectionOf(pass)' = SectionOf(pass)
  BY <1>1 DEF Current, LineAt, Id, SectionOf, size, Size
<1>9. Filled'
  BY <1>1, <1>7 DEF SInv, Filled, Laying
<1>10. ASSUME NEW address \in end .. highest
       PROVE  (address .. (address + size - 1)) \cap FixedCells # {}
  <2>1. size \in Nat
    BY DEF size
  <2>2. CASE address < base_address
    <3>1. PassedOver(end)
      BY <1>4, <1>5, <1>10, <2>2
    <3>2. address \in end .. (base_address - 1)
      BY <1>5, <1>10, <2>2
    <3> QED BY <3>1, <3>2 DEF PassedOver, size
  <2>3. CASE base_address <= address
    <3>1. highest \in address .. (address + size - 1)
      BY <1>2, <1>5, <1>10, <2>1, <2>3
    <3> QED BY <1>6, <3>1
  <2> QED BY <1>5, <1>10, <2>2, <2>3
<1>11. LastEnd(end)'
  BY <1>4, <1>7 DEF LastEnd
<1>12. end <= base_address' /\ base_address' - 1 = highest
  BY <1>1, <1>2, <1>4, <1>5
<1>13. PassedOver(end)'
  <2>1. \A address \in end .. (base_address' - 1) :
          (address .. (address + size' - 1)) \cap FixedCells' # {}
    BY <1>7, <1>8, <1>10, <1>12
  <2>2. pass' # "layout_fixed" /\ line' \in DOMAIN program'[SectionOf(pass)']
    BY <1>1, <1>3, <1>8
  <2>3. Current'.variant # "LINE_SET"
    BY <1>8
  <2> QED BY <2>1, <2>2, <2>3 DEF PassedOver, size
<1>14. Searched'
  BY <1>11, <1>12, <1>13 DEF Searched
<1> QED BY <1>7, <1>9, <1>14 DEF SInv

(* A block that is reserved starts at the base address: whatever lies      *)
(* between it and the block before has been passed over.                   *)
LEMMA ReserveSearch ==
  ASSUME AInv, SInv, At({"layout_data", "layout_bss"}), Lays,
         Current.variant \in {"LINE_WORDS", "LINE_RESERVED"}, Size(Current) \in Nat,
         base_address \in Nat,
         Reserve(base_address .. (base_address + Size(Current) - 1), Size(Current))
  PROVE  SInv'
<1> PICK size : size = Size(Current)
  OBVIOUS
<1> PICK here : here = Id
  OBVIOUS
<1> PICK base : base = base_address
  OBVIOUS
<1> DEFINE range == base .. (base + size - 1)
<1>1. /\ memory_layout' = [ address \in DOMAIN memory_layout \cup range |->
                              IF address \in range THEN 0 ELSE memory_layout[address] ]
      /\ base_address' = base + size
      /\ enter_symbols(Current.labels, base)
      /\ UNCHANGED <<program, pass>>
  BY DEF Reserve, Proceed
<1>2. Positioned /\ pass \in {"layout_data", "layout_bss"} /\ Laying
  BY DEF AInv, At, Laying
<1>3. here \notin DOMAIN base_of /\ LineAt(here) = Current
  BY <1>2, NotYet DEF AInv, Placed, Current
<1>4. /\ DOMAIN base_of' = DOMAIN base_of \cup {here} /\ base_of'[here] = base
      /\ \A id \in DOMAIN base_of : base_of'[id] = base_of[id]
  BY <1>1, <1>3 DEF enter_symbols, With
<1>5. \A id : LineAt(id)' = LineAt(id) /\ Size(LineAt(id))' = Size(LineAt(id))
  BY <1>1 DEF LineAt, Size
<1>6. Allocated' = Allocated \cup {here} /\ here \notin Allocated
  BY <1>3, <1>4, <1>5 DEF Allocated
<1>7. \A id \in Allocated : /\ EndOf(id)' = EndOf(id) /\ CellsOf(id)' = CellsOf(id)
                            /\ base_of'[id] = base_of[id]
  BY <1>4, <1>5 DEF Allocated, EndOf, CellsOf
<1>8. EndOf(here)' = base + size /\ CellsOf(here)' = range
  BY <1>3, <1>4, <1>5 DEF EndOf, CellsOf
<1>9. FixedCells' = FixedCells
  <2> DEFINE fixed(id) == LineAt(id).variant = "LINE_SET" /\ TakesMemory(LineAt(id))
  <2>1. \A id : fixed(id)' <=> fixed(id)
    BY <1>5 DEF TakesMemory, NamesSymbol
  <2>2. FixedCells = { base_of[id] : id \in { id \in DOMAIN base_of : fixed(id) } }
    BY DEF FixedCells
  <2>3. FixedCells' = { base_of'[id] : id \in { id \in DOMAIN base_of' : fixed(id) } }
    BY <2>1 DEF FixedCells
  <2>4. ~fixed(here)
    BY <1>3
  <2> HIDE DEF fixed
  <2> QED BY <1>4, <2>2, <2>3, <2>4
<1>10. PICK end : /\ LastEnd(end) /\ end <= base
                  /\ base = end \/ PassedOver(end)
  BY <1>2 DEF SInv, Searched
<1>11. end \in Nat /\ size \in Nat /\ base \in Nat
  BY <1>10, EndsAreNumbers DEF LastEnd
<1>12. Filled'
  <2>1. DOMAIN memory_layout = FixedCells \cup UNION { CellsOf(id) : id \in Allocated }
    BY <1>2 DEF SInv, Filled
  <2> HIDE DEF range
  <2>2. DOMAIN memory_layout' = DOMAIN memory_layout \cup range
    BY <1>1
  <2>3. UNION { CellsOf(id)' : id \in Allocated' }
          = (UNION { CellsOf(id) : id \in Allocated }) \cup range
    BY <1>6, <1>7, <1>8
  <2> QED BY <1>9, <2>1, <2>2, <2>3 DEF Filled
<1>13. LastEnd(base + size)'
  <2>1. \A id \in Allocated : EndOf(id) \in Nat /\ EndOf(id) <= base + size
    BY <1>10, <1>11, EndsAreNumbers DEF LastEnd
  <2>2. \A id \in Allocated' : EndOf(id)' <= base + size
    BY <1>6, <1>7, <1>8, <1>11, <2>1
  <2>3. base + size \in { EndOf(id)' : id \in Allocated' }
    BY <1>6, <1>8
  <2> QED BY <2>2, <2>3 DEF LastEnd
<1>14. Searched'
  BY <1>1, <1>11, <1>13 DEF Searched
<1>15. \A id \in Allocated : Before(id, here) /\ ~Before(here, id)
  BY BlocksBefore
<1>16. ~Before(here, here)
  <2>1. line \in Nat /\ here[2] = line /\ here[1] = SectionOf(pass)
    BY <1>2 DEF Positioned, Id
  <2>2. SectionOf(pass) = "data" \/ SectionOf(pass) = "bss"
    BY <1>2 DEF SectionOf
  <2> QED BY <2>1, <2>2 DEF Before
<1>17. \A id : PreviousEnd(id)' = CHOOSE n \in Ends(id)' : \A other \in Ends(id)' : other <= n
  BY DEF PreviousEnd, Ends, EndOf
<1>18. \A id : PreviousEnd(id) = CHOOSE n \in Ends(id) : \A other \in Ends(id) : other <= n
  BY DEF PreviousEnd, Ends, EndOf
<1>19. \A id \in Allocated : PreviousEnd(id)' = PreviousEnd(id)
  <2>1. \A id \in Allocated : Ends(id)' = Ends(id)
    <3> SUFFICES ASSUME NEW id \in Allocated PROVE Ends(id)' = Ends(id)
      OBVIOUS
    <3>1. \A other : Before(other, id)' <=> Before(other, id)
      BY DEF Before
    <3>2. { other \in Allocated' : Before(other, id) } = { other \in Allocated : Before(other, id) }
      BY <1>6, <1>15
    <3>3. Ends(id)' = {0} \cup { EndOf(other)' : other \in { other \in Allocated : Before(other, id) } }
      BY <3>1, <3>2 DEF Ends
    <3> QED BY <1>7, <3>3 DEF Ends
  <2> QED BY <1>17, <1>18, <2>1
<1>20. PreviousEnd(here)' = end
  <2>1. { other \in Allocated' : Before(other, here) } = Allocated
    BY <1>6, <1>15, <1>16
  <2>2. \A other : Before(other, here)' <=> Before(other, here)
    BY DEF Before
  <2>3. Ends(here)' = {0} \cup { EndOf(id)' : id \in Allocated }
    BY <2>1, <2>2 DEF Ends
  <2>4. Ends(here)' = {0} \cup { EndOf(id) : id \in Allocated }
    BY <1>7, <2>3
  <2>5. /\ Ends(here)' \in SUBSET Nat /\ end \in Ends(here)'
        /\ \A other \in Ends(here)' : other <= end
    BY <1>10, <1>11, <2>4, EndsAreNumbers DEF LastEnd
  <2>6. (CHOOSE n \in Ends(here)' : \A other \in Ends(here)' : other <= n) = end
    BY <2>5, Greatest
  <2> QED BY <1>17, <2>6
<1>21. LowestFit'
  <2> SUFFICES ASSUME NEW id \in Allocated'
               PROVE  /\ base_of'[id] >= PreviousEnd(id)'
                      /\ \A address \in PreviousEnd(id)' .. (base_of'[id] - 1) :
                           (address .. (address + Size(LineAt(id))' - 1)) \cap FixedCells' # {}
    BY DEF LowestFit
  <2>1. CASE id = here
    <3>1. \A address \in end .. (base - 1) :
            (address .. (address + Size(Current) - 1)) \cap FixedCells # {}
      <4>1. CASE base = end
        BY <1>11, <4>1
      <4>2. CASE PassedOver(end)
        BY <4>2 DEF PassedOver
      <4> QED BY <1>10, <4>1, <4>2
    <3>2. base >= end
      BY <1>10, <1>11
    <3> QED BY <1>3, <1>4, <1>5, <1>9, <1>20, <2>1, <3>1, <3>2
  <2>2. CASE id \in Allocated
    BY <1>5, <1>7, <1>9, <1>19, <2>2 DEF SInv, LowestFit
  <2> QED BY <1>6, <2>1, <2>2
<1> QED BY <1>12, <1>14, <1>21 DEF SInv

LEMMA LayoutMemorySearch ==
  ASSUME AInv, SInv, LayoutMemory
  PROVE  SInv'
<1> DEFINE size == Size(Current)
           range == base_address .. (base_address + size - 1)
           colliding == range \cap DOMAIN memory_layout
<1>1. CASE \E e \in Exceptions : Throw(e)
  BY <1>1, ThrowSearch
<1>2. CASE ~\E e \in Exceptions : Throw(e)
  <2>1. /\ At({"layout_data", "layout_bss"}) /\ Lays
        /\ Current.variant \in {"LINE_WORDS", "LINE_RESERVED"}
        /\ size \in Nat /\ base_address \in Nat
        /\ Collide(colliding) \/ Reserve(range, size)
    BY <1>2, AllocationCases
  <2>2. CASE Collide(colliding)
    BY <2>1, <2>2, CollideSearch
  <2>3. CASE Reserve(range, size)
    BY <2>1, <2>3, ReserveSearch
  <2> QED BY <2>1, <2>2, <2>3
<1> QED BY <1>1, <1>2

LEMMA LayoutInstructionSearch ==
  ASSUME AInv, SInv, LayoutInstruction
  PROVE  SInv'
<1>1. Positioned /\ At({"layout_code"}) /\ pass = "layout_code"
  BY DEF AInv, LayoutInstruction, At
<1>2. CASE \E e \in Exceptions : Throw(e)
  BY <1>2, ThrowSearch
<1>3. CASE enter_symbols(Current.labels, base_address) /\ Proceed
  <2>1. Current \in CodeLines
    BY <1>1, Here DEF SectionOf
  <2>2. Current.variant = "LINE_INSTRUCTION"
    BY <2>1, Variants
  <2>3. LowestFit'
    BY <1>1, <1>3, <2>2, NoBlock DEF SInv, Lays, TakesMemory
  <2>4. ~Laying'
    BY <1>1, <1>3 DEF Proceed, Laying
  <2> QED BY <2>3, <2>4 DEF SInv, Filled, Searched
<1> QED BY <1>1, <1>2, <1>3 DEF LayoutInstruction, Check, Exceptions

(* Behind the layout no address changes any more. *)
LEMMA LateSearch ==
  ASSUME SInv, UNCHANGED <<program, base_of>>, ~Laying'
  PROVE  SInv'
BY StillLowest DEF SInv, Filled, Searched

LEMMA TranslationSearch ==
  ASSUME SInv, BuildWords \/ BuildSet \/ Translate \/ Finish
  PROVE  SInv'
<1>1. CASE \E e \in Exceptions : Throw(e)
  BY <1>1, ThrowSearch
<1>2. CASE BuildWords \/ BuildSet
  <2>1. CASE ~\E e \in Exceptions : Throw(e)
    <3>1. UNCHANGED <<program, base_of, pass>> /\ pass = "build_data"
      BY <1>2, <2>1 DEF BuildWords, BuildSet, Check, Exceptions, Write, Proceed, At
    <3> QED BY <3>1, LateSearch DEF Laying
  <2> QED BY <1>1, <2>1
<1>3. CASE Translate
  <2>1. CASE ~\E e \in Exceptions : Throw(e)
    <3>1. UNCHANGED <<program, base_of, pass>> /\ pass = "translate_program"
      BY <1>3, <2>1 DEF Translate, Check, Exceptions, Proceed, At, layoutVars
    <3> QED BY <3>1, LateSearch DEF Laying
  <2> QED BY <1>1, <2>1
<1>4. CASE Finish
  <2>1. CASE ~\E e \in Exceptions : Throw(e)
    <3>1. UNCHANGED <<program, base_of>> /\ pass' = "done"
      BY <1>4, <2>1 DEF Finish, Check, Exceptions, layoutVars
    <3> QED BY <3>1, LateSearch DEF Laying
  <2> QED BY <1>1, <2>1
<1> QED BY <1>2, <1>3, <1>4

(* Lines without a block are passed, and sections end, when no search is   *)
(* under way.                                                              *)
LEMMA SkipSearch ==
  ASSUME AInv, SInv, Skip
  PROVE  SInv'
<1>1. UNCHANGED <<program, base_of, memory_layout, base_address, pass>>
  BY DEF Skip, Proceed, layoutVars
<1>2. CASE Laying
  <2>1. \A end : ~PassedOver(end)
    BY <1>2 DEF Skip, At, PassedOver, Laying
  <2> QED BY <1>1, <1>2, <2>1, KeepSearch
<1>3. CASE ~Laying
  BY <1>1, <1>3, LateSearch DEF Laying
<1> QED BY <1>2, <1>3

LEMMA NextPassSearch ==
  ASSUME AInv, SInv, NextPass
  PROVE  SInv'
<1>1. /\ UNCHANGED <<program, base_of, memory_layout>> /\ pass' = Following(pass)
      /\ base_address' = IF pass' = "layout_code" THEN 0 ELSE base_address
      /\ pass \notin {"translate_program", "done"} /\ EndOfSection
  BY DEF NextPass, EndOfSection, Working
<1>2. Positioned
  BY DEF AInv
<1>3. CASE pass \in {"layout_fixed", "layout_data"}
  <2>1. pass' \in {"layout_data", "layout_bss"}
    BY <1>1, <1>3, FollowingPass
  <2>2. \A end : ~PassedOver(end)
    <3>1. line \notin DOMAIN program[SectionOf(pass)]
      <4>1. line = Len(program[SectionOf(pass)]) + 1 /\ Len(program[SectionOf(pass)]) \in Nat
        BY <1>1, <1>2, PassEnds
      <4>2. SectionOf(pass) = "data"
        BY <1>3 DEF SectionOf
      <4> QED BY <1>2, <4>1, <4>2, LineKinds DEF Positioned
    <3> QED BY <3>1 DEF PassedOver
  <2>3. Laying /\ base_address' = base_address
    BY <1>1, <1>3, <2>1 DEF Laying
  <2> QED BY <1>1, <2>2, <2>3, KeepSearch
<1>4. CASE pass \notin {"layout_fixed", "layout_data"}
  <2>1. ~Laying'
    BY <1>1, <1>2, <1>4, FollowingPass, PassNames DEF Positioned, Laying
  <2> QED BY <1>1, <2>1, LateSearch
<1> QED BY <1>3, <1>4

LEMMA InitSInv == Init => SInv
<1> SUFFICES ASSUME Init PROVE SInv
  OBVIOUS
<1>1. DOMAIN base_of = {} /\ DOMAIN memory_layout = {} /\ base_address = 0
  BY DEF Init
<1>2. Allocated = {} /\ FixedCells = {}
  BY <1>1 DEF Allocated, FixedCells
<1>3. LastEnd(0)
  BY <1>2 DEF LastEnd
<1> QED BY <1>1, <1>2, <1>3 DEF SInv, Filled, Searched, LowestFit

LEMMA NextSInv == AInv /\ SInv /\ [Next]_vars => SInv'
<1> SUFFICES ASSUME AInv, SInv, [Next]_vars PROVE SInv'
  OBVIOUS
<1>1. CASE UNCHANGED vars
  BY <1>1, KeepSearchStill DEF vars, layoutVars
<1>2. CASE Next
  BY <1>2, FixAddressSearch, FixSymbolSearch, LayoutMemorySearch, LayoutInstructionSearch,
     TranslationSearch, SkipSearch, NextPassSearch DEF Next
<1> QED BY <1>1, <1>2

(* allocate_range wastes no memory: every block gets the lowest addresses  *)
(* behind the block before it that .set leaves free.                       *)
THEOREM FitsLowest == Spec => []LowestFit
<1>1. SInv => LowestFit
  BY DEF SInv
<1> QED BY <1>1, InitSInv, NextSInv, AssemblerInvariant, PTL DEF Spec

-----------------------------------------------------------------------------
(***************************************************************************)
(* Every step that does not throw comes closer to an end.  Only a round of *)
(* allocate_range that collides stays at its line; what it collides with   *)
(* is a cell of a .set line (CollidesFixed), and it goes on behind it.     *)
(***************************************************************************)

(* A step that refuses the program. *)
LEMMA Refused ==
  ASSUME NEW e \in Exceptions, Throw(e)
  PROVE  exception' # "none"
BY DEF Throw, Exceptions

(* A step that goes on to the next line. *)
LEMMA NextLine ==
  ASSUME AInv, NEW passes, At(passes), pass # "done", Proceed,
         base_address <= base_address' \/ pass' = "layout_code"
  PROVE  ComesCloser
<1>1. line' = line + 1 /\ pass' = pass
  BY DEF Proceed
<1>2. SectionOf(pass) \in {"code", "data", "bss"} /\ line < Len(program[SectionOf(pass)]) + 1
  BY Here DEF AInv
<1>3. Len(program[SectionOf(pass)]) \in Nat /\ line \in Nat
  BY <1>2, LineKinds DEF AInv, Positioned
<1>4. line <= Len(program[SectionOf(pass)])
  BY <1>2, <1>3
<1> QED BY <1>1, <1>4 DEF ComesCloser

LEMMA SameBase ==
  ASSUME AInv, UNCHANGED base_address
  PROVE  base_address <= base_address'
BY HalfRangeNat DEF AInv, Tabled

LEMMA FixAdvances ==
  ASSUME AInv, FixAddress \/ FixSymbol, exception' = "none"
  PROVE  ComesCloser
<1>1. At({"layout_fixed"}) /\ pass # "done"
  BY DEF FixAddress, FixSymbol, At
<1>2. Proceed /\ UNCHANGED base_address
  BY Refused DEF FixAddress, FixSymbol, Check, Exceptions
<1> QED BY <1>1, <1>2, NextLine, SameBase

LEMMA LayoutMemoryAdvances ==
  ASSUME AInv, SInv, LayoutMemory, exception' = "none"
  PROVE  ComesCloser
<1> DEFINE size == Size(Current)
           range == base_address .. (base_address + size - 1)
           colliding == range \cap DOMAIN memory_layout
<1>1. /\ At({"layout_data", "layout_bss"}) /\ pass # "done"
      /\ size \in Nat /\ base_address \in Nat
      /\ Collide(colliding) \/ Reserve(range, size)
  BY AllocationCases, Refused
<1> HIDE DEF size
<1>2. CASE Collide(colliding)
  <2>1. PICK highest \in colliding :
          base_address' = highest + 1 /\ UNCHANGED <<pass, line>>
    BY <1>2 DEF Collide
  <2>2. /\ highest \in DOMAIN memory_layout
        /\ highest \in Int /\ base_address <= highest
    BY <1>1, <2>1
  <2>3. highest \in FixedCells
    BY <1>1, <2>2, CollidesFixed
  <2>4. highest < base_address' /\ base_address <= base_address'
    BY <1>1, <2>1, <2>2
  <2> QED BY <2>1, <2>2, <2>3, <2>4 DEF ComesCloser
<1>3. CASE Reserve(range, size)
  <2>1. Proceed /\ base_address' = base_address + size
    BY <1>3 DEF Reserve
  <2>2. base_address <= base_address'
    BY <1>1, <2>1
  <2> QED BY <1>1, <2>1, <2>2, NextLine
<1> QED BY <1>1, <1>2, <1>3

LEMMA LayoutInstructionAdvances ==
  ASSUME AInv, LayoutInstruction, exception' = "none"
  PROVE  ComesCloser
<1>1. At({"layout_code"}) /\ pass = "layout_code"
  BY DEF LayoutInstruction, At
<1>2. Proceed /\ pass' = "layout_code"
  BY <1>1, Refused DEF LayoutInstruction, Check, Exceptions, Proceed
<1> QED BY <1>1, <1>2, NextLine

LEMMA BuildAdvances ==
  ASSUME AInv, BuildWords \/ BuildSet \/ Translate \/ Skip, exception' = "none"
  PROVE  ComesCloser
<1>1. PICK passes : At(passes) /\ pass # "done"
  BY DEF BuildWords, BuildSet, Translate, Skip, At
<1>2. Proceed /\ UNCHANGED base_address
  BY Refused DEF BuildWords, BuildSet, Translate, Skip, Check, Exceptions, Write, layoutVars
<1> QED BY <1>1, <1>2, NextLine, SameBase

LEMMA PassAdvances ==
  ASSUME AInv, NextPass \/ Finish, exception' = "none"
  PROVE  ComesCloser
<1>1. CASE NextPass
  <2>1. pass' = Following(pass) /\ (pass' # "layout_code" => UNCHANGED base_address)
    BY <1>1 DEF NextPass
  <2> QED BY <2>1, SameBase DEF ComesCloser
<1>2. CASE Finish
  <2>1. pass = "translate_program" /\ pass' = "done" /\ UNCHANGED base_address
    BY <1>2, Refused DEF Finish, Check, Exceptions, layoutVars
  <2> QED BY <2>1, SameBase, FollowingPass DEF ComesCloser
<1> QED BY <1>1, <1>2

(* Every step of assemble that does not throw goes on to the next pass or  *)
(* the next line, or leaves a cell of a .set line behind that no later     *)
(* round of allocate_range can meet: no search goes on for ever.           *)
THEOREM AlwaysAdvances == Spec => AssemblyAdvances
<1>1. AInv /\ SInv /\ [Next]_vars => [exception' = "none" => ComesCloser]_vars
  <2> SUFFICES ASSUME AInv, SInv, Next, exception' = "none"
               PROVE  ComesCloser
    OBVIOUS
  <2> QED BY FixAdvances, LayoutMemoryAdvances, LayoutInstructionAdvances, BuildAdvances,
             PassAdvances DEF Next
<1> QED BY <1>1, InitSInv, NextSInv, AssemblerInvariant, PTL DEF Spec, AssemblyAdvances

-----------------------------------------------------------------------------
(***************************************************************************)
(* The passes of the assembler implement the loader, for every set of      *)
(* programs: the safety part of the refinement Assembler states.           *)
(*                                                                         *)
(* A line that has got its address has passed every check that looks at it *)
(* (Valued), its names are in the symbol table and in no other line        *)
(* (Named), its cells are its own (Apart) and hold zeros until the line is *)
(* built and the values written for it from then on (Built); instructions  *)
(* are translated in their order (Translated).  Only the search for memory *)
(* refuses a program without a defect, always behind a line (Behind).      *)
(***************************************************************************)


PlacedLines == { id \in DOMAIN base_of : TakesMemory(LineAt(id)) }

Valued ==
  \A id \in DOMAIN base_of :
    /\ \A operand \in FixedOperands(LineAt(id)) : RestrictEvaluates(operand)
    /\ NamesSymbol(LineAt(id)) => base_of[id] = restrict_eval(LineAt(id).value)
    /\ LineAt(id).variant = "LINE_SET" /\ TakesMemory(LineAt(id)) =>
         base_of[id] = restrict_eval(LineAt(id).memoryAddress)

NamesOf(id) == Names(LineAt(id))

Named ==
  /\ DOMAIN symbol_table = UNION { Range(NamesOf(id)) : id \in DOMAIN base_of }
  /\ \A id \in DOMAIN base_of : \A i \in DOMAIN NamesOf(id) :
       symbol_table[NamesOf(id)[i]] = base_of[id]
  /\ \A id, other \in DOMAIN base_of :
       \A i \in DOMAIN NamesOf(id), j \in DOMAIN NamesOf(other) :
         NamesOf(id)[i] = NamesOf(other)[j] => id = other /\ i = j

Apart ==
  /\ \A id \in PlacedLines : CellsOf(id) \subseteq DOMAIN memory_layout
  /\ \A address \in DOMAIN memory_layout : \E id \in PlacedLines : address \in CellsOf(id)
  /\ \A id, other \in PlacedLines : \A address \in CellsOf(id) \cap CellsOf(other) :
       id = other

IsBuilt(id) ==
  /\ id[1] = "data"
  /\ \/ pass \in {"build_bss", "translate_program", "done"}
     \/ pass = "build_data" /\ id[2] < line

ValueAt(id, address) ==
  CASE LineAt(id).variant = "LINE_WORDS" ->
         eval(LineAt(id).data[address - base_of[id] + 1], address, symbol_table)
    [] OTHER -> eval(LineAt(id).value, address, symbol_table)

Built ==
  \A id \in PlacedLines :
    /\ IsBuilt(id) =>
         \A operand \in OpenOperands(LineAt(id)) : Evaluates(operand, symbol_table)
    /\ \A address \in CellsOf(id) :
         memory_layout[address] = IF IsBuilt(id) THEN ValueAt(id, address) ELSE 0

Translated ==
  \A i \in DOMAIN code :
    /\ Evaluates(program.code[i].operand, symbol_table)
    /\ code[i] = encode(program.code[i], eval(program.code[i].operand, i - 1, symbol_table), i - 1)

Behind == Laying => base_address \in {0} \cup { EndOf(id) : id \in PlacedLines }

LInv == Valued /\ Named /\ Apart /\ Built /\ Translated /\ Behind

-----------------------------------------------------------------------------
(* What holds of the lines as long as the program is the same.             *)
LEMMA SameLines ==
  ASSUME UNCHANGED program
  PROVE  \A id : /\ LineAt(id)' = LineAt(id) /\ NamesOf(id)' = NamesOf(id)
                 /\ Size(LineAt(id))' = Size(LineAt(id))
BY DEF LineAt, NamesOf

LEMMA SamePlaces ==
  ASSUME UNCHANGED <<program, base_of>>
  PROVE  /\ PlacedLines' = PlacedLines
         /\ \A id : EndOf(id)' = EndOf(id) /\ CellsOf(id)' = CellsOf(id)
<1>1. \A id : LineAt(id)' = LineAt(id)
  BY SameLines
<1>2. \A id : EndOf(id)' = EndOf(id)
  BY <1>1 DEF EndOf
<1> QED BY <1>1, <1>2 DEF PlacedLines, CellsOf

(* Valued and Named say nothing of the passes, Apart nothing of the values. *)
LEMMA SameNames ==
  ASSUME Valued, Named, UNCHANGED <<program, base_of, symbol_table>>
  PROVE  Valued' /\ Named'
<1>1. \A id : LineAt(id)' = LineAt(id) /\ NamesOf(id)' = NamesOf(id)
  BY SameLines
<1>2. Valued'
  BY <1>1 DEF Valued
<1>3. Named'
  BY <1>1 DEF Named
<1> QED BY <1>2, <1>3

LEMMA SameCells ==
  ASSUME Apart, UNCHANGED <<program, base_of>>, DOMAIN memory_layout' = DOMAIN memory_layout
  PROVE  Apart'
BY SamePlaces DEF Apart

(* What is built, when no line becomes built and no value changes. *)
LEMMA SameValues ==
  ASSUME Built, UNCHANGED <<program, base_of, symbol_table, memory_layout>>,
         \A id \in PlacedLines : IsBuilt(id)' <=> IsBuilt(id)
  PROVE  Built'
<1>1. PlacedLines' = PlacedLines /\ \A id : CellsOf(id)' = CellsOf(id)
  BY SamePlaces
<1>2. \A id : LineAt(id)' = LineAt(id)
  BY SameLines
<1>3. \A id, address : ValueAt(id, address)' = ValueAt(id, address)
  BY <1>2 DEF ValueAt
<1> HIDE DEF IsBuilt, ValueAt
<1> QED BY <1>1, <1>2, <1>3 DEF Built

LEMMA SameTranslation ==
  ASSUME Translated, UNCHANGED <<program, symbol_table, code>>
  PROVE  Translated'
BY DEF Translated

LEMMA SameBehind ==
  ASSUME Behind, UNCHANGED <<program, base_of, base_address>>, Laying' => Laying
  PROVE  Behind'
BY SamePlaces DEF Behind

LEMMA StillLInv ==
  ASSUME LInv, UNCHANGED <<program, pass, line, base_address, memory_layout, symbol_table,
                           base_of, code>>
  PROVE  LInv'
<1>1. Valued' /\ Named'
  BY SameNames DEF LInv
<1>2. Apart'
  BY SameCells DEF LInv
<1>3. \A id : IsBuilt(id)' <=> IsBuilt(id)
  BY DEF IsBuilt
<1>4. Built'
  BY <1>3, SameValues DEF LInv
<1>5. Translated'
  BY SameTranslation DEF LInv
<1>6. Behind'
  BY SameBehind DEF LInv, Laying
<1> QED BY <1>1, <1>2, <1>4, <1>5, <1>6 DEF LInv

LEMMA ThrowLInv ==
  ASSUME LInv, NEW e, Throw(e)
  PROVE  LInv'
BY StillLInv DEF Throw, layoutVars, translationVars

-----------------------------------------------------------------------------
(* A line gets its address. *)
LEMMA Entered ==
  ASSUME AInv, NEW passes, At(passes), pass # "done", Lays, Proceed,
         NEW here, here = Id, NEW names, NEW address, enter_symbols(names, address)
  PROVE  /\ UNCHANGED program /\ LineAt(here) = Current /\ here \notin DOMAIN base_of
         /\ DOMAIN base_of' = DOMAIN base_of \cup {here}
         /\ base_of'[here] = address
         /\ \A id \in DOMAIN base_of : base_of'[id] = base_of[id]
<1>1. UNCHANGED program /\ base_of' = With(base_of, here, address)
  BY DEF Proceed, enter_symbols
<1>2. here \notin DOMAIN base_of /\ LineAt(here) = Current
  BY NotYet DEF AInv, Placed, Current
<1> QED BY <1>1, <1>2 DEF With

LEMMA EnterValued ==
  ASSUME AInv, Valued, NEW passes, At(passes), pass # "done", Lays, Proceed,
         NEW names, NEW address, enter_symbols(names, address),
         \A operand \in FixedOperands(Current) : RestrictEvaluates(operand),
         NamesSymbol(Current) => address = restrict_eval(Current.value),
         Current.variant = "LINE_SET" /\ TakesMemory(Current) =>
           address = restrict_eval(Current.memoryAddress)
  PROVE  Valued'
<1> PICK here : here = Id
  OBVIOUS
<1>1. /\ UNCHANGED program /\ LineAt(here) = Current
      /\ DOMAIN base_of' = DOMAIN base_of \cup {here} /\ base_of'[here] = address
      /\ \A id \in DOMAIN base_of : base_of'[id] = base_of[id]
  BY Entered
<1>2. \A id : LineAt(id)' = LineAt(id)
  BY <1>1, SameLines
<1> QED BY <1>1, <1>2 DEF Valued

LEMMA EnterNamed ==
  ASSUME AInv, Named, NEW passes, At(passes), pass # "done", Lays, Proceed,
         NEW names, names = Names(Current), Fresh(names),
         NEW address, enter_symbols(names, address)
  PROVE  Named'
<1> PICK here : here = Id
  OBVIOUS
<1>1. /\ UNCHANGED program /\ LineAt(here) = Current
      /\ DOMAIN base_of' = DOMAIN base_of \cup {here} /\ base_of'[here] = address
      /\ \A id \in DOMAIN base_of : base_of'[id] = base_of[id]
      /\ here \notin DOMAIN base_of
  BY Entered
<1>2. \A id : NamesOf(id)' = NamesOf(id)
  BY <1>1, SameLines
<1>3. NamesOf(here) = names
  BY <1>1 DEF NamesOf
<1>4. symbol_table' = [ name \in DOMAIN symbol_table \cup Range(names) |->
                          IF name \in Range(names) THEN address ELSE symbol_table[name] ]
  BY DEF enter_symbols
<1>5. /\ \A i, j \in DOMAIN names : names[i] = names[j] => i = j
      /\ Range(names) \cap DOMAIN symbol_table = {}
  BY DEF Fresh, IsInjective
<1>6. \A i \in DOMAIN names : names[i] \in Range(names)
  BY DEF Range
<1>7. \A id \in DOMAIN base_of : \A i \in DOMAIN NamesOf(id) :
        NamesOf(id)[i] \in DOMAIN symbol_table
  BY DEF Named, Range
<1>8. DOMAIN symbol_table' = UNION { Range(NamesOf(id)) : id \in DOMAIN base_of' }
  BY <1>1, <1>3, <1>4 DEF Named
<1>9. \A id \in DOMAIN base_of' : \A i \in DOMAIN NamesOf(id) :
        symbol_table'[NamesOf(id)[i]] = base_of'[id]
  <2> SUFFICES ASSUME NEW id \in DOMAIN base_of', NEW i \in DOMAIN NamesOf(id)
               PROVE  symbol_table'[NamesOf(id)[i]] = base_of'[id]
    OBVIOUS
  <2>1. CASE id = here
    BY <1>1, <1>3, <1>4, <1>6, <2>1
  <2>2. CASE id # here
    <3>1. id \in DOMAIN base_of /\ NamesOf(id)[i] \in DOMAIN symbol_table
      BY <1>1, <1>7, <2>2
    <3>2. symbol_table[NamesOf(id)[i]] = base_of[id]
      BY <3>1 DEF Named
    <3> QED BY <1>1, <1>4, <1>5, <3>1, <3>2
  <2> QED BY <2>1, <2>2
<1>10. \A id, other \in DOMAIN base_of' :
         \A i \in DOMAIN NamesOf(id), j \in DOMAIN NamesOf(other) :
           NamesOf(id)[i] = NamesOf(other)[j] => id = other /\ i = j
  BY <1>1, <1>3, <1>5, <1>6, <1>7 DEF Named
<1> QED BY <1>2, <1>8, <1>9, <1>10 DEF Named

LEMMA EnteredCells ==
  ASSUME AInv, NEW passes, At(passes), pass # "done", Lays, Proceed,
         NEW here, here = Id, NEW names, NEW address \in Int, Size(Current) \in Int,
         enter_symbols(names, address)
  PROVE  /\ PlacedLines' = PlacedLines \cup (IF TakesMemory(Current) THEN {here} ELSE {})
         /\ \A id \in DOMAIN base_of : EndOf(id)' = EndOf(id) /\ CellsOf(id)' = CellsOf(id)
         /\ EndOf(here)' = address + Size(Current)
         /\ CellsOf(here)' = address .. (address + Size(Current) - 1)
<1>1. /\ UNCHANGED program /\ LineAt(here) = Current
      /\ DOMAIN base_of' = DOMAIN base_of \cup {here} /\ base_of'[here] = address
      /\ \A id \in DOMAIN base_of : base_of'[id] = base_of[id]
  BY Entered
<1>2. \A id : LineAt(id)' = LineAt(id)
  BY <1>1, SameLines
<1>3. PlacedLines' = PlacedLines \cup (IF TakesMemory(Current) THEN {here} ELSE {})
  BY <1>1, <1>2 DEF PlacedLines
<1>4. \A id \in DOMAIN base_of : EndOf(id)' = EndOf(id) /\ CellsOf(id)' = CellsOf(id)
  BY <1>1, <1>2 DEF EndOf, CellsOf
<1>5. EndOf(here)' = address + Size(Current)
  BY <1>1, <1>2 DEF EndOf
<1>6. CellsOf(here)' = address .. (address + Size(Current) - 1)
  <2>1. CellsOf(here)' = base_of'[here] .. (EndOf(here)' - 1)
    BY DEF CellsOf
  <2>2. base_of'[here] = address
    BY <1>1
  <2> QED BY <1>5, <2>1, <2>2
<1> QED BY <1>3, <1>4, <1>5, <1>6

LEMMA EnterApart ==
  ASSUME AInv, Apart, NEW passes, At(passes), pass # "done", Lays, Proceed,
         NEW names, NEW address \in Int, Size(Current) \in Int,
         enter_symbols(names, address),
         NEW cells, cells = address .. (address + Size(Current) - 1),
         IF TakesMemory(Current)
           THEN /\ cells \cap DOMAIN memory_layout = {}
                /\ DOMAIN memory_layout' = DOMAIN memory_layout \cup cells
           ELSE UNCHANGED memory_layout
  PROVE  Apart'
<1> PICK here : here = Id
  OBVIOUS
<1>1. /\ PlacedLines' = PlacedLines \cup (IF TakesMemory(Current) THEN {here} ELSE {})
      /\ \A id \in DOMAIN base_of : CellsOf(id)' = CellsOf(id)
      /\ CellsOf(here)' = cells
  BY EnteredCells
<1>2. \A id \in PlacedLines : id \in DOMAIN base_of
  BY DEF PlacedLines
<1>3. \A id \in PlacedLines : CellsOf(id) \subseteq DOMAIN memory_layout
  BY DEF Apart
<1>4. CASE TakesMemory(Current)
  <2>1. PlacedLines' = PlacedLines \cup {here}
    BY <1>1, <1>4
  <2>2. \A id \in PlacedLines' : CellsOf(id)' \subseteq DOMAIN memory_layout'
    BY <1>1, <1>2, <1>3, <1>4, <2>1
  <2>3. \A a \in DOMAIN memory_layout' : \E id \in PlacedLines' : a \in CellsOf(id)'
    <3>1. \A a \in DOMAIN memory_layout : \E id \in PlacedLines : a \in CellsOf(id)
      BY DEF Apart
    <3>2. \A a \in DOMAIN memory_layout : \E id \in PlacedLines : a \in CellsOf(id)'
      BY <1>1, <1>2, <3>1
    <3>3. DOMAIN memory_layout' = DOMAIN memory_layout \cup cells
      BY <1>4
    <3>4. CellsOf(here)' = cells
      BY <1>1
    <3> QED BY <2>1, <3>2, <3>3, <3>4
  <2>4. \A id, other \in PlacedLines' : \A a \in CellsOf(id)' \cap CellsOf(other)' : id = other
    <3>1. \A id \in PlacedLines : CellsOf(id)' \cap CellsOf(here)' = {}
      BY <1>1, <1>2, <1>3, <1>4
    <3>2. \A id, other \in PlacedLines : \A a \in CellsOf(id)' \cap CellsOf(other)' : id = other
      BY <1>1, <1>2 DEF Apart
    <3> QED BY <2>1, <3>1, <3>2
  <2> QED BY <2>2, <2>3, <2>4 DEF Apart
<1>5. CASE ~TakesMemory(Current)
  <2>1. PlacedLines' = PlacedLines /\ UNCHANGED memory_layout
    BY <1>1, <1>5
  <2>2. \A id \in PlacedLines : CellsOf(id)' = CellsOf(id)
    BY <1>1, <1>2
  <2> QED BY <2>1, <2>2 DEF Apart
<1> QED BY <1>4, <1>5

(* The cells of the line are filled with zeros. *)
Fills(cells) ==
  IF TakesMemory(Current)
    THEN memory_layout' = [ a \in DOMAIN memory_layout \cup cells |->
                              IF a \in cells THEN 0 ELSE memory_layout[a] ]
    ELSE UNCHANGED memory_layout

(* The memory is empty as long as it is laid out. *)
LEMMA EnterBuilt ==
  ASSUME AInv, Apart, Built, NEW passes, At(passes), pass # "done", Lays, Proceed,
         NEW names, NEW address \in Int, Size(Current) \in Int,
         enter_symbols(names, address),
         NEW cells, cells = address .. (address + Size(Current) - 1),
         Fills(cells)
  PROVE  Built'
<1> PICK here : here = Id
  OBVIOUS
<1>1. /\ PlacedLines' = PlacedLines \cup (IF TakesMemory(Current) THEN {here} ELSE {})
      /\ \A id \in DOMAIN base_of : CellsOf(id)' = CellsOf(id)
      /\ CellsOf(here)' = cells
  BY EnteredCells
<1>2. \A id : ~IsBuilt(id) /\ ~IsBuilt(id)'
  BY DEF Lays, IsBuilt, Proceed
<1>3. \A id \in PlacedLines : \A a \in CellsOf(id) :
        a \in DOMAIN memory_layout /\ memory_layout[a] = 0
  BY <1>2 DEF Built, Apart
<1>4. \A id \in PlacedLines : id \in DOMAIN base_of
  BY DEF PlacedLines
<1>5. \A id \in PlacedLines' : \A a \in CellsOf(id)' : memory_layout'[a] = 0
  BY <1>1, <1>3, <1>4 DEF Fills
<1> HIDE DEF IsBuilt
<1> QED BY <1>2, <1>5 DEF Built

LEMMA EnterBehind ==
  ASSUME AInv, Behind, NEW passes, At(passes), pass # "done", Lays, Proceed,
         NEW names, NEW address \in Int, Size(Current) \in Int,
         enter_symbols(names, address),
         \/ UNCHANGED base_address
         \/ TakesMemory(Current) /\ base_address' = address + Size(Current)
         \/ pass = "layout_code"
  PROVE  Behind'
<1> PICK here : here = Id
  OBVIOUS
<1>1. /\ PlacedLines' = PlacedLines \cup (IF TakesMemory(Current) THEN {here} ELSE {})
      /\ \A id \in DOMAIN base_of : EndOf(id)' = EndOf(id)
      /\ EndOf(here)' = address + Size(Current)
  BY EnteredCells
<1>2. \A id \in PlacedLines : id \in DOMAIN base_of
  BY DEF PlacedLines
<1>3. Laying' <=> Laying
  BY DEF Laying, Proceed
<1>4. pass = "layout_code" => ~Laying
  BY DEF Laying
<1> QED BY <1>1, <1>2, <1>3, <1>4 DEF Behind

LEMMA EnterLInv ==
  ASSUME AInv, LInv, NEW passes, At(passes), pass # "done", Lays, Proceed,
         UNCHANGED translationVars,
         NEW names, names = Names(Current), Fresh(names),
         NEW address \in Int, Size(Current) \in Int,
         enter_symbols(names, address),
         \A operand \in FixedOperands(Current) : RestrictEvaluates(operand),
         NamesSymbol(Current) => address = restrict_eval(Current.value),
         Current.variant = "LINE_SET" /\ TakesMemory(Current) =>
           address = restrict_eval(Current.memoryAddress),
         NEW cells, cells = address .. (address + Size(Current) - 1),
         TakesMemory(Current) => cells \cap DOMAIN memory_layout = {},
         Fills(cells),
         \/ UNCHANGED base_address
         \/ TakesMemory(Current) /\ base_address' = address + Size(Current)
         \/ pass = "layout_code"
  PROVE  LInv'
<1>1. Valued'
  BY EnterValued DEF LInv
<1>2. Named'
  BY EnterNamed DEF LInv
<1>3. Apart'
  <2>1. IF TakesMemory(Current)
           THEN /\ cells \cap DOMAIN memory_layout = {}
                /\ DOMAIN memory_layout' = DOMAIN memory_layout \cup cells
           ELSE UNCHANGED memory_layout
    BY DEF Fills
  <2> QED BY <2>1, EnterApart DEF LInv
<1>4. Built'
  <2>1. Apart /\ Built
    BY DEF LInv
  <2> QED BY <2>1, EnterBuilt
<1>5. Behind'
  BY EnterBehind DEF LInv
<1>6. Translated'
  <2>1. code' = code
    BY DEF translationVars
  <2>2. DOMAIN code = {}
    BY DEF AInv, Coded, Lays
  <2> QED BY <2>1, <2>2 DEF Translated
<1> QED BY <1>1, <1>2, <1>3, <1>4, <1>5, <1>6 DEF LInv

-----------------------------------------------------------------------------
LEMMA FixAddressLInv ==
  ASSUME AInv, LInv, FixAddress
  PROVE  LInv'
<1> DEFINE l == Current
           address == restrict_eval(l.memoryAddress)
<1>1. /\ Positioned /\ At({"layout_fixed"}) /\ pass = "layout_fixed"
      /\ l.variant = "LINE_SET" /\ TakesMemory(l)
  BY DEF AInv, FixAddress, At
<1>2. CASE \E e \in Exceptions : Throw(e)
  BY <1>2, ThrowLInv
<1>3. CASE /\ RestrictEvaluates(l.memoryAddress)
           /\ address \notin DOMAIN memory_layout
           /\ Fresh(l.labels)
           /\ memory_layout' = With(memory_layout, address, 0)
           /\ enter_symbols(l.labels, address)
           /\ Proceed
           /\ UNCHANGED <<base_address, translationVars>>
  <2>1. ~NamesSymbol(l) /\ Names(l) = l.labels /\ Size(l) = 1
        /\ FixedOperands(l) = {l.memoryAddress}
    BY <1>1 DEF TakesMemory, Names, Size, FixedOperands
  <2>2. l \in DataLines
    BY <1>1, Here DEF SectionOf
  <2>3. address \in Int
    BY <1>1, <1>3, <2>2, SetLines, RestrictWord, WordInt
  <2>4. {address} = address .. (address + Size(l) - 1)
    BY <2>1, <2>3
  <2>5. {address} \cap DOMAIN memory_layout = {} /\ Fills({address})
    BY <1>1, <1>3 DEF With, Fills
  <2>6. Lays /\ pass # "done"
    BY <1>1 DEF Lays
  <2>7. UNCHANGED translationVars
    BY <1>3
  <2> HIDE DEF l, address
  <2> QED BY <1>1, <1>3, <2>1, <2>3, <2>4, <2>5, <2>6, <2>7, EnterLInv DEF l, address
<1> QED BY <1>1, <1>2, <1>3 DEF FixAddress, Check, Exceptions

LEMMA FixSymbolLInv ==
  ASSUME AInv, LInv, FixSymbol
  PROVE  LInv'
<1> DEFINE l == Current
           value == restrict_eval(l.value)
<1>1. /\ Positioned /\ At({"layout_fixed"}) /\ pass = "layout_fixed"
      /\ l.variant = "LINE_SET" /\ NamesSymbol(l) /\ ~TakesMemory(l)
  BY DEF AInv, FixSymbol, At, NamesSymbol, TakesMemory
<1>2. CASE \E e \in Exceptions : Throw(e)
  BY <1>2, ThrowLInv
<1>3. CASE /\ RestrictEvaluates(l.value)
           /\ Fresh(Names(l))
           /\ enter_symbols(Names(l), value)
           /\ Proceed
           /\ UNCHANGED <<base_address, memory_layout, translationVars>>
  <2>1. FixedOperands(l) = {l.value}
    BY <1>1 DEF FixedOperands
  <2>2. Lays /\ pass # "done"
    BY <1>1 DEF Lays
  <2>4. value \in Int /\ Size(l) \in Int
    <3>1. l \in DataLines
      BY <1>1, Here DEF SectionOf
    <3> QED BY <1>1, <1>3, <3>1, SetLines, RestrictWord, WordInt DEF Size
  <2>3. /\ UNCHANGED translationVars /\ UNCHANGED base_address
        /\ \A cells : Fills(cells)
    BY <1>1, <1>3 DEF Fills
  <2> HIDE DEF l, value
  <2> QED BY <1>1, <1>3, <2>1, <2>2, <2>3, <2>4, EnterLInv DEF l, value
<1> QED BY <1>1, <1>2, <1>3 DEF FixSymbol, Check, Exceptions

LEMMA LayoutInstructionLInv ==
  ASSUME AInv, LInv, LayoutInstruction
  PROVE  LInv'
<1> DEFINE l == Current
<1>1. /\ Positioned /\ At({"layout_code"}) /\ pass = "layout_code" /\ Lays
  BY DEF AInv, LayoutInstruction, At, Lays
<1>2. CASE \E e \in Exceptions : Throw(e)
  BY <1>2, ThrowLInv
<1>3. CASE /\ Fresh(l.labels)
           /\ enter_symbols(l.labels, base_address)
           /\ base_address' = base_address + 1
           /\ Proceed
           /\ UNCHANGED <<memory_layout, translationVars>>
  <2>1. l.variant = "LINE_INSTRUCTION"
    BY <1>1, Here, Variants DEF SectionOf
  <2>2. /\ ~NamesSymbol(l) /\ ~TakesMemory(l) /\ Names(l) = l.labels
        /\ FixedOperands(l) = {} /\ Size(l) \in Int /\ base_address \in Int
    BY <2>1, HalfRangeNat
       DEF TakesMemory, NamesSymbol, Names, FixedOperands, Size, AInv, Tabled
  <2>3. UNCHANGED translationVars /\ pass # "done" /\ \A cells : Fills(cells)
    BY <1>1, <1>3, <2>2 DEF Fills
  <2> HIDE DEF l
  <2> QED BY <1>1, <1>3, <2>1, <2>2, <2>3, EnterLInv DEF l
<1> QED BY <1>1, <1>2, <1>3 DEF LayoutInstruction, Check, Exceptions

(* The search collides with fixed cells only: the blocks are behind it.    *)
LEMMA CollideLInv ==
  ASSUME AInv, SInv, LInv, Laying, base_address \in Nat,
         NEW colliding, \A a \in colliding : a \in DOMAIN memory_layout /\ a \in Nat
                                             /\ base_address <= a,
         Collide(colliding)
  PROVE  LInv'
<1>1. PICK address \in colliding :
        /\ base_address' = address + 1
        /\ UNCHANGED <<program, pass, line, memory_layout, symbol_table, base_of,
                       code, entry_address, exception>>
  BY DEF Collide, translationVars
<1>2. Valued' /\ Named' /\ Apart' /\ Built' /\ Translated'
  <2>1. \A id : IsBuilt(id)' <=> IsBuilt(id)
    BY <1>1 DEF IsBuilt
  <2>2. Built'
    BY <1>1, <2>1, SameValues DEF LInv
  <2> QED BY <1>1, <2>2, SameNames, SameCells, SameTranslation DEF LInv
<1>3. address \in FixedCells
  <2>1. \A id \in Allocated : EndOf(id) <= base_address /\ EndOf(id) \in Nat /\ base_of[id] \in Nat
    <3>1. PICK end : LastEnd(end) /\ end <= base_address
      BY DEF SInv, Searched
    <3>2. \A id \in Allocated : EndOf(id) \in Nat /\ EndOf(id) <= end /\ base_of[id] \in Nat
      BY <3>1, EndsAreNumbers DEF LastEnd
    <3>3. end \in Nat
      BY <3>1, EndsAreNumbers DEF LastEnd
    <3> QED BY <3>1, <3>2, <3>3
  <2>2. \A id \in Allocated : address \notin CellsOf(id)
    BY <1>1, <2>1 DEF CellsOf
  <2>3. DOMAIN memory_layout = FixedCells \cup UNION { CellsOf(id) : id \in Allocated }
    BY DEF SInv, Filled
  <2> QED BY <1>1, <2>2, <2>3
<1>4. PICK id \in PlacedLines : base_of[id] = address /\ LineAt(id).variant = "LINE_SET"
  BY <1>3 DEF FixedCells, PlacedLines
<1>5. EndOf(id) = address + 1
  BY <1>4 DEF EndOf, Size
<1>6. PlacedLines' = PlacedLines /\ EndOf(id)' = EndOf(id)
  BY <1>1, SamePlaces
<1>7. Behind'
  <2>1. base_address' = EndOf(id)' /\ id \in PlacedLines'
    BY <1>1, <1>4, <1>5, <1>6
  <2> QED BY <2>1 DEF Behind
<1> QED BY <1>2, <1>7 DEF LInv

LEMMA LayoutMemoryLInv ==
  ASSUME AInv, SInv, LInv, LayoutMemory
  PROVE  LInv'
<1> DEFINE size == Size(Current)
           range == base_address .. (base_address + size - 1)
           colliding == range \cap DOMAIN memory_layout
<1>1. CASE \E e \in Exceptions : Throw(e)
  BY <1>1, ThrowLInv
<1>2. CASE ~\E e \in Exceptions : Throw(e)
  <2>1. /\ At({"layout_data", "layout_bss"}) /\ Lays
        /\ pass \in {"layout_data", "layout_bss"}
        /\ Current.variant \in {"LINE_WORDS", "LINE_RESERVED"}
        /\ \A operand \in FixedOperands(Current) : RestrictEvaluates(operand)
        /\ size \in Nat /\ base_address \in Nat
        /\ \/ Collide(colliding)
           \/ colliding = {} /\ Fresh(Current.labels) /\ Reserve(range, size)
    BY <1>2, AllocationCases
  <2>2. CASE Collide(colliding)
    <3>1. Laying /\ \A a \in colliding : a \in DOMAIN memory_layout /\ a \in Nat
                                         /\ base_address <= a
      BY <2>1 DEF Laying
    <3> HIDE DEF colliding
    <3> QED BY <2>1, <2>2, <3>1, CollideLInv
  <2>3. CASE colliding = {} /\ Fresh(Current.labels) /\ Reserve(range, size)
    <3>1. /\ ~NamesSymbol(Current) /\ TakesMemory(Current)
          /\ Names(Current) = Current.labels /\ Current.variant # "LINE_SET"
      BY <2>1 DEF NamesSymbol, TakesMemory, Names
    <3>2. /\ Fills(range) /\ base_address' = base_address + size
          /\ enter_symbols(Current.labels, base_address)
          /\ Proceed /\ UNCHANGED translationVars
      BY <2>3, <3>1 DEF Reserve, Fills
    <3>3. pass # "done" /\ base_address \in Int /\ Size(Current) \in Int
      BY <2>1
    <3> QED BY <2>1, <2>3, <3>1, <3>2, <3>3, EnterLInv
  <2> QED BY <2>1, <2>2, <2>3
<1> QED BY <1>1, <1>2

-----------------------------------------------------------------------------
(* When all sections are laid out, all lines have got their addresses.     *)
LaidOutAll == pass \in {"build_data", "build_bss", "translate_program", "done"}

LEMMA AllPlaced ==
  ASSUME AInv, LaidOutAll
  PROVE  DOMAIN base_of = LineIds
<1> SUFFICES ASSUME NEW id \in LineIds PROVE LaidOut(id)
  BY DEF AInv, Placed
<1>1. /\ id[1] \in {"code", "data", "bss"}
      /\ id[1] = "data" => LineAt(id).variant \in {"LINE_WORDS", "LINE_SET"}
  BY IdKinds, Variants DEF AInv, Positioned
<1> QED BY <1>1 DEF LaidOutAll, LaidOut

(* A line is built: its values are in its cells.                           *)
LEMMA BuildsLInv ==
  ASSUME AInv, LInv, At({"build_data"}), Proceed,
         UNCHANGED <<base_address, symbol_table, base_of, code>>,
         NEW here, here = Id, here \in PlacedLines,
         \A operand \in OpenOperands(Current) : Evaluates(operand, symbol_table),
         DOMAIN memory_layout' = DOMAIN memory_layout \cup CellsOf(here),
         \A a \in CellsOf(here) : memory_layout'[a] = ValueAt(here, a),
         \A a \in DOMAIN memory_layout : a \notin CellsOf(here) =>
           memory_layout'[a] = memory_layout[a]
  PROVE  LInv'
<1>1. /\ UNCHANGED <<program, pass>> /\ line' = line + 1 /\ pass = "build_data"
      /\ line \in Nat /\ Positioned
  BY DEF Proceed, At, AInv, Positioned
<1>2. /\ PlacedLines' = PlacedLines
      /\ \A id : CellsOf(id)' = CellsOf(id)
  BY <1>1, SamePlaces
<1>3. \A id : LineAt(id)' = LineAt(id)
  BY <1>1, SameLines
<1>4. \A id \in PlacedLines : id \in LineIds
  BY DEF PlacedLines, AInv, Placed
<1>5. here[1] = "data" /\ here[2] = line /\ LineAt(here) = Current
  BY <1>1, Here DEF SectionOf, Current
<1>6. \A id \in PlacedLines : (IsBuilt(id)' <=> IsBuilt(id) \/ id = here) /\ ~IsBuilt(here)
  <2> SUFFICES ASSUME NEW id \in PlacedLines
               PROVE  (IsBuilt(id)' <=> IsBuilt(id) \/ id = here) /\ ~IsBuilt(here)
    OBVIOUS
  <2>1. id = <<id[1], id[2]>> /\ id[2] \in Nat /\ here = <<here[1], here[2]>>
    BY <1>1, <1>4, IdKinds DEF Positioned
  <2>2. id = here <=> id[1] = "data" /\ id[2] = line
    BY <1>5, <2>1
  <2> QED BY <1>1, <1>5, <2>1, <2>2 DEF IsBuilt
<1>7. \A id, a : ValueAt(id, a)' = ValueAt(id, a)
  BY <1>3 DEF ValueAt
<1>8. /\ CellsOf(here) \subseteq DOMAIN memory_layout
      /\ \A id \in PlacedLines : \A a \in CellsOf(id) :
           a \in DOMAIN memory_layout /\ (a \in CellsOf(here) => id = here)
  BY DEF LInv, Apart
<1>9. Built'
  <2> SUFFICES ASSUME NEW id \in PlacedLines
               PROVE  /\ IsBuilt(id)' =>
                           \A operand \in OpenOperands(LineAt(id)) : Evaluates(operand, symbol_table)
                      /\ \A a \in CellsOf(id) :
                           memory_layout'[a] = IF IsBuilt(id)' THEN ValueAt(id, a) ELSE 0
    BY <1>2, <1>3, <1>7 DEF Built
  <2> HIDE DEF IsBuilt, ValueAt
  <2>1. /\ IsBuilt(id) => \A operand \in OpenOperands(LineAt(id)) : Evaluates(operand, symbol_table)
        /\ \A a \in CellsOf(id) : memory_layout[a] = IF IsBuilt(id) THEN ValueAt(id, a) ELSE 0
    BY DEF LInv, Built
  <2>2. CASE id = here
    BY <1>5, <1>6, <2>2
  <2>3. CASE id # here
    BY <1>6, <1>8, <2>1, <2>3
  <2> QED BY <2>2, <2>3
<1>10. Valued' /\ Named'
  BY <1>1, SameNames DEF LInv
<1>11. Apart'
  <2>1. DOMAIN memory_layout' = DOMAIN memory_layout
    BY <1>8
  <2> QED BY <1>1, <2>1, SameCells DEF LInv
<1>12. Translated'
  BY <1>1, SameTranslation DEF LInv
<1>13. Behind'
  BY <1>1 DEF Behind, Laying
<1> QED BY <1>9, <1>10, <1>11, <1>12, <1>13 DEF LInv

LEMMA BuildWordsLInv ==
  ASSUME AInv, LInv, BuildWords
  PROVE  LInv'
<1> PICK here : here = Id
  OBVIOUS
<1> DEFINE l == Current
           base == base_of[Id]
           Word_(address) == eval(l.data[address - base + 1], address, symbol_table)
           addresses == base .. (base + Len(l.data) - 1)
<1>1. /\ Positioned /\ At({"build_data"}) /\ pass = "build_data" /\ pass # "done"
      /\ l.variant = "LINE_WORDS"
  BY DEF AInv, BuildWords, At
<1>2. CASE \E e \in Exceptions : Throw(e)
  BY <1>2, ThrowLInv
<1>3. CASE /\ \A operand \in Range(l.data) : Evaluates(operand, symbol_table)
           /\ Write(addresses, Word_)
  <2>1. Id \in LineIds /\ LineAt(Id) = l /\ l \in DataLines
    BY <1>1, Here DEF SectionOf, Current
  <2>2. here \in PlacedLines
    BY <1>1, <2>1, AllPlaced DEF LaidOutAll, PlacedLines, TakesMemory, NamesSymbol
  <2>3. Size(l) = Len(l.data) /\ OpenOperands(l) = Range(l.data)
    BY <1>1 DEF Size, OpenOperands
  <2>4. base \in Int /\ Len(l.data) \in Nat
    <3>1. l.data \in Seq(Operands)
      BY <1>1, <2>1 DEF DataLines
    <3>2. base \in Word
      BY <2>2 DEF PlacedLines, AInv, Placed
    <3> QED BY <3>1, <3>2, WordInt
  <2>5. CellsOf(here) = addresses
    BY <2>1, <2>3, <2>4 DEF CellsOf, EndOf
  <2>6. \A a : ValueAt(here, a) = Word_(a)
    BY <1>1, <2>1 DEF ValueAt
  <2> HIDE DEF l, base, addresses, Word_
  <2>7. /\ memory_layout' = [ address \in DOMAIN memory_layout \cup addresses |->
                                IF address \in addresses THEN Word_(address)
                                                         ELSE memory_layout[address] ]
        /\ Proceed
        /\ UNCHANGED <<base_address, symbol_table, base_of, code>>
    BY <1>3 DEF Write, translationVars
  <2>8. /\ DOMAIN memory_layout' = DOMAIN memory_layout \cup CellsOf(here)
        /\ \A a \in CellsOf(here) : memory_layout'[a] = ValueAt(here, a)
        /\ \A a \in DOMAIN memory_layout : a \notin CellsOf(here) =>
             memory_layout'[a] = memory_layout[a]
    BY <2>5, <2>6, <2>7
  <2>9. \A operand \in OpenOperands(Current) : Evaluates(operand, symbol_table)
    BY <1>3, <2>3 DEF l
  <2> QED BY <1>1, <2>2, <2>7, <2>8, <2>9, BuildsLInv
<1> QED BY <1>2, <1>3 DEF BuildWords, Check, Exceptions

LEMMA BuildSetLInv ==
  ASSUME AInv, LInv, BuildSet
  PROVE  LInv'
<1> PICK here : here = Id
  OBVIOUS
<1> DEFINE l == Current
           Value(address) == eval(l.value, address, symbol_table)
<1>1. /\ Positioned /\ At({"build_data"}) /\ pass = "build_data" /\ pass # "done"
      /\ l.variant = "LINE_SET" /\ TakesMemory(l)
  BY DEF AInv, BuildSet, At
<1>2. CASE \E e \in Exceptions : Throw(e)
  BY <1>2, ThrowLInv
<1>3. CASE Evaluates(l.value, symbol_table) /\ Write({base_of[Id]}, Value)
  <2>1. Id \in LineIds /\ LineAt(Id) = l /\ l \in DataLines
    BY <1>1, Here DEF SectionOf, Current
  <2>2. here \in PlacedLines
    BY <1>1, <2>1, AllPlaced DEF LaidOutAll, PlacedLines
  <2>3. Size(l) = 1 /\ OpenOperands(l) = {l.value}
    BY <1>1 DEF Size, OpenOperands, TakesMemory
  <2>4. base_of[here] \in Int
    BY <2>2, WordInt DEF PlacedLines, AInv, Placed
  <2>5. CellsOf(here) = {base_of[here]}
    BY <2>1, <2>3, <2>4 DEF CellsOf, EndOf
  <2>6. \A a : ValueAt(here, a) = Value(a)
    BY <1>1, <2>1 DEF ValueAt
  <2> HIDE DEF l, Value
  <2>7. /\ memory_layout' = [ address \in DOMAIN memory_layout \cup {base_of[Id]} |->
                                IF address \in {base_of[Id]} THEN Value(address)
                                                             ELSE memory_layout[address] ]
        /\ Proceed
        /\ UNCHANGED <<base_address, symbol_table, base_of, code>>
    BY <1>3 DEF Write, translationVars
  <2>8. /\ DOMAIN memory_layout' = DOMAIN memory_layout \cup CellsOf(here)
        /\ \A a \in CellsOf(here) : memory_layout'[a] = ValueAt(here, a)
        /\ \A a \in DOMAIN memory_layout : a \notin CellsOf(here) =>
             memory_layout'[a] = memory_layout[a]
    BY <2>5, <2>6, <2>7
  <2>9. \A operand \in OpenOperands(Current) : Evaluates(operand, symbol_table)
    BY <1>3, <2>3 DEF l
  <2> QED BY <1>1, <2>2, <2>7, <2>8, <2>9, BuildsLInv
<1> QED BY <1>2, <1>3 DEF BuildSet, Check, Exceptions

(* A step that touches nothing the tables hold keeps the invariant when no *)
(* line becomes built.                                                     *)
LEMMA KeepLInv ==
  ASSUME LInv, UNCHANGED <<program, memory_layout, symbol_table, base_of, code>>,
         Laying' => Laying /\ UNCHANGED base_address,
         \A id \in PlacedLines : IsBuilt(id)' <=> IsBuilt(id)
  PROVE  LInv'
<1>1. Valued' /\ Named'
  BY SameNames DEF LInv
<1>2. Apart'
  BY SameCells DEF LInv
<1>3. Built'
  BY SameValues DEF LInv
<1>4. Translated'
  BY SameTranslation DEF LInv
<1>5. Behind'
  BY SamePlaces DEF LInv, Behind
<1> QED BY <1>1, <1>2, <1>3, <1>4, <1>5 DEF LInv

LEMMA TranslateLInv ==
  ASSUME AInv, LInv, Translate
  PROVE  LInv'
<1> DEFINE l == Current
           position == base_of[Id]
           word == encode(l, eval(l.operand, position, symbol_table), position)
<1>1. /\ Positioned /\ At({"translate_program"}) /\ pass = "translate_program"
      /\ pass # "done"
  BY DEF AInv, Translate, At
<1>2. CASE \E e \in Exceptions : Throw(e)
  BY <1>2, ThrowLInv
<1>3. CASE /\ Evaluates(l.operand, symbol_table)
           /\ code' = Append(code, word)
           /\ Proceed
           /\ UNCHANGED layoutVars
  <2>1. Id \in LineIds /\ Id[1] = "code" /\ Id[2] = line /\ l = program.code[line]
    BY <1>1, Here DEF SectionOf, Current, LineAt
  <2>2. position = line - 1
    BY <1>1, <2>1, AllPlaced DEF LaidOutAll, AInv, Placed
  <2>3. code \in Seq(Instruction) /\ Len(code) = line - 1 /\ line \in Nat \ {0}
    BY <1>1 DEF AInv, Coded, Positioned
  <2>4. /\ DOMAIN code' = DOMAIN code \cup {line}
        /\ code'[line] = word
        /\ \A i \in DOMAIN code : code'[i] = code[i]
    <3> HIDE DEF word
    <3> QED BY <1>3, <2>3
  <2>5. /\ UNCHANGED <<program, pass, base_address, memory_layout, symbol_table, base_of>>
        /\ line' = line + 1
    BY <1>3 DEF layoutVars, Proceed
  <2>6. Translated'
    <3>1. word = encode(program.code[line],
                        eval(program.code[line].operand, line - 1, symbol_table), line - 1)
      BY <2>1, <2>2
    <3>2. Evaluates(program.code[line].operand, symbol_table)
      BY <1>3, <2>1
    <3> HIDE DEF word, l, position
    <3> QED BY <2>4, <2>5, <3>1, <3>2 DEF LInv, Translated
  <2>7. Valued' /\ Named'
    BY <2>5, SameNames DEF LInv
  <2>8. Apart'
    BY <2>5, SameCells DEF LInv
  <2>9. Built'
    BY <1>1, <2>5, SameValues DEF LInv, IsBuilt
  <2>10. Behind'
    BY <1>1, <2>5 DEF Behind, Laying
  <2> QED BY <2>6, <2>7, <2>8, <2>9, <2>10 DEF LInv
<1> QED BY <1>2, <1>3 DEF Translate, Check, Exceptions

LEMMA SkipLInv ==
  ASSUME AInv, LInv, Skip
  PROVE  LInv'
<1>1. /\ UNCHANGED <<program, pass, base_address, memory_layout, symbol_table, base_of, code>>
      /\ line' = line + 1
  BY DEF Skip, Proceed, layoutVars, translationVars
<1>2. ASSUME NEW id \in PlacedLines
      PROVE  IsBuilt(id)' <=> IsBuilt(id)
  <2>1. CASE pass # "build_data"
    BY <1>1, <2>1 DEF IsBuilt
  <2>2. CASE pass = "build_data"
    <3>1. At({"build_data"}) /\ NamesSymbol(Current)
      BY <2>2 DEF Skip, At
    <3>2. /\ id \in LineIds /\ TakesMemory(LineAt(id)) /\ line \in Nat
          /\ Positioned
      BY DEF PlacedLines, AInv, Placed, Positioned
    <3>3. id = <<id[1], id[2]>> /\ id[2] \in Nat
      BY <3>2, IdKinds DEF Positioned
    <3>4. id # Id
      BY <3>1, <3>2 DEF Current, TakesMemory
    <3>5. ~(id[1] = "data" /\ id[2] = line)
      BY <2>2, <3>3, <3>4 DEF Id, SectionOf
    <3>6. id[2] < line + 1 <=> id[2] < line \/ id[2] = line
      BY <3>2, <3>3
    <3> QED BY <1>1, <2>2, <3>5, <3>6 DEF IsBuilt
  <2> QED BY <2>1, <2>2
<1>3. Laying' => Laying /\ UNCHANGED base_address
  BY <1>1 DEF Laying
<1> HIDE DEF IsBuilt
<1> QED BY <1>1, <1>2, <1>3, KeepLInv

LEMMA NextPassLInv ==
  ASSUME AInv, LInv, NextPass
  PROVE  LInv'
<1>1. /\ EndOfSection /\ pass' = Following(pass) /\ line' = 1
      /\ base_address' = IF pass' = "layout_code" THEN 0 ELSE base_address
      /\ UNCHANGED <<program, memory_layout, symbol_table, base_of, code>>
      /\ pass \notin {"translate_program", "done"} /\ Positioned
  BY DEF NextPass, EndOfSection, Working, translationVars, AInv
<1>2. pass \in {"layout_fixed", "layout_data", "layout_bss", "layout_code", "build_data",
                "build_bss"}
  BY <1>1, PassNames DEF Positioned
<1>3. Laying' => Laying /\ UNCHANGED base_address
  BY <1>1, <1>2, FollowingPass DEF Laying
<1>4. ASSUME NEW id \in PlacedLines
      PROVE  IsBuilt(id)' <=> IsBuilt(id)
  <2>1. id \in LineIds
    BY DEF PlacedLines, AInv, Placed
  <2>2. id[2] \in Nat \ {0} /\ (id[1] = SectionOf(pass) => id[2] < line)
    BY <1>1, <2>1, IdKinds, PassEnds DEF Positioned
  <2>3. CASE pass = "build_data"
    <3>1. id[1] = "data" => id[2] < line
      BY <2>2, <2>3 DEF SectionOf
    <3> QED BY <1>1, <2>3, <3>1, FollowingPass DEF IsBuilt
  <2>4. CASE pass = "layout_code"
    BY <1>1, <2>2, <2>4, FollowingPass DEF IsBuilt
  <2>5. CASE pass \in {"layout_fixed", "layout_data", "layout_bss", "build_bss"}
    BY <1>1, <2>5, FollowingPass DEF IsBuilt
  <2> QED BY <1>2, <2>3, <2>4, <2>5
<1> HIDE DEF IsBuilt
<1> QED BY <1>1, <1>3, <1>4, KeepLInv

LEMMA FinishLInv ==
  ASSUME AInv, LInv, Finish
  PROVE  LInv'
<1>1. CASE \E e \in Exceptions : Throw(e)
  BY <1>1, ThrowLInv
<1>2. CASE /\ pass = "translate_program" /\ pass' = "done"
           /\ UNCHANGED <<program, line, layoutVars, translationVars, exception>>
  <2>1. UNCHANGED <<program, memory_layout, symbol_table, base_of, code>> /\ ~Laying'
    BY <1>2 DEF layoutVars, translationVars, Laying
  <2>2. \A id : IsBuilt(id)' <=> IsBuilt(id)
    BY <1>2 DEF IsBuilt
  <2> QED BY <2>1, <2>2, KeepLInv
<1> QED BY <1>1, <1>2 DEF Finish, Check, Exceptions

LEMMA InitLInv == Init => LInv
<1> SUFFICES ASSUME Init PROVE LInv
  OBVIOUS
<1>1. DOMAIN base_of = {} /\ DOMAIN symbol_table = {} /\ DOMAIN memory_layout = {}
      /\ DOMAIN code = {} /\ base_address = 0
  BY DEF Init
<1>2. PlacedLines = {}
  BY <1>1 DEF PlacedLines
<1> QED BY <1>1, <1>2 DEF LInv, Valued, Named, Apart, Built, Translated, Behind

LEMMA NextLInv == AInv /\ SInv /\ LInv /\ [Next]_vars => LInv'
<1> SUFFICES ASSUME AInv, SInv, LInv, [Next]_vars PROVE LInv'
  OBVIOUS
<1>1. CASE UNCHANGED vars
  BY <1>1, StillLInv DEF vars, layoutVars, translationVars
<1>2. CASE Next
  BY <1>2, FixAddressLInv, FixSymbolLInv, LayoutMemoryLInv, LayoutInstructionLInv,
     BuildWordsLInv, BuildSetLInv, TranslateLInv, SkipLInv, NextPassLInv, FinishLInv
     DEF Next
<1> QED BY <1>1, <1>2

-----------------------------------------------------------------------------
(***************************************************************************)
(* The loader reads the lines of the same program in the same way.         *)
(***************************************************************************)
LEMMA LWords ==
  /\ L!HalfRange = HalfRange /\ L!Word = Word
  /\ \A a, b : L!AddW(a, b) = AddW(a, b) /\ L!SubW(a, b) = SubW(a, b)
  /\ \A a : /\ L!sign_extend(a) = sign_extend(a) /\ L!UpperBits(a) = UpperBits(a)
            /\ L!operand_low_value(a) = operand_low_value(a)
BY DEF HalfRange, L!HalfRange, Word, L!Word, AddW, L!AddW, SubW, L!SubW, Wrap, L!Wrap,
       sign_extend, L!sign_extend, UpperBits, L!UpperBits,
       operand_low_value, L!operand_low_value

LEMMA LKinds ==
  /\ L!Instruction = Instruction
  /\ L!ABSOLUTE = ABSOLUTE /\ L!RELATIVE = RELATIVE /\ L!UPPER = UPPER
  /\ \A i : (L!IsStart(i) <=> IsStart(i)) /\ (L!IsStop(i) <=> IsStop(i))
BY DEF Instruction, L!Instruction, KNOWN_INSTRUCTIONS, L!KNOWN_INSTRUCTIONS,
       ABSOLUTE, L!ABSOLUTE, RELATIVE, L!RELATIVE, UPPER, L!UPPER,
       IsStart, L!IsStart, IsStop, L!IsStop

LEMMA LEval ==
  ASSUME NEW operand
  PROVE  /\ L!RestrictEvaluates(operand) <=> RestrictEvaluates(operand)
         /\ \A table : L!Evaluates(operand, table) <=> Evaluates(operand, table)
         /\ \A position, table : L!eval(operand, position, table) = eval(operand, position, table)
         /\ L!restrict_eval(operand) = restrict_eval(operand)
<1>1. L!Primitives(operand) = Primitives(operand)
  BY DEF Primitives, L!Primitives
<1>2. \A position, table : \A primitive :
        L!eval_primitive(primitive, position, table) = eval_primitive(primitive, position, table)
  BY LWords DEF eval_primitive, L!eval_primitive
<1>3. \A position, table : L!eval(operand, position, table) = eval(operand, position, table)
  BY <1>2, LWords DEF eval, L!eval
<1> QED BY <1>1, <1>3 DEF RestrictEvaluates, L!RestrictEvaluates, Evaluates, L!Evaluates,
                          restrict_eval, L!restrict_eval

LEMMA LLines ==
  /\ \A l : /\ L!NamesSymbol(l) <=> NamesSymbol(l)
            /\ L!TakesMemory(l) <=> TakesMemory(l)
            /\ L!Names(l) = Names(l) /\ L!Size(l) = Size(l)
            /\ L!FixedOperands(l) = FixedOperands(l)
            /\ L!OpenOperands(l) = OpenOperands(l)
  /\ L!LineIds = LineIds
  /\ \A id : L!LineOf(id) = LineAt(id)
<1>1. \A l : L!NamesSymbol(l) <=> NamesSymbol(l)
  BY DEF NamesSymbol, L!NamesSymbol
<1>2. \A l : L!Size(l) = Size(l)
  BY LEval DEF Size, L!Size
<1>3. \A l : L!FixedOperands(l) = FixedOperands(l) /\ L!OpenOperands(l) = OpenOperands(l)
  BY <1>1 DEF FixedOperands, L!FixedOperands, OpenOperands, L!OpenOperands, Range, L!Range
<1>4. L!LineIds = LineIds /\ \A id : L!LineOf(id) = LineAt(id)
  BY DEF LineIds, L!LineIds, LineAt, L!LineOf
<1> QED BY <1>1, <1>2, <1>3, <1>4 DEF TakesMemory, L!TakesMemory, Names, L!Names

(* What the loader sees of the assembler. *)
place   == [ id \in PlacedLines |-> base_of[id] ]
outcome == CASE exception # "none" -> [status |-> "refused"]
             [] pass = "done"      -> [status |-> "loaded", image |-> Image]
             [] OTHER              -> [status |-> "working"]

MemoryLines == { id \in LineIds : TakesMemory(LineAt(id)) }

(* The lines that take memory, and their sizes.                            *)
LEMMA MemoryKinds ==
  ASSUME AInv, NEW id \in LineIds, TakesMemory(LineAt(id))
  PROVE  /\ LineAt(id).variant \in {"LINE_WORDS", "LINE_SET", "LINE_RESERVED"}
         /\ LineAt(id).variant \in {"LINE_WORDS", "LINE_SET"} <=> id[1] = "data"
         /\ LineAt(id).variant = "LINE_RESERVED" <=> id[1] = "bss"
         /\ id[1] \in {"data", "bss"}
BY IdKinds, Variants DEF AInv, Positioned, TakesMemory

LEMMA PlacedSizes ==
  ASSUME AInv, NEW id \in PlacedLines
  PROVE  /\ id \in LineIds /\ TakesMemory(LineAt(id)) /\ LaidOut(id)
         /\ base_of[id] \in Word /\ base_of[id] \in Int
         /\ Size(LineAt(id)) \in Nat
<1>1. /\ id \in LineIds /\ TakesMemory(LineAt(id)) /\ LaidOut(id) /\ base_of[id] \in Word
      /\ id \in DOMAIN base_of
  BY DEF PlacedLines, AInv, Placed
<1>2. CASE LineAt(id).variant = "LINE_SET"
  BY <1>1, <1>2, WordInt DEF Size
<1>3. CASE LineAt(id).variant # "LINE_SET"
  <2>1. id \in Allocated
    BY <1>1, <1>3, MemoryKinds DEF Allocated
  <2> QED BY <1>1, <2>1, WordInt DEF AInv, Placed
<1> QED BY <1>2, <1>3

LEMMA LPlaces ==
  /\ L!MemoryLines = MemoryLines
  /\ L!vars = <<program, place, outcome>>
  /\ AInv => \A id \in PlacedLines : L!Cells(id) = CellsOf(id)
<1>1. L!MemoryLines = MemoryLines
  BY LLines DEF MemoryLines, L!MemoryLines
<1>2. L!vars = <<program, place, outcome>>
  BY DEF L!vars, place, PlacedLines, outcome
<1>3. ASSUME AInv, NEW id \in PlacedLines
      PROVE  L!Cells(id) = CellsOf(id)
  <2>1. L!Cells(id) = L!Range0(place[id], Size(LineAt(id)))
    BY LLines DEF L!Cells, place, PlacedLines
  <2>2. place[id] = base_of[id]
    BY <1>3 DEF place
  <2>3. base_of[id] \in Int /\ Size(LineAt(id)) \in Int
    BY <1>3, PlacedSizes
  <2> QED BY <2>1, <2>2, <2>3 DEF L!Range0, CellsOf, EndOf
<1> QED BY <1>1, <1>2, <1>3

LEMMA LClaims ==
  ASSUME AInv, NEW id, NEW address \in Word,
         L!Working = outcome, id \in MemoryLines \ PlacedLines,
         \A operand \in FixedOperands(LineAt(id)) : RestrictEvaluates(operand),
         LineAt(id).variant = "LINE_SET" => address = restrict_eval(LineAt(id).memoryAddress),
         \A other \in PlacedLines :
           (address .. (address + Size(LineAt(id)) - 1)) \cap CellsOf(other) = {},
         place' = With(place, id, address), UNCHANGED <<program, outcome>>
  PROVE  L!Claim(id)
<1>1. DOMAIN place = PlacedLines
  BY DEF place
<1>2. \A f, x, v : L!With(f, x, v) = With(f, x, v)
  BY DEF With, L!With
<1>3. L!Range0(address, L!Size(L!LineOf(id))) = address .. (address + Size(LineAt(id)) - 1)
  BY LLines DEF L!Range0
<1>4. \A other \in DOMAIN place : L!Range0(address, L!Size(L!LineOf(id))) \cap L!Cells(other) = {}
  BY <1>1, <1>3, LPlaces
<1> QED BY <1>1, <1>2, <1>4, LWords, LEval, LLines, LPlaces
       DEF L!Claim, place, PlacedLines, outcome

-----------------------------------------------------------------------------
(* The defects of a program, one by one. *)
NameRepeated ==
  \E id, other \in LineIds : \E i \in DOMAIN NamesOf(id), j \in DOMAIN NamesOf(other) :
    (id # other \/ i # j) /\ NamesOf(id)[i] = NamesOf(other)[j]

FixedOperandOpen ==
  \E id \in LineIds : \E operand \in FixedOperands(LineAt(id)) : ~RestrictEvaluates(operand)

AllNames == UNION { Range(NamesOf(id)) : id \in LineIds }

NameUndefined ==
  \E id \in LineIds : \E operand \in OpenOperands(LineAt(id)) :
    ~Evaluates(operand, [name \in AllNames |-> 0])

AddressRepeated ==
  \E i, j \in DOMAIN program.data :
    /\ i # j
    /\ program.data[i].variant = "LINE_SET" /\ program.data[j].variant = "LINE_SET"
    /\ TakesMemory(program.data[i]) /\ TakesMemory(program.data[j])
    /\ restrict_eval(program.data[i].memoryAddress) = restrict_eval(program.data[j].memoryAddress)

SizeNegative == \E id \in LineIds : Size(LineAt(id)) < 0

Starts == { i \in DOMAIN program.code : IsStart(program.code[i]) }
Stops  == { i \in DOMAIN program.code : IsStop(program.code[i]) }

LEMMA LNames ==
  /\ \A id \in LineIds : \A i \in DOMAIN NamesOf(id) :
       <<id, i>> \in L!NamesAt /\ L!NameOf(<<id, i>>) = NamesOf(id)[i]
  /\ \A n \in L!NamesAt : \E id \in LineIds : \E i \in DOMAIN NamesOf(id) : n = <<id, i>>
  /\ L!AllNames = AllNames
<1>1. L!NamesAt = UNION { {id} \X DOMAIN NamesOf(id) : id \in LineIds }
  BY LLines DEF L!NamesAt, NamesOf
<1>2. \A n : L!NameOf(n) = NamesOf(n[1])[n[2]]
  BY LLines DEF L!NameOf, NamesOf
<1>3. \A id \in LineIds : \A i \in DOMAIN NamesOf(id) :
        <<id, i>> \in L!NamesAt /\ L!NameOf(<<id, i>>) = NamesOf(id)[i]
  BY <1>1, <1>2
<1>4. \A n \in L!NamesAt : \E id \in LineIds : \E i \in DOMAIN NamesOf(id) : n = <<id, i>>
  BY <1>1
<1>5. L!AllNames = { L!NameOf(n) : n \in L!NamesAt }
  BY DEF L!AllNames
<1>6. \A name : name \in L!AllNames => name \in AllNames
  BY <1>3, <1>4, <1>5 DEF AllNames, Range
<1>7. ASSUME NEW name \in AllNames
      PROVE  name \in L!AllNames
  <2>1. PICK id \in LineIds : name \in Range(NamesOf(id))
    BY DEF AllNames
  <2>2. PICK i \in DOMAIN NamesOf(id) : name = NamesOf(id)[i]
    BY <2>1 DEF Range
  <2> QED BY <1>3, <1>5, <2>2
<1> QED BY <1>3, <1>4, <1>6, <1>7

LEMMA LDefects ==
  L!Defective <=> \/ NameRepeated \/ FixedOperandOpen \/ NameUndefined
                  \/ AddressRepeated \/ SizeNegative
                  \/ \A i \in DOMAIN program.code : Starts # {i}
                  \/ \A i \in DOMAIN program.code : Stops # {i}
<1>1. (\E m, n \in L!NamesAt : m # n /\ L!NameOf(m) = L!NameOf(n)) <=> NameRepeated
  <2>1. ASSUME NEW m \in L!NamesAt, NEW n \in L!NamesAt, m # n, L!NameOf(m) = L!NameOf(n)
        PROVE  NameRepeated
    <3>1. PICK id \in LineIds : \E i \in DOMAIN NamesOf(id) : m = <<id, i>>
      BY LNames
    <3>2. PICK i \in DOMAIN NamesOf(id) : m = <<id, i>>
      BY <3>1
    <3>3. PICK other \in LineIds : \E j \in DOMAIN NamesOf(other) : n = <<other, j>>
      BY LNames
    <3>4. PICK j \in DOMAIN NamesOf(other) : n = <<other, j>>
      BY <3>3
    <3>5. id # other \/ i # j
      BY <2>1, <3>2, <3>4
    <3>6. NamesOf(id)[i] = NamesOf(other)[j]
      BY <2>1, <3>2, <3>4, LNames
    <3> QED BY <3>5, <3>6 DEF NameRepeated
  <2>2. ASSUME NameRepeated
        PROVE  \E m, n \in L!NamesAt : m # n /\ L!NameOf(m) = L!NameOf(n)
    <3>1. PICK id \in LineIds, other \in LineIds :
            \E i \in DOMAIN NamesOf(id), j \in DOMAIN NamesOf(other) :
              (id # other \/ i # j) /\ NamesOf(id)[i] = NamesOf(other)[j]
      BY <2>2 DEF NameRepeated
    <3>2. PICK i \in DOMAIN NamesOf(id), j \in DOMAIN NamesOf(other) :
            (id # other \/ i # j) /\ NamesOf(id)[i] = NamesOf(other)[j]
      BY <3>1
    <3>3. <<id, i>> # <<other, j>>
      BY <3>2
    <3> QED BY <3>2, <3>3, LNames
  <2> QED BY <2>1, <2>2
<1>2. (\E id \in L!LineIds :
         \/ \E operand \in L!FixedOperands(L!LineOf(id)) : ~L!RestrictEvaluates(operand)
         \/ \E operand \in L!OpenOperands(L!LineOf(id)) :
              ~L!Evaluates(operand, [name \in L!AllNames |-> 0]))
      <=> FixedOperandOpen \/ NameUndefined
  BY LNames, LLines, LEval DEF FixedOperandOpen, NameUndefined
<1>3. (\E i, j \in DOMAIN program.data :
         LET a == program.data[i]
             b == program.data[j]
         IN  /\ i # j /\ a.variant = "LINE_SET" /\ b.variant = "LINE_SET"
             /\ L!TakesMemory(a) /\ L!TakesMemory(b)
             /\ L!restrict_eval(a.memoryAddress) = L!restrict_eval(b.memoryAddress))
      <=> AddressRepeated
  BY LLines, LEval DEF AddressRepeated
<1>4. (\E id \in L!LineIds : L!Size(L!LineOf(id)) < 0) <=> SizeNegative
  BY LLines DEF SizeNegative
<1>5. (\A i \in DOMAIN program.code : L!Positions(L!IsStart) # {i})
      <=> \A i \in DOMAIN program.code : Starts # {i}
  BY LKinds DEF L!Positions, Starts
<1>6. (\A i \in DOMAIN program.code : L!Positions(L!IsStop) # {i})
      <=> \A i \in DOMAIN program.code : Stops # {i}
  BY LKinds DEF L!Positions, Stops
<1> QED BY <1>1, <1>2, <1>3, <1>4, <1>5, <1>6 DEF L!Defective

-----------------------------------------------------------------------------
(* The steps of the assembler as the loader sees them. *)
LEMMA LStutters ==
  ASSUME UNCHANGED <<program, place, outcome>>
  PROVE  UNCHANGED L!vars
BY DEF L!vars, place, PlacedLines, outcome

LEMMA LWorking ==
  ASSUME Working
  PROVE  /\ outcome = L!Working
         /\ exception' = exception /\ pass' # "done" => outcome' = outcome
BY DEF outcome, L!Working, Working

(* Nothing is placed and nothing is decided. *)
LEMMA LIdles ==
  ASSUME Working, UNCHANGED <<program, base_of, exception>>, pass' # "done"
  PROVE  UNCHANGED L!vars
<1>1. place' = place
  BY SamePlaces DEF place
<1> QED BY <1>1, LWorking, LStutters

LEMMA LRefuses ==
  ASSUME Working, NEW e \in Exceptions, Throw(e), L!Defective \/ L!NoRoom
  PROVE  L!Next
<1>1. outcome' = L!Refused /\ UNCHANGED program
  <2>1. exception' = e /\ e # "none" /\ pass' # "done" /\ UNCHANGED program
    BY DEF Throw, Exceptions, Working
  <2>2. exception' # "none" /\ pass' # "done" => outcome' = L!Refused
    BY DEF outcome, L!Refused
  <2> QED BY <2>1, <2>2
<1>2. place' = place
  BY SamePlaces DEF Throw, layoutVars, place
<1>3. outcome = L!Working
  BY LWorking
<1>4. L!Refuse
  BY <1>1, <1>2, <1>3 DEF L!Refuse, place, PlacedLines, outcome
<1> QED BY <1>4 DEF L!Next

LEMMA LSkips ==
  ASSUME AInv, NEW passes, At(passes), pass # "done", Lays, Proceed,
         ~TakesMemory(Current),
         NEW names, NEW address \in Int, Size(Current) \in Int, enter_symbols(names, address)
  PROVE  UNCHANGED L!vars
<1> PICK here : here = Id
  OBVIOUS
<1>1. /\ PlacedLines' = PlacedLines
      /\ \A id \in PlacedLines : base_of'[id] = base_of[id]
  BY Entered, EnteredCells DEF PlacedLines
<1>2. place' = place
  BY <1>1 DEF place
<1>3. Working /\ UNCHANGED <<program, pass, exception>>
  BY DEF At, Proceed, Working
<1> QED BY <1>2, <1>3, LWorking, LStutters DEF Working

LEMMA LPlacesLine ==
  ASSUME AInv, LInv, NEW passes, At(passes), pass # "done", Lays, Proceed,
         TakesMemory(Current),
         NEW names, NEW address \in Word, address \in Int, Size(Current) \in Int,
         enter_symbols(names, address),
         \A operand \in FixedOperands(Current) : RestrictEvaluates(operand),
         Current.variant = "LINE_SET" => address = restrict_eval(Current.memoryAddress),
         (address .. (address + Size(Current) - 1)) \cap DOMAIN memory_layout = {}
  PROVE  L!Next
<1> PICK here : here = Id
  OBVIOUS
<1>1. /\ PlacedLines' = PlacedLines \cup {here}
      /\ \A id \in PlacedLines : base_of'[id] = base_of[id]
      /\ base_of'[here] = address /\ LineAt(here) = Current /\ here \notin PlacedLines
  BY Entered, EnteredCells DEF PlacedLines
<1>2. place' = With(place, here, address)
  <2>1. place' = [id \in PlacedLines' |-> base_of'[id]]
    BY DEF place
  <2>2. With(place, here, address) =
          [id \in PlacedLines \cup {here} |-> IF id = here THEN address ELSE place[id]]
    BY DEF With, place
  <2>3. \A id \in PlacedLines : place[id] = base_of[id]
    BY DEF place
  <2> QED BY <1>1, <2>1, <2>2, <2>3
<1>3. Working /\ UNCHANGED <<program, pass, exception>>
  BY DEF At, Proceed, Working
<1>4. outcome = L!Working /\ UNCHANGED outcome
  BY <1>3, LWorking DEF Working
<1>5. here \in MemoryLines \ PlacedLines
  BY <1>1, Here DEF AInv, MemoryLines
<1>6. \A other \in PlacedLines :
        (address .. (address + Size(LineAt(here)) - 1)) \cap CellsOf(other) = {}
  BY <1>1 DEF LInv, Apart
<1>7. L!Claim(here)
  BY <1>1, <1>2, <1>3, <1>4, <1>5, <1>6, LClaims
<1> QED BY <1>5, <1>7, LPlaces DEF L!Next

-----------------------------------------------------------------------------
(* Whatever is refused has a defect, or does not fit. *)
LEMMA FixedDefect ==
  ASSUME NEW id \in LineIds, NEW operand \in FixedOperands(LineAt(id)),
         ~RestrictEvaluates(operand)
  PROVE  L!Defective
BY LDefects DEF FixedOperandOpen

LEMMA NameDefect ==
  ASSUME AInv, LInv, NEW id \in LineIds, id \notin DOMAIN base_of, ~Fresh(NamesOf(id))
  PROVE  L!Defective
<1>1. CASE ~IsInjective(NamesOf(id))
  <2>1. \E i, j \in DOMAIN NamesOf(id) : i # j /\ NamesOf(id)[i] = NamesOf(id)[j]
    BY <1>1 DEF IsInjective
  <2> QED BY <2>1, LDefects DEF NameRepeated
<1>2. CASE Range(NamesOf(id)) \cap DOMAIN symbol_table # {}
  <2>1. PICK name : name \in Range(NamesOf(id)) /\ name \in DOMAIN symbol_table
    BY <1>2
  <2>2. PICK i \in DOMAIN NamesOf(id) : name = NamesOf(id)[i]
    BY <2>1 DEF Range
  <2>3. PICK other \in DOMAIN base_of : name \in Range(NamesOf(other))
    BY <2>1 DEF LInv, Named
  <2>4. PICK j \in DOMAIN NamesOf(other) : name = NamesOf(other)[j]
    BY <2>3 DEF Range
  <2>5. other \in LineIds /\ id # other
    BY <2>3 DEF AInv, Placed
  <2>6. NameRepeated
    BY <2>2, <2>4, <2>5 DEF NameRepeated
  <2> QED BY <2>6, LDefects
<1> QED BY <1>1, <1>2 DEF Fresh

(* All names are defined when the operands are evaluated. *)
LEMMA AllNamed ==
  ASSUME AInv, LInv, LaidOutAll
  PROVE  DOMAIN symbol_table = AllNames
BY AllPlaced DEF LInv, Named, AllNames

LEMMA OpenDefect ==
  ASSUME AInv, LInv, LaidOutAll, NEW id \in LineIds,
         NEW operand \in OpenOperands(LineAt(id)), ~Evaluates(operand, symbol_table)
  PROVE  L!Defective
<1>1. ~Evaluates(operand, [name \in AllNames |-> 0])
  BY AllNamed DEF Evaluates
<1>2. NameUndefined
  BY <1>1 DEF NameUndefined
<1> QED BY <1>2, LDefects

LEMMA AddressDefect ==
  ASSUME AInv, LInv, At({"layout_fixed"}), Current.variant = "LINE_SET", TakesMemory(Current),
         restrict_eval(Current.memoryAddress) \in DOMAIN memory_layout
  PROVE  L!Defective
<1>1. /\ Positioned /\ pass = "layout_fixed" /\ line \in DOMAIN program.data
      /\ Current = program.data[line] /\ line \in Nat
  BY DEF AInv, At, Current, LineAt, Id, SectionOf, Positioned
<1>2. PICK id \in PlacedLines : restrict_eval(Current.memoryAddress) \in CellsOf(id)
  BY DEF LInv, Apart
<1>3. /\ id \in LineIds /\ LineAt(id).variant = "LINE_SET" /\ TakesMemory(LineAt(id))
      /\ id[1] = "data" /\ id[2] < line /\ base_of[id] \in Int
  BY <1>1, PlacedSizes DEF LaidOut
<1>4. id[2] \in DOMAIN program.data /\ id[2] # line /\ LineAt(id) = program.data[id[2]]
  <2>1. id[2] \in DOMAIN program[id[1]] /\ id[2] \in Nat
    BY <1>1, <1>3, IdKinds DEF Positioned
  <2> QED BY <1>1, <1>3, <2>1 DEF LineAt
<1>5. restrict_eval(Current.memoryAddress) = base_of[id]
  BY <1>2, <1>3 DEF CellsOf, EndOf, Size
<1>6. base_of[id] = restrict_eval(LineAt(id).memoryAddress)
  BY <1>3 DEF LInv, Valued, PlacedLines
<1>7. AddressRepeated
  BY <1>1, <1>3, <1>4, <1>5, <1>6 DEF AddressRepeated
<1> QED BY <1>7, LDefects

LEMMA RoomDefect ==
  ASSUME AInv, LInv, Laying, NEW id \in MemoryLines, id \notin PlacedLines,
         Size(LineAt(id)) \in Word,
         ~(Size(LineAt(id)) >= 0 /\ AddW(base_address, Size(LineAt(id))) >= 0)
  PROVE  L!Defective \/ L!NoRoom
<1> DEFINE size == Size(LineAt(id))
<1>1. size \in Int /\ base_address \in 0 .. (HalfRange - 1) /\ id \in LineIds
  BY WordInt DEF AInv, Tabled, MemoryLines
<1>2. CASE size < 0
  BY <1>1, <1>2, LDefects DEF SizeNegative
<1>3. CASE size >= 0
  <2> HIDE DEF size
  <2>1. AddW(base_address, size) < 0
    <3>1. AddW(base_address, size) \in Int
      BY <1>1, HalfRangeNat DEF AddW, Wrap
    <3> QED BY <1>3, <3>1 DEF size
  <2>2. base_address + size >= HalfRange
    BY <1>1, <1>3, <2>1, HalfRangeNat DEF AddW, Wrap
  <2>3. base_address \in {0} \cup { EndOf(other) : other \in PlacedLines }
    BY DEF LInv, Behind
  <2>4. { EndOf(other) : other \in PlacedLines } =
          { place[other] + L!Size(L!LineOf(other)) : other \in DOMAIN place }
    BY LLines DEF EndOf, place
  <2>5. id \in L!MemoryLines \ DOMAIN place /\ L!Size(L!LineOf(id)) = size
    BY LPlaces, LLines DEF place, size
  <2>6. \E end \in {0} \cup { place[other] + L!Size(L!LineOf(other)) : other \in DOMAIN place } :
          end + L!Size(L!LineOf(id)) >= L!HalfRange
    BY <2>2, <2>3, <2>4, <2>5, LWords
  <2>7. L!NoRoom
    BY <2>5, <2>6 DEF L!NoRoom, place, PlacedLines
  <2> QED BY <2>7
<1> QED BY <1>1, <1>2, <1>3

-----------------------------------------------------------------------------
(* The passes that lay the sections out. *)
LEMMA HereLaid ==
  ASSUME AInv, NEW passes, At(passes), pass # "done", Lays
  PROVE  /\ Working /\ Id \in LineIds /\ Id \notin DOMAIN base_of /\ LineAt(Id) = Current
         /\ NamesOf(Id) = Names(Current)
BY Here, NotYet DEF AInv, Placed, Current, Working, At, NamesOf

LEMMA FixAddressImplements ==
  ASSUME AInv, LInv, FixAddress
  PROVE  L!Next
<1> DEFINE l == Current
           address == restrict_eval(l.memoryAddress)
<1>1. /\ Positioned /\ At({"layout_fixed"}) /\ pass = "layout_fixed" /\ pass # "done"
      /\ l.variant = "LINE_SET" /\ TakesMemory(l) /\ Lays
  BY DEF AInv, FixAddress, At, Lays
<1>2. /\ Working /\ Id \in LineIds /\ Id \notin DOMAIN base_of /\ LineAt(Id) = l
      /\ NamesOf(Id) = l.labels /\ FixedOperands(l) = {l.memoryAddress} /\ Size(l) = 1
  BY <1>1, HereLaid DEF TakesMemory, Names, FixedOperands, Size
<1>3. CASE ~RestrictEvaluates(l.memoryAddress) /\ Throw("invalid_operand")
  BY <1>2, <1>3, FixedDefect, LRefuses DEF Exceptions
<1>4. CASE address \in DOMAIN memory_layout /\ Throw("set_address_clash")
  BY <1>1, <1>2, <1>4, AddressDefect, LRefuses DEF Exceptions
<1>5. CASE ~Fresh(l.labels) /\ Throw("symbol_redefinition_error")
  BY <1>2, <1>5, NameDefect, LRefuses DEF Exceptions
<1>6. CASE /\ RestrictEvaluates(l.memoryAddress) /\ address \notin DOMAIN memory_layout
           /\ enter_symbols(l.labels, address) /\ Proceed
  <2>1. l \in DataLines
    BY <1>1, Here DEF SectionOf
  <2>2. address \in Word /\ address \in Int
    BY <1>1, <1>6, <2>1, SetLines, RestrictWord, WordInt
  <2>3. (address .. (address + Size(l) - 1)) \cap DOMAIN memory_layout = {}
    BY <1>2, <1>6, <2>2
  <2>4. \A operand \in FixedOperands(l) : RestrictEvaluates(operand)
    BY <1>2, <1>6
  <2>5. Size(Current) \in Int
    BY <1>2
  <2> HIDE DEF address
  <2> QED BY <1>1, <1>6, <2>2, <2>3, <2>4, <2>5, LPlacesLine DEF address
<1> QED BY <1>1, <1>3, <1>4, <1>5, <1>6 DEF FixAddress, Check

LEMMA FixSymbolImplements ==
  ASSUME AInv, LInv, FixSymbol
  PROVE  [L!Next]_(L!vars)
<1> DEFINE l == Current
           value == restrict_eval(l.value)
<1>1. /\ Positioned /\ At({"layout_fixed"}) /\ pass = "layout_fixed" /\ pass # "done"
      /\ l.variant = "LINE_SET" /\ NamesSymbol(l) /\ ~TakesMemory(l) /\ Lays
  BY DEF AInv, FixSymbol, At, Lays, NamesSymbol, TakesMemory
<1>2. /\ Working /\ Id \in LineIds /\ Id \notin DOMAIN base_of /\ LineAt(Id) = l
      /\ NamesOf(Id) = Names(l) /\ FixedOperands(l) = {l.value}
  BY <1>1, HereLaid DEF FixedOperands
<1>3. CASE ~RestrictEvaluates(l.value) /\ Throw("invalid_operand")
  BY <1>2, <1>3, FixedDefect, LRefuses DEF Exceptions
<1>4. CASE ~Fresh(Names(l)) /\ Throw("symbol_redefinition_error")
  BY <1>2, <1>4, NameDefect, LRefuses DEF Exceptions
<1>5. CASE RestrictEvaluates(l.value) /\ enter_symbols(Names(l), value) /\ Proceed
  <2>1. l \in DataLines
    BY <1>1, Here DEF SectionOf
  <2>2. value \in Int /\ Size(Current) \in Int
    BY <1>1, <1>5, <2>1, SetLines, RestrictWord, WordInt DEF Size
  <2> HIDE DEF value
  <2> QED BY <1>1, <1>5, <2>2, LSkips
<1> QED BY <1>1, <1>3, <1>4, <1>5 DEF FixSymbol, Check

LEMMA LayoutMemoryImplements ==
  ASSUME AInv, LInv, LayoutMemory
  PROVE  [L!Next]_(L!vars)
<1> DEFINE size == Size(Current)
           range == base_address .. (base_address + size - 1)
           colliding == range \cap DOMAIN memory_layout
<1>1. /\ Positioned /\ At({"layout_data", "layout_bss"}) /\ pass # "done" /\ Laying
      /\ pass \in {"layout_data", "layout_bss"}
      /\ Current.variant \in {"LINE_WORDS", "LINE_RESERVED"}
  BY DEF AInv, LayoutMemory, At, Laying
<1>2. Lays
  <2>1. /\ pass = "layout_data" => Current \in DataLines
        /\ pass = "layout_bss" => Current \in BssLines
    BY <1>1, Here DEF SectionOf
  <2> QED BY <1>1, <2>1, Variants DEF Lays
<1>3. /\ Working /\ Id \in LineIds /\ Id \notin DOMAIN base_of /\ LineAt(Id) = Current
      /\ NamesOf(Id) = Current.labels /\ TakesMemory(Current) /\ Current.variant # "LINE_SET"
  BY <1>1, <1>2, HereLaid DEF TakesMemory, NamesSymbol, Names
<1>4. Id \in MemoryLines /\ Id \notin PlacedLines
  BY <1>3 DEF MemoryLines, PlacedLines
<1>5. CASE /\ \E operand \in FixedOperands(Current) : ~RestrictEvaluates(operand)
           /\ Throw("invalid_operand")
  BY <1>3, <1>5, FixedDefect, LRefuses DEF Exceptions
<1>6. CASE /\ \A operand \in FixedOperands(Current) : RestrictEvaluates(operand)
           /\ allocate_range(size)
  <2>1. size \in Word /\ size \in Int
    BY <1>1, <1>6, BlockSize, WordInt
  <2>2. CASE /\ ~(size >= 0 /\ AddW(base_address, size) >= 0)
             /\ Throw("out_of_range")
    <3> QED BY <1>1, <1>3, <1>4, <2>1, <2>2, RoomDefect, LRefuses DEF Exceptions
  <2>3. CASE Collide(colliding)
    <3>1. UNCHANGED <<program, base_of, exception, pass>>
      BY <2>3 DEF Collide
    <3> QED BY <1>1, <1>3, <3>1, LIdles
  <2>4. CASE ~Fresh(Current.labels) /\ Throw("symbol_redefinition_error")
    BY <1>3, <2>4, NameDefect, LRefuses DEF Exceptions
  <2>5. CASE colliding = {} /\ Reserve(range, size)
    <3>1. base_address \in Word /\ base_address \in Int
      BY HalfRangeNat DEF AInv, Tabled, Word
    <3>2. enter_symbols(Current.labels, base_address) /\ Proceed
      BY <2>5 DEF Reserve
    <3>3. (base_address .. (base_address + Size(Current) - 1)) \cap DOMAIN memory_layout = {}
      BY <2>5
    <3> QED BY <1>1, <1>2, <1>3, <1>6, <2>1, <3>1, <3>2, <3>3, LPlacesLine
  <2> QED
    <3> HIDE DEF colliding, range, size
    <3> QED BY <1>6, <2>2, <2>3, <2>4, <2>5 DEF allocate_range, Check, colliding, range
<1> QED BY <1>5, <1>6 DEF LayoutMemory, Check

LEMMA LayoutInstructionImplements ==
  ASSUME AInv, LInv, LayoutInstruction
  PROVE  [L!Next]_(L!vars)
<1>1. /\ Positioned /\ At({"layout_code"}) /\ pass = "layout_code" /\ pass # "done" /\ Lays
  BY DEF AInv, LayoutInstruction, At, Lays
<1>2. Current.variant = "LINE_INSTRUCTION"
  BY <1>1, Here, Variants DEF SectionOf
<1>3. /\ Working /\ Id \in LineIds /\ Id \notin DOMAIN base_of /\ LineAt(Id) = Current
      /\ NamesOf(Id) = Current.labels /\ ~TakesMemory(Current) /\ Size(Current) \in Int
  BY <1>1, <1>2, HereLaid DEF TakesMemory, NamesSymbol, Names, Size
<1>4. CASE ~Fresh(Current.labels) /\ Throw("symbol_redefinition_error")
  BY <1>3, <1>4, NameDefect, LRefuses DEF Exceptions
<1>5. CASE enter_symbols(Current.labels, base_address) /\ Proceed
  <2>1. base_address \in Int
    BY HalfRangeNat DEF AInv, Tabled
  <2> QED BY <1>1, <1>3, <1>5, <2>1, LSkips
<1> QED BY <1>4, <1>5 DEF LayoutInstruction, Check

-----------------------------------------------------------------------------
(* The passes that build the memory. *)
LEMMA BuildWordsImplements ==
  ASSUME AInv, LInv, BuildWords
  PROVE  [L!Next]_(L!vars)
<1>1. /\ Positioned /\ At({"build_data"}) /\ pass = "build_data" /\ pass # "done"
      /\ Current.variant = "LINE_WORDS" /\ LaidOutAll
  BY DEF AInv, BuildWords, At, LaidOutAll
<1>2. /\ Working /\ Id \in LineIds /\ LineAt(Id) = Current
      /\ OpenOperands(Current) = Range(Current.data)
  BY <1>1, Here DEF Current, Working, At, OpenOperands
<1>3. CASE /\ \E operand \in Range(Current.data) : ~Evaluates(operand, symbol_table)
           /\ Throw("invalid_operand")
  BY <1>1, <1>2, <1>3, OpenDefect, LRefuses DEF Exceptions
<1>4. CASE UNCHANGED <<program, pass, exception, base_of>>
  BY <1>1, <1>2, <1>4, LIdles
<1> QED BY <1>3, <1>4 DEF BuildWords, Check, Write, Proceed

LEMMA BuildSetImplements ==
  ASSUME AInv, LInv, BuildSet
  PROVE  [L!Next]_(L!vars)
<1>1. /\ Positioned /\ At({"build_data"}) /\ pass = "build_data" /\ pass # "done"
      /\ Current.variant = "LINE_SET" /\ TakesMemory(Current) /\ LaidOutAll
  BY DEF AInv, BuildSet, At, LaidOutAll
<1>2. /\ Working /\ Id \in LineIds /\ LineAt(Id) = Current
      /\ OpenOperands(Current) = {Current.value}
  BY <1>1, Here DEF Current, Working, At, OpenOperands, TakesMemory
<1>3. CASE ~Evaluates(Current.value, symbol_table) /\ Throw("invalid_operand")
  BY <1>1, <1>2, <1>3, OpenDefect, LRefuses DEF Exceptions
<1>4. CASE UNCHANGED <<program, pass, exception, base_of>>
  BY <1>1, <1>2, <1>4, LIdles
<1> QED BY <1>3, <1>4 DEF BuildSet, Check, Write, Proceed

(* Two lines of a kind, or none, are a defect. *)
LEMMA StartDefect ==
  /\ \A i, j \in Starts : i # j => L!Defective
  /\ \A i, j \in Stops : i # j => L!Defective
  /\ Starts = {} \/ Stops = {} => L!Defective
<1>1. ASSUME NEW i \in Starts, NEW j \in Starts, i # j PROVE L!Defective
  BY <1>1, LDefects
<1>2. ASSUME NEW i \in Stops, NEW j \in Stops, i # j PROVE L!Defective
  BY <1>2, LDefects
<1>3. ASSUME Starts = {} \/ Stops = {} PROVE L!Defective
  BY <1>3, LDefects
<1> QED BY <1>1, <1>2, <1>3

(* What is translated has the kinds of the lines it is translated from.    *)
LEMMA CodeKinds ==
  ASSUME AInv, LInv
  PROVE  /\ DOMAIN code \subseteq DOMAIN program.code
         /\ \A i \in DOMAIN code : /\ IsStart(code[i]) <=> IsStart(program.code[i])
                                   /\ IsStop(code[i]) <=> IsStop(program.code[i])
<1>1. DOMAIN code = 1 .. Len(code) /\ DOMAIN program.code = 1 .. Len(program.code)
      /\ Len(code) \in Nat /\ Len(program.code) \in Nat
  BY LineKinds DEF AInv, Coded, Positioned
<1>2. Len(code) <= Len(program.code)
  <2>1. CASE pass = "translate_program"
    <3>1. line <= Len(program.code) + 1 /\ line \in Nat
      BY <2>1 DEF AInv, Positioned, SectionOf
    <3> QED BY <1>1, <2>1, <3>1 DEF AInv, Coded
  <2> QED BY <1>1, <2>1 DEF AInv, Coded
<1>3. DOMAIN code \subseteq DOMAIN program.code
  BY <1>1, <1>2
<1>4. \A i \in DOMAIN code : code[i].op = program.code[i].op /\ code[i].back = program.code[i].back
  BY DEF LInv, Translated, encode
<1> QED BY <1>3, <1>4 DEF IsStart, IsStop

LEMMA TranslateImplements ==
  ASSUME AInv, LInv, Translate
  PROVE  [L!Next]_(L!vars)
<1>1. /\ Positioned /\ At({"translate_program"}) /\ pass = "translate_program"
      /\ pass # "done" /\ LaidOutAll
  BY DEF AInv, Translate, At, LaidOutAll
<1>2. /\ Working /\ Id \in LineIds /\ LineAt(Id) = Current /\ Current \in CodeLines
      /\ Current = program.code[line] /\ line \in DOMAIN program.code
  BY <1>1, Here DEF Current, LineAt, Id, Working, At, SectionOf
<1>3. OpenOperands(Current) = {Current.operand}
  BY <1>2, Variants DEF OpenOperands
<1>4. CASE /\ (IsStart(Current) /\ Contains(IsStart)) \/ (IsStop(Current) /\ Contains(IsStop))
           /\ Throw("start_stop_presence")
  <2>1. line \notin DOMAIN code
    BY <1>1 DEF AInv, Coded, Positioned
  <2>2. L!Defective
    <3>1. CASE IsStart(Current) /\ Contains(IsStart)
      <4>1. PICK i \in DOMAIN code : IsStart(code[i])
        BY <3>1 DEF Contains
      <4>2. i \in Starts /\ line \in Starts /\ i # line
        BY <1>2, <2>1, <3>1, <4>1, CodeKinds DEF Starts
      <4> QED BY <4>2, StartDefect
    <3>2. CASE IsStop(Current) /\ Contains(IsStop)
      <4>1. PICK i \in DOMAIN code : IsStop(code[i])
        BY <3>2 DEF Contains
      <4>2. i \in Stops /\ line \in Stops /\ i # line
        BY <1>2, <2>1, <3>2, <4>1, CodeKinds DEF Stops
      <4> QED BY <4>2, StartDefect
    <3> QED BY <1>4, <3>1, <3>2
  <2> QED BY <1>2, <1>4, <2>2, LRefuses DEF Exceptions
<1>5. CASE ~Evaluates(Current.operand, symbol_table) /\ Throw("invalid_operand")
  BY <1>1, <1>2, <1>3, <1>5, OpenDefect, LRefuses DEF Exceptions
<1>6. CASE Proceed /\ UNCHANGED layoutVars
  <2>1. UNCHANGED <<program, pass, exception, base_of>>
    BY <1>6 DEF Proceed, layoutVars
  <2> QED BY <1>1, <1>2, <2>1, LIdles
<1> QED BY <1>4, <1>5, <1>6 DEF Translate, Check

LEMMA SkipImplements ==
  ASSUME Skip
  PROVE  [L!Next]_(L!vars)
<1>1. Working /\ UNCHANGED <<program, pass, exception, base_of>>
  BY DEF Skip, At, Proceed, layoutVars, Working
<1> QED BY <1>1, LIdles DEF Working

LEMMA NextPassImplements ==
  ASSUME AInv, NextPass
  PROVE  [L!Next]_(L!vars)
<1>1. /\ Working /\ UNCHANGED <<program, exception, base_of>> /\ pass' = Following(pass)
      /\ pass \notin {"translate_program", "done"}
  BY DEF NextPass, EndOfSection, Working
<1>2. pass' # "done"
  BY <1>1, PassNames, FollowingPass DEF AInv, Positioned
<1> QED BY <1>1, <1>2, LIdles
-----------------------------------------------------------------------------
(* When everything is built and translated, the program has no defect left *)
(* and the image has its meaning.                                          *)
Finished == exception = "none" /\ pass = "translate_program" /\ line > Len(program.code)

LEMMA FinishedLines ==
  ASSUME AInv, Finished
  PROVE  /\ Positioned /\ LaidOutAll /\ DOMAIN base_of = LineIds /\ PlacedLines = MemoryLines
         /\ DOMAIN code = DOMAIN program.code
         /\ \A id \in LineIds : id[1] = "data" => IsBuilt(id)
<1>1. Positioned /\ LaidOutAll
  BY DEF AInv, Finished, LaidOutAll
<1>2. DOMAIN base_of = LineIds
  BY <1>1, AllPlaced
<1>3. DOMAIN code = DOMAIN program.code
  <2>1. /\ Len(program.code) \in Nat /\ DOMAIN program.code = 1 .. Len(program.code)
        /\ code \in Seq(Instruction) /\ Len(code) = line - 1
        /\ line <= Len(program.code) + 1 /\ line \in Nat /\ line > Len(program.code)
    BY <1>1, LineKinds DEF Finished, AInv, Coded, Positioned, SectionOf
  <2>2. Len(code) = Len(program.code) /\ DOMAIN code = 1 .. Len(code)
    BY <2>1
  <2> QED BY <2>1, <2>2
<1> QED BY <1>1, <1>2, <1>3 DEF PlacedLines, MemoryLines, IsBuilt, Finished

(* The operands of a line, and what they are made of. *)
LEMMA OperandParts ==
  ASSUME NEW operand \in Operands \cup {noOperand}
  PROVE  \A primitive \in Primitives(operand) :
           primitive.variant \in {"PRIMITIVE_SYMBOL", "PRIMITIVE_CONSTANT", "PRIMITIVE_RELATIVE"}
<1>1. CASE operand = noOperand
  BY <1>1 DEF noOperand, Primitives
<1>2. CASE operand \in PrimitiveOperands
  BY <1>2 DEF PrimitiveOperands, Primitives
<1>3. CASE operand \in ComplexOperands
  <2>1. /\ operand.variant \in {"COMPLEX_ADD", "COMPLEX_SUB"}
        /\ operand.lhs \in PrimitiveOperands /\ operand.rhs \in PrimitiveOperands
    BY <1>3 DEF ComplexOperands
  <2> QED BY <2>1 DEF PrimitiveOperands, Primitives
<1> QED BY <1>1, <1>2, <1>3 DEF Operands

LEMMA OperandTypes ==
  ASSUME AInv, NEW id \in LineIds
  PROVE  OpenOperands(LineAt(id)) \subseteq Operands \cup {noOperand}
<1> DEFINE l == LineAt(id)
<1>1. l \in CodeLines \cup DataLines \cup BssLines
  BY IdKinds DEF AInv, Positioned
<1>2. CASE l \in CodeLines
  <2>1. l.variant = "LINE_INSTRUCTION" /\ l.operand \in Operands \cup {noOperand}
    BY <1>2 DEF CodeLines
  <2> QED BY <2>1 DEF OpenOperands
<1>3. CASE l \in DataLines /\ l.variant = "LINE_WORDS"
  <2>1. l.data \in Seq(Operands)
    BY <1>3 DEF DataLines
  <2>2. Range(l.data) \subseteq Operands
    BY <2>1 DEF Range
  <2> QED BY <1>3, <2>2 DEF OpenOperands
<1>4. CASE l \in DataLines /\ l.variant = "LINE_SET"
  <2>1. l.value \in Operands
    BY <1>4, SetLines
  <2> QED BY <1>4, <2>1 DEF OpenOperands
<1>5. CASE l \in BssLines
  BY <1>5, Variants DEF OpenOperands
<1> QED BY <1>1, <1>2, <1>3, <1>4, <1>5, Variants

LEMMA SameEval ==
  ASSUME NEW operand \in Operands \cup {noOperand}, NEW position, NEW table, NEW other, DOMAIN other = DOMAIN table,
         \A name \in DOMAIN table : other[name] = table[name],
         Evaluates(operand, table)
  PROVE  eval(operand, position, other) = eval(operand, position, table)
<1>1. \A primitive \in Primitives(operand) :
        eval_primitive(primitive, position, other) = eval_primitive(primitive, position, table)
  <2> SUFFICES ASSUME NEW primitive \in Primitives(operand)
               PROVE  eval_primitive(primitive, position, other) =
                        eval_primitive(primitive, position, table)
    OBVIOUS
  <2>1. CASE primitive.variant = "PRIMITIVE_SYMBOL"
    BY <2>1 DEF Evaluates, eval_primitive
  <2>2. CASE primitive.variant # "PRIMITIVE_SYMBOL"
    <3>1. primitive.variant \in {"PRIMITIVE_CONSTANT", "PRIMITIVE_RELATIVE"}
      BY <2>2, OperandParts
    <3> QED BY <3>1 DEF eval_primitive
  <2> QED BY <2>1, <2>2
<1>2. CASE operand.variant = "NO_OPERAND"
  BY <1>2 DEF eval
<1>3. CASE operand.variant \in {"COMPLEX_ADD", "COMPLEX_SUB"}
  BY <1>1, <1>3 DEF eval, Primitives
<1>4. CASE operand.variant \notin {"NO_OPERAND", "COMPLEX_ADD", "COMPLEX_SUB"}
  BY <1>1, <1>4 DEF eval, Primitives
<1> QED BY <1>2, <1>3, <1>4

LEMMA FinalMeaning ==
  ASSUME AInv, LInv, Finished
  PROVE  /\ DOMAIN L!Meaning = DOMAIN symbol_table
         /\ \A name \in DOMAIN symbol_table : L!Meaning[name] = symbol_table[name]
<1>1. L!Meaning = [name \in AllNames |-> L!ValueOf(name)]
  BY LNames DEF L!Meaning
<1>2. DOMAIN symbol_table = AllNames
  BY FinishedLines, AllNamed
<1>3. ASSUME NEW name \in AllNames
      PROVE  L!ValueOf(name) = symbol_table[name]
  <2>1. PICK id \in LineIds : name \in Range(NamesOf(id))
    BY DEF AllNames
  <2>2. PICK i \in DOMAIN NamesOf(id) : name = NamesOf(id)[i]
    BY <2>1 DEF Range
  <2>3. id \in DOMAIN base_of /\ LineIds = DOMAIN base_of /\ Positioned
    BY FinishedLines
  <2>4. \A other \in LineIds : name \in Range(NamesOf(other)) => other = id
    <3> SUFFICES ASSUME NEW other \in LineIds, name \in Range(NamesOf(other))
                 PROVE  other = id
      OBVIOUS
    <3>1. PICK j \in DOMAIN NamesOf(other) : name = NamesOf(other)[j]
      BY DEF Range
    <3>2. id \in DOMAIN base_of /\ other \in DOMAIN base_of
          /\ NamesOf(id)[i] = NamesOf(other)[j]
      BY <2>2, <2>3, <3>1
    <3>3. Named
      BY DEF LInv
    <3> QED BY <3>2, <3>3 DEF Named
  <2>5. (CHOOSE other \in LineIds : name \in Range(NamesOf(other))) = id
    BY <2>1, <2>4
  <2>6. (CHOOSE other \in L!LineIds : name \in L!Range(L!Names(L!LineOf(other)))) = id
    BY <2>5, LLines DEF NamesOf, Range, L!Range
  <2>7. L!ValueOf(name) = CASE id[1] = "code"           -> id[2] - 1
                            [] NamesSymbol(LineAt(id))  -> restrict_eval(LineAt(id).value)
                            [] OTHER                    -> place[id]
    <3> DEFINE Value(line_) ==
                 CASE line_[1] = "code"                -> line_[2] - 1
                   [] L!NamesSymbol(L!LineOf(line_))   -> L!restrict_eval(L!LineOf(line_).value)
                   [] OTHER                            -> place[line_]
    <3>1. L!ValueOf(name) =
            Value(CHOOSE other \in L!LineIds : name \in L!Range(L!Names(L!LineOf(other))))
      BY DEF L!ValueOf, place, PlacedLines
    <3> HIDE DEF Value
    <3>2. L!ValueOf(name) = Value(id)
      BY <2>6, <3>1
    <3>3. L!LineOf(id) = LineAt(id) /\ (L!NamesSymbol(LineAt(id)) <=> NamesSymbol(LineAt(id)))
          /\ L!restrict_eval(LineAt(id).value) = restrict_eval(LineAt(id).value)
      BY LLines, LEval
    <3> QED BY <3>2, <3>3 DEF Value
  <2>8. symbol_table[name] = base_of[id]
    BY <2>2, <2>3 DEF LInv, Named
  <2>9. CASE id[1] = "code"
    <3>1. ~NamesSymbol(LineAt(id))
      BY <2>3, <2>9, IdKinds, Variants DEF NamesSymbol, Positioned
    <3>2. base_of[id] = id[2] - 1
      BY <2>3, <2>9 DEF AInv, Placed
    <3> QED BY <2>7, <2>8, <2>9, <3>1, <3>2
  <2>10. CASE id[1] # "code" /\ NamesSymbol(LineAt(id))
    <3>1. base_of[id] = restrict_eval(LineAt(id).value)
      BY <2>3, <2>10 DEF LInv, Valued
    <3> QED BY <2>7, <2>8, <2>10, <3>1
  <2>11. CASE id[1] # "code" /\ ~NamesSymbol(LineAt(id))
    <3>1. LineAt(id).variant # "LINE_INSTRUCTION"
      BY <2>3, <2>11, IdKinds, Variants DEF Positioned
    <3>2. place[id] = base_of[id]
      BY <2>3, <2>11, <3>1 DEF place, PlacedLines, TakesMemory
    <3> QED BY <2>7, <2>8, <2>11, <3>2
  <2> QED BY <2>9, <2>10, <2>11
<1> QED BY <1>1, <1>2, <1>3

(* What evaluates to a word means this word to the loader, too.            *)
LEMMA FinalValues ==
  ASSUME AInv, LInv, Finished, NEW id \in LineIds, NEW operand \in OpenOperands(LineAt(id)),
         Evaluates(operand, symbol_table), NEW position
  PROVE  /\ L!eval(operand, position, L!Meaning) = eval(operand, position, symbol_table)
         /\ position \in Word => eval(operand, position, symbol_table) \in Word
<1>1. operand \in Operands \cup {noOperand}
  BY OperandTypes
<1>2. L!eval(operand, position, L!Meaning) = eval(operand, position, L!Meaning)
  BY LEval
<1>3. eval(operand, position, L!Meaning) = eval(operand, position, symbol_table)
  BY <1>1, FinalMeaning, SameEval
<1> QED BY <1>1, <1>2, <1>3, EvalWord DEF AInv, Tabled

(* No map from addresses to values is anything else.                       *)
Mapped == memory_layout = [address \in DOMAIN memory_layout |-> memory_layout[address]]

LEMMA FinalLayout ==
  ASSUME AInv, LInv, Mapped, Finished
  PROVE  memory_layout = L!Layout
<1>1. L!MemoryLines = PlacedLines /\ \A id \in PlacedLines : L!Cells(id) = CellsOf(id)
  BY LPlaces, FinishedLines
<1>2. DOMAIN memory_layout = UNION { L!Cells(id) : id \in L!MemoryLines }
  BY <1>1 DEF LInv, Apart
<1>3. ASSUME NEW id \in PlacedLines, NEW address \in CellsOf(id)
      PROVE  L!Written(id, address) = memory_layout[address]
  <2>1. /\ id \in LineIds /\ TakesMemory(LineAt(id)) /\ base_of[id] \in Int
        /\ Size(LineAt(id)) \in Nat /\ place[id] = base_of[id]
    BY PlacedSizes DEF place
  <2>2. L!Written(id, address) =
          CASE LineAt(id).variant = "LINE_WORDS" ->
                 L!eval(LineAt(id).data[address - base_of[id] + 1], address, L!Meaning)
            [] LineAt(id).variant = "LINE_SET" -> L!eval(LineAt(id).value, address, L!Meaning)
            [] LineAt(id).variant = "LINE_RESERVED" -> 0
    BY <2>1, LLines DEF L!Written, place, PlacedLines
  <2>3. memory_layout[address] = IF IsBuilt(id) THEN ValueAt(id, address) ELSE 0
    BY DEF LInv, Built
  <2>4. IsBuilt(id) => \A operand \in OpenOperands(LineAt(id)) : Evaluates(operand, symbol_table)
    BY DEF LInv, Built
  <2>5. CASE LineAt(id).variant = "LINE_WORDS"
    <3>1. IsBuilt(id)
      BY <2>1, <2>5, MemoryKinds, FinishedLines
    <3> DEFINE operand == LineAt(id).data[address - base_of[id] + 1]
    <3>2. operand \in OpenOperands(LineAt(id))
      <4>1. LineAt(id) \in DataLines
        BY <2>1, <2>5, MemoryKinds, IdKinds, FinishedLines DEF Positioned
      <4>2. LineAt(id).data \in Seq(Operands)
        BY <2>5, <4>1 DEF DataLines
      <4>3. Size(LineAt(id)) = Len(LineAt(id).data) /\ OpenOperands(LineAt(id)) = Range(LineAt(id).data)
        BY <2>5 DEF Size, OpenOperands
      <4>4. address \in base_of[id] .. (base_of[id] + Len(LineAt(id).data) - 1)
        BY <2>1, <4>3 DEF CellsOf, EndOf
      <4>5. address - base_of[id] + 1 \in DOMAIN LineAt(id).data
        BY <2>1, <4>2, <4>4
      <4> QED BY <4>3, <4>5 DEF Range
    <3> HIDE DEF operand
    <3>3. L!eval(operand, address, L!Meaning) = eval(operand, address, symbol_table)
      BY <2>1, <2>4, <3>1, <3>2, FinalValues
    <3> QED BY <2>2, <2>3, <2>5, <3>1, <3>3 DEF ValueAt, operand
  <2>6. CASE LineAt(id).variant = "LINE_SET"
    <3>1. IsBuilt(id)
      BY <2>1, <2>6, MemoryKinds, FinishedLines
    <3>2. LineAt(id).value \in OpenOperands(LineAt(id))
      BY <2>1, <2>6 DEF OpenOperands, TakesMemory
    <3>3. L!eval(LineAt(id).value, address, L!Meaning) = eval(LineAt(id).value, address, symbol_table)
      BY <2>1, <2>4, <3>1, <3>2, FinalValues
    <3> QED BY <2>2, <2>3, <2>6, <3>1, <3>3 DEF ValueAt
  <2>7. CASE LineAt(id).variant = "LINE_RESERVED"
    <3>1. ~IsBuilt(id)
      BY <2>1, <2>7, MemoryKinds DEF IsBuilt
    <3> QED BY <2>2, <2>3, <2>7, <3>1
  <2> QED BY <2>1, <2>5, <2>6, <2>7, MemoryKinds
<1>4. ASSUME NEW address \in DOMAIN memory_layout
      PROVE  L!Written(CHOOSE id \in L!MemoryLines : address \in L!Cells(id), address) =
               memory_layout[address]
  <2>1. PICK id \in PlacedLines : address \in CellsOf(id)
    BY DEF LInv, Apart
  <2>2. \A other \in L!MemoryLines : address \in L!Cells(other) => other = id
    BY <1>1, <2>1 DEF LInv, Apart
  <2>3. (CHOOSE other \in L!MemoryLines : address \in L!Cells(other)) = id
    BY <1>1, <2>1, <2>2
  <2> QED BY <1>3, <2>1, <2>3
<1>5. L!Layout = [ address \in UNION { L!Cells(id) : id \in L!MemoryLines } |->
                     L!Written(CHOOSE id \in L!MemoryLines : address \in L!Cells(id), address) ]
  BY DEF L!Layout
<1> QED BY <1>2, <1>4, <1>5 DEF Mapped

LEMMA FinalCode ==
  ASSUME AInv, LInv, Finished, NEW i \in DOMAIN program.code
  PROVE  L!Denotes(code[i], program.code[i], i - 1)
<1> DEFINE l == program.code[i]
           value == eval(l.operand, i - 1, symbol_table)
<1>1. Positioned /\ i \in DOMAIN code
  BY FinishedLines
<1>2. /\ l \in CodeLines /\ l.variant = "LINE_INSTRUCTION" /\ l.op \in KNOWN_INSTRUCTIONS
      /\ i \in 1 .. Len(program.code) /\ Len(program.code) \in Nat
      /\ Len(program.code) < HalfRange
  <2>1. /\ l \in CodeLines /\ i \in 1 .. Len(program.code) /\ Len(program.code) \in Nat
        /\ Len(program.code) < HalfRange
    BY <1>1, LineKinds, ProgramLines DEF Positioned
  <2> QED BY <2>1, Variants DEF CodeLines
<1>3. i - 1 \in Word
  BY <1>2, HalfRangeNat DEF Word
<1>4. <<"code", i>> \in LineIds /\ LineAt(<<"code", i>>) = l
  BY IsId DEF LineAt
<1>5. l.operand \in OpenOperands(LineAt(<<"code", i>>))
  BY <1>2, <1>4 DEF OpenOperands
<1>6. Evaluates(l.operand, symbol_table) /\ code[i] = encode(l, value, i - 1)
  BY <1>1 DEF LInv, Translated
<1>7. L!eval(l.operand, i - 1, L!Meaning) = value /\ value \in Word
  BY <1>3, <1>4, <1>5, <1>6, FinalValues
<1> HIDE DEF value, l
<1>8. code[i] \in Instruction
  BY <1>1 DEF AInv, Coded
<1>9. /\ code[i].op = l.op /\ code[i].back = l.back
      /\ code[i].bits = CASE l.op \in RELATIVE -> operand_low_value(SubW(value, i - 1))
                          [] l.op \in UPPER    -> operand_high_value(value)
                          [] l.op \in ABSOLUTE -> operand_low_value(value)
                          [] OTHER             -> 0
  BY <1>6 DEF encode
<1>10. l.op \in ABSOLUTE /\ L!Fits(value) => sign_extend(code[i].bits) = value
  <2> SUFFICES ASSUME l.op \in ABSOLUTE, L!Fits(value)
               PROVE  sign_extend(code[i].bits) = value
    OBVIOUS
  <2>1. l.op \notin RELATIVE /\ l.op \notin UPPER
    BY DEF ABSOLUTE, RELATIVE, UPPER
  <2>2. value \in -OPERAND_SIGN .. (OPERAND_SIGN - 1)
    BY DEF L!Fits
  <2> QED BY <1>9, <2>1, <2>2, LowRestores
<1>11. l.op \in RELATIVE /\ L!Fits(SubW(value, i - 1)) =>
         AddW(i - 1, sign_extend(code[i].bits)) = value
  <2> SUFFICES ASSUME l.op \in RELATIVE, L!Fits(SubW(value, i - 1))
               PROVE  AddW(i - 1, sign_extend(code[i].bits)) = value
    OBVIOUS
  <2>1. l.op \notin ABSOLUTE /\ l.op \notin UPPER
    BY DEF ABSOLUTE, RELATIVE, UPPER
  <2>2. SubW(value, i - 1) \in -OPERAND_SIGN .. (OPERAND_SIGN - 1)
    BY DEF L!Fits
  <2>3. sign_extend(code[i].bits) = SubW(value, i - 1)
    BY <1>9, <2>1, <2>2, LowRestores
  <2>4. \A a, b \in Word : AddW(b, SubW(a, b)) = a
    BY HalfRangeNat DEF AddW, SubW, Wrap, Word
  <2> QED BY <1>3, <1>7, <2>3, <2>4
<1>12. l.op \in UPPER =>
         BitXor(sign_extend(operand_low_value(value)), UpperBits(code[i].bits)) = value
  <2> SUFFICES ASSUME l.op \in UPPER
               PROVE  BitXor(sign_extend(operand_low_value(value)), UpperBits(code[i].bits)) = value
    OBVIOUS
  <2>1. l.op \notin ABSOLUTE /\ l.op \notin RELATIVE
    BY DEF ABSOLUTE, RELATIVE, UPPER
  <2> QED BY <1>7, <1>9, <2>1, HalvesRestore
<1>13. l.op \notin ABSOLUTE \cup RELATIVE \cup UPPER => code[i].bits = 0
  BY <1>9
<1> QED BY <1>7, <1>8, <1>9, <1>10, <1>11, <1>12, <1>13, LWords, LKinds DEF L!Denotes, l

(* The checks the program has passed leave no defect. *)
LEMMA FinalStarts ==
  ASSUME AInv, LInv, Finished, Contains(IsStart), Contains(IsStop)
  PROVE  /\ Starts = {entry_address + 1} /\ entry_address + 1 \in DOMAIN program.code
         /\ \E i \in DOMAIN program.code : Stops = {i}
<1>1. DOMAIN code = DOMAIN program.code
  BY FinishedLines
<1>2. \A i \in DOMAIN program.code : /\ IsStart(code[i]) <=> IsStart(program.code[i])
                                     /\ IsStop(code[i]) <=> IsStop(program.code[i])
  BY <1>1, CodeKinds
<1>3. Starts = {entry_address + 1} /\ entry_address + 1 \in DOMAIN program.code
  BY <1>1, <1>2 DEF AInv, Coded, Starts, Contains
<1>4. PICK i \in DOMAIN code : IsStop(code[i])
  BY DEF Contains
<1>5. Stops = {i}
  BY <1>1, <1>2, <1>4 DEF AInv, Coded, Stops
<1> QED BY <1>1, <1>3, <1>5

LEMMA NotDefective ==
  ASSUME AInv, LInv, Finished, Contains(IsStart), Contains(IsStop)
  PROVE  ~L!Defective
<1>1. /\ Positioned /\ LaidOutAll /\ DOMAIN base_of = LineIds /\ PlacedLines = MemoryLines
      /\ DOMAIN code = DOMAIN program.code
      /\ \A id \in LineIds : id[1] = "data" => IsBuilt(id)
  BY FinishedLines
<1>2. ~NameRepeated
  BY <1>1 DEF NameRepeated, LInv, Named
<1>3. ~FixedOperandOpen
  BY <1>1 DEF FixedOperandOpen, LInv, Valued
<1>4. ~NameUndefined
  <2> SUFFICES ASSUME NEW id \in LineIds, NEW operand \in OpenOperands(LineAt(id))
               PROVE  Evaluates(operand, [name \in AllNames |-> 0])
    BY DEF NameUndefined
  <2>1. Evaluates(operand, symbol_table)
    <3>1. CASE id[1] = "code"
      <4>1. /\ id = <<"code", id[2]>> /\ id[2] \in DOMAIN program.code
            /\ LineAt(id) = program.code[id[2]] /\ LineAt(id) \in CodeLines
        BY <1>1, <3>1, IdKinds DEF Positioned, LineAt
      <4>2. operand = program.code[id[2]].operand
        BY <4>1, Variants DEF OpenOperands
      <4> QED BY <1>1, <4>1, <4>2 DEF LInv, Translated
    <3>2. CASE id[1] = "data"
      <4>1. LineAt(id) \in DataLines
        BY <1>1, <3>2, IdKinds DEF Positioned
      <4>2. TakesMemory(LineAt(id))
        BY <4>1, Variants DEF OpenOperands, TakesMemory, NamesSymbol
      <4>3. id \in PlacedLines /\ IsBuilt(id)
        BY <1>1, <3>2, <4>2 DEF PlacedLines
      <4>4. Built
        BY DEF LInv
      <4> QED BY <4>3, <4>4 DEF Built
    <3>3. CASE id[1] = "bss"
      <4>1. LineAt(id) \in BssLines
        BY <1>1, <3>3, IdKinds DEF Positioned
      <4> QED BY <4>1, Variants DEF OpenOperands
    <3> QED BY <1>1, <3>1, <3>2, <3>3, IdKinds DEF Positioned
  <2>2. DOMAIN symbol_table = AllNames
    BY <1>1, AllNamed
  <2> QED BY <2>1, <2>2 DEF Evaluates
<1>5. ~AddressRepeated
  <2> SUFFICES ASSUME NEW i \in DOMAIN program.data, NEW j \in DOMAIN program.data,
                      program.data[i].variant = "LINE_SET", program.data[j].variant = "LINE_SET",
                      TakesMemory(program.data[i]), TakesMemory(program.data[j]),
                      restrict_eval(program.data[i].memoryAddress) =
                        restrict_eval(program.data[j].memoryAddress)
               PROVE  i = j
    BY DEF AddressRepeated
  <2>1. /\ <<"data", i>> \in LineIds /\ LineAt(<<"data", i>>) = program.data[i]
        /\ <<"data", j>> \in LineIds /\ LineAt(<<"data", j>>) = program.data[j]
    BY IsId DEF LineAt
  <2>2. <<"data", i>> \in PlacedLines /\ <<"data", j>> \in PlacedLines
    BY <1>1, <2>1 DEF PlacedLines
  <2>3. base_of[<<"data", i>>] = base_of[<<"data", j>>]
    BY <1>1, <2>1 DEF LInv, Valued
  <2>4. /\ base_of[<<"data", i>>] \in CellsOf(<<"data", i>>)
        /\ base_of[<<"data", j>>] \in CellsOf(<<"data", j>>)
    BY <2>1, <2>2, PlacedSizes DEF CellsOf, EndOf, Size
  <2>5. <<"data", i>> = <<"data", j>>
    BY <2>2, <2>3, <2>4 DEF LInv, Apart
  <2> QED BY <2>5
<1>6. ~SizeNegative
  <2> SUFFICES ASSUME NEW id \in LineIds PROVE ~(Size(LineAt(id)) < 0)
    BY DEF SizeNegative
  <2>1. CASE TakesMemory(LineAt(id))
    <3>1. Size(LineAt(id)) \in Nat
      BY <1>1, <2>1, PlacedSizes DEF PlacedLines
    <3> QED BY <3>1
  <2>2. CASE ~TakesMemory(LineAt(id))
    BY <2>2 DEF TakesMemory, NamesSymbol, Size
  <2> QED BY <2>1, <2>2
<1>7. (\E i \in DOMAIN program.code : Starts = {i}) /\ (\E i \in DOMAIN program.code : Stops = {i})
  BY FinalStarts
<1> QED BY <1>2, <1>3, <1>4, <1>5, <1>6, <1>7, LDefects

LEMMA FinishImplements ==
  ASSUME AInv, LInv, Mapped, Finish
  PROVE  L!Next
<1>1. /\ Finished /\ Working /\ Positioned
  <2>1. EndOfSection /\ pass = "translate_program"
    BY DEF Finish
  <2> QED BY <2>1 DEF EndOfSection, Working, Finished, SectionOf, AInv
<1>2. outcome = L!Working
  BY <1>1, LWorking
<1>3. CASE /\ ~(Contains(IsStart) /\ Contains(IsStop)) /\ Throw("start_stop_presence")
  <2>1. Starts = {} \/ Stops = {}
    BY <1>1, <1>3, CodeKinds, FinishedLines DEF Starts, Stops, Contains
  <2> QED BY <1>1, <1>3, <2>1, StartDefect, LRefuses DEF Exceptions
<1>4. CASE /\ Contains(IsStart) /\ Contains(IsStop)
           /\ pass' = "done"
           /\ UNCHANGED <<program, line, layoutVars, translationVars, exception>>
  <2>1. UNCHANGED <<program, base_of>> /\ Image' = Image /\ exception' = "none"
    BY <1>1, <1>4 DEF layoutVars, translationVars, Image, Finished
  <2>2. place' = place
    BY <2>1, SamePlaces DEF place
  <2>3. outcome' = [status |-> "loaded", image |-> Image]
    BY <1>4, <2>1 DEF outcome
  <2>4. L!MemoryLines = MemoryLines /\ DOMAIN place = MemoryLines
    BY <1>1, LPlaces, FinishedLines DEF place
  <2>5. ~L!Defective
    BY <1>1, <1>4, NotDefective
  <2>6. L!Embodies(Image)
    <3>1. Image.layout = L!Layout
      BY <1>1, FinalLayout DEF Image
    <3>2. L!Positions(L!IsStart) = {Image.entry + 1}
      BY <1>1, <1>4, FinalStarts, LKinds DEF L!Positions, Starts, Image
    <3>3. Image.code = code /\ DOMAIN code = DOMAIN program.code
      BY <1>1, FinishedLines DEF Image
    <3>4. \A i \in DOMAIN program.code : L!Denotes(code[i], program.code[i], i - 1)
      BY <1>1, FinalCode
    <3> QED BY <3>1, <3>2, <3>3, <3>4 DEF L!Embodies
  <2>7. L!Load
    <3> HIDE DEF Image
    <3>1. outcome'.status = "loaded" /\ outcome'.image = Image
      BY <2>3
    <3>2. L!Embodies(outcome'.image)
      BY <2>6, <3>1
    <3> QED BY <1>2, <2>1, <2>2, <2>4, <2>5, <3>1, <3>2 DEF L!Load, place, PlacedLines, outcome
  <2> QED BY <2>7 DEF L!Next
<1> QED BY <1>3, <1>4 DEF Finish, Check

-----------------------------------------------------------------------------
LEMMA InitMapped == Init => Mapped
BY DEF Init, Mapped

(* Every step builds the map anew, or leaves it alone. *)
LEMMA NextMapped == Mapped /\ [Next]_vars => Mapped'
<1> SUFFICES ASSUME Mapped, [Next]_vars PROVE Mapped'
  OBVIOUS
<1>1. CASE UNCHANGED memory_layout
  BY <1>1 DEF Mapped
<1>2. CASE FixAddress
  <2>1. (\E address : memory_layout' = With(memory_layout, address, 0)) \/ UNCHANGED memory_layout
    BY <1>2 DEF FixAddress, Check, Throw, layoutVars
  <2> QED BY <1>1, <2>1 DEF Mapped, With
<1>3. CASE LayoutMemory
  <2>1. (\E range, size : Reserve(range, size)) \/ UNCHANGED memory_layout
    BY <1>3 DEF LayoutMemory, allocate_range, Check, Throw, layoutVars, Collide
  <2> QED BY <1>1, <2>1 DEF Mapped, Reserve
<1>4. CASE BuildWords
  BY <1>1, <1>4 DEF BuildWords, Check, Throw, layoutVars, Write, Mapped
<1>5. CASE BuildSet
  BY <1>1, <1>5 DEF BuildSet, Check, Throw, layoutVars, Write, Mapped
<1>6. CASE FixSymbol
  BY <1>1, <1>6 DEF FixSymbol, Check, Throw, layoutVars
<1>7. CASE LayoutInstruction
  BY <1>1, <1>7 DEF LayoutInstruction, Check, Throw, layoutVars
<1>8. CASE Translate \/ Skip \/ NextPass \/ Finish
  BY <1>1, <1>8 DEF Translate, Skip, NextPass, Finish, Check, Throw, layoutVars
<1> QED BY <1>1, <1>2, <1>3, <1>4, <1>5, <1>6, <1>7, <1>8 DEF Next, vars, layoutVars

LEMMA InitImplements == Init => L!Init
<1> SUFFICES ASSUME Init PROVE L!Init
  OBVIOUS
<1>1. program \in Programs /\ DOMAIN base_of = {} /\ exception = "none" /\ pass = "layout_fixed"
  BY DEF Init
<1>2. place = <<>>
  BY <1>1 DEF place, PlacedLines
<1>3. outcome = L!Working
  BY <1>1, LWorking DEF Working
<1> QED BY <1>1, <1>2, <1>3 DEF L!Init, place, PlacedLines, outcome

LEMMA NextImplements ==
  ASSUME AInv, LInv, Mapped, [Next]_vars
  PROVE  [L!Next]_(L!vars)
<1>1. CASE UNCHANGED vars
  <2>1. UNCHANGED <<program, base_of, code, memory_layout, entry_address, exception, pass>>
    BY <1>1 DEF vars, layoutVars, translationVars
  <2>2. place' = place
    BY <2>1, SamePlaces DEF place
  <2>3. outcome' = outcome
    BY <2>1 DEF outcome, Image
  <2> QED BY <2>1, <2>2, <2>3, LStutters
<1>2. CASE Next
  BY <1>2, FixAddressImplements, FixSymbolImplements, LayoutMemoryImplements,
     LayoutInstructionImplements, BuildWordsImplements, BuildSetImplements,
     TranslateImplements, SkipImplements, NextPassImplements, FinishImplements
     DEF Next
<1> QED BY <1>1, <1>2

(* Every program, whatever mix of forward references, .set lines, labels   *)
(* and relative operands it is, is laid out in disjoint cells and loaded   *)
(* with the meaning its lines have, or refused because it is defective or  *)
(* does not fit: the passes do what the loader, which has none, promises.  *)
THEOREM AssemblerImplementsLoader == Spec => ImplementsLoader
<1>1. Init => AInv /\ SInv /\ LInv /\ Mapped /\ L!Init
  BY InitAInv, InitSInv, InitLInv, InitMapped, InitImplements
<1>2. AInv /\ SInv /\ LInv /\ Mapped /\ [Next]_vars =>
        AInv' /\ SInv' /\ LInv' /\ Mapped' /\ [L!Next]_(L!vars)
  BY NextAInv, NextSInv, NextLInv, NextMapped, NextImplements
<1> QED BY <1>1, <1>2, PTL DEF Spec, ImplementsLoader, L!Spec
=============================================================================
