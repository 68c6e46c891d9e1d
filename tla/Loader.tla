------------------------------- MODULE Loader -------------------------------
(***************************************************************************)
(* What the assembler promises, without passes, tables or an order.  Every *)
(* line that takes memory claims cells of its own, wherever they are free; *)
(* a .set line claims the cell it names.  Then the program is loaded: a    *)
(* name stands for the place of its line, a cell holds what was written    *)
(* for it, an instruction word decodes to what was written.  A program is  *)
(* refused when it is defective or does not fit, and for no other reason.  *)
(***************************************************************************)
EXTENDS Syntax

CONSTANT Programs

VARIABLES
  program,   \* the parsed program
  place,     \* the first cell of the lines that have claimed theirs
  outcome    \* nothing yet, a refusal, or what assemble returns

vars == <<program, place, outcome>>

Working == [status |-> "working"]
Refused == [status |-> "refused"]

LineIds == UNION { {section} \X DOMAIN program[section] :
                     section \in {"code", "data", "bss"} }
LineOf(id) == program[id[1]][id[2]]

MemoryLines == { id \in LineIds : TakesMemory(LineOf(id)) }

Range0(first, size) == first .. (first + size - 1)
Cells(id) == Range0(place[id], Size(LineOf(id)))

-----------------------------------------------------------------------------
(* Defects of a program. *)
NamesAt == UNION { {id} \X DOMAIN Names(LineOf(id)) : id \in LineIds }
NameOf(n) == Names(LineOf(n[1]))[n[2]]
AllNames  == { NameOf(n) : n \in NamesAt }

Positions(Kind(_)) == { i \in DOMAIN program.code : Kind(program.code[i]) }

Defective ==
  \/ \E m, n \in NamesAt : m # n /\ NameOf(m) = NameOf(n)
  \/ \E id \in LineIds :
       \/ \E operand \in FixedOperands(LineOf(id)) : ~RestrictEvaluates(operand)
       \/ \E operand \in OpenOperands(LineOf(id)) :
            ~Evaluates(operand, [name \in AllNames |-> 0])
  \/ \E i, j \in DOMAIN program.data :
       LET a == program.data[i]
           b == program.data[j]
       IN  /\ i # j /\ a.variant = "LINE_SET" /\ b.variant = "LINE_SET"
           /\ TakesMemory(a) /\ TakesMemory(b)
           /\ restrict_eval(a.memoryAddress) = restrict_eval(b.memoryAddress)
  \/ \E id \in LineIds : Size(LineOf(id)) < 0
  \/ \A i \in DOMAIN program.code : Positions(IsStart) # {i}
  \/ \A i \in DOMAIN program.code : Positions(IsStop) # {i}

(* Behind some cells that are taken there is not enough room for a line.   *)
NoRoom ==
  \E id \in MemoryLines \ DOMAIN place :
    \E end \in {0} \cup { place[other] + Size(LineOf(other)) : other \in DOMAIN place } :
      end + Size(LineOf(id)) >= HalfRange

-----------------------------------------------------------------------------
(* What a placed program means. *)
ValueOf(name) ==
  LET id == CHOOSE id \in LineIds : name \in Range(Names(LineOf(id)))
  IN  CASE id[1] = "code"            -> id[2] - 1
        [] NamesSymbol(LineOf(id))   -> restrict_eval(LineOf(id).value)
        [] OTHER                     -> place[id]

Meaning == [name \in AllNames |-> ValueOf(name)]

Written(id, address) ==
  LET l == LineOf(id)
  IN  CASE l.variant = "LINE_WORDS"    -> eval(l.data[address - place[id] + 1], address, Meaning)
        [] l.variant = "LINE_SET"      -> eval(l.value, address, Meaning)
        [] l.variant = "LINE_RESERVED" -> 0

Layout ==
  [ address \in UNION { Cells(id) : id \in MemoryLines } |->
      Written(CHOOSE id \in MemoryLines : address \in Cells(id), address) ]

Fits(value) == value \in -OPERAND_SIGN .. (OPERAND_SIGN - 1)

(* The instruction at a position decodes to the operand that was written,  *)
(* when it fits; pushc and xorhc together load any word.                   *)
Denotes(instruction, l, position) ==
  LET value == eval(l.operand, position, Meaning)
      bits  == instruction.bits
  IN  /\ instruction \in Instruction
      /\ instruction.op = l.op /\ instruction.back = l.back
      /\ l.op \in ABSOLUTE /\ Fits(value) => sign_extend(bits) = value
      /\ l.op \in RELATIVE /\ Fits(SubW(value, position)) =>
           AddW(position, sign_extend(bits)) = value
      /\ l.op \in UPPER =>
           BitXor(sign_extend(operand_low_value(value)), UpperBits(bits)) = value
      /\ l.op \notin ABSOLUTE \cup RELATIVE \cup UPPER => bits = 0

Embodies(image) ==
  /\ image.layout = Layout
  /\ Positions(IsStart) = {image.entry + 1}
  /\ DOMAIN image.code = DOMAIN program.code
  /\ \A i \in DOMAIN program.code : Denotes(image.code[i], program.code[i], i - 1)

-----------------------------------------------------------------------------
Init ==
  /\ program \in Programs
  /\ place = <<>>
  /\ outcome = Working

Claim(id) ==
  LET l == LineOf(id)
  IN  /\ outcome = Working
      /\ id \in MemoryLines \ DOMAIN place
      /\ \A operand \in FixedOperands(l) : RestrictEvaluates(operand)
      /\ \E address \in Word :
           /\ l.variant = "LINE_SET" => address = restrict_eval(l.memoryAddress)
           /\ \A other \in DOMAIN place : Range0(address, Size(l)) \cap Cells(other) = {}
           /\ place' = With(place, id, address)
      /\ UNCHANGED <<program, outcome>>

Load ==
  /\ outcome = Working
  /\ DOMAIN place = MemoryLines
  /\ ~Defective
  /\ outcome'.status = "loaded"
  /\ Embodies(outcome'.image)
  /\ UNCHANGED <<program, place>>

Refuse ==
  /\ outcome = Working
  /\ Defective \/ NoRoom
  /\ outcome' = Refused
  /\ UNCHANGED <<program, place>>

Next == (\E id \in MemoryLines : Claim(id)) \/ Load \/ Refuse

Spec == Init /\ [][Next]_vars
=============================================================================
