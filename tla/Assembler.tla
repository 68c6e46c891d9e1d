----------------------------- MODULE Assembler -----------------------------
(***************************************************************************)
(* assemble: the passes over the sections of a parsed program that resolve *)
(* its symbols, lay out and fill its memory and translate its              *)
(* instructions.  A step is the work of a pass on one line, or one round   *)
(* of the search for free memory; an exception ends the assembly.          *)
(***************************************************************************)
EXTENDS Syntax

CONSTANT Programs

ASSUME ProgramsAssumption ==
  \A p \in Programs :
    /\ p \in ParsedPrograms
    /\ Len(p.code) < HalfRange
    /\ \A i \in DOMAIN p.data :
         p.data[i].variant = "LINE_WORDS" => Len(p.data[i].data) < HalfRange

VARIABLES
  program,         \* the sections, as the parser leaves them
  pass,            \* the pass under way
  line,            \* the position of the next line in its section
  base_address,    \* where the next allocation starts, or the instruction count
  memory_layout,   \* the addresses reserved so far, with their values
  symbol_table,    \* the symbols defined so far, with their values
  base_of,         \* Line.base_address of the lines laid out so far
  code,            \* the instructions translated so far
  entry_address,   \* the address of start, -1 before it is found
  exception        \* what was thrown, or "none"

layoutVars      == <<base_address, memory_layout, symbol_table, base_of>>
translationVars == <<code, entry_address>>
vars == <<program, pass, line, layoutVars, translationVars, exception>>

Passes == << "layout_fixed", "layout_data", "layout_bss", "layout_code",
             "build_data", "build_bss", "translate_program", "done" >>

SectionOf(p) ==
  CASE p \in {"layout_fixed", "layout_data", "build_data"} -> "data"
    [] p \in {"layout_bss", "build_bss"}                   -> "bss"
    [] p \in {"layout_code", "translate_program"}          -> "code"

Following(p) == Passes[1 + CHOOSE i \in DOMAIN Passes : Passes[i] = p]

LineAt(id) == program[id[1]][id[2]]
Id         == <<SectionOf(pass), line>>
Current    == LineAt(Id)

Working == exception = "none" /\ pass # "done"

(* The next line of a pass is there. *)
At(passes) ==
  /\ exception = "none"
  /\ pass \in passes
  /\ line \in DOMAIN program[SectionOf(pass)]

-----------------------------------------------------------------------------
Exceptions == { "invalid_operand", "set_address_clash", "symbol_redefinition_error",
                "out_of_range", "start_stop_presence" }

Throw(e) ==
  /\ exception' = e
  /\ UNCHANGED <<program, pass, line, layoutVars, translationVars>>

Check(condition, e, A) ==
  \/ condition /\ A
  \/ ~condition /\ Throw(e)

Proceed ==
  /\ line' = line + 1
  /\ UNCHANGED <<program, pass, exception>>

(* enter_symbol throws unless the names are new, each of them once.        *)
Fresh(names) == IsInjective(names) /\ Range(names) \cap DOMAIN symbol_table = {}

enter_symbols(names, address) ==
  /\ symbol_table' = [ name \in DOMAIN symbol_table \cup Range(names) |->
                         IF name \in Range(names) THEN address ELSE symbol_table[name] ]
  /\ base_of' = With(base_of, Id, address)

-----------------------------------------------------------------------------
(* layout_fixed: the addresses and symbols of .set lines. *)
FixAddress ==
  LET l       == Current
      address == restrict_eval(l.memoryAddress)
  IN  /\ At({"layout_fixed"})
      /\ l.variant = "LINE_SET" /\ TakesMemory(l)
      /\ Check(RestrictEvaluates(l.memoryAddress), "invalid_operand",
         Check(address \notin DOMAIN memory_layout, "set_address_clash",
         Check(Fresh(l.labels), "symbol_redefinition_error",
           /\ memory_layout' = With(memory_layout, address, 0)
           /\ enter_symbols(l.labels, address)
           /\ Proceed
           /\ UNCHANGED <<base_address, translationVars>>)))

FixSymbol ==
  LET l == Current
  IN  /\ At({"layout_fixed"})
      /\ NamesSymbol(l)
      /\ Check(RestrictEvaluates(l.value), "invalid_operand",
         Check(Fresh(Names(l)), "symbol_redefinition_error",
           /\ enter_symbols(Names(l), restrict_eval(l.value))
           /\ Proceed
           /\ UNCHANGED <<base_address, memory_layout, translationVars>>))

(* layout_section on memory sections: allocate_range searches upwards from *)
(* base_address and starts again behind the highest address that is taken. *)
(* Mutants: a search that starts again at the address that is taken, and   *)
(* one that moves on by whole blocks.                                      *)
CollideStays(colliding) ==
  \E address \in colliding :
    /\ \A other \in colliding : other <= address
    /\ base_address' = address
    /\ UNCHANGED <<program, pass, line, memory_layout, symbol_table, base_of,
                   translationVars, exception>>

CollideByBlocks(colliding) ==
  /\ base_address' = base_address + Size(Current)
  /\ UNCHANGED <<program, pass, line, memory_layout, symbol_table, base_of,
                 translationVars, exception>>

Collide(colliding) ==
  \E address \in colliding :
    /\ \A other \in colliding : other <= address
    /\ base_address' = address + 1
    /\ UNCHANGED <<program, pass, line, memory_layout, symbol_table, base_of,
                   translationVars, exception>>

Reserve(range, size) ==
  /\ memory_layout' = [ address \in DOMAIN memory_layout \cup range |->
                          IF address \in range THEN 0 ELSE memory_layout[address] ]
  /\ base_address' = base_address + size
  /\ enter_symbols(Current.labels, base_address)
  /\ Proceed
  /\ UNCHANGED translationVars

(* Mutant: no check of the upper bound. *)
AllocateUnbounded(size) ==
  LET range     == base_address .. (base_address + size - 1)
      colliding == range \cap DOMAIN memory_layout
  IN  Check(size >= 0, "out_of_range",
        \/ colliding # {} /\ Collide(colliding)
        \/ colliding = {} /\ Check(Fresh(Current.labels), "symbol_redefinition_error",
                                   Reserve(range, size)))

allocate_range(size) ==
  LET range     == base_address .. (base_address + size - 1)
      colliding == range \cap DOMAIN memory_layout
  IN  Check(size >= 0 /\ AddW(base_address, size) >= 0, "out_of_range",
        \/ colliding # {} /\ Collide(colliding)
        \/ colliding = {} /\ Check(Fresh(Current.labels), "symbol_redefinition_error",
                                   Reserve(range, size)))

LayoutMemory ==
  /\ At({"layout_data", "layout_bss"})
  /\ Current.variant \in {"LINE_WORDS", "LINE_RESERVED"}
  /\ Check(\A operand \in FixedOperands(Current) : RestrictEvaluates(operand),
           "invalid_operand", allocate_range(Size(Current)))

(* layout_section on the code: base_address counts the instructions. *)
LayoutInstruction ==
  /\ At({"layout_code"})
  /\ Check(Fresh(Current.labels), "symbol_redefinition_error",
       /\ enter_symbols(Current.labels, base_address)
       /\ base_address' = base_address + 1
       /\ Proceed
       /\ UNCHANGED <<memory_layout, translationVars>>)

-----------------------------------------------------------------------------
(* buildMemorySection: values for the words and the fixed addresses. *)
Write(addresses, ValueAt(_)) ==
  /\ memory_layout' = [ address \in DOMAIN memory_layout \cup addresses |->
                          IF address \in addresses THEN ValueAt(address)
                                                   ELSE memory_layout[address] ]
  /\ Proceed
  /\ UNCHANGED <<base_address, symbol_table, base_of, translationVars>>

BuildWords ==
  LET l     == Current
      base  == base_of[Id]
      Word_(address) == eval(l.data[address - base + 1], address, symbol_table)
  IN  /\ At({"build_data"})
      /\ l.variant = "LINE_WORDS"
      /\ Check(\A operand \in Range(l.data) : Evaluates(operand, symbol_table),
               "invalid_operand", Write(base .. (base + Len(l.data) - 1), Word_))

BuildSet ==
  LET l    == Current
      Value(address) == eval(l.value, address, symbol_table)
  IN  /\ At({"build_data"})
      /\ l.variant = "LINE_SET" /\ TakesMemory(l)
      /\ Check(Evaluates(l.value, symbol_table),
               "invalid_operand", Write({base_of[Id]}, Value))

-----------------------------------------------------------------------------
(* translate_program. *)
encode(l, value, position) ==
  [ op |-> l.op, back |-> l.back,
    bits |-> CASE l.op \in RELATIVE -> operand_low_value(SubW(value, position))
               [] l.op \in UPPER    -> operand_high_value(value)
               [] l.op \in ABSOLUTE -> operand_low_value(value)
               [] OTHER             -> 0 ]

Contains(Kind(_)) == \E i \in DOMAIN code : Kind(code[i])

Translate ==
  LET l        == Current
      position == base_of[Id]
  IN  /\ At({"translate_program"})
      /\ Check(~(IsStart(l) /\ Contains(IsStart)) /\ ~(IsStop(l) /\ Contains(IsStop)),
               "start_stop_presence",
         Check(Evaluates(l.operand, symbol_table), "invalid_operand",
           /\ code' = Append(code, encode(l, eval(l.operand, position, symbol_table), position))
           /\ entry_address' = IF IsStart(l) THEN position ELSE entry_address
           /\ Proceed
           /\ UNCHANGED layoutVars))

-----------------------------------------------------------------------------
(* The lines a pass has nothing to do for. *)
Skip ==
  /\ \/ At({"layout_fixed"}) /\ Current.variant # "LINE_SET"
     \/ At({"layout_data"}) /\ Current.variant = "LINE_SET"
     \/ At({"build_data"}) /\ NamesSymbol(Current)
     \/ At({"build_bss"})
  /\ Proceed
  /\ UNCHANGED <<layoutVars, translationVars>>

EndOfSection == Working /\ line > Len(program[SectionOf(pass)])

(* Mutant: instructions are counted from the end of the memory on. *)
NextPassKeepsBase ==
  /\ EndOfSection
  /\ pass # "translate_program"
  /\ pass' = Following(pass)
  /\ line' = 1
  /\ UNCHANGED <<program, layoutVars, translationVars, exception>>

(* Instructions are counted from 0 on; the other sections share one base. *)
NextPass ==
  /\ EndOfSection
  /\ pass # "translate_program"
  /\ pass' = Following(pass)
  /\ line' = 1
  /\ base_address' = IF pass' = "layout_code" THEN 0 ELSE base_address
  /\ UNCHANGED <<program, memory_layout, symbol_table, base_of, translationVars, exception>>

(* Mutant: a program need not have a stop. *)
FinishWithoutStop ==
  /\ EndOfSection
  /\ pass = "translate_program"
  /\ Check(Contains(IsStart), "start_stop_presence",
       /\ pass' = "done"
       /\ UNCHANGED <<program, line, layoutVars, translationVars, exception>>)

Finish ==
  /\ EndOfSection
  /\ pass = "translate_program"
  /\ Check(Contains(IsStart) /\ Contains(IsStop), "start_stop_presence",
       /\ pass' = "done"
       /\ UNCHANGED <<program, line, layoutVars, translationVars, exception>>)

Init ==
  /\ program \in Programs
  /\ pass = "layout_fixed"
  /\ line = 1
  /\ base_address = 0
  /\ memory_layout = <<>>
  /\ symbol_table = <<>>
  /\ base_of = <<>>
  /\ code = <<>>
  /\ entry_address = -1
  /\ exception = "none"

Next ==
  \/ FixAddress
  \/ FixSymbol
  \/ LayoutMemory
  \/ LayoutInstruction
  \/ BuildWords
  \/ BuildSet
  \/ Translate
  \/ Skip
  \/ NextPass
  \/ Finish

(* assemble is a function that is called and executes: it keeps taking     *)
(* steps while it can.                                                     *)
Spec == Init /\ [][Next]_vars /\ WF_vars(Next)

-----------------------------------------------------------------------------
(* What assemble returns. *)
Image == [code |-> code, layout |-> memory_layout, entry |-> entry_address]

(* Type correctness of the variables assemble, resolve_symbols and         *)
(* translate_program keep.                                                 *)
TypeOK ==
  /\ program \in ParsedPrograms
  /\ pass \in Range(Passes)
  /\ line \in Nat \ {0}
  /\ base_address \in Word
  /\ DOMAIN memory_layout \subseteq Word
  /\ \A address \in DOMAIN memory_layout : memory_layout[address] \in Word
  /\ DOMAIN symbol_table \subseteq Symbols
  /\ \A name \in DOMAIN symbol_table : symbol_table[name] \in Word
  /\ \A id \in DOMAIN base_of : base_of[id] \in Word
  /\ code \in Seq(Instruction)
  /\ entry_address \in Word
  /\ exception \in Exceptions \cup {"none"}

(* The interface to the machine: when assemble returns, its result is a    *)
(* program the machine can be started on, with one start, at the entry     *)
(* address, and one stop (translate_program's two checks).                 *)
AssembledIsRunnable == pass = "done" => Runnable(Image)

(* The cells .set fixes, and the lines allocate_range has placed. *)
FixedCells == { base_of[id] : id \in { id \in DOMAIN base_of :
                  LineAt(id).variant = "LINE_SET" /\ TakesMemory(LineAt(id)) } }

Allocated == { id \in DOMAIN base_of :
                 LineAt(id).variant \in {"LINE_WORDS", "LINE_RESERVED"} }

Before(a, b) == (a[1] = b[1] /\ a[2] < b[2]) \/ (a[1] = "data" /\ b[1] = "bss")

PreviousEnd(id) ==
  LET ends == {0} \cup { base_of[other] + Size(LineAt(other)) :
                           other \in { other \in Allocated : Before(other, id) } }
  IN  CHOOSE end \in ends : \A other \in ends : other <= end

(* allocate_range wastes no memory: a .word or .reserved_word line gets    *)
(* the lowest addresses behind the line allocated before it (bss after     *)
(* data) that .set leaves free, although the search skips what it knows to *)
(* collide.                                                                *)
LowestFit ==
  \A id \in Allocated :
    /\ base_of[id] >= PreviousEnd(id)
    /\ \A address \in PreviousEnd(id) .. (base_of[id] - 1) :
         (address .. (address + Size(LineAt(id)) - 1)) \cap FixedCells # {}

ComesCloser ==
  /\ pass' # "layout_code" => base_address <= base_address'
  /\ \/ pass' = Following(pass)
     \/ /\ pass' = pass
        /\ line <= Len(program[SectionOf(pass)]) /\ line' = line + 1
     \/ /\ UNCHANGED <<pass, line>>
        /\ \E cell \in FixedCells : base_address <= cell /\ cell < base_address'

(* Every step that does not throw comes closer to an end: it goes on to    *)
(* the next pass or the next line, or it is a round of allocate_range that *)
(* leaves a cell of a .set line behind, which no later round can meet,     *)
(* because the base does not go back while memory is laid out.             *)
AssemblyAdvances == [][exception' = "none" => ComesCloser]_vars

(* The search of allocate_range comes to an end, so assemble returns or    *)
(* throws on every program.                                                *)
AssemblyTerminates == <>(~Working)

(* Refinement: the passes implement the loader, which knows of no order.   *)
L == INSTANCE Loader WITH
  place   <- [ id \in { id \in DOMAIN base_of : TakesMemory(LineAt(id)) } |-> base_of[id] ],
  outcome <- CASE exception # "none" -> [status |-> "refused"]
               [] pass = "done"      -> [status |-> "loaded", image |-> Image]
               [] OTHER              -> [status |-> "working"]

(* Every program is laid out in disjoint cells and loaded with the meaning *)
(* its lines have, or refused for a reason: forward references, .set,      *)
(* labels and relative operands in any mix.                                *)
ImplementsLoader == L!Spec
=============================================================================
