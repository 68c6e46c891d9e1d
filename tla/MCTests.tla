------------------------------ MODULE MCTests ------------------------------
(***************************************************************************)
(* The instruction tests of the repository as programs of Main, and the    *)
(* results expected.json demands of them; and procedures in the calling    *)
(* convention of the longer examples.  Operands have 8 bits here; the      *)
(* tests' largest operand, largest word and 0x80007FFF become the          *)
(* corresponding words.  Main is instantiated rather than extended because *)
(* the laws of the bitwise operators are too many to evaluate at this      *)
(* width; the narrower instances have them evaluated.                      *)
(***************************************************************************)
EXTENDS Bitwise, Sequences, Functions

CONSTANTS label_t, label_top, label_bot, label_data, label_value   \* of the tests

Sign == 128
Half == 2 * Sign * Sign

LargestOperand  == Sign - 1
LargestWord     == Half - 1
SmallestAndOnes == -Half + Sign - 1

Unsigned(a) == a % (2 * Half)
Signed(u)   == IF u >= Half THEN u - 2 * Half ELSE u
AndBits(a, b) == Signed(Unsigned(a) & Unsigned(b))
OrBits(a, b)  == Signed(Unsigned(a) | Unsigned(b))
XorBits(a, b) == Signed(Unsigned(a) ^^ Unsigned(b))
Rotate(a, n) ==
  LET k == n % 16
  IN  Signed(((Unsigned(a) * 2^k) % (2 * Half)) + (Unsigned(a) \div 2^(16 - k)))
Left(a, n)  == Rotate(a, n)
Right(a, n) == Rotate(a, -n)

-----------------------------------------------------------------------------
(* Operands and instructions, written as in the tests. *)
none   == [variant |-> "NO_OPERAND"]
sym(s) == [variant |-> "PRIMITIVE_SYMBOL", value |-> s]
c(n)   == [variant |-> "PRIMITIVE_CONSTANT", value |-> n]
plus(s, n) == [variant |-> "COMPLEX_ADD", lhs |-> sym(s), rhs |-> c(n)]
far(s)     == [ variant |-> "COMPLEX_SUB", lhs |-> sym(s),
                rhs |-> [variant |-> "PRIMITIVE_RELATIVE", value |-> 1] ]

f(op, operand) == [ variant |-> "LINE_INSTRUCTION", labels |-> <<>>,
                    op |-> op, back |-> FALSE, operand |-> operand ]
b(op, operand) == [f(op, operand) EXCEPT !.back = TRUE]
fw(op) == f(op, none)
bw(op) == b(op, none)
on(label, l) == [l EXCEPT !.labels = <<label>>]
word(label, words) == [variant |-> "LINE_WORDS", labels |-> <<label>>, data |-> words]

pushc(n) == f("pushc", c(n))
popc(n)  == b("pushc", c(n))
xorhc(n) == f("xorhc", c(n))
inc(n)   == f("inc", c(n))
dec(n)   == b("inc", c(n))
to(s)    == f("branch", sym(s))
nop      == fw("nop")
call     == fw("call")
swap     == fw("swap")
dup      == fw("dup")
undup    == bw("dup")
bury     == fw("bury")
dig      == bw("bury")
neg      == fw("neg")
pushtrue == fw("pushtrue")
load     == f("load", c(0))
store    == b("load", c(0))
nops(n)  == [i \in 1 .. n |-> nop]

-----------------------------------------------------------------------------
(* A test is a file and the values it must print, the topmost first.       *)
File(lines, words) == [code |-> lines, data |-> words, bss |-> <<>>]

WithData(words, lines, result) ==
  [source |-> File(<<fw("start")>> \o lines \o <<bw("start")>>, words), result |-> result]

Test(lines, result) == WithData(<<>>, lines, result)

ConstantTests ==
  { Test(<<>>, <<>>), Test(<<nop>>, <<>>), Test(<<pushc(1)>>, <<1>>),
    Test(<<pushc(SmallestAndOnes)>>, <<-1>>),
    Test(<<pushc(SmallestAndOnes), xorhc(SmallestAndOnes)>>, <<SmallestAndOnes>>),
    Test(<<pushc(SmallestAndOnes), xorhc(SmallestAndOnes), xorhc(SmallestAndOnes)>>, <<-1>>),
    Test(<<pushc(LargestOperand)>>, <<LargestOperand>>),
    Test(<<pushc(LargestOperand), xorhc(LargestOperand)>>, <<LargestOperand>>),
    Test(<<pushc(LargestWord)>>, <<LargestOperand>>),
    Test(<<pushc(LargestWord), xorhc(LargestWord)>>, <<LargestWord>>),
    Test(<<pushc(1), popc(1)>>, <<>>),
    Test(<<pushc(-1), xorhc(-1), xorhc(-1), popc(-1)>>, <<>>),
    Test(<<pushc(LargestOperand), xorhc(LargestOperand), popc(LargestOperand)>>, <<>>) }

StackTests ==
  { Test(<<pushc(LargestOperand), dup>>, <<LargestOperand, LargestOperand>>),
    Test(<<pushc(SmallestAndOnes), xorhc(SmallestAndOnes), dup>>,
         <<SmallestAndOnes, SmallestAndOnes>>),
    Test(<<pushc(1), dup, undup>>, <<1>>), Test(<<pushc(1), pushc(1), undup>>, <<1>>),
    Test(<<pushc(1), pushc(1), swap>>, <<1, 1>>), Test(<<pushc(1), pushc(2), swap>>, <<1, 2>>),
    Test(<<pushc(1), pushc(2), swap, swap>>, <<2, 1>>),
    Test(<<pushc(1), pushc(2), pushc(3), dig, swap, popc(3), swap, popc(2)>>, <<1>>),
    Test(<<pushc(2), pushc(1), pushc(1), dig>>, <<2, 1, 1>>),
    Test(<<pushc(2), pushc(1), pushc(1), dig, bury, popc(1), popc(1), popc(2)>>, <<>>),
    Test(<<pushc(1), pushc(1), pushc(2), bury>>, <<1, 1, 2>>) }

FrameTests ==
  LET alloc(n)   == f("allocpar", c(n))
      release(n) == b("allocpar", c(n))
  IN  { Test(<<alloc(0)>>, <<>>), Test(<<alloc(2)>>, <<0, 0>>),
        Test(<<alloc(10)>> \o [i \in 1 .. 10 |-> popc(0)], <<>>),
        Test(<<release(0)>>, <<>>), Test(<<alloc(2), release(2)>>, <<>>),
        Test(<<pushc(0), pushc(0), pushc(0), release(3)>>, <<>>),
        Test(<<f("asf", c(0)), b("asf", c(0))>>, <<>>),
        Test(<<f("asf", c(3)), f("pushl", c(1)), popc(0), b("asf", c(3))>>, <<>>),
        Test(<<f("asf", c(3)), pushc(0), b("pushl", c(1)), b("asf", c(3))>>, <<>>) }

ControlTests ==
  LET uncall == fw("uncall")
      pusht  == f("pushc", far(label_t))
  IN  { Test(<<pusht, call>> \o nops(7) \o <<on(label_t, call)>>, <<8>>),
        Test(<<pushc(0), to(label_t)>> \o nops(7) \o <<on(label_t, call)>>, <<8>>),
        Test(<<pushc(0), to(label_t), on(label_t, call), popc(1)>>, <<>>),
        Test(<<pusht, uncall>> \o nops(7) \o <<on(label_t, uncall), popc(8)>>, <<>>),
        Test(<<on(label_top, to(label_bot))>> \o nops(7) \o <<on(label_bot, to(label_top))>>, <<>>),
        [ source |-> File(
            <<fw("start"), pusht, uncall, f("pushm", sym(label_value)), undup, bw("start")>>
              \o nops(5) \o
            << on(label_top, to(label_bot)), on(label_t, call), neg, f("pushm", sym(label_value)), inc(10),
               b("pushm", sym(label_value)), on(label_bot, to(label_top)) >>,
            <<word(label_value, <<c(0)>>)>>),
          result |-> <<-10>> ] }

(* The comparison of the two values, which stay, and its result popped.    *)
CompareTests ==
  LET Compared(op, x, y, flag) ==
        Test(<<pushc(x), pushc(y), fw(op), bw(flag)>>, <<y, x>>)
      Uncompared(op, x, y, flag) ==
        Test(<<pushc(x), pushc(y), fw(flag), bw(op)>>, <<y, x>>)
  IN  { Compared("cmpusheq", 1, 0, "pushfalse"), Compared("cmpushne", 1, 0, "pushtrue"),
        Compared("cmpushlt", 1, 0, "pushtrue"),  Compared("cmpushle", 1, 0, "pushtrue"),
        Compared("cmpushle", 0, 1, "pushfalse"), Compared("cmpushlt", 0, 1, "pushfalse"),
        Compared("cmpusheq", 1, 1, "pushtrue"),  Compared("cmpushne", 1, 1, "pushfalse"),
        Compared("cmpushlt", 1, 1, "pushfalse"), Compared("cmpushle", 1, 1, "pushtrue"),
        Uncompared("cmpusheq", 0, 1, "pushfalse"), Uncompared("cmpushne", 0, 1, "pushtrue"),
        Uncompared("cmpushlt", 0, 1, "pushfalse"), Uncompared("cmpushle", 0, 1, "pushfalse"),
        Uncompared("cmpushle", 1, 0, "pushtrue"),  Uncompared("cmpushlt", 1, 0, "pushtrue"),
        Uncompared("cmpusheq", 1, 1, "pushtrue"),  Uncompared("cmpushne", 1, 1, "pushfalse"),
        Uncompared("cmpushlt", 1, 1, "pushfalse"), Uncompared("cmpushle", 1, 1, "pushtrue") }

UpdateTests ==
  { Test(lines, <<42>>) : lines \in
      { <<pushc(20), inc(22)>>, <<pushc(20), dec(-22)>>, <<pushc(-42), neg>>,
        <<pushc(42), inc(0)>>, <<pushc(42), dec(0)>>,
        <<pushc(40), pushc(2), fw("add"), swap, popc(40)>>,
        <<pushc(2), pushc(44), bw("add"), swap, popc(2)>>,
        <<pushc(42), pushc(0), fw("add"), undup>>,
        <<pushc(0), pushc(42), bw("add"), swap, popc(0)>>,
        <<pushc(40), pushc(2), fw("xor"), swap, popc(40)>>,
        <<pushc(42), pushc(0), fw("xor"), undup>>,
        <<pushc(1), pushc(84), bw("shl"), swap, popc(1)>>,
        <<pushc(0), pushc(42), fw("shl"), swap, popc(0)>>,
        <<pushc(0), pushc(42), bw("shl"), swap, popc(0)>>,
        <<pushc(0), pushc(42), fw("arpushadd"), bury, popc(42), popc(0)>>,
        <<pushc(40), pushc(2), fw("arpushadd"), bury, popc(2), popc(40)>>,
        <<pushc(0), pushc(42), fw("arpushsub"), bury, popc(42), popc(0)>>,
        <<pushc(6), pushc(48), fw("arpushsub"), bury, popc(48), popc(6)>> } }

(* The result of the two values popped, then the values. *)
ArithmeticTests ==
  LET Computed(op, x, y, result) ==
        Test(<<pushc(x), pushc(y), fw(op), popc(result), popc(y), popc(x)>>, <<>>)
      Logical(op, x, y, result) ==
        Test(<<fw(x), fw(y), fw(op), bw(result), bw(y), bw(x)>>, <<>>)
  IN  { Computed("arpushmul", 2, 6, 12), Computed("arpushmul", 0, 6, 0),
        Computed("arpushmul", 6, 0, 0),  Computed("arpushdiv", 6, 6, 1),
        Computed("arpushdiv", 6, 0, 0),  Computed("arpushdiv", 6, 5, 0),
        Computed("arpushmod", 5, 6, 1),  Computed("arpushmod", 6, 5, 5),
        Computed("arpushmod", 6, 0, 0),  Computed("arpushor", 1, 16, 17),
        Computed("arpushand", 1, 16, 0), Computed("arpushand", 17, 16, 16),
        Computed("arpushor", 17, 16, 17),
        Logical("arpushor", "pushtrue", "pushtrue", "pushtrue"),
        Logical("arpushor", "pushtrue", "pushfalse", "pushtrue"),
        Logical("arpushor", "pushfalse", "pushfalse", "pushfalse"),
        Logical("arpushand", "pushfalse", "pushfalse", "pushfalse"),
        Logical("arpushand", "pushfalse", "pushtrue", "pushfalse"),
        Logical("arpushand", "pushtrue", "pushtrue", "pushtrue"),
        Test(<<pushtrue, neg, bw("pushfalse")>>, <<>>),
        Test(<<pushc(21), pushc(21), pushc(42), bw("arpushadd"), undup, popc(21)>>, <<>>) }

HeapTests ==
  { WithData(<<word(label_data, <<c(42)>>)>>, <<f("pushm", sym(label_data))>>, <<42>>),
    WithData(<<word(label_data, <<c(0)>>)>>,
             <<pushc(42), b("pushm", sym(label_data)), f("pushm", sym(label_data))>>, <<42>>),
    WithData(<<word(label_data, <<c(42)>>)>>,
             <<f("pushc", sym(label_data)), load, swap, b("pushc", sym(label_data))>>, <<42>>),
    WithData(<<word(label_data, <<c(0)>>)>>,
             << f("pushc", sym(label_data)), pushc(42), store, b("pushc", sym(label_data)),
                f("pushm", sym(label_data)) >>, <<42>>),
    WithData(<<word(label_data, <<c(0), c(42)>>)>>,
             << f("pushc", plus(label_data, 0)), f("pushc", plus(label_data, 1)), f("memswap", c(0)),
                b("pushc", plus(label_data, 1)), b("pushc", plus(label_data, 0)),
                f("pushm", plus(label_data, 0)) >>, <<42>>) }

Tests == ConstantTests \cup StackTests \cup FrameTests \cup ControlTests \cup
         CompareTests \cup UpdateTests \cup ArithmeticTests \cup HeapTests

(* Procedures called and uncalled in the manner of simple-procedure.rsc:   *)
(* straight code that updates the argument or a cell.                      *)
Procedure(argument, body) ==
  LET distance == f("pushc", far(label_t))
      returned == b("pushc", [ variant |-> "COMPLEX_SUB", rhs |-> sym(label_t),
                               lhs |-> [variant |-> "PRIMITIVE_RELATIVE", value |-> -1] ])
  IN  File(<< fw("start"), pushc(argument), distance, call, returned,
              distance, fw("uncall"), returned, bw("start"),
              on(label_top, to(label_bot)), on(label_t, call), neg >>
             \o body \o <<on(label_bot, to(label_top))>>,
           <<word(label_value, <<c(-1)>>)>>)

Updates == { inc(1), dec(7), neg, xorhc(5), nop }
Bodies  == { <<swap, x, y, swap>> : x, y \in Updates } \cup
           { <<f("pushm", sym(label_value)), x, y, b("pushm", sym(label_value))>> :
               x, y \in Updates }

Arguments     == { -Sign, -1, 0, 3, LargestOperand }
Procedures(n) == { Procedure(n, body) : body \in Bodies }

Sources == { test.source : test \in Tests } \cup UNION { Procedures(n) : n \in Arguments }

-----------------------------------------------------------------------------
VARIABLES
  program, vm, looping, thread, breakpoints, remaining_steps, continue_running,
  last_input, configuration, phase, exit_code, printed, entropy, source, pass,
  line, base_address, memory_layout, symbol_table, base_of, code,
  entry_address, exception

M == INSTANCE Main WITH
  OPERAND_SIGN <- Sign, BitAnd <- AndBits, BitOr <- OrBits, BitXor <- XorBits,
  RotL <- Left, RotR <- Right, UNSAFE_OPERATIONS <- FALSE,
  StackSize <- 12, MemorySize <- 2, Images <- {}, Lines <- {},
  Symbols <- {label_t, label_top, label_bot, label_data, label_value},
  Programs <- Sources,
  Configurations <- {[debug |-> FALSE, measure |-> "NONE"]}

TestSpec == M!MainSpec

(* The machine has been constructed and executed, and the process is over. *)
Executed == phase = "exited" /\ program # <<>> /\ vm.fault # "out_of_memory"

(* Every instruction test that is parsed, and whose machine the            *)
(* constructor accepts, prints what expected.json says and exits with 0.   *)
ExpectedResults ==
  Executed /\ (\E test \in Tests : test.source = source) =>
    exit_code = 0 /\ [source |-> source, result |-> printed] \in Tests

(* Uncalling a procedure with what its call has computed undoes the call:  *)
(* only the argument is left, the memory is as it was, the machine runs    *)
(* forward again and no distance remains in br.                            *)
UncallUndoesCall ==
  \A n \in Arguments :
    Executed /\ source \in Procedures(n) =>
      /\ exit_code = 0 /\ printed = <<n>>
      /\ \A address \in DOMAIN memory_layout : vm.memory[address] = memory_layout[address]
      /\ vm.dir = 1 /\ vm.br = 0 /\ vm.fp = 0
=============================================================================
