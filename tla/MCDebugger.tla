----------------------------- MODULE MCDebugger -----------------------------
(***************************************************************************)
(* Instances of the debugger for TLC: the programs to debug and the lines  *)
(* a user types.                                                           *)
(***************************************************************************)
EXTENDS Debugger, MCWords, TLC

fw(op, n) == [op |-> op, back |-> FALSE, bits |-> operand_low_value(n)]
bw(op, n) == [op |-> op, back |-> TRUE,  bits |-> operand_low_value(n)]

start == fw("start", 0)
stop  == bw("start", 0)

Program(entry, code) == [code |-> code, entry |-> entry, layout |-> <<>>]

(* Straight code, a taken branch, an uncall that turns the machine round,  *)
(* an exception, a start behind other code, a popl that is refused, the    *)
(* popl that cannot be undone, and a stop that leads to its own start.     *)
Straight == Program(0, <<start, fw("pushc", 1), fw("neg", 0), bw("pushc", -1), stop>>)
Branches == Program(0, <<start, fw("branch", 3), fw("inc", 1), fw("nop", 0),
                         fw("branch", -3), fw("pushc", 1), stop>>)
Uncalls  == Program(3, <<fw("branch", 3), fw("uncall", 0), fw("neg", 0), start,
                         fw("pushc", -2), fw("uncall", 0), bw("pushc", 2), stop>>)
Throws   == Program(0, <<start, fw("pushc", 1), bw("pushc", 0), stop>>)
LateStart == Program(2, <<fw("nop", 0), fw("nop", 0), start, fw("dup", 0), stop>>)
Locals   == Program(0, <<start, fw("pushc", 1), fw("pushc", 2), bw("pushl", 0),
                         bw("pushc", 2), stop>>)
SelfPops == Program(0, <<start, fw("pushc", 0), bw("pushl", 0), fw("nop", 0), stop>>)
Ring     == Program(2, <<fw("branch", 3), stop, start, fw("branch", -3)>>)

(* And every pair of instructions that move, fail or turn round.           *)
Moves == { fw("pushc", 1), bw("pushc", 1), fw("pushc", -1), bw("pushl", 0),
           fw("branch", 2), fw("branch", -1), fw("brf", -2), fw("call", 0),
           fw("uncall", 0), fw("neg", 0) }

Pairs == { Program(0, <<start, fw("pushc", 1), a, b, stop>>) : a, b \in Moves }

Named    == { Straight, Branches, Uncalls, Throws, LateStart, SelfPops, Ring }
Few      == { Locals, SelfPops }
Debugged == Named \cup Pairs

-----------------------------------------------------------------------------
Line(command)          == [command |-> command, args |-> <<>>]
Typed(command, number) == [command |-> command, args |-> <<number>>]

(* Moving about: forward, back, not at all, and up to breakpoints.         *)
Walks ==
  { Line("step"), Typed("step", <<2>>), Typed("step", <<-2>>),
    Typed("step", <<0>>), Typed("step", <<-HalfRange>>),
    Line("run"), Typed("breakpoint", <<2>>), Typed("clear", <<2>>),
    Line("invert"), Line("quit") }

(* Looking and changing, within bounds and outside.                        *)
Cell(name, address)     == [name |-> name, address |-> address]
Sets(component, number) ==
  [command |-> "set", args |-> <<[component |-> component, value |-> number]>>]

Edits ==
  { Line("step"), Typed("step", Rejected), Typed("step", <<-1>>), Line("info"),
    Typed("breakpoint", Rejected), Typed("breakpoint", <<3>>), Line("run"),
    Line("list"), Line("blank"), Line("invert"),
    Typed("inspect", Cell("M", 0)), Typed("inspect", Cell("P", 9)),
    Sets(Cell("sp", 0), <<StackSize + 1>>), Sets(Cell("pc", 0), <<1>>),
    [ command |-> "set",
      args |-> << [component |-> Cell("M", 1), value |-> Rejected],
                  [component |-> Cell("none", 0), value |-> <<1>>],
                  [component |-> Cell("M", 1), value |-> <<1>>],
                  [component |-> Cell("S", 0), value |-> <<1>>],
                  [component |-> Cell("fp", 0), value |-> <<1>>],
                  [component |-> Cell("br", 0), value |-> <<2>>] >> ],
    Sets(Cell("S", MemorySize), <<1>>) }
=============================================================================
