# Kcats in TLA+

A model of the reversible stack machine *Kcats* and proofs about it.  The
machine executes every program forwards and backwards; its instructions come in
pairs of inverses, and an instruction that could not be undone has to throw.
That claim is what this project is about.

- [The system](#the-system)
- [Modules](#modules)
- [How the model corresponds to the code](#how-the-model-corresponds-to-the-code)
- [Runs](#runs)
- [Bounds](#bounds)
- [Fairness and termination](#fairness-and-termination)
- [What is proved](#what-is-proved)
- [Disagreements between code and documentation](#disagreements-between-code-and-documentation)
- [What is not modelled](#what-is-not-modelled)
- [Plan](#plan)

## The system

The program is one process with one thread.  It reads an assembly file,
assembles it, constructs a machine, runs it (or hands it to a debugger that
reads commands from the terminal) and prints the stack.

| part | source | state | operations | correct when |
|---|---|---|---|---|
| scanner, parser | `syntax/scanner.flex`, `parser.y`, `csyntax.c`, `syntax.cpp` | three lists of lines: code, data, bss | one list is prepended to per line, the lists are copied into vectors | every line ends up in its section, in the order of the text |
| assembler: symbols | `assembler/symbols.cpp` | memory layout, symbol table, base address of each line | `layout_fixed`, `layout_section`, `allocate_range`, `enter_symbol(s)` | allocated ranges are disjoint from each other and from `.set` addresses; a symbol has one value |
| assembler: memory | `assembler/memory.cpp`, `eval.cpp` | memory layout | `build_memory`, `eval` | every reserved cell gets its own value |
| assembler: translation | `assembler/translation.cpp`, `syntax/instructions.*` | code, entry address | `translate_program`, operand encoding | one start, one stop; decoding an operand gives back what was written |
| virtual machine | `machine/machine.cpp`, `machine.h` | `dir pc br sp fp`, memory, stack, `running` | constructor, `step_instr` (36 pairs of instructions), `step_pc`, `step`, `run` | every step that does not throw is undone by a step backwards; no access outside stack and memory; nothing is left above `sp` |
| fast build | the macros of `machine.cpp`, `CMakeLists.txt` | the same | the same without checks | computes what the checked build computes on programs that need no check |
| debugger | `debug/*` | breakpoints, remaining steps, "continue" flag, last input, exit flag | prompt loop and eleven commands | a command moves the machine along its history, breakpoints stop it |
| entropy report | `entropy/*` | none | a count over the final state | counts every word that differs from the initial state |
| command line | `main.cpp` | options | options, load, run, report, exit code | sizes are what was asked for, exit code says whether the run ended |
| scanner generator | `scannergen/main.cpp` | none | prints flex rules at build time | |

Interaction is by calls in one direction: `main` calls `parse_file`, then
`assemble`, then the constructor of `VM` with the assembler's code (kept by
reference), layout and entry address, then `run` or `run_with_debugger`.  The
debugger shares the `VM` object with the machine and calls its `step` and
`step_pc`; errors travel as C++ exceptions to the handler in `main`.

There is no concurrency, no persistence and no message.  What is hard is the
interplay of `br`, `dir` and `pc` over several steps, the convention that slots
above `sp` are zero, the bounds of the stack (checked by hand, instruction by
instruction), the edges of 32-bit arithmetic, and long sequences of legal
instructions that meet at a point where the inverse instruction refuses; in the
debugger, the four variables that decide whether it stops (`continue_running`,
`remaining_steps`, the breakpoints, the direction) and that every command
leaves in some state for the next; in the parser, lists built backwards while
right-recursive rules unwind.  `PROJECT.json` lists these hazards line by line.

## Modules

| module | models | uses |
|---|---|---|
| `Words` | `int32_t` arithmetic, with the width as a parameter and the bitwise operators as constants | |
| `Instructions` | the table of instruction pairs, encoding and decoding of operands | `Words` |
| `Machine` | `struct VM`, the checks, every instruction, `step_pc`, `step`, `run`, the constructor; the properties of one machine | `Instructions` |
| `BuildModes` | the checked build and the fast build side by side | `Machine` twice |
| `Syntax` | what the parser hands over: operands, lines and sections; `eval` and `restrict_eval` | `Instructions` |
| `Parser` | the actions of the grammar line by line, the unwinding, `parse_file` | `Syntax` |
| `Assembler` | `resolve_symbols`, `build_memory`, `translate_program`, pass by pass and line by line, with their exceptions | `Syntax`, `Loader` (refinement) |
| `Loader` | what the assembler promises, without passes, tables or an order | `Syntax` |
| `Debugger` | the loop of `run_with_debugger`, the prompt, the eleven commands | `Machine` |
| `Timeline` | what the debugger promises: one line of machines and a user who moves along it | `Machine` |
| `DebuggerHistory` | `Debugger` with history variables, and the refinement | `Debugger`, `Timeline` (refinement) |
| `Entropy` | `report_entropy` | `Machine` |
| `CommandLine` | the loop of `main` over its arguments, `parse_size`, help, version and refusal | |
| `Main` | the `try` block of `main`: parse, assemble, construct, execute, report, exit | `Assembler`, `Debugger`, `Entropy` |
| `MCWords` | the bitwise operators, on the bits of small words | `Words` |
| `MCMachine`, `MCBuildModes`, `MCAssembler`, `MCDebugger`, `MCHistory`, `MCMain`, `MCCommandLine`, `MCParser` | sets of programs, lines typed, texts and command lines for TLC | `MCWords` |
| `MCTests` | the instruction tests of the repository with their expected results, and procedures in the calling convention of the examples | `Main` |
| `WordsProofs`, `MachineProofs` | theorems about words and about the machine, its reversibility included | `Words`, `Machine` |
| `BuildModesProofs` | theorems about the two builds | `BuildModes`, `WordsProofs` |
| `DebuggerProofs` | theorems about the debugger; it implements the timeline | `DebuggerHistory`, `MachineProofs` |
| `AssemblerProofs` | theorems about the assembler; it implements the loader | `Assembler`, `WordsProofs` |
| `ParserProofs` | theorems about the parser | `Parser`, `WordsProofs` |
| `CommandLineProofs` | theorems about the command line | `CommandLine` |
| `MainProofs` | theorems about the process | `Main`, `DebuggerProofs`, `AssemblerProofs` (as an instance) |

`Main` is the composition.  What it leaves to others: it starts from a set of
parsed programs (`Parser` shows how they come about) and of options
(`CommandLine`).  `Machine` and `Assembler` also meet in the predicate
`Runnable` of `Instructions`: `Machine` assumes it of every image it starts
from (`ImageAssumption`), and run `assembler` checks it of every image
`assemble` returns (`AssembledIsRunnable`).  `Main` does not assume it: there the
image comes from the assembler, of which `AssembledRuns` proves it.

## How the model corresponds to the code

**State.**  The variable `vm` is a record with the fields of `struct VM`.  The
field `counter` is left out: it is counted up and printed, nothing reads it.
The variable `program` is the vector the machine holds a reference to.
`looping` is the position of the only thread: inside the `do`/`while` of `run`
or behind it.

**Instructions.**  An instruction is an operator from a machine to a machine
(`Asf(s, n)`, `Popl(s, n)`, ...).  The macros of the checked build are operators
around it, nested in the order of the source: `PUSHES_VALUES(s, 1,
REQUIRES_LOCAL(s, n, ...))` throws what the first failing check throws.  `step`
is the `switch`; `Fw` and `Bw` are its two columns, selected by the direction
bit of the opcode and the direction of execution together.  One `Run` step of
the model is one `step()` of the code: fetch, execute, `step_pc`.

**Instruction words** are records of the pair's name, the direction bit and the
operand half.  Opcode numbers are abstracted; the operand half is a number of
the operand's width and is decoded as the code decodes it, sign-extended for
all instructions but `xorhc`, which takes the raw bits.

**Exceptions.**  `fault` holds the exception a step threw.  A throwing step
keeps the old machine: the exception leaves `run` or the debugger, `main`
destroys the machine and nobody can see what the instruction had written before
it threw.

**Undefined behaviour.**  Three places, treated according to what the build
does.  Signed sums, negations and products wrap around (x86-64, where the code
relies on it in `step_pc` and `inc`).  `/` and `%` by zero, and of the smallest
word by -1, end the process with `SIGFPE`.  An access to the stack outside its
storage leads to `fault = "undefined"`, after which nothing is claimed.  The
constructor reads `memory_layout.end()->first`; the value can be anything, so
the verdict "does not fit" is a free choice whenever the layout is not empty.
(With libstdc++ the word read is the number of entries of the layout.)

**Programs.**  `Images` is the set of results of `assemble` a run starts from.
`ImageAssumption` says what is required of them (`Runnable`): one `start`, where
execution begins, one `stop`, a layout of words.  `translate_program` throws
otherwise.
The default case of the `switch` needs an opcode outside the table, which the
assembler does not emit, and is left out for that reason.

**Assembler.**  A step is what a pass does with one line; where the code
searches (`allocate_range` tries addresses until none collides), a step is one
round of the search.  `pass` and `line` are the position of the thread in the
nested loops, `base_address`, `memory_layout` and `symbol_table` the variables
of the code, `base_of` the field `base_address` of each line.  An exception
ends everything; `illegal_section_content` cannot be thrown, because the parser
sorts the lines into the sections before.  Names are model values and an
operand is a record of the shape the parser's actions build.

**The loader** is the specification the assembler is held against.  Each line
that takes memory claims free cells, in any order; a program that is not
defective is then loaded, its cells and instructions meaning what was written;
a defective one, or one for which the memory is too small behind some choice of
claims, is refused.  `Assembler` implements it with `place` read off `base_of`
and `outcome` off `pass` and `exception` (`L == INSTANCE Loader WITH ...`).
What "means what was written" leaves open is named there: an operand of more
bits than an instruction has is cut silently, so decoding gives back only what
fits; `pushc` and `xorhc` together give back every word.

**Debugger.**  `thread` is the position of the only thread: at the top of the
`do`/`while` loop (`Check`), at the prompt (`Command`, `EndOfInput`), or before
`step` (`Step`).  `breakpoints`, `remaining_steps`, `continue_running` and
`last_input` are the fields of `debugger_state`; `step` of a negative number
turns the machine and stores the negated number as an unsigned one, as the code
does, the smallest number included.  A line is a command's name and its
arguments; a number `std::stoi` rejects is an empty sequence.  An empty line
stands for the last one.  Three places are undefined in the code and are a free
choice in the model: the index of `inspect` and `set`, the slots the prompt
prints after `set` has moved `sp` or `fp`, and the first word of a line of
blanks.  `S[n]` is a cell of the memory and `M[n]` a slot of the stack, as in
the code.

**The timeline** is the specification the debugger is held against: positions
of one line of machines; a goal so many instructions ahead or behind, or a run
to the next breakpoint; a tape of the machines seen.  A position visited again
must show the machine on the tape, whatever path led there.  `DebuggerHistory`
adds the position, the direction the user faces and the tape as history
variables, which never restrict the debugger, and maps `remaining_steps` and
`continue_running` to the request.  Once `set` is used the line is left, so the
refinement is checked for users who do not use it, and `SoundUntilEdited` for
those who do.

**Main.**  `phase` is the position in the `try` block; an exception leads to
`Caught` (exit code 1), a trap of the processor to `Killed`, undefined
behaviour to any of the exit codes.  The report reads the slots below `sp`
unchecked.

**Parser.**  A line of text is what stands between two `LINEBREAK` tokens, as a
record of its labels, its head and the operands its writer spells.  `Parser`
reads line by line with the parser's own line counter, keeps what it has read on
its stack, and then unwinds, prepending each line to its section; an error is
recovered from at the end of its line, and the program is thrown away at the end.
`OperandsOf` are the operands bison finds in what is spelled, and `Accepted` the
lines it takes.  The two are not the grammar's: behind an `@` it is ambiguous, and
bison shifts.  A number behind it becomes its number, so that `.word @ 5` has one
operand, `inc @ 2` is accepted and `.set @ 5` is not; behind `[@` a sign is that
of the `@`, so that `[@ - 3]` is no difference and `[@ + x]` is refused.  The
characters of a token are the scanner's business and are not modelled, their
values are: `strtol` saturates at the ends of a `long`, here of twice the bits of
an `int` as on 64-bit Linux, and the scanner cuts the result to an `int`.

**Command line.**  An argument is what option it spells and what `parse_size`
sees in it: digits and the character behind them.  One action per branch of the
loop.  `parse_size` wraps at every digit and at every unit it falls through.

## Runs

| run | question | states |
|---|---|---|
| `machine` | Every instruction, with operands -1 to 2, on whatever three pushes, frames or loads set up, and every order of three transfers and operations on what they depend on: is each step undone by one step backwards?  Are the checks enough, is nothing left above `sp`, does the fast build do the same, does `run` come back?  The constructor is tried with layouts that are empty, fit, fill and exceed the memory. | 332 877 |
| `assembler` | Programs with up to two `.data` lines and one `.bss` line of every kind, with lines around three `.set` addresses, and with instructions with every kind of operand and labels before, on and behind them: laid out in disjoint cells as low as it goes, translated to what was written, and startable, or refused for a reason?  Does every step come closer to one of the two? | 31 972 |
| `debug_session` | 107 programs, walked through by `step`, `step 2`, `step -2`, `step 0`, the smallest number of steps, `run`, a breakpoint, `clear`, `invert` and `quit` in every order: is the session a walk along one line of machines, and is no machine on it twice? | 96 967 |
| `debug_edit` | Users who also `set` registers, slots and cells to what fits and what does not, `inspect` what does not exist and type what is no number: does the machine stay sound up to the first `set`? | 195 208 |
| `main` | 487 programs of jumps, frames, heap accesses and divisions, from parsed lines to the exit code, with either measure of entropy or under the debugger: do jumps land on their labels, does the process end, what does an entropy of zero mean, does stepping back to the beginning leave nothing? | 176 629 |
| `instruction_tests` | Do the repository's instruction tests give what `expected.json` says, and does `uncall` undo a `call` that was made from another place: procedures in the calling convention of `examples/simple-procedure.rsc`, all bodies of two operations on the argument or on the heap, on five arguments? | 22 968 |
| `command_line` | Is every command line of up to four arguments understood as it is written, sizes that wrap included? | 392 530 |
| `parser` | Does every text of up to four lines of thirteen kinds become the program it says, or none? | 269 941 |
| `popl_undo`, `capacity`, `full_memory`, `signal_exit` | What the documentation says, against the code (see below) | violated |

The properties:

- `TypeOK`: registers, slots and cells hold words.
- `CleanAboveSp`: the slots from `sp` upwards are zero.  The instructions that
  raise `sp` by an exchange (`pushl`, `pushm`, `load`) or without writing
  (`allocpar`, `asf`) rely on it; all that lower `sp` have to establish it.
- `NoUndefinedAccess`: the hand-written checks cover every slot an instruction
  reaches.
- `StepsAreUndone`: if a step does not throw, then turning round
  (`invert_vm_direction` of the debugger: flip `dir`, one `step_pc`) and making
  one step leads to the machine before, turned round.  Registers, the whole
  stack and the whole memory are compared.  The one exception is named in the
  property: a `popl` onto the slot it pops.
- `ChecksAreTransparent`: a step of the checked build that succeeds, or fails
  for a reason both builds have, is a step of the fast build with the same
  result.
- `RunTerminates`: see below.
- `LowestFit`: `allocate_range` skips ahead by what it knows to collide, and
  still finds the lowest address, so a line that fits is never pushed out of
  the memory by its own search.
- `ImplementsLoader`: every behaviour of the passes is one of the loader.
- `AssembledIsRunnable`: what `assemble` returns satisfies what the machine
  assumes.
- `AssemblyAdvances`: every step that does not throw goes on to the next pass or
  line, or is a round of `allocate_range` that leaves a cell of a `.set` line
  behind; the base address does not go back while memory is laid out.
- `AssemblyTerminates`: the search ends.
- `ImplementsTimeline`: every session without `set` is one of the timeline: a
  step in either direction leads to the neighbouring position, `step n` comes to
  its prompt n instructions further on, `run` stops at the next breakpoint and
  nowhere else, a position visited again is the same again, and an instruction
  that has been executed can be undone.
- `NeverTwice`: no machine lies at two positions of a session.  A run that met a
  machine again would go round for ever; one of the programs (`Ring`) has a jump
  from its `stop` to its `start` and would, if a step forgot its jump.
- `SoundUntilEdited`: turning round anywhere, before the first instruction too,
  breaks none of the machine's invariants and reads no slot that is not there.
- `CommandsComeBack`: whatever lets the machine go comes back to the prompt or
  ends the session, `run` with no breakpoint on its way included.
- `LandsOnLabel`: what the assembler subtracts, the operand cuts, `branch` adds
  by direction and `step_pc` adds again meets at the label, also in a procedure
  that is executed backwards.
- `ZeroEntropyIsClean`: the count ignores the slots above `sp`, and zero means
  nevertheless that no slot and no cell has kept anything.
- `UncomputedIsClean`: a program stepped back over its `start` ends with exit
  code 0, an empty stack and no entropy, whatever was walked in between.  (Who
  turns round before the first step executes the instruction in front of `start`
  on a machine that does not run, and leaves behind what that one makes; two of
  the programs have such instructions.)
- `ProcessEnds`: without the debugger the process ends on every program.
- `ExpectedResults`: the tests of the repository hold in the model; they pin
  each instruction's meaning, which properties about inverses leave open.
- `UncallUndoesCall`: uncalling a procedure with what its call has computed
  leaves the argument, the memory as it was and the machine running forward.
- `MeansWhatIsWritten`: the roles of the arguments, given without a loop, are
  those the loop acts on; an argument taken as a size is nothing else as well,
  and nothing behind `--` is an option.  A size is the number it spells, of any
  length, modulo `size_t`.
- `ParsesWhatIsWritten`, `RefusesWhatIsNot`: the sections have the lines of the
  text in its order, with the labels that stand before each statement, however
  many lines away, and their line numbers; a text with a line bison does not
  accept, or with labels that no statement follows, gives no program, and every
  other text gives one.  What a line is, and whether it is accepted, is
  `OperandsOf` and `Accepted` for the parser and for the properties: they are about
  what becomes of the lines.

Each property is shown to depend on the code by a mutant of one definition,
kept beside the original (a dropped clear, an off-by-one in a check, `bury` in
the wrong direction, `dir` flipped with the built-in `!`, a jump that resets
`br`, a turn that does not move `pc`, a breakpoint that leaves the mode of `run`
in force, a base address that is not reset before the code, a list that is
appended to, ...).

## Bounds

Words have 6 bits (`OPERAND_SIGN = 4`, operands of 3 bits) and 16 bits in
`instruction_tests`; in the source they have 32 and 16.  The relation of the two
widths is kept: a word is twice as wide as an operand, so that `xorhc` and the
sign extension meet at the same bit.  Six bits have every edge of the
arithmetic: wrapping, the negation of the smallest word, negative rotation,
both trapping divisions.  The constants of the instruction tests that depend on
the width (the largest operand, the largest word) are replaced by the
corresponding ones.

In `machine` the stack has six slots and the memory two cells.  Three
instructions before the one under test fill the stack to its limit (an `asf 1`
takes two slots), so every check is met on both sides; runs with fewer values
meet underflow.

The assembler's runs have 6-bit words too, so addresses go from 0 to 31: small
enough for a `.reserved_word 31`, or a `.word` behind a `.set` at the end, to
run out of range, and for an operand (3 bits) to be cut.  Two names are enough
for a symbol to be used before and after its definition, defined twice, and
defined in another section.  Three `.set` addresses around lines of up to three
cells make the search collide more than once and end between two of them.

The debugger's programs have five to eight instructions with a stack of three
slots: two instructions of free choice give every pair of a turn, a jump, an
exception and an update, and seven named programs have what pairs cannot (a taken
branch between partners, a procedure run backwards, a `start` behind other
code, a jump from `stop` to `start`).  The user types any number of lines; the
states are finite without a bound.  Two values of `step` suffice for goals that
overlap a breakpoint or an end.

In `main` the programs have five lines and labels at four pairs of positions,
before, behind and on the same line.  In `command_line` four arguments are an
option with its size, a separator and a file; `size_t` has 20 bits and a
kilobyte 64, so that every unit is told apart; one number wraps in its last digit
and one by its unit.  In `parser` four lines hold two labels, the statement they
wait for, an error, and a line behind it; with words of 6 bits one number is
beyond an `int` and one beyond a `long`, and five lines have an `@` with a number
or a sign behind it.

`StackSize` and `MemorySize` are assumed below `HalfRange`, so that `sp` and
`fp` hold any stack position; the defaults of `main.cpp` (1024 and 102400) are
far below.

## Fairness and termination

`Spec` has weak fairness of `Next`: the process has one thread, `run` makes no
call that waits, and the operating system schedules it.

`RunTerminates` is not an accident of the programs chosen.  A step has at most
one predecessor (that is what reversibility means), so an execution that runs
into a cycle was on it from the start; but the first state has `running` false
and no step leads into the loop with `running` false.  So every run of finitely
many states ends, by `stop` or by an exception.  The run checks this for the
mechanism that could break it, the use of `br` over several steps: the mutant
that resets `br` after a jump has infinite executions.  The argument
itself is proved, but for its last step: `NoMachineTwice` and
`SessionsAreBounded` say that no execution repeats a machine and that there are
finitely many, for every program, in the checked build with a slot or more.

`Assembler` has weak fairness of its `Next` for the same reason: `assemble` is
called and computes.  `AssemblyTerminates` is about the search of
`allocate_range`: each round moves its address up, or throws.  That it does, and
that no other step stays at its line, is `AssemblyAdvances`, which is proved.

`DebuggerSpec` and `HistorySpec` have weak fairness of `Check` and `Step`, which
are what the loop does on its own; nobody is forced to type a line, nor to end
the session.  In `MainSpec` fairness is of every step but those at the prompt.
So `CommandsComeBack` says that the machine comes back to the user, not that the
user answers, and `ProcessEnds` is about runs without the debugger.
`CommandsComeBack` holds for the reason `RunTerminates` does, in both
directions, with one more case: turned round before its first instruction the
machine leaves the program and throws.

Deadlock is not checked: the machine stops when `run` returns, the assembler
when `assemble` returns or throws, the debugger when its session ends, the
process when it exits.

## What is proved

For every set of programs, every width of words, every stack and memory size
(zero included) and every family of bitwise operators with the laws of
`BitwiseAssumption`, `MachineProofs` proves

- `TypeCorrect`: `Spec => []TypeOK`, in both builds,

and for the checked build (`UNSAFE_OPERATIONS = FALSE`)

- `CleanAlways`: `Spec => []CleanAboveSp`
- `AccessDefined`: `Spec => []NoUndefinedAccess`

The last two come from one inductive invariant, `IInv == TypeOK /\ Sound(vm)`,
where `Sound` says that the machine is typed, has not reached outside its
stack, and is clean above `sp` with `sp` 0 or a slot.  None of the parts is
inductive by itself: an exchange with the slot at `sp` stays inside the stack
only because `sp` stays below the capacity, `sp` stays there only because the
checks compare it with the capacity as they do, and the stack stays clean only
because each exchange takes a zero from above and each clear leaves one.  `fp`
stays a word because stack positions are words (`SizeAssumption`).  Types alone
need less: `StepTyped` shows that a step of either build, from any stack pointer,
leaves words in all fields, because what reaches outside the stack is a fault and
what is inside is exchanged for words.

The proof has one lemma per check (what the check hands to what it guards), one
per family of instructions, `AfterSound` for `step_pc`, and `StepSound`, which
joins the families.  `WordsProofs` has the arithmetic: wrapping sums, products
and truncated quotients stay words.

`MachineProofs` also proves the claim the machine is built for, for every stack
of at least one slot:

- `Reversibility`: `Spec => StepsAreUndone`

The argument starts from `IInv`, which says that slots above `sp` are zero, and
from the fact that a machine in the loop has not thrown.  The first half takes
the instructions pair by pair (`Restores`): an instruction that did not throw
has passed its checks, so its outcome is one update of the machine; that outcome
passes the checks of the partner; and the two updates cancel.  Sums and
differences cancel (`AddSub`), negation and `xor` undo themselves, rotations are
inverse by assumption; a push takes over a zero slot and a pop leaves one.
`uncall` is a case of its own: it turns round itself.  `BackToInstruction`
proves that turning round and one `step_pc` lead from the target of a jump back
to the jump, since `br` still holds its distance.  `StepMirrored` and `Mirrors`
lift this to steps: the machine that has turned round fetches the same word and
reads it as the inverse instruction.

Both exceptions are needed: a `popl` onto the slot it pops is not undone
(below), and on a stack without slots `releasepar 0` succeeds while its inverse
`allocpar 0` throws, because the capacity check compares with `<=`.

`BuildModesProofs` proves that the fast build does what the checked build does,
for every program and every size:

- `Transparency`: `Spec => ChecksAreTransparent`, under `CheckedAssumption` (the
  machine that runs is the checked one)

The two builds are two instances of `Machine`.  What both compile alike is shown
equal (`SameTerms`, `SameArithmetic`, ...); each check is transparent around
whatever it guards (`SameRequires`, `SamePushes`, ...), `clear` because the value
that is left is the zero the check demands (`SameClear`); the instructions are
compositions of these.

`DebuggerProofs` proves, for the checked build and for every set of programs and
of lines typed:

- `DebuggerSound`: `HistorySpec => []SoundUntilEdited`

The machine's own invariant is about runs that begin at `start`; here the user
turns the machine round where no instruction does and stops it in between.  The
inductive invariant `DInv` says that until `set` is used the machine is sound
while the loop lives and that only two commands end the session in undefined
behaviour; the slots printed at the prompt exist because `sp` does not exceed
the stack (`PrintedExist`).  In both builds, with `set`:

- `DebuggerTypeCorrect`: `DebuggerSpec => []DebuggerTypeOK`

What is assumed of a line (`LinesAssumption`) is the shape the splitting of the
input and `std::stoi` give it: a number is a word or rejected.  A list of
assignments keeps the types by induction over its length (`AssignedTyped`).

The same module proves the refinement, for the checked build, stacks of at least
one slot and lines without `set`:

- `DebuggerImplementsTimeline`: `HistorySpec => ImplementsTimeline`

The invariant `HInv` has three parts.  `Setting`: the program is one, and the
build the checked one.  `Conversing`: nothing has been edited, and `thread`,
`remaining_steps` and `continue_running` are in a state that the loop can be in
(at the prompt no `run` is under way).  `OnTape`: the positions visited are an
interval, the machine is the one on the tape at its position (turned round if the
user faces back), every machine on the tape is sound, and neighbours are joined
by a step that is undone, or by a `popl` onto its own slot.
The last part is what makes it a refinement: at a position that is not on the
tape the machine is one step further (`TapeGrows`), and at a position that is,
`StepUndone` says that the step leads to the machine on the tape (`MoveKnown`),
because a step has one outcome.  An exception can only be thrown where the tape
ends, or at such a `popl` (`FailImplements`).  Each command is one step of the
timeline, `step n` with the smallest number included, whose negation is the
number itself as an unsigned word (`StepCommandImplements`).

Under the same assumptions it proves what lets a run end:

- `NoMachineTwice`: `HistorySpec => []NeverTwice`
- `SessionsAreBounded`: `HistorySpec => []WithinMachines`

Neighbours on the tape are joined by a step that is undone, so a machine has one
predecessor (`OnePredecessor`) and, since a step has one outcome, one successor
(`OneSuccessor`); both hold across a `popl` onto its own slot too, where the step
backwards does not exist but what was popped is known to be zero (`SelfPopped`).
A machine that comes onto the tape and was there already would therefore have its
neighbour there twice, unless it is the first machine; and that one is found
nowhere else, because it is the only one that does not run.  For this the
invariant `NInv` adds to `HInv` that the tape extends to one side of the first
machine only (`Trodden`): a user who turns round before the first step either is
thrown out or walks away to the other side, and a machine that runs never steps
back over the first one without ending the session (`NewOnTape`).  Without it
`NeverTwice` is not inductive.
Machines are records of finite parts (`MachinesFinite`), and an injective tape is
no longer than there are machines (`WithinMachines`).

`AssemblerProofs` proves, for every set of programs the parser can return:

- `AssemblerTypeCorrect`: `Spec => []TypeOK`
- `AssembledRuns`: `Spec => []AssembledIsRunnable`
- `FitsLowest`: `Spec => []LowestFit`

The assumptions are on the programs only: fewer instructions than there are
addresses, and fewer operands in a `.word` line than that (`ProgramsAssumption`;
the code counts both in an `int`).  The invariant `AInv` says where the passes
are.  `Placed`: exactly the lines that the passes so far have laid out
(`LaidOut`) have an address, an instruction the number of the instructions before
it, a block one that leaves room for its size.  Without the first part
`translate_program` could read an address that is not there; without the last
one, which holds because `allocate_range` compares the end of a block and not
its start, the words of a block could wrap around.  `Coded`: the code so far has
`start` at `entry_address` and nowhere else, and at most one `stop`.

`LowestFit` needs to know more of the search (`SInv`): while sections are laid
out, the addresses taken are the fixed cells and the allocated blocks
(`Filled`); all blocks end at or below the base address; and between the last end
and the base address lie only addresses where the block would meet a fixed cell
(`Searched`).  A round that collides can jump behind the highest address that
collides because that one is a fixed cell and no block fits up to it
(`CollideSearch`).  `LowestFit` without these two is not inductive.

- `AlwaysAdvances`: `Spec => AssemblyAdvances`

follows from both invariants.  All steps but one go on to the next line or pass
by what they assign; for a round that collides, `SInv` says that the address that
is left behind is a fixed cell (`CollidesFixed`), of which there are finitely many
and the same ones in every round.

The same module proves the refinement, for every set of programs and every width:

- `AssemblerImplementsLoader`: `Spec => ImplementsLoader`

The loader knows of no pass and no table, so the invariant `LInv` says what each
table means in terms of the lines.  A line with an address has passed every check
that looks at it, and a `.set` line has the address or value it names (`Valued`);
the symbol table holds the names of these lines and no others, each with the
address of its one line (`Named`); the cells taken are those of the lines placed,
and no two lines share one (`Apart`); a cell holds 0 until its line is built and
the value written for it from then on (`Built`); the code is the encoding of the
lines before (`Translated`); and while memory is laid out, the search stands at 0
or behind a line (`Behind`), which is why a refusal for want of room is one the
loader allows.  `Behind` needs `SInv`: a round that collides does so with a fixed
cell.

A step that places a line is a claim (`LPlacesLine`), one that throws is a
refusal, and each exception is traced to the defect that licenses it (`NameDefect`,
`OpenDefect`, `AddressDefect`, `RoomDefect`, `StartDefect`): `symbol_redefinition_error`
only for a name of two lines or of one line twice, an undefined name in a pass that
evaluates only when no line at all defines it, which needs that all lines have
their addresses by then (`AllPlaced`).  The last step is a load.  There the program has no
defect (`NotDefective`), the tables give every name what the loader says it means
(`FinalMeaning`), the memory is the loader's (`FinalLayout`), and every
instruction decodes to what was written (`FinalCode`).  The last part rests on
arithmetic for every width: an operand that fits its half is read back as it was
(`LowRestores`), and `pushc`, `xorhc` with the two halves of a word leave that word
(`HalvesRestore`), because `operand_high_value` inverts the upper half where the
sign extension of the lower one is all ones.  What `^` does to such a number is
assumed (`XorAssumption`).

`ParserProofs` proves, for every text of any length:

- `ParsesText`: `Spec => []ParsesWhatIsWritten`
- `RefusesErrors`: `Spec => []RefusesWhatIsNot`

All that is assumed of a text is that its lines have the shapes the tokens of the
grammar have (`TextsAssumption`).  The property looks at the finished program and
at the text; the parser in between has a stack, and labels that wait.  So the
invariant `PInv` has three parts.  `Reader`: the line counter is the position.
`Judgement`: an error has been detected if and only if one of the lines read is
not accepted or labels wait at the end; labels wait exactly if the last lines read
have some and no statement, which recovery, dropping them, would break, were it
not itself an error.  `Listing`, as long as no error is detected: the labels that
wait are `LabelsBefore` the position; the stack and the sections share the
statements that have been read, each once and each with all its parts, with the
numbers of a section and of the stack increasing and those of the stack below
those of every section.  The last of these is why prepending while the rules
unwind gives the order of the text.  Labels grow line by line (`MoreWaiting`),
and `Behind` is the line behind the last statement (`BehindIs`); that the
concatenation of one list more is one more concatenation, is an induction of its
own (`FlattenMore`).  `LineTyped` says that what is handed to the assembler are
words, whatever number is written (`NumberWord`), and `OperandsTyped` that the
operands bison finds are operands whatever an `@` has taken.

`CommandLineProofs` proves, for every command line and every width of `size_t`:

- `CommandLineUnderstood`: `Spec => []MeansWhatIsWritten`

The property gives each argument a role by its position, without a loop: the role
of an argument depends on that of the one before, because a size may look like an
option.  That a function of roles exists is proved by induction over the
arguments (`RolesExist`).  The invariant `CInv` says that the loop never stands on
the size of an option (`Loop`), that flags, measure, sizes, file and error are
those of the arguments it has passed (`Understood`), the last of several sizes
and measures counting (`SizeMore`, `MeasureMore`), and that the decision is made
from them (`Decided`).  `SizeRead` says that what `parse_size` returns is the
number that is spelled modulo `size_t`: what wraps at every digit and unit wraps
once (`WrapsOnce`), by induction over the digits (`DigitsRead`).

`MainProofs` proves three properties of the process, for every set of programs
the parser can return (`ParsedAssumption`, the assembler's assumption).  For both
builds:

- `JumpsLand`: `MainSpec => LandsOnLabel`

and for the checked build and lines without `set` (`NoSet`),

- `NothingLeft`: `MainSpec => []ZeroEntropyIsClean`
- `Uncomputed`: `MainSpec => []UncomputedIsClean`, for stacks of at least one slot

`Main` contains the assembler as an instance, so its lemmas are brought in by an
instance of `AssemblerProofs`; that the two instances are the same is shown
definition by definition (`SamePlace` to `SameNext`), and what the lemmas assume
is assumed here (`ProgramsHold`).  `MInv` joins the assembler's invariants with
the phases: what is executed is the code of a finished assembly, by a machine that
has not failed.

`JumpsLand`: the assembler's `Translated` says that the word fetched is the encoding
of the line of the same number, with the distance as its operand, which is read
back if it fits (`DistanceEncoded`); the machine adds or subtracts it by direction
and `step_pc` does the same once more (`BranchLeads`).

`NothingLeft`: `Undisturbed` adds that the machine is the debugger's `Intact` one
and that the count and the exit code are those of the machine as it is.  A count is
a sum of natural numbers, so it is zero if and only if every summand is
(`SumZero`), and a popcount of an exclusive or is zero for equal words only
(`DifferenceZero`).  The sums of the library and `popcount` are recursive functions;
that they exist is an induction of its own (`SumsExist`, `CountsExist`).  So `sp`
is zero, and a machine clean above `sp` has nothing at all.

`Uncomputed`: in a program without `uncall` only the user turns the machine round,
so `UInv` can say of the machine under the debugger what `HInv` says of a session:
there is a trail of machines facing forwards from the constructor's one to this
one, running from the second on, neighbours joined as on the tape
(`Uncomputing`).  A step forwards prolongs the trail or ends the program facing
forwards (`GoesOn`); a step backwards shortens it (`GoesBack`), and the one that
arrives at its beginning is the one that `stop`s the machine.  In front of that,
the machine that was never started moves to another instruction or throws, unless a
`stop` stands there, which would set it going; the property excludes that.
`PlainStep` says which instructions leave the direction, the running flag and the
position alone.

`WordsProofs` derives induction over numbers from the library's theorem that
their order is well-founded (`LeastNumber`, `Induction`).

TLC has checked each of these invariants on the instances of the runs, and
evaluates every `ASSUME` there, the laws of the bitwise operators included.

Only model-checked: `ExpectedResults` and `UncallUndoesCall`, which are about
particular programs (for given programs TLC's run is the proof), and the liveness
properties `RunTerminates`, `AssemblyTerminates`, `CommandsComeBack` and
`ProcessEnds`.  They rest on fairness, which means on `ENABLED`, and that is out
of the prover's reach, as is liveness itself.  What they rest on besides is
proved: that no step of an assembly goes nowhere (`AlwaysAdvances`) and that no
execution of a machine comes round (`NoMachineTwice`, `SessionsAreBounded`).
`ImplementsTimeline` and `ImplementsLoader` state no fairness, so their theorems
are complete.

## Disagreements between code and documentation

- **`popl` onto its own slot** (`popl_undo`).  `popl n` with `fp + n = sp - 1`
  exchanges the slot with itself and drops it if it is zero.  It does not
  throw, and its inverse `pushl n` does: the slot is not below `sp` any more.
  The shortest program is `pushc 0`, `popl 0`.  README.md:5 and 48 promise
  otherwise.
- **A stack of n values holds n - 1** (`capacity`).  `PUSHES_VALUES` compares
  with `<=`, where main.cpp:45 says that the size is the number of values the
  stack can hold.  Nothing reaches the last slot.
- **A layout that fits is refused** (`full_memory`).  The constructor reads the
  key behind the last entry of the layout instead of the last one.
- **Not every error exits with 1** (`signal_exit`).  A division by zero raises a
  signal that passes the handler of `main` by.  The help text (main.cpp:53)
  promises exit code 1 for any error during execution.

Seen while modelling, without a run of its own:

- `entropy.h:6` speaks of every value the program does not determine; the count
  leaves out `fp` and `br`.  A program that opens a frame with `asf` and pops the
  saved frame pointer with `popc` ends with `fp = 1` and an entropy of zero.
  What zero does say is `ZeroEntropyIsClean`.
- main.cpp:49 allows "any number" as a size; `parse_size` wraps around beyond
  `size_t`, takes a bare unit for a size of zero and ignores what stands behind
  a unit.
- The debugger's `S[n]` reads the memory and `M[n]` the stack.
- On a stack of no slots (`-s 0`) `releasepar 0` succeeds and its inverse is
  refused; `Reversibility` is stated for stacks of at least one slot.
- The scanner's rule for line breaks (scanner.flex:60) is a class of single
  characters and contains the parentheses it is written with.  A break of two
  characters is two `LINEBREAK` tokens, and a parenthesis is one: the parser counts
  them all, so that the line numbers statements carry double in a file with CRLF;
  flex's `yylineno`, which syntax errors name, counts line feeds and stays right.
- The grammar derives lines the parser refuses: `[@ + x]`, `[@ - x]`
  (parser.y:130-133) and `.set @ 5` (parser.y:159) are syntax errors, because
  behind an `@` (parser.y:116-123) bison resolves the conflicts of the grammar by
  shifting.  `.word @ 5` is one operand, not two.

## What is not modelled

- The characters of the text and the tables of the generated automata
  (`scanner.flex`, the bison parser): a line is what its writer spells, `OperandsOf`
  says which operands bison finds in it and `Accepted` which lines it takes.  The limit of the parser's stack (`YYMAXDEPTH`)
  and failing allocations are left out, as is the text of syntax errors.
- The scanner generator: prints a file at build time.
- `report_error` formats its message into a buffer of 265 characters; wording
  is left out of the model, and with it all that `-q` changes.
- `counter`, and the time measurements of `-i` that use it.
- Opcode numbers: an instruction is the name of its pair and the direction bit.
  The default case of the `switch` needs an opcode the assembler does not emit.

## Plan

The components named under [The system](#the-system) are modelled and their safety
properties proved.  What remains open:

1. That `uncall` undoes what `call` did, for every procedure in the calling
   convention of the examples, and not only for those of `instruction_tests`.
   `Reversibility` covers the call that is undone where it was made; a call undone
   from another place needs that the body never touches the return slot, and a
   comparison of two executions that differ in `br` and that slot.
2. Termination itself (see above).
3. The characters of the source text, from the scanner's rules.
