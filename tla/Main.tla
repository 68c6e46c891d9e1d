-------------------------------- MODULE Main --------------------------------
(***************************************************************************)
(* The life of the process behind its command line: parse the file,        *)
(* assemble the program, construct the machine, execute it with or without *)
(* the debugger, report, exit.  It composes Assembler, Machine, Debugger   *)
(* and Entropy; what the command line decides is a constant.               *)
(***************************************************************************)
EXTENDS Debugger, Entropy

CONSTANTS
  Symbols,         \* the names in the programs
  Programs,        \* what parse_file may return
  Configurations   \* the options that matter: [debug, measure]

ASSUME ConfigurationsAssumption ==
  Configurations \subseteq
    [ debug : BOOLEAN, measure : {"NONE", "HAMMING_WEIGHT", "WORD_DIFFERENCE"} ]

VARIABLES
  configuration,   \* the options
  phase,           \* where main is
  exit_code,       \* what the process exits with; -1 while it lives
  printed,         \* the values written to the standard output
  entropy,         \* the count written by report_entropy
  (* the variables of assemble *)
  source, pass, line, base_address, memory_layout, symbol_table, base_of,
  code, entry_address, exception

assemblerVars == <<pass, line, base_address, memory_layout, symbol_table,
                   base_of, code, entry_address, exception>>
sessionVars   == <<thread, debugger_state, last_input>>
resultVars    == <<exit_code, printed, entropy>>
mainVars      == <<debuggerVars, assemblerVars, configuration, phase, resultVars, source>>

A == INSTANCE Assembler WITH program <- source

(* The programs are those of the parser, of a length an int can count.     *)
ASSUME ParsedAssumption == A!ProgramsAssumption

(* The process is killed by a signal: 128 + SIGFPE for a shell.            *)
Killed == 136

Exit(status) == phase' = "exited" /\ exit_code' = status

(* catch (std::exception &) *)
Caught == Exit(1) /\ UNCHANGED <<printed, entropy>>

GoOn(next) == phase' = next /\ UNCHANGED resultVars

-----------------------------------------------------------------------------
(* The file cannot be read, or is no program, or it is source. *)
ParseFile ==
  /\ phase = "parse"
  /\ GoOn("assemble") \/ Caught
  /\ UNCHANGED <<debuggerVars, assemblerVars, configuration, source>>

Assemble ==
  /\ phase = "assemble"
  /\ A!Next
  /\ IF exception' = "none" THEN GoOn("assemble") ELSE Caught
  /\ UNCHANGED <<debuggerVars, configuration>>

ConstructMachine ==
  /\ phase = "assemble"
  /\ pass = "done"
  /\ program' = code
  /\ Construct(A!Image, vm')
  /\ looping' = (vm'.fault = "none")
  /\ IF looping' THEN GoOn("execute") ELSE Caught
  /\ UNCHANGED <<sessionVars, assemblerVars, configuration, source>>

(* machine.run() or run_with_debugger(machine).  What becomes of a process *)
(* that reads or writes outside the stack is undefined.                    *)
Execute ==
  /\ phase = "execute"
  /\ \/ ~configuration.debug /\ Next /\ UNCHANGED sessionVars
     \/ configuration.debug /\ DebuggerNext
  /\ CASE looping' /\ vm'.fault = "none"       -> GoOn("execute")
       [] ~looping' /\ vm'.fault = "none"      -> GoOn("report")
       [] vm'.fault \in Exceptions             -> Caught
       [] vm'.fault = "SIGFPE"                 -> Exit(Killed) /\ UNCHANGED <<printed, entropy>>
       [] vm'.fault = "undefined"              ->
            \E status \in {0, 1, Killed} : Exit(status) /\ UNCHANGED <<printed, entropy>>
  /\ UNCHANGED <<assemblerVars, configuration, source>>

(* The slots are printed from the top downwards, unchecked like those that *)
(* are counted.                                                            *)
Report ==
  /\ phase = "report"
  /\ \/ /\ Counted(vm) \subseteq Slots
        /\ entropy' = report_entropy(configuration.measure, memory_layout, vm)
        /\ printed' = [i \in 1 .. Cardinality(Counted(vm)) |-> vm.stack[vm.sp - i]]
        /\ Exit(IF vm.running THEN 1 ELSE 0)
     \/ /\ ~(Counted(vm) \subseteq Slots)
        /\ \E status \in {0, 1, Killed} : Exit(status)
        /\ UNCHANGED <<printed, entropy>>
  /\ UNCHANGED <<debuggerVars, assemblerVars, configuration, source>>

-----------------------------------------------------------------------------
(* There is no machine before assemble has returned. *)
NoMachine ==
  /\ program = <<>>
  /\ vm = Boot([code |-> <<>>, entry |-> 0, layout |-> <<>>])
  /\ looping = FALSE
  /\ thread = "loop"
  /\ breakpoints = {}
  /\ remaining_steps = 0
  /\ continue_running = FALSE
  /\ last_input = noInput

MainInit ==
  /\ A!Init
  /\ NoMachine
  /\ configuration \in Configurations
  /\ phase = "parse"
  /\ exit_code = -1
  /\ printed = <<>>
  /\ entropy = 0

MainNext == ParseFile \/ Assemble \/ ConstructMachine \/ Execute \/ Report

(* One thread, which waits for nothing but the lines of the debugger.      *)
MainSpec ==
  /\ MainInit /\ [][MainNext]_mainVars
  /\ WF_mainVars(MainNext /\ ~(phase = "execute" /\ thread = "prompt"))

-----------------------------------------------------------------------------
(* Properties.                                                             *)
Exited == phase = "exited"

(* Without the debugger the process comes to an end on every program, with *)
(* an exit code: neither the search for free memory nor the loop of run    *)
(* can keep it, whatever the assembler makes of the labels.                *)
ProcessEnds == <>(Exited \/ configuration.debug)

(* An entropy of zero says that the memory is as the program describes it  *)
(* and that no slot holds a value, those above the stack pointer included, *)
(* which count_entropy does not look at: popl, store and the others leave  *)
(* nothing there.  (Nothing is claimed of what undefined behaviour exits   *)
(* with.)                                                                  *)
ZeroEntropyIsClean ==
  Exited /\ exit_code = 0 /\ vm.fault = "none" /\ configuration.measure # "NONE" /\ entropy = 0 =>
    /\ printed = <<>>
    /\ vm.memory = [address \in Addresses |-> Expected(memory_layout, address)]
    /\ vm.stack = [i \in Slots |-> 0]

(* A jump that starts with an empty branching register leads to the line   *)
(* its label stands on, forwards and backwards, whether the machine runs   *)
(* forward or has been turned round by uncall: what translate_program      *)
(* subtracts, sign_extend, branch and step_pc add again.  (A branch to     *)
(* itself has the distance 0 and is no jump.)                              *)
Executes == phase = "execute" /\ (configuration.debug => thread = "step")

JumpsToLabel(l) == l.op = "branch" /\ l.operand.variant = "PRIMITIVE_SYMBOL"

LandsOnLabel ==
  [][ Executes /\ Fetches(vm) /\ vm.br = 0 =>
        LET l == source.code[vm.pc + 1]
        IN  JumpsToLabel(l) =>
              LET target   == symbol_table[l.operand.value]
                  distance == target - vm.pc
              IN  distance \in (-OPERAND_SIGN .. (OPERAND_SIGN - 1)) \ {0} =>
                    vm'.pc = target ]_mainVars

(* Whoever has the debugger step back to where execution began, and over   *)
(* it, leaves nothing behind: no value on the stack, no entropy, and an    *)
(* exit code of 0.  (In programs without uncall, where the user alone      *)
(* turns the machine round.  Whoever turns round before the first step     *)
(* executes what stands before start instead, and does not come by here,   *)
(* unless that is a stop, which sets the machine going.)                   *)
SteppedBack ==
  /\ Exited /\ configuration.debug
  /\ vm.fault = "none" /\ vm.dir = Backward /\ ~vm.running
  /\ pass = "done" /\ vm.pc = entry_address - 1
  /\ \A i \in DOMAIN code : /\ code[i].op # "uncall"
                            /\ i = entry_address => ~IsStop(code[i])

UncomputedIsClean ==
  SteppedBack => exit_code = 0 /\ printed = <<>> /\ entropy = 0

(* The help page: "If any error occurs during runtime, the exit code will  *)
(* be 1."                                                                  *)
RuntimeErrorsExitWithOne ==
  Exited /\ vm.fault \notin {"none", "undefined"} => exit_code = 1
=============================================================================
