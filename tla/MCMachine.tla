----------------------------- MODULE MCMachine -----------------------------
(***************************************************************************)
(* Instances of Machine for TLC: the sets of programs the runs start from. *)
(***************************************************************************)
EXTENDS Machine, MCWords, TLC

(* Instruction words. *)
fw(op, n) == [op |-> op, back |-> FALSE, bits |-> operand_low_value(n)]
bw(op, n) == [op |-> op, back |-> TRUE,  bits |-> operand_low_value(n)]

(* Every instruction the assembler can emit with an operand of the set,    *)
(* start and stop apart.                                                   *)
Emitted(operands) ==
  { i \in { fw(op, n) : op \in KNOWN_INSTRUCTIONS \ {"start"}, n \in operands } \cup
          { bw(op, n) : op \in KNOWN_INSTRUCTIONS \ (SelfInverse \cup {"start"}),
                        n \in operands } :
      i.op \notin ABSOLUTE \cup RELATIVE \cup UPPER => i.bits = 0 }

SequencesUpTo(S, n) == UNION { [1 .. k -> S] : k \in 0 .. n }

start == fw("start", 0)
stop  == bw("start", 0)

Image(body, layout) ==
  [ code   |-> <<start>> \o body \o <<stop>>,
    entry  |-> 0,
    layout |-> layout ]

Layout == 0 :> -1 @@ 1 :> 0

-----------------------------------------------------------------------------
(* Whatever the instruction, on whatever a few pushes, frames and loads    *)
(* can leave on the stack; and every way to construct a machine.           *)
Setup == { fw("pushc", -1), fw("pushc", 1), fw("pushc", 2), fw("asf", 1),
           fw("allocpar", 2), fw("pushm", 0) }

Layouts == { <<>>, -1 :> 1, 0 :> 1, 1 :> 1, 2 :> 1, Layout }

EveryInstruction ==
  [ setup : SequencesUpTo(Setup, 3), body : [1 .. 1 -> Emitted(-1 .. 2)] ]

(* Control flow: every body of three transfers and operations on the value *)
(* they depend on.                                                         *)
Transfers ==
  { fw("branch", -2), fw("branch", -1), fw("branch", 1), fw("branch", 2),
    fw("brt", -1), fw("brt", 1), fw("brf", -1), fw("brf", 2),
    fw("call", 0), fw("uncall", 0), fw("neg", 0), fw("inc", 1),
    fw("pushc", 1), bw("pushc", 1), fw("pushc", -2), fw("dup", 0) }

ControlFlow ==
  [ setup : { <<>>, <<fw("pushc", -1)>>, <<fw("pushc", 1)>>,
              <<fw("pushc", 2)>> },
    body  : [1 .. 3 -> Transfers] ]

Everything ==
  { Image(run.setup \o run.body, Layout) :
      run \in EveryInstruction \cup ControlFlow }
  \cup { Image(<<fw("nop", 0)>>, layout) : layout \in Layouts }

-----------------------------------------------------------------------------
(* The smallest programs that show what the violation runs show.           *)
SelfPop == { Image(<<fw("pushc", 0), bw("pushl", 0)>>, Layout) }

OnePush == { Image([i \in 1 .. n |-> fw("pushc", 1)], <<>>) : n \in 0 .. 6 }

FullMemory == { Image(<<fw("nop", 0)>>, Layout) }

(* Memory is refused only to a program whose layout does not fit it.       *)
MemoryIsUsable ==
  ~(vm.fault = "out_of_memory" /\ DOMAIN Layout \subseteq Addresses)
=============================================================================
