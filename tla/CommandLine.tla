----------------------------- MODULE CommandLine -----------------------------
(***************************************************************************)
(* The first half of main: the loop over the arguments, the sizes in them, *)
(* and the decision whether to show help, to refuse or to load a file.     *)
(*                                                                         *)
(* An argument is a record of the option it spells ("separator" for --,    *)
(* "none" for a word that spells no option, "unknown" for one that only    *)
(* starts like an option), and what parse_size sees when it reads the same *)
(* text: the digits in front and the first character behind them.          *)
(***************************************************************************)
EXTENDS Naturals, Sequences, FiniteSets

CONSTANTS
  CommandLines,   \* the sequences of arguments, the program's name apart
  MODULUS,        \* the number of values of size_t
  KILO            \* 1024

Flags   == { "help", "version", "information", "quiet", "debug" }
Sizes   == { "stacksize", "memsize" }
Entropy == { "entropy_bit", "entropy_word" }
Options == Flags \cup Sizes \cup Entropy \cup { "separator", "unknown" }

Argument == [ option : Options \cup {"none"},
              digits : Seq(0 .. 9), behind : {"end", "k", "m", "g", "other"} ]

ASSUME CommandLinesAssumption ==
  /\ CommandLines \subseteq Seq(Argument)
  /\ KILO \in Nat /\ MODULUS \in Nat \ {0}

VARIABLES
  argv,             \* the arguments
  i,                \* the next one to look at
  input_file,       \* the argument that is the file, 0 before there is one
  flags,            \* the flags that are set
  entropy_measure,
  sizes,            \* stack_size and memory_size
  path_separator,
  user_error,
  outcome           \* "reading", then what main decides

vars == <<argv, i, input_file, flags, entropy_measure, sizes, path_separator,
          user_error, outcome>>

Defaults == [stacksize |-> 1024 % MODULUS, memsize |-> 102400 % MODULUS]

-----------------------------------------------------------------------------
(* parse_size: digits, then at most one unit; what follows it is not read. *)
Digits(digits) ==
  LET value[n \in 0 .. Len(digits)] ==
        IF n = 0 THEN 0 ELSE (value[n - 1] * 10 + digits[n]) % MODULUS
  IN  value[Len(digits)]

Times(n) == (n * KILO) % MODULUS

(* The cases of a unit fall through to those of the smaller ones. *)
Scaled(n, unit) ==
  CASE unit = "g" -> Times(Times(Times(n)))
    [] unit = "m" -> Times(Times(n))
    [] unit = "k" -> Times(n)
    [] OTHER      -> n

IsSize(a) == a.behind # "other"

parse_size(a) ==
  IF IsSize(a) THEN Scaled(Digits(a.digits), a.behind) ELSE 0

-----------------------------------------------------------------------------
(* The loop.  Behind a separator no argument is an option.                 *)
Current == argv[i]

Reads(option) ==
  /\ outcome = "reading" /\ i <= Len(argv)
  /\ ~path_separator /\ Current.option = option

Flag(option) ==
  /\ Reads(option)
  /\ flags' = flags \cup {option}
  /\ i' = i + 1
  /\ UNCHANGED <<argv, input_file, entropy_measure, sizes, path_separator, user_error, outcome>>

Measure(option) ==
  /\ Reads(option)
  /\ entropy_measure' = option
  /\ i' = i + 1
  /\ UNCHANGED <<argv, input_file, flags, sizes, path_separator, user_error, outcome>>

(* Mutant: the size is read and looked at as an argument of its own again. *)
SizeAgain(option) ==
  /\ Reads(option)
  /\ i' = i + 1
  /\ IF i < Len(argv)
     THEN /\ sizes' = [sizes EXCEPT ![option] = parse_size(argv[i + 1])]
          /\ user_error' = (user_error \/ ~IsSize(argv[i + 1]))
     ELSE /\ user_error' = TRUE
          /\ UNCHANGED sizes
  /\ UNCHANGED <<argv, input_file, flags, entropy_measure, path_separator, outcome>>

(* REQUIRES_ARGS(1), and the argument behind the option, whatever it is.   *)
Size(option) ==
  /\ Reads(option)
  /\ IF i < Len(argv)
     THEN /\ sizes' = [sizes EXCEPT ![option] = parse_size(argv[i + 1])]
          /\ user_error' = (user_error \/ ~IsSize(argv[i + 1]))
          /\ i' = i + 2
     ELSE /\ user_error' = TRUE
          /\ i' = i + 1
          /\ UNCHANGED sizes
  /\ UNCHANGED <<argv, input_file, flags, entropy_measure, path_separator, outcome>>

Separator ==
  /\ Reads("separator")
  /\ path_separator' = TRUE
  /\ i' = i + 1
  /\ UNCHANGED <<argv, input_file, flags, entropy_measure, sizes, user_error, outcome>>

Unknown ==
  /\ Reads("unknown")
  /\ user_error' = TRUE
  /\ i' = i + 1
  /\ UNCHANGED <<argv, input_file, flags, entropy_measure, sizes, path_separator, outcome>>

File ==
  /\ outcome = "reading" /\ i <= Len(argv)
  /\ path_separator \/ Current.option = "none"
  /\ input_file' = IF input_file = 0 THEN i ELSE input_file
  /\ user_error' = (user_error \/ input_file # 0)
  /\ i' = i + 1
  /\ UNCHANGED <<argv, flags, entropy_measure, sizes, path_separator, outcome>>

(* Behind the loop: help and version come before any complaint. *)
Decide ==
  /\ outcome = "reading" /\ i > Len(argv)
  /\ outcome' = CASE "help" \in flags                 -> "help"
                  [] flags \cap {"help", "version"} = {"version"} -> "version"
                  [] flags \cap {"help", "version"} = {} ->
                       IF user_error \/ input_file = 0 THEN "exit_2" ELSE "load"
  /\ UNCHANGED <<argv, i, input_file, flags, entropy_measure, sizes, path_separator, user_error>>

Init ==
  /\ argv \in CommandLines
  /\ i = 1
  /\ input_file = 0
  /\ flags = {}
  /\ entropy_measure = "none"
  /\ sizes = Defaults
  /\ path_separator = FALSE
  /\ user_error = FALSE
  /\ outcome = "reading"

Next ==
  \/ \E option \in Flags : Flag(option)
  \/ \E option \in Entropy : Measure(option)
  \/ \E option \in Sizes : Size(option)
  \/ Separator
  \/ Unknown
  \/ File
  \/ Decide

Spec == Init /\ [][Next]_vars

-----------------------------------------------------------------------------
(* What a command line means, without a loop.  Every argument has a role;  *)
(* the roles are determined by those of the arguments in front.            *)
Roles ==
  LET role[n \in DOMAIN argv] ==
        CASE n > 1 /\ argv[n - 1].option \in Sizes /\ role[n - 1] = "option" -> "size"
          [] OTHER ->
               IF argv[n].option = "none" \/ \E m \in 1 .. (n - 1) : role[m] = "separator"
               THEN "file"
               ELSE IF argv[n].option = "separator" THEN "separator" ELSE "option"
  IN  role

With(role)  == { n \in DOMAIN argv : Roles[n] = role }
Given(option) == \E n \in With("option") : argv[n].option = option

Invalid ==
  \/ Given("unknown")
  \/ Cardinality(With("file")) # 1
  \/ \E n \in With("size") : ~IsSize(argv[n])
  \/ \E n \in With("option") : argv[n].option \in Sizes /\ n = Len(argv)

(* The last of several options for the same thing counts. *)
LastOf(S) == CHOOSE n \in S : \A m \in S : m <= n

(* The number a size spells, however large it is. *)
Factor == [end |-> 1, k |-> KILO, m |-> KILO * KILO, g |-> KILO * KILO * KILO]

Number(a) ==
  LET value[n \in 0 .. Len(a.digits)] ==
        IF n = 0 THEN 0 ELSE value[n - 1] * 10 + a.digits[n]
  IN  value[Len(a.digits)] * Factor[a.behind]

SizeGiven(option) ==
  LET given == { n \in With("size") : argv[n - 1].option = option }
  IN  IF given = {} THEN Defaults[option] ELSE Number(argv[LastOf(given)]) % MODULUS

MeasureGiven ==
  LET given == { n \in With("option") : argv[n].option \in Entropy }
  IN  IF given = {} THEN "none" ELSE argv[LastOf(given)].option

(* main understands a command line the way it is written: an argument that *)
(* is taken as a size is not an option, a separator or a file as well, and *)
(* nothing behind a separator is an option; help and version are shown     *)
(* however wrong the rest is, and any defect else leads to exit code 2;    *)
(* a line that is accepted loads its only file with the last sizes and     *)
(* measure given.  A size is the number it spells, modulo size_t: wrapping *)
(* at every digit and unit is wrapping once.                               *)
MeansWhatIsWritten ==
  outcome # "reading" =>
    /\ outcome = CASE Given("help") -> "help"
                   [] Given("version") /\ ~Given("help") -> "version"
                   [] ~Given("help") /\ ~Given("version") ->
                        IF Invalid THEN "exit_2" ELSE "load"
    /\ outcome = "load" =>
         /\ With("file") = {input_file}
         /\ sizes = [option \in Sizes |-> SizeGiven(option)]
         /\ entropy_measure = MeasureGiven
         /\ flags = { option \in Flags : Given(option) }
=============================================================================
