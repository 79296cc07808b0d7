---------------------------- MODULE CommandLine ----------------------------
(***************************************************************************)
(* main of src/src/main.cpp and the `run` command's options in             *)
(* src/src/benchmark.cpp: which arguments are accepted, what the program   *)
(* and the benchmark library are then told to do, and the exit status.     *)
(*                                                                         *)
(* argv leaves out the program's own name, so argv[1] is the command.  An  *)
(* argument is a pair: its text up to the first "=", and the rest.  The    *)
(* loader runs as the module Loader; verification and measuring, the       *)
(* modules Replay and BenchmarkRun, are steps that succeed or fail.        *)
(***************************************************************************)
EXTENDS Loader

CONSTANTS
  Environment,       \* default_execution_env, "MONAD_TEN"
  Modes,             \* the texts mode() knows
  Repetitions,       \* the texts repetitions() reads as a positive int
  Selected(_),       \* filter -> whether it selects a case of the suite
  LibraryFlags,      \* the flags the library knows: [takesValue, noValue]
  DefaultSetting     \* a flag nobody sets

\* The flags monad-execbench keeps to itself.
Owned == {"--benchmark_out", "--benchmark_out_format", "--benchmark_repetitions",
          "--benchmark_filter", "--benchmark_enable_random_interleaving"}

\* The library has them, and of them only the Boolean one may stand without a value.
ASSUME CommandAssumption ==
  /\ Owned \subseteq LibraryFlags.takesValue \cup LibraryFlags.noValue
  /\ Owned \cap LibraryFlags.noValue \subseteq {"--benchmark_enable_random_interleaving"}

VARIABLES
  argv,      \* the arguments
  at,        \* where the program is
  index,     \* the loop variable over argv
  options,   \* BenchmarkOptions, and the environment of verify and smoke
  settings,  \* the library's flags
  achieved,  \* what has been done: "verified", "measured", "smoked"
  status     \* the exit status, or Running

command == <<argv, at, index, options, settings, achieved, status>>

Running == -1
None == "none"          \* std::nullopt
Word(text) == <<text, "">>
Text(argument) == argument[1] \o argument[2]
IsHelp(argument) == argument \in {Word("--help"), Word("-h")}

Defaults == [env |-> None, mode |-> "dual-hot", repetitions |-> "50", filter |-> "*",
             output |-> "", passthrough |-> << >>]

More == index <= Len(argv)
Goto(place) == at' = place /\ UNCHANGED <<argv, index, options, settings, achieved, status>>
Enter(place) == /\ at' = place /\ index' = 3
                /\ UNCHANGED <<argv, options, settings, achieved, status>>
Exit(code) == /\ at' = "exit" /\ status' = code
              /\ UNCHANGED <<argv, index, options, settings, achieved>>
Achieve(what, place) == /\ at' = place /\ achieved' = achieved \cup {what}
                        /\ UNCHANGED <<argv, index, options, settings, status>>

-----------------------------------------------------------------------------
(* The command.                                                            *)

Main ==
  /\ at = "main"
  /\ IF argv = << >> \/ IsHelp(argv[1]) \/ argv[1] = Word("--version") THEN Exit(0)
     ELSE IF argv[1] = Word("verify") THEN Goto("verify")
     ELSE IF argv[1] = Word("run") THEN Goto("run")
     ELSE IF argv[1] = Word("smoke")
          THEN at' = "smoke-options" /\ index' = 2 /\ UNCHANGED <<argv, options, settings, achieved, status>>
     ELSE Exit(2)

\* verify and run start alike: --help stands alone, a directory is needed.
RunVerify ==
  /\ at = "verify"
  /\ IF Len(argv) = 2 /\ IsHelp(argv[2]) THEN Exit(0)
     ELSE IF Len(argv) < 2 THEN Exit(2)
     ELSE Enter("verify-options")

RunBenchmarkCommand ==
  /\ at = "run"
  /\ IF Len(argv) = 2 /\ IsHelp(argv[2]) THEN Exit(0)
     ELSE IF Len(argv) < 2 THEN Exit(1)
     ELSE Enter("run-options")

\* The loops of verify and smoke: --help anywhere an option may stand, and the
\* environment, whose value is whatever comes next.
EnvironmentOption ==
  /\ at \in {"verify-options", "smoke-options"} /\ More
  /\ IF IsHelp(argv[index]) THEN Exit(0)
     ELSE IF argv[index] # Word("--execution-env") \/ index = Len(argv) THEN Exit(2)
     ELSE /\ options' = [options EXCEPT !.env = Text(argv[index + 1])]
          /\ index' = index + 2
          /\ UNCHANGED <<argv, at, settings, achieved, status>>

\* After the loop of smoke.
SmokeEnvironment ==
  /\ at = "smoke-options" /\ ~More
  /\ IF options.env \in {None, Environment} THEN Goto("smoke") ELSE Exit(2)

\* run_monad_ten_smoke: success is EVMC_SUCCESS with 42 in 32 bytes.
RunMonadTenSmoke ==
  /\ at = "smoke"
  /\ \E succeeded \in BOOLEAN, output \in {"none", "short", "42", "other"} :
       IF succeeded /\ output = "42" THEN Achieve("smoked", "succeed") ELSE Exit(1)

-----------------------------------------------------------------------------
(* parse_options.                                                          *)

\* The field of an option, its value being acceptable.
Field == [x \in {"--execution-env", "--mode", "--repetitions", "--filter", "--output"} |->
            CASE x = "--execution-env" -> "env"
              [] x = "--mode" -> "mode"
              [] x = "--repetitions" -> "repetitions"
              [] x = "--filter" -> "filter"
              [] x = "--output" -> "output"]

IsOption(argument) == argument[2] = "" /\ argument[1] \in DOMAIN Field

Acceptable(option, value) ==
  /\ option = "--mode" => value \in Modes
  /\ option = "--repetitions" => value \in Repetitions

\* Seeded fault: an option that stands already is kept.
FaultyParseOption ==
  /\ at = "run-options" /\ More
  /\ IF argv[index] = Word("--")
     THEN /\ at' = "passthrough" /\ index' = index + 1
          /\ UNCHANGED <<argv, options, settings, achieved, status>>
     ELSE IF /\ IsOption(argv[index]) /\ index < Len(argv)
             /\ Acceptable(argv[index][1], Text(argv[index + 1]))
          THEN /\ options' = IF options[Field[argv[index][1]]] # Defaults[Field[argv[index][1]]] THEN options
                             ELSE [options EXCEPT ![Field[argv[index][1]]] = Text(argv[index + 1])]
               /\ index' = index + 2
               /\ UNCHANGED <<argv, at, settings, achieved, status>>
     ELSE Exit(1)

\* One turn of the loop: every option takes the next argument as its value,
\* whatever it looks like; "--" starts what is passed to the library.
ParseOption ==
  /\ at = "run-options" /\ More
  /\ IF argv[index] = Word("--")
     THEN /\ at' = "passthrough" /\ index' = index + 1
          /\ UNCHANGED <<argv, options, settings, achieved, status>>
     ELSE IF /\ IsOption(argv[index]) /\ index < Len(argv)
             /\ Acceptable(argv[index][1], Text(argv[index + 1]))
          THEN /\ options' = [options EXCEPT ![Field[argv[index][1]]] = Text(argv[index + 1])]
               /\ index' = index + 2
               /\ UNCHANGED <<argv, at, settings, achieved, status>>
     ELSE Exit(1)

\* Seeded fault: a flag with a value is not recognised.
FaultyOwnedBenchmarkOption(argument) == argument[1] \in Owned /\ argument[2] = ""

\* owned_benchmark_option: the flag itself, or the flag and "=".
OwnedBenchmarkOption(argument) == argument[1] \in Owned

ParsePassthrough ==
  /\ at = "passthrough" /\ More
  /\ IF OwnedBenchmarkOption(argv[index]) THEN Exit(1)
     ELSE /\ options' = [options EXCEPT !.passthrough = Append(@, argv[index])]
          /\ index' = index + 1
          /\ UNCHANGED <<argv, at, settings, achieved, status>>

CheckOptions ==
  /\ at \in {"run-options", "passthrough"} /\ ~More
  /\ IF options.filter = "" \/ options.output = "" THEN Exit(1) ELSE Goto("load")

-----------------------------------------------------------------------------
(* Loading, verifying and measuring.                                       *)

StartLoading ==
  /\ at = "load" \/ (at = "verify-options" /\ ~More)
  /\ at' = "loading" /\ stage' = "manifest"
  /\ UNCHANGED <<argv, index, options, settings, achieved, status, document, next, suite>>

\* run_benchmark_command selects cases before it verifies.
Loaded ==
  /\ at = "loading" /\ stage \in {"loaded", "rejected"}
  /\ IF stage = "rejected" THEN Exit(1)
     ELSE IF argv[1] = Word("run") /\ ~Selected(options.filter) THEN Exit(1)
     ELSE Goto("verifying")

\* Seeded fault: a suite for another environment is taken as it is.
FaultyFitsEnvironment == options.env \in {None, suite.env}

\* verify_fixture_suite starts with the environment.
FitsEnvironment == options.env \in {None, suite.env} /\ suite.env = Environment

VerifySuite ==
  /\ at = "verifying"
  /\ \/ FitsEnvironment /\ Achieve("verified", IF argv[1] = Word("run") THEN "library" ELSE "succeed")
     \/ Exit(1)

\* What the program asks of the library, then what the user does.
BenchmarkArguments ==
  <<<<"--benchmark_out", "=" \o options.output>>, <<"--benchmark_out_format", "=json">>,
    <<"--benchmark_enable_random_interleaving", "=true">>>> \o options.passthrough

\* benchmark::Initialize: a flag of the library needs its "=", a Boolean one does not.
Recognised(argument) ==
  \/ argument[1] \in LibraryFlags.takesValue /\ argument[2] # ""
  \/ argument[1] \in LibraryFlags.noValue

\* The last argument for a flag decides.
Setting(arguments, flag) ==
  LET given == {i \in DOMAIN arguments : Recognised(arguments[i]) /\ arguments[i][1] = flag} IN
  IF given = {} THEN DefaultSetting
  ELSE LET last == CHOOSE i \in given : \A j \in given : j <= i IN
       IF arguments[last][2] = "" THEN "=true" ELSE arguments[last][2]

\* Opening the session or the output may fail; --help makes the library exit;
\* what it does not know, ReportUnrecognizedArguments reports.
Initialize ==
  /\ at = "library"
  /\ \/ Exit(1)
     \/ IF \E i \in DOMAIN BenchmarkArguments : BenchmarkArguments[i] = Word("--help") THEN Exit(0)
        ELSE IF \A i \in DOMAIN BenchmarkArguments : Recognised(BenchmarkArguments[i])
        THEN /\ settings' = [flag \in LibraryFlags.takesValue \cup LibraryFlags.noValue |->
                               Setting(BenchmarkArguments, flag)]
             /\ at' = "measure"
             /\ UNCHANGED <<argv, index, options, achieved, status>>
        ELSE Exit(1)

\* RunSpecifiedBenchmarks and the checks after it.
Measure ==
  /\ at = "measure"
  /\ Achieve("measured", "succeed") \/ Exit(1)

Succeed == at = "succeed" /\ Exit(0)

-----------------------------------------------------------------------------
Command ==
  \/ Main \/ RunVerify \/ RunBenchmarkCommand
  \/ EnvironmentOption \/ SmokeEnvironment \/ RunMonadTenSmoke
  \/ ParseOption \/ ParsePassthrough \/ CheckOptions
  \/ Loaded \/ VerifySuite \/ Initialize \/ Measure \/ Succeed

Arguments == STRING \X STRING

CommandInit ==
  /\ argv \in Seq(Arguments)
  /\ at = "main" /\ index = 1 /\ options = Defaults /\ settings = << >>
  /\ achieved = {} /\ status = Running
  /\ LoaderInit

Next ==
  \/ Command /\ UNCHANGED loader
  \/ StartLoading
  \/ LoadFixtureSuite /\ UNCHANGED command

Spec == CommandInit /\ [][Next]_<<loader, command>>

-----------------------------------------------------------------------------
(* Properties.                                                             *)

\* The options as the usage text has them: after the directory, name and value in
\* turn, up to a "--" where a name could stand.
OptionPositions ==
  LET turns == {i \in 3 .. Len(argv) : i % 2 = 1}
      ends == {i \in turns : argv[i] = Word("--")} IN
  {i \in turns : \A e \in ends : i < e}

Meant(option) ==
  LET given == {i \in OptionPositions : argv[i] = Word(option)} IN
  IF given = {} THEN Defaults[Field[option]]
  ELSE Text(argv[1 + CHOOSE i \in given : \A j \in given : j <= i])

\* What is measured is what the command line says: the last value of each option,
\* and of the library's flags those the program owns are as it set them, whatever
\* follows "--" ("Output selection, repetition count, case filtering, JSON format,
\* and randomized interleaving are owned by monad-execbench and cannot be
\* overridden through passthrough arguments", docs/benchmarking.md:72-74).
RunAsConfigured ==
  at = "measure" =>
    /\ \A option \in DOMAIN Field : options[Field[option]] = Meant(option)
    /\ settings["--benchmark_out"] = "=" \o Meant("--output")
    /\ settings["--benchmark_out_format"] = "=json"
    /\ settings["--benchmark_enable_random_interleaving"] = "=true"
    /\ settings["--benchmark_filter"] = DefaultSetting
    /\ settings["--benchmark_repetitions"] = DefaultSetting

AsksForHelp ==
  \/ argv = << >> \/ IsHelp(argv[1]) \/ argv[1] = Word("--version")
  \/ argv[1] \in {Word("verify"), Word("run")} /\ Len(argv) = 2 /\ IsHelp(argv[2])
  \/ argv[1] = Word("verify") /\ \E i \in 3 .. Len(argv) : i % 2 = 1 /\ IsHelp(argv[i])
  \/ argv[1] = Word("smoke") /\ \E i \in 2 .. Len(argv) : i % 2 = 0 /\ IsHelp(argv[i])
  \/ argv[1] = Word("run") /\ \E i \in DOMAIN options.passthrough : IsHelp(options.passthrough[i])

\* Exit status 0 means that what was asked for was done: help was asked for where an
\* option may stand, or the command's work succeeded on a valid bundle of the
\* environment this build executes; a usage error ends verify before anything is
\* read (main.cpp:106-205; "--execution-env ... must match", docs/fixture-format.md:51-53).
ZeroMeansDone ==
  /\ status = 0 /\ ~AsksForHelp =>
       /\ argv[1] = Word("smoke") => achieved = {"smoked"}
       /\ argv[1] = Word("verify") => achieved = {"verified"}
       /\ argv[1] = Word("run") => achieved = {"verified", "measured"}
       /\ argv[1] # Word("smoke") => Valid(document) /\ document.manifest.env = Environment
  /\ status = 2 => stage = "idle" /\ argv[1] # Word("run")

=============================================================================
