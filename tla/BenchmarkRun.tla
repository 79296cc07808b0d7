---------------------------- MODULE BenchmarkRun ----------------------------
(***************************************************************************)
(* run_benchmark_command and run_case of src/src/benchmark.cpp, with the   *)
(* part of Google Benchmark they rely on.                                  *)
(*                                                                         *)
(* The library is external.  When RunSpecifiedBenchmarks starts it opens   *)
(* (and truncates) the output and writes the context; it calls the         *)
(* function of a registered case in an order of its own, first to          *)
(* calibrate and then once per repetition, writes the rows of a case after *)
(* its last repetition, and closes the document at the end.  It does not   *)
(* look at what became of a write.  PauseTiming needs a running timer,     *)
(* ResumeTiming a stopped one, and neither is allowed once the call was    *)
(* skipped.                                                                *)
(***************************************************************************)
EXTENDS Naturals, FiniteSets

CONSTANTS
  Cases,           \* the suite's cases
  Repetitions,     \* --repetitions
  MaxIterations,   \* bound on the iterations of one call
  MaxCalibrations  \* bound on the calibration calls of a case

ASSUME BenchmarkAssumption ==
  /\ IsFiniteSet(Cases)
  /\ Repetitions \in Nat \ {0} /\ MaxIterations \in Nat \ {0}
  /\ MaxCalibrations \in Nat

VARIABLES
  selected,        \* cases whose name --filter matches
  passthrough,     \* what the flags after "--" ask for
  phase,           \* where run_benchmark_command is
  verified,        \* verify_fixture_suite returned
  output,          \* what is at the --output path
  written,         \* cases all of whose samples are in it
  full,            \* the stream of the output failed: it takes nothing more
  executed,        \* what RunSpecifiedBenchmarks returns
  calibrations, rows,   \* the library: calls discarded and rows reported, per case
  failure,         \* std::optional<std::string> failure, as a flag
  call,            \* the run_case call under way
  clock,           \* its State's timer, and what was done while it ran
  executions,      \* history: samples attempted
  exit             \* "running", "success" (0) or "error" (1)

command == <<selected, passthrough, phase, verified, output, executed, exit>>
file == <<written, full>>
library == <<calibrations, rows, file>>
vars == <<command, library, failure, call, clock, executions>>

\* The flags that change what success means; "none" stands for all others the
\* library knows.
Flags == {"none", "list tests", "dry run", "aggregates only", "help", "unknown"}

\* --benchmark_dry_run runs each case once, whatever Repetitions(n) says.
Repeats == IF passthrough = "dry run" THEN 1 ELSE Repetitions

NoCall == [case |-> "none", pc |-> "none", left |-> 0, paused |-> FALSE,
           skipped |-> FALSE, calibrating |-> FALSE]
Stopped == [running |-> FALSE, misused |-> FALSE, measured |-> {}]

-----------------------------------------------------------------------------
(* benchmark::State, external.                                             *)

PauseTiming(k) ==
  [k EXCEPT !.running = FALSE, !.misused = @ \/ ~k.running \/ call.skipped]
ResumeTiming(k) ==
  [k EXCEPT !.running = TRUE, !.misused = @ \/ k.running \/ call.skipped]
StopTimer(k) == [k EXCEPT !.running = FALSE]

\* Work done now is measured if the timer runs.
Doing(k, work) ==
  [k EXCEPT !.measured = @ \cup {w \in {work} : k.running}]

At(pc) == phase = "measuring" /\ call.pc = pc

-----------------------------------------------------------------------------
(* run_case, for the call under way.                                       *)

\* Seeded fault: it returns without SkipWithError.
FaultySkipCase ==
  /\ At("enter") /\ failure
  /\ call' = [call EXCEPT !.pc = "returned"]
  /\ UNCHANGED <<command, library, failure, clock, executions>>

\* A failed run is not measured any further.
SkipCase ==
  /\ At("enter") /\ failure
  /\ call' = [call EXCEPT !.pc = "returned", !.skipped = TRUE]
  /\ UNCHANGED <<command, library, failure, clock, executions>>

\* Seeded fault: the shared failure is not looked at.
FaultyStartLoop ==
  /\ At("enter")
  /\ call' = [call EXCEPT !.pc = "loop"]
  /\ clock' = [clock EXCEPT !.running = TRUE]
  /\ UNCHANGED <<command, library, failure, executions>>

\* for (auto _ : state): the timer is started by the first iteration.
StartLoop ==
  /\ At("enter") /\ ~failure
  /\ call' = [call EXCEPT !.pc = "loop"]
  /\ clock' = [clock EXCEPT !.running = TRUE]
  /\ UNCHANGED <<command, library, failure, executions>>

\* Seeded fault: one iteration too many.
FaultyNextIteration ==
  /\ At("loop")
  /\ call' = [call EXCEPT !.pc = "prepare", !.left = @ - 1]
  /\ UNCHANGED <<command, library, failure, clock, executions>>

NextIteration ==
  /\ At("loop") /\ call.left > 0
  /\ call' = [call EXCEPT !.pc = "prepare", !.left = @ - 1]
  /\ UNCHANGED <<command, library, failure, clock, executions>>

FinishLoop ==
  /\ At("loop") /\ call.left = 0
  /\ call' = [call EXCEPT !.pc = "returned"]
  /\ clock' = StopTimer(clock)
  /\ UNCHANGED <<command, library, failure, executions>>

\* Seeded fault: the iteration is built before the timer is paused.
FaultyPrepare ==
  /\ At("prepare")
  /\ clock' = PauseTiming(Doing(clock, "prepare"))
  /\ \E ok \in BOOLEAN :
       call' = [call EXCEPT !.paused = TRUE, !.pc = IF ok THEN "execute" ELSE "catch"]
  /\ UNCHANGED <<command, library, failure, executions>>

\* PauseTiming and session.prepare, which may throw.
Prepare ==
  /\ At("prepare")
  /\ clock' = Doing(PauseTiming(clock), "prepare")
  /\ \E ok \in BOOLEAN :
       call' = [call EXCEPT !.paused = TRUE, !.pc = IF ok THEN "execute" ELSE "catch"]
  /\ UNCHANGED <<command, library, failure, executions>>

\* ResumeTiming, iteration.execute and PauseTiming, which the inner catch
\* calls too; unwinding then destroys the iteration.
Execute ==
  /\ At("execute")
  /\ \E ok \in BOOLEAN :
       LET done == PauseTiming(Doing(ResumeTiming(clock), "execute")) IN
       /\ clock' = IF ok THEN done ELSE Doing(done, "destroy")
       /\ call' = [call EXCEPT !.pc = IF ok THEN "validate" ELSE "catch"]
  /\ executions' = executions + 1
  /\ UNCHANGED <<command, library, failure>>

\* iteration.validate, which throws on a mismatch, and ResumeTiming.
Validate ==
  /\ At("validate")
  /\ \/ /\ clock' = ResumeTiming(Doing(clock, "validate"))
        /\ call' = [call EXCEPT !.paused = FALSE, !.pc = "destroy"]
     \/ /\ clock' = Doing(Doing(clock, "validate"), "destroy")
        /\ call' = [call EXCEPT !.pc = "catch"]
  /\ UNCHANGED <<command, library, failure, executions>>

\* The iteration goes out of scope at the end of the try block.
Destroy ==
  /\ At("destroy")
  /\ clock' = Doing(clock, "destroy")
  /\ call' = [call EXCEPT !.pc = "loop"]
  /\ UNCHANGED <<command, library, failure, executions>>

\* Seeded fault: no break after SkipWithError.
FaultyCatch ==
  /\ At("catch")
  /\ failure' = TRUE
  /\ clock' = StopTimer(IF call.paused THEN ResumeTiming(clock) ELSE clock)
  /\ call' = [call EXCEPT !.skipped = TRUE, !.pc = "loop"]
  /\ UNCHANGED <<command, library, executions>>

\* SkipWithError stops a running timer.
Catch ==
  /\ At("catch")
  /\ failure' = TRUE
  /\ clock' = StopTimer(IF call.paused THEN ResumeTiming(clock) ELSE clock)
  /\ call' = [call EXCEPT !.skipped = TRUE, !.pc = "returned"]
  /\ UNCHANGED <<command, library, executions>>

RunCase ==
  \/ SkipCase \/ StartLoop \/ NextIteration \/ FinishLoop
  \/ Prepare \/ Execute \/ Validate \/ Destroy \/ Catch

-----------------------------------------------------------------------------
(* run_benchmark_command.  An exception ends in main, which returns 1.     *)

run == <<selected, passthrough, library, failure, call, clock, executions>>

Exit(code) == phase' = "done" /\ exit' = code

\* A step of the command that returns, or throws.
Advance(from, to) ==
  /\ phase = from
  /\ \/ phase' = to /\ UNCHANGED exit
     \/ Exit("error")
  /\ UNCHANGED <<run, verified, output, executed>>

\* parse_options and load_fixture_suite.
Load == Advance("start", "loaded")

SelectCases ==
  /\ phase = "loaded"
  /\ IF selected = {} THEN Exit("error") ELSE phase' = "selected" /\ UNCHANGED exit
  /\ UNCHANGED <<run, verified, output, executed>>

\* Seeded fault: the outcome of the verification is ignored.
FaultyVerify ==
  /\ phase = "selected"
  /\ phase' = "verified" /\ verified' \in BOOLEAN
  /\ UNCHANGED <<run, output, executed, exit>>

Verify ==
  /\ phase = "selected"
  /\ \/ phase' = "verified" /\ verified' = TRUE /\ UNCHANGED exit
     \/ Exit("error") /\ UNCHANGED verified
  /\ UNCHANGED <<run, output, executed>>

\* The session's base state and caches; add_context, later, reads the runner.
OpenSession == Advance("verified", "session")

PrepareOutputPath ==
  /\ phase = "session"
  /\ \/ output # "directory" /\ phase' = "output" /\ UNCHANGED exit
     \/ Exit("error")
  /\ UNCHANGED <<run, verified, output, executed>>

AddContext == Advance("output", "context")

\* benchmark::Initialize prints its usage and exits with 0 when asked to, and
\* ReportUnrecognizedArguments tells what the library does not know.
Initialize ==
  /\ phase = "context"
  /\ IF passthrough = "help" THEN Exit("success")
     ELSE IF passthrough = "unknown" THEN Exit("error")
     ELSE phase' = "registered" /\ UNCHANGED exit
  /\ UNCHANGED <<run, verified, output, executed>>

\* A write to the output, which holds `before' so far: all of it goes in, nothing
\* of it, or a part.  Once a write failed the stream takes no other.
Write(before, after, cases) ==
  \/ ~full /\ output' = after /\ written' = written \cup cases /\ UNCHANGED full
  \/ full' = TRUE /\ output' = before /\ UNCHANGED written
  \/ ~full /\ full' = TRUE /\ output' = "partial" /\ UNCHANGED written

\* RunSpecifiedBenchmarks: the output is truncated, or the process exits; the
\* library may match none of the registered cases, or only list them, or it
\* writes the context and starts.
OpenOutput ==
  /\ phase = "registered"
  /\ \/ Exit("error") /\ UNCHANGED <<output, file, executed>>
     \/ /\ executed' \in {0, Cardinality(selected)} /\ phase' = "ended"
        /\ executed' # 0 => passthrough = "list tests"
        /\ output' = "empty" /\ UNCHANGED <<file, exit>>
     \/ /\ passthrough # "list tests"
        /\ executed' = Cardinality(selected) /\ phase' = "measuring"
        /\ Write("empty", "partial", {}) /\ UNCHANGED exit
  /\ UNCHANGED <<selected, passthrough, verified, calibrations, rows>>
  /\ UNCHANGED <<failure, call, clock, executions>>

Reported(c) == rows[c].ok + rows[c].error

\* The rows of the samples are left out where there are aggregates instead.
HasSampleRows(row) == passthrough = "aggregates only" => row.ok < 2

CallCase(c) ==
  /\ At("none") /\ c \in selected /\ Reported(c) < Repeats
  /\ \E n \in 1 .. MaxIterations, calibrating \in BOOLEAN :
       /\ calibrating => Reported(c) = 0 /\ calibrations[c] < MaxCalibrations
       /\ call' = [NoCall EXCEPT !.case = c, !.pc = "enter", !.left = n,
                                 !.calibrating = calibrating]
  /\ UNCHANGED <<command, library, failure, clock, executions>>

\* The library aborts when a call returns before its iterations are done without
\* having been skipped.  A calibration that was skipped is reported at once.
EndCall ==
  /\ At("returned") /\ (call.left = 0 \/ call.skipped)
  /\ LET c == call.case IN
     IF call.calibrating /\ ~call.skipped
     THEN /\ calibrations' = [calibrations EXCEPT ![c] = @ + 1]
          /\ UNCHANGED <<rows, output, file>>
     ELSE /\ rows' = IF call.skipped THEN [rows EXCEPT ![c].error = @ + 1]
                     ELSE [rows EXCEPT ![c].ok = @ + 1]
          /\ IF Reported(c) + 1 = Repeats
             THEN Write(output, "partial", {d \in {c} : HasSampleRows(rows'[d])})
             ELSE UNCHANGED <<output, file>>
          /\ UNCHANGED calibrations
  /\ call' = NoCall
  /\ UNCHANGED <<selected, passthrough, phase, verified, executed, exit>>
  /\ UNCHANGED <<failure, clock, executions>>

\* The reporter is finalized: the document is closed.
CloseOutput ==
  /\ At("none") /\ \A c \in selected : Reported(c) = Repeats
  /\ Write(output, "results", {}) /\ phase' = "ended"
  /\ UNCHANGED <<selected, passthrough, verified, executed, exit, calibrations, rows>>
  /\ UNCHANGED <<failure, call, clock, executions>>

\* Seeded fault: the results file is not looked at.
FaultyFinish ==
  /\ phase = "ended"
  /\ Exit(IF failure \/ executed = 0 THEN "error" ELSE "success")
  /\ UNCHANGED <<run, verified, output, executed>>

Finish ==
  /\ phase = "ended"
  /\ Exit(IF failure \/ executed = 0 \/ output \in {"missing", "directory", "empty"}
          THEN "error" ELSE "success")
  /\ UNCHANGED <<run, verified, output, executed>>

Command ==
  \/ Load \/ SelectCases \/ Verify \/ OpenSession \/ PrepareOutputPath
  \/ AddContext \/ Initialize \/ Finish
Library == OpenOutput \/ (\E c \in Cases : CallCase(c)) \/ EndCall \/ CloseOutput

Init ==
  /\ selected \in SUBSET Cases /\ passthrough \in Flags
  /\ phase = "start" /\ verified = FALSE
  /\ output \in {"missing", "directory", "empty", "earlier results"}
  /\ calibrations = [c \in Cases |-> 0]
  /\ rows = [c \in Cases |-> [ok |-> 0, error |-> 0]]
  /\ executed = 0 /\ failure = FALSE /\ call = NoCall /\ clock = Stopped
  /\ executions = 0 /\ exit = "running"
  /\ written = {} /\ full = FALSE

Next == RunCase \/ Command \/ Library

\* One thread: the process takes a step whenever it can.
Spec == Init /\ [][Next]_vars /\ WF_vars(Next)

-----------------------------------------------------------------------------
(* Properties.                                                             *)

Phases == {"start", "loaded", "selected", "verified", "session", "output",
           "context", "registered", "measuring", "ended", "done"}
Points == {"none", "enter", "loop", "prepare", "execute", "validate", "destroy",
           "catch", "returned"}
Outputs == {"missing", "directory", "empty", "earlier results", "partial", "results"}
Work == {"prepare", "execute", "validate", "destroy"}

\* Every variable of the run keeps its type.
TypeOK ==
  /\ selected \subseteq Cases /\ passthrough \in Flags
  /\ phase \in Phases /\ verified \in BOOLEAN
  /\ output \in Outputs /\ written \subseteq Cases /\ full \in BOOLEAN
  /\ calibrations \in [Cases -> 0 .. MaxCalibrations]
  /\ rows \in [Cases -> [ok : 0 .. Repetitions, error : 0 .. Repetitions]]
  /\ executed \in 0 .. Cardinality(Cases)
  /\ failure \in BOOLEAN
  /\ call \in [case : Cases \cup {"none"}, pc : Points, left : 0 .. MaxIterations,
               paused : BOOLEAN, skipped : BOOLEAN, calibrating : BOOLEAN]
  /\ clock \in [running : BOOLEAN, misused : BOOLEAN, measured : SUBSET Work]
  /\ executions \in Nat
  /\ exit \in {"running", "success", "error"}

\* State construction and result checks are never inside the timed region
\* (spec.md 10), on the paths that fail included.
SetupAndChecksUntimed == clock.measured \cap {"prepare", "validate"} = {}

\* spec.md 10 and benchmarking.md: the timed region holds the VM call only; the
\* mutated state is discarded before timing resumes.
OnlyExecutionTimed == clock.measured \subseteq {"execute"}

\* Every path through the nested try blocks pauses a running timer and resumes a
\* stopped one, and leaves the library alone once the call was skipped.
TimerUsedProperly == ~clock.misused

\* No sample is taken after a failure, of whichever case (run_case gets one flag
\* for all of them), and the failure is not forgotten.
FailureEndsMeasuring == [][failure => failure' /\ executions' = executions]_vars

\* A run that is turned down by verification leaves an earlier results file as
\* it was, and takes no sample.
OutputKeptUntilVerified ==
  [][output' # output \/ executions' # executions => verified]_vars

\* The command returns whatever its cases do.
Terminates == <>(exit # "running")

Promise == INSTANCE Measurement WITH
  stage <- IF exit = "success" /\ passthrough = "help" THEN "answered"
           ELSE IF exit = "success" THEN "succeeded"
           ELSE IF failure \/ exit = "error" THEN "failed"
           ELSE IF phase \in {"measuring", "ended"} /\ executed > 0 THEN "measuring"
           ELSE "checking",
  asked <- CASE passthrough = "help" -> "help"
             [] passthrough = "dry run" -> "trial"
             [] passthrough = "aggregates only" -> "aggregates"
             [] OTHER -> "samples",
  samples <- [c \in Cases |-> rows[c].ok],
  published <- output = "results" /\ written = selected /\ ~failure,
  lost <- full

\* The command keeps the promise: it exits with 0 only when it printed the library's
\* help, or every selected case has all its samples and the output is a complete
\* document that holds them, unless the file system did not take it all or
\* aggregates were asked for instead (benchmark.cpp:372-424).
KeepsPromise == Promise!Spec

=============================================================================
