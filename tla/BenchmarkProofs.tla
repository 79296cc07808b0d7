-------------------------- MODULE BenchmarkProofs --------------------------
(***************************************************************************)
(* That the run command uses the library's timer as it must, times no      *)
(* set-up and no check, takes no sample after a failure, and keeps the     *)
(* promise of Measurement: for any number of cases, repetitions,           *)
(* iterations and calibrations.                                            *)
(***************************************************************************)
EXTENDS BenchmarkRun, FiniteSetTheorems, TLAPS

Clocks == [running : BOOLEAN, misused : BOOLEAN, measured : SUBSET Work]

CallStates == [case : Cases \cup {"none"}, pc : Points, left : 0 .. MaxIterations,
               paused : BOOLEAN, skipped : BOOLEAN, calibrating : BOOLEAN]

\* The timer runs exactly in the loop and where an iteration is neither being set
\* up nor checked; only a call that returned was skipped.
Timer ==
  /\ SetupAndChecksUntimed /\ TimerUsedProperly
  /\ clock.running <=> call.pc \in {"loop", "prepare", "destroy"}
  /\ call.skipped => call.pc = "returned"
  /\ phase # "measuring" => call.pc = "none"

\* What the command has established at each of its phases.
Established ==
  /\ phase # "done" => exit = "running"
  /\ phase \notin {"start", "loaded", "done"} => selected # {}
  /\ phase \notin {"start", "loaded", "selected", "done"} => verified
  /\ phase \notin {"measuring", "ended", "done"} =>
       ~failure /\ ~full /\ output \notin {"partial", "results"}
  /\ phase \in {"registered", "measuring", "ended"} => passthrough # "help"
  /\ phase = "measuring" => executed > 0 /\ output \in {"empty", "partial"}
  /\ phase = "ended" => output \in {"empty", "partial", "results"}

\* As long as the file system took every write the output has the cases that are
\* done; it is closed only when all are.
Recorded ==
  /\ ~full => written = {c \in selected : Reported(c) = Repeats /\ HasSampleRows(rows[c])}
  /\ phase = "ended" /\ output # "empty" => \A c \in selected : Reported(c) = Repeats
  /\ phase = "ended" /\ output = "partial" => full

\* A call is made for a sample that is missing; after a failure calls are skipped.
Pending ==
  /\ call.pc # "none" =>
       /\ call.case \in selected /\ Reported(call.case) < Repeats
       /\ call.calibrating => calibrations[call.case] < MaxCalibrations
  /\ call.skipped => failure
  /\ failure => call.pc \in {"none", "enter", "returned"} /\ (call.pc = "returned" => call.skipped)
  /\ \A c \in Cases : rows[c].error > 0 => failure

IInv == TypeOK /\ Timer /\ Established /\ Recorded /\ Pending

-----------------------------------------------------------------------------
(* The timer.                                                              *)

\* What each operation does to a clock.
LEMMA ClockOperations ==
  ASSUME NEW k \in Clocks, NEW work \in Work, call.skipped \in BOOLEAN
  PROVE  /\ PauseTiming(k) \in Clocks /\ ~PauseTiming(k).running
         /\ PauseTiming(k).measured = k.measured
         /\ PauseTiming(k).misused = (k.misused \/ ~k.running \/ call.skipped)
         /\ ResumeTiming(k) \in Clocks /\ ResumeTiming(k).running
         /\ ResumeTiming(k).measured = k.measured
         /\ ResumeTiming(k).misused = (k.misused \/ k.running \/ call.skipped)
         /\ StopTimer(k) \in Clocks /\ ~StopTimer(k).running
         /\ StopTimer(k).measured = k.measured /\ StopTimer(k).misused = k.misused
         /\ Doing(k, work) \in Clocks /\ Doing(k, work).running = k.running
         /\ Doing(k, work).misused = k.misused
         /\ k.running => Doing(k, work).measured = k.measured \cup {work}
         /\ ~k.running => Doing(k, work).measured = k.measured
<1>1. /\ PauseTiming(k) \in Clocks /\ ~PauseTiming(k).running
      /\ PauseTiming(k).measured = k.measured
      /\ PauseTiming(k).misused = (k.misused \/ ~k.running \/ call.skipped)
  BY DEF PauseTiming, Clocks
<1>2. /\ ResumeTiming(k) \in Clocks /\ ResumeTiming(k).running
      /\ ResumeTiming(k).measured = k.measured
      /\ ResumeTiming(k).misused = (k.misused \/ k.running \/ call.skipped)
  BY DEF ResumeTiming, Clocks
<1>3. /\ StopTimer(k) \in Clocks /\ ~StopTimer(k).running
      /\ StopTimer(k).measured = k.measured /\ StopTimer(k).misused = k.misused
  BY DEF StopTimer, Clocks
<1>4. {w \in {work} : k.running} \in SUBSET Work
  OBVIOUS
<1>5. /\ Doing(k, work) \in Clocks /\ Doing(k, work).running = k.running
      /\ Doing(k, work).misused = k.misused
      /\ Doing(k, work).measured = k.measured \cup {w \in {work} : k.running}
  BY <1>4 DEF Doing, Clocks
<1>6. /\ k.running => k.measured \cup {w \in {work} : k.running} = k.measured \cup {work}
      /\ ~k.running => k.measured \cup {w \in {work} : k.running} = k.measured
  OBVIOUS
<1> QED BY <1>1, <1>2, <1>3, <1>5, <1>6

-----------------------------------------------------------------------------
(* run_case.                                                               *)

\* A step of run_case leaves the command and the library alone, and the call at the
\* same case.
LEMMA CaseStep ==
  ASSUME IInv, phase = "measuring", UNCHANGED <<command, library>>,
         call.pc # "none", call' \in CallStates,
         call'.case = call.case, call'.calibrating = call.calibrating,
         clock' \in Clocks, failure' \in BOOLEAN, executions' \in Nat, failure => failure',
         Timer', call'.skipped => failure',
         failure' => call'.pc \in {"none", "enter", "returned"} /\ (call'.pc = "returned" => call'.skipped)
  PROVE  IInv'
<1>1. TypeOK'
  BY DEF IInv, TypeOK, CallStates, Clocks, command, library, file
<1>2. Established' /\ Recorded'
  BY DEF IInv, Established, Recorded, Reported, Repeats, HasSampleRows, command, library, file
<1>3. Pending'
  BY DEF IInv, Pending, Reported, Repeats, command, library
<1> QED BY <1>1, <1>2, <1>3 DEF IInv

LEMMA RunCasePreserves ==
  ASSUME IInv, RunCase
  PROVE  IInv'
<1>1. /\ call \in CallStates /\ clock \in Clocks /\ failure \in BOOLEAN /\ executions \in Nat
      /\ call.skipped \in BOOLEAN
  BY DEF IInv, TypeOK, CallStates, Clocks
<1>2. CASE SkipCase
  <2>1. /\ call' \in CallStates /\ call'.pc = "returned" /\ call'.skipped
        /\ call'.case = call.case /\ call'.calibrating = call.calibrating
    BY <1>1, <1>2 DEF SkipCase, CallStates, Points
  <2> QED BY <1>1, <1>2, <2>1, CaseStep
          DEF SkipCase, At, IInv, Timer, SetupAndChecksUntimed, TimerUsedProperly, command
<1>3. CASE StartLoop
  <2>1. /\ call' \in CallStates /\ call'.pc = "loop" /\ call'.skipped = call.skipped
        /\ call'.case = call.case /\ call'.calibrating = call.calibrating
    BY <1>1, <1>3 DEF StartLoop, CallStates, Points
  <2>2. /\ clock' \in Clocks /\ clock'.running
        /\ clock'.measured = clock.measured /\ clock'.misused = clock.misused
    BY <1>1, <1>3 DEF StartLoop, Clocks
  <2> QED BY <1>1, <1>3, <2>1, <2>2, CaseStep
          DEF StartLoop, At, IInv, Timer, Pending, SetupAndChecksUntimed, TimerUsedProperly, command
<1>4. CASE NextIteration
  <2>0. call.left - 1 \in 0 .. MaxIterations
    BY <1>1, <1>4, BenchmarkAssumption DEF NextIteration, CallStates
  <2>1. /\ call' \in CallStates /\ call'.pc = "prepare" /\ call'.skipped = call.skipped
        /\ call'.case = call.case /\ call'.calibrating = call.calibrating
    BY <1>1, <1>4, <2>0 DEF NextIteration, CallStates, Points
  <2> QED BY <1>1, <1>4, <2>1, CaseStep
          DEF NextIteration, At, IInv, Timer, Pending, SetupAndChecksUntimed, TimerUsedProperly, command
<1>5. CASE FinishLoop
  <2>1. /\ call' \in CallStates /\ call'.pc = "returned" /\ call'.skipped = call.skipped
        /\ call'.case = call.case /\ call'.calibrating = call.calibrating
    BY <1>1, <1>5 DEF FinishLoop, CallStates, Points
  <2>2. /\ clock' \in Clocks /\ ~clock'.running
        /\ clock'.measured = clock.measured /\ clock'.misused = clock.misused
    BY <1>1, <1>5 DEF FinishLoop, StopTimer, Clocks
  <2> QED BY <1>1, <1>5, <2>1, <2>2, CaseStep
          DEF FinishLoop, At, IInv, Timer, Pending, SetupAndChecksUntimed, TimerUsedProperly, command
<1>6. CASE Prepare
  <2>1. /\ call' \in CallStates /\ call'.pc \in {"execute", "catch"} /\ call'.skipped = call.skipped
        /\ call'.case = call.case /\ call'.calibrating = call.calibrating
    BY <1>1, <1>6 DEF Prepare, CallStates, Points
  <2>2. clock' = Doing(PauseTiming(clock), "prepare") /\ "prepare" \in Work
    BY <1>6 DEF Prepare, Work
  <2>3. /\ PauseTiming(clock) \in Clocks /\ ~PauseTiming(clock).running
        /\ PauseTiming(clock).measured = clock.measured
        /\ PauseTiming(clock).misused = (clock.misused \/ ~clock.running \/ call.skipped)
    BY <1>1, <2>2, ClockOperations
  <2>4. /\ clock' \in Clocks /\ ~clock'.running
        /\ clock'.measured = clock.measured
        /\ clock'.misused = (clock.misused \/ ~clock.running \/ call.skipped)
    BY <1>1, <2>2, <2>3, ClockOperations
  <2> QED BY <1>1, <1>6, <2>1, <2>4, CaseStep
          DEF Prepare, At, IInv, Timer, Pending, SetupAndChecksUntimed, TimerUsedProperly, command
<1>7. CASE Execute
  <2> PICK ok \in BOOLEAN :
        LET done == PauseTiming(Doing(ResumeTiming(clock), "execute")) IN
        /\ clock' = IF ok THEN done ELSE Doing(done, "destroy")
        /\ call' = [call EXCEPT !.pc = IF ok THEN "validate" ELSE "catch"]
    BY <1>7 DEF Execute
  <2> DEFINE resumed == ResumeTiming(clock)
             worked == Doing(resumed, "execute")
             done == PauseTiming(worked)
  <2>1. /\ call' \in CallStates /\ call'.pc \in {"validate", "catch"} /\ call'.skipped = call.skipped
        /\ call'.case = call.case /\ call'.calibrating = call.calibrating
    BY <1>1 DEF CallStates, Points
  <2>2. "execute" \in Work /\ "destroy" \in Work
    BY DEF Work
  <2>3. /\ resumed \in Clocks /\ resumed.running /\ resumed.measured = clock.measured
        /\ resumed.misused = (clock.misused \/ clock.running \/ call.skipped)
    BY <1>1, <2>2, ClockOperations
  <2>4. /\ worked \in Clocks /\ worked.running /\ worked.misused = resumed.misused
        /\ worked.measured = clock.measured \cup {"execute"}
    <3> HIDE DEF resumed
    <3> QED BY <1>1, <2>2, <2>3, ClockOperations
  <2>5. /\ done \in Clocks /\ ~done.running /\ done.measured = worked.measured
        /\ done.misused = (worked.misused \/ ~worked.running \/ call.skipped)
    <3> HIDE DEF worked
    <3> QED BY <1>1, <2>2, <2>4, ClockOperations
  <2>6. /\ clock' \in Clocks /\ ~clock'.running
        /\ clock'.measured = clock.measured \cup {"execute"}
        /\ clock'.misused = (clock.misused \/ clock.running \/ call.skipped)
    <3>1. CASE ok
      <4>1. clock' = done
        BY <3>1
      <4> HIDE DEF resumed, worked, done
      <4> QED BY <4>1, <2>3, <2>4, <2>5, <1>1 DEF Clocks
    <3>2. CASE ~ok
      <4>1. clock' = Doing(done, "destroy")
        BY <3>2
      <4> HIDE DEF resumed, worked, done
      <4>2. /\ clock' \in Clocks /\ clock'.running = done.running
            /\ clock'.measured = done.measured /\ clock'.misused = done.misused
        BY <4>1, <2>2, <2>5, <1>1, ClockOperations
      <4> QED BY <4>2, <2>3, <2>4, <2>5, <1>1 DEF Clocks
    <3> QED BY <3>1, <3>2
  <2>7. executions' \in Nat /\ failure' = failure /\ At("execute") /\ UNCHANGED <<command, library>>
    BY <1>1, <1>7 DEF Execute
  <2>8. Timer'
    BY <2>1, <2>6, <2>7
       DEF At, IInv, Timer, SetupAndChecksUntimed, TimerUsedProperly, command
  <2> QED BY <1>1, <2>1, <2>6, <2>7, <2>8, CaseStep DEF At, IInv, Timer, Pending
<1>8. CASE Validate
  <2>1. /\ "validate" \in Work /\ "destroy" \in Work
        /\ ~clock.running /\ ~failure /\ ~call.skipped /\ phase = "measuring" /\ call.pc = "validate"
    BY <1>1, <1>8 DEF Validate, At, IInv, Timer, Pending, Work
  <2> DEFINE checked == Doing(clock, "validate")
  <2>2. /\ checked \in Clocks /\ ~checked.running
        /\ checked.measured = clock.measured /\ checked.misused = clock.misused
    BY <1>1, <2>1, ClockOperations
  <2> HIDE DEF checked
  <2>3. CASE clock' = ResumeTiming(checked) /\ call' = [call EXCEPT !.paused = FALSE, !.pc = "destroy"]
    <3>1. /\ clock' \in Clocks /\ clock'.running
          /\ clock'.measured = clock.measured /\ clock'.misused = clock.misused
      BY <1>1, <2>1, <2>2, <2>3, ClockOperations DEF Clocks
    <3>2. /\ call' \in CallStates /\ call'.pc = "destroy" /\ call'.skipped = call.skipped
          /\ call'.case = call.case /\ call'.calibrating = call.calibrating
      BY <1>1, <2>3 DEF CallStates, Points
    <3> QED BY <1>1, <1>8, <2>1, <3>1, <3>2, CaseStep
            DEF Validate, IInv, Timer, SetupAndChecksUntimed, TimerUsedProperly, command
  <2>4. CASE clock' = Doing(checked, "destroy") /\ call' = [call EXCEPT !.pc = "catch"]
    <3>1. /\ clock' \in Clocks /\ ~clock'.running
          /\ clock'.measured = clock.measured /\ clock'.misused = clock.misused
      BY <1>1, <2>1, <2>2, <2>4, ClockOperations
    <3>2. /\ call' \in CallStates /\ call'.pc = "catch" /\ call'.skipped = call.skipped
          /\ call'.case = call.case /\ call'.calibrating = call.calibrating
      BY <1>1, <2>4 DEF CallStates, Points
    <3> QED BY <1>1, <1>8, <2>1, <3>1, <3>2, CaseStep
            DEF Validate, IInv, Timer, SetupAndChecksUntimed, TimerUsedProperly, command
  <2> QED BY <1>8, <2>3, <2>4 DEF Validate, checked
<1>9. CASE Destroy
  <2>1. /\ "destroy" \in Work /\ clock.running
        /\ ~failure /\ ~call.skipped /\ phase = "measuring" /\ call.pc = "destroy"
    BY <1>1, <1>9 DEF Destroy, At, IInv, Timer, Pending, Work
  <2>2. /\ clock' \in Clocks /\ clock'.running
        /\ clock'.measured = clock.measured \cup {"destroy"} /\ clock'.misused = clock.misused
    BY <1>1, <1>9, <2>1, ClockOperations DEF Destroy
  <2>3. /\ call' \in CallStates /\ call'.pc = "loop" /\ call'.skipped = call.skipped
        /\ call'.case = call.case /\ call'.calibrating = call.calibrating
    BY <1>1, <1>9 DEF Destroy, CallStates, Points
  <2> QED BY <1>1, <1>9, <2>1, <2>2, <2>3, CaseStep
          DEF Destroy, IInv, Timer, SetupAndChecksUntimed, TimerUsedProperly, command
<1>10. CASE Catch
  <2>1. /\ ~clock.running /\ ~call.skipped /\ phase = "measuring" /\ call.pc = "catch"
    BY <1>1, <1>10 DEF Catch, At, IInv, Timer
  <2> PICK k \in Clocks : clock' = StopTimer(k) /\ k.measured = clock.measured /\ k.misused = clock.misused
    <3>1. CASE call.paused
      <4>1. clock' = StopTimer(ResumeTiming(clock))
        BY <1>10, <3>1 DEF Catch
      <4> QED BY <1>1, <2>1, <4>1, ClockOperations, "destroy" \in Work DEF Clocks, Work
    <3>2. CASE ~call.paused
      BY <1>1, <1>10, <3>2 DEF Catch
    <3> QED BY <3>1, <3>2
  <2>2. /\ clock' \in Clocks /\ ~clock'.running
        /\ clock'.measured = clock.measured /\ clock'.misused = clock.misused
    BY DEF StopTimer, Clocks
  <2>3. /\ call' \in CallStates /\ call'.pc = "returned" /\ call'.skipped
        /\ call'.case = call.case /\ call'.calibrating = call.calibrating
    BY <1>1, <1>10 DEF Catch, CallStates, Points
  <2> QED BY <1>1, <1>10, <2>1, <2>2, <2>3, CaseStep
          DEF Catch, IInv, Timer, SetupAndChecksUntimed, TimerUsedProperly, command
<1> QED BY <1>2, <1>3, <1>4, <1>5, <1>6, <1>7, <1>8, <1>9, <1>10 DEF RunCase

-----------------------------------------------------------------------------
(* The command.                                                            *)

\* A step of the command leaves the calls alone.
LEMMA CommandStep ==
  ASSUME IInv, UNCHANGED run, call.pc = "none",
         phase' \in Phases \ {"measuring", "ended"}, verified' \in BOOLEAN,
         output' \in Outputs,
         executed' \in 0 .. Cardinality(Cases), exit' \in {"running", "success", "error"},
         Established'
  PROVE  IInv'
<1>1. TypeOK'
  BY DEF IInv, TypeOK, run, library, file
<1>2. Timer' /\ Recorded'
  BY DEF IInv, Timer, Recorded, Reported, Repeats, HasSampleRows, SetupAndChecksUntimed,
         TimerUsedProperly, run, library, file
<1>3. Pending'
  BY DEF IInv, Pending, Reported, Repeats, run, library
<1> QED BY <1>1, <1>2, <1>3 DEF IInv

LEMMA CommandPreserves ==
  ASSUME IInv, Command
  PROVE  IInv'
<1>1. /\ phase \in Phases /\ verified \in BOOLEAN /\ exit \in {"running", "success", "error"}
      /\ output \in Outputs /\ passthrough \in Flags
      /\ executed \in 0 .. Cardinality(Cases)
  BY DEF IInv, TypeOK
<1> USE DEF Phases
<1>2. CASE Load
  BY <1>1, <1>2, CommandStep DEF Load, Advance, Exit, IInv, Timer, Established, run, library, file
<1>3. CASE SelectCases
  BY <1>1, <1>3, CommandStep DEF SelectCases, Exit, IInv, Timer, Established, run, library, file
<1>4. CASE Verify
  BY <1>1, <1>4, CommandStep DEF Verify, Exit, IInv, Timer, Established, run, library, file
<1>5. CASE OpenSession
  BY <1>1, <1>5, CommandStep DEF OpenSession, Advance, Exit, IInv, Timer, Established, run, library, file
<1>6. CASE PrepareOutputPath
  BY <1>1, <1>6, CommandStep DEF PrepareOutputPath, Exit, IInv, Timer, Established, run, library, file
<1>7. CASE AddContext
  BY <1>1, <1>7, CommandStep DEF AddContext, Advance, Exit, IInv, Timer, Established, run, library, file
<1>8. CASE Initialize
  BY <1>1, <1>8, CommandStep DEF Initialize, Exit, IInv, Timer, Established, run, library, file
<1>9. CASE Finish
  BY <1>1, <1>9, CommandStep DEF Finish, Exit, IInv, Timer, Established, run, library, file
<1> QED BY <1>2, <1>3, <1>4, <1>5, <1>6, <1>7, <1>8, <1>9 DEF Command

-----------------------------------------------------------------------------
(* The library.                                                            *)

\* A non-empty selection has a positive size.
LEMMA SelectionSize ==
  ASSUME selected \subseteq Cases
  PROVE  /\ Cardinality(selected) \in 0 .. Cardinality(Cases)
         /\ Cardinality(Cases) \in Nat
         /\ selected # {} => Cardinality(selected) > 0
<1>1. IsFiniteSet(selected) /\ Cardinality(selected) <= Cardinality(Cases)
  BY BenchmarkAssumption, FS_Subset
<1>2. Cardinality(selected) \in Nat /\ Cardinality(Cases) \in Nat
  BY <1>1, BenchmarkAssumption, FS_CardinalityType
<1>3. selected # {} => Cardinality(selected) # 0
  BY <1>1, FS_EmptySet
<1> QED BY <1>1, <1>2, <1>3

\* A repetition is missing only if one of those asked for is.
LEMMA RepeatsType == Repeats \in Nat /\ 1 <= Repeats /\ Repeats <= Repetitions
<1>1. Repetitions \in Nat /\ 1 <= Repetitions
  BY BenchmarkAssumption
<1>2. Repeats = 1 \/ Repeats = Repetitions
  BY DEF Repeats
<1> QED BY <1>1, <1>2

Counts == [ok : 0 .. Repetitions, error : 0 .. Repetitions]

\* Counting a row of either kind.
LEMMA CountRow ==
  ASSUME NEW f \in [Cases -> Counts], NEW c \in Cases
  PROVE  /\ [f EXCEPT ![c].ok = @ + 1] = [f EXCEPT ![c] = [ok |-> f[c].ok + 1, error |-> f[c].error]]
         /\ [f EXCEPT ![c].error = @ + 1] = [f EXCEPT ![c] = [ok |-> f[c].ok, error |-> f[c].error + 1]]
<1>1. f[c] \in Counts
  OBVIOUS
<1> DEFINE r == f[c]
<1>2. /\ [r EXCEPT !.ok = @ + 1] = [ok |-> r.ok + 1, error |-> r.error]
      /\ [r EXCEPT !.error = @ + 1] = [ok |-> r.ok, error |-> r.error + 1]
  BY <1>1 DEF Counts
<1> QED BY <1>2

LEMMA LibraryPreserves ==
  ASSUME IInv, Library
  PROVE  IInv'
<1>1. CASE OpenOutput
  <2>0. /\ selected \subseteq Cases /\ executed \in 0 .. Cardinality(Cases)
        /\ phase = "registered" /\ ~full
        /\ executed' \in {executed, 0, Cardinality(selected)}
        /\ phase' \in {"done", "ended", "measuring"} /\ exit' \in {exit, "error"}
        /\ output' \in {output, "empty", "partial"}
        /\ phase' = "ended" => output' = "empty"
        /\ full' \in BOOLEAN /\ written' = written
        /\ UNCHANGED <<selected, passthrough, verified, calibrations, rows>>
        /\ UNCHANGED <<failure, call, clock, executions>>
    BY <1>1 DEF OpenOutput, Write, Exit, IInv, TypeOK, Established, file
  <2>4. executed' \in 0 .. Cardinality(Cases)
    BY <2>0, SelectionSize
  <2>1. TypeOK'
    <3>1. /\ phase' \in Phases /\ exit' \in {"running", "success", "error"}
          /\ output' \in Outputs
      BY <2>0 DEF IInv, TypeOK, Phases, Outputs
    <3> QED BY <2>0, <2>4, <3>1 DEF IInv, TypeOK
  <2>2. Timer' /\ Pending'
    BY <2>0 DEF IInv, Timer, Pending, Reported, Repeats, SetupAndChecksUntimed, TimerUsedProperly
  <2>3. Established'
    <3>1. selected # {} /\ verified /\ ~failure /\ passthrough # "help" /\ exit = "running"
      BY <2>0 DEF IInv, Established
    <3>2. CASE phase' = "measuring"
      <4>1. executed' = Cardinality(selected) /\ output' \in {"empty", "partial"} /\ exit' = exit
        BY <1>1, <3>2 DEF OpenOutput, Write, Exit
      <4>2. executed' > 0
        BY <2>0, <3>1, <4>1, SelectionSize
      <4> QED BY <2>0, <3>1, <3>2, <4>1, <4>2 DEF Established
    <3>3. CASE phase' = "ended"
      <4>1. exit' = exit
        BY <1>1, <3>3 DEF OpenOutput, Exit
      <4> QED BY <2>0, <3>1, <3>3, <4>1 DEF Established
    <3>4. CASE phase' = "done"
      BY <2>0, <3>1, <3>4 DEF Established
    <3> QED BY <2>0, <3>2, <3>3, <3>4
  <2>5. Recorded'
    BY <2>0 DEF IInv, Recorded, Reported, Repeats, HasSampleRows
  <2> QED BY <2>1, <2>2, <2>3, <2>5 DEF IInv
<1>2. ASSUME NEW c \in Cases, CallCase(c) PROVE IInv'
  <2> PICK n \in 1 .. MaxIterations, calibrating \in BOOLEAN :
        /\ calibrating => Reported(c) = 0 /\ calibrations[c] < MaxCalibrations
        /\ call' = [NoCall EXCEPT !.case = c, !.pc = "enter", !.left = n,
                                  !.calibrating = calibrating]
    BY <1>2 DEF CallCase
  <2>1. n \in 0 .. MaxIterations
    BY BenchmarkAssumption
  <2>2. /\ call' \in CallStates /\ call'.case = c /\ call'.pc = "enter"
        /\ ~call'.skipped /\ call'.calibrating = calibrating
    BY <2>1 DEF NoCall, CallStates, Points
  <2>3. TypeOK'
    <3>1. call' \in CallStates
      BY <2>2
    <3>2. UNCHANGED <<command, library, failure, clock, executions>>
      BY <1>2 DEF CallCase
    <3> QED BY <3>1, <3>2 DEF CallStates, IInv, TypeOK, command, library, file
  <2>4. Timer' /\ Established' /\ Recorded'
    BY <1>2, <2>2 DEF CallCase, At, IInv, Timer, Established, Recorded, Reported, Repeats,
                      HasSampleRows, SetupAndChecksUntimed, TimerUsedProperly, command, library, file
  <2>6. /\ UNCHANGED <<selected, passthrough, rows, calibrations, failure>>
        /\ c \in selected /\ Reported(c) < Repeats
    BY <1>2, <2>2 DEF CallCase, command, library
  <2>5. Pending'
    <3>1. Repeats' = Repeats /\ rows'[c].ok + rows'[c].error < Repeats
      BY <2>6 DEF Reported, Repeats
    <3>2. call'.case = c /\ rows'[call'.case].ok + rows'[call'.case].error < Repeats'
      BY <2>2, <3>1
    <3>3. (Reported(call.case) < Repeats)'
      BY <3>2 DEF Reported
    <3>4. call'.calibrating => calibrations'[call'.case] < MaxCalibrations
      BY <2>2, <2>6
    <3> QED BY <2>2, <2>6, <3>2, <3>3, <3>4 DEF IInv, Pending
  <2> QED BY <2>3, <2>4, <2>5 DEF IInv
<1>3. CASE EndCall
  <2>0. PICK c \in Cases : c = call.case
    BY <1>3 DEF EndCall, At, IInv, TypeOK, Pending
  <2>1. /\ c \in Cases /\ c \in selected /\ Reported(c) < Repeats
        /\ rows[c] \in Counts
        /\ calibrations[c] \in 0 .. MaxCalibrations
        /\ call.skipped \in BOOLEAN /\ call.calibrating \in BOOLEAN
        /\ call.calibrating => calibrations[c] < MaxCalibrations
    BY <1>3, <2>0 DEF EndCall, At, IInv, TypeOK, Pending, Counts
  <2>2. /\ NoCall \in CallStates /\ NoCall.pc = "none" /\ ~NoCall.skipped
        /\ phase = "measuring" /\ call.pc = "returned" /\ call' = NoCall
    BY <1>3, <2>0, BenchmarkAssumption DEF EndCall, At, NoCall, CallStates, Points
  <2>3. /\ rows[c].ok + 1 \in 0 .. Repetitions /\ rows[c].error + 1 \in 0 .. Repetitions
        /\ call.calibrating => calibrations[c] + 1 \in 0 .. MaxCalibrations
    BY <2>1, RepeatsType, BenchmarkAssumption DEF Reported, Counts
  <2>10. rows \in [Cases -> Counts] /\ calibrations \in [Cases -> 0 .. MaxCalibrations]
    BY DEF IInv, TypeOK, Counts
  <2>4. ~(call.calibrating /\ ~call.skipped) =>
          \E row \in Counts :
            /\ rows' = [rows EXCEPT ![c] = row] /\ UNCHANGED calibrations
            /\ row.error # rows[c].error => call.skipped
            /\ row.ok + row.error = Reported(c) + 1
    <3>1. CASE call.skipped
      <4> DEFINE row == [ok |-> rows[c].ok, error |-> rows[c].error + 1]
      <4>1. [rows EXCEPT ![c].error = @ + 1] = [rows EXCEPT ![c] = row]
        BY <2>10, <2>1, CountRow
      <4>2. row \in Counts /\ row.ok + row.error = Reported(c) + 1
        BY <2>1, <2>3, BenchmarkAssumption DEF Counts, Reported
      <4> QED BY <1>3, <2>0, <3>1, <4>1, <4>2 DEF EndCall
    <3>2. CASE ~call.skipped
      <4> DEFINE row == [ok |-> rows[c].ok + 1, error |-> rows[c].error]
      <4>1. [rows EXCEPT ![c].ok = @ + 1] = [rows EXCEPT ![c] = row]
        BY <2>10, <2>1, CountRow
      <4>2. row \in Counts /\ row.ok + row.error = Reported(c) + 1
        BY <2>1, <2>3, BenchmarkAssumption DEF Counts, Reported
      <4> QED BY <1>3, <2>0, <3>2, <4>1, <4>2 DEF EndCall
    <3> QED BY <3>1, <3>2
  <2>5. /\ calibrations' \in [Cases -> 0 .. MaxCalibrations]
        /\ rows' \in [Cases -> Counts]
    <3>1. CASE call.calibrating /\ ~call.skipped
      BY <1>3, <2>0, <2>1, <2>3, <2>10, <3>1 DEF EndCall
    <3>2. CASE ~(call.calibrating /\ ~call.skipped)
      BY <2>4, <2>10, <3>2
    <3> QED BY <3>1, <3>2
  <2>6. \A d \in Cases : rows'[d].error # rows[d].error => call.skipped
    <3>1. CASE call.calibrating /\ ~call.skipped
      BY <1>3, <2>0, <3>1 DEF EndCall
    <3>2. CASE ~(call.calibrating /\ ~call.skipped)
      BY <2>1, <2>4, <2>10, <3>2
    <3> QED BY <3>1, <3>2
  <2>11. /\ output' \in {output, "partial"} /\ full' \in BOOLEAN /\ (full => full')
         /\ written' \in SUBSET Cases
    <3>1. written \in SUBSET Cases /\ full \in BOOLEAN
      BY DEF IInv, TypeOK
    <3>2. {d \in {c} : HasSampleRows(rows'[d])} \in SUBSET Cases
      BY <2>1
    <3> QED BY <1>3, <2>0, <3>1, <3>2 DEF EndCall, Write, file
  <2>12. UNCHANGED <<selected, passthrough, phase, verified, executed, exit, failure, clock, executions>>
    BY <1>3 DEF EndCall
  <2>7. TypeOK'
    <3>1. output' \in Outputs
      BY <2>11 DEF IInv, TypeOK, Outputs
    <3>2. call' \in CallStates
      BY <2>2
    <3> QED BY <2>5, <2>11, <2>12, <3>1, <3>2 DEF CallStates, Counts, IInv, TypeOK
  <2>8. Timer' /\ Established'
    BY <2>2, <2>11, <2>12 DEF IInv, Timer, Established, SetupAndChecksUntimed, TimerUsedProperly
  <2>9. Pending'
    BY <2>2, <2>6, <2>12 DEF IInv, Pending
  <2>13. Recorded'
    <3>1. phase' = "measuring"
      BY <2>2, <2>12
    <3>2. CASE full'
      BY <3>1, <3>2 DEF Recorded
    <3>3. CASE ~full'
      <4>1. ~full /\ written = {d \in selected : Reported(d) = Repeats /\ HasSampleRows(rows[d])}
        BY <2>11, <3>3 DEF IInv, Recorded
      <4>2. Repeats' = Repeats /\ selected' = selected /\ Repeats \in Nat /\ selected \subseteq Cases
        BY <2>12, RepeatsType DEF Repeats, IInv, TypeOK
      <4>3. \A row : HasSampleRows(row)' <=> HasSampleRows(row)
        BY <2>12 DEF HasSampleRows
      <4>4. CASE UNCHANGED <<rows, written>>
        BY <3>1, <4>1, <4>2, <4>3, <4>4, <2>12 DEF Recorded, Reported, HasSampleRows, Repeats
      <4>5. CASE ~UNCHANGED <<rows, written>>
        <5>1. ~(call.calibrating /\ ~call.skipped)
          BY <1>3, <2>0, <4>5 DEF EndCall, file
        <5>2. PICK row \in Counts : /\ rows' = [rows EXCEPT ![c] = row]
                                   /\ row.ok + row.error = Reported(c) + 1
          BY <2>4, <5>1
        <5>3. rows'[c] = row /\ \A d \in Cases \ {c} : rows'[d] = rows[d]
          BY <5>2, <2>1, <2>10
        <5>4. /\ Reported(c)' = Reported(c) + 1
              /\ \A d \in Cases \ {c} : Reported(d)' = Reported(d)
          <6>1. rows'[c].ok + rows'[c].error = Reported(c) + 1
            BY <5>2, <5>3
          <6>2. (rows[c].ok + rows[c].error)' = rows'[c].ok + rows'[c].error
            BY <5>3
          <6> QED BY <5>3, <6>1, <6>2 DEF Reported
        <5>5. CASE Reported(c) + 1 = Repeats
          <6>1. written' = written \cup {d \in {c} : HasSampleRows(rows'[d])}
            BY <1>3, <2>0, <5>1, <5>5, <3>3, <4>1 DEF EndCall, Write
          <6>2. \A d \in selected : d \in written' <=> (Reported(d) = Repeats /\ HasSampleRows(rows[d]))'
            <7> TAKE d \in selected
            <7>1. CASE d = c
              <8>1. c \notin written /\ Reported(c)' = Repeats'
                BY <2>1, <4>1, <4>2, <5>4, <5>5, RepeatsType DEF Reported, Counts
              <8>2. d \in written' <=> HasSampleRows(rows'[d])
                BY <6>1, <7>1, <8>1
              <8> QED BY <7>1, <8>1, <8>2, <2>12 DEF HasSampleRows
            <7>2. CASE d # c
              <8>1. Reported(d)' = Reported(d) /\ rows'[d] = rows[d] /\ (d \in written' <=> d \in written)
                BY <4>2, <5>3, <5>4, <6>1, <7>2
              <8> QED BY <4>1, <4>2, <8>1, <2>12 DEF HasSampleRows
            <7> QED BY <7>1, <7>2
          <6>3. written' \subseteq selected
            BY <2>1, <4>1, <6>1
          <6>4. written' = {d \in selected : Reported(d) = Repeats /\ HasSampleRows(rows[d])}'
            BY <4>2, <6>2, <6>3
          <6> QED BY <3>1, <6>4 DEF Recorded
        <5>6. CASE Reported(c) + 1 # Repeats
          <6>1. written' = written
            BY <1>3, <2>0, <5>1, <5>6 DEF EndCall, file
          <6>2. \A d \in selected : d \in written' <=> (Reported(d) = Repeats /\ HasSampleRows(rows[d]))'
            <7> TAKE d \in selected
            <7>1. CASE d = c
              <8>1. c \notin written /\ Reported(c)' # Repeats'
                BY <2>1, <4>1, <4>2, <5>4, <5>6, RepeatsType
              <8> QED BY <6>1, <7>1, <8>1
            <7>2. CASE d # c
              <8>1. Reported(d)' = Reported(d) /\ rows'[d] = rows[d]
                BY <4>2, <5>3, <5>4, <7>2
              <8> QED BY <4>1, <4>2, <6>1, <8>1, <2>12 DEF HasSampleRows
            <7> QED BY <7>1, <7>2
          <6>3. written' \subseteq selected
            BY <4>1, <6>1
          <6>4. written' = {d \in selected : Reported(d) = Repeats /\ HasSampleRows(rows[d])}'
            BY <4>2, <6>2, <6>3
          <6> QED BY <3>1, <6>4 DEF Recorded
        <5> QED BY <5>5, <5>6
      <4> QED BY <4>4, <4>5
    <3> QED BY <3>2, <3>3, <2>11
  <2> QED BY <2>7, <2>8, <2>9, <2>13 DEF IInv
<1>4. CASE CloseOutput
  <2>0. /\ phase = "measuring" /\ phase' = "ended" /\ call.pc = "none"
        /\ \A c \in selected : Reported(c) = Repeats
        /\ output' \in {output, "partial", "results"} /\ full' \in BOOLEAN /\ written' = written
        /\ output' \in {"empty", "results"} \/ full'
        /\ ~full' => ~full
        /\ UNCHANGED <<selected, passthrough, verified, executed, exit, calibrations, rows>>
        /\ UNCHANGED <<failure, call, clock, executions>>
    BY <1>4 DEF CloseOutput, Write, At, IInv, TypeOK, Established
  <2>1. TypeOK'
    <3>1. call \in CallStates /\ clock \in Clocks /\ rows \in [Cases -> Counts]
      BY DEF IInv, TypeOK, CallStates, Clocks, Counts
    <3>2. call' \in CallStates /\ clock' \in Clocks /\ rows' \in [Cases -> Counts]
      BY <2>0, <3>1
    <3>3. output' \in Outputs /\ phase' \in Phases
      BY <2>0 DEF IInv, TypeOK, Phases, Outputs
    <3> QED BY <2>0, <3>2, <3>3 DEF IInv, TypeOK, CallStates, Clocks, Counts
  <2>2. Timer' /\ Established'
    BY <2>0 DEF IInv, Timer, Established, SetupAndChecksUntimed, TimerUsedProperly
  <2>3. Pending' /\ Recorded'
    BY <2>0 DEF IInv, Pending, Recorded, Reported, Repeats, HasSampleRows
  <2> QED BY <2>1, <2>2, <2>3 DEF IInv
<1> QED BY <1>1, <1>2, <1>3, <1>4 DEF Library

-----------------------------------------------------------------------------
(* Invariants.                                                             *)

LEMMA InitiallyIn == Init => IInv
<1> SUFFICES ASSUME Init PROVE IInv
  OBVIOUS
<1>1. TypeOK
  <2>1. /\ NoCall \in CallStates /\ Stopped \in Clocks
    BY BenchmarkAssumption DEF NoCall, CallStates, Points, Stopped, Clocks, Work
  <2>2. 0 \in 0 .. Cardinality(Cases) /\ 0 \in 0 .. MaxCalibrations /\ 0 \in 0 .. Repetitions
    BY BenchmarkAssumption, FS_CardinalityType
  <2> QED BY <2>1, <2>2 DEF Init, TypeOK, CallStates, Clocks, Phases, Outputs
<1>2. Timer /\ Established
  BY DEF Init, Timer, Established, SetupAndChecksUntimed, TimerUsedProperly, NoCall, Stopped
<1>3. Pending
  <2>1. call.pc = "none" /\ ~call.skipped /\ ~failure
    BY DEF Init, NoCall
  <2>2. \A c \in Cases : ~(rows[c].error > 0)
    <3>1. \A c \in Cases : rows[c].error = 0
      BY DEF Init
    <3> QED BY <3>1
  <2> QED BY <2>1, <2>2 DEF Pending
<1>4. Recorded
  <2>1. \A c \in selected : Reported(c) # Repeats
    <3>1. \A c \in selected : Reported(c) = 0
      <4>1. \A c \in selected : rows[c].ok = 0 /\ rows[c].error = 0
        BY DEF Init
      <4> QED BY <4>1 DEF Reported
    <3> QED BY <3>1, RepeatsType
  <2> QED BY <2>1 DEF Init, Recorded
<1> QED BY <1>1, <1>2, <1>3, <1>4 DEF IInv

LEMMA NextPreserves == IInv /\ [Next]_vars => IInv'
<1> SUFFICES ASSUME IInv, [Next]_vars PROVE IInv'
  OBVIOUS
<1>1. CASE UNCHANGED vars
  <2>1. TypeOK'
    <3>1. /\ UNCHANGED <<selected, passthrough, phase, verified, output, executed, exit>>
          /\ UNCHANGED <<calibrations, rows, written, full>>
          /\ UNCHANGED <<failure, call, clock, executions>>
      BY <1>1 DEF vars, command, library, file
    <3>2. call \in CallStates /\ clock \in Clocks
      BY DEF IInv, TypeOK, CallStates, Clocks
    <3>3. call' \in CallStates /\ clock' \in Clocks
      BY <3>1, <3>2
    <3> QED BY <3>1, <3>3 DEF IInv, TypeOK, CallStates, Clocks
  <2>2. Timer' /\ Established' /\ Recorded'
    BY <1>1 DEF IInv, Timer, Established, Recorded, Reported, Repeats, HasSampleRows,
                SetupAndChecksUntimed, TimerUsedProperly, vars, command, library, file
  <2>3. Pending'
    BY <1>1 DEF IInv, Pending, Reported, Repeats, vars, command, library
  <2> QED BY <2>1, <2>2, <2>3 DEF IInv
<1> QED BY <1>1, RunCasePreserves, CommandPreserves, LibraryPreserves DEF Next

THEOREM Invariance == Spec => []IInv
BY InitiallyIn, NextPreserves, PTL DEF Spec

\* The types of all variables; the counts of samples and calibrations stay within
\* what was asked for.
THEOREM TypeCorrect == Spec => []TypeOK
<1>1. IInv => TypeOK
  BY DEF IInv
<1> QED BY <1>1, Invariance, PTL

\* However an iteration fails, its set-up and its checks are not timed.
THEOREM Untimed == Spec => []SetupAndChecksUntimed
<1>1. IInv => SetupAndChecksUntimed
  BY DEF IInv, Timer
<1> QED BY <1>1, Invariance, PTL

\* Every path through run_case keeps to the rules of benchmark::State.
THEOREM TimerRules == Spec => []TimerUsedProperly
<1>1. IInv => TimerUsedProperly
  BY DEF IInv, Timer
<1> QED BY <1>1, Invariance, PTL

-----------------------------------------------------------------------------
(* Steps.                                                                  *)

LEMMA CommandIsQuiet == Command => UNCHANGED run
BY DEF Command, Load, SelectCases, Verify, OpenSession, PrepareOutputPath, AddContext,
       Initialize, Finish, Advance

LEMMA LibraryIsQuiet == Library => UNCHANGED <<failure, executions, selected, verified>>
BY DEF Library, OpenOutput, CallCase, EndCall, CloseOutput, command, library

\* After a failure no sample is attempted, by this case or by another.
THEOREM FailureStops == Spec => FailureEndsMeasuring
<1>1. ASSUME IInv, [Next]_vars, failure PROVE failure' /\ executions' = executions
  <2>1. CASE RunCase
    BY <1>1, <2>1 DEF RunCase, SkipCase, StartLoop, NextIteration, FinishLoop, Prepare, Execute,
                      Validate, Destroy, Catch, At, IInv, Pending
  <2>2. CASE Command
    BY <1>1, <2>2, CommandIsQuiet DEF run
  <2>3. CASE Library
    BY <1>1, <2>3, LibraryIsQuiet
  <2>4. CASE UNCHANGED vars
    BY <1>1, <2>4 DEF vars
  <2> QED BY <1>1, <2>1, <2>2, <2>3, <2>4 DEF Next
<1>2. IInv /\ [Next]_vars => [failure => failure' /\ executions' = executions]_vars
  BY <1>1
<1> QED BY <1>2, Invariance, PTL DEF Spec, FailureEndsMeasuring

\* Until the suite is verified the output is left alone and no sample is attempted.
THEOREM OutputKept == Spec => OutputKeptUntilVerified
<1>1. ASSUME IInv, [Next]_vars, output' # output \/ executions' # executions PROVE verified
  <2>1. CASE RunCase
    BY <1>1, <2>1 DEF RunCase, SkipCase, StartLoop, NextIteration, FinishLoop, Prepare, Execute,
                      Validate, Destroy, Catch, At, IInv, Established, command
  <2>2. CASE Command
    BY <1>1, <2>2, CommandIsQuiet
       DEF Command, Load, SelectCases, Verify, OpenSession, PrepareOutputPath, AddContext,
           Initialize, Finish, Advance, run
  <2>3. CASE Library
    BY <1>1, <2>3, LibraryIsQuiet
       DEF Library, OpenOutput, CallCase, EndCall, CloseOutput, At, IInv, Established, command
  <2>4. CASE UNCHANGED vars
    BY <1>1, <2>4 DEF vars, command
  <2> QED BY <1>1, <2>1, <2>2, <2>3, <2>4 DEF Next
<1>2. IInv /\ [Next]_vars => [output' # output \/ executions' # executions => verified]_vars
  BY <1>1
<1> QED BY <1>2, Invariance, PTL DEF Spec, OutputKeptUntilVerified

-----------------------------------------------------------------------------
(* The promise.                                                            *)

\* What Promise substitutes for the variables of Measurement.
Stage ==
  IF exit = "success" /\ passthrough = "help" THEN "answered"
  ELSE IF exit = "success" THEN "succeeded"
  ELSE IF failure \/ exit = "error" THEN "failed"
  ELSE IF phase \in {"measuring", "ended"} /\ executed > 0 THEN "measuring"
  ELSE "checking"
Asked == CASE passthrough = "help" -> "help"
           [] passthrough = "dry run" -> "trial"
           [] passthrough = "aggregates only" -> "aggregates"
           [] OTHER -> "samples"
Taken == [c \in Cases |-> rows[c].ok]
Published == output = "results" /\ written = selected /\ ~failure

Done == \A c \in selected : Taken[c] = Repeats

LEMMA AskedFor ==
  ASSUME passthrough \in Flags
  PROVE  /\ Asked \in {"samples", "trial", "aggregates", "help"}
         /\ Asked = "help" <=> passthrough = "help"
         /\ Asked = "trial" <=> passthrough = "dry run"
         /\ Asked = "aggregates" <=> passthrough = "aggregates only"
BY DEF Asked, Flags

\* The steps of Measurement under the mapping.
LEMMA PromiseSteps ==
  ASSUME selected' = selected, passthrough' = passthrough, passthrough \in Flags
  PROVE  /\ Stage' = Stage /\ Taken' = Taken /\ Published' = Published /\ full' = full
            => UNCHANGED Promise!vars
         /\ /\ Stage = "checking" /\ passthrough = "help" /\ Stage' = "answered"
            /\ Taken' = Taken /\ Published' = Published /\ full' = full
            => Promise!Answer
         /\ /\ Stage = "checking" /\ selected # {} /\ passthrough # "help" /\ Stage' = "measuring"
            /\ Taken' = Taken /\ Published' = Published /\ full' \in BOOLEAN
            => Promise!Start
         /\ \A c \in selected :
              /\ Stage = "measuring" /\ Taken[c] < Repeats
              /\ Stage' = Stage /\ Taken' = [Taken EXCEPT ![c] = @ + 1] /\ Published' = Published
              /\ full' \in {full, TRUE}
              => Promise!Sample(c)
         /\ /\ Stage = "measuring" /\ ~full /\ Done
            /\ Stage' = Stage /\ Taken' = Taken /\ Published' /\ full' = full
            => Promise!Publish
         /\ /\ Stage \in {"measuring", "failed"} /\ ~Published
            /\ Stage' = Stage /\ Taken' = Taken /\ Published' = Published /\ full'
            => Promise!Lose
         /\ /\ Stage = "measuring" /\ Done
            /\ Published \/ full \/ passthrough = "aggregates only"
            /\ Stage' = "succeeded" /\ Taken' = Taken /\ Published' = Published /\ full' = full
            => Promise!Succeed
         /\ /\ Stage \in {"checking", "measuring"} /\ Stage' = "failed"
            /\ Taken' = Taken /\ Published' = Published /\ full' = full
            => Promise!Fail
<1>0. Asked' = Asked
  BY DEF Asked
<1>1. Stage' = Stage /\ Taken' = Taken /\ Published' = Published /\ full' = full
      => UNCHANGED Promise!vars
  BY <1>0 DEF Promise!vars, Stage, Asked, Taken, Published
<1>2. /\ Stage = "checking" /\ passthrough = "help" /\ Stage' = "answered"
      /\ Taken' = Taken /\ Published' = Published /\ full' = full
      => Promise!Answer
  BY <1>0, AskedFor DEF Promise!Answer, Stage, Asked, Taken, Published
<1>3. /\ Stage = "checking" /\ selected # {} /\ passthrough # "help" /\ Stage' = "measuring"
      /\ Taken' = Taken /\ Published' = Published /\ full' \in BOOLEAN
      => Promise!Start
  BY <1>0, AskedFor DEF Promise!Start, Stage, Asked, Taken, Published
<1>4. Promise!Wanted = Repeats
  <2>1. Promise!Wanted = IF Asked = "trial" THEN 1 ELSE Repetitions
    BY DEF Promise!Wanted, Asked
  <2> QED BY <2>1, AskedFor DEF Repeats
<1>5. Promise!AllTaken <=> Done
  <2>1. Promise!AllTaken <=> \A c \in selected : Taken[c] = Promise!Wanted
    BY DEF Promise!AllTaken, Taken
  <2> QED BY <2>1, <1>4 DEF Done
<1>6. ASSUME NEW c \in selected,
             Stage = "measuring", Taken[c] < Repeats,
             Stage' = Stage, Taken' = [Taken EXCEPT ![c] = @ + 1], Published' = Published,
             full' \in {full, TRUE}
      PROVE  Promise!Sample(c)
  <2>1. Taken[c] < Promise!Wanted
    BY <1>4, <1>6
  <2> QED BY <1>0, <1>6, <2>1 DEF Promise!Sample, Stage, Asked, Taken, Published
<1>7. /\ Stage = "measuring" /\ ~full /\ Done
      /\ Stage' = Stage /\ Taken' = Taken /\ Published' /\ full' = full
      => Promise!Publish
  BY <1>0, <1>5 DEF Promise!Publish, Stage, Asked, Taken, Published
<1>8. /\ Stage \in {"measuring", "failed"} /\ ~Published
      /\ Stage' = Stage /\ Taken' = Taken /\ Published' = Published /\ full'
      => Promise!Lose
  BY <1>0 DEF Promise!Lose, Stage, Asked, Taken, Published
<1>9. /\ Stage = "measuring" /\ Done
      /\ Published \/ full \/ passthrough = "aggregates only"
      /\ Stage' = "succeeded" /\ Taken' = Taken /\ Published' = Published /\ full' = full
      => Promise!Succeed
  BY <1>0, <1>5, AskedFor DEF Promise!Succeed, Stage, Asked, Taken, Published
<1>10. /\ Stage \in {"checking", "measuring"} /\ Stage' = "failed"
       /\ Taken' = Taken /\ Published' = Published /\ full' = full
       => Promise!Fail
  BY <1>0 DEF Promise!Fail, Stage, Asked, Taken, Published
<1> QED BY <1>1, <1>2, <1>3, <1>6, <1>7, <1>8, <1>9, <1>10

\* Without a failure a case that is reported has its samples.
LEMMA AllSampled ==
  ASSUME IInv, ~failure, \A c \in selected : Reported(c) = Repeats
  PROVE  Done
<1> SUFFICES ASSUME NEW c \in selected PROVE Taken[c] = Repeats
  BY DEF Done
<1>1. c \in Cases /\ rows[c] \in Counts /\ ~(rows[c].error > 0)
  BY DEF IInv, TypeOK, Pending, Counts
<1> QED BY <1>1, BenchmarkAssumption DEF Taken, Reported, Counts

LEMMA RunCaseKeepsPromise ==
  ASSUME IInv, RunCase
  PROVE  [Promise!Next]_(Promise!vars)
<1>1. /\ UNCHANGED <<command, library>> /\ phase = "measuring" /\ exit = "running"
      /\ executed > 0 /\ output # "results" /\ passthrough \in Flags
  BY DEF RunCase, SkipCase, StartLoop, NextIteration, FinishLoop, Prepare, Execute,
         Validate, Destroy, Catch, At, IInv, TypeOK, Established
<1>2. Taken' = Taken /\ Published' = Published /\ UNCHANGED <<selected, passthrough, full>>
  BY <1>1 DEF Taken, Published, command, library, file
<1>3. CASE failure' = failure
  <2>1. Stage' = Stage
    BY <1>1, <1>3 DEF Stage, command
  <2> QED BY <1>1, <1>2, <2>1, PromiseSteps
<1>4. CASE failure' # failure
  <2>1. ~failure /\ failure'
    BY <1>4 DEF RunCase, SkipCase, StartLoop, NextIteration, FinishLoop, Prepare, Execute,
                Validate, Destroy, Catch, At, IInv, Pending
  <2>2. Stage = "measuring" /\ Stage' = "failed"
    BY <1>1, <2>1 DEF Stage, command
  <2>3. Promise!Fail
    BY <1>1, <1>2, <2>2, PromiseSteps
  <2> QED BY <2>3 DEF Promise!Next
<1> QED BY <1>3, <1>4

LEMMA CommandKeepsPromise ==
  ASSUME IInv, Command
  PROVE  [Promise!Next]_(Promise!vars)
<1>1. /\ UNCHANGED <<selected, passthrough, rows, written, full, failure, output, executed>>
      /\ exit = "running" /\ passthrough \in Flags /\ failure \in BOOLEAN
  BY CommandIsQuiet
     DEF Command, Load, SelectCases, Verify, OpenSession, PrepareOutputPath, AddContext,
         Initialize, Finish, Advance, run, library, file, IInv, TypeOK, Established
<1>2. Taken' = Taken /\ Published' = Published
  BY <1>1 DEF Taken, Published
<1>3. CASE exit' = "running"
  <2>1. phase \notin {"measuring", "ended"} /\ phase' \notin {"measuring", "ended"}
    BY <1>3 DEF Command, Load, SelectCases, Verify, OpenSession, PrepareOutputPath, AddContext,
                Initialize, Finish, Advance, Exit
  <2>2. Stage' = Stage
    BY <1>1, <1>3, <2>1 DEF Stage
  <2> QED BY <1>1, <1>2, <2>2, PromiseSteps
<1>4. CASE exit' = "error"
  <2>1. Stage' = "failed" /\ Stage \in {"failed", "checking", "measuring"}
    BY <1>1, <1>4 DEF Stage
  <2>2. CASE Stage = "failed"
    BY <1>1, <1>2, <2>1, <2>2, PromiseSteps
  <2>3. CASE Stage \in {"checking", "measuring"}
    <3>1. Promise!Fail
      BY <1>1, <1>2, <2>1, <2>3, PromiseSteps
    <3> QED BY <3>1 DEF Promise!Next
  <2> QED BY <2>1, <2>2, <2>3
<1>5. CASE exit' = "success"
  <2>1. \/ Initialize /\ passthrough = "help"
        \/ Finish
    BY <1>1, <1>5 DEF Command, Load, SelectCases, Verify, OpenSession, PrepareOutputPath,
                      AddContext, Initialize, Advance, Exit
  <2>2. CASE Initialize /\ passthrough = "help"
    <3>1. phase = "context" /\ ~failure
      BY <2>2 DEF Initialize, IInv, Established
    <3>2. Stage = "checking" /\ Stage' = "answered"
      BY <1>1, <1>5, <2>2, <3>1 DEF Stage
    <3>3. Promise!Answer
      BY <1>1, <1>2, <2>2, <3>2, PromiseSteps
    <3> QED BY <3>3 DEF Promise!Next
  <2>3. CASE Finish
    <3>1. phase = "ended" /\ ~failure /\ executed # 0 /\ output \notin {"missing", "directory", "empty"}
      BY <1>5, <2>3 DEF Finish, Exit
    <3>2. executed > 0 /\ output \in {"partial", "results"} /\ passthrough # "help"
      <4>1. executed \in 0 .. Cardinality(Cases) /\ output \in {"empty", "partial", "results"}
            /\ passthrough # "help"
        BY <3>1 DEF IInv, TypeOK, Established
      <4>2. Cardinality(Cases) \in Nat
        BY FS_CardinalityType, BenchmarkAssumption
      <4> QED BY <3>1, <4>1, <4>2
    <3>3. Done
      BY <3>1, <3>2, AllSampled DEF IInv, Recorded
    <3>4. Published \/ full \/ passthrough = "aggregates only"
      <4> SUFFICES ASSUME ~full, passthrough # "aggregates only" PROVE Published
        OBVIOUS
      <4>1. \A c \in selected : Reported(c) = Repeats /\ HasSampleRows(rows[c])
        BY <3>1, <3>2 DEF IInv, Recorded, HasSampleRows
      <4>2. written = selected /\ output = "results"
        BY <3>1, <3>2, <4>1 DEF IInv, Recorded
      <4> QED BY <3>1, <4>2 DEF Published
    <3>5. Stage = "measuring" /\ Stage' = "succeeded"
      BY <1>1, <1>5, <3>1, <3>2 DEF Stage
    <3>6. Promise!Succeed
      BY <1>1, <1>2, <3>3, <3>4, <3>5, PromiseSteps
    <3> QED BY <3>6 DEF Promise!Next
  <2> QED BY <2>1, <2>2, <2>3
<1>6. exit' \in {"running", "error", "success"}
  BY <1>1 DEF Command, Load, SelectCases, Verify, OpenSession, PrepareOutputPath, AddContext,
              Initialize, Finish, Advance, Exit
<1> QED BY <1>3, <1>4, <1>5, <1>6

LEMMA LibraryKeepsPromise ==
  ASSUME IInv, Library
  PROVE  [Promise!Next]_(Promise!vars)
<1>1. /\ UNCHANGED <<failure, selected, passthrough>> /\ selected \subseteq Cases
      /\ failure \in BOOLEAN /\ passthrough \in Flags /\ passthrough # "help"
      /\ exit = "running" /\ phase \in {"registered", "measuring"}
      /\ output # "results" /\ ~Published /\ full \in BOOLEAN
  BY LibraryIsQuiet DEF Library, OpenOutput, CallCase, EndCall, CloseOutput, At, IInv, TypeOK,
                        Established, Published, command
<1>0. Published \in BOOLEAN /\ Published' \in BOOLEAN
  BY DEF Published
<1>2. CASE OpenOutput
  <2>1. ~failure /\ selected # {} /\ Stage = "checking"
    BY <1>1, <1>2 DEF OpenOutput, IInv, Established, Stage
  <2>2. Taken' = Taken /\ Published' = Published /\ full' \in BOOLEAN
    <3>1. output' # "results" /\ rows' = rows /\ full' \in BOOLEAN
      BY <1>1, <1>2 DEF OpenOutput, Write, Exit, file
    <3>2. ~Published'
      BY <3>1 DEF Published
    <3> QED BY <1>0, <1>1, <3>1, <3>2 DEF Taken
  <2>3. CASE Exit("error") /\ full' = full
    <3>1. Stage' = "failed"
      BY <2>3 DEF Exit, Stage
    <3>2. Promise!Fail
      BY <1>1, <2>1, <2>2, <2>3, <3>1, PromiseSteps
    <3> QED BY <3>2 DEF Promise!Next
  <2>4. CASE executed' = 0 /\ exit' = exit /\ full' = full
    <3>1. Stage' = Stage
      BY <1>1, <2>1, <2>4 DEF Stage
    <3> QED BY <1>1, <2>2, <2>4, <3>1, PromiseSteps
  <2>5. CASE executed' = Cardinality(selected) /\ phase' \in {"measuring", "ended"} /\ exit' = exit
    <3>1. executed' > 0
      BY <1>1, <2>1, <2>5, SelectionSize
    <3>2. Stage' = "measuring"
      BY <1>1, <2>1, <2>5, <3>1 DEF Stage
    <3>3. Promise!Start
      BY <1>1, <2>1, <2>2, <3>2, PromiseSteps
    <3> QED BY <3>3 DEF Promise!Next
  <2> QED BY <1>2, <2>3, <2>4, <2>5 DEF OpenOutput, file
<1>3. ASSUME NEW c \in Cases, CallCase(c) PROVE [Promise!Next]_(Promise!vars)
  <2>1. Stage' = Stage /\ Taken' = Taken /\ Published' = Published /\ full' = full
    BY <1>3 DEF CallCase, Stage, Taken, Published, command, library, file
  <2> QED BY <1>1, <2>1, PromiseSteps
<1>4. CASE EndCall
  <2> DEFINE c == call.case
  <2>1. /\ Stage' = Stage /\ Stage \in {"measuring", "failed"}
        /\ phase = "measuring" /\ executed > 0 /\ output' # "results"
        /\ full' \in {full, TRUE}
    <3>1. /\ phase = "measuring" /\ executed > 0 /\ output \in {"empty", "partial"}
          /\ UNCHANGED <<exit, failure, phase, executed, passthrough>>
      BY <1>4 DEF EndCall, At, IInv, Established
    <3>2. output' \in {output, "partial"} /\ full' \in {full, TRUE}
      BY <1>4 DEF EndCall, Write, file
    <3>3. Stage' = Stage
      BY <1>1, <3>1 DEF Stage
    <3>4. Stage \in {"measuring", "failed"}
      BY <1>1, <3>1 DEF Stage
    <3> QED BY <3>1, <3>2, <3>3, <3>4
  <2>6. Published' = Published
    <3>1. ~Published'
      BY <2>1 DEF Published
    <3> QED BY <1>0, <1>1, <3>1
  <2>2. /\ c \in selected /\ c \in Cases /\ rows \in [Cases -> Counts]
        /\ Reported(c) < Repeats /\ call.skipped \in BOOLEAN
        /\ failure => call.skipped
    BY <1>1, <1>4 DEF EndCall, At, IInv, TypeOK, Pending, Counts
  <2>7. CASE Taken' = Taken
    <3>1. CASE full' = full
      BY <1>1, <2>1, <2>6, <2>7, <3>1, PromiseSteps
    <3>2. CASE full'
      <4>1. Promise!Lose
        BY <1>1, <2>1, <2>6, <2>7, <3>2, PromiseSteps
      <4> QED BY <4>1 DEF Promise!Next
    <3> QED BY <2>1, <3>1, <3>2
  <2>3. CASE UNCHANGED rows
    BY <2>3, <2>7 DEF Taken
  <2>4. CASE call.skipped /\ rows' = [rows EXCEPT ![c].error = @ + 1]
    <3>1. rows' = [rows EXCEPT ![c] = [ok |-> rows[c].ok, error |-> rows[c].error + 1]]
      BY <2>2, <2>4, CountRow
    <3>2. Taken' = Taken
      BY <2>2, <3>1 DEF Taken
    <3> QED BY <2>7, <3>2
  <2>5. CASE ~call.skipped /\ rows' = [rows EXCEPT ![c].ok = @ + 1]
    <3>1. rows' = [rows EXCEPT ![c] = [ok |-> rows[c].ok + 1, error |-> rows[c].error]]
      BY <2>2, <2>5, CountRow
    <3>2. Taken' = [Taken EXCEPT ![c] = @ + 1]
      BY <2>2, <3>1 DEF Taken
    <3>3. Taken[c] < Repeats
      BY <2>2, RepeatsType, BenchmarkAssumption DEF Taken, Reported, Counts
    <3>4. Stage = "measuring"
      BY <1>1, <2>1, <2>2, <2>5 DEF Stage
    <3>5. \E d \in Cases : Promise!Sample(d)
      <4> PICK d \in Cases : d = c
        BY <2>2
      <4>1. /\ d \in selected /\ Taken[d] < Repeats /\ Taken' = [Taken EXCEPT ![d] = @ + 1]
        BY <2>2, <3>2, <3>3
      <4>2. Promise!Sample(d)
        BY <1>1, <2>1, <2>6, <3>4, <4>1, PromiseSteps
      <4> QED BY <4>2
    <3> QED BY <3>5 DEF Promise!Next
  <2> QED BY <1>4, <2>3, <2>4, <2>5 DEF EndCall
<1>5. CASE CloseOutput
  <2>1. /\ phase = "measuring" /\ phase' = "ended" /\ executed > 0
        /\ UNCHANGED <<rows, executed, exit>> /\ written' = written
        /\ \A c \in selected : Reported(c) = Repeats
        /\ \/ ~full /\ full' = full
           \/ full' /\ output' # "results"
    BY <1>1, <1>5 DEF CloseOutput, Write, At, IInv, Established
  <2>2. Stage' = Stage /\ Stage \in {"measuring", "failed"} /\ Taken' = Taken
    BY <1>1, <2>1 DEF Stage, Taken
  <2>3. CASE ~Published'
    <3>0. Published' = Published
      BY <1>0, <1>1, <2>3
    <3>1. CASE full' = full
      BY <1>1, <2>2, <3>0, <3>1, PromiseSteps
    <3>2. CASE full'
      <4>1. Promise!Lose
        BY <1>1, <2>2, <3>0, <3>2, PromiseSteps
      <4> QED BY <4>1 DEF Promise!Next
    <3> QED BY <2>1, <3>1, <3>2
  <2>4. CASE Published'
    <3>1. ~failure /\ ~full /\ full' = full
      BY <1>1, <2>1, <2>4 DEF Published
    <3>2. Done
      BY <2>1, <3>1, AllSampled
    <3>3. Stage = "measuring"
      BY <1>1, <2>1, <3>1 DEF Stage
    <3>4. Promise!Publish
      BY <1>1, <2>2, <2>4, <3>1, <3>2, <3>3, PromiseSteps
    <3> QED BY <3>4 DEF Promise!Next
  <2> QED BY <2>3, <2>4
<1> QED BY <1>2, <1>3, <1>4, <1>5 DEF Library

\* The run command implements Measurement: unless it prints the library's help it
\* succeeds only when every selected case has all its samples, and they are in the
\* output if the file system took it and no summary was asked for
\* (benchmark.cpp:370-424).
THEOREM Implements == Spec => KeepsPromise
<1>1. Init => Promise!Init
  <2> SUFFICES ASSUME Init PROVE Promise!Init
    OBVIOUS
  <2>1. /\ Stage = "checking" /\ Published = FALSE /\ selected \in SUBSET Cases /\ full = FALSE
        /\ Asked \in {"samples", "trial", "aggregates", "help"}
    BY AskedFor DEF Init, Stage, Published
  <2>2. Taken = [c \in Cases |-> 0]
    BY DEF Init, Taken
  <2> QED BY <2>1, <2>2 DEF Promise!Init, Stage, Asked, Published, Taken
<1>2. IInv /\ [Next]_vars => [Promise!Next]_(Promise!vars)
  <2> SUFFICES ASSUME IInv, [Next]_vars PROVE [Promise!Next]_(Promise!vars)
    OBVIOUS
  <2>1. CASE UNCHANGED vars
    <3>1. /\ Stage' = Stage /\ Taken' = Taken /\ Published' = Published
          /\ UNCHANGED <<selected, passthrough, full>> /\ passthrough \in Flags
      BY <2>1 DEF vars, command, library, file, Stage, Taken, Published, IInv, TypeOK
    <3> QED BY <3>1, PromiseSteps
  <2> QED BY <2>1, RunCaseKeepsPromise, CommandKeepsPromise, LibraryKeepsPromise DEF Next
<1> QED BY <1>1, <1>2, Invariance, PTL DEF Spec, KeepsPromise, Promise!Spec

=============================================================================
