---------------------------- MODULE ReplayProofs ----------------------------
(***************************************************************************)
(* Theorems about Replay, for every suite, every deterministic VM and      *)
(* every set of locations: types, that an accepted execution read only     *)
(* what the fixture covers, that its results are the expected ones in both *)
(* modes, that the whole suite is accepted before anything is timed, that  *)
(* every timed iteration repeats, step for step, the verified one, and     *)
(* that of the suites captured from a chain those pass which describe it.  *)
(***************************************************************************)
EXTENDS OnChain, TLAPS

\* Read only extends what an iteration has read and missed.
LEMMA ReadFields ==
  ASSUME NEW it \in Iterations, NEW ls \in SUBSET Locations
  PROVE  /\ Read(it, ls) \in Iterations
         /\ Read(it, ls).case = it.case /\ Read(it, ls).mode = it.mode
         /\ Read(it, ls).validating = it.validating /\ Read(it, ls).vm = it.vm
         /\ Read(it, ls).written = it.written /\ Read(it, ls).logs = it.logs
         /\ Read(it, ls).failures = it.failures /\ Read(it, ls).todo = it.todo
         /\ Read(it, ls).reads = it.reads \cup ls
         /\ it.missing \subseteq Read(it, ls).missing
         /\ it.validating => \A l \in ls : Uncaptured(l) => l \in Read(it, ls).missing
  BY DEF Read, Iterations

\* What a constructed iteration starts from.
LEMMA FreshFields ==
  ASSUME TypeOK, NEW c \in Cases, NEW m \in Modes, NEW v \in BOOLEAN
  PROVE  /\ Fresh(c, m, v) \in Iterations
         /\ Fresh(c, m, v).case = c /\ Fresh(c, m, v).mode = m
         /\ Fresh(c, m, v).validating = v
         /\ v => \A l \in Fresh(c, m, v).reads :
                   Uncaptured(l) => l \in Fresh(c, m, v).missing
<1> DEFINE new == [case |-> c, mode |-> m, validating |-> v,
        vm |-> IF m = "dual-hot" THEN native[c] ELSE InterpreterEntry[c],
        written |-> [l \in Stored |-> NoValue], logs |-> << >>,
        reads |-> {}, missing |-> {}, failures |-> {}, todo |-> << >>]
<1>1. new \in Iterations
  BY ReplayAssumption DEF TypeOK, Iterations, Optional
<1>2. Prelude(c, m) \in SUBSET Locations
  <2>1. Message[c] \in Messages /\ Message[c].recipient \in Stored
    BY ReplayAssumption DEF Messages, Stored
  <2>2. base[m][Message[c].recipient] \in Values
    BY <2>1 DEF TypeOK
  <2>3. Delegate[base[m][Message[c].recipient]] \in Optional(Accounts)
    BY <2>2, ReplayAssumption
  <2>. QED
    BY <2>1, <2>3, ReplayAssumption DEF Prelude, Messages, Optional, Locations, Stored
<1>3. Fresh(c, m, v) = Read(new, Prelude(c, m))
  BY DEF Fresh
<1>. HIDE DEF new
<1>4. new.reads = {} /\ new.case = c /\ new.mode = m /\ new.validating = v
  BY DEF new
<1>. QED
  BY <1>1, <1>2, <1>3, <1>4, ReadFields

\* What the current operation of a halted VM looks like, and its result.
LEMMA HaltResult ==
  ASSUME TypeOK, Op[iteration.vm].kind = "halt"
  PROVE  /\ ReplayResult(iteration) \in Results
         /\ Op[iteration.vm].status \in Statuses
         /\ Op[iteration.vm].output \in Outputs
         /\ Op[iteration.vm].gasLeft \in Int
<1>1. iteration.vm \in VmStates /\ iteration.case \in Cases /\ iteration.logs \in Seq(Values)
  BY DEF TypeOK, Iterations
<1>2. Op[iteration.vm] \in Ops /\ Message[iteration.case] \in Messages
  BY <1>1, ReplayAssumption
<1>3. Op[iteration.vm] \in [kind : {"halt"}, status : Statuses, output : Outputs, gasLeft : Int]
  BY <1>2 DEF Ops
<1>4. Message[iteration.case].gas \in Nat
  BY <1>2 DEF Messages
<1>. QED
  BY <1>1, <1>3, <1>4 DEF ReplayResult, Results

\* The locations a VM operation loads, and the value it sees there.
LEMMA LoadsType ==
  ASSUME TypeOK, NEW l \in Locations
  PROVE  /\ Loads(iteration, l) \in SUBSET Locations
         /\ Current(iteration, l) \in Values
<1>1. /\ iteration.mode \in Modes /\ iteration.written \in [Stored -> Optional(Values)]
      /\ base \in [Modes -> [Stored -> Values]]
      /\ fixture \in Suites
  BY ReplayAssumption DEF TypeOK, Iterations
<1>2. Loads(iteration, l) \in SUBSET Locations
  BY ReplayAssumption DEF Loads, Locations, Stored
<1>3. CASE l \in Numbers
  <2>1. Current(iteration, l) = BlockHash(l)
    BY <1>3 DEF Current
  <2>2. fixture.value \in [Locations -> Values]
    BY <1>1 DEF Suites
  <2>. QED
    BY <1>2, <2>1, <2>2, ReplayAssumption DEF BlockHash
<1>4. CASE l \notin Numbers
  BY <1>1, <1>2, <1>4, ReplayAssumption DEF Current, Locations, Optional
<1>. QED
  BY <1>3, <1>4

LEMMA EntryType ==
  ASSUME TypeOK, iteration.todo # << >>
  PROVE  /\ Head(iteration.todo) \in Entries
         /\ Tail(iteration.todo) \in Seq(Entries)
         /\ EntryReads(iteration, Head(iteration.todo)) \in SUBSET Locations
<1>1. iteration.todo \in Seq(Entries)
  BY DEF TypeOK, Iterations
<1>2. Head(iteration.todo) \in Entries /\ Tail(iteration.todo) \in Seq(Entries)
  BY <1>1
<1>3. Head(iteration.todo).account \in Locations
  BY <1>2 DEF Entries, Locations, Stored
<1>4. \A s \in Slots : Loads(iteration, s) \in SUBSET Locations
  BY LoadsType DEF Locations, Stored
<1>. QED
  BY <1>2, <1>3, <1>4 DEF EntryReads

\* Every reachable state of the verifier and of the benchmark session is well
\* typed, whatever the VM does.
THEOREM TypeCorrect == Spec => []TypeOK
<1>1. Init => TypeOK
  <2> SUFFICES ASSUME Init PROVE TypeOK
    OBVIOUS
  <2>1. 1 \in Cases
    BY ReplayAssumption DEF Cases
  <2>2. iteration \in Iterations
    BY <2>1, ReplayAssumption DEF Init, Iterations, Optional, Modes
  <2>. QED
    BY <2>2, ReplayAssumption DEF Init, TypeOK, Phases, Optional
<1>2. TypeOK /\ [Next]_vars => TypeOK'
  <2> SUFFICES ASSUME TypeOK, [Next]_vars PROVE TypeOK'
    OBVIOUS
  <2>a. /\ iteration \in Iterations /\ iteration.vm \in VmStates
        /\ iteration.case \in Cases /\ iteration.mode \in Modes
        /\ iteration.todo \in Seq(Entries) /\ iteration.logs \in Seq(Values)
        /\ Op[iteration.vm] \in Ops
    BY ReplayAssumption DEF TypeOK, Iterations
  <2>1. CASE VmRead
    <3>1. Op[iteration.vm].at \in Locations
      BY <2>1, <2>a DEF VmRead, Ops
    <3>2. Read(iteration, Loads(iteration, Op[iteration.vm].at)) \in Iterations
      BY <3>1, <2>a, LoadsType, ReadFields
    <3>3. After[iteration.vm][Current(iteration, Op[iteration.vm].at)] \in VmStates
      BY <3>1, <2>a, LoadsType, ReplayAssumption
    <3>4. iteration' \in Iterations
      <4> DEFINE r == Read(iteration, Loads(iteration, Op[iteration.vm].at))
      <4>1. r \in Iterations /\ r.vm = iteration.vm
        BY <3>1, <2>a, LoadsType, ReadFields
      <4>2. iteration' = [r EXCEPT !.vm = After[r.vm][Current(iteration, Op[iteration.vm].at)]]
        BY <2>1 DEF VmRead
      <4> HIDE DEF r
      <4>3. After[r.vm][Current(iteration, Op[iteration.vm].at)] \in VmStates
        BY <3>3, <4>1
      <4> QED BY <4>1, <4>2, <4>3 DEF Iterations
    <3>. QED
      BY <2>1, <3>4 DEF VmRead, TypeOK, inputs
  <2>2. CASE VmWrite
    <3>1. Op[iteration.vm].at \in Stored /\ Op[iteration.vm].value \in Values
      BY <2>2, <2>a DEF VmWrite, Ops
    <3>2. /\ Op[iteration.vm].at \in Locations
          /\ Read(iteration, Loads(iteration, Op[iteration.vm].at)) \in Iterations
          /\ Read(iteration, Loads(iteration, Op[iteration.vm].at)).vm = iteration.vm
      BY <3>1, <2>a, LoadsType, ReadFields DEF Locations
    <3>3. After[iteration.vm][Op[iteration.vm].value] \in VmStates
      BY <3>1, <2>a, ReplayAssumption
    <3>4. iteration' \in Iterations
      BY <2>2, <3>1, <3>2, <3>3 DEF VmWrite, Iterations, Optional
    <3>. QED
      BY <2>2, <3>4 DEF VmWrite, TypeOK, inputs
  <2>3. CASE VmLog
    <3>1. Op[iteration.vm].value \in Values
      BY <2>3, <2>a DEF VmLog, Ops
    <3>2. After[iteration.vm][Op[iteration.vm].value] \in VmStates
      BY <3>1, <2>a, ReplayAssumption
    <3>3. Append(iteration.logs, Op[iteration.vm].value) \in Seq(Values)
      BY <2>a, <3>1
    <3>4. iteration' = [iteration EXCEPT !.vm = After[iteration.vm][Op[iteration.vm].value],
                                         !.logs = Append(iteration.logs, Op[iteration.vm].value)]
      BY <2>3 DEF VmLog
    <3>5. iteration' \in Iterations
      BY <2>a, <3>2, <3>3, <3>4 DEF Iterations
    <3>. QED
      BY <2>3, <3>5 DEF VmLog, TypeOK, inputs
  <2>4. CASE VmHalt
    <3>1. CASE Op[iteration.vm].status = "success"
      BY <2>4, <2>a, <3>1 DEF VmHalt, TypeOK, inputs, Phases
    <3>2. CASE Op[iteration.vm].status # "success"
      <4>1. iteration' = [iteration EXCEPT !.written = [l \in Stored |-> NoValue], !.logs = << >>]
        BY <2>4, <3>2 DEF VmHalt
      <4>2. [l \in Stored |-> NoValue] \in [Stored -> Optional(Values)]
        BY DEF Optional
      <4>3. << >> \in Seq(Values)
        OBVIOUS
      <4>4. iteration' \in Iterations /\ iteration'.vm = iteration.vm
        BY <2>a, <4>1, <4>2, <4>3 DEF Iterations
      <4>. QED
        BY <2>4, <4>4 DEF VmHalt, TypeOK, inputs, Phases
    <3>. QED
      BY <3>1, <3>2
  <2>5. CASE Compare
    <3>1. Op[iteration.vm].kind = "halt"
      BY <2>5 DEF Compare, TypeOK
    <3>2. CASE Malformed(iteration)
      BY <2>5, <3>2 DEF Compare, TypeOK, inputs, Phases, Failed
    <3>3. CASE ~Malformed(iteration)
      <4>1. Expected(iteration).state \in Seq(Entries)
        BY <2>a, ReplayAssumption DEF TypeOK, Expected, Suites, Expectations
      <4>2. Mismatches(iteration) \in SUBSET Failures
        BY DEF Mismatches, Failures
      <4>3. /\ iteration' \in Iterations /\ iteration'.vm = iteration.vm
            /\ iteration'.case = iteration.case
        BY <2>5, <2>a, <3>3, <4>1, <4>2 DEF Compare, Iterations
      <4>4. Message[iteration.case].gas \in Nat /\ Op[iteration.vm].gasLeft \in Int
        BY <2>a, <3>1, HaltResult, ReplayAssumption DEF Messages
      <4>5. ReplayResult(iteration)'.gasUsed \in 0 .. Message[iteration.case].gas
        BY <3>3, <4>3, <4>4 DEF ReplayResult, Malformed
      <4>. QED
        BY <2>5, <3>1, <3>3, <4>3, <4>5 DEF Compare, TypeOK, inputs, Phases
    <3>. QED
      BY <3>2, <3>3
  <2>6. CASE VerifyExpectedState
    <3> DEFINE e == Head(iteration.todo)
               r == Read(iteration, EntryReads(iteration, e))
    <3>1. /\ e \in Entries /\ Tail(iteration.todo) \in Seq(Entries)
          /\ EntryReads(iteration, e) \in SUBSET Locations
      BY <2>6, EntryType DEF VerifyExpectedState
    <3>2. /\ r \in Iterations /\ r.vm = iteration.vm /\ r.case = iteration.case
          /\ r.todo = iteration.todo /\ r.failures = iteration.failures
          /\ r.logs = iteration.logs
      BY <3>1, <2>a, ReadFields
    <3>3. iteration' = [r EXCEPT !.todo = Tail(@),
                          !.failures = @ \cup {f \in {"state"} : ~EntryHolds(iteration, e)}]
      BY <2>6 DEF VerifyExpectedState
    <3> HIDE DEF r, e
    <3>4. /\ iteration' \in Iterations /\ iteration'.vm = iteration.vm
          /\ iteration'.case = iteration.case /\ iteration'.logs = iteration.logs
      BY <3>1, <3>2, <3>3 DEF Iterations, Failures, e
    <3>5. ReplayResult(iteration)' = ReplayResult(iteration)
      BY <3>4 DEF ReplayResult
    <3>. QED
      BY <2>6, <3>4, <3>5 DEF VerifyExpectedState, TypeOK, inputs, Phases
  <2>7. CASE FailCase
    BY <2>7 DEF FailCase, TypeOK, inputs, Phases, Failed
  <2>8. CASE RejectEnvironment
    BY <2>8 DEF RejectEnvironment, TypeOK, inputs, Phases
  <2>9. CASE BuildSessions
    <3>1. BuildBaseState \in [Stored -> Values]
      BY ReplayAssumption DEF BuildBaseState, TypeOK, Suites, Locations
    <3>. QED
      BY <2>9, <3>1 DEF BuildSessions, TypeOK, inputs, Phases
  <2>10. CASE FirstCase
    <3>1. 1 \in Cases /\ "interpreter-hot" \in Modes /\ TRUE \in BOOLEAN
      BY ReplayAssumption DEF Cases, Modes
    <3>2. Fresh(1, "interpreter-hot", TRUE) \in Iterations
      BY <3>1, FreshFields
    <3>. QED
      BY <2>10, <3>2 DEF FirstCase, Begin, TypeOK, inputs, Phases
  <2>11. CASE InterpreterAccepted
    <3>1. iteration' \in Iterations
      BY <2>11, <2>a, FreshFields DEF InterpreterAccepted, Begin, Modes
    <3>2. ReplayResult(iteration) \in Results
      BY <2>11, HaltResult DEF InterpreterAccepted, Checked, TypeOK
    <3>3. verified' \in [Cases -> [Modes -> Optional(Accepted)]]
      BY <2>11, <2>a, <3>2
      DEF InterpreterAccepted, Record, TypeOK, Accepted, Optional, Iterations
    <3>. QED
      BY <2>11, <3>1, <3>2, <3>3 DEF InterpreterAccepted, Begin, TypeOK, inputs, Phases, Optional
  <2>12. CASE ModesDiffer
    BY <2>12 DEF ModesDiffer, TypeOK, inputs, Phases
  <2>13. CASE DualAccepted
    <3>1. iteration' \in Iterations
      <4>1. CASE LastCase
        BY <2>13, <2>a, <4>1 DEF DualAccepted
      <4>2. CASE ~LastCase
        <5>1. iteration.case + 1 \in Cases
          BY <2>a, <4>2, ReplayAssumption DEF Cases, LastCase
        <5>2. "interpreter-hot" \in Modes /\ TRUE \in BOOLEAN
          BY DEF Modes
        <5>3. Fresh(iteration.case + 1, "interpreter-hot", TRUE) \in Iterations
          BY <5>1, <5>2, FreshFields
        <5>. QED
          BY <2>13, <4>2, <5>3 DEF DualAccepted, Begin
      <4>. QED
        BY <4>1, <4>2
    <3>2. ReplayResult(iteration) \in Results
      BY <2>13, HaltResult DEF DualAccepted, Checked, TypeOK
    <3>3. verified' \in [Cases -> [Modes -> Optional(Accepted)]]
      BY <2>13, <2>a, <3>2
      DEF DualAccepted, Record, TypeOK, Accepted, Optional, Iterations
    <3>4. phase' \in {"verified", "running"}
      BY <2>13 DEF DualAccepted, Begin
    <3>. QED
      BY <2>13, <3>1, <3>3, <3>4 DEF DualAccepted, TypeOK, inputs, Phases
  <2>14. CASE OpenBenchmarkSession
    <3>1. BuildBaseState \in [Stored -> Values]
      BY ReplayAssumption DEF BuildBaseState, TypeOK, Suites, Locations
    <3>. QED
      BY <2>14, <3>1 DEF OpenBenchmarkSession, TypeOK, inputs, Phases
  <2>15. ASSUME NEW c \in Cases, Prepare(c) PROVE TypeOK'
    <3>1. iteration' \in Iterations
      BY <2>15, FreshFields DEF Prepare, Begin, TypeOK
    <3>2. timed' \in 0 .. MaxTimed
      BY <2>15, ReplayAssumption DEF Prepare, TypeOK
    <3>. QED
      BY <2>15, <3>1, <3>2 DEF Prepare, Begin, TypeOK, inputs, Phases
  <2>16. CASE SampleAccepted
    BY <2>16 DEF SampleAccepted, TypeOK, inputs, Phases
  <2>17. CASE UNCHANGED vars
    <3>1. ReplayResult(iteration)' = ReplayResult(iteration)
      BY <2>17 DEF vars, ReplayResult
    <3>. QED
      BY <2>17, <3>1 DEF vars, TypeOK
  <2>. QED
    BY <2>1, <2>2, <2>3, <2>4, <2>5, <2>6, <2>7, <2>8, <2>9, <2>10, <2>11,
       <2>12, <2>13, <2>14, <2>15, <2>16, <2>17
    DEF Next, Execute, Validate, Verify, Benchmark
<1>. QED
  BY <1>1, <1>2, PTL DEF Spec

-----------------------------------------------------------------------------
(* Accepted executions.                                                    *)

\* A step inside an execution leaves the suite and the history alone.
Inside ==
  /\ UNCHANGED <<fixture, interpreter, verified>>
  /\ iteration'.case = iteration.case /\ iteration'.mode = iteration.mode
  /\ iteration'.validating = iteration.validating

\* The steps of one execution stay inside it and record what they miss.
LEMMA ExecutionStep ==
  ASSUME TypeOK, MissingRecorded, Execute \/ Compare \/ VerifyExpectedState
  PROVE  /\ Inside /\ MissingRecorded'
         /\ phase \in {"running", "executed", "checking"}
         /\ phase' \in {"running", "executed", "checking", "rejected", "failed"}
<1> USE DEF MissingRecorded
<1>a. /\ iteration \in Iterations
      /\ Op[iteration.vm] \in Ops
  BY ReplayAssumption DEF TypeOK, Iterations
<1>b. ASSUME fixture' = fixture PROVE \A l : Uncaptured(l)' <=> Uncaptured(l)
  BY <1>b DEF Uncaptured, UncapturedAccount, UncapturedSlot, UncapturedHash
<1>1. CASE VmRead
  <2>1. Op[iteration.vm].at \in Locations
    BY <1>1, <1>a DEF VmRead, Ops
  <2>2. Loads(iteration, Op[iteration.vm].at) \in SUBSET Locations
    BY <2>1, LoadsType
  <2> DEFINE r == Read(iteration, Loads(iteration, Op[iteration.vm].at))
  <2>3. /\ r \in Iterations /\ r.case = iteration.case /\ r.mode = iteration.mode
        /\ r.validating = iteration.validating
        /\ r.validating => \A l \in r.reads : Uncaptured(l) => l \in r.missing
    BY <1>a, <2>2, ReadFields
  <2>4. iteration' = [r EXCEPT !.vm = After[@][Current(iteration, Op[iteration.vm].at)]]
    BY <1>1 DEF VmRead
  <2> HIDE DEF r
  <2>5. /\ iteration'.case = r.case /\ iteration'.mode = r.mode
        /\ iteration'.validating = r.validating
        /\ iteration'.reads = r.reads /\ iteration'.missing = r.missing
    BY <2>3, <2>4 DEF Iterations
  <2>. QED
    BY <1>1, <1>b, <2>3, <2>5 DEF VmRead, Inside, inputs
<1>2. CASE VmWrite
  <2>1. Op[iteration.vm].at \in Locations
    BY <1>2, <1>a DEF VmWrite, Ops, Locations
  <2>2. Loads(iteration, Op[iteration.vm].at) \in SUBSET Locations
    BY <2>1, LoadsType
  <2> DEFINE r == Read(iteration, Loads(iteration, Op[iteration.vm].at))
  <2>3. /\ r \in Iterations /\ r.case = iteration.case /\ r.mode = iteration.mode
        /\ r.validating = iteration.validating
        /\ r.validating => \A l \in r.reads : Uncaptured(l) => l \in r.missing
    BY <1>a, <2>2, ReadFields
  <2>4. iteration' = [r EXCEPT !.vm = After[@][Op[iteration.vm].value],
                               !.written[Op[iteration.vm].at] = Op[iteration.vm].value]
    BY <1>2 DEF VmWrite
  <2> HIDE DEF r
  <2>5. /\ iteration'.case = r.case /\ iteration'.mode = r.mode
        /\ iteration'.validating = r.validating
        /\ iteration'.reads = r.reads /\ iteration'.missing = r.missing
    BY <2>3, <2>4 DEF Iterations
  <2>. QED
    BY <1>2, <1>b, <2>3, <2>5 DEF VmWrite, Inside, inputs
<1>3. CASE VmLog \/ VmHalt \/ Compare
  <2>1. /\ iteration'.case = iteration.case /\ iteration'.mode = iteration.mode
        /\ iteration'.validating = iteration.validating
        /\ iteration'.reads = iteration.reads
        /\ iteration'.missing = iteration.missing
    BY <1>3, <1>a DEF VmLog, VmHalt, Compare, Iterations
  <2>. QED
    BY <1>3, <1>b, <2>1 DEF VmLog, VmHalt, Compare, Failed, Inside, inputs
<1>4. CASE VerifyExpectedState
  <2> DEFINE e == Head(iteration.todo)
             r == Read(iteration, EntryReads(iteration, e))
  <2>1. EntryReads(iteration, e) \in SUBSET Locations
    BY <1>4, EntryType DEF VerifyExpectedState
  <2>2. /\ r \in Iterations /\ r.case = iteration.case /\ r.mode = iteration.mode
        /\ r.validating = iteration.validating
        /\ r.validating => \A l \in r.reads : Uncaptured(l) => l \in r.missing
    BY <1>a, <2>1, ReadFields
  <2>3. iteration' = [r EXCEPT !.todo = Tail(@),
                        !.failures = @ \cup {f \in {"state"} : ~EntryHolds(iteration, e)}]
    BY <1>4 DEF VerifyExpectedState
  <2> HIDE DEF r
  <2>4. /\ iteration'.case = r.case /\ iteration'.mode = r.mode
        /\ iteration'.validating = r.validating
        /\ iteration'.reads = r.reads /\ iteration'.missing = r.missing
    BY <2>2, <2>3 DEF Iterations
  <2>. QED
    BY <1>4, <1>b, <2>2, <2>4 DEF VerifyExpectedState, Inside, inputs
<1>. QED
  BY <1>1, <1>2, <1>3, <1>4 DEF Execute

\* The comparisons made at the end of an execution stay in its failures.
LEMMA ComparedStep ==
  ASSUME TypeOK, Compared, Execute \/ Compare \/ VerifyExpectedState
  PROVE  Compared'
<1>a. iteration \in Iterations
  BY DEF TypeOK
<1>1. CASE Execute
  BY <1>1 DEF Execute, VmRead, VmWrite, VmLog, VmHalt, Compared
<1>2. CASE Compare
  <2>1. CASE Malformed(iteration)
    BY <1>2, <2>1 DEF Compare, Compared, Failed
  <2>2. CASE ~Malformed(iteration)
    <3>1. /\ iteration'.vm = iteration.vm /\ iteration'.case = iteration.case
          /\ iteration'.logs = iteration.logs
          /\ iteration'.failures = Mismatches(iteration)
          /\ fixture' = fixture
      BY <1>2, <1>a, <2>2 DEF Compare, Iterations, inputs
    <3>2. Mismatches(iteration)' = Mismatches(iteration)
      BY <3>1 DEF Mismatches, ReplayResult, Expected
    <3>. QED
      BY <3>1, <3>2 DEF Compared
  <2>. QED
    BY <2>1, <2>2
<1>3. CASE VerifyExpectedState
  <2> DEFINE e == Head(iteration.todo)
             r == Read(iteration, EntryReads(iteration, e))
  <2>1. EntryReads(iteration, e) \in SUBSET Locations
    BY <1>3, EntryType DEF VerifyExpectedState
  <2>2. /\ r \in Iterations /\ r.vm = iteration.vm /\ r.case = iteration.case
        /\ r.logs = iteration.logs /\ r.failures = iteration.failures
    BY <1>a, <2>1, ReadFields
  <2>3. iteration' = [r EXCEPT !.todo = Tail(@),
                        !.failures = @ \cup {f \in {"state"} : ~EntryHolds(iteration, e)}]
    BY <1>3 DEF VerifyExpectedState
  <2> HIDE DEF r
  <2>4. /\ iteration'.vm = iteration.vm /\ iteration'.case = iteration.case
        /\ iteration'.logs = iteration.logs
        /\ iteration.failures \subseteq iteration'.failures
    BY <2>2, <2>3 DEF Iterations
  <2>5. fixture' = fixture /\ phase = "checking"
    BY <1>3 DEF VerifyExpectedState, inputs
  <2>6. Mismatches(iteration)' = Mismatches(iteration)
    BY <2>4, <2>5 DEF Mismatches, ReplayResult, Expected
  <2>. QED
    BY <2>4, <2>5, <2>6 DEF Compared
<1>. QED
  BY <1>1, <1>2, <1>3

\* A step that starts no execution and accepts none: only the phase moves.
LEMMA QuietStep ==
  ASSUME TypeOK, IInv, UNCHANGED <<fixture, iteration, interpreter, verified>>,
         \/ phase' = phase
         \/ phase' \in {"rejected", "failed"}
         \/ phase = "start" /\ phase' = "sessions"
         \/ phase = "verified" /\ phase' = "benchmark"
         \/ ~iteration.validating /\ phase' = "benchmark"
  PROVE  IInv'
<1>1. \A l : Uncaptured(l)' <=> Uncaptured(l)
  BY DEF Uncaptured, UncapturedAccount, UncapturedSlot, UncapturedHash
<1>2. MissingRecorded' /\ VerifiedReadsCaptured'
  BY <1>1 DEF IInv, MissingRecorded, VerifiedReadsCaptured
<1>3. InOrder' /\ VerifiedResultsAgree' /\ WholeSuiteVerifiedFirst'
  BY DEF IInv, InOrder, Verifying, VerifiedResultsAgree, WholeSuiteVerifiedFirst
<1>4. Mismatches(iteration)' = Mismatches(iteration)
  BY DEF Mismatches, ReplayResult, Expected
<1>5. Compared'
  BY <1>4 DEF IInv, Compared
<1>. QED
  BY <1>2, <1>3, <1>5 DEF IInv

\* A step of an execution disturbs nothing that was accepted before.
LEMMA InsideStep ==
  ASSUME TypeOK, IInv, Execute \/ Compare \/ VerifyExpectedState
  PROVE  IInv'
<1>1. /\ Inside /\ MissingRecorded'
      /\ phase \in {"running", "executed", "checking"}
      /\ phase' \in {"running", "executed", "checking", "rejected", "failed"}
  BY ExecutionStep DEF IInv
<1>2. Compared'
  BY ComparedStep DEF IInv
<1>3. \A l : Uncaptured(l)' <=> Uncaptured(l)
  BY <1>1 DEF Inside, Uncaptured, UncapturedAccount, UncapturedSlot, UncapturedHash
<1>4. VerifiedReadsCaptured'
  BY <1>1, <1>3 DEF IInv, VerifiedReadsCaptured, Inside
<1>5. VerifiedResultsAgree' /\ WholeSuiteVerifiedFirst'
  BY <1>1 DEF IInv, VerifiedResultsAgree, WholeSuiteVerifiedFirst, Inside
<1>6. InOrder'
  BY <1>1 DEF IInv, InOrder, Verifying, Inside
<1>. QED
  BY <1>1, <1>2, <1>4, <1>5, <1>6 DEF IInv

\* Beginning an execution records what its construction misses.
LEMMA BeginStep ==
  ASSUME TypeOK, fixture' = fixture,
         NEW c \in Cases, NEW m \in Modes, NEW v \in BOOLEAN, Begin(c, m, v)
  PROVE  /\ iteration'.case = c /\ iteration'.mode = m /\ iteration'.validating = v
         /\ phase' = "running" /\ MissingRecorded' /\ Compared'
<1>1. \A l : Uncaptured(l)' <=> Uncaptured(l)
  BY DEF Uncaptured, UncapturedAccount, UncapturedSlot, UncapturedHash
<1>2. iteration' = Fresh(c, m, v) /\ phase' = "running"
  BY DEF Begin
<1>. QED
  BY <1>1, <1>2, FreshFields DEF MissingRecorded, Compared

\* Recording an accepted execution keeps what is known of the others.
LEMMA RecordStep ==
  ASSUME TypeOK, IInv, Checked, Accepts(iteration), Record, iteration.validating,
         fixture' = fixture
  PROVE  /\ VerifiedReadsCaptured'
         /\ verified'[iteration.case][iteration.mode] # NoValue
         /\ verified'[iteration.case][iteration.mode].result = ReplayResult(iteration)
         /\ \A c \in Cases, m \in Modes :
              <<c, m>> # <<iteration.case, iteration.mode>> =>
                verified'[c][m] = verified[c][m]
<1> DEFINE r == [reads |-> iteration.reads, result |-> ReplayResult(iteration)]
<1>1. /\ iteration.case \in Cases /\ iteration.mode \in Modes
      /\ iteration.reads \in SUBSET Locations
      /\ verified \in [Cases -> [Modes -> Optional(Accepted)]]
  BY DEF TypeOK, Iterations
<1>2. r \in Accepted
  BY <1>1, HaltResult DEF Accepted, Checked, TypeOK
<1>3. r # NoValue
  BY <1>2, ReplayAssumption
<1>4. /\ verified'[iteration.case][iteration.mode] = r
      /\ \A c \in Cases, m \in Modes :
           <<c, m>> # <<iteration.case, iteration.mode>> => verified'[c][m] = verified[c][m]
  BY <1>1 DEF Record
<1>5. \A l : Uncaptured(l)' <=> Uncaptured(l)
  BY DEF Uncaptured, UncapturedAccount, UncapturedSlot, UncapturedHash
<1>6. \A l \in r.reads : ~Uncaptured(l)
  BY DEF IInv, MissingRecorded, Accepts
<1>7. ASSUME NEW c \in Cases, NEW m \in Modes, verified'[c][m] # NoValue,
             NEW l \in verified'[c][m].reads
      PROVE  ~Uncaptured(l)'
  <2>1. CASE <<c, m>> = <<iteration.case, iteration.mode>>
    BY <1>4, <1>5, <1>6, <1>7, <2>1
  <2>2. CASE <<c, m>> # <<iteration.case, iteration.mode>>
    BY <1>4, <1>5, <1>7, <2>2 DEF IInv, VerifiedReadsCaptured
  <2>. QED
    BY <2>1, <2>2
<1>8. VerifiedReadsCaptured'
  BY <1>7 DEF VerifiedReadsCaptured
<1>. QED
  BY <1>3, <1>4, <1>8

\* The inductive invariant: the three properties below, and the facts about the
\* execution under way that carry them across a step.
LEMMA AcceptedInvariant == Spec => []IInv
<1>1. Init => IInv
  <2> SUFFICES ASSUME Init PROVE IInv
    OBVIOUS
  <2>1. \A c \in Cases, m \in Modes : verified[c][m] = NoValue
    BY DEF Init
  <2>2. "dual-hot" \in Modes
    BY DEF Modes
  <2>. QED
    BY <2>1, <2>2 DEF Init, IInv, MissingRecorded, InOrder, Verifying, Compared,
       VerifiedReadsCaptured, VerifiedResultsAgree, WholeSuiteVerifiedFirst
<1>2. TypeOK /\ IInv /\ [Next]_vars => IInv'
  <2> SUFFICES ASSUME TypeOK, IInv, [Next]_vars PROVE IInv'
    OBVIOUS
  <2>a. /\ "interpreter-hot" \in Modes /\ "dual-hot" \in Modes /\ TRUE \in BOOLEAN
        /\ 1 \in Cases /\ \A c \in Cases : c \in Int /\ c >= 1 /\ c <= NumCases
        /\ NumCases \in Nat
        /\ iteration.case \in Cases /\ iteration.mode \in Modes
    BY ReplayAssumption DEF Modes, Cases, TypeOK, Iterations
  <2>1. CASE Execute \/ Compare \/ VerifyExpectedState
    BY <2>1, InsideStep
  <2>2. CASE FailCase \/ RejectEnvironment \/ BuildSessions \/ ModesDiffer
    BY <2>2, QuietStep
    DEF FailCase, RejectEnvironment, BuildSessions, ModesDiffer, Failed, inputs
  <2>3. CASE OpenBenchmarkSession \/ SampleAccepted
    BY <2>3, QuietStep DEF OpenBenchmarkSession, SampleAccepted, inputs
  <2>4. CASE FirstCase
    <3>1. UNCHANGED <<fixture, interpreter, verified>> /\ phase = "sessions"
      BY <2>4 DEF FirstCase, inputs
    <3>2. /\ iteration'.case = 1 /\ iteration'.mode = "interpreter-hot"
          /\ iteration'.validating /\ phase' = "running"
          /\ MissingRecorded' /\ Compared'
      BY <2>4, <2>a, <3>1, BeginStep DEF FirstCase
    <3>3. \A c \in Cases, m \in Modes : verified'[c][m] = NoValue
      BY <3>1 DEF IInv, InOrder
    <3>. QED
      BY <2>a, <3>2, <3>3 DEF IInv, InOrder, Verifying, VerifiedReadsCaptured,
         VerifiedResultsAgree, WholeSuiteVerifiedFirst
  <2>5. CASE InterpreterAccepted
    <3>1. /\ fixture' = fixture /\ Checked /\ Accepts(iteration) /\ Record
          /\ iteration.validating /\ iteration.mode = "interpreter-hot"
          /\ interpreter' = ReplayResult(iteration)
          /\ Begin(iteration.case, "dual-hot", TRUE)
      BY <2>5 DEF InterpreterAccepted, inputs
    <3>2. /\ VerifiedReadsCaptured'
          /\ verified'[iteration.case]["interpreter-hot"] # NoValue
          /\ verified'[iteration.case]["interpreter-hot"].result = interpreter'
          /\ \A c \in Cases, m \in Modes :
               <<c, m>> # <<iteration.case, "interpreter-hot">> =>
                 verified'[c][m] = verified[c][m]
      BY <3>1, RecordStep
    <3>3. /\ iteration'.case = iteration.case /\ iteration'.mode = "dual-hot"
          /\ iteration'.validating /\ phase' = "running"
          /\ MissingRecorded' /\ Compared'
      BY <2>a, <3>1, BeginStep
    <3>4. Verifying
      BY <3>1 DEF Verifying, Checked
    <3>5. InOrder'
      BY <2>a, <3>2, <3>3, <3>4 DEF IInv, InOrder
    <3>6. \A c \in Cases : verified'[c]["dual-hot"] = verified[c]["dual-hot"]
      BY <2>a, <3>2
    <3>7. VerifiedResultsAgree'
      <4> SUFFICES ASSUME NEW c \in Cases, verified'[c]["dual-hot"] # NoValue
                   PROVE  /\ c # iteration.case
                          /\ verified'[c]["interpreter-hot"] = verified[c]["interpreter-hot"]
        BY <3>1, <3>6 DEF IInv, VerifiedResultsAgree
      <4>1. c # iteration.case
        BY <2>a, <3>4, <3>6 DEF IInv, InOrder
      <4>. QED
        BY <2>a, <3>2, <4>1
    <3>. QED
      BY <3>2, <3>3, <3>5, <3>7 DEF IInv, WholeSuiteVerifiedFirst
  <2>6. CASE DualAccepted
    <3>1. /\ fixture' = fixture /\ interpreter' = interpreter
          /\ Checked /\ Accepts(iteration) /\ Record /\ ModesAgree
          /\ iteration.validating /\ iteration.mode = "dual-hot"
      BY <2>6 DEF DualAccepted, inputs
    <3>2. /\ VerifiedReadsCaptured'
          /\ verified'[iteration.case]["dual-hot"] # NoValue
          /\ verified'[iteration.case]["dual-hot"].result = ReplayResult(iteration)
          /\ \A c \in Cases, m \in Modes :
               <<c, m>> # <<iteration.case, "dual-hot">> =>
                 verified'[c][m] = verified[c][m]
      BY <3>1, RecordStep
    <3>3. /\ Verifying /\ phase = "checking" /\ iteration.failures = {}
      BY <3>1 DEF Verifying, Checked, Accepts
    <3>4. /\ verified[iteration.case]["interpreter-hot"] # NoValue
          /\ verified[iteration.case]["interpreter-hot"].result = ReplayResult(iteration)
      BY <3>1, <3>3 DEF IInv, InOrder, ModesAgree
    <3>5. Mismatches(iteration) = {}
      BY <3>3 DEF IInv, Compared
    <3>6. LET d == ReplayResult(iteration)
              e == fixture.expected[iteration.case]
          IN /\ d.status = e.status /\ d.output = e.output /\ d.gasUsed = e.gasUsed
             /\ e.logs \in {NoValue, d.logs}
      BY <3>5 DEF Mismatches, Expected
    <3>7. VerifiedResultsAgree'
      <4> SUFFICES ASSUME NEW c \in Cases, verified'[c]["dual-hot"] # NoValue
                   PROVE  LET d == verified'[c]["dual-hot"].result
                              e == fixture.expected[c]
                          IN /\ verified'[c]["interpreter-hot"] # NoValue
                             /\ verified'[c]["interpreter-hot"].result = d
                             /\ d.status = e.status /\ d.output = e.output
                             /\ d.gasUsed = e.gasUsed /\ e.logs \in {NoValue, d.logs}
        BY <3>1 DEF VerifiedResultsAgree
      <4>1. verified'[c]["interpreter-hot"] = verified[c]["interpreter-hot"]
        BY <2>a, <3>2
      <4>2. CASE c = iteration.case
        BY <3>2, <3>4, <3>6, <4>1, <4>2
      <4>3. CASE c # iteration.case
        <5>1. verified'[c]["dual-hot"] = verified[c]["dual-hot"]
          BY <2>a, <3>2, <4>3
        <5>. QED
          BY <4>1, <5>1 DEF IInv, VerifiedResultsAgree
      <4>. QED
        BY <4>2, <4>3
    <3>8. \A c \in Cases, m \in Modes : c <= iteration.case => verified'[c][m] # NoValue
      <4> SUFFICES ASSUME NEW c \in Cases, NEW m \in Modes, c <= iteration.case
                   PROVE  verified'[c][m] # NoValue
        OBVIOUS
      <4>1. CASE c < iteration.case
        BY <2>a, <3>2, <3>3, <4>1 DEF IInv, InOrder
      <4>2. CASE c = iteration.case /\ m = "interpreter-hot"
        BY <2>a, <3>2, <3>4, <4>2
      <4>3. CASE c = iteration.case /\ m = "dual-hot"
        BY <3>2, <4>3
      <4>4. c < iteration.case \/ c = iteration.case
        BY <2>a
      <4>5. m \in {"interpreter-hot", "dual-hot"}
        BY DEF Modes
      <4>. QED
        BY <4>1, <4>2, <4>3, <4>4, <4>5
    <3>9. CASE LastCase
      <4>1. phase' = "verified" /\ iteration' = iteration
        BY <2>6, <3>9 DEF DualAccepted
      <4>2. WholeSuiteVerifiedFirst'
        BY <2>a, <3>8, <3>9 DEF WholeSuiteVerifiedFirst, LastCase
      <4>3. MissingRecorded'
        BY <3>1, <4>1 DEF IInv, MissingRecorded, Accepts, Uncaptured,
           UncapturedAccount, UncapturedSlot, UncapturedHash
      <4>. QED
        BY <3>2, <3>7, <4>1, <4>2, <4>3 DEF IInv, InOrder, Verifying, Compared
    <3>10. CASE ~LastCase
      <4>1. Begin(iteration.case + 1, "interpreter-hot", TRUE)
        BY <2>6, <3>10 DEF DualAccepted
      <4>2. iteration.case + 1 \in Cases
        BY <2>a, <3>10 DEF Cases, LastCase
      <4>3. /\ iteration'.case = iteration.case + 1
            /\ iteration'.mode = "interpreter-hot" /\ iteration'.validating
            /\ phase' = "running" /\ MissingRecorded' /\ Compared'
        BY <2>a, <3>1, <4>1, <4>2, BeginStep
      <4>4. \A c \in Cases : c >= iteration.case + 1 => verified'[c]["dual-hot"] = NoValue
        <5> SUFFICES ASSUME NEW c \in Cases, c >= iteration.case + 1
                     PROVE  verified'[c]["dual-hot"] = NoValue
          OBVIOUS
        <5>1. c >= iteration.case /\ c # iteration.case
          BY <2>a
        <5>2. verified'[c]["dual-hot"] = verified[c]["dual-hot"]
          BY <2>a, <3>2, <5>1
        <5>. QED
          BY <3>3, <5>1, <5>2 DEF IInv, InOrder
      <4>5. \A c \in Cases : c < iteration.case + 1 => c <= iteration.case
        BY <2>a
      <4>6. InOrder'
        BY <3>8, <4>3, <4>4, <4>5 DEF InOrder
      <4>. QED
        BY <3>2, <3>7, <4>3, <4>6 DEF IInv, WholeSuiteVerifiedFirst
    <3>. QED
      BY <3>9, <3>10
  <2>7. ASSUME NEW c \in Cases, Prepare(c) PROVE IInv'
    <3>1. /\ UNCHANGED <<fixture, interpreter, verified>> /\ phase = "benchmark"
          /\ Begin(c, mode, FALSE) /\ mode \in Modes /\ FALSE \in BOOLEAN
      BY <2>7 DEF Prepare, inputs, TypeOK
    <3>2. /\ ~iteration'.validating /\ phase' = "running"
          /\ MissingRecorded' /\ Compared'
      BY <3>1, BeginStep
    <3>3. \A l : Uncaptured(l)' <=> Uncaptured(l)
      BY <3>1 DEF Uncaptured, UncapturedAccount, UncapturedSlot, UncapturedHash
    <3>4. VerifiedReadsCaptured' /\ VerifiedResultsAgree'
      BY <3>1, <3>3 DEF IInv, VerifiedReadsCaptured, VerifiedResultsAgree
    <3>5. WholeSuiteVerifiedFirst' /\ InOrder'
      BY <3>1, <3>2 DEF IInv, WholeSuiteVerifiedFirst, InOrder, Verifying
    <3>. QED
      BY <3>2, <3>4, <3>5 DEF IInv
  <2>8. CASE UNCHANGED vars
    BY <2>8, QuietStep DEF vars
  <2>. QED
    BY <2>1, <2>2, <2>3, <2>4, <2>5, <2>6, <2>7, <2>8
    DEF Next, Validate, Verify, Benchmark
<1>. QED
  BY <1>1, <1>2, TypeCorrect, PTL DEF Spec

\* Verification is complete: what passed it read nothing that the fixture does
\* not cover, however the VM branches (spec.md 7.3).
THEOREM Completeness == Spec => []VerifiedReadsCaptured
<1>1. IInv => VerifiedReadsCaptured
  BY DEF IInv
<1>. QED
  BY <1>1, AcceptedInvariant, PTL

\* Every accepted case returned what it expects, the same in both modes.
THEOREM Agreement == Spec => []VerifiedResultsAgree
<1>1. IInv => VerifiedResultsAgree
  BY DEF IInv
<1>. QED
  BY <1>1, AcceptedInvariant, PTL

\* Nothing is prepared for timing before every case passed in both modes.
THEOREM WholeSuiteFirst == Spec => []WholeSuiteVerifiedFirst
<1>1. IInv => WholeSuiteVerifiedFirst
  BY DEF IInv
<1>. QED
  BY <1>1, AcceptedInvariant, PTL

-----------------------------------------------------------------------------
(* A timed iteration, which nothing watches for missing state, does what    *)
(* the verified execution of its case and mode did, and so never fails: for *)
(* every suite, every deterministic VM and any number of iterations in any  *)
(* order.                                                                   *)
(*                                                                          *)
(* The history keeps of an accepted execution what it read and returned.    *)
(* The invariant says that there was a run, a sequence of snapshots that    *)
(* ends with these, and that a timed iteration is at one of them: each      *)
(* snapshot has one successor, so it goes on to the next.                   *)

\* What decides how an iteration goes on; what it missed and whether that is
\* recorded do not.
Snapshot ==
  [case |-> iteration.case, mode |-> iteration.mode, vm |-> iteration.vm,
   written |-> iteration.written, logs |-> iteration.logs, reads |-> iteration.reads,
   failures |-> iteration.failures, todo |-> iteration.todo, phase |-> phase]

IsSnapshot(s) ==
  s = [case |-> s.case, mode |-> s.mode, vm |-> s.vm, written |-> s.written, logs |-> s.logs,
       reads |-> s.reads, failures |-> s.failures, todo |-> s.todo, phase |-> s.phase]

Start(c, m) ==
  [case |-> c, mode |-> m, vm |-> IF m = "dual-hot" THEN native[c] ELSE InterpreterEntry[c],
   written |-> [l \in Stored |-> NoValue], logs |-> << >>, reads |-> Prelude(c, m),
   failures |-> {}, todo |-> << >>, phase |-> "running"]

Final(s) == s.phase = "checking" /\ s.todo = << >>
Returned(s) == s.phase \in {"executed", "checking"}

\* The steps from one snapshot to the next.
SameCase(s, t) == t.case = s.case /\ t.mode = s.mode
SameChecks(s, t) == t.failures = s.failures /\ t.todo = s.todo
SameMachine(s, t) == t.vm = s.vm /\ t.written = s.written /\ t.logs = s.logs

ReadStep(s, t) ==
  LET op == Op[s.vm] IN
  /\ s.phase = "running" /\ op.kind = "read" /\ t.phase = "running"
  /\ t.vm = After[s.vm][Current(s, op.at)] /\ t.written = s.written /\ t.logs = s.logs
  /\ t.reads = s.reads \cup Loads(s, op.at) /\ SameChecks(s, t)
WriteStep(s, t) ==
  LET op == Op[s.vm] IN
  /\ s.phase = "running" /\ op.kind = "write" /\ t.phase = "running"
  /\ t.vm = After[s.vm][op.value] /\ t.written = [s.written EXCEPT ![op.at] = op.value]
  /\ t.logs = s.logs /\ t.reads = s.reads \cup Loads(s, op.at) /\ SameChecks(s, t)
LogStep(s, t) ==
  LET op == Op[s.vm] IN
  /\ s.phase = "running" /\ op.kind = "log" /\ t.phase = "running"
  /\ t.vm = After[s.vm][op.value] /\ t.written = s.written
  /\ t.logs = Append(s.logs, op.value) /\ t.reads = s.reads /\ SameChecks(s, t)
HaltStep(s, t) ==
  LET op == Op[s.vm] IN
  /\ s.phase = "running" /\ op.kind = "halt" /\ t.phase = "executed"
  /\ t.vm = s.vm /\ t.reads = s.reads /\ SameChecks(s, t)
  /\ op.status = "success" => t.written = s.written /\ t.logs = s.logs
  /\ op.status # "success" => t.written = [l \in Stored |-> NoValue] /\ t.logs = << >>
CompareStep(s, t) ==
  /\ s.phase = "executed" /\ ~Malformed(s) /\ t.phase = "checking"
  /\ SameMachine(s, t) /\ t.reads = s.reads
  /\ t.failures = Mismatches(s) /\ t.todo = Expected(s).state
CheckStep(s, t) ==
  /\ s.phase = "checking" /\ s.todo # << >> /\ t.phase = "checking"
  /\ SameMachine(s, t) /\ t.reads = s.reads \cup EntryReads(s, Head(s.todo))
  /\ t.todo = Tail(s.todo)
  /\ t.failures = s.failures \cup {f \in {"state"} : ~EntryHolds(s, Head(s.todo))}

Follows(s, t) ==
  /\ SameCase(s, t)
  /\ \/ ReadStep(s, t) \/ WriteStep(s, t) \/ LogStep(s, t)
     \/ HaltStep(s, t) \/ CompareStep(s, t) \/ CheckStep(s, t)

\* A snapshot has at most one successor, and none when it is final.
LEMMA OneSuccessor ==
  ASSUME NEW s, NEW t, NEW u, IsSnapshot(t), IsSnapshot(u), Follows(s, t), Follows(s, u)
  PROVE  t = u
<1>1. t.phase = u.phase /\ t.vm = u.vm /\ t.reads = u.reads
  BY DEF Follows, ReadStep, WriteStep, LogStep, HaltStep, CompareStep, CheckStep, SameMachine
<1>2. t.written = u.written /\ t.logs = u.logs
  BY DEF Follows, ReadStep, WriteStep, LogStep, HaltStep, CompareStep, CheckStep, SameMachine
<1>3. t.failures = u.failures /\ t.todo = u.todo
  BY DEF Follows, ReadStep, WriteStep, LogStep, HaltStep, CompareStep, CheckStep, SameChecks
<1>4. t.case = u.case /\ t.mode = u.mode
  BY DEF Follows, SameCase
<1> QED BY <1>1, <1>2, <1>3, <1>4 DEF IsSnapshot

LEMMA FinalIsLast ==
  ASSUME NEW s, NEW t, Follows(s, t)
  PROVE  ~Final(s)
BY DEF Follows, ReadStep, WriteStep, LogStep, HaltStep, CompareStep, CheckStep, Final

\* Along a step the reads grow, and the result stays once there is one.
LEMMA StepKeeps ==
  ASSUME NEW s, NEW t, Follows(s, t)
  PROVE  /\ s.reads \subseteq t.reads
         /\ Returned(s) => Returned(t) /\ ReplayResult(t) = ReplayResult(s)
<1>1. s.reads \subseteq t.reads
  BY DEF Follows, ReadStep, WriteStep, LogStep, HaltStep, CompareStep, CheckStep
<1>2. ASSUME Returned(s) PROVE Returned(t) /\ ReplayResult(t) = ReplayResult(s)
  <2>1. CompareStep(s, t) \/ CheckStep(s, t)
    BY <1>2 DEF Follows, ReadStep, WriteStep, LogStep, HaltStep, Returned
  <2>2. Returned(t) /\ SameMachine(s, t) /\ t.case = s.case
    BY <2>1 DEF Follows, SameCase, CompareStep, CheckStep, Returned
  <2> QED BY <2>2 DEF SameMachine, ReplayResult
<1> QED BY <1>1, <1>2

-----------------------------------------------------------------------------
(* An execution takes these steps.                                         *)

\* What a read does to the fields of an iteration.
LEMMA ReadMissing ==
  ASSUME NEW it \in Iterations, NEW ls \in SUBSET Locations
  PROVE  Read(it, ls).missing \subseteq it.missing \cup {l \in ls : Uncaptured(l)}
<1>1. Read(it, ls).missing =
        it.missing \cup {l \in ls : Uncaptured(l) /\ (it.validating \/ l \in Numbers)}
  BY DEF Read, Iterations
<1> QED BY <1>1

\* What is looked up does not depend on whether the iteration is watched.
LEMMA SnapshotLooks ==
  ASSUME NEW s, s = Snapshot
  PROVE  /\ \A l : Current(s, l) = Current(iteration, l) /\ Loads(s, l) = Loads(iteration, l)
         /\ \A e : EntryReads(s, e) = EntryReads(iteration, e)
                 /\ (EntryHolds(s, e) <=> EntryHolds(iteration, e))
         /\ Malformed(s) <=> Malformed(iteration)
         /\ Mismatches(s) = Mismatches(iteration) /\ Expected(s) = Expected(iteration)
         /\ ReplayResult(s) = ReplayResult(iteration)
<1>1. /\ s.case = iteration.case /\ s.mode = iteration.mode /\ s.vm = iteration.vm
      /\ s.written = iteration.written /\ s.logs = iteration.logs
  BY DEF Snapshot
<1>2. \A l : Current(s, l) = Current(iteration, l) /\ Loads(s, l) = Loads(iteration, l)
  BY <1>1 DEF Current, Loads
<1>3. \A e : EntryReads(s, e) = EntryReads(iteration, e)
  BY <1>2 DEF EntryReads
<1>4. \A e : EntryHolds(s, e) <=> EntryHolds(iteration, e)
  BY <1>2 DEF EntryHolds
<1>5. ReplayResult(s) = ReplayResult(iteration) /\ Expected(s) = Expected(iteration)
  BY <1>1 DEF ReplayResult, Expected
<1>6. Mismatches(s) = Mismatches(iteration)
  BY <1>5 DEF Mismatches
<1>7. Malformed(s) <=> Malformed(iteration)
  BY <1>1 DEF Malformed
<1> QED BY <1>2, <1>3, <1>4, <1>5, <1>6, <1>7

LEMMA SnapshotFields ==
  ASSUME NEW s, NEW t, s = Snapshot, t = Snapshot'
  PROVE  /\ IsSnapshot(s) /\ IsSnapshot(t)
         /\ s.case = iteration.case /\ s.mode = iteration.mode /\ s.vm = iteration.vm
         /\ s.written = iteration.written /\ s.logs = iteration.logs /\ s.reads = iteration.reads
         /\ s.failures = iteration.failures /\ s.todo = iteration.todo /\ s.phase = phase
         /\ t.case = iteration'.case /\ t.mode = iteration'.mode /\ t.vm = iteration'.vm
         /\ t.written = iteration'.written /\ t.logs = iteration'.logs /\ t.reads = iteration'.reads
         /\ t.failures = iteration'.failures /\ t.todo = iteration'.todo /\ t.phase = phase'
BY DEF Snapshot, IsSnapshot

\* Every step of an execution leads to the successor, and misses nothing that is
\* captured; only a malformed result ends it at once.
LEMMA ExecutionFollows ==
  ASSUME TypeOK, Execute \/ Compare \/ VerifyExpectedState,
         iteration.missing \subseteq {l \in iteration.reads : Uncaptured(l)},
         NEW s, NEW t, s = Snapshot, t = Snapshot'
  PROVE  /\ iteration'.missing \subseteq {l \in iteration'.reads : Uncaptured(l)}
         /\ \/ Follows(s, t)
            \/ s.phase = "executed" /\ Malformed(s) /\ phase' = Failed /\ iteration' = iteration
<1> USE SnapshotFields
<1>a. /\ iteration \in Iterations /\ Op[iteration.vm] \in Ops
      /\ iteration.written \in [Stored -> Optional(Values)]
  BY ReplayAssumption DEF TypeOK, Iterations
<1>1. CASE VmRead
  <2> DEFINE op == Op[iteration.vm]
             r == Read(iteration, Loads(iteration, op.at))
  <2>1. op.at \in Locations /\ Loads(iteration, op.at) \in SUBSET Locations
    BY <1>1, <1>a, LoadsType DEF VmRead, Ops
  <2>2. /\ r \in Iterations /\ r.case = iteration.case /\ r.mode = iteration.mode
        /\ r.vm = iteration.vm /\ r.written = iteration.written /\ r.logs = iteration.logs
        /\ r.failures = iteration.failures /\ r.todo = iteration.todo
        /\ r.reads = iteration.reads \cup Loads(iteration, op.at)
        /\ r.missing \subseteq iteration.missing \cup {l \in Loads(iteration, op.at) : Uncaptured(l)}
    BY <1>a, <2>1, ReadFields, ReadMissing
  <2>3. /\ iteration' = [r EXCEPT !.vm = After[@][Current(iteration, op.at)]]
        /\ phase = "running" /\ op.kind = "read" /\ phase' = "running"
    BY <1>1 DEF VmRead
  <2> HIDE DEF r
  <2>4. /\ iteration'.case = iteration.case /\ iteration'.mode = iteration.mode
        /\ iteration'.vm = After[iteration.vm][Current(iteration, op.at)]
        /\ iteration'.written = iteration.written /\ iteration'.logs = iteration.logs
        /\ iteration'.failures = iteration.failures /\ iteration'.todo = iteration.todo
        /\ iteration'.reads = iteration.reads \cup Loads(iteration, op.at)
        /\ iteration'.missing = r.missing
    BY <2>2, <2>3 DEF Iterations
  <2>5. iteration'.missing \subseteq {l \in iteration'.reads : Uncaptured(l)}
    BY <2>2, <2>4
  <2>6. ReadStep(s, t) /\ SameCase(s, t)
    BY <2>3, <2>4, SnapshotLooks DEF ReadStep, SameCase, SameChecks
  <2> QED BY <2>5, <2>6 DEF Follows
<1>2. CASE VmWrite
  <2> DEFINE op == Op[iteration.vm]
             r == Read(iteration, Loads(iteration, op.at))
  <2>1. /\ op.at \in Stored /\ op.at \in Locations
        /\ Loads(iteration, op.at) \in SUBSET Locations
    BY <1>2, <1>a, LoadsType DEF VmWrite, Ops, Locations
  <2>2. /\ r \in Iterations /\ r.case = iteration.case /\ r.mode = iteration.mode
        /\ r.vm = iteration.vm /\ r.written = iteration.written /\ r.logs = iteration.logs
        /\ r.failures = iteration.failures /\ r.todo = iteration.todo
        /\ r.reads = iteration.reads \cup Loads(iteration, op.at)
        /\ r.missing \subseteq iteration.missing \cup {l \in Loads(iteration, op.at) : Uncaptured(l)}
    BY <1>a, <2>1, ReadFields, ReadMissing
  <2>3. /\ iteration' = [r EXCEPT !.vm = After[@][op.value], !.written[op.at] = op.value]
        /\ phase = "running" /\ op.kind = "write" /\ phase' = "running"
    BY <1>2 DEF VmWrite
  <2> HIDE DEF r
  <2>4. /\ iteration'.case = iteration.case /\ iteration'.mode = iteration.mode
        /\ iteration'.vm = After[iteration.vm][op.value]
        /\ iteration'.written = [iteration.written EXCEPT ![op.at] = op.value]
        /\ iteration'.logs = iteration.logs
        /\ iteration'.failures = iteration.failures /\ iteration'.todo = iteration.todo
        /\ iteration'.reads = iteration.reads \cup Loads(iteration, op.at)
        /\ iteration'.missing = r.missing
    BY <2>2, <2>3 DEF Iterations
  <2>5. iteration'.missing \subseteq {l \in iteration'.reads : Uncaptured(l)}
    BY <2>2, <2>4
  <2>6. WriteStep(s, t)
    <3>1. Loads(s, op.at) = Loads(iteration, op.at) /\ Op[s.vm] = op
      BY SnapshotLooks
    <3>2. /\ s.phase = "running" /\ t.phase = "running" /\ op.kind = "write"
          /\ t.logs = s.logs /\ t.failures = s.failures /\ t.todo = s.todo
      <4>1. phase = "running" /\ op.kind = "write" /\ phase' = "running"
        BY <2>3
      <4>2. s.phase = "running" /\ t.phase = "running"
        BY <4>1
      <4>3. t.logs = s.logs /\ t.failures = s.failures /\ t.todo = s.todo
        BY <2>4
      <4> QED BY <4>1, <4>2, <4>3
    <3>3. t.vm = After[s.vm][op.value] /\ t.reads = s.reads \cup Loads(s, op.at)
      BY <2>4, <3>1
    <3>4. t.written = [s.written EXCEPT ![op.at] = op.value]
      BY <2>4
    <3> QED BY <3>1, <3>2, <3>3, <3>4 DEF WriteStep, SameChecks
  <2>7. SameCase(s, t)
    BY <2>4, SnapshotLooks DEF SameCase
  <2> QED BY <2>5, <2>6, <2>7 DEF Follows
<1>3. CASE VmLog
  <2> DEFINE op == Op[iteration.vm]
  <2>1. /\ iteration' = [iteration EXCEPT !.vm = After[@][op.value], !.logs = Append(@, op.value)]
        /\ phase = "running" /\ op.kind = "log" /\ phase' = "running"
    BY <1>3 DEF VmLog
  <2>2. /\ iteration'.case = iteration.case /\ iteration'.mode = iteration.mode
        /\ iteration'.vm = After[iteration.vm][op.value]
        /\ iteration'.written = iteration.written
        /\ iteration'.logs = Append(iteration.logs, op.value)
        /\ iteration'.failures = iteration.failures /\ iteration'.todo = iteration.todo
        /\ iteration'.reads = iteration.reads /\ iteration'.missing = iteration.missing
    BY <1>a, <2>1 DEF Iterations
  <2>3. LogStep(s, t) /\ SameCase(s, t)
    BY <2>1, <2>2, SMTT(30) DEF LogStep, SameCase, SameChecks
  <2> QED BY <2>2, <2>3 DEF Follows
<1>4. CASE VmHalt
  <2> DEFINE op == Op[iteration.vm]
  <2>1. phase = "running" /\ op.kind = "halt" /\ phase' = "executed"
    BY <1>4 DEF VmHalt
  <2>2. /\ iteration'.case = iteration.case /\ iteration'.mode = iteration.mode
        /\ iteration'.vm = iteration.vm
        /\ iteration'.failures = iteration.failures /\ iteration'.todo = iteration.todo
        /\ iteration'.reads = iteration.reads /\ iteration'.missing = iteration.missing
        /\ op.status = "success" =>
             iteration'.written = iteration.written /\ iteration'.logs = iteration.logs
        /\ op.status # "success" =>
             iteration'.written = [l \in Stored |-> NoValue] /\ iteration'.logs = << >>
    BY <1>a, <1>4 DEF VmHalt, Iterations
  <2>3. HaltStep(s, t) /\ SameCase(s, t)
    BY <2>1, <2>2 DEF HaltStep, SameCase, SameChecks
  <2> QED BY <2>2, <2>3 DEF Follows
<1>5. CASE Compare
  <2>1. CASE Malformed(iteration)
    BY <1>5, <2>1, SnapshotLooks DEF Compare
  <2>2. CASE ~Malformed(iteration)
    <3>1. /\ iteration' = [iteration EXCEPT !.failures = Mismatches(iteration),
                                            !.todo = Expected(iteration).state]
          /\ phase = "executed" /\ phase' = "checking"
      BY <1>5, <2>2 DEF Compare
    <3>2. /\ iteration'.case = iteration.case /\ iteration'.mode = iteration.mode
          /\ iteration'.vm = iteration.vm
          /\ iteration'.written = iteration.written /\ iteration'.logs = iteration.logs
          /\ iteration'.failures = Mismatches(iteration)
          /\ iteration'.todo = Expected(iteration).state
          /\ iteration'.reads = iteration.reads /\ iteration'.missing = iteration.missing
      BY <1>a, <3>1 DEF Iterations
    <3>3. CompareStep(s, t) /\ SameCase(s, t)
      BY <2>2, <3>1, <3>2, SnapshotLooks DEF CompareStep, SameCase, SameMachine
    <3> QED BY <3>2, <3>3 DEF Follows
  <2> QED BY <2>1, <2>2
<1>6. CASE VerifyExpectedState
  <2> DEFINE e == Head(iteration.todo)
             r == Read(iteration, EntryReads(iteration, e))
  <2>1. EntryReads(iteration, e) \in SUBSET Locations
    BY <1>6, EntryType DEF VerifyExpectedState
  <2>2. /\ r \in Iterations /\ r.case = iteration.case /\ r.mode = iteration.mode
        /\ r.vm = iteration.vm /\ r.written = iteration.written /\ r.logs = iteration.logs
        /\ r.failures = iteration.failures /\ r.todo = iteration.todo
        /\ r.reads = iteration.reads \cup EntryReads(iteration, e)
        /\ r.missing \subseteq iteration.missing \cup {l \in EntryReads(iteration, e) : Uncaptured(l)}
    BY <1>a, <2>1, ReadFields, ReadMissing
  <2>3. /\ iteration' = [r EXCEPT !.todo = Tail(@),
                          !.failures = @ \cup {f \in {"state"} : ~EntryHolds(iteration, e)}]
        /\ phase = "checking" /\ iteration.todo # << >> /\ phase' = "checking"
    BY <1>6 DEF VerifyExpectedState
  <2> HIDE DEF r, e
  <2>4. /\ iteration'.case = iteration.case /\ iteration'.mode = iteration.mode
        /\ iteration'.vm = iteration.vm
        /\ iteration'.written = iteration.written /\ iteration'.logs = iteration.logs
        /\ iteration'.failures =
             iteration.failures \cup {f \in {"state"} : ~EntryHolds(iteration, e)}
        /\ iteration'.todo = Tail(iteration.todo)
        /\ iteration'.reads = iteration.reads \cup EntryReads(iteration, e)
        /\ iteration'.missing = r.missing
    BY <2>2, <2>3 DEF Iterations
  <2>5. iteration'.missing \subseteq {l \in iteration'.reads : Uncaptured(l)}
    BY <2>2, <2>4
  <2>6. e = Head(s.todo)
    BY DEF e
  <2>7. CheckStep(s, t) /\ SameCase(s, t)
    BY <2>3, <2>4, <2>6, SnapshotLooks DEF CheckStep, SameCase, SameMachine
  <2> QED BY <2>5, <2>7 DEF Follows
<1> QED BY <1>1, <1>2, <1>3, <1>4, <1>5, <1>6 DEF Execute

-----------------------------------------------------------------------------
(* Runs.                                                                   *)

\* r[1] .. r[n] is a run of case c in mode m: each snapshot follows the one before,
\* reads what its last one has read or less, and has its result if it has one.
IsRun(r, n, c, m) ==
  /\ n \in Nat \ {0} /\ r[1] = Start(c, m)
  /\ \A i \in 1 .. n : IsSnapshot(r[i])
  /\ \A i \in 1 .. n - 1 : Follows(r[i], r[i + 1])
  /\ \A i \in 1 .. n :
       /\ r[i].reads \subseteq r[n].reads
       /\ Returned(r[i]) => Returned(r[n]) /\ ReplayResult(r[i]) = ReplayResult(r[n])

LEMMA RunStarts ==
  ASSUME NEW c, NEW m
  PROVE  LET r == [i \in 1 .. 1 |-> Start(c, m)] IN IsRun(r, 1, c, m) /\ r[1] = Start(c, m)
<1> DEFINE r == [i \in 1 .. 1 |-> Start(c, m)]
<1>1. r[1] = Start(c, m) /\ \A i \in 1 .. 1 : i = 1
  OBVIOUS
<1>2. IsSnapshot(Start(c, m))
  BY DEF IsSnapshot, Start
<1> HIDE DEF r
<1>3. IsRun(r, 1, c, m)
  BY <1>1, <1>2 DEF IsRun
<1> QED BY <1>1, <1>3 DEF r

LEMMA RunGoesOn ==
  ASSUME NEW r, NEW n, NEW c, NEW m, IsRun(r, n, c, m),
         NEW t, IsSnapshot(t), Follows(r[n], t)
  PROVE  \E q : IsRun(q, n + 1, c, m) /\ q[n + 1] = t
<1> DEFINE q == [i \in 1 .. n + 1 |-> IF i = n + 1 THEN t ELSE r[i]]
<1>1. n \in Nat \ {0} /\ n + 1 \in Nat \ {0} /\ n \in 1 .. n
  BY DEF IsRun
<1>2. q[n + 1] = t /\ \A i \in 1 .. n : q[i] = r[i] /\ i \in 1 .. n + 1
  BY <1>1
<1>3. \A i \in 1 .. n + 1 : i \in 1 .. n \/ i = n + 1
  BY <1>1
<1> HIDE DEF q
<1>4. q[1] = Start(c, m)
  BY <1>1, <1>2 DEF IsRun
<1>5. \A i \in 1 .. n + 1 : IsSnapshot(q[i])
  BY <1>2, <1>3 DEF IsRun
<1>6. \A i \in 1 .. (n + 1) - 1 : Follows(q[i], q[i + 1])
  <2> SUFFICES ASSUME NEW i \in 1 .. n PROVE Follows(q[i], q[i + 1])
    BY <1>1
  <2>1. CASE i = n
    BY <1>1, <1>2, <2>1
  <2>2. CASE i # n
    <3>1. i \in 1 .. n - 1 /\ i + 1 \in 1 .. n
      BY <1>1, <2>2
    <3> QED BY <1>2, <3>1 DEF IsRun
  <2> QED BY <2>1, <2>2
<1>7. ASSUME NEW i \in 1 .. n + 1
      PROVE  /\ q[i].reads \subseteq q[n + 1].reads
             /\ Returned(q[i]) => Returned(q[n + 1]) /\ ReplayResult(q[i]) = ReplayResult(q[n + 1])
  <2>1. CASE i = n + 1
    BY <2>1
  <2>2. CASE i \in 1 .. n
    <3>1. /\ r[i].reads \subseteq r[n].reads
          /\ Returned(r[i]) => Returned(r[n]) /\ ReplayResult(r[i]) = ReplayResult(r[n])
      BY <2>2 DEF IsRun
    <3>2. /\ r[n].reads \subseteq t.reads
          /\ Returned(r[n]) => Returned(t) /\ ReplayResult(t) = ReplayResult(r[n])
      BY StepKeeps
    <3> QED BY <1>2, <2>2, <3>1, <3>2
  <2> QED BY <1>3, <2>1, <2>2
<1>8. IsRun(q, n + 1, c, m)
  BY <1>1, <1>4, <1>5, <1>6, <1>7 DEF IsRun
<1> QED BY <1>2, <1>8

\* Runs are about the suite, the entries of the cases and the databases only.
LEMMA RunsLast ==
  ASSUME UNCHANGED <<fixture, native, base>>
  PROVE  \A r, n, c, m : IsRun(r, n, c, m) => IsRun(r, n, c, m)'
<1>1. \A s, l : Current(s, l)' = Current(s, l) /\ Loads(s, l)' = Loads(s, l)
  BY DEF Current, Loads, BlockHash
<1>2. \A s, e : EntryReads(s, e)' = EntryReads(s, e)
  BY <1>1 DEF EntryReads
<1>3. \A s, e : EntryHolds(s, e)' <=> EntryHolds(s, e)
  BY <1>1 DEF EntryHolds
<1>4. \A s : Expected(s)' = Expected(s)
  BY DEF Expected
<1>5. \A s : Mismatches(s)' = Mismatches(s)
  BY <1>4 DEF Mismatches, ReplayResult
<1>6. \A c, m : Start(c, m)' = Start(c, m)
  BY DEF Start, Prelude
<1>7. \A s, t : Follows(s, t) => Follows(s, t)'
  <2> SUFFICES ASSUME NEW s, NEW t, Follows(s, t) PROVE Follows(s, t)'
    OBVIOUS
  <2>1. CASE ReadStep(s, t) \/ WriteStep(s, t)
    BY <1>1, <2>1 DEF Follows, ReadStep, WriteStep, SameCase, SameChecks
  <2>2. CASE LogStep(s, t) \/ HaltStep(s, t)
    BY <2>2 DEF Follows, LogStep, HaltStep, SameCase, SameChecks
  <2>3. CASE CompareStep(s, t)
    BY <1>4, <1>5, <2>3 DEF Follows, CompareStep, SameCase, SameMachine, Malformed
  <2>4. CASE CheckStep(s, t)
    BY <1>2, <1>3, <2>4 DEF Follows, CheckStep, SameCase, SameMachine
  <2> QED BY <2>1, <2>2, <2>3, <2>4 DEF Follows
<1>8. \A s : (IsSnapshot(s) => IsSnapshot(s)') /\ (Returned(s)' <=> Returned(s))
             /\ ReplayResult(s)' = ReplayResult(s)
  BY DEF IsSnapshot, Returned, ReplayResult
<1> QED BY <1>6, <1>7, <1>8 DEF IsRun

-----------------------------------------------------------------------------
(* The invariant.                                                          *)

\* A run that ended in what the history keeps of an accepted execution.
Complete(r, n, c, m) ==
  /\ IsRun(r, n, c, m) /\ Final(r[n]) /\ r[n].failures = {}
  /\ verified[c][m].reads = r[n].reads /\ verified[c][m].result = ReplayResult(r[n])

InExecution == phase \in {"running", "executed", "checking"}

\* The databases of all sessions are the same.
SameBase == phase \notin {"start", "rejected"} => base = [m \in Modes |-> BuildBaseState]

\* Nothing is missing but what is not captured.
MissingUncaptured == iteration.missing \subseteq {l \in iteration.reads : Uncaptured(l)}

OnRun ==
  Verifying => \E r, n : IsRun(r, n, iteration.case, iteration.mode) /\ r[n] = Snapshot

AcceptedRan ==
  \A c \in Cases, m \in Modes : verified[c][m] # NoValue => \E r, n : Complete(r, n, c, m)

\* A timed iteration is at some point of the run of its case and mode.
OnCompleteRun ==
  InExecution /\ ~iteration.validating =>
    \E r, n : \E k \in 1 .. n :
      Complete(r, n, iteration.case, iteration.mode) /\ r[k] = Snapshot

RInv ==
  /\ SameBase /\ MissingUncaptured /\ OnRun /\ AcceptedRan /\ OnCompleteRun
  /\ TimedRepeatsVerified /\ TimedNeverFails

\* Where a timed iteration is on its run says what it has read and returned.
LEMMA OnRunRepeats ==
  ASSUME InExecution, OnCompleteRun
  PROVE  TimedRepeatsVerified
<1> SUFFICES ASSUME ~iteration.validating
             PROVE  LET v == verified[iteration.case][iteration.mode] IN
                    /\ iteration.reads \subseteq v.reads
                    /\ phase \in {"executed", "checking"} => ReplayResult(iteration) = v.result
  BY DEF TimedRepeatsVerified
<1> PICK r, n : \E k \in 1 .. n :
      Complete(r, n, iteration.case, iteration.mode) /\ r[k] = Snapshot
  BY DEF OnCompleteRun
<1> PICK k \in 1 .. n :
      Complete(r, n, iteration.case, iteration.mode) /\ r[k] = Snapshot
  OBVIOUS
<1>1. /\ r[k].reads \subseteq r[n].reads
      /\ Returned(r[k]) => ReplayResult(r[k]) = ReplayResult(r[n])
  BY DEF Complete, IsRun
<1>2. r[k].reads = iteration.reads /\ r[k].phase = phase
  BY DEF Snapshot
<1>3. ReplayResult(r[k]) = ReplayResult(iteration)
  BY SnapshotLooks
<1> QED BY <1>1, <1>2, <1>3 DEF Complete, Returned

\* What was accepted stays accepted while the history is left alone.
LEMMA AcceptedStays ==
  ASSUME AcceptedRan, UNCHANGED <<fixture, native, base, verified>>
  PROVE  /\ AcceptedRan'
         /\ \A r, n, c, m : Complete(r, n, c, m) => Complete(r, n, c, m)'
<1>1. \A r, n, c, m : Complete(r, n, c, m) => Complete(r, n, c, m)'
  BY RunsLast DEF Complete, Final, ReplayResult
<1> QED BY <1>1 DEF AcceptedRan

\* A timed iteration is not turned down: what it returns was accepted before.
LEMMA TimedAccepted ==
  ASSUME TypeOK, IInv, RInv, InExecution, ~iteration.validating
  PROVE  /\ phase = "executed" => ~Malformed(iteration)
         /\ Checked => Accepts(iteration)
<1> PICK r, n : \E k \in 1 .. n :
      Complete(r, n, iteration.case, iteration.mode) /\ r[k] = Snapshot
  BY DEF RInv, OnCompleteRun
<1> PICK k \in 1 .. n :
      Complete(r, n, iteration.case, iteration.mode) /\ r[k] = Snapshot
  OBVIOUS
<1>1. /\ r[k].phase = phase /\ r[k].todo = iteration.todo /\ r[k].failures = iteration.failures
      /\ n \in Nat \ {0}
  BY DEF Snapshot, Complete, IsRun
<1>2. ASSUME k # n PROVE Follows(r[k], r[k + 1])
  <2>1. k \in 1 .. n - 1
    BY <1>1, <1>2
  <2> QED BY <2>1 DEF Complete, IsRun
<1>3. ASSUME phase = "executed" PROVE ~Malformed(iteration)
  <2>1. k # n
    BY <1>1, <1>3 DEF Complete, Final
  <2>2. ~Malformed(r[k])
    BY <1>1, <1>2, <1>3, <2>1
       DEF Follows, ReadStep, WriteStep, LogStep, HaltStep, CompareStep, CheckStep
  <2> QED BY <2>2, SnapshotLooks
<1>4. ASSUME Checked PROVE Accepts(iteration)
  <2>1. Final(r[k])
    BY <1>1, <1>4 DEF Checked, Final
  <2>2. k = n
    BY <1>2, <2>1, FinalIsLast
  <2>3. iteration.failures = {}
    BY <1>1, <2>2 DEF Complete
  <2>4. \A l \in iteration.reads : ~Uncaptured(l)
    <3>1. iteration.case \in Cases /\ iteration.mode \in Modes
      BY DEF TypeOK, Iterations
    <3>2. verified[iteration.case][iteration.mode] # NoValue
      BY <3>1 DEF IInv, WholeSuiteVerifiedFirst
    <3> QED BY <3>1, <3>2 DEF IInv, VerifiedReadsCaptured, RInv, TimedRepeatsVerified
  <2> QED BY <2>3, <2>4 DEF Accepts, RInv, MissingUncaptured
<1> QED BY <1>3, <1>4

-----------------------------------------------------------------------------
(* Steps.                                                                  *)

\* A step that neither begins an execution nor accepts one nor touches a database.
LEMMA RestingStep ==
  ASSUME TypeOK, RInv, UNCHANGED <<fixture, native, base, iteration, verified>>,
         \/ phase' = phase
         \/ phase' \in {"rejected", "verified", "benchmark"} /\ phase \notin {"start", "rejected"}
         \/ phase' = "rejected"
  PROVE  RInv'
<1>1. AcceptedRan' /\ \A r, n, c, m : Complete(r, n, c, m) => Complete(r, n, c, m)'
  BY AcceptedStays DEF RInv
<1>2. SameBase'
  BY DEF RInv, SameBase, BuildBaseState
<1>3. \A l : Uncaptured(l)' <=> Uncaptured(l)
  BY DEF Uncaptured, UncapturedAccount, UncapturedSlot, UncapturedHash
<1>4. MissingUncaptured'
  BY <1>3 DEF RInv, MissingUncaptured
<1>5. ReplayResult(iteration)' = ReplayResult(iteration)
  BY DEF ReplayResult
<1>6. TimedRepeatsVerified' /\ TimedNeverFails'
  BY <1>5 DEF RInv, TimedRepeatsVerified, TimedNeverFails
<1>7. OnRun' /\ OnCompleteRun'
  <2>1. CASE phase' \in {"rejected", "verified", "benchmark"}
    BY <2>1 DEF OnRun, OnCompleteRun, Verifying, InExecution
  <2>2. CASE phase' = phase
    <3>1. Snapshot' = Snapshot
      BY <2>2 DEF Snapshot
    <3>2. OnRun'
      BY <2>2, <3>1, RunsLast DEF RInv, OnRun, Verifying
    <3>3. OnCompleteRun'
      BY <1>1, <2>2, <3>1 DEF RInv, OnCompleteRun, InExecution
    <3> QED BY <3>2, <3>3
  <2> QED BY <2>1, <2>2
<1> QED BY <1>1, <1>2, <1>4, <1>6, <1>7 DEF RInv

LEMMA InsideRepeats ==
  ASSUME TypeOK, IInv, RInv, Execute \/ Compare \/ VerifyExpectedState
  PROVE  RInv'
<1>1. /\ Inside /\ InExecution
      /\ phase' \in {"running", "executed", "checking", "rejected", "failed"}
  BY ExecutionStep DEF IInv, InExecution
<1>2. UNCHANGED <<fixture, native, base, verified>>
  BY <1>1 DEF Inside, Execute, VmRead, VmWrite, VmLog, VmHalt, Compare, VerifyExpectedState, inputs
<1> PICK s : s = Snapshot
  OBVIOUS
<1> PICK t : t = Snapshot'
  OBVIOUS
<1>3. /\ iteration'.missing \subseteq {l \in iteration'.reads : Uncaptured(l)}
      /\ \/ Follows(s, t)
         \/ s.phase = "executed" /\ Malformed(s) /\ phase' = Failed /\ iteration' = iteration
  BY ExecutionFollows DEF RInv, MissingUncaptured
<1>4. AcceptedRan' /\ \A r, n, c, m : Complete(r, n, c, m) => Complete(r, n, c, m)'
  BY <1>2, AcceptedStays DEF RInv
<1>5. SameBase'
  BY <1>1, <1>2 DEF RInv, SameBase, BuildBaseState, InExecution
<1>6. MissingUncaptured'
  BY <1>2, <1>3 DEF MissingUncaptured, Uncaptured, UncapturedAccount, UncapturedSlot, UncapturedHash
<1>7. /\ IsSnapshot(s) /\ IsSnapshot(t) /\ s.phase = phase /\ t.phase = phase'
      /\ iteration'.case = iteration.case /\ iteration'.mode = iteration.mode
      /\ iteration'.validating = iteration.validating
  BY <1>1, SnapshotFields DEF Inside
<1>8. CASE iteration.validating
  <2>1. OnRun'
    <3> SUFFICES ASSUME Verifying'
                 PROVE  \E r, n : (IsRun(r, n, iteration.case, iteration.mode) /\ r[n] = Snapshot)'
      BY DEF OnRun
    <3>1. Follows(s, t)
      BY <1>3, <1>8 DEF Verifying, Failed
    <3>2. PICK r, n : IsRun(r, n, iteration.case, iteration.mode) /\ r[n] = s
      BY <1>1, <1>8 DEF RInv, OnRun, Verifying, InExecution
    <3>3. PICK q : IsRun(q, n + 1, iteration.case, iteration.mode) /\ q[n + 1] = t
      BY <1>7, <3>1, <3>2, RunGoesOn
    <3>4. IsRun(q, n + 1, iteration.case, iteration.mode)'
      <4> PICK c, m : c = iteration.case /\ m = iteration.mode
        OBVIOUS
      <4>1. IsRun(q, n + 1, c, m)'
        BY <1>2, <3>3, RunsLast
      <4> QED BY <1>7, <4>1
    <3> QED BY <3>3, <3>4
  <2>2. /\ OnCompleteRun' /\ TimedRepeatsVerified' /\ TimedNeverFails'
    BY <1>1, <1>3, <1>7, <1>8
       DEF OnCompleteRun, TimedRepeatsVerified, TimedNeverFails, RInv, Failed, Follows, ReadStep,
           WriteStep, LogStep, HaltStep, CompareStep, CheckStep
  <2> QED BY <1>4, <1>5, <1>6, <2>1, <2>2 DEF RInv
<1>9. CASE ~iteration.validating
  <2>1. Follows(s, t)
    BY <1>1, <1>3, <1>7, <1>9, TimedAccepted, SnapshotLooks
  <2>2. phase' \in {"running", "executed", "checking"}
    BY <1>7, <2>1 DEF Follows, ReadStep, WriteStep, LogStep, HaltStep, CompareStep, CheckStep
  <2>3. OnCompleteRun'
    <3>1. PICK r, n : \E k \in 1 .. n : Complete(r, n, iteration.case, iteration.mode) /\ r[k] = s
      BY <1>1, <1>9 DEF RInv, OnCompleteRun
    <3>2. PICK k \in 1 .. n : Complete(r, n, iteration.case, iteration.mode) /\ r[k] = s
      BY <3>1
    <3>3. n \in Nat \ {0} /\ k # n
      BY <2>1, <3>2, FinalIsLast DEF Complete, IsRun
    <3>4. k \in 1 .. n - 1 /\ k + 1 \in 1 .. n
      BY <3>3
    <3>5. Follows(s, r[k + 1]) /\ IsSnapshot(r[k + 1])
      BY <3>2, <3>4 DEF Complete, IsRun
    <3>6. r[k + 1] = t
      BY <1>7, <2>1, <3>5, OneSuccessor
    <3>7. Complete(r, n, iteration.case, iteration.mode)'
      <4> PICK c, m : c = iteration.case /\ m = iteration.mode
        OBVIOUS
      <4>1. Complete(r, n, c, m)'
        BY <1>4, <3>2
      <4> QED BY <1>7, <4>1
    <3> QED BY <1>7, <3>4, <3>6, <3>7 DEF OnCompleteRun
  <2>4. TimedRepeatsVerified' /\ TimedNeverFails'
    <3>1. InExecution'
      BY <2>2 DEF InExecution
    <3>2. TimedRepeatsVerified'
      BY <2>3, <3>1, OnRunRepeats, PTL
    <3> QED BY <2>2, <3>2 DEF TimedNeverFails
  <2>5. OnRun'
    BY <1>7, <1>9 DEF OnRun, Verifying
  <2> QED BY <1>4, <1>5, <1>6, <2>3, <2>4, <2>5 DEF RInv
<1> QED BY <1>8, <1>9 DEF TypeOK, Iterations

\* An execution begins where the runs of its case and mode start.
LEMMA BeginsAtStart ==
  ASSUME TypeOK, NEW c \in Cases, NEW m \in Modes, NEW v \in BOOLEAN, Begin(c, m, v)
  PROVE  /\ Snapshot' = Start(c, m) /\ phase' = "running"
         /\ iteration'.case = c /\ iteration'.mode = m /\ iteration'.validating = v
         /\ iteration'.missing \subseteq {l \in iteration'.reads : Uncaptured(l)}
<1> DEFINE new == [case |-> c, mode |-> m, validating |-> v,
        vm |-> IF m = "dual-hot" THEN native[c] ELSE InterpreterEntry[c],
        written |-> [l \in Stored |-> NoValue], logs |-> << >>,
        reads |-> {}, missing |-> {}, failures |-> {}, todo |-> << >>]
<1>1. iteration' = Read(new, Prelude(c, m)) /\ phase' = "running"
  BY DEF Begin, Fresh
<1>2. /\ iteration'.case = c /\ iteration'.mode = m /\ iteration'.validating = v
      /\ iteration'.vm = (IF m = "dual-hot" THEN native[c] ELSE InterpreterEntry[c])
      /\ iteration'.written = [l \in Stored |-> NoValue] /\ iteration'.logs = << >>
      /\ iteration'.failures = {} /\ iteration'.todo = << >>
      /\ iteration'.reads = {} \cup Prelude(c, m)
      /\ iteration'.missing = {} \cup {l \in Prelude(c, m) : Uncaptured(l) /\ (v \/ l \in Numbers)}
  BY <1>1 DEF Read
<1>3. iteration'.reads = Prelude(c, m)
  BY <1>2
<1>4. Snapshot' = Start(c, m)
  BY <1>1, <1>2, <1>3 DEF Snapshot, Start
<1> QED BY <1>1, <1>2, <1>3, <1>4

\* Beginning a verifying execution, when what is accepted has been run.
LEMMA VerifyingBegins ==
  ASSUME TypeOK, SameBase, phase \notin {"start", "rejected"}, AcceptedRan',
         NEW c \in Cases, NEW m \in Modes, Begin(c, m, TRUE), UNCHANGED <<fixture, native, base>>
  PROVE  RInv'
<1>1. /\ Snapshot' = Start(c, m) /\ phase' = "running"
      /\ iteration'.case = c /\ iteration'.mode = m /\ iteration'.validating = TRUE
      /\ iteration'.missing \subseteq {l \in iteration'.reads : Uncaptured(l)}
  BY BeginsAtStart
<1>2. SameBase'
  BY DEF SameBase, BuildBaseState
<1>3. MissingUncaptured'
  BY <1>1 DEF MissingUncaptured, Uncaptured, UncapturedAccount, UncapturedSlot, UncapturedHash
<1>4. OnRun'
  <2>1. \E r, n : IsRun(r, n, c, m) /\ r[n] = Start(c, m)
    BY RunStarts
  <2>2. PICK r, n : IsRun(r, n, c, m) /\ r[n] = Start(c, m)
    BY <2>1
  <2>3. IsRun(r, n, iteration.case, iteration.mode)'
    <3>1. IsRun(r, n, c, m)'
      BY <2>2, RunsLast
    <3> QED BY <1>1, <3>1
  <2> QED BY <1>1, <2>2, <2>3 DEF OnRun
<1>5. OnCompleteRun' /\ TimedRepeatsVerified' /\ TimedNeverFails'
  BY <1>1 DEF OnCompleteRun, TimedRepeatsVerified, TimedNeverFails
<1> QED BY <1>2, <1>3, <1>4, <1>5 DEF RInv

\* An accepted execution has been run.
LEMMA RecordRan ==
  ASSUME TypeOK, IInv, RInv, Checked, Accepts(iteration), iteration.validating, Record,
         UNCHANGED <<fixture, native, base>>
  PROVE  AcceptedRan'
<1>1. /\ iteration.case \in Cases /\ iteration.mode \in Modes
      /\ verified \in [Cases -> [Modes -> Optional(Accepted)]]
  BY DEF TypeOK, Iterations
<1>2. /\ verified'[iteration.case][iteration.mode] =
           [reads |-> iteration.reads, result |-> ReplayResult(iteration)]
      /\ \A c \in Cases, m \in Modes :
           <<c, m>> # <<iteration.case, iteration.mode>> => verified'[c][m] = verified[c][m]
  BY <1>1 DEF Record
<1> SUFFICES ASSUME NEW c \in Cases, NEW m \in Modes, verified'[c][m] # NoValue
             PROVE  \E r, n : Complete(r, n, c, m)'
  BY DEF AcceptedRan
<1>3. CASE <<c, m>> = <<iteration.case, iteration.mode>>
  <2>1. PICK r, n : IsRun(r, n, c, m) /\ r[n] = Snapshot
    BY <1>3 DEF RInv, OnRun, Verifying, Checked
  <2>2. IsRun(r, n, c, m)'
    BY <2>1, RunsLast
  <2>3. /\ Final(r[n]) /\ r[n].failures = {} /\ r[n].reads = iteration.reads
        /\ ReplayResult(r[n]) = ReplayResult(iteration)
    BY <2>1, SnapshotLooks DEF Snapshot, Final, Checked, Accepts
  <2>4. verified'[c][m].reads = r[n].reads /\ verified'[c][m].result = ReplayResult(r[n])
    BY <1>2, <1>3, <2>3
  <2>5. Complete(r, n, c, m)'
    BY <2>2, <2>3, <2>4 DEF Complete, Final, ReplayResult
  <2> QED BY <2>5
<1>4. CASE <<c, m>> # <<iteration.case, iteration.mode>>
  <2>1. verified'[c][m] = verified[c][m]
    BY <1>2, <1>4
  <2>2. PICK r, n : Complete(r, n, c, m)
    BY <2>1 DEF RInv, AcceptedRan
  <2>3. IsRun(r, n, c, m)'
    BY <2>2, RunsLast DEF Complete
  <2>4. Complete(r, n, c, m)'
    BY <2>1, <2>2, <2>3 DEF Complete, Final, ReplayResult
  <2> QED BY <2>4
<1> QED BY <1>3, <1>4

\* A timed iteration begins where the run of its case and mode does.
LEMMA TimingBegins ==
  ASSUME TypeOK, IInv, RInv, phase = "benchmark", NEW c \in Cases, Begin(c, mode, FALSE),
         UNCHANGED <<fixture, native, base, verified>>
  PROVE  RInv'
<1>1. /\ mode \in Modes /\ verified[c][mode] # NoValue
  BY DEF TypeOK, IInv, WholeSuiteVerifiedFirst
<1> PICK m \in Modes : m = mode
  BY <1>1
<1>2. /\ Snapshot' = Start(c, m) /\ phase' = "running"
      /\ iteration'.case = c /\ iteration'.mode = m /\ iteration'.validating = FALSE
      /\ iteration'.missing \subseteq {l \in iteration'.reads : Uncaptured(l)}
  BY BeginsAtStart
<1>3. AcceptedRan' /\ \A r, n : Complete(r, n, c, m) => Complete(r, n, c, m)'
  BY AcceptedStays DEF RInv
<1>4. SameBase'
  BY <1>2 DEF RInv, SameBase, BuildBaseState
<1>5. MissingUncaptured'
  BY <1>2 DEF MissingUncaptured, Uncaptured, UncapturedAccount, UncapturedSlot, UncapturedHash
<1>6. OnRun' /\ TimedNeverFails'
  BY <1>2 DEF OnRun, Verifying, TimedNeverFails
<1>7. OnCompleteRun'
  <2>1. PICK r, n : Complete(r, n, c, m)
    BY <1>1 DEF RInv, AcceptedRan
  <2>2. 1 \in 1 .. n /\ r[1] = Start(c, m)
    BY <2>1 DEF Complete, IsRun
  <2>3. Complete(r, n, iteration.case, iteration.mode)'
    <3>1. Complete(r, n, c, m)'
      BY <1>3, <2>1
    <3> QED BY <1>2, <3>1
  <2> QED BY <1>2, <2>2, <2>3 DEF OnCompleteRun
<1>8. TimedRepeatsVerified'
  <2>1. InExecution'
    BY <1>2 DEF InExecution
  <2> QED BY <1>7, <2>1, OnRunRepeats, PTL
<1> QED BY <1>3, <1>4, <1>5, <1>6, <1>7, <1>8 DEF RInv

-----------------------------------------------------------------------------
(* The theorems.                                                           *)

\* A verifying execution is accepted, and the next begins or verification ends.
LEMMA AcceptingStep ==
  ASSUME TypeOK, IInv, RInv, InterpreterAccepted \/ DualAccepted
  PROVE  RInv'
<1>1. /\ Checked /\ Accepts(iteration) /\ iteration.validating /\ Record
      /\ UNCHANGED <<fixture, native, base>> /\ phase = "checking" /\ SameBase
  BY DEF InterpreterAccepted, DualAccepted, Checked, inputs, RInv
<1>2. AcceptedRan'
  BY <1>1, RecordRan
<1>3. /\ iteration.case \in Cases /\ iteration.case \in 1 .. NumCases
      /\ "interpreter-hot" \in Modes /\ "dual-hot" \in Modes /\ NumCases \in Nat \ {0}
  BY ReplayAssumption DEF TypeOK, Iterations, Cases, Modes
<1>4. CASE InterpreterAccepted
  <2>1. Begin(iteration.case, "dual-hot", TRUE)
    BY <1>4 DEF InterpreterAccepted
  <2> QED BY <1>1, <1>2, <1>3, <2>1, VerifyingBegins
<1>5. CASE DualAccepted /\ ~LastCase
  <2>1. Begin(iteration.case + 1, "interpreter-hot", TRUE)
    BY <1>5 DEF DualAccepted
  <2>2. iteration.case + 1 \in Cases
    BY <1>3, <1>5 DEF LastCase, Cases
  <2> QED BY <1>1, <1>2, <1>3, <2>1, <2>2, VerifyingBegins
<1>6. CASE DualAccepted /\ LastCase
  <2>1. phase' = "verified" /\ iteration' = iteration
    BY <1>6 DEF DualAccepted
  <2>2. SameBase'
    BY <1>1 DEF SameBase, BuildBaseState
  <2>3. MissingUncaptured'
    BY <1>1, <2>1
       DEF RInv, MissingUncaptured, Uncaptured, UncapturedAccount, UncapturedSlot, UncapturedHash
  <2>4. OnRun' /\ OnCompleteRun' /\ TimedNeverFails' /\ TimedRepeatsVerified'
    BY <1>1, <2>1
       DEF OnRun, OnCompleteRun, Verifying, InExecution, TimedNeverFails, TimedRepeatsVerified
  <2> QED BY <1>2, <2>2, <2>3, <2>4 DEF RInv
<1> QED BY <1>4, <1>5, <1>6

LEMMA RepeatInvariant == Spec => []RInv
<1>1. Init => RInv
  <2> SUFFICES ASSUME Init PROVE RInv
    OBVIOUS
  <2>1. /\ phase = "start" /\ iteration.validating = TRUE /\ iteration.missing = {}
        /\ \A c \in Cases, m \in Modes : verified[c][m] = NoValue
    BY DEF Init
  <2> QED
    BY <2>1 DEF RInv, SameBase, MissingUncaptured, OnRun, AcceptedRan, OnCompleteRun, Verifying,
                InExecution, TimedRepeatsVerified, TimedNeverFails
<1>2. TypeOK /\ IInv /\ RInv /\ [Next]_vars => RInv'
  <2> SUFFICES ASSUME TypeOK, IInv, RInv, [Next]_vars PROVE RInv'
    OBVIOUS
  <2>1. CASE Execute \/ Compare \/ VerifyExpectedState
    BY <2>1, InsideRepeats
  <2>2. CASE FailCase
    <3>1. iteration.validating
      BY <2>2, TimedAccepted DEF FailCase, Checked, InExecution
    <3>2. phase' = "rejected" /\ UNCHANGED <<fixture, native, base, iteration, verified>>
      BY <2>2, <3>1 DEF FailCase, Failed, inputs
    <3> QED BY <3>2, RestingStep
  <2>3. CASE RejectEnvironment \/ ModesDiffer
    BY <2>3, RestingStep DEF RejectEnvironment, ModesDiffer, inputs
  <2>4. CASE SampleAccepted
    BY <2>4, RestingStep DEF SampleAccepted, Checked, inputs
  <2>5. CASE BuildSessions
    <3>1. /\ base' = [m \in Modes |-> BuildBaseState] /\ phase' = "sessions"
          /\ UNCHANGED <<fixture, iteration, verified>> /\ phase = "start"
      BY <2>5 DEF BuildSessions, inputs
    <3>2. iteration.validating /\ \A c \in Cases, m \in Modes : verified[c][m] = NoValue
      BY <3>1 DEF IInv, InOrder
    <3>3. SameBase' /\ AcceptedRan'
      BY <3>1, <3>2 DEF SameBase, BuildBaseState, AcceptedRan
    <3>4. MissingUncaptured'
      BY <3>1
         DEF RInv, MissingUncaptured, Uncaptured, UncapturedAccount, UncapturedSlot, UncapturedHash
    <3>5. OnRun' /\ OnCompleteRun' /\ TimedNeverFails' /\ TimedRepeatsVerified'
      BY <3>1, <3>2
         DEF OnRun, OnCompleteRun, Verifying, InExecution, TimedNeverFails, TimedRepeatsVerified
    <3> QED BY <3>3, <3>4, <3>5 DEF RInv
  <2>6. CASE FirstCase
    <3>1. /\ Begin(1, "interpreter-hot", TRUE) /\ phase = "sessions"
          /\ UNCHANGED <<fixture, native, base, verified>> /\ SameBase
      BY <2>6 DEF FirstCase, inputs, RInv
    <3>2. AcceptedRan'
      BY <3>1, AcceptedStays DEF RInv
    <3>3. 1 \in Cases /\ "interpreter-hot" \in Modes
      BY ReplayAssumption DEF Cases, Modes
    <3> QED BY <3>1, <3>2, <3>3, VerifyingBegins
  <2>7. CASE InterpreterAccepted \/ DualAccepted
    BY <2>7, AcceptingStep
  <2>8. CASE OpenBenchmarkSession
    <3>1. base' = base
      <4>1. base = [m \in Modes |-> BuildBaseState] /\ base' = [base EXCEPT ![mode] = BuildBaseState]
        BY <2>8 DEF OpenBenchmarkSession, RInv, SameBase
      <4> QED BY <4>1
    <3> QED BY <2>8, <3>1, RestingStep DEF OpenBenchmarkSession, inputs
  <2>9. ASSUME NEW c \in Cases, Prepare(c) PROVE RInv'
    BY <2>9, TimingBegins DEF Prepare, inputs
  <2>10. CASE UNCHANGED vars
    BY <2>10, RestingStep DEF vars
  <2> QED
    BY <2>1, <2>2, <2>3, <2>4, <2>5, <2>6, <2>7, <2>8, <2>9, <2>10
       DEF Next, Validate, Verify, Benchmark
<1> QED BY <1>1, <1>2, TypeCorrect, AcceptedInvariant, PTL DEF Spec

\* A timed iteration, which nothing watches, reads only what the verified
\* execution of its case in its mode read, and returns what that one returned.
THEOREM TimedRepeats == Spec => []TimedRepeatsVerified
<1>1. RInv => TimedRepeatsVerified
  BY DEF RInv
<1> QED BY <1>1, RepeatInvariant, PTL

\* However often and in whatever order the cases of a verified suite are timed,
\* no iteration fails its checks.
THEOREM TimedSucceeds == Spec => []TimedNeverFails
<1>1. RInv => TimedNeverFails
  BY DEF RInv
<1> QED BY <1>1, RepeatInvariant, PTL

-----------------------------------------------------------------------------
(* A verifying execution whose reads are all covered does what happens on   *)
(* the chain, read by read; so the verifier turns down no suite that        *)
(* describes the chain, and lets pass no other.                             *)

EntryOf(c, m) == IF m = "dual-hot" THEN native[c] ELSE InterpreterEntry[c]
MachineOf(s) == [vm |-> s.vm, written |-> s.written, logs |-> s.logs]
AllCovered(s) == \A l \in s.reads : ~Uncaptured(l)

TouchedBefore(c, v, i) ==
  Warmed(c) \cup UNION {TouchedAt(ChainRun[v][j]) : j \in 1 .. i - 1}

\* Where a snapshot is: at a machine of the run, at its end, or at an entry of
\* the expected state, with those before it judged.
InRun(s, v) ==
  \E i \in DOMAIN ChainRun[v] :
    MachineOf(s) = ChainRun[v][i] /\ TouchedBefore(s.case, v, i) \subseteq s.reads

AtEnd(s, v) == MachineOf(s) = End(v) /\ Touched(s.case, v) \subseteq s.reads

Judged(s, state, k) ==
  /\ Len(s.todo) = Len(state) - k
  /\ \A j \in 1 .. Len(s.todo) : s.todo[j] = state[k + j]
  /\ \A j \in 1 .. k : TrueOf(state[j], s.written) => CheckTouches(state[j]) \subseteq s.reads
  /\ s.failures = Mismatches(s) \cup {f \in {"state"} : \E j \in 1 .. k : ~TrueOf(state[j], s.written)}

Matches(s) ==
  LET v == EntryOf(s.case, s.mode)
      state == Expected(s).state
  IN /\ s.phase = "running" => InRun(s, v)
     /\ s.phase = "executed" => AtEnd(s, v)
     /\ s.phase = "checking" => AtEnd(s, v) /\ \E k \in 0 .. Len(state) : Judged(s, state, k)

AsOnChain == Verifying /\ AllCovered(Snapshot) => Matches(Snapshot)

AcceptedDescribed ==
  \A c \in Cases, m \in Modes :
    verified[c][m] # NoValue =>
      Describes(c, EntryOf(c, m)) /\ verified[c][m].result = Result(c, EntryOf(c, m))

HonestCovered == Honest /\ Verifying => AllCovered(Snapshot)

EnvironmentSupported == phase \notin {"start", "rejected"} => Supported

HInv ==
  /\ AsOnChain /\ AcceptedDescribed /\ HonestCovered /\ EnvironmentSupported
  /\ HonestSuitesPass

Placed(s) ==
  /\ s.case \in Cases /\ s.mode \in Modes /\ s.vm \in VmStates
  /\ s.written \in [Stored -> Optional(Values)] /\ base[s.mode] = BuildBaseState

\* What is covered reads as on the chain; so do the slots of accounts that do
\* not exist.
LEMMA CoveredValues ==
  ASSUME TypeOK, NEW m \in Modes, base[m] = BuildBaseState
  PROVE  /\ \A l \in Stored : ~Uncaptured(l) => base[m][l] = Chain[l]
         /\ \A n \in Numbers : ~Uncaptured(n) => BlockHash(n) = Chain[n]
         /\ \A s \in Slots : ~Uncaptured(Owner[s]) /\ Chain[Owner[s]] = Zero
                             => base[m][s] = Chain[s]
<1>1. /\ fixture \in Fixtures /\ fixture.accounts \subseteq Accounts
      /\ fixture.slots \subseteq Slots /\ fixture.hashes \subseteq Numbers
  BY ReplayAssumption DEF TypeOK, Suites
<1>2. /\ \A l \in fixture.accounts \cup fixture.slots \cup fixture.hashes : fixture.value[l] = Chain[l]
      /\ \A a \in fixture.absent : Chain[a] = Zero
  BY <1>1, FixturesAreCaptured
<1>3. \A l \in Stored : base[m][l] = IF l \in fixture.accounts \cup fixture.slots
                                     THEN Chain[l] ELSE Zero
  BY <1>2 DEF BuildBaseState
<1>4. ASSUME NEW l \in Stored, ~Uncaptured(l) PROVE base[m][l] = Chain[l]
  <2>1. CASE l \in Accounts
    BY <1>2, <1>3, <1>4, <2>1 DEF Uncaptured, UncapturedAccount
  <2>2. CASE l \in Slots
    BY <1>3, <1>4, <2>2 DEF Uncaptured, UncapturedSlot
  <2> QED BY <2>1, <2>2 DEF Stored
<1>5. \A n \in Numbers : ~Uncaptured(n) => BlockHash(n) = Chain[n]
  BY <1>2 DEF Uncaptured, UncapturedHash, BlockHash
<1>6. \A s \in Slots : Chain[Owner[s]] = Zero => base[m][s] = Chain[s]
  BY <1>3, ChainAssumption DEF Stored
<1> QED BY <1>4, <1>5, <1>6

\* A suite covers what the recording database does not miss.
LEMMA CoveredMeans ==
  ASSUME TypeOK, NEW l \in Locations
  PROVE  Covered(l) <=> ~Uncaptured(l)
<1>1. /\ fixture \in Fixtures /\ fixture.accounts \subseteq Accounts /\ fixture.absent \subseteq Accounts
      /\ fixture.slots \subseteq Slots /\ fixture.hashes \subseteq Numbers
  BY ReplayAssumption DEF TypeOK, Suites
<1>2. \A s \in fixture.slots : Owner[s] \in fixture.accounts
  BY <1>1, FixturesAreLoaded
<1>3. CASE l \in Accounts
  BY <1>1, <1>3, ReplayAssumption DEF Covered, Uncaptured, UncapturedAccount
<1>4. CASE l \in Slots
  BY <1>1, <1>2, <1>4, ReplayAssumption DEF Covered, Uncaptured, UncapturedSlot
<1>5. CASE l \in Numbers
  BY <1>1, <1>5, ReplayAssumption DEF Covered, Uncaptured, UncapturedHash
<1> QED BY <1>3, <1>4, <1>5 DEF Locations, Stored

\* A location whose lookup is covered is looked up as on the chain, and holds
\* there what the execution sees.
LEMMA Looks ==
  ASSUME TypeOK, NEW s, Placed(s), NEW l \in Locations,
         \/ \A k \in Loads(s, l) : ~Uncaptured(k)
         \/ \A k \in Touches(l) : ~Uncaptured(k)
  PROVE  Loads(s, l) = Touches(l) /\ Current(s, l) = Held(s.written, l)
<1> PICK m \in Modes : m = s.mode
  BY DEF Placed
<1>1. base[m] = BuildBaseState /\ s.written \in [Stored -> Optional(Values)]
  BY DEF Placed
<1>2. CASE l \in Slots
  <2>1. Owner[l] \in Accounts /\ Owner[l] \in Stored /\ l \in Stored /\ l \notin Numbers
    BY <1>2, ReplayAssumption DEF Stored
  <2>2. ~Uncaptured(Owner[l])
    BY <1>2 DEF Loads, Touches
  <2>3. base[m][Owner[l]] = Chain[Owner[l]]
    BY <1>1, <2>1, <2>2, CoveredValues
  <2>4. Loads(s, l) = Touches(l)
    BY <1>2, <2>3 DEF Loads, Touches
  <2>5. base[m][l] = Chain[l]
    <3>1. CASE Chain[Owner[l]] = Zero
      BY <1>1, <1>2, <2>2, <3>1, CoveredValues
    <3>2. CASE Chain[Owner[l]] # Zero
      <4>1. ~Uncaptured(l)
        BY <1>2, <2>4, <3>2 DEF Touches
      <4> QED BY <1>1, <2>1, <4>1, CoveredValues
    <3> QED BY <3>1, <3>2
  <2> QED BY <2>1, <2>4, <2>5 DEF Current, Held
<1>3. CASE l \in Accounts
  <2>1. l \notin Slots /\ l \notin Numbers /\ l \in Stored
    BY <1>3, ReplayAssumption DEF Stored
  <2>2. Loads(s, l) = Touches(l) /\ ~Uncaptured(l)
    BY <2>1 DEF Loads, Touches
  <2>3. base[m][l] = Chain[l]
    BY <1>1, <2>1, <2>2, CoveredValues
  <2> QED BY <2>1, <2>2, <2>3 DEF Current, Held
<1>4. CASE l \in Numbers
  <2>1. l \notin Slots /\ l \notin Stored
    BY <1>4, ReplayAssumption DEF Stored
  <2>2. Loads(s, l) = Touches(l) /\ ~Uncaptured(l)
    BY <2>1 DEF Loads, Touches
  <2>3. BlockHash(l) = Chain[l]
    BY <1>1, <1>4, <2>2, CoveredValues
  <2> QED BY <1>4, <2>1, <2>2, <2>3 DEF Current, Held
<1> QED BY <1>2, <1>3, <1>4 DEF Locations, Stored

\* An entry of the expected state whose check is covered is judged as on the
\* chain, and checking it touches no more than looking there does.
LEMMA EntryLooks ==
  ASSUME TypeOK, NEW s, Placed(s), NEW x \in Entries,
         \/ \A l \in EntryReads(s, x) : ~Uncaptured(l)
         \/ \A l \in CheckTouches(x) : ~Uncaptured(l)
  PROVE  /\ EntryHolds(s, x) <=> TrueOf(x, s.written)
         /\ EntryReads(s, x) \subseteq CheckTouches(x)
         /\ TrueOf(x, s.written) => CheckTouches(x) \subseteq EntryReads(s, x)
<1>1. /\ x.account \in Locations /\ x.account \notin Slots /\ Asserted(x) \subseteq Slots
      /\ Asserted(x) \subseteq Locations
  BY ReplayAssumption DEF Entries, Locations, Stored, Asserted
<1>2. Current(s, x.account) = Held(s.written, x.account)
  <2>1. Touches(x.account) = {x.account}
    BY <1>1 DEF Touches
  <2>2. ~Uncaptured(x.account)
    BY DEF EntryReads, CheckTouches
  <2> QED BY <1>1, <2>1, <2>2, Looks
<1>3. CASE Current(s, x.account) = Zero
  BY <1>2, <1>3 DEF EntryHolds, TrueOf, EntryReads, CheckTouches
<1>4. CASE Current(s, x.account) # Zero
  <2>1. EntryReads(s, x) = {x.account} \cup UNION {Loads(s, t) : t \in Asserted(x)}
    BY <1>4 DEF EntryReads, Asserted
  <2>2. ASSUME NEW t \in Asserted(x)
        PROVE  Loads(s, t) = Touches(t) /\ Current(s, t) = Held(s.written, t)
    <3>1. t \in Locations
      BY <1>1
    <3>2. CASE \A l \in EntryReads(s, x) : ~Uncaptured(l)
      <4>1. \A k \in Loads(s, t) : ~Uncaptured(k)
        BY <2>1, <3>2
      <4> QED BY <3>1, <4>1, Looks
    <3>3. CASE \A l \in CheckTouches(x) : ~Uncaptured(l)
      <4>1. \A k \in Touches(t) : ~Uncaptured(k)
        BY <3>3 DEF CheckTouches
      <4> QED BY <3>1, <4>1, Looks
    <3> QED BY <3>2, <3>3
  <2>3. EntryReads(s, x) = CheckTouches(x)
    BY <2>1, <2>2 DEF CheckTouches
  <2>4. (\A t \in Slots : x.slots[t] \in {NoValue, Current(s, t)})
          <=> \A t \in Asserted(x) : x.slots[t] = Held(s.written, t)
    BY <2>2 DEF Asserted
  <2> QED BY <1>2, <1>4, <2>3, <2>4 DEF EntryHolds, TrueOf
<1> QED BY <1>3, <1>4

-----------------------------------------------------------------------------
(* The run on the chain.                                                   *)

LEMMA EntryEntered ==
  ASSUME TypeOK, NEW c \in Cases, NEW m \in Modes
  PROVE  EntryOf(c, m) \in Entered /\ IsChainRun(ChainRun[EntryOf(c, m)], EntryOf(c, m))
<1>1. EntryOf(c, m) \in Entered
  BY DEF EntryOf, Entered, TypeOK
<1> QED BY <1>1, ChainAssumption

\* An operation that is not the last is followed by its step; the last one halts.
LEMMA RunMoves ==
  ASSUME NEW v, IsChainRun(ChainRun[v], v), NEW i \in DOMAIN ChainRun[v]
  PROVE  /\ DOMAIN ChainRun[v] = 1 .. Len(ChainRun[v]) /\ Len(ChainRun[v]) \in Nat \ {0}
         /\ ChainRun[v][i] \in Machines
         /\ Op[ChainRun[v][i].vm].kind = "halt" <=> i = Len(ChainRun[v])
         /\ i # Len(ChainRun[v]) =>
              i + 1 \in DOMAIN ChainRun[v] /\ ChainStep(ChainRun[v][i], ChainRun[v][i + 1])
<1> DEFINE r == ChainRun[v]
<1>1. /\ r \in Seq(Machines) /\ r # << >>
      /\ \A j \in 1 .. Len(r) - 1 : ChainStep(r[j], r[j + 1])
      /\ Op[r[Len(r)].vm].kind = "halt"
  BY DEF IsChainRun
<1> HIDE DEF r
<1>2. DOMAIN r = 1 .. Len(r) /\ Len(r) \in Nat \ {0} /\ i \in DOMAIN r /\ r[i] \in Machines
  BY <1>1 DEF r
<1>3. ASSUME i # Len(r)
      PROVE  /\ i + 1 \in DOMAIN r /\ ChainStep(r[i], r[i + 1])
             /\ Op[r[i].vm].kind # "halt"
  <2>1. i \in 1 .. Len(r) - 1 /\ i + 1 \in DOMAIN r
    BY <1>2, <1>3
  <2>2. ChainStep(r[i], r[i + 1])
    BY <1>1, <2>1
  <2> QED BY <2>1, <2>2 DEF ChainStep
<1>4. i = Len(r) => Op[r[i].vm].kind = "halt"
  BY <1>1
<1>5. Op[r[i].vm].kind = "halt" <=> i = Len(r)
  BY <1>3, <1>4
<1> QED BY <1>2, <1>3, <1>5 DEF r

LEMMA TouchedMore ==
  ASSUME NEW c, NEW v, IsChainRun(ChainRun[v], v), NEW i \in DOMAIN ChainRun[v]
  PROVE  /\ TouchedBefore(c, v, i + 1) = TouchedBefore(c, v, i) \cup TouchedAt(ChainRun[v][i])
         /\ TouchedAt(ChainRun[v][i]) \subseteq Touched(c, v)
         /\ i = Len(ChainRun[v]) => Touched(c, v) = TouchedBefore(c, v, i + 1)
<1>1. DOMAIN ChainRun[v] = 1 .. Len(ChainRun[v]) /\ i \in Nat \ {0}
  BY RunMoves
<1>2. \A j : j \in 1 .. (i + 1) - 1 <=> j \in 1 .. i - 1 \/ j = i
  BY <1>1
<1>3. TouchedBefore(c, v, i + 1) = TouchedBefore(c, v, i) \cup TouchedAt(ChainRun[v][i])
  BY <1>2 DEF TouchedBefore
<1>4. TouchedAt(ChainRun[v][i]) \subseteq Touched(c, v)
  BY DEF Touched
<1>5. ASSUME i = Len(ChainRun[v]) PROVE Touched(c, v) = TouchedBefore(c, v, i + 1)
  <2>1. DOMAIN ChainRun[v] = 1 .. (i + 1) - 1
    BY <1>1, <1>5
  <2> QED BY <2>1 DEF Touched, TouchedBefore
<1> QED BY <1>3, <1>4, <1>5

\* What a step of the chain makes of the machine of a snapshot.
LEMMA ChainMoves ==
  ASSUME NEW s, NEW u \in Machines, MachineOf(s) \in Machines, ChainStep(MachineOf(s), u)
  PROVE  LET op == Op[s.vm] IN
         \/ /\ op.kind = "read" /\ u.vm = After[s.vm][Held(s.written, op.at)]
            /\ u.written = s.written /\ u.logs = s.logs
         \/ /\ op.kind = "write" /\ u.vm = After[s.vm][op.value]
            /\ u.written = [s.written EXCEPT ![op.at] = op.value] /\ u.logs = s.logs
         \/ /\ op.kind = "log" /\ u.vm = After[s.vm][op.value]
            /\ u.written = s.written /\ u.logs = Append(s.logs, op.value)
<1> PICK w \in Machines : w = MachineOf(s)
  OBVIOUS
<1>1. w.vm = s.vm /\ w.written = s.written /\ w.logs = s.logs
  BY DEF MachineOf
<1>2. CASE Op[s.vm].kind = "read"
  <2>1. u = [w EXCEPT !.vm = After[w.vm][Held(w.written, Op[w.vm].at)]]
    BY <1>1, <1>2 DEF ChainStep
  <2> QED BY <1>1, <1>2, <2>1 DEF Machines
<1>3. CASE Op[s.vm].kind = "write"
  <2>1. u = [w EXCEPT !.vm = After[w.vm][Op[w.vm].value],
                      !.written = [w.written EXCEPT ![Op[w.vm].at] = Op[w.vm].value]]
    BY <1>1, <1>3 DEF ChainStep
  <2> QED BY <1>1, <1>3, <2>1 DEF Machines
<1>4. CASE Op[s.vm].kind = "log"
  <2>1. u = [w EXCEPT !.vm = After[w.vm][Op[w.vm].value],
                      !.logs = Append(w.logs, Op[w.vm].value)]
    BY <1>1, <1>4 DEF ChainStep
  <2> QED BY <1>1, <1>4, <2>1 DEF Machines
<1> QED BY <1>1, <1>2, <1>3, <1>4 DEF ChainStep

\* A machine is known by its parts.
LEMMA SameMachines ==
  ASSUME NEW u \in Machines, NEW t, u.vm = t.vm, u.written = t.written, u.logs = t.logs
  PROVE  MachineOf(t) = u
BY DEF Machines, MachineOf

-----------------------------------------------------------------------------
(* Each step of a covered execution is the step on the chain.              *)

\* A running snapshot performs the operation of the machine it matches.
LEMMA RunningStep ==
  ASSUME TypeOK, NEW s, NEW t, Placed(s), AllCovered(t), SameCase(s, t),
         NEW v, v = EntryOf(s.case, s.mode), InRun(s, v), s.phase = "running",
         ReadStep(s, t) \/ WriteStep(s, t) \/ LogStep(s, t)
  PROVE  InRun(t, v)
<1> DEFINE op == Op[s.vm]
           r == ChainRun[v]
<1>1. IsChainRun(ChainRun[v], v)
  BY EntryEntered DEF Placed
<1>2. PICK i \in DOMAIN r : MachineOf(s) = r[i] /\ TouchedBefore(s.case, v, i) \subseteq s.reads
  BY DEF InRun
<1>3. r[i].vm = s.vm
  BY <1>2 DEF MachineOf
<1>4. op.kind # "halt" /\ s.reads \subseteq t.reads /\ t.case = s.case
  BY DEF ReadStep, WriteStep, LogStep, SameCase
<1>5. /\ i + 1 \in DOMAIN r /\ ChainStep(MachineOf(s), r[i + 1])
      /\ MachineOf(s) \in Machines /\ r[i + 1] \in Machines
  BY <1>1, <1>2, <1>3, <1>4, RunMoves
<1>6. op \in Ops
  BY ReplayAssumption DEF Placed
<1>7. ASSUME op.kind \in {"read", "write"}
      PROVE  /\ op.at \in Locations
             /\ Loads(s, op.at) \subseteq t.reads /\ Loads(s, op.at) = TouchedAt(r[i])
             /\ Current(s, op.at) = Held(s.written, op.at)
  <2>1. op.at \in Locations
    BY <1>6, <1>7 DEF Ops, Locations
  <2>2. Loads(s, op.at) \subseteq t.reads
    BY <1>7 DEF ReadStep, WriteStep, LogStep
  <2>3. Loads(s, op.at) = Touches(op.at) /\ Current(s, op.at) = Held(s.written, op.at)
    BY <2>1, <2>2, Looks DEF AllCovered
  <2> QED BY <1>3, <1>7, <2>1, <2>2, <2>3 DEF TouchedAt
<1>8. TouchedBefore(t.case, v, i + 1) \subseteq t.reads
  <2>1. TouchedAt(r[i]) \subseteq t.reads
    BY <1>3, <1>7 DEF TouchedAt
  <2> PICK c : c = s.case /\ c = t.case
    BY <1>4
  <2>2. TouchedBefore(c, v, i) \subseteq t.reads
    BY <1>2, <1>4
  <2>3. TouchedBefore(c, v, i + 1) \subseteq TouchedBefore(c, v, i) \cup TouchedAt(r[i])
    BY <1>1, TouchedMore
  <2>4. TouchedBefore(c, v, i + 1) \subseteq t.reads
    BY <2>1, <2>2, <2>3, Zenon
  <2> QED BY <2>4
<1>9. MachineOf(t) = r[i + 1]
  <2> PICK u \in Machines : u = r[i + 1]
    BY <1>5
  <2>1. ChainStep(MachineOf(s), u)
    BY <1>5
  <2>2. CASE op.kind = "read"
    <3>1. /\ t.vm = After[s.vm][Held(s.written, op.at)] /\ t.written = s.written /\ t.logs = s.logs
      BY <1>7, <2>2 DEF ReadStep, WriteStep, LogStep
    <3>2. u.vm = t.vm /\ u.written = t.written /\ u.logs = t.logs
      BY <1>5, <2>1, <2>2, <3>1, ChainMoves
    <3> QED BY <3>2, SameMachines
  <2>3. CASE op.kind = "write"
    <3>1. /\ t.vm = After[s.vm][op.value] /\ t.written = [s.written EXCEPT ![op.at] = op.value]
          /\ t.logs = s.logs
      BY <2>3 DEF ReadStep, WriteStep, LogStep
    <3>2. u.vm = t.vm /\ u.written = t.written /\ u.logs = t.logs
      BY <1>5, <2>1, <2>3, <3>1, ChainMoves
    <3> QED BY <3>2, SameMachines
  <2>4. CASE op.kind = "log"
    <3>1. /\ t.vm = After[s.vm][op.value] /\ t.written = s.written
          /\ t.logs = Append(s.logs, op.value)
      BY <2>4 DEF ReadStep, WriteStep, LogStep
    <3>2. u.vm = t.vm /\ u.written = t.written /\ u.logs = t.logs
      BY <1>5, <2>1, <2>4, <3>1, ChainMoves
    <3> QED BY <3>2, SameMachines
  <2> QED BY <2>2, <2>3, <2>4 DEF ReadStep, WriteStep, LogStep
<1> QED BY <1>5, <1>8, <1>9 DEF InRun

LEMMA HaltingStep ==
  ASSUME TypeOK, NEW s, NEW t, Placed(s), SameCase(s, t),
         NEW v, v = EntryOf(s.case, s.mode), InRun(s, v), HaltStep(s, t)
  PROVE  AtEnd(t, v)
<1> DEFINE op == Op[s.vm]
           r == ChainRun[v]
<1>1. IsChainRun(ChainRun[v], v)
  BY EntryEntered DEF Placed
<1>2. PICK i \in DOMAIN r : MachineOf(s) = r[i] /\ TouchedBefore(s.case, v, i) \subseteq s.reads
  BY DEF InRun
<1>3. r[i].vm = s.vm
  BY <1>2 DEF MachineOf
<1>4. op.kind = "halt" /\ t.vm = s.vm /\ t.reads = s.reads /\ t.case = s.case
  BY DEF HaltStep, SameCase
<1>5. i = Len(r) /\ Last(v) = MachineOf(s)
  BY <1>1, <1>2, <1>3, <1>4, RunMoves DEF Last
<1>6. TouchedAt(r[i]) = {}
  BY <1>3, <1>4 DEF TouchedAt
<1>7. Touched(t.case, v) \subseteq t.reads
  BY <1>1, <1>2, <1>4, <1>5, <1>6, TouchedMore
<1>8. Last(v).vm = s.vm
  BY <1>5 DEF MachineOf
<1>9. MachineOf(t) = End(v)
  <2>1. CASE op.status = "success"
    BY <1>4, <1>5, <1>8, <2>1 DEF HaltStep, End, MachineOf
  <2>2. CASE op.status # "success"
    <3>1. t.written = Unwritten /\ t.logs = << >>
      BY <2>2 DEF HaltStep, Unwritten
    <3>2. End(v) = [MachineOf(s) EXCEPT !.written = Unwritten, !.logs = << >>]
      BY <1>5, <1>8, <2>2 DEF End
    <3> QED BY <1>4, <3>1, <3>2 DEF MachineOf
  <2> QED BY <2>1, <2>2
<1> QED BY <1>7, <1>9 DEF AtEnd

LEMMA SameResults ==
  ASSUME NEW s, NEW t, SameCase(s, t), SameMachine(s, t)
  PROVE  /\ Expected(t) = Expected(s) /\ ReplayResult(t) = ReplayResult(s)
         /\ Mismatches(t) = Mismatches(s) /\ MachineOf(t) = MachineOf(s)
<1>1. Expected(t) = Expected(s) /\ ReplayResult(t) = ReplayResult(s)
  BY DEF SameCase, SameMachine, Expected, ReplayResult
<1>2. Mismatches(t) = Mismatches(s)
  BY <1>1 DEF Mismatches
<1> QED BY <1>1, <1>2 DEF SameMachine, MachineOf

LEMMA ExpectedType ==
  ASSUME TypeOK, NEW s, Placed(s)
  PROVE  Expected(s).state \in Seq(Entries) /\ Len(Expected(s).state) \in Nat
<1>1. fixture.expected[s.case] \in Expectations
  BY ReplayAssumption DEF TypeOK, Suites, Placed
<1> QED BY <1>1 DEF Expected, Expectations

LEMMA ComparingStep ==
  ASSUME TypeOK, NEW s, NEW t, Placed(s), SameCase(s, t),
         NEW v, AtEnd(s, v), CompareStep(s, t)
  PROVE  AtEnd(t, v) /\ Judged(t, Expected(t).state, 0)
<1>1. /\ t.reads = s.reads /\ t.case = s.case /\ SameMachine(s, t)
      /\ t.failures = Mismatches(s) /\ t.todo = Expected(s).state
  BY DEF CompareStep, SameCase
<1>2. /\ Expected(t) = Expected(s) /\ Mismatches(t) = Mismatches(s)
      /\ MachineOf(t) = MachineOf(s)
  BY <1>1, SameResults
<1>3. Expected(s).state \in Seq(Entries) /\ Len(Expected(s).state) \in Nat
  BY ExpectedType
<1>4. AtEnd(t, v)
  BY <1>1, <1>2 DEF AtEnd
<1> PICK state \in Seq(Entries) : state = Expected(s).state
  BY <1>3
<1>5. /\ Len(t.todo) = Len(state) - 0
      /\ \A j \in 1 .. Len(t.todo) : t.todo[j] = state[0 + j]
      /\ \A j : j \notin 1 .. 0
  BY <1>1, <1>3
<1>6. t.failures = Mismatches(t) \cup {f \in {"state"} : \E j \in 1 .. 0 : ~TrueOf(state[j], t.written)}
  BY <1>1, <1>2, <1>5
<1>7. Judged(t, state, 0)
  BY <1>5, <1>6 DEF Judged
<1> QED BY <1>2, <1>4, <1>7

LEMMA CheckingStep ==
  ASSUME TypeOK, NEW s, NEW t, Placed(s), SameCase(s, t), AllCovered(t),
         NEW v, AtEnd(s, v), CheckStep(s, t), s.todo \in Seq(Entries),
         NEW k \in 0 .. Len(Expected(s).state), Judged(s, Expected(s).state, k)
  PROVE  /\ AtEnd(t, v) /\ k + 1 \in 0 .. Len(Expected(t).state)
         /\ Judged(t, Expected(t).state, k + 1)
<1>1. /\ SameMachine(s, t) /\ t.case = s.case /\ s.todo # << >> /\ t.todo = Tail(s.todo)
      /\ t.reads = s.reads \cup EntryReads(s, Head(s.todo))
      /\ t.failures = s.failures \cup {f \in {"state"} : ~EntryHolds(s, Head(s.todo))}
  BY DEF CheckStep, SameCase
<1>2. /\ Expected(t) = Expected(s) /\ Mismatches(t) = Mismatches(s)
      /\ MachineOf(t) = MachineOf(s) /\ t.written = s.written
  BY <1>1, SameResults DEF SameMachine
<1>3. Expected(s).state \in Seq(Entries) /\ Len(Expected(s).state) \in Nat
  BY ExpectedType
<1>4. AtEnd(t, v)
  BY <1>1, <1>2 DEF AtEnd
<1> PICK state \in Seq(Entries) : state = Expected(s).state
  BY <1>3
<1> PICK todo \in Seq(Entries) : todo = s.todo
  OBVIOUS
<1>5. /\ k \in 0 .. Len(state) /\ Len(state) \in Nat /\ Len(todo) = Len(state) - k
      /\ \A j \in 1 .. Len(todo) : todo[j] = state[k + j]
      /\ \A j \in 1 .. k : TrueOf(state[j], s.written) => CheckTouches(state[j]) \subseteq s.reads
      /\ s.failures = Mismatches(s)
           \cup {f \in {"state"} : \E j \in 1 .. k : ~TrueOf(state[j], s.written)}
  BY <1>3 DEF Judged
<1>6. /\ k + 1 \in 1 .. Len(state) /\ Head(todo) = state[k + 1]
      /\ t.todo \in Seq(Entries) /\ Len(t.todo) = Len(state) - (k + 1)
      /\ \A j \in 1 .. Len(t.todo) : t.todo[j] = state[(k + 1) + j]
  <2>1. Len(todo) \in Nat \ {0} /\ Head(todo) = todo[1]
    BY <1>1
  <2>2. k + 1 \in 1 .. Len(state) /\ Head(todo) = state[k + 1]
    BY <1>5, <2>1
  <2>3. /\ t.todo \in Seq(Entries) /\ Len(t.todo) = Len(todo) - 1
        /\ \A j \in 1 .. Len(t.todo) : t.todo[j] = todo[j + 1]
    BY <1>1, <2>1
  <2>4. Len(t.todo) = Len(state) - (k + 1)
    BY <1>5, <2>1, <2>3
  <2>5. ASSUME NEW j \in 1 .. Len(t.todo) PROVE t.todo[j] = state[(k + 1) + j]
    <3>1. j + 1 \in 1 .. Len(todo) /\ k + (j + 1) = (k + 1) + j
      <4>1. /\ j \in Nat /\ k \in Nat /\ Len(todo) \in Nat /\ Len(t.todo) = Len(todo) - 1
            /\ 1 <= j /\ j <= Len(t.todo)
        BY <1>5, <2>1, <2>3
      <4> QED BY <4>1
    <3>2. todo[j + 1] = state[k + (j + 1)]
      BY <1>5, <3>1
    <3> QED BY <2>3, <3>1, <3>2
  <2> QED BY <2>2, <2>3, <2>4, <2>5
<1> PICK x \in Entries : x = state[k + 1] /\ x = Head(s.todo)
  BY <1>6
<1>7. \A l \in EntryReads(s, x) : ~Uncaptured(l)
  BY <1>1 DEF AllCovered
<1>8. /\ EntryHolds(s, x) <=> TrueOf(x, s.written)
      /\ TrueOf(x, s.written) => CheckTouches(x) \subseteq EntryReads(s, x)
  BY <1>7, EntryLooks
<1>9. \A j : j \in 1 .. k + 1 <=> j \in 1 .. k \/ j = k + 1
  BY <1>5
<1>10. \A j \in 1 .. k + 1 : TrueOf(state[j], t.written) => CheckTouches(state[j]) \subseteq t.reads
  BY <1>1, <1>2, <1>5, <1>8, <1>9
<1>11. t.failures = Mismatches(t)
         \cup {f \in {"state"} : \E j \in 1 .. k + 1 : ~TrueOf(state[j], t.written)}
  <2>1. (\E j \in 1 .. k + 1 : ~TrueOf(state[j], t.written))
          <=> (\E j \in 1 .. k : ~TrueOf(state[j], s.written)) \/ ~EntryHolds(s, x)
    BY <1>2, <1>8, <1>9
  <2> QED BY <1>1, <1>2, <1>5, <2>1
<1>12. Judged(t, state, k + 1)
  BY <1>6, <1>10, <1>11 DEF Judged
<1> QED BY <1>2, <1>4, <1>6, <1>12

\* While its reads are covered, an execution stays with the run on the chain.
LEMMA StaysOnChain ==
  ASSUME TypeOK, NEW s, NEW t, Placed(s), s.todo \in Seq(Entries), Follows(s, t),
         AllCovered(s) => Matches(s), AllCovered(t)
  PROVE  Matches(t)
<1> PICK v : v = EntryOf(s.case, s.mode)
  OBVIOUS
<1>1. SameCase(s, t) /\ v = EntryOf(t.case, t.mode)
  BY DEF Follows, SameCase
<1>2. Matches(s)
  BY StepKeeps DEF AllCovered
<1>3. CASE ReadStep(s, t) \/ WriteStep(s, t) \/ LogStep(s, t)
  <2>1. s.phase = "running" /\ t.phase = "running"
    BY <1>3 DEF ReadStep, WriteStep, LogStep
  <2>2. InRun(t, v)
    BY <1>1, <1>2, <1>3, <2>1, RunningStep DEF Matches
  <2> QED BY <1>1, <2>1, <2>2 DEF Matches
<1>4. CASE HaltStep(s, t)
  <2>1. s.phase = "running" /\ t.phase = "executed"
    BY <1>4 DEF HaltStep
  <2>2. AtEnd(t, v)
    BY <1>1, <1>2, <1>4, <2>1, HaltingStep DEF Matches
  <2> QED BY <1>1, <2>1, <2>2 DEF Matches
<1>5. CASE CompareStep(s, t)
  <2>1. s.phase = "executed" /\ t.phase = "checking"
    BY <1>5 DEF CompareStep
  <2>2. AtEnd(t, v) /\ Judged(t, Expected(t).state, 0)
    BY <1>1, <1>2, <1>5, <2>1, ComparingStep DEF Matches
  <2>3. Expected(t) = Expected(s)
    BY <1>1 DEF SameCase, Expected
  <2>4. 0 \in 0 .. Len(Expected(t).state)
    BY <2>3, ExpectedType
  <2> QED BY <1>1, <2>1, <2>2, <2>4 DEF Matches
<1>6. CASE CheckStep(s, t)
  <2>1. s.phase = "checking" /\ t.phase = "checking"
    BY <1>6 DEF CheckStep
  <2>2. PICK k \in 0 .. Len(Expected(s).state) : Judged(s, Expected(s).state, k)
    BY <1>2, <2>1 DEF Matches
  <2>3. AtEnd(s, v)
    BY <1>2, <2>1 DEF Matches
  <2>4. /\ AtEnd(t, v) /\ k + 1 \in 0 .. Len(Expected(t).state)
        /\ Judged(t, Expected(t).state, k + 1)
    BY <1>1, <1>6, <2>2, <2>3, CheckingStep
  <2> QED BY <1>1, <2>1, <2>4 DEF Matches
<1> QED BY <1>3, <1>4, <1>5, <1>6 DEF Follows

\* What an honest suite's execution reads next is covered.
LEMMA HonestReads ==
  ASSUME TypeOK, Honest, NEW s, NEW t, Placed(s), s.todo \in Seq(Entries), Follows(s, t),
         Matches(s), AllCovered(s)
  PROVE  AllCovered(t)
<1> PICK v : v = EntryOf(s.case, s.mode)
  OBVIOUS
<1>1. /\ IsChainRun(ChainRun[v], v) /\ Describes(s.case, v) /\ s.case \in Cases
      /\ Op[s.vm] \in Ops
  BY EntryEntered, ReplayAssumption DEF Placed, Honest, EntryOf
<1>2. CASE ReadStep(s, t) \/ WriteStep(s, t)
  <2> DEFINE op == Op[s.vm]
  <2>1. op.kind \in {"read", "write"} /\ t.reads = s.reads \cup Loads(s, op.at) /\ InRun(s, v)
    BY <1>2 DEF ReadStep, WriteStep, Matches
  <2>2. op.at \in Locations
    BY <1>1, <2>1 DEF Ops, Locations
  <2>3. PICK i \in DOMAIN ChainRun[v] : MachineOf(s) = ChainRun[v][i]
    BY <2>1 DEF InRun
  <2>4. ChainRun[v][i].vm = s.vm
    BY <2>3 DEF MachineOf
  <2>5. Touches(op.at) \subseteq Touched(s.case, v)
    BY <2>1, <2>4 DEF Touched, TouchedAt
  <2>6. Touches(op.at) \subseteq Locations
    BY <2>2, ReplayAssumption DEF Touches, Locations, Stored
  <2>7. \A l \in Touches(op.at) : ~Uncaptured(l)
    BY <1>1, <2>5, <2>6, CoveredMeans DEF Describes
  <2>8. Loads(s, op.at) = Touches(op.at)
    BY <2>2, <2>7, Looks
  <2> QED BY <2>1, <2>7, <2>8 DEF AllCovered
<1>3. CASE LogStep(s, t) \/ HaltStep(s, t) \/ CompareStep(s, t)
  BY <1>3 DEF LogStep, HaltStep, CompareStep, AllCovered
<1>4. CASE CheckStep(s, t)
  <2>1. /\ s.todo # << >> /\ s.phase = "checking"
        /\ t.reads = s.reads \cup EntryReads(s, Head(s.todo))
    BY <1>4 DEF CheckStep
  <2> PICK state \in Seq(Entries) : state = Expected(s).state
    BY ExpectedType
  <2>2. PICK k \in 0 .. Len(state) : Judged(s, state, k)
    BY <2>1 DEF Matches
  <2> PICK todo \in Seq(Entries) : todo = s.todo
    OBVIOUS
  <2>3. /\ Len(todo) = Len(state) - k /\ Len(todo) \in Nat \ {0} /\ Head(todo) = todo[1]
        /\ \A j \in 1 .. Len(todo) : todo[j] = state[k + j]
    BY <2>1, <2>2 DEF Judged
  <2>4. k + 1 \in DOMAIN state /\ Head(todo) = state[k + 1]
    BY <2>3
  <2> PICK x \in Entries : x = state[k + 1] /\ x = Head(s.todo)
    BY <2>4
  <2>5. \A l \in CheckTouches(x) : Covered(l)
    BY <1>1, <2>4 DEF Describes, Expected
  <2>6. CheckTouches(x) \subseteq Locations
    BY ReplayAssumption DEF CheckTouches, Touches, Asserted, Entries, Locations, Stored
  <2>7. \A l \in CheckTouches(x) : ~Uncaptured(l)
    BY <2>5, <2>6, CoveredMeans
  <2>8. EntryReads(s, x) \subseteq CheckTouches(x)
    BY <2>7, EntryLooks
  <2> QED BY <2>1, <2>7, <2>8 DEF AllCovered
<1> QED BY <1>2, <1>3, <1>4 DEF Follows

-----------------------------------------------------------------------------
(* The verifier's steps.                                                   *)

\* All this is about the suite and the compiled code, which no step changes.
LEMMA SuiteStays ==
  ASSUME UNCHANGED <<fixture, requestedEnv, native>>
  PROVE  /\ \A s : Matches(s) => Matches(s)'
         /\ \A s : AllCovered(s)' <=> AllCovered(s)
         /\ \A c, m : EntryOf(c, m)' = EntryOf(c, m)
         /\ \A c, v : Describes(c, v) => Describes(c, v)'
         /\ Honest' => Honest
         /\ Supported => Supported'
<1>1. \A c, m : EntryOf(c, m)' = EntryOf(c, m)
  BY DEF EntryOf
<1>2. \A s : Expected(s)' = Expected(s) /\ Mismatches(s)' = Mismatches(s)
  BY DEF Expected, Mismatches, ReplayResult
<1>3. ASSUME NEW s, Matches(s) PROVE Matches(s)'
  <2>1. \A state, k : Judged(s, state, k)' <=> Judged(s, state, k)
    BY <1>2 DEF Judged
  <2> QED BY <1>1, <1>2, <1>3, <2>1 DEF Matches
<1>4. \A s : AllCovered(s)' <=> AllCovered(s)
  BY DEF AllCovered, Uncaptured, UncapturedAccount, UncapturedSlot, UncapturedHash
<1>5. \A c, v : Describes(c, v)' <=> Describes(c, v)
  BY DEF Describes, Covered
<1>6. Honest' => Honest
  BY <1>5 DEF Honest
<1>7. Supported => Supported'
  BY DEF Supported, SelectedEnv
<1> QED BY <1>1, <1>3, <1>4, <1>5, <1>6, <1>7

LEMMA SnapshotPlaced ==
  ASSUME TypeOK, SameBase, InExecution, NEW s, s = Snapshot
  PROVE  Placed(s) /\ s.todo \in Seq(Entries) /\ s.reads \in SUBSET Locations
<1>1. /\ iteration \in Iterations
      /\ s.case = iteration.case /\ s.mode = iteration.mode /\ s.vm = iteration.vm
      /\ s.written = iteration.written /\ s.reads = iteration.reads /\ s.todo = iteration.todo
  BY DEF TypeOK, Snapshot
<1>2. base[iteration.mode] = BuildBaseState
  BY <1>1 DEF SameBase, InExecution, Iterations
<1> QED BY <1>1, <1>2 DEF Placed, Iterations

\* An execution starts on the chain's run, and an honest suite covers its start.
LEMMA StartsOnChain ==
  ASSUME TypeOK, NEW c \in Cases, NEW m \in Modes, base[m] = BuildBaseState
  PROVE  /\ AllCovered(Start(c, m)) => Matches(Start(c, m))
         /\ Honest => AllCovered(Start(c, m))
<1> PICK v : v = EntryOf(c, m)
  OBVIOUS
<1> PICK s : s = Start(c, m)
  OBVIOUS
<1> DEFINE a == Message[c].recipient
<1>1. Message[c] \in Messages /\ a \in Accounts /\ a \in Locations /\ a \in Stored
  BY ReplayAssumption DEF Messages, Locations, Stored
<1>2. /\ s.case = c /\ s.mode = m /\ s.vm = v /\ s.written = Unwritten /\ s.logs = << >>
      /\ s.reads = Prelude(c, m) /\ s.phase = "running"
  BY DEF Start, EntryOf, Unwritten
<1>3. a \in Prelude(c, m) /\ a \in Warmed(c)
  BY DEF Prelude, Warmed
<1>4. ~Uncaptured(a) => Prelude(c, m) = Warmed(c)
  <2>1. ~Uncaptured(a) => base[m][a] = Chain[a]
    BY <1>1, CoveredValues
  <2> QED BY <2>1 DEF Prelude, Warmed
<1>5. ASSUME AllCovered(s) PROVE Matches(s)
  <2>1. Warmed(c) \subseteq s.reads
    BY <1>2, <1>3, <1>4, <1>5 DEF AllCovered
  <2>2. /\ ChainRun[v] \in Seq(Machines) /\ ChainRun[v] # << >>
        /\ ChainRun[v][1] = [vm |-> v, written |-> Unwritten, logs |-> << >>]
    BY EntryEntered DEF IsChainRun
  <2>3. 1 \in DOMAIN ChainRun[v]
    <3> PICK r \in Seq(Machines) : r = ChainRun[v]
      BY <2>2
    <3>1. Len(r) \in Nat \ {0} /\ DOMAIN r = 1 .. Len(r)
      BY <2>2
    <3> QED BY <3>1
  <2>4. MachineOf(s) = ChainRun[v][1]
    BY <1>2, <2>2 DEF MachineOf
  <2>5. TouchedBefore(c, v, 1) \subseteq s.reads
    <3>1. \A j : j \notin 1 .. 1 - 1
      OBVIOUS
    <3> QED BY <2>1, <3>1 DEF TouchedBefore
  <2>6. InRun(s, v)
    BY <1>2, <2>3, <2>4, <2>5 DEF InRun
  <2> QED BY <1>2, <2>6 DEF Matches
<1>6. ASSUME Honest PROVE AllCovered(s)
  <2>1. \A l \in Warmed(c) : Covered(l)
    BY <1>6 DEF Honest, Describes, Touched
  <2>2. Warmed(c) \subseteq Locations
    <3>1. Delegate[Chain[a]] \in Optional(Accounts)
      BY <1>1, ReplayAssumption, ChainAssumption
    <3> QED BY <1>1, <3>1, ReplayAssumption DEF Warmed, Messages, Optional, Locations, Stored
  <2>3. \A l \in Warmed(c) : ~Uncaptured(l)
    BY <2>1, <2>2, CoveredMeans
  <2> QED BY <1>2, <1>3, <1>4, <2>3 DEF AllCovered
<1> QED BY <1>5, <1>6

LEMMA ResultAtEnd ==
  ASSUME NEW s, NEW v, AtEnd(s, v)
  PROVE  /\ ReplayResult(s) = Result(s.case, v)
         /\ s.written = End(v).written /\ Touched(s.case, v) \subseteq s.reads
<1>1. s.vm = End(v).vm /\ s.written = End(v).written /\ s.logs = End(v).logs
  BY DEF AtEnd, MachineOf
<1>2. ReplayResult(s) = Result(s.case, v)
  BY <1>1 DEF ReplayResult, Result
<1> QED BY <1>1, <1>2 DEF AtEnd

\* The verdict on a covered execution is the one the chain gives.
LEMMA FinallyJudged ==
  ASSUME TypeOK, NEW s, Placed(s), Matches(s), Final(s),
         NEW v, v = EntryOf(s.case, s.mode), NEW state, state = Expected(s).state
  PROVE  /\ AtEnd(s, v)
         /\ \A j \in DOMAIN state :
              TrueOf(state[j], End(v).written) => CheckTouches(state[j]) \subseteq s.reads
         /\ s.failures = {} <=> /\ Mismatches(s) = {}
                                /\ \A j \in DOMAIN state : TrueOf(state[j], End(v).written)
<1>1. state \in Seq(Entries) /\ Len(state) \in Nat /\ DOMAIN state = 1 .. Len(state)
  BY ExpectedType
<1>2. AtEnd(s, v) /\ s.written = End(v).written
  BY ResultAtEnd DEF Matches, Final
<1>3. PICK k \in 0 .. Len(state) : Judged(s, state, k)
  BY DEF Matches, Final
<1>4. k = Len(state) /\ DOMAIN state = 1 .. k
  BY <1>1, <1>3 DEF Judged, Final
<1>5. /\ \A j \in 1 .. k : TrueOf(state[j], s.written) => CheckTouches(state[j]) \subseteq s.reads
      /\ s.failures = Mismatches(s)
           \cup {f \in {"state"} : \E j \in 1 .. k : ~TrueOf(state[j], s.written)}
  BY <1>3 DEF Judged
<1>6. s.failures = {} <=> /\ Mismatches(s) = {}
                          /\ \A j \in 1 .. k : TrueOf(state[j], s.written)
  BY <1>5
<1> QED BY <1>2, <1>4, <1>5, <1>6

\* An execution the verifier accepts ends as the suite says, on the chain too.
LEMMA AcceptedAsDescribed ==
  ASSUME TypeOK, IInv, RInv, HInv, Checked, iteration.validating, Accepts(iteration),
         NEW c \in Cases, NEW m \in Modes, c = iteration.case, m = iteration.mode,
         NEW v, v = EntryOf(c, m)
  PROVE  Describes(c, v) /\ ReplayResult(iteration) = Result(c, v)
<1> PICK s : s = Snapshot
  OBVIOUS
<1>1. /\ s.case = c /\ s.mode = m /\ s.reads = iteration.reads
      /\ s.failures = {} /\ Final(s) /\ Verifying /\ InExecution
  BY DEF Snapshot, Final, Checked, Verifying, InExecution, Accepts
<1>2. Placed(s) /\ s.reads \in SUBSET Locations
  BY <1>1, SnapshotPlaced DEF RInv
<1>3. AllCovered(s)
  BY <1>1 DEF AllCovered, IInv, MissingRecorded, Accepts
<1>4. Matches(s)
  BY <1>1, <1>3 DEF HInv, AsOnChain
<1> PICK state : state = Expected(s).state
  OBVIOUS
<1>5. /\ AtEnd(s, v) /\ Mismatches(s) = {}
      /\ \A j \in DOMAIN state : /\ TrueOf(state[j], End(v).written)
                                 /\ CheckTouches(state[j]) \subseteq s.reads
  BY <1>1, <1>2, <1>4, FinallyJudged
<1>6. /\ ReplayResult(iteration) = ReplayResult(s) /\ ReplayResult(s) = Result(c, v)
      /\ Touched(c, v) \subseteq s.reads
  BY <1>1, <1>5, ResultAtEnd, SnapshotLooks
<1>7. Result(c, v).gasUsed \in 0 .. Message[c].gas
  BY <1>6 DEF TypeOK, Checked
<1> PICK e : e = fixture.expected[c]
  OBVIOUS
<1> PICK r : r = Result(c, v)
  OBVIOUS
<1>8. /\ e.status = r.status /\ e.output = r.output /\ e.gasUsed = r.gasUsed
      /\ e.logs \in {NoValue, r.logs} /\ state = e.state
  BY <1>1, <1>5, <1>6 DEF Mismatches, Expected
<1>9. \A l \in s.reads : Covered(l)
  BY <1>2, <1>3, CoveredMeans DEF AllCovered
<1>10. Describes(c, v)
  BY <1>5, <1>6, <1>7, <1>8, <1>9 DEF Describes
<1> QED BY <1>6, <1>10

\* A result that an honest suite describes makes sense.
LEMMA HonestResult ==
  ASSUME TypeOK, Honest, NEW s, Placed(s), NEW v, v = EntryOf(s.case, s.mode), AtEnd(s, v),
         Op[s.vm].kind = "halt"
  PROVE  Describes(s.case, v) /\ ~Malformed(s) /\ Mismatches(s) = {}
<1> PICK r : r = ReplayResult(s)
  OBVIOUS
<1> PICK e : e = fixture.expected[s.case]
  OBVIOUS
<1>1. Describes(s.case, v) /\ s.case \in Cases
  BY DEF Honest, EntryOf, Placed
<1>2. /\ r.gasUsed \in 0 .. Message[s.case].gas /\ e.status = r.status /\ e.output = r.output
      /\ e.gasUsed = r.gasUsed /\ e.logs \in {NoValue, r.logs}
  BY <1>1, ResultAtEnd DEF Describes
<1>3. e.output \in Values
  <2>1. e \in Expectations
    BY <1>1, ReplayAssumption DEF TypeOK, Suites
  <2> QED BY <2>1 DEF Expectations
<1>4. /\ Op[s.vm].gasLeft \in Int /\ Message[s.case].gas \in Nat
      /\ r.gasUsed = Message[s.case].gas - Op[s.vm].gasLeft /\ r.output = Op[s.vm].output
  <2>1. Op[s.vm] \in Ops /\ Message[s.case] \in Messages
    BY <1>1, ReplayAssumption DEF Placed
  <2>2. Op[s.vm].gasLeft \in Int
    BY <2>1 DEF Ops
  <2>3. r.gasUsed = Message[s.case].gas - Op[s.vm].gasLeft /\ r.output = Op[s.vm].output
    BY DEF ReplayResult
  <2> QED BY <2>1, <2>2, <2>3 DEF Messages
<1>5. Op[s.vm].output # NullOutput
  BY <1>2, <1>3, <1>4, ReplayAssumption
<1>6. ~(Op[s.vm].gasLeft < 0) /\ ~(Op[s.vm].gasLeft > Message[s.case].gas)
  BY <1>2, <1>4
<1>7. ~Malformed(s)
  BY <1>5, <1>6 DEF Malformed
<1>8. Mismatches(s) = {}
  BY <1>2 DEF Mismatches, Expected
<1> QED BY <1>1, <1>7, <1>8

\* An honest suite gets through the checks of each of its executions.
LEMMA HonestAccepted ==
  ASSUME TypeOK, RInv, HInv, Honest, Checked, iteration.validating
  PROVE  Accepts(iteration)
<1> PICK s : s = Snapshot
  OBVIOUS
<1> PICK v : v = EntryOf(s.case, s.mode)
  OBVIOUS
<1>1. /\ s.case = iteration.case /\ s.vm = iteration.vm /\ s.reads = iteration.reads
      /\ s.failures = iteration.failures /\ Final(s) /\ Verifying /\ InExecution
  BY DEF Snapshot, Final, Checked, Verifying, InExecution
<1>2. Placed(s)
  BY <1>1, SnapshotPlaced DEF RInv
<1>3. AllCovered(s) /\ Matches(s)
  BY <1>1 DEF HInv, HonestCovered, AsOnChain
<1> PICK state : state = Expected(s).state
  OBVIOUS
<1>4. /\ AtEnd(s, v)
      /\ s.failures = {} <=> /\ Mismatches(s) = {}
                             /\ \A j \in DOMAIN state : TrueOf(state[j], End(v).written)
  BY <1>1, <1>2, <1>3, FinallyJudged
<1>5. Op[s.vm].kind = "halt"
  BY <1>1 DEF TypeOK, Checked
<1>6. Describes(s.case, v) /\ Mismatches(s) = {}
  BY <1>2, <1>4, <1>5, HonestResult
<1>7. \A j \in DOMAIN state : TrueOf(state[j], End(v).written)
  BY <1>6 DEF Describes, Expected
<1>8. iteration.missing = {}
  BY <1>1, <1>3 DEF AllCovered, RInv, MissingUncaptured
<1> QED BY <1>1, <1>4, <1>6, <1>7, <1>8 DEF Accepts

\* Between executions, or when one is turned down.
LEMMA ChainRests ==
  ASSUME HInv, UNCHANGED <<fixture, requestedEnv, native>>, AcceptedDescribed',
         Verifying' => UNCHANGED <<iteration, phase>>,
         phase \in {"start", "rejected"} /\ phase' \notin {"start", "rejected"} => Supported,
         phase' = "rejected" => ~Honest
  PROVE  HInv'
<1>1. EnvironmentSupported'
  BY SuiteStays DEF HInv, EnvironmentSupported
<1>2. HonestSuitesPass'
  BY SuiteStays DEF HonestSuitesPass
<1>3. AsOnChain' /\ HonestCovered'
  <2> SUFFICES ASSUME Verifying' PROVE AsOnChain' /\ HonestCovered'
    BY DEF AsOnChain, HonestCovered
  <2> PICK s : s = Snapshot
    OBVIOUS
  <2>1. Verifying /\ Snapshot' = s
    BY DEF Verifying, Snapshot
  <2>2. /\ AllCovered(s) => Matches(s)
        /\ Honest => AllCovered(s)
    BY <2>1 DEF HInv, AsOnChain, HonestCovered
  <2>3. /\ AllCovered(s)' => Matches(s)'
        /\ Honest' => AllCovered(s)'
    BY <2>2, SuiteStays
  <2> QED BY <2>1, <2>3 DEF AsOnChain, HonestCovered
<1> QED BY <1>1, <1>2, <1>3 DEF HInv

\* Beginning a verifying execution.
LEMMA ChainBegins ==
  ASSUME TypeOK, SameBase, phase \notin {"start", "rejected"}, EnvironmentSupported,
         AcceptedDescribed', UNCHANGED <<fixture, requestedEnv, native>>,
         NEW c \in Cases, NEW m \in Modes, Begin(c, m, TRUE)
  PROVE  HInv'
<1> PICK s : s = Start(c, m)
  OBVIOUS
<1>1. Snapshot' = s /\ phase' = "running"
  BY BeginsAtStart
<1>2. base[m] = BuildBaseState
  BY DEF SameBase
<1>3. /\ AllCovered(s) => Matches(s)
      /\ Honest => AllCovered(s)
  BY <1>2, StartsOnChain
<1>4. /\ AllCovered(s)' => Matches(s)'
      /\ Honest' => AllCovered(s)'
  BY <1>3, SuiteStays
<1>5. AsOnChain' /\ HonestCovered'
  BY <1>1, <1>4 DEF AsOnChain, HonestCovered
<1>6. EnvironmentSupported'
  BY SuiteStays DEF EnvironmentSupported
<1> QED BY <1>1, <1>5, <1>6 DEF HInv, HonestSuitesPass

\* A step inside an execution.
LEMMA InsideOnChain ==
  ASSUME TypeOK, IInv, RInv, HInv, Execute \/ Compare \/ VerifyExpectedState
  PROVE  HInv'
<1>1. /\ Inside /\ InExecution
      /\ phase' \in {"running", "executed", "checking", "rejected", "failed"}
  BY ExecutionStep DEF IInv, InExecution
<1>2. UNCHANGED <<fixture, requestedEnv, native, verified>>
  BY <1>1 DEF Inside, Execute, VmRead, VmWrite, VmLog, VmHalt, Compare, VerifyExpectedState, inputs
<1>3. AcceptedDescribed'
  BY <1>2, SuiteStays DEF HInv, AcceptedDescribed
<1>4. EnvironmentSupported'
  BY <1>1, <1>2, SuiteStays DEF HInv, EnvironmentSupported, InExecution
<1> PICK s : s = Snapshot
  OBVIOUS
<1> PICK t : t = Snapshot'
  OBVIOUS
<1>5. \/ Follows(s, t)
      \/ s.phase = "executed" /\ Malformed(s) /\ phase' = Failed /\ iteration' = iteration
  BY ExecutionFollows DEF RInv, MissingUncaptured
<1>6. /\ s.phase = phase /\ t.phase = phase' /\ s.vm = iteration.vm
      /\ s.case = iteration.case /\ s.mode = iteration.mode
      /\ iteration'.validating = iteration.validating
  BY <1>1, SnapshotFields DEF Inside
<1>7. Placed(s) /\ s.todo \in Seq(Entries)
  BY <1>1, SnapshotPlaced DEF RInv
<1>8. CASE Follows(s, t) /\ iteration.validating
  <2>1. Verifying /\ phase' # "rejected"
    BY <1>1, <1>6, <1>8
       DEF Verifying, InExecution, Follows, ReadStep, WriteStep, LogStep, HaltStep, CompareStep, CheckStep
  <2>2. /\ AllCovered(s) => Matches(s)
        /\ Honest => AllCovered(s)
    BY <2>1 DEF HInv, AsOnChain, HonestCovered
  <2>3. AllCovered(t) => Matches(t)
    BY <1>7, <1>8, <2>2, StaysOnChain
  <2>4. Honest => AllCovered(t)
    BY <1>7, <1>8, <2>2, HonestReads
  <2>5. /\ AllCovered(t)' => Matches(t)'
        /\ Honest' => AllCovered(t)'
    BY <1>2, <2>3, <2>4, SuiteStays
  <2>6. AsOnChain' /\ HonestCovered'
    BY <2>5 DEF AsOnChain, HonestCovered
  <2> QED BY <1>3, <1>4, <2>1, <2>6 DEF HInv, HonestSuitesPass
<1>9. CASE Malformed(s) /\ s.phase = "executed" /\ phase' = Failed /\ iteration.validating
  <2>1. Verifying /\ phase' = "rejected"
    BY <1>6, <1>9 DEF Verifying, Failed
  <2>2. ~Honest
    <3> SUFFICES ASSUME Honest PROVE FALSE
      OBVIOUS
    <3> PICK v : v = EntryOf(s.case, s.mode)
      OBVIOUS
    <3>1. AllCovered(s) /\ Matches(s)
      BY <2>1 DEF HInv, AsOnChain, HonestCovered
    <3>2. AtEnd(s, v) /\ Op[s.vm].kind = "halt"
      BY <1>6, <1>9, <3>1 DEF Matches, TypeOK
    <3> QED BY <1>7, <1>9, <3>2, HonestResult
  <2> QED BY <1>2, <1>3, <2>1, <2>2, ChainRests DEF Verifying
<1>10. CASE ~iteration.validating
  <2>1. phase' # "rejected" /\ ~Verifying'
    BY <1>1, <1>5, <1>6, <1>10
       DEF Verifying, Failed, Follows, ReadStep, WriteStep, LogStep, HaltStep, CompareStep, CheckStep
  <2> QED BY <1>3, <1>4, <2>1 DEF HInv, HonestSuitesPass, AsOnChain, HonestCovered
<1>11. iteration.validating \in BOOLEAN
  BY DEF TypeOK, Iterations
<1> QED BY <1>5, <1>8, <1>9, <1>10, <1>11

\* Accepting an execution.
LEMMA AcceptedOnChain ==
  ASSUME TypeOK, IInv, RInv, HInv, Checked, Accepts(iteration), iteration.validating, Record,
         UNCHANGED <<fixture, requestedEnv, native>>
  PROVE  AcceptedDescribed'
<1> PICK d \in Cases, n \in Modes : d = iteration.case /\ n = iteration.mode
  BY DEF TypeOK, Iterations
<1>1. /\ Describes(d, EntryOf(d, n))
      /\ verified'[d][n].result = Result(d, EntryOf(d, n))
  BY RecordStep, AcceptedAsDescribed
<1>2. ASSUME NEW c \in Cases, NEW m \in Modes, verified'[c][m] # NoValue
      PROVE  Describes(c, EntryOf(c, m)) /\ verified'[c][m].result = Result(c, EntryOf(c, m))
  <2>1. CASE c = d /\ m = n
    BY <1>1, <2>1
  <2>2. CASE <<c, m>> # <<d, n>>
    <3>1. verified'[c][m] = verified[c][m]
      BY <2>2, RecordStep
    <3> QED BY <1>2, <3>1 DEF HInv, AcceptedDescribed
  <2> QED BY <2>1, <2>2
<1>3. \A c, m : EntryOf(c, m)' = EntryOf(c, m)
  BY SuiteStays
<1>4. \A c \in Cases, m \in Modes : verified'[c][m] # NoValue =>
        Describes(c, EntryOf(c, m))' /\ verified'[c][m].result = Result(c, EntryOf(c, m)')
  <2> TAKE c \in Cases, m \in Modes
  <2> PICK v : v = EntryOf(c, m)
    OBVIOUS
  <2>1. verified'[c][m] # NoValue => Describes(c, v)' /\ verified'[c][m].result = Result(c, v)
    BY <1>2, SuiteStays
  <2> QED BY <1>3, <2>1
<1> QED BY <1>4 DEF AcceptedDescribed

\* The modes of an honest suite's cases do not differ.
LEMMA HonestAgree ==
  ASSUME TypeOK, IInv, RInv, HInv, Honest, Checked, Accepts(iteration), iteration.validating,
         iteration.mode = "dual-hot"
  PROVE  ModesAgree
<1> PICK c \in Cases : c = iteration.case
  BY DEF TypeOK, Iterations
<1>1. "interpreter-hot" \in Modes /\ "dual-hot" \in Modes
  BY DEF Modes
<1>2. EntryOf(c, "interpreter-hot") = InterpreterEntry[c] /\ EntryOf(c, "dual-hot") = native[c]
  BY DEF EntryOf
<1>3. ReplayResult(iteration) = Result(c, native[c])
  BY <1>1, <1>2, AcceptedAsDescribed
<1>4. /\ verified[c]["interpreter-hot"] # NoValue
      /\ verified[c]["interpreter-hot"].result = interpreter
  BY DEF IInv, InOrder, Verifying, Checked
<1>5. interpreter = Result(c, InterpreterEntry[c])
  BY <1>1, <1>2, <1>4 DEF HInv, AcceptedDescribed
<1> QED BY <1>3, <1>5 DEF Honest, ModesAgree

\* The inductive invariant: covered executions are on the chain's run, what was
\* accepted is described, and an honest suite misses nothing.
LEMMA ChainInvariant == Spec => []HInv
<1>1. Init => HInv
  <2> SUFFICES ASSUME Init PROVE HInv
    OBVIOUS
  <2>1. phase = "start" /\ \A c \in Cases, m \in Modes : verified[c][m] = NoValue
    BY DEF Init
  <2> QED
    BY <2>1 DEF HInv, AsOnChain, AcceptedDescribed, HonestCovered, EnvironmentSupported,
                HonestSuitesPass, Verifying
<1>2. TypeOK /\ IInv /\ RInv /\ HInv /\ [Next]_vars => HInv'
  <2> SUFFICES ASSUME TypeOK, IInv, RInv, HInv, [Next]_vars PROVE HInv'
    OBVIOUS
  <2>a. UNCHANGED verified /\ UNCHANGED <<fixture, requestedEnv, native>> => AcceptedDescribed'
    BY SuiteStays DEF HInv, AcceptedDescribed
  <2>b. SameBase /\ EnvironmentSupported
    BY DEF RInv, HInv
  <2>c. /\ iteration.case \in Cases /\ iteration.mode \in Modes /\ iteration.validating \in BOOLEAN
        /\ \A c \in Cases : c \in 1 .. NumCases
        /\ 1 \in Cases /\ NumCases \in Nat /\ "interpreter-hot" \in Modes /\ "dual-hot" \in Modes
    BY ReplayAssumption DEF TypeOK, Iterations, Cases, Modes
  <2>1. CASE Execute \/ Compare \/ VerifyExpectedState
    BY <2>1, InsideOnChain
  <2>2. CASE FailCase
    <3>1. /\ Checked /\ ~Accepts(iteration) /\ phase' = Failed
          /\ UNCHANGED <<fixture, requestedEnv, native, verified>>
      BY <2>2 DEF FailCase, inputs
    <3>2. iteration.validating
      BY <3>1, TimedAccepted DEF Checked, InExecution
    <3>3. ~Honest
      BY <3>1, <3>2, HonestAccepted
    <3> QED BY <2>a, <3>1, <3>2, <3>3, ChainRests DEF Failed, Verifying, Checked
  <2>3. CASE RejectEnvironment
    <3>1. /\ ~Supported /\ phase' = "rejected"
          /\ UNCHANGED <<fixture, requestedEnv, native, verified>>
      BY <2>3 DEF RejectEnvironment, inputs
    <3>2. ~Honest
      BY <3>1 DEF Honest, Supported, SelectedEnv
    <3> QED BY <2>a, <3>1, <3>2, ChainRests DEF Verifying
  <2>4. CASE ModesDiffer
    <3>1. /\ Checked /\ Accepts(iteration) /\ iteration.validating
          /\ iteration.mode = "dual-hot" /\ ~ModesAgree /\ phase' = "rejected"
          /\ UNCHANGED <<fixture, requestedEnv, native, verified>>
      BY <2>4 DEF ModesDiffer, inputs
    <3>2. ~Honest
      BY <3>1, HonestAgree
    <3> QED BY <2>a, <3>1, <3>2, ChainRests DEF Verifying, Checked
  <2>5. CASE BuildSessions
    <3>1. /\ Supported /\ phase' = "sessions"
          /\ UNCHANGED <<fixture, requestedEnv, native, verified>>
      BY <2>5 DEF BuildSessions, inputs
    <3> QED BY <2>a, <3>1, ChainRests DEF Verifying
  <2>6. CASE SampleAccepted \/ OpenBenchmarkSession
    <3>1. /\ phase' = "benchmark" /\ phase \notin {"start", "rejected"}
          /\ UNCHANGED <<fixture, requestedEnv, native, verified>>
      BY <2>6 DEF SampleAccepted, OpenBenchmarkSession, Checked, inputs
    <3> QED BY <2>a, <3>1, ChainRests DEF Verifying
  <2>7. CASE FirstCase
    <3>1. /\ Begin(1, "interpreter-hot", TRUE) /\ phase = "sessions"
          /\ UNCHANGED <<fixture, requestedEnv, native, verified>>
      BY <2>7 DEF FirstCase, inputs
    <3> QED BY <2>a, <2>b, <2>c, <3>1, ChainBegins
  <2>8. CASE InterpreterAccepted \/ DualAccepted
    <3>1. /\ Checked /\ Accepts(iteration) /\ iteration.validating /\ Record
          /\ UNCHANGED <<fixture, requestedEnv, native>> /\ phase = "checking"
      BY <2>8 DEF InterpreterAccepted, DualAccepted, Checked, inputs
    <3>2. AcceptedDescribed'
      BY <3>1, AcceptedOnChain
    <3>3. CASE InterpreterAccepted
      <4>1. Begin(iteration.case, "dual-hot", TRUE)
        BY <3>3 DEF InterpreterAccepted
      <4> QED BY <2>b, <2>c, <3>1, <3>2, <4>1, ChainBegins
    <3>4. CASE DualAccepted /\ ~LastCase
      <4>1. Begin(iteration.case + 1, "interpreter-hot", TRUE)
        BY <3>4 DEF DualAccepted
      <4>2. iteration.case + 1 \in Cases
        BY <2>c, <3>4 DEF LastCase, Cases
      <4> QED BY <2>b, <2>c, <3>1, <3>2, <4>1, <4>2, ChainBegins
    <3>5. CASE DualAccepted /\ LastCase
      <4>1. phase' = "verified"
        BY <3>5 DEF DualAccepted
      <4> QED BY <3>1, <3>2, <4>1, ChainRests DEF Verifying
    <3> QED BY <2>8, <3>3, <3>4, <3>5
  <2>9. ASSUME NEW c \in Cases, Prepare(c) PROVE HInv'
    <3>1. /\ phase = "benchmark" /\ UNCHANGED <<fixture, requestedEnv, native, verified>>
          /\ Begin(c, mode, FALSE) /\ mode \in Modes
      BY <2>9 DEF Prepare, inputs, TypeOK
    <3>2. phase' = "running" /\ iteration'.validating = FALSE
      BY <3>1, BeginsAtStart
    <3> QED BY <2>a, <3>1, <3>2, ChainRests DEF Verifying
  <2>10. CASE UNCHANGED vars
    <3>1. UNCHANGED <<fixture, requestedEnv, native, verified, iteration, phase>>
      BY <2>10 DEF vars
    <3>2. phase = "rejected" => ~Honest
      BY DEF HInv, HonestSuitesPass
    <3> QED BY <2>a, <3>1, <3>2, ChainRests
  <2> QED
    BY <2>1, <2>2, <2>3, <2>4, <2>5, <2>6, <2>7, <2>8, <2>9, <2>10
       DEF Next, Validate, Verify, Benchmark
<1> QED BY <1>1, <1>2, TypeCorrect, AcceptedInvariant, RepeatInvariant, PTL DEF Spec

\* A suite that passes verification says what its cases do on the chain in either
\* mode, and covers everything they touch there: for every suite captured from
\* the chain, every chain and every VM whose executions end.
THEOREM PassingIsHonest == Spec => []VerifiedSuitesAreHonest
<1>1. TypeOK /\ IInv /\ HInv => VerifiedSuitesAreHonest
  <2> SUFFICES ASSUME TypeOK, IInv, HInv, phase \in {"verified", "benchmark"} PROVE Honest
    BY DEF VerifiedSuitesAreHonest
  <2>1. \A c \in Cases, m \in Modes : verified[c][m] # NoValue
    BY DEF IInv, WholeSuiteVerifiedFirst
  <2>2. fixture.env = DefaultEnv /\ requestedEnv \in {fixture.env, NoValue}
    BY DEF HInv, EnvironmentSupported, Supported, SelectedEnv
  <2>3. ASSUME NEW c \in Cases
        PROVE  /\ Describes(c, InterpreterEntry[c]) /\ Describes(c, native[c])
               /\ Result(c, InterpreterEntry[c]) = Result(c, native[c])
    <3>1. "interpreter-hot" \in Modes /\ "dual-hot" \in Modes
      BY DEF Modes
    <3>2. EntryOf(c, "interpreter-hot") = InterpreterEntry[c] /\ EntryOf(c, "dual-hot") = native[c]
      BY DEF EntryOf
    <3>3. /\ Describes(c, InterpreterEntry[c]) /\ Describes(c, native[c])
          /\ verified[c]["interpreter-hot"].result = Result(c, InterpreterEntry[c])
          /\ verified[c]["dual-hot"].result = Result(c, native[c])
      BY <2>1, <3>1, <3>2 DEF HInv, AcceptedDescribed
    <3>4. verified[c]["interpreter-hot"].result = verified[c]["dual-hot"].result
      BY <2>1, <3>1 DEF IInv, VerifiedResultsAgree
    <3> QED BY <3>3, <3>4
  <2> QED BY <2>2, <2>3 DEF Honest
<1> QED BY <1>1, TypeCorrect, AcceptedInvariant, ChainInvariant, PTL

\* A suite that describes the chain is never turned down.
THEOREM HonestPasses == Spec => []HonestSuitesPass
<1>1. HInv => HonestSuitesPass
  BY DEF HInv
<1> QED BY <1>1, ChainInvariant, PTL

=============================================================================
