------------------------------- MODULE Replay -------------------------------
(***************************************************************************)
(* The verifier and the replay sessions of src/src/replay.cpp.             *)
(*                                                                         *)
(* verify_fixture_suite executes every case of a loaded fixture twice, in  *)
(* an InterpreterOnly session and in a Dual session, through a database    *)
(* that records every read the fixture does not cover; a BenchmarkSession  *)
(* then repeats cases over a base state of its own with that recording     *)
(* switched off.  The Monad VM is external: it is an arbitrary             *)
(* deterministic machine (Op, After) entered at one state per case, and in *)
(* Dual mode at a state `native' chosen from NativeEntries, because        *)
(* compiled code is allowed to be wrong.                                   *)
(***************************************************************************)
EXTENDS Integers, Sequences

CONSTANTS
  Accounts,        \* addresses
  Slots,           \* storage slots, each of one account
  Numbers,         \* numbers of ancestor blocks
  Owner,           \* [Slots -> Accounts]
  Values, Zero,    \* what a location can hold; Zero is the database default
  MissingHash,     \* the hash handed out for a block the fixture lacks
  NoValue,         \* not in Values: nothing written, nothing expected
  NumCases,        \* the cases of a suite are 1..NumCases
  Message,         \* [Cases -> the message of a case]
  Beneficiary,     \* the block's beneficiary
  Delegate,        \* [Values -> Accounts \cup {NoValue}]: EIP-7702 designator
  DefaultEnv,      \* default_execution_env, the supported environment
  Environments,
  VmStates, Op, After, InterpreterEntry, NativeEntries,   \* the external VM
  NullOutput,      \* an output with a length and no data
  Fixtures,        \* suites load_fixture_suite accepts
  MaxTimed         \* bound on the timed iterations of a behaviour

Cases == 1 .. NumCases
Modes == {"interpreter-hot", "dual-hot"}
Stored == Accounts \cup Slots
Locations == Stored \cup Numbers
Optional(S) == S \cup {NoValue}

Statuses == {"success", "revert", "error"}
Outputs == Values \cup {NullOutput}
Ops ==
  [kind : {"read"}, at : Locations]
    \cup [kind : {"write"}, at : Stored, value : Values]
    \cup [kind : {"log"}, value : Values]
    \cup [kind : {"halt"}, status : Statuses, output : Outputs, gasLeft : Int]

Messages == [sender : Accounts, recipient : Accounts,
             accessList : SUBSET Accounts, gas : Nat]
Entries == [account : Accounts, info : Optional(Values),
            slots : [Slots -> Optional(Values)]]
Expectations == [status : Statuses, output : Values, gasUsed : Nat,
                 logs : Optional(Seq(Values)), state : Seq(Entries)]
Suites == [env : Environments, accounts : SUBSET Accounts,
           absent : SUBSET Accounts, slots : SUBSET Slots,
           hashes : SUBSET Numbers, value : [Locations -> Values],
           expected : [Cases -> Expectations]]
Results == [status : Statuses, output : Outputs, gasUsed : Int, logs : Seq(Values)]
Accepted == [reads : SUBSET Locations, result : Results]

ASSUME ReplayAssumption ==
  /\ NumCases \in Nat \ {0} /\ MaxTimed \in Nat
  /\ Accounts \cap Slots = {} /\ Accounts \cap Numbers = {}
  /\ Slots \cap Numbers = {}
  /\ Owner \in [Slots -> Accounts] /\ Beneficiary \in Accounts
  /\ {Zero, MissingHash} \subseteq Values /\ NoValue \notin Values \cup Accounts \cup Environments
  /\ NoValue \notin Accepted /\ NullOutput \notin Values
  /\ Message \in [Cases -> Messages]
  /\ Delegate \in [Values -> Optional(Accounts)]
  /\ Op \in [VmStates -> Ops]
  /\ After \in [VmStates -> [Values -> VmStates]]
  /\ InterpreterEntry \in [Cases -> VmStates]
  /\ NativeEntries \subseteq [Cases -> VmStates]
  /\ Fixtures \subseteq Suites

\* load_fixture_suite: slots belong to captured accounts, and no account is
\* both captured and known to be absent.
ASSUME FixturesAreLoaded ==
  \A f \in Fixtures : /\ f.accounts \cap f.absent = {}
                      /\ \A s \in f.slots : Owner[s] \in f.accounts

VARIABLES
  fixture,         \* the FixtureSuite
  requestedEnv,    \* --execution-env, or NoValue when it is not given
  native,          \* [Cases -> VmStates]: what Dual mode executes
  mode,            \* --mode of the benchmark
  phase,           \* where the command is
  base,            \* [Modes -> [Stored -> Values]]: each session's database
  iteration,       \* the current ExecutionIteration
  interpreter,     \* the interpreter's ReplayResult of the current case
  verified,        \* history: what each accepted execution read and returned
  timed            \* timed iterations prepared so far

vars == <<fixture, requestedEnv, native, mode, phase, base, iteration,
          interpreter, verified, timed>>
inputs == <<fixture, requestedEnv, native, mode>>

-----------------------------------------------------------------------------
(* What the fixture covers and what the databases hold.                    *)

\* Seeded fault: known-absent accounts are not taken into account.
FaultyUncapturedAccount(a) == a \notin fixture.accounts

\* The reads ValidatingDb and FixtureBlockHashBuffer record as missing.
UncapturedAccount(a) == a \notin fixture.accounts /\ a \notin fixture.absent
UncapturedSlot(s) == Owner[s] \notin fixture.accounts \/ s \notin fixture.slots
UncapturedHash(n) == n \notin fixture.hashes

Uncaptured(l) ==
  \/ l \in Accounts /\ UncapturedAccount(l)
  \/ l \in Slots /\ UncapturedSlot(l)
  \/ l \in Numbers /\ UncapturedHash(l)

\* build_base_state: the captured accounts and slots over an empty database.
BuildBaseState ==
  [l \in Stored |-> IF l \in fixture.accounts \cup fixture.slots
                    THEN fixture.value[l] ELSE Zero]

\* FixtureBlockHashBuffer.get: the captured hash, or a fixed one.
BlockHash(n) == IF n \in fixture.hashes THEN fixture.value[n] ELSE MissingHash

\* What the transactional State returns for a location.
Current(it, l) ==
  IF l \in Numbers THEN BlockHash(l)
  ELSE IF it.written[l] # NoValue THEN it.written[l]
  ELSE base[it.mode][l]

\* The locations State loads to answer for l.  A slot needs its account, and
\* is looked up only when that account exists in the database.
Loads(it, l) ==
  IF l \in Slots
  THEN {Owner[l]} \cup {s \in {l} : base[it.mode][Owner[l]] # Zero}
  ELSE {l}

\* Loads(it, ls) reach the database (or the block-hash buffer), which records
\* the uncaptured ones; without ValidatingDb only block hashes are recorded.
Read(it, ls) ==
  [it EXCEPT !.reads = @ \cup ls,
             !.missing = @ \cup {l \in ls : /\ Uncaptured(l)
                                            /\ it.validating \/ l \in Numbers}]

-----------------------------------------------------------------------------
(* ExecutionIteration: construction, execution and validation.             *)

Expected(it) == fixture.expected[it.case]

\* What the constructor touches: the sender (reserve balance and warming), the
\* beneficiary, the accounts of the access list, the recipient and, when the
\* recipient's code is a delegation designator, the delegate.
Prelude(c, m) ==
  LET d == Delegate[base[m][Message[c].recipient]]
  IN {Beneficiary, Message[c].sender, Message[c].recipient}
       \cup Message[c].accessList \cup ({d} \ {NoValue})

Fresh(c, m, validating) ==
  Read([case |-> c, mode |-> m, validating |-> validating,
        vm |-> IF m = "dual-hot" THEN native[c] ELSE InterpreterEntry[c],
        written |-> [l \in Stored |-> NoValue], logs |-> << >>,
        reads |-> {}, missing |-> {}, failures |-> {}, todo |-> << >>],
       Prelude(c, m))

Begin(c, m, validating) ==
  /\ iteration' = Fresh(c, m, validating)
  /\ phase' = "running"

\* execute_call_message, one VM operation at a time.
VmRead ==
  LET op == Op[iteration.vm] IN
  /\ phase = "running" /\ op.kind = "read"
  /\ iteration' = [Read(iteration, Loads(iteration, op.at))
                     EXCEPT !.vm = After[@][Current(iteration, op.at)]]
  /\ UNCHANGED <<inputs, phase, base, interpreter, verified, timed>>

VmWrite ==
  LET op == Op[iteration.vm] IN
  /\ phase = "running" /\ op.kind = "write"
  /\ iteration' = [Read(iteration, Loads(iteration, op.at))
                     EXCEPT !.vm = After[@][op.value],
                            !.written[op.at] = op.value]
  /\ UNCHANGED <<inputs, phase, base, interpreter, verified, timed>>

VmLog ==
  LET op == Op[iteration.vm] IN
  /\ phase = "running" /\ op.kind = "log"
  /\ iteration' = [iteration EXCEPT !.vm = After[@][op.value],
                                    !.logs = Append(@, op.value)]
  /\ UNCHANGED <<inputs, phase, base, interpreter, verified, timed>>

\* A message that does not succeed leaves no writes and no logs behind.
VmHalt ==
  LET op == Op[iteration.vm] IN
  /\ phase = "running" /\ op.kind = "halt"
  /\ phase' = "executed"
  /\ iteration' = IF op.status = "success" THEN iteration
                  ELSE [iteration EXCEPT !.written = [l \in Stored |-> NoValue],
                                         !.logs = << >>]
  /\ UNCHANGED <<inputs, base, interpreter, verified, timed>>

ReplayResult(it) ==
  LET op == Op[it.vm] IN
  [status |-> op.status, output |-> op.output,
   gasUsed |-> Message[it.case].gas - op.gasLeft, logs |-> it.logs]

\* Seeded fault: gas_left is not range-checked.
FaultyMalformed(it) == Op[it.vm].output = NullOutput

\* validate() throws on results that make no sense.
Malformed(it) ==
  LET op == Op[it.vm] IN
  \/ op.gasLeft < 0 \/ op.gasLeft > Message[it.case].gas
  \/ op.output = NullOutput

Mismatches(it) ==
  LET r == ReplayResult(it)
      e == Expected(it)
  IN {f \in {"status"} : r.status # e.status}
       \cup {f \in {"output"} : r.output # e.output}
       \cup {f \in {"gas"} : r.gasUsed # e.gasUsed}
       \cup {f \in {"logs"} : e.logs # NoValue /\ r.logs # e.logs}

\* Where a failure sends the command: verification rejects the suite, a timed
\* iteration fails the run.
Failed == IF iteration.validating THEN "rejected" ELSE "failed"

Compare ==
  /\ phase = "executed"
  /\ IF Malformed(iteration)
     THEN phase' = Failed /\ UNCHANGED iteration
     ELSE /\ phase' = "checking"
          /\ iteration' = [iteration EXCEPT !.failures = Mismatches(iteration),
                                            !.todo = Expected(iteration).state]
  /\ UNCHANGED <<inputs, base, interpreter, verified, timed>>

\* verify_expected_state: one entry.  An absent account is a failure and its
\* other assertions are skipped; what is asserted is read through State.
EntryReads(it, e) ==
  IF Current(it, e.account) = Zero THEN {e.account}
  ELSE {e.account} \cup UNION {Loads(it, s) : s \in {x \in Slots : e.slots[x] # NoValue}}

\* Seeded fault: account_exists is not asked.
FaultyEntryHolds(it, e) ==
  /\ e.info \in {NoValue, Current(it, e.account)}
  /\ \A s \in Slots : e.slots[s] \in {NoValue, Current(it, s)}

EntryHolds(it, e) ==
  /\ Current(it, e.account) # Zero
  /\ e.info \in {NoValue, Current(it, e.account)}
  /\ \A s \in Slots : e.slots[s] \in {NoValue, Current(it, s)}

VerifyExpectedState ==
  /\ phase = "checking" /\ iteration.todo # << >>
  /\ LET e == Head(iteration.todo) IN
     iteration' = [Read(iteration, EntryReads(iteration, e))
                     EXCEPT !.todo = Tail(@),
                            !.failures = @ \cup {f \in {"state"} : ~EntryHolds(iteration, e)}]
  /\ UNCHANGED <<inputs, phase, base, interpreter, verified, timed>>

Checked == phase = "checking" /\ iteration.todo = << >>

\* Seeded fault: what ValidatingDb and the block-hash buffer miss is ignored.
FaultyAccepts(it) == it.failures = {}

Accepts(it) == it.failures = {} /\ it.missing = {}

-----------------------------------------------------------------------------
(* verify_fixture_suite.                                                   *)

SelectedEnv == IF requestedEnv = NoValue THEN fixture.env ELSE requestedEnv

Supported == SelectedEnv = fixture.env /\ SelectedEnv = DefaultEnv

RejectEnvironment ==
  /\ phase = "start" /\ ~Supported
  /\ phase' = "rejected"
  /\ UNCHANGED <<inputs, base, iteration, interpreter, verified, timed>>

BuildSessions ==
  /\ phase = "start" /\ Supported
  /\ base' = [m \in Modes |-> BuildBaseState]
  /\ phase' = "sessions"
  /\ UNCHANGED <<inputs, iteration, interpreter, verified, timed>>

FirstCase ==
  /\ phase = "sessions"
  /\ Begin(1, "interpreter-hot", TRUE)
  /\ UNCHANGED <<inputs, base, interpreter, verified, timed>>

\* The execution is accepted: it enters the history.
Record ==
  verified' = [verified EXCEPT ![iteration.case][iteration.mode] =
                 [reads |-> iteration.reads, result |-> ReplayResult(iteration)]]

FailCase ==
  /\ Checked /\ ~Accepts(iteration)
  /\ phase' = Failed
  /\ UNCHANGED <<inputs, base, iteration, interpreter, verified, timed>>

InterpreterAccepted ==
  /\ Checked /\ Accepts(iteration)
  /\ iteration.validating /\ iteration.mode = "interpreter-hot"
  /\ interpreter' = ReplayResult(iteration)
  /\ Record
  /\ Begin(iteration.case, "dual-hot", TRUE)
  /\ UNCHANGED <<inputs, base, timed>>

\* Seeded fault: the modes' logs are not compared.
FaultyModesAgree ==
  LET r == ReplayResult(iteration) IN
  /\ r.status = interpreter.status /\ r.output = interpreter.output
  /\ r.gasUsed = interpreter.gasUsed

ModesAgree == ReplayResult(iteration) = interpreter

\* Seeded fault: the loop stops one case early.
FaultyLastCase == iteration.case + 1 >= NumCases

LastCase == iteration.case = NumCases

ModesDiffer ==
  /\ Checked /\ Accepts(iteration)
  /\ iteration.validating /\ iteration.mode = "dual-hot"
  /\ ~ModesAgree
  /\ phase' = "rejected"
  /\ UNCHANGED <<inputs, base, iteration, interpreter, verified, timed>>

DualAccepted ==
  /\ Checked /\ Accepts(iteration)
  /\ iteration.validating /\ iteration.mode = "dual-hot"
  /\ ModesAgree
  /\ Record
  /\ IF LastCase
     THEN phase' = "verified" /\ UNCHANGED iteration
     ELSE Begin(iteration.case + 1, "interpreter-hot", TRUE)
  /\ UNCHANGED <<inputs, base, interpreter, timed>>

-----------------------------------------------------------------------------
(* BenchmarkSession: a database of its own, and iterations that are not    *)
(* watched by ValidatingDb.  Which case comes next is the benchmark        *)
(* library's choice.                                                       *)

\* Seeded fault: the session's database is left empty.
FaultyOpenBenchmarkSession ==
  /\ phase = "verified"
  /\ base' = [base EXCEPT ![mode] = [l \in Stored |-> Zero]]
  /\ phase' = "benchmark"
  /\ UNCHANGED <<inputs, iteration, interpreter, verified, timed>>

OpenBenchmarkSession ==
  /\ phase = "verified"
  /\ base' = [base EXCEPT ![mode] = BuildBaseState]
  /\ phase' = "benchmark"
  /\ UNCHANGED <<inputs, iteration, interpreter, verified, timed>>

\* Seeded fault: the transactional State of the last iteration is reused.
FaultyPrepare(c) ==
  /\ phase = "benchmark" /\ timed < MaxTimed
  /\ iteration' = [Fresh(c, mode, FALSE) EXCEPT !.written = iteration.written]
  /\ phase' = "running" /\ timed' = timed + 1
  /\ UNCHANGED <<inputs, base, interpreter, verified>>

Prepare(c) ==
  /\ phase = "benchmark" /\ timed < MaxTimed
  /\ Begin(c, mode, FALSE)
  /\ timed' = timed + 1
  /\ UNCHANGED <<inputs, base, interpreter, verified>>

SampleAccepted ==
  /\ Checked /\ Accepts(iteration) /\ ~iteration.validating
  /\ phase' = "benchmark"
  /\ UNCHANGED <<inputs, base, iteration, interpreter, verified, timed>>

-----------------------------------------------------------------------------
Init ==
  /\ fixture \in Fixtures
  /\ requestedEnv \in Environments \cup {NoValue}
  /\ native \in NativeEntries
  /\ mode \in Modes
  /\ phase = "start"
  /\ base = [m \in Modes |-> [l \in Stored |-> Zero]]
  /\ iteration = [case |-> 1, mode |-> "interpreter-hot", validating |-> TRUE,
                  vm |-> InterpreterEntry[1],
                  written |-> [l \in Stored |-> NoValue], logs |-> << >>,
                  reads |-> {}, missing |-> {}, failures |-> {}, todo |-> << >>]
  /\ interpreter = NoValue
  /\ verified = [c \in Cases |-> [m \in Modes |-> NoValue]]
  /\ timed = 0

Execute == VmRead \/ VmWrite \/ VmLog \/ VmHalt
Validate == Compare \/ VerifyExpectedState \/ FailCase
Verify ==
  \/ RejectEnvironment \/ BuildSessions \/ FirstCase
  \/ InterpreterAccepted \/ ModesDiffer \/ DualAccepted
Benchmark ==
  \/ OpenBenchmarkSession
  \/ \E c \in Cases : Prepare(c)
  \/ SampleAccepted

Next == Execute \/ Validate \/ Verify \/ Benchmark

Spec == Init /\ [][Next]_vars

-----------------------------------------------------------------------------
(* Properties.                                                             *)

Phases == {"start", "sessions", "running", "executed", "checking", "verified",
           "rejected", "benchmark", "failed"}
Failures == {"status", "output", "gas", "logs", "state"}
Iterations ==
  [case : Cases, mode : Modes, validating : BOOLEAN, vm : VmStates,
   written : [Stored -> Optional(Values)], logs : Seq(Values),
   reads : SUBSET Locations, missing : SUBSET Locations,
   failures : SUBSET Failures, todo : Seq(Entries)]

\* Every variable of the verifier keeps its type.
TypeOK ==
  /\ fixture \in Fixtures /\ requestedEnv \in Optional(Environments)
  /\ native \in NativeEntries /\ mode \in Modes
  /\ phase \in Phases
  /\ base \in [Modes -> [Stored -> Values]]
  /\ iteration \in Iterations
  /\ phase \in {"executed", "checking"} => Op[iteration.vm].kind = "halt"
  /\ phase = "checking" =>
       ReplayResult(iteration).gasUsed \in 0 .. Message[iteration.case].gas
  /\ interpreter \in Optional(Results)
  /\ verified \in [Cases -> [Modes -> Optional(Accepted)]]
  /\ timed \in 0 .. MaxTimed

\* An execution that verification accepted read nothing the fixture leaves out
\* (spec.md 7.3): every account, slot and block hash it looked up anywhere,
\* checks of the expected state included, is captured or known to be absent.
VerifiedReadsCaptured ==
  \A c \in Cases, m \in Modes :
    verified[c][m] # NoValue => \A l \in verified[c][m].reads : ~Uncaptured(l)

\* An accepted execution returned what the case expects, and the two modes
\* returned the same, logs included when the case expects none in particular.
VerifiedResultsAgree ==
  \A c \in Cases :
    verified[c]["dual-hot"] # NoValue =>
      LET d == verified[c]["dual-hot"].result
          e == fixture.expected[c]
      IN /\ verified[c]["interpreter-hot"] # NoValue
         /\ verified[c]["interpreter-hot"].result = d
         /\ d.status = e.status /\ d.output = e.output /\ d.gasUsed = e.gasUsed
         /\ e.logs \in {NoValue, d.logs}

\* Nothing is timed before every case of the suite, the ones a filter leaves
\* out included, was accepted in both modes (benchmarking.md, "the complete
\* suite is verified before any selected case is measured").
WholeSuiteVerifiedFirst ==
  phase \in {"verified", "benchmark"} \/ ~iteration.validating =>
    \A c \in Cases, m \in Modes : verified[c][m] # NoValue

\* A timed iteration, which nothing watches for missing state, reads only what
\* the verified execution of its case in its mode read, and returns the same.
TimedRepeatsVerified ==
  ~iteration.validating =>
    LET v == verified[iteration.case][iteration.mode] IN
    /\ iteration.reads \subseteq v.reads
    /\ phase \in {"executed", "checking"} => ReplayResult(iteration) = v.result

\* However often and in whatever order a verified suite's cases are repeated,
\* no repetition fails: none sees what an earlier one wrote.
TimedNeverFails == phase # "failed"

\* Why the three properties of accepted executions hold.  While verification is
\* under way every uncovered read of the current execution is in `missing', the
\* cases before the current one are accepted in both modes, the Dual mode of
\* the later ones is not, and `interpreter' is the result just accepted.
Verifying == phase \in {"running", "executed", "checking"} /\ iteration.validating

MissingRecorded ==
  iteration.validating =>
    \A l \in iteration.reads : Uncaptured(l) => l \in iteration.missing

InOrder ==
  /\ phase \in {"start", "sessions"} =>
       iteration.validating /\ \A c \in Cases, m \in Modes : verified[c][m] = NoValue
  /\ Verifying =>
       /\ \A c \in Cases, m \in Modes : c < iteration.case => verified[c][m] # NoValue
       /\ \A c \in Cases : c >= iteration.case => verified[c]["dual-hot"] = NoValue
       /\ iteration.mode = "dual-hot" =>
            /\ verified[iteration.case]["interpreter-hot"] # NoValue
            /\ verified[iteration.case]["interpreter-hot"].result = interpreter

Compared == phase = "checking" => Mismatches(iteration) \subseteq iteration.failures

IInv ==
  /\ MissingRecorded /\ InOrder /\ Compared
  /\ VerifiedReadsCaptured /\ VerifiedResultsAgree /\ WholeSuiteVerifiedFirst

=============================================================================
