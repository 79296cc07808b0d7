# monad-execbench in TLA+

monad-execbench replays captured EVM calls through Monad's execution engine
offline, checks that they do what the capture says, times them, and reports.
This directory models the parts of it whose control flow decides whether a
number it prints can be trusted. Paths below are relative to the repository;
`src/` there is the C++ program.

## The system

| Part | State it keeps | Operations | Talks to |
| --- | --- | --- | --- |
| Capture tool, `capture/.../capture.py`, `rpc.py`, `cli.py` | requirements, captured cases, block hashes, hydrated state; then files in a temporary directory | select a block, fetch 256 ancestors in batches with retries, trace each case three times, prove every account, recheck the block, publish the bundle | the RPC of a live chain, the file system |
| Fixture loader, `src/fixture.cpp` | a `FixtureSuite` | read four files, parse, bind them by provenance | the bundle on disk |
| Replay engine, `src/replay.cpp` | per session: base state, VM caches; per execution: `BlockState`, `State`, missing reads, failures | verify a suite in two modes, open a benchmark session, prepare / execute / validate an iteration | Monad's VM and state (external) |
| Benchmark command, `src/benchmark.cpp`, `src/main.cpp` | selected cases, one failure flag, the output file | parse options, filter cases, verify, register, run, check the output | replay engine, Google Benchmark (external) |
| Diagnostics, `src/diagnostics.cpp`, `src/profiled_interpreter.cpp`, `src/diagnostic_result.cpp` | a thread-local collector: a stack and a list of frames | hooks: enter, step, exit; begin and finish of a case | the interpreter (external), replay engine |
| Report, `analysis/monad_execbench_report` | none | check and group the rows of result files, compare runs, publish | result files |
| Attribution, `analysis/monad_execbench_attribution` | none | check a diagnostics document, map pcs to sources, publish | diagnostics and build-info files |
| Foundry helper, `foundry/src/ExecBench.sol` | a list of JSON strings | add cases, write a calls manifest | capture tool, through the file |
| Release, CI, packaging | none | build, check, stage | git, the file system |

What is hard here: verification has to notice, at the end, everything an
execution did wrong anywhere inside it; iterations share caches and a base
state; an external library decides when and how often cases are called, and an
exception can leave any of its calls in the middle; the collector infers costs
from differences of gas readings around nested frames; the capture asks one
question at a time of a chain that moves; and bundles are published, removed and
loaded by processes that do not know of each other. `PROJECT.json` lists these
hazards with their lines and the properties that cover them.

Each part is correct when:

- replay: an accepted case read only captured state, returned what is expected in
  both modes, and repeating it repeats exactly that; honest suites are accepted;
- benchmark: only execution is timed, a failure ends measuring, and success means
  that all samples of all selected cases were taken and, unless the file system
  refused them or something else was asked for, are in the output;
- filter: `*` and `?` select what the documentation says;
- diagnostics: gas is attributed to the instruction that spent it, or the report
  is refused;
- capture: a bundle is what one block says, or there is none;
- publication and loading: the path holds a whole bundle or none, and a load
  returns one bundle;
- loader: exactly the bundles that are valid as a whole are accepted, and what the
  suite answers to a lookup is what the bundle says, once;
- command line: an option that is accepted takes effect, one the program owns
  cannot be overridden, and exit status 0 means that what was asked was done;
- report and attribution: what a report shows was measured and is whole, a report
  the collector emits is accepted, readers see whole outputs, and existing files,
  links and inputs are kept.

## Modules

| Module | Models | Checked by |
| --- | --- | --- |
| `Replay` | `verify_fixture_suite`, `ExecutionIteration`, `ValidatingDb`, `FixtureBlockHashBuffer`, `BenchmarkSession` | `MCReplay`, `ReplayProofs` |
| `OnChain` | no code: what the cases do on the chain itself, the reference that `Replay` is measured against | `MCReplay`, `ReplayProofs` |
| `Measurement` | the promise of `monad-execbench run`, abstractly | refined by `BenchmarkRun` |
| `BenchmarkRun` | `run_case`, `run_benchmark_command`, Google Benchmark around them | itself, `BenchmarkProofs` |
| `Glob` | the loop of `glob_match` | itself, `GlobProofs` |
| `Loader` | `load_fixture_suite` on what the four documents say | `MCCommands`, `LoaderProofs` |
| `CommandLine` | `main`, `parse_options`, the library's flags; composes `Loader` | `MCCommands`, `LoaderProofs` |
| `Diagnostics` | the collector, its hooks, `diagnose_fixture_suite`, and the checks of `attribute` | `MCDiagnostics`, `DiagnosticsProofs` |
| `Capture` | `capture_suite`, `capture_block_hashes`, `fetch_block_hash`, `hydrate_state` | `MCCapture`, `CaptureProofs` |
| `TraceLogs` | `collect_logs` on the answer of `callTracer` | through `StateExpectation` |
| `StateExpectation` | `expected_state` and `verify_expected_state`; composes `TraceLogs` | itself, `CaptureProofs` |
| `BundleStore` | `write_bundle` and `load_fixture_suite` on one path | `MCBundleStore`, `StoreProofs` |
| `Results` | the results file: who writes and edits it, `load_run` | `MCReports` |
| `Publication` | publication by the report and the attribution tool; composes `Results` | `MCReports`, `PublicationProofs` |

Definitions called `Faulty...` are seeded faults: each stands before the
definition it would replace and no specification uses it. They show that every
property can be broken by a plausible change of the code.

### Replay

The VM is an arbitrary deterministic machine (`Op`, `After`): states that read,
write, log or halt. Interpreter mode enters it at one state per case, Dual mode
at a state chosen from `NativeEntries`, because native code is allowed to be
wrong; the checks have to notice. `fixture` is any suite of `Fixtures`, so a
suite may leave out anything a case reads or expect anything of it. One
`ExecutionIteration` is the record `iteration`; `Prelude` is its constructor
(warming included), `VmRead`, `VmWrite`, `VmLog`, `VmHalt` are the VM,
`Compare`, `VerifyExpectedState` and `Checked` are `validate`. `verified` is a
history variable: what each accepted execution read and returned. A read of the
database is a read of the recording `ValidatingDb` during verification and of
the plain base state in a timed iteration, as in the code.

`OnChain` is the reference for what acceptance is worth. It knows the chain at
the captured block and the VM, and no session, database or order of cases:
`ChainRun` is what the VM does from each entry, machine by machine, `Touched` what
it looks up on the way, `Describes` what a suite must say about it, and `Honest`
a suite that says so of every case in both modes and covers what they touch.
`ChainRun` is a constant that `ChainAssumption` ties to `Op` and `After`
(`IsChainRun`), so that the module needs no recursion; `MCReplay` computes it. Its
existence is the assumption that every execution ends, which gas sees to. The
other assumptions: an account that does not exist has empty slots, and suites
hold values of this chain (`FixturesAreCaptured`), as the capture establishes; how
much they hold, and what they expect, is left open.

### BenchmarkRun and Measurement

`call` is the `run_case` call under way and `clock` its `benchmark::State`
timer; `clock.measured` collects the kinds of work done while the timer ran.
Every call `run_case` makes may throw. The library truncates the output when it
starts, calls each case any number of times to calibrate (discarding the
samples) and then once per repetition, writes a case's rows after its last
repetition and closes the document at the end. Each of these writes may fail
wholly or in part (`Write`), after which the stream takes nothing more and nobody
is told. `passthrough` is what the flags after `--` ask for, as far as it changes
what success means: with `--help` the library prints its usage and exits with 0
after the suite was verified (`Initialize`), with `--benchmark_dry_run` each case
runs once, with `--benchmark_report_aggregates_only` the samples of more than one
repetition are left out of the file, and with `--benchmark_list_tests` nothing runs.

`BenchmarkRun` implements `Measurement` under the mapping at `Promise`. What the
command promises with status 0 is weaker than what its documentation says of the file:
docs/benchmarking.md:105 has it that the JSON file "contains every raw repetition", and
that is so when the file system took every write and neither of the last flags was
given, because the command only checks that the file is there and not empty
(`benchmark.cpp:411-424`). `Measurement` says exactly this: the stage `"succeeded"`
needs every sample taken, and the output complete, or something lost, or aggregates
asked for; `"answered"` stands apart from it.

### Glob

The variables are the locals of the loop and each action is one turn of it, for
every pattern and name up to a length. The reference `Matches` is a declarative
definition of the documented meaning.

### Diagnostics

Code is a sequence of opcodes of seven kinds and of the data behind a push. The
interpreter is a stack of activations that follow the code (`NextPcs`: the next
instruction, or a jump destination, or the stop past the end), spend, call, create,
fault and return, and `truth` is what it really charged, where. The collector sees
only its hooks. `Follows` in `DiagnosticsProofs` says why it can infer the truth:
its stack is the interpreter's, and what a pending instruction is still owed is a
difference of two readings.

`Attribute` is what the gas attribution tool demands of such a report itself, before
it uses it: every code is under its own hash; frames are numbered, under earlier
parents, one deeper each, of a known kind and status, within their supply; every
entry is at an instruction of its frame's code with that opcode or is the one
implicit stop, no position comes twice; and the sums of gas and steps agree.
Collector and tool are written apart, one in C++ and one in Python, with their own
ideas of an instruction boundary (the one follows the interpreter, the other scans
the code, `Instructions`); `ReportsAreAttributable` says that they agree. Left out:
what the tool asks of build artifacts and source maps (`match_artifact`,
`report.py:57`, `:87-96`, `:123-130`), the header of the document and the names of
cases (`:20-45`), which are text of the diagnostics program's caller, the order of
entries, and failed allocations in the hooks, which the collector latches as it does
a limit (`diagnostics.cpp:76-80`) and which end in a refusal. The loop over cases ends
at the first one that fails, so only accepted cases come before a later one.

### Loader

A document is what its JSON says, not its text. A JSON scalar is a record of the
type, the prefix, the digits, their number and the value they spell, so that the
spellings the code tells apart (`0x0a`, `0xa`, `10`, a number too large for its
type) are apart in the model too; a string that is only compared is itself. Objects
are sequences of entries in the order in which they are visited, because that order
decides which of two statements about one block number comes first. Each loop of
the code takes one entry per turn (`next`); a throw leads to `"rejected"`. A
payload stands for its own hash, so that hash comparisons are comparisons of
contents. `Valid` is the reference: a definition without stages, order or
variables of what a bundle must satisfy.

### CommandLine

An argument is a pair of its text up to the first `=` and the rest, which is all
that `parse_options` looks at. What follows `--` reaches the library after the
arguments the program sets itself, and the library lets the last one win
(external: `LibraryFlags`). The loader runs inside as the module `Loader`;
verification and measuring are steps that succeed or fail, since `Replay` and
`BenchmarkRun` say when.

### Capture

A block of `Blocks` is one candidate for the selected number; it determines its
ancestors' hashes, every trace and every account. Each RPC call is an action
and is answered from `canon`, the block then canonical; `Reorg` moves it at any
time. A call of the manifest is a record, its normalised fields are abstract,
and `Acceptable` says which ones `normalize_call` accepts at a block (the gas
price is compared with the base fee). `eth_chainId` and `web3_sha3` do not depend
on the block and are folded into the calls beside them. A batch is answered at
one moment.

### TraceLogs and StateExpectation

The RPC's execution builds the tree `callTracer` returns and, beside it, the
`journal` of logs that stand. `CollectLogs` is the recursive visit as a
function over the frames: `Ordered` is the list one call of `visit` builds,
`LogsAt` the logs of one position.

`StateExpectation` executes the call twice in step, each machine on its own state:
the RPC's inside a transaction, which has raised the sender's nonce, and the
replay's as a direct root call on the state before it. Frames write storage, call,
create and fail; the address of a new contract is its creator's and the nonce it had,
so the machines may come to different addresses. `Post` is what prestateTracer's
diff shows of the first machine, `ExpectedState` what `expected_state` keeps of it
(nonces but the sender's, code, storage), and `Verified` is
`verify_expected_state` on the second. `ExpectationHoldsInReplay` says that the
expectation holds there and misses no change but a slot set to zero, which the diff
does not list. It is stated for executions in which the sender itself creates
nothing that stands: a sender with delegated code that does would create at another
address in the replay. Not modelled: self-destruction, calls into accounts created by
the call, balances, empty deployed code.

### BundleStore

Directories have identities, so that a removal that is under way (Python empties
the directory it opened, then removes what the path names) can meet a directory
another capture put in its place. A name that vanished while a tree is removed is
an error in some of the supported Python versions and skipped in later ones;
both are allowed. `rename` replaces nothing or an empty directory. The cleanup after
an exception ignores its own errors (`capture.py:763`): it may leave any of the
files and the directory, and the capture then ends `"uncleaned"`. A payload is
a value and stands for its own hash. The loader reads one file per step.

### Results and Publication

The runs of the benchmark write one file after another, in any order; a run may be
killed and the disk may be full, and a finished file may be edited: rows that stand
together removed, or a row of this or another run added. A row carries, invisibly,
the run that measured it. `LoadRun` is `load_run`, one read of the file. Runs
may say the same of themselves (reruns of one suite have the same mode, repetitions
and counters), and then nothing in an edited file tells their rows apart: a report of
it may mix them. `ReportsShowCompleteRuns` therefore says of every report that each
case it shows has one sample of each repetition, measured for that case in the
context's mode and count, none failed and all alike in what was executed, and only
of the report of a file nobody edited that every case is there with the samples
of one run. A case removed with all its rows is not noticed, as
docs/reporting.md:182-183 says.

A process of `Publication` looks at its output paths, refuses a symbolic link, an
input or another name of one (even when forced) and, unless forced, anything that
exists; loads; writes a temporary file beside each output and publishes it by a hard
link (which fails when the path exists) or, forced, by a rename. Any step may fail, the
removal of the temporary file included (`"left"`), and the process may be killed. An
attribution publishes two files, one after the other.

## Runs

| Run | What it asks | Result |
| --- | --- | --- |
| `replay` | what acceptance by the verifier means, and that honest suites are accepted | holds, 31 thousand states |
| `glob` | soundness, literal names, termination of the filter | holds, 123 thousand |
| `glob_stars` | the documented meaning of `*` | violated: a literal `*` in a name |
| `benchmark` | timer discipline, failures, output, promise, termination | holds, 59 thousand |
| `timed_region` | only the VM call is timed | violated: the state is destroyed after the timer resumes |
| `diagnostics` | exact attribution, limits, and that attribution accepts every report | holds, 457 thousand |
| `capture` | one block's snapshot, changes noticed, bounded retries | holds, 42 thousand |
| `capture_return` | a change of the block always fails the capture | violated: away and back again |
| `bundle_store` | whole bundles, atomic loads, preserved output | holds, 1.5 million |
| `trace_logs` | collected logs are the journal; the expected state holds in the replay | holds, 3.4 million |
| `commands` | which bundles load, what they mean, which options take effect, what 0 means | holds, 91 thousand |
| `report` | reports show whole measurements; whole outputs; existing files kept | holds, 1.8 million |

All of these programs stop when they are done, so deadlock checking is off
throughout; where ending matters it is a property (`Terminates`).

### The findings

1. `src/benchmark.cpp:159` compares literally before it looks for `*`. A name
   that contains `*` can consume the `*` of the pattern, which then is no
   wildcard: `--filter '*'` misses a case named `*b`. docs/benchmarking.md:58
   promises that `*` matches any sequence. The filter errs only by selecting too
   little (`SelectsOnlyMatches`), and only for names with an asterisk.
2. `src/benchmark.cpp:290` resumes the timer inside the scope that owns the
   iteration, so the transaction state is destroyed while the timer runs;
   docs/benchmarking.md:91-97 says the state is discarded before timing resumes
   and that state reset is excluded from the times.
3. `capture.py:518` compares the selected hash once. A chain that leaves the
   block and returns to it during the capture is not noticed, although
   docs/capture.md:83-84 says capture fails if the hash changes. On a chain that
   never returns, it does fail: that is the run `capture` and the theorem
   `ChangesNoticed`.

### Bounds and why they are enough

- `replay`: two cases, because what one does to the next and to the first again
  is the question; two programs that branch on what they read, with native
  variants that log differently, leave too much gas or read more; captures that
  leave out any one account, slot or hash, and expectations wrong in any one
  field; three timed iterations, enough to repeat a case after another one.
- `glob`: patterns up to 3 and names up to 4 characters over two letters, `?`
  and `*` (`glob_stars`: names up to 2): two stars with something between, and a
  retry that moves twice, fit.
- `benchmark`: two cases, two repetitions, two iterations per call and one
  calibration: a failure can fall in the first or a later iteration, repetition
  and case, and a write can fail before, between and after the rows of a case.
- `diagnostics`: three codes: a loop that calls and creates, pushes whose data looks
  like a call and the last of which the end of the code cuts short, and no code at
  all; gas 3 and charges of at most 1, four activations, seven visits, with the
  limits below them at 3 frames and 6 steps, so that both limits can be exceeded; two
  cases, so that one can leave something to the next.
- `capture`: three competing blocks that differ in parent, code, storage,
  beneficiary and in what a case touches; two cases; three ancestors in batches
  of two; the code's five attempts. `Depth` (256) and `ChunkSize` (50) are the
  constants made smaller.
- `bundle_store`: two captures, each forced or not, around an original bundle, a
  plain file or nothing; one load and one edit. Bundles share a manifest or a
  state, so that a mixture can agree in all files but one.
- `trace_logs`: four frames, three logs, two writes of one slot: a failed frame
  between two others, failed frames inside one another, a creation inside a failed
  creation, and a value that is changed and changed back, fit.
- `commands`: `verify` on the bundles that depart from a valid one in one section,
  in every way the checks tell apart, two entries per section where an entry can
  conflict with another one (`MaxInt64` 2, `MaxUint64` 4, `MaxUint256` 6, addresses
  of one byte, hashes of two, files of two units; so that each limit has values
  below, at and above it); and every short command line on a valid bundle (three
  words after `verify` and `smoke`, four after `run`, or two options with values
  and two words after `--`). Sections are checked one after the other and do not
  share state except where a departure concerns both, so one departure at a time
  meets every check, and the theorem does not have the bound.
- `report`: four runs (one, its rerun that says the same of itself, one that differs
  in a counter and fails in one case, and one of another mode that keeps aggregates
  only), two cases, two edits; one report beside all that can happen to the file, or
  two processes, which may be two reports of one path, forced or not, a report and an
  attribution, or two attributions that share an output, on paths that hold nothing,
  an earlier file, a link or an input.

### Fairness

`Glob`, `BenchmarkRun` and `Capture` assume weak fairness of the program's own
steps and nothing else: each is one thread that runs until it returns; a call of
the RPC ends by an answer or the client's timeout (`rpc.py:73`), and a call of
the VM by running out of gas. Nothing is assumed of the chain, and the library's
calibrations are bounded (`MaxCalibrations`). The other modules state safety only.

## Proofs

`ReplayProofs` proves for every suite, VM, set of accounts, values and number of
cases:

- `TypeCorrect`: `Spec => []TypeOK`, which includes that the gas used of a result
  that passed the range check lies between 0 and the message's gas;
- `Completeness`: an accepted execution read nothing that is not captured;
- `Agreement`: the two modes of an accepted case agree and match the case;
- `WholeSuiteFirst`: nothing is timed before the whole suite is accepted.

The three safety properties are not inductive. `IInv` adds why they hold:
`MissingRecorded` (every uncovered read of a verifying execution is in `missing`,
so a run with an empty `missing` read nothing uncovered), `InOrder` (the cases
before the current one are accepted in both modes, and `interpreter` is the
result just accepted in the first mode, against which the second is compared),
and `Compared` (every mismatch with the expectation is in `failures`). The
proofs go action by action; lemmas state what a read, a fresh iteration and a
halt do to the record. They rest on `ReplayAssumption` (types of the constants).

`CaptureProofs` proves `ChangesNoticed`: if the chain never returns to an
abandoned block, then `FailsIfBlockChanges`, for all blocks, manifests, batches
and retries. `Abandonment` is the invariant: the selected block is canonical or
abandoned, and a change has abandoned it; so the comparison at the end, which
finds it canonical, excludes a change. `OneSnapshot` proves `CapturedIsSnapshot`
under the same assumption. `Faithful` is its invariant: while nothing has changed
since the block was selected, what is collected at each point is that part of the
block's snapshot: the hashes of the numbers asked, the cases so far, the accounts
and slots they need, the entries hydrated so far. With `ChangesNoticed` a returned
bundle means that nothing changed. `TypeCorrect` is proved beside them (`TInv`); it
needs that a trace touches only slots there are (`CaptureAssumption`).

The same module proves the properties of `TraceLogs` and `StateExpectation`, for call
trees of any size: `CallLogs` (`CollectedLogsAreTheJournal`) and `Expectations`
(`ExpectationHoldsInReplay`). The invariant of the first, `LInv`, speaks of the tree
while it grows. `Tree`: frames are numbered as they begin, and a call belongs to one
frame. `Nested`: the running frames are in the last calls of each other and log
nothing while they wait. `Gave`: what each frame that ended gives is fixed, and what a
running one has to give so far is the stretch of the journal between its mark and
that of the call it waits for. A frame that ends in success hands its stretch to its
parent, whose stretch is the adjacent one (`LeaveAppends`, `Adjacent`); one that
fails hands over nothing, and the journal is cut where its stretch began. At the end
there is one solution of `visit`'s equation (`CollectedIs`), since calls have greater
numbers than their frames. For the second, `EInv` compares the two machines
(`Together`): the transaction's nonce of the sender is ahead of the replay's, and while
the sender has created nothing (`Used`) they agree in everything else (`Agreed`), in the
states that running frames would go back to as well (`Snapshots`): a failed creation
does not undo its creator's nonce, so once the sender has created in a frame that stands
the machines stay apart.

`StoreProofs` proves the four properties of `BundleStore` for any number of
captures, loads and edits and any payloads: `AtomicLoads`, `WholeBundles`,
`OutputPreserved`, `NoTemporaryLeft`. `Store` says that the path names only
directories that were published (`Settled`), that only forced captures remove
(`Forced`), and that a directory is complete from its last write until one of them
names it its victim (`Filled`). For loads, `Lacking` is the argument: without
edits a directory never gains files once it is at the path, so if it was not
whole when the load began it lacks a file that the load has yet to read; a load
that read all four was in a directory that stood whole.

It also proves what the design of the benchmark rests on, that an iteration
which nothing watches for missing state does what the verified one did:

- `TimedRepeats`: it reads only what that one read, and returns the same;
- `TimedSucceeds`: so it is never turned down.

The history keeps only what an accepted execution read and returned, not how it
went, so the invariant `RInv` says that there was a run: a sequence of snapshots
(`IsRun`), each following from the one before by `Follows`, that ends with what
the history has (`AcceptedRan`). A timed iteration is at one of the snapshots of
its case's run (`OnCompleteRun`). A snapshot has one successor (`OneSuccessor`),
since all sessions have the same base state (`SameBase`) and what is missing has
no influence, so a step of the iteration goes to the next snapshot, and at the
last one the checks find what they found before. The VM's determinism enters as
`Op` and `After` being functions.

And it proves the two promises of verification against the chain, for every chain,
every VM whose executions end and every suite captured from the chain:

- `PassingIsHonest` (`VerifiedSuitesAreHonest`): a suite that passes says what its
  cases do on the chain, in both modes, and covers all they touch there;
- `HonestPasses` (`HonestSuitesPass`): a suite that does so is never turned down.

The argument is one simulation, used in two directions. What is covered reads as on
the chain (`CoveredValues`, `Looks`: also a slot that is never looked up, because its
account does not exist, is empty there), so while everything a verifying execution
has read is covered, it is at a machine of the chain's run, has read what the run
has touched so far, and has judged the entries of the expected state as the chain
would (`Matches`; `StaysOnChain` goes step by step). This is `AsOnChain`. An
accepted execution has an empty `missing`, so all its reads were covered
(`MissingRecorded`) and it ends where the run ends: its expectation describes the
chain (`AcceptedDescribed`). Conversely an honest suite covers what the run touches
next, so what the execution reads next (`HonestReads`, which gives `HonestCovered`),
and each of the ways to be turned down is excluded: the environment, a result out
of range, a mismatch or a missing read, two modes that differ. `HInv` is the
conjunction; it needs both `IInv` and `RInv`, whose `SameBase` and
`MissingUncaptured` say that no case sees what another one did. An entry of an
account that does not exist is a failure and the rest of it is not read, as in the
code, which is why `Judged` bounds the reads of true entries only.

`BenchmarkProofs` proves the five safety and action properties of `BenchmarkRun`
(`TypeCorrect`, `Untimed`, `TimerRules`, `FailureStops`, `OutputKept`) and
`Implements`: `Spec => KeepsPromise`, the refinement of `Measurement`, for any
finite set of cases and any number of repetitions, iterations and calibrations.
`IInv` adds to the types where the timer stands at each point of `run_case`
(`Timer`), that a measuring command has verified its suite and selected something
(`Established`), that the rows owed are the samples taken (`Pending`), and that unless
a write failed the file holds the samples of every case that is finished (`Recorded`).
`Measurement` has no fairness, so the refinement is all of its specification.

`GlobProofs` proves, for patterns and names of any length, that the filter selects
only what the documented meaning describes (`SelectsSoundly`) and decides it
exactly for names without an asterisk (`DecidesPlainNames`). `Sound`: there is a
cut of pattern and name that reaches the current indices. `Complete`: any full
match can be had from the current indices or from the remembered star, which is
why remembering one star is enough.

`LoaderProofs` proves `LoadsExactlyTheValid`: for every bundle the staged pass of the
loader accepts exactly the valid ones, and the suite says what they say; and
`Lookups`: in an accepted suite a block hash has one value, no account is both
captured and absent, and names are unique. The invariant says what each stage and
each turn of a loop has established so far. It assumes of the documents only what
the JSON parser guarantees (`Parsed`: lists are finite, the block number is natural).

`PublicationProofs` proves for any processes, jobs and paths: `OutputsKept`, an
existing file stays unless a forced report replaces it, and a link or an input stays
even then; and `WholeOutputs`, which assumes `ForcedApart` (no forced report is given
an attribution's output): readers see whole files, an attribution's files appear in
order, and only a kill or a refused removal leaves a temporary file. `IInv` (`Typed`,
`Local`, `WholeFiles`, `InOrder`) ties what a path holds to how far its process is;
`Aimed` says that a process that got past the checks and is forced is aimed at no
link and no input. `CompleteRuns` proves `ReportsShowCompleteRuns` for any runs,
reruns that look alike included, and any edits and publishers. `Written`: every row
was measured by some run. So each case that passes `_case` is whole
(`AcceptedAreWhole`: as many samples as repetitions with distinct indexes below that
number have each index once). `OneRun`: a file nobody edited has the rows of its own
run's finished cases and is closed only when all are, so its report is one run's
(`UneditedIsOneRun`). What a process publishes is what it loaded (`CInv`).
`PublicationAssumption` says that reports which stand at the start are such ones.

`DiagnosticsProofs` proves all five properties of `Diagnostics`, for every code, gas
limit and limit of the collector: `TypeCorrect`; `LimitsReject`, a case is turned
down exactly when it exceeds a limit; `Exact`, the gas and the counts the hooks infer
are those of the interpreter; `Identities`, the sums of every report agree; and
`Attributable`, the attribution's checks of the report itself accept it. `IInv` is its invariant:
`Stacked` (the interpreter's stack is a chain of callers that hold, with what they have
lent, no more gas than they were given), `Limited` (the collector has failed just
when a limit is exceeded) and `Follows` (its stack is the interpreter's, and each
frame's records are the truth but for the instruction under way, whose cost is the
difference of two readings). The reports' identities are sums over
sets of any size; the lemmas on sums (`SumTake`, `Added`, `Changed`) come first in
the module. `Attributable` needs two more invariants: `CodesKnown` (each code is kept
under its hash, and every frame's is kept) and `Placed`, that the interpreter is always
at a boundary of the scanned code or at the one stop past it. The latter rests on
instructions not overlapping: the scan from the start and the interpreter, which also
jumps, step over the same data.

`LoaderProofs` also proves the two properties of `CommandLine`. `Configuration`
(`RunAsConfigured`): when the benchmark starts, every option of the program holds what
the command line says last, and no argument after `--` has overridden a setting of
the program; `AInv` says what the options hold after each pair of arguments, and rests
on `CommandAssumption`: what the program owns the library knows, and of it only
`--benchmark_enable_random_interleaving` may come without a value. `ExitStatus`
(`ZeroMeansDone`): status 0 means that help was asked for or that the work was done
on a suite that loaded; `OInv` says what has been done at each place.

Induction over sizes is done by hand throughout: `LeastNumber` gives the smallest
counterexample, and a smaller one is made of it.

Model-checked only: `Terminates` of `Glob`, `BenchmarkRun` and `Capture`: liveness
under fairness is outside the prover's reach. That an execution ends is likewise
an assumption of `OnChain`, not a theorem about `Op` and `After`; TLC evaluates it
on the instance. The three properties that are violated are disproved by TLC's
counterexamples.

## Not modelled, and why

- The Monad engine, Google Benchmark, the file system and the RPC are external:
  modelled from how this code uses them. Whether the engine reads storage by
  pages (`replay.cpp:149`) cannot be seen here and is left out. An account's
  code is part of its value. Code created and compiled during a Dual run is not
  distinguished from other native code.
- Texts: the usage text, the labels and the context of a results file, the JSON
  of a diagnostics report, the Markdown of both reports, messages of errors. The
  limit on the digits of a number inside the library `from_string` calls is part of
  which scalars exist. Environment variables of the benchmark library are left out.
- Hash functions: a payload stands for its hash, and the keccak of a code tells it
  apart from every other one; compression is left out, and with
  it the second hash of the state. `sha256_file` serves the context only.
- A metadata counter named like a field of a row passes the loader and is refused
  by the report only (`fixture.cpp:439`): rows are records with fixed fields here,
  so the two cannot meet. `Loader.Counter` has the rule as the code has it.
- The arithmetic of `derive_execution_gas` and the normalisation of a call's
  fields are part of the abstract traces and calls of `Capture`.
- Of the report: the comparison manifest (`load_comparisons`) and the statistics,
  which are arithmetic on rows already accepted. Of the attribution: finding the
  artifact that matches a code hash and decoding source maps, which is text
  processing without state.
- The Foundry helper (`ExecBench.sol`), which joins JSON strings, the release
  scripts, CI and packaging: tooling around the program, run by a person.

## Plan

1. Done: `Replay`, `Glob`, `BenchmarkRun` with `Measurement`, `Diagnostics` with the
   attribution's checks, `Capture`, `TraceLogs` with `StateExpectation`,
   `BundleStore`, `Loader`, `CommandLine`, `Results`, `Publication`; the theorems
   above.
2. Done: every safety and action property that a passing run checks is the
   statement of a theorem.
3. Models that remain: counters that collide with the fields of a row, which needs
   rows as functions from names; the gas arithmetic between tracer, fixture and
   replay (`derive_execution_gas`).
