----------------------------- MODULE Diagnostics -----------------------------
(***************************************************************************)
(* The gas collector of src/src/diagnostics.cpp and the loop that runs it  *)
(* over a suite (diagnose_fixture_suite in src/src/replay.cpp).            *)
(*                                                                         *)
(* The interpreter is external: a stack of activations whose opcodes spend *)
(* gas, call, create, fault and return.  It calls three hooks              *)
(* (profiled_interpreter.cpp, diagnostic_result.cpp): diagnostic_enter     *)
(* before a frame's first opcode, diagnostic_step before each opcode, with *)
(* the gas left then, and diagnostic_exit with the gas left at the end.    *)
(* From these the collector infers what each opcode spent; `truth' is what *)
(* the interpreter really charged.  Code is a sequence of opcodes and of   *)
(* the data that follows a push.                                           *)
(***************************************************************************)
EXTENDS Integers, Sequences, FiniteSets, SequencesExt, Functions

CONSTANTS
  Codes,           \* the bytecode that frames may run
  PushSize,        \* bytes of data after a push
  Pcs,             \* program counters
  GasLimit,        \* gas of a case's message
  MaxCharge,       \* bound on what an opcode is charged at once
  NumCases,
  MaxSteps, MaxFrames,        \* max_steps and max_frames
  MaxVisits, MaxActivations   \* bounds on the interpreter, above the limits

NoPc == -1
Opcodes == {"plain", "push", "jump", "jumpdest", "call", "create", "stop"}
Statuses == {"running", "success", "revert", "error"}

ASSUME DiagnosticsAssumption ==
  /\ Pcs \subseteq Nat /\ IsFiniteSet(Pcs) /\ PushSize \in Nat \ {0}
  /\ Codes \subseteq Seq(Opcodes)
  /\ \A code \in Codes : 0 .. (Len(code) + PushSize) \subseteq Pcs
  /\ GasLimit \in Nat /\ MaxCharge \in Nat /\ NumCases \in Nat
  /\ MaxSteps \in Nat /\ MaxFrames \in Nat
  /\ MaxVisits \in Nat /\ MaxActivations \in Nat

VARIABLES
  phase,           \* "idle", "running", "ended", "published" or "rejected"
  cases,           \* cases in the report so far
  gas,             \* gas left of the message when the case has ended
  activations,     \* the interpreter's stack: [id, gas, pc, busy]
  truth,           \* per activation ever entered, what really happened
  visits,          \* opcodes visited by the case
  collector        \* the thread-local Collector

machine == <<gas, activations, truth, visits>>
vars == <<phase, cases, machine, collector>>

-----------------------------------------------------------------------------
(* Bytecode, and the scan of it in sources.py.                             *)

\* keccak256, of which only that it tells code apart matters.
Keccak(code) == [keccak |-> code]
Hashes == {Keccak(code) : code \in Codes}
CodeMaps == UNION {[known -> Codes] : known \in SUBSET Hashes}

\* The interpreter pads code with stops.
OpcodeAt(code, pc) == IF pc < Len(code) THEN code[pc + 1] ELSE "stop"

Following(code, pc) == pc + 1 + IF OpcodeAt(code, pc) = "push" THEN PushSize ELSE 0

Positions(code) == 0 .. (Len(code) - 1)

Scanned(code, pcs) ==
  /\ code # << >> => 0 \in pcs
  /\ \A pc \in pcs : Following(code, pc) < Len(code) => Following(code, pc) \in pcs

\* instructions(): the first position, and with each instruction the one after it.
Instructions(code) ==
  {pc \in Positions(code) : \A pcs \in SUBSET Positions(code) : Scanned(code, pcs) => pc \in pcs}

\* The one position past the code that can be reached (terminal_pc of report.py).
Terminal(code) ==
  IF Instructions(code) = {} THEN 0
  ELSE Following(code, CHOOSE last \in Instructions(code) :
                         \A pc \in Instructions(code) : pc <= last)

-----------------------------------------------------------------------------
(* The collector.                                                          *)

NewCollector == [active |-> TRUE, failed |-> FALSE, steps |-> 0,
                 frames |-> << >>, stack |-> << >>, codes |-> << >>]
Failed(col) == [col EXCEPT !.failed = TRUE]

NoCounter == [count |-> 0, gas |-> 0]

\* A counter's opcode is kept apart, in `opcodes'.
Frame(parent, depth, code, creation, supplied) ==
  [parent |-> parent, depth |-> depth, code |-> code, creation |-> creation,
   supplied |-> supplied, used |-> 0, childGas |-> 0, status |-> "running",
   pendingPc |-> NoPc, pendingGas |-> 0, pendingChildren |-> 0,
   pcs |-> [p \in Pcs |-> NoCounter], opcodes |-> [p \in Pcs |-> "stop"]]

Top(col) == Last(col.stack)

\* The hooks do nothing before diagnostic_begin, after a failure, or after
\* diagnostic_finish.
Recording(col) == col.active /\ ~col.failed

\* What settle() charges to the pending opcode of frame f.
Cost(f, left) == f.pendingGas - left - f.pendingChildren
Overdrawn(f, left) == f.pendingPc # NoPc /\ Cost(f, left) < 0

\* Seeded fault: pending_children survives.
FaultySettle(f, left) ==
  IF f.pendingPc = NoPc THEN f
  ELSE [f EXCEPT !.pcs[f.pendingPc].gas = @ + Cost(f, left)]

Settle(f, left) ==
  IF f.pendingPc = NoPc THEN [f EXCEPT !.pendingChildren = 0]
  ELSE [f EXCEPT !.pcs[f.pendingPc].gas = @ + Cost(f, left), !.pendingChildren = 0]

\* A code is kept once, under its hash.
Learned(codes, code) ==
  [hash \in DOMAIN codes \cup {Keccak(code)} |->
     IF hash \in DOMAIN codes THEN codes[hash] ELSE code]

Entered(col, code, depth, supplied) ==
  LET parent == IF col.stack = << >> THEN 0 ELSE Top(col)
      caller == col.frames[parent]
      creation == parent # 0 /\ caller.opcodes[caller.pendingPc] = "create"
  IN [col EXCEPT !.stack = Append(@, Len(col.frames) + 1),
                 !.frames = Append(@, Frame(parent, depth, Keccak(code), creation, supplied)),
                 !.codes = Learned(@, code)]

\* Seeded fault: one frame more than the limit is let in.
FaultyEnter(col, code, depth, supplied) ==
  IF ~Recording(col) THEN col
  ELSE IF Len(col.frames) > MaxFrames THEN Failed(col)
  ELSE Entered(col, code, depth, supplied)

\* diagnostic_enter.  A frame's parent is on top of the stack, and must have a
\* calling opcode pending; 0 stands for no parent.  The depth is the message's.
Enter(col, code, depth, supplied) ==
  IF ~Recording(col) THEN col
  ELSE IF Len(col.frames) = MaxFrames THEN Failed(col)
  ELSE IF col.stack # << >> /\ col.frames[Top(col)].pendingPc = NoPc THEN Failed(col)
  ELSE Entered(col, code, depth, supplied)

\* Seeded fault: the counter is not told its opcode.
FaultyStep(col, pc, opcode, left) ==
  IF ~Recording(col) THEN col
  ELSE IF col.steps + 1 > MaxSteps \/ col.stack = << >> THEN Failed(col)
  ELSE LET f == col.frames[Top(col)] IN
       IF Overdrawn(f, left) THEN Failed(col)
       ELSE [col EXCEPT !.steps = @ + 1,
                        !.frames[Top(col)] =
                           [Settle(f, left) EXCEPT !.pendingPc = pc, !.pendingGas = left,
                                                   !.pcs[pc].count = @ + 1]]

\* diagnostic_step.
Step(col, pc, opcode, left) ==
  IF ~Recording(col) THEN col
  ELSE IF col.steps + 1 > MaxSteps \/ col.stack = << >> THEN Failed(col)
  ELSE LET f == col.frames[Top(col)] IN
       IF Overdrawn(f, left) THEN Failed(col)
       ELSE [col EXCEPT !.steps = @ + 1,
                        !.frames[Top(col)] =
                           [Settle(f, left) EXCEPT !.pendingPc = pc, !.pendingGas = left,
                                                   !.pcs[pc].count = @ + 1,
                                                   !.opcodes[pc] = opcode]]

\* Seeded fault: the caller's opcode in progress is not told of its child.
FaultyAddChild(f, used) == [f EXCEPT !.childGas = @ + used]

AddChild(f, used) ==
  [f EXCEPT !.childGas = @ + used, !.pendingChildren = @ + used]

\* diagnostic_exit.
Leave(col, status, left) ==
  IF ~Recording(col) THEN col
  ELSE IF col.stack = << >> THEN Failed(col)
  ELSE LET f == col.frames[Top(col)]
           used == f.supplied - left
           done == [Settle(f, left) EXCEPT !.used = used, !.status = status]
       IN IF Overdrawn(f, left) THEN Failed(col)
          ELSE [col EXCEPT !.stack = Front(@),
                           !.frames =
                              [i \in DOMAIN @ |->
                                 IF i = Top(col) THEN done
                                 ELSE IF i = f.parent THEN AddChild(@[i], used)
                                 ELSE @[i]]]

-----------------------------------------------------------------------------
(* diagnostic_finish.                                                      *)

SelfGas(f) == SumFunction([p \in DOMAIN f.pcs |-> f.pcs[p].gas])
Attributed(frames) == SumFunction([i \in DOMAIN frames |-> SelfGas(frames[i])])

FrameReconciles(f) == SelfGas(f) = f.used - f.childGas

Throws(col, verifiedGas) ==
  \/ col.failed \/ col.stack # << >>
  \/ \E i \in DOMAIN col.frames : ~FrameReconciles(col.frames[i])
  \/ Attributed(col.frames) \notin 0 .. verifiedGas

-----------------------------------------------------------------------------
(* A case of the report and attribute of                                   *)
(* src/analysis/monad_execbench_attribution/report.py, which reads it.     *)

\* What a frame's opcodes were charged, from its entries, each a pc's.
ByPc(entries) ==
  [p \in {e.pc : e \in entries} |-> CHOOSE e \in entries : e.pc = p]

\* Only opcodes that were visited have an entry; the list's order is left out.
CaseReport(col, verifiedGas) ==
  [gasUsed |-> verifiedGas, outside |-> verifiedGas - Attributed(col.frames),
   steps |-> col.steps, codes |-> col.codes,
   frames |-> [i \in DOMAIN col.frames |->
     LET f == col.frames[i] IN
     [id |-> i, parent |-> f.parent, depth |-> f.depth, status |-> f.status,
      code |-> f.code, kind |-> IF f.creation THEN "creation" ELSE "runtime",
      used |-> f.used, supplied |-> f.supplied, self |-> SelfGas(f),
      entries |-> {[pc |-> p, opcode |-> f.opcodes[p], count |-> f.pcs[p].count,
                    gas |-> f.pcs[p].gas] : p \in {q \in Pcs : f.pcs[q] # NoCounter}}]]]

\* An entry is of an instruction of its frame's code, or of the implicit stop.
EntryAccepted(code, e) ==
  /\ e.count >= 1 /\ e.gas >= 0
  /\ \/ e.pc = Terminal(code) /\ e.opcode = "stop"
     \/ e.pc \in Instructions(code) /\ e.opcode = OpcodeAt(code, e.pc)

FrameAccepted(report, i) ==
  LET f == report.frames[i] IN
  /\ f.id = i /\ f.parent < i
  /\ f.parent # 0 => f.depth = report.frames[f.parent].depth + 1
  /\ f.depth >= 0 /\ f.status \in {"success", "revert", "error"}
  /\ f.used \in 0 .. f.supplied
  /\ f.code \in DOMAIN report.codes /\ f.kind \in {"creation", "runtime"}
  /\ \A e \in f.entries : EntryAccepted(report.codes[f.code], e)
  /\ \A d, e \in f.entries : d.pc = e.pc => d = e
  /\ f.self >= 0 /\ SelfGas([pcs |-> ByPc(f.entries)]) = f.self

Children(frames, i) == {j \in DOMAIN frames : frames[j].parent = i}
ChildrenUsed(frames, i) ==
  SumFunctionOnSet([j \in DOMAIN frames |-> frames[j].used], Children(frames, i))

\* How often the frame's opcodes were visited.
Visited(f) == SumFunction([p \in DOMAIN f.pcs |-> f.pcs[p].count])

Attribute(report) ==
  /\ report.outside >= 0
  /\ \A hash \in DOMAIN report.codes : hash = Keccak(report.codes[hash])
  /\ \A i \in DOMAIN report.frames :
       /\ FrameAccepted(report, i)
       /\ report.frames[i].used = report.frames[i].self + ChildrenUsed(report.frames, i)
  /\ report.steps =
       SumFunction([i \in DOMAIN report.frames |->
                      Visited([pcs |-> ByPc(report.frames[i].entries)])])
  /\ SumFunction([i \in DOMAIN report.frames |-> report.frames[i].self]) + report.outside
       = report.gasUsed

-----------------------------------------------------------------------------
(* The interpreter, external, and the hooks it calls.                      *)

\* The opcode that activation a is in.
Executing(a) == OpcodeAt(truth[a.id].code, a.pc)

NewTruth(parent, code, supplied) ==
  [parent |-> parent, code |-> code,
   creation |-> parent # 0 /\ Executing(Last(activations)) = "create",
   supplied |-> supplied, left |-> supplied, status |-> "running",
   pcs |-> [p \in Pcs |-> NoCounter]]

Activation(id, supplied) == [id |-> id, gas |-> supplied, pc |-> NoPc, busy |-> FALSE]

Running == phase = "running" /\ activations # << >>
Active == Last(activations)
SetActive(a) == [activations EXCEPT ![Len(activations)] = a]
Charged(t, id, pc, amount) == [t EXCEPT ![id].pcs[pc].gas = @ + amount]

\* The first opcode is at 0; a jump, taken or not, goes to a jump destination or on.
NextPcs(code, pc) ==
  IF pc = NoPc THEN {0}
  ELSE {Following(code, pc)} \cup
       {dest \in Instructions(code) :
          OpcodeAt(code, pc) = "jump" /\ OpcodeAt(code, dest) = "jumpdest"}

\* An opcode is visited, with the gas it finds.
Visit(pc) ==
  /\ Running /\ ~Active.busy /\ visits < MaxVisits
  /\ pc \in NextPcs(truth[Active.id].code, Active.pc)
  /\ activations' = SetActive([Active EXCEPT !.pc = pc, !.busy = TRUE])
  /\ truth' = [truth EXCEPT ![Active.id].pcs[pc].count = @ + 1]
  /\ visits' = visits + 1
  /\ collector' = Step(collector, pc, OpcodeAt(truth[Active.id].code, pc), Active.gas)
  /\ UNCHANGED <<phase, cases, gas>>

\* It completes without a frame of its own: any opcode that is not the last,
\* and calls to precompiles and to accounts that cannot be executed.
Spend(amount) ==
  /\ Running /\ Active.busy /\ Executing(Active) # "stop"
  /\ amount <= Active.gas
  /\ activations' = SetActive([Active EXCEPT !.gas = @ - amount, !.busy = FALSE])
  /\ truth' = Charged(truth, Active.id, Active.pc, amount)
  /\ UNCHANGED <<phase, cases, gas, visits, collector>>

\* It enters a frame that runs `code', a creation's its init code.  A call that
\* transfers value gives the callee a stipend, which is less than the call is charged.
Call(code, amount, forwarded, stipend) ==
  /\ Running /\ Active.busy /\ Executing(Active) \in {"call", "create"}
  /\ Len(truth) < MaxActivations
  /\ amount + forwarded <= Active.gas /\ stipend <= amount
  /\ Executing(Active) = "create" => stipend = 0
  /\ LET supplied == forwarded + stipend
         caller == [Active EXCEPT !.gas = @ - amount - forwarded]
     IN /\ activations' = Append(SetActive(caller), Activation(Len(truth) + 1, supplied))
        /\ truth' = Append(Charged(truth, Active.id, Active.pc, amount - stipend),
                           NewTruth(Active.id, code, supplied))
        /\ collector' = Enter(collector, code, Len(activations), supplied)
  /\ UNCHANGED <<phase, cases, gas, visits>>

Charges == 0 .. MaxCharge

\* What the host charges when a frame has ended: a code deposit, to the creating
\* opcode; or something outside every frame, after the root.
HostCharges ==
  IF Len(activations) = 1 \/ Executing(activations[Len(activations) - 1]) = "create"
  THEN Charges ELSE {0}

\* The frame ends with `left' gas, after its last opcode was charged the rest.
EndFrame(status, left, deposit) ==
  LET ended == [Charged(truth, Active.id, Active.pc, Active.gas - left)
                  EXCEPT ![Active.id].left = left, ![Active.id].status = status]
      caller == activations[Len(activations) - 1]
      back == [caller EXCEPT !.gas = @ + left - deposit, !.busy = FALSE]
  IN /\ deposit <= left
     /\ collector' = Leave(collector, status, left)
     /\ IF Len(activations) = 1
        THEN /\ phase' = "ended" /\ gas' = left - deposit
             /\ activations' = << >> /\ truth' = ended
        ELSE /\ activations' = [Front(activations) EXCEPT ![Len(activations) - 1] = back]
             /\ truth' = Charged(ended, caller.id, caller.pc, deposit)
             /\ UNCHANGED <<phase, gas>>
     /\ UNCHANGED <<cases, visits>>

Stop(status, amount, deposit) ==
  /\ Running /\ Active.busy /\ Executing(Active) = "stop"
  /\ amount <= Active.gas /\ deposit \in HostCharges
  /\ EndFrame(status, Active.gas - amount, deposit)

\* An exceptional halt takes what is left.
Fault == Running /\ Active.busy /\ EndFrame("error", 0, 0)

-----------------------------------------------------------------------------
(* diagnose_fixture_suite.                                                 *)

\* Seeded fault: the collector is not reset between cases.
FaultyDiagnosticBegin == [collector EXCEPT !.active = TRUE]

DiagnosticBegin == NewCollector

\* A case whose message runs bytecode.
BeginBytecode(code) ==
  /\ phase = "idle" /\ cases < NumCases
  /\ phase' = "running"
  /\ activations' = <<Activation(1, GasLimit)>>
  /\ truth' = <<NewTruth(0, code, GasLimit)>>
  /\ visits' = 0
  /\ collector' = Enter(DiagnosticBegin, code, 0, GasLimit)
  /\ UNCHANGED <<cases, gas>>

\* One that calls a precompile: the interpreter never runs.
BeginPrecompile ==
  /\ phase = "idle" /\ cases < NumCases
  /\ phase' = "ended"
  /\ gas' \in 0 .. GasLimit
  /\ activations' = << >> /\ truth' = << >> /\ visits' = 0
  /\ collector' = DiagnosticBegin
  /\ UNCHANGED cases

VerifiedGas == GasLimit - gas

\* The case's result does not hold what it expects.
CaseFails ==
  /\ phase = "ended"
  /\ phase' = "rejected"
  /\ UNCHANGED <<cases, machine, collector>>

Finish ==
  /\ phase = "ended"
  /\ collector' = [collector EXCEPT !.active = FALSE]
  /\ IF Throws(collector, VerifiedGas)
     THEN phase' = "rejected" /\ UNCHANGED cases
     ELSE phase' = "idle" /\ cases' = cases + 1
  /\ UNCHANGED machine

\* The report is written to stdout once every case is in it.
Publish ==
  /\ phase = "idle" /\ cases = NumCases
  /\ phase' = "published"
  /\ UNCHANGED <<cases, machine, collector>>

Init ==
  /\ phase = "idle" /\ cases = 0 /\ gas = 0
  /\ activations = << >> /\ truth = << >> /\ visits = 0
  /\ collector = [NewCollector EXCEPT !.active = FALSE]

Interpreter ==
  \/ \E pc \in Pcs : Visit(pc)
  \/ \E amount \in Charges : Spend(amount)
  \/ \E code \in Codes, amount, stipend \in Charges, forwarded \in 0 .. GasLimit :
       Call(code, amount, forwarded, stipend)
  \/ \E status \in {"success", "revert"}, amount, deposit \in Charges :
       Stop(status, amount, deposit)
  \/ Fault

Next ==
  \/ Interpreter
  \/ \E code \in Codes : BeginBytecode(code)
  \/ BeginPrecompile \/ CaseFails \/ Finish \/ Publish

Spec == Init /\ [][Next]_vars

-----------------------------------------------------------------------------
(* Properties.                                                             *)

Frames ==
  [parent : Nat, depth : Nat, code : Hashes, creation : BOOLEAN, supplied : Nat,
   used : Nat, childGas : Nat, status : Statuses, pendingPc : Pcs \cup {NoPc}, pendingGas : Nat,
   pendingChildren : Nat, pcs : [Pcs -> [count : Nat, gas : Nat]],
   opcodes : [Pcs -> Opcodes]]

ActivationType == [id : Nat, gas : Nat, pc : Pcs \cup {NoPc}, busy : BOOLEAN]

TruthType ==
  [parent : Nat, code : Codes, creation : BOOLEAN, supplied : Nat, left : Nat,
   status : Statuses, pcs : [Pcs -> [count : Nat, gas : Nat]]]

CollectorType ==
  [active : BOOLEAN, failed : BOOLEAN, steps : 0 .. MaxSteps,
   frames : Seq(Frames), stack : Seq(Nat), codes : CodeMaps]

\* Every variable keeps its type; no counter is ever negative, and the limits
\* bound what a case can make the collector hold.
TypeOK ==
  /\ phase \in {"idle", "running", "ended", "published", "rejected"}
  /\ cases \in 0 .. NumCases /\ gas \in 0 .. GasLimit
  /\ activations \in Seq(ActivationType) /\ truth \in Seq(TruthType)
  /\ visits \in 0 .. MaxVisits
  /\ collector \in CollectorType /\ Len(collector.frames) <= MaxFrames
  /\ collector.stack \in Seq(1 .. Len(collector.frames))

\* attribution.md, "Exceeding a limit or failing gas reconciliation rejects the
\* whole diagnostic report": a case is turned down exactly when it exceeds a
\* limit.  Whatever the interpreter does, no cost comes out negative, no hook
\* finds its frame missing and no frame fails to reconcile.
RejectsExactlyOverLimits ==
  phase = "ended" =>
    (Throws(collector, VerifiedGas) <=> visits > MaxSteps \/ Len(truth) > MaxFrames)

\* The report says what happened: the frames in the order they were entered, who
\* called whom, the code each ran, which are creations, how each ended, which opcode
\* was visited where and how often, faulting visits included, and exactly what it was
\* charged, its children's gas and their stipends excluded.
AttributesExactly ==
  phase = "ended" /\ ~collector.failed =>
    /\ Len(collector.frames) = Len(truth)
    /\ \A i \in DOMAIN truth :
         LET f == collector.frames[i]
             t == truth[i]
         IN /\ f.parent = t.parent /\ f.code = Keccak(t.code) /\ f.creation = t.creation
            /\ f.supplied = t.supplied /\ f.used = t.supplied - t.left
            /\ f.status = t.status /\ f.pcs = t.pcs
            /\ \A p \in Pcs : t.pcs[p].count > 0 => f.opcodes[p] = OpcodeAt(t.code, p)

\* attribution.md: "frame self gas + direct child interpreter gas = frame
\* inclusive gas", and all self gas adds up to what the root frame used, of
\* which the verified gas is at least that.
ReportIdentities ==
  phase = "ended" /\ ~Throws(collector, VerifiedGas) =>
    LET frames == collector.frames
    IN /\ \A i \in DOMAIN frames :
            SelfGas(frames[i]) + ChildrenUsed(frames, i) = frames[i].used
       /\ Attributed(frames) = IF frames = << >> THEN 0 ELSE frames[1].used
       /\ Attributed(frames) <= VerifiedGas

\* What the collector publishes, the attribution accepts: its own checks, made on
\* the report alone, find every code under its hash, consecutive frames under earlier
\* parents, one deeper each, that run a code of the report and have ended within their
\* supply, every opcode at a boundary of its code or the one stop past its end, and
\* gas and steps that add up (diagnostics.cpp:169-222 against report.py:46-142).
ReportsAreAttributable ==
  phase = "ended" /\ ~Throws(collector, VerifiedGas) =>
    Attribute(CaseReport(collector, VerifiedGas))
=============================================================================
