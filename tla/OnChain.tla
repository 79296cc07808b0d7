------------------------------- MODULE OnChain -------------------------------
(***************************************************************************)
(* What the cases of a suite do on the chain it was captured from, as a    *)
(* reference for the verifier: no sessions, no recording database, no      *)
(* order of cases and checks, only the VM and the chain's own state.       *)
(* Against it stand the two promises of verification: a suite that passes  *)
(* describes the chain, and a suite that describes the chain passes.       *)
(***************************************************************************)
EXTENDS Replay

CONSTANTS
  Chain,           \* [Locations -> Values]: the chain at the captured block
  ChainRun         \* what the VM does from each entry, machine by machine

Machines == [vm : VmStates, written : [Stored -> Optional(Values)], logs : Seq(Values)]
Unwritten == [l \in Stored |-> NoValue]

\* What an execution finds at a location, and what it touches to find it: a slot
\* is looked up in its account, if that exists.
Held(written, l) == IF l \in Stored /\ written[l] # NoValue THEN written[l] ELSE Chain[l]
Touches(l) ==
  IF l \in Slots THEN {Owner[l]} \cup {s \in {l} : Chain[Owner[l]] # Zero} ELSE {l}

ChainStep(s, t) ==
  LET op == Op[s.vm] IN
  \/ op.kind = "read" /\ t = [s EXCEPT !.vm = After[@][Held(s.written, op.at)]]
  \/ op.kind = "write" /\ t = [s EXCEPT !.vm = After[@][op.value], !.written[op.at] = op.value]
  \/ op.kind = "log" /\ t = [s EXCEPT !.vm = After[@][op.value], !.logs = Append(@, op.value)]

IsChainRun(r, v) ==
  /\ r \in Seq(Machines) /\ r # << >>
  /\ r[1] = [vm |-> v, written |-> Unwritten, logs |-> << >>]
  /\ \A i \in 1 .. Len(r) - 1 : ChainStep(r[i], r[i + 1])
  /\ Op[r[Len(r)].vm].kind = "halt"

Entered == {InterpreterEntry[c] : c \in Cases} \cup {n[c] : n \in NativeEntries, c \in Cases}

\* Every execution pays gas for each operation, so it ends.  An account that does
\* not exist has empty slots.
ASSUME ChainAssumption ==
  /\ Chain \in [Locations -> Values]
  /\ \A s \in Slots : Chain[Owner[s]] = Zero => Chain[s] = Zero
  /\ \A v \in Entered : IsChainRun(ChainRun[v], v)

\* The suites hold what is on this chain.  How much of it they hold, and what they
\* expect of their cases, is for the verifier to judge.
ASSUME FixturesAreCaptured ==
  \A f \in Fixtures :
    /\ \A l \in f.accounts \cup f.slots \cup f.hashes : f.value[l] = Chain[l]
    /\ \A a \in f.absent : Chain[a] = Zero

-----------------------------------------------------------------------------
(* How an execution entered at v ends.                                     *)

Last(v) == ChainRun[v][Len(ChainRun[v])]

\* Writes and logs stand only if the message succeeds.
End(v) ==
  IF Op[Last(v).vm].status = "success" THEN Last(v)
  ELSE [Last(v) EXCEPT !.written = Unwritten, !.logs = << >>]

Result(c, v) ==
  LET halt == Op[End(v).vm] IN
  [status |-> halt.status, output |-> halt.output,
   gasUsed |-> Message[c].gas - halt.gasLeft, logs |-> End(v).logs]

TouchedAt(s) ==
  LET op == Op[s.vm] IN IF op.kind \in {"read", "write"} THEN Touches(op.at) ELSE {}

\* Before the first operation: the accounts a message names, and the delegate of
\* its recipient's code.
Warmed(c) ==
  LET m == Message[c] IN
  {Beneficiary, m.sender, m.recipient} \cup m.accessList
    \cup ({Delegate[Chain[m.recipient]]} \ {NoValue})

Touched(c, v) == Warmed(c) \cup UNION {TouchedAt(ChainRun[v][i]) : i \in DOMAIN ChainRun[v]}

-----------------------------------------------------------------------------
(* What a suite has to say.                                                *)

Covered(l) ==
  l \in fixture.accounts \cup fixture.absent \cup fixture.slots \cup fixture.hashes

Asserted(x) == {s \in Slots : x.slots[s] # NoValue}
CheckTouches(x) == {x.account} \cup UNION {Touches(s) : s \in Asserted(x)}

\* An entry of the expected state is true after the execution.
TrueOf(x, written) ==
  /\ Held(written, x.account) # Zero
  /\ x.info \in {NoValue, Held(written, x.account)}
  /\ \A s \in Asserted(x) : x.slots[s] = Held(written, s)

Describes(c, v) ==
  LET e == fixture.expected[c]
      r == Result(c, v)
  IN /\ r.gasUsed \in 0 .. Message[c].gas
     /\ e.status = r.status /\ e.output = r.output /\ e.gasUsed = r.gasUsed
     /\ e.logs \in {NoValue, r.logs}
     /\ \A i \in DOMAIN e.state : TrueOf(e.state[i], End(v).written)
     /\ \A l \in Touched(c, v) : Covered(l)
     /\ \A i \in DOMAIN e.state : \A l \in CheckTouches(e.state[i]) : Covered(l)

Honest ==
  /\ fixture.env = DefaultEnv /\ requestedEnv \in {fixture.env, NoValue}
  /\ \A c \in Cases :
       /\ Describes(c, InterpreterEntry[c]) /\ Describes(c, native[c])
       /\ Result(c, InterpreterEntry[c]) = Result(c, native[c])

\* A suite passes verification only when every case, executed on the chain
\* itself in either mode, ends as the suite says, touches nothing the suite
\* does not cover, and the modes agree (verify_fixture_suite).
VerifiedSuitesAreHonest == phase \in {"verified", "benchmark"} => Honest

\* No suite that describes the chain is turned down: what one case or one mode
\* did is never seen by the next (fixture-format.md, "Each case starts from the
\* same state file"), and no read is reported that the suite covers.
HonestSuitesPass == phase = "rejected" => ~Honest
=============================================================================
