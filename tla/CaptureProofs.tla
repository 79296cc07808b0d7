--------------------------- MODULE CaptureProofs ---------------------------
(***************************************************************************)
(* What the single comparison at the end of capture_suite is worth: on a   *)
(* chain that never returns to a block it has abandoned it notices every   *)
(* change, wherever in the conversation it fell, for any calls, blocks,    *)
(* batches and retries.  And while nothing changes, what the tool has      *)
(* collected at each point is that part of the block's snapshot, so what   *)
(* it returns is the whole of it.  Every variable keeps its type meanwhile,*)
(* whatever the RPC answers.  The last part is about what one trace is     *)
(* made into: the logs collected from it are those the call left, and the  *)
(* expected state written for it holds where the call ends.                *)
(***************************************************************************)
EXTENDS Capture, StateExpectation, FiniteSetTheorems, SequenceTheorems, WellFoundedInduction, TLAPS

\* While the tool asks, the selected block is canonical or was abandoned, and
\* any change since it was selected has abandoned it.
Abandonment ==
    /\ canon \notin past
    /\ pc \notin Ended \cup {"select"} => block = canon \/ block \in past
    /\ pc \notin Ended \cup {"select"} /\ changed => block \in past
    /\ pc = "select" => ~changed
    /\ FailsIfBlockChanges

\* A call of the tool other than the first and the last leaves the block and
\* the chain alone, and does not end in "captured".
LEMMA QuietCall ==
    ASSUME Abandonment, UNCHANGED <<chain, block>>,
           pc \notin Ended \cup {"select"}, pc' \notin {"select", "captured"}
    PROVE  Abandonment'
BY DEF Abandonment, FailsIfBlockChanges, chain, Ended

\* Where a call can lead.
LEMMA NextLocation ==
    ASSUME NEW n, NEW waiting
    PROVE  /\ AfterCase(n) \notin {"select", "captured"}
           /\ AfterHashes(waiting, n) \notin {"select", "captured"}
BY DEF AfterCase, AfterHashes

LEMMA CallPreserves ==
    ASSUME ~MayReturn, Abandonment, CaptureSuite
    PROVE  Abandonment'
<1>1. CASE Select
    BY <1>1 DEF Select, Abandonment, FailsIfBlockChanges, chain, Ended
<1>2. CASE Batch
    <2>1. PICK bad \in SUBSET Chunk : pc' = AfterHashes(bad, asked')
        BY <1>2 DEF Batch
    <2> QED BY <1>2, <2>1, NextLocation, QuietCall DEF Batch, Ended
<1>3. CASE FetchHash
    BY <1>3, NextLocation, QuietCall DEF FetchHash, Ended
<1>4. CASE FetchFails
    BY <1>4, QuietCall DEF FetchFails, Ended
<1>5. CASE TracePrestate
    BY <1>5, QuietCall DEF TracePrestate, Ended
<1>6. CASE TraceDiff
    BY <1>6, QuietCall DEF TraceDiff, Ended
<1>7. CASE TraceCall
    <2>1. pc' \notin {"select", "captured"}
        BY <1>7, NextLocation DEF TraceCall
    <2> QED BY <1>7, <2>1, QuietCall DEF TraceCall, Ended
<1>8. CASE GetProof
    BY <1>8, QuietCall DEF GetProof, Ended
<1>9. CASE GetCode
    <2>1. pc' \notin {"select", "captured"}
        BY <1>9 DEF GetCode
    <2> QED BY <1>9, <2>1, QuietCall DEF GetCode, Ended
<1>10. CASE Recheck
    <2>1. CASE canon = block
        \* The block has not been abandoned, so nothing has changed.
        BY <1>10, <2>1 DEF Recheck, Abandonment, FailsIfBlockChanges, chain, Ended
    <2>2. CASE canon # block
        BY <1>10, <2>2, QuietCall DEF Recheck, Ended
    <2> QED BY <2>1, <2>2
<1>11. CASE RpcFails
    BY <1>11 DEF RpcFails, Abandonment, FailsIfBlockChanges, chain, Ended
<1> QED BY <1>1, <1>2, <1>3, <1>4, <1>5, <1>6, <1>7, <1>8, <1>9, <1>10, <1>11
        DEF CaptureSuite

\* docs/capture.md:83-84, "Capture fails if the hash changes before the bundle
\* is complete", holds where the chain never returns to an abandoned block.
THEOREM ChangesNoticed ==
    ASSUME ~MayReturn
    PROVE  Spec => []FailsIfBlockChanges
<1>1. Init => Abandonment
    BY DEF Init, Abandonment, FailsIfBlockChanges
<1>2. ASSUME Abandonment, [Next]_vars PROVE Abandonment'
    <2>1. CASE CaptureSuite
        BY <1>2, <2>1, CallPreserves
    <2>2. CASE Reorg
        BY <1>2, <2>2 DEF Reorg, Abandonment, FailsIfBlockChanges, Ended
    <2>3. CASE UNCHANGED vars
        BY <1>2, <2>3 DEF vars, chain, Abandonment, FailsIfBlockChanges
    <2> QED BY <1>2, <2>1, <2>2, <2>3 DEF Next
<1>3. Abandonment => FailsIfBlockChanges
    BY DEF Abandonment
<1> QED BY <1>1, <1>2, <1>3, PTL DEF Spec

-----------------------------------------------------------------------------
(* What has been collected while the chain stood still.                    *)

CaseOf(i) ==
    CapturedCase(calls[i], Trace[block][calls[i]].post, Trace[block][calls[i]].status)
CasesTo(k) == [i \in 1..k |-> CaseOf(i)]
NeededBy(k) ==
    Keys(Beneficiary[block], {})
        \cup UNION {Requires(calls[i], Trace[block][calls[i]].touched) : i \in 1..k}
EntryOf(a) == Entry(Account[block][a], Account[block][a].code, SlotsOf(a, required))

Hydrating == {"proof", "code", "recheck", "captured"}

HashesKnown ==
    /\ asked \in 0..Depth /\ pending \subseteq 1..asked
    /\ hashes = [n \in (1..asked) \ pending |-> HashAt[block][n]]
    /\ pc = "batch" => pending = {} /\ asked < Depth
    /\ pc = "fetch" => pending # {}
    /\ pc \notin {"batch", "fetch"} => pending = {} /\ asked = Depth

CasesKnown ==
    /\ Len(cases) \in 0..Len(calls) /\ cases = CasesTo(Len(cases))
    /\ required = NeededBy(Len(cases))
    /\ pc \in {"batch", "fetch"} => Len(cases) = 0
    /\ pc \in {"prestate", "diff", "trace"} => Len(cases) < Len(calls)
    /\ pc \in Hydrating => Len(cases) = Len(calls)
    /\ reply = [pre |-> reply.pre, post |-> reply.post]
    /\ pc \in {"diff", "trace"} => reply.pre = Trace[block][Current].touched
    /\ pc = "trace" => reply.post = Trace[block][Current].post

AccountsKnown ==
    /\ accounts = [a \in DOMAIN accounts |-> EntryOf(a)]
    /\ DOMAIN accounts \subseteq AddressesOf(required)
    /\ pc \notin Hydrating => DOMAIN accounts = {}
    /\ pc \in {"recheck", "captured"} => DOMAIN accounts = AddressesOf(required)
    /\ pc = "code" => \E a \in AddressesOf(required) :
                        proof = [address |-> a, answer |-> Account[block][a]]

Typed ==
    /\ canon \in Blocks /\ block \in Blocks /\ calls \in Seq(Calls) /\ pc \in Locations
    /\ pc # "failed" => calls # <<>>

Fresh ==
    /\ hashes = Nothing /\ asked = 0 /\ pending = {} /\ reply = NoReply
    /\ cases = <<>> /\ accounts = Nothing

Faithful ==
    /\ Typed
    /\ pc = "select" => Fresh
    /\ pc \notin {"select", "failed"} /\ ~changed =>
         /\ pc # "captured" => block = canon
         /\ HashesKnown /\ CasesKnown /\ AccountsKnown

\* A call of the tool keeps Faithful if it extends what is known, which matters
\* only while the chain stands still.
LEMMA CallIsFaithful ==
    ASSUME Faithful, UNCHANGED <<chain, calls, block>>, pc \notin Ended \cup {"select"},
           pc' \in Locations \ {"select"},
           pc' # "failed" /\ block = canon /\ HashesKnown /\ CasesKnown /\ AccountsKnown =>
             (HashesKnown /\ CasesKnown /\ AccountsKnown)'
    PROVE  Faithful'
BY DEF Faithful, Typed, chain, Ended

\* The parts of the snapshot depend on the manifest and the block only.
LEMMA PartsStay ==
    ASSUME UNCHANGED <<calls, block>>
    PROVE  \A k : CasesTo(k)' = CasesTo(k) /\ NeededBy(k)' = NeededBy(k)
BY DEF CasesTo, CaseOf, NeededBy

\* The next batch is an interval.
LEMMA NextChunk ==
    ASSUME asked \in 0..Depth
    PROVE  /\ asked + Cardinality(Chunk) \in 0..Depth
           /\ 1..(asked + Cardinality(Chunk)) = (1..asked) \cup Chunk
           /\ asked < Depth => Cardinality(Chunk) > 0
<1> DEFINE last == IF asked + ChunkSize <= Depth THEN asked + ChunkSize ELSE Depth
<1>1. last \in Nat /\ asked \in Nat /\ asked <= last /\ last <= Depth
    BY CaptureAssumption
<1>2. Chunk = (asked + 1)..last
    BY CaptureAssumption DEF Chunk
<1> HIDE DEF last
<1>3. Cardinality(Chunk) = last - asked
    <2>1. Cardinality((asked + 1)..last) =
            IF asked + 1 > last THEN 0 ELSE last - (asked + 1) + 1
        BY <1>1, FS_Interval
    <2> QED BY <1>1, <1>2, <2>1
<1>4. asked < Depth => last > asked
    BY CaptureAssumption, <1>1 DEF last
<1> QED BY <1>1, <1>2, <1>3, <1>4, CaptureAssumption

\* There is a least pending number.
LEMMA LeastPending ==
    ASSUME asked \in 0..Depth, pending \subseteq 1..asked, pending # {}
    PROVE  \E least \in pending : \A k \in pending : least <= k
<1>1. pending \subseteq Nat
    BY CaptureAssumption
<1>2. \E Below : IsWellFoundedOn(Below, Nat) /\ \A j, k \in Nat : j < k => <<j, k>> \in Below
    <2>1. \A j, k \in Nat : j < k => <<j, k>> \in OpToRel(<, Nat)
        BY DEF OpToRel
    <2> QED BY <2>1, NatLessThanWellFounded
<1>3. PICK Below : IsWellFoundedOn(Below, Nat) /\ \A j, k \in Nat : j < k => <<j, k>> \in Below
    BY <1>2
<1>4. IsWellFoundedOn(Below, Nat)
    BY <1>3
<1>5. \E least \in pending : \A k \in pending : ~ (<<k, least>> \in Below)
    BY <1>1, <1>4, WFMin, Zenon
<1>6. PICK least \in pending : \A k \in pending : ~ (<<k, least>> \in Below)
    BY <1>5
<1>7. ASSUME NEW k \in pending PROVE least <= k
    <2>1. k \in Nat /\ least \in Nat /\ ~ (k < least)
        BY <1>1, <1>3, <1>6
    <2> QED BY <2>1
<1> QED BY <1>6, <1>7

\* The steps that ask for hashes.
LEMMA BatchIsFaithful == ASSUME Faithful, Batch PROVE Faithful'
<1>1. /\ UNCHANGED <<chain, calls, block>> /\ pc = "batch"
      /\ UNCHANGED <<cases, required, reply, proof, accounts>>
    BY DEF Batch, tracing, hydrating
<1>2. PICK bad \in SUBSET Chunk :
        /\ hashes' = [n \in DOMAIN hashes \cup (Chunk \ bad) |->
                        IF n \in Chunk THEN HashAt[canon][n] ELSE hashes[n]]
        /\ pending' = bad /\ asked' = asked + Cardinality(Chunk)
        /\ pc' = AfterHashes(bad, asked')
    BY DEF Batch
<1>3. ASSUME block = canon, HashesKnown, CasesKnown, AccountsKnown
      PROVE  (HashesKnown /\ CasesKnown /\ AccountsKnown)'
    <2>1. /\ asked \in 0..Depth /\ asked < Depth /\ pending = {} /\ Len(cases) = 0
          /\ hashes = [n \in (1..asked) \ pending |-> HashAt[block][n]]
        BY <1>1, <1>3 DEF HashesKnown, CasesKnown
    <2>2. /\ asked' \in 0..Depth /\ 1..asked' = (1..asked) \cup Chunk
          /\ bad \subseteq 1..asked'
        BY <1>2, <2>1, NextChunk
    <2>3. Chunk \cap (1..asked) = {}
        BY <2>1, CaptureAssumption DEF Chunk
    <2>4. hashes' = [n \in (1..asked') \ pending' |-> HashAt[block'][n]]
        <3>1. DOMAIN hashes \cup (Chunk \ bad) = (1..asked') \ pending'
            BY <1>2, <2>1, <2>2, <2>3
        <3>2. \A n \in (1..asked') \ pending' :
                (IF n \in Chunk THEN HashAt[canon][n] ELSE hashes[n]) = HashAt[block'][n]
            BY <1>1, <1>3, <2>1, <2>2
        <3> QED BY <1>2, <3>1, <3>2
    <2>5. /\ pc' = "batch" => pending' = {} /\ asked' < Depth
          /\ pc' = "fetch" => pending' # {}
          /\ pc' \notin {"batch", "fetch"} => pending' = {} /\ asked' = Depth
          /\ pc' \in {"batch", "fetch", "proof", "failed", "prestate"}
          /\ pc' = "prestate" => Len(calls) # 0
          /\ pc' = "proof" => Len(calls) = 0
        BY <1>2, <2>2, CaptureAssumption DEF AfterHashes, AfterCase
    <2>6. HashesKnown'
        BY <1>2, <2>2, <2>4, <2>5 DEF HashesKnown
    <2>7. Len(calls) \in Nat
        BY DEF Faithful, Typed
    <2>8. CasesKnown'
        BY <1>1, <1>3, <2>1, <2>5, <2>7, PartsStay DEF CasesKnown, Hydrating
    <2>9. AccountsKnown'
        <3>1. pc' # "proof"
            BY <1>1, <2>5, <2>7 DEF Faithful, Typed
        <3> QED BY <1>1, <1>3, <2>5, <3>1 DEF AccountsKnown, EntryOf, Hydrating
    <2> QED BY <2>6, <2>8, <2>9
<1>4. pc' \in Locations \ {"select"}
    BY <1>2 DEF AfterHashes, AfterCase, Locations, Ended
<1> QED BY <1>1, <1>3, <1>4, CallIsFaithful DEF Ended

LEMMA FetchIsFaithful == ASSUME Faithful, FetchHash PROVE Faithful'
<1> DEFINE n == Min1(pending)
<1>1. /\ UNCHANGED <<chain, calls, block, asked>> /\ pc = "fetch"
      /\ UNCHANGED <<cases, required, reply, proof, accounts>>
      /\ hashes' = [k \in DOMAIN hashes \cup {n} |-> IF k = n THEN HashAt[canon][n] ELSE hashes[k]]
      /\ pending' = pending \ {n}
      /\ pc' = AfterHashes(pending', asked)
    BY DEF FetchHash, tracing, hydrating, With
<1>2. ASSUME block = canon, HashesKnown, CasesKnown, AccountsKnown
      PROVE  (HashesKnown /\ CasesKnown /\ AccountsKnown)'
    <2>1. /\ asked \in 0..Depth /\ pending \subseteq 1..asked /\ pending # {} /\ Len(cases) = 0
          /\ hashes = [k \in (1..asked) \ pending |-> HashAt[block][k]]
        BY <1>1, <1>2 DEF HashesKnown, CasesKnown
    <2>2. n \in pending
        <3>1. PICK least \in pending : \A k \in pending : least <= k
            BY <2>1, LeastPending
        <3> QED BY <3>1 DEF Min1
    <2> HIDE DEF n
    <2>3. hashes' = [k \in (1..asked') \ pending' |-> HashAt[block'][k]]
        <3>1. DOMAIN hashes \cup {n} = (1..asked') \ pending'
            BY <1>1, <2>1, <2>2
        <3>2. \A k \in (1..asked') \ pending' :
                (IF k = n THEN HashAt[canon][n] ELSE hashes[k]) = HashAt[block'][k]
            BY <1>1, <1>2, <2>1, <2>2
        <3> QED BY <1>1, <3>1, <3>2
    <2>4. /\ pc' = "batch" => pending' = {} /\ asked' < Depth
          /\ pc' = "fetch" => pending' # {}
          /\ pc' \notin {"batch", "fetch"} => pending' = {} /\ asked' = Depth
          /\ pc' \in {"batch", "fetch", "proof", "failed", "prestate"}
          /\ pc' = "prestate" => Len(calls) # 0
          /\ pc' = "proof" => Len(calls) = 0
        BY <1>1, <2>1, CaptureAssumption DEF AfterHashes, AfterCase
    <2>5. HashesKnown'
        BY <1>1, <2>1, <2>3, <2>4 DEF HashesKnown
    <2>6. Len(calls) \in Nat
        BY DEF Faithful, Typed
    <2>7. CasesKnown'
        BY <1>1, <1>2, <2>1, <2>4, <2>6, PartsStay DEF CasesKnown, Hydrating
    <2>8. AccountsKnown'
        <3>1. pc' # "proof"
            BY <1>1, <2>4, <2>6 DEF Faithful, Typed
        <3> QED BY <1>1, <1>2, <2>4, <3>1 DEF AccountsKnown, EntryOf, Hydrating
    <2> QED BY <2>5, <2>7, <2>8
<1>3. pc' \in Locations \ {"select"}
    BY <1>1 DEF AfterHashes, AfterCase, Locations, Ended
<1> QED BY <1>1, <1>2, <1>3, CallIsFaithful DEF Ended

\* The steps that trace a case.  What is asked about is the case after the last.
LEMMA TracingIsFaithful ==
    ASSUME Faithful, TracePrestate \/ TraceDiff
    PROVE  Faithful'
<1>1. /\ UNCHANGED <<chain, calls, block, hashing, cases, required, proof, accounts>>
      /\ pc \in {"prestate", "diff"} /\ pc' \in {"diff", "trace"}
    BY DEF TracePrestate, TraceDiff, hydrating
<1>2. ASSUME block = canon, HashesKnown, CasesKnown, AccountsKnown
      PROVE  (HashesKnown /\ CasesKnown /\ AccountsKnown)'
    <2>1. HashesKnown' /\ AccountsKnown'
        BY <1>1, <1>2 DEF HashesKnown, AccountsKnown, EntryOf, Hydrating, hashing
    <2>2. Current' = Current /\ Trace[block'] = Trace[block] /\ block = canon
        BY <1>1, <1>2 DEF Current
    <2>3. CASE TracePrestate
        <3>1. /\ reply' = [reply EXCEPT !.pre = Trace[canon][Current].touched]
              /\ pc = "prestate" /\ pc' = "diff"
            BY <2>3 DEF TracePrestate
        <3>2. /\ reply' = [pre |-> reply'.pre, post |-> reply'.post]
              /\ reply'.pre = Trace[canon][Current].touched
            BY <1>2, <3>1 DEF CasesKnown
        <3> QED BY <1>1, <1>2, <2>1, <2>2, <3>1, <3>2, PartsStay DEF CasesKnown, Hydrating
    <2>4. CASE TraceDiff
        <3>1. /\ reply' = [reply EXCEPT !.post = Trace[canon][Current].post]
              /\ pc = "diff" /\ pc' = "trace"
            BY <2>4 DEF TraceDiff
        <3>2. /\ reply' = [pre |-> reply'.pre, post |-> reply'.post]
              /\ reply'.post = Trace[canon][Current].post /\ reply'.pre = reply.pre
            BY <1>2, <3>1 DEF CasesKnown
        <3> QED BY <1>1, <1>2, <2>1, <2>2, <3>1, <3>2, PartsStay DEF CasesKnown, Hydrating
    <2> QED BY <2>1, <2>3, <2>4
<1>3. pc' \in Locations \ {"select"} /\ pc \notin Ended \cup {"select"}
    BY <1>1 DEF Locations, Ended
<1> QED BY <1>1, <1>2, <1>3, CallIsFaithful

LEMMA TraceCallIsFaithful == ASSUME Faithful, TraceCall PROVE Faithful'
<1>1. /\ UNCHANGED <<chain, calls, block, hashing, proof, accounts>> /\ pc = "trace"
    BY DEF TraceCall, hydrating
<1>2. pc' \in Locations \ {"select"} /\ pc \notin Ended \cup {"select"}
    BY <1>1 DEF TraceCall, AfterCase, Locations, Ended
<1>3. ASSUME pc' # "failed", block = canon, HashesKnown, CasesKnown, AccountsKnown
      PROVE  (HashesKnown /\ CasesKnown /\ AccountsKnown)'
    <2> PICK k : k = Len(cases)
        OBVIOUS
    <2>1. /\ cases' = Append(cases, CapturedCase(Current, reply.post, Trace[canon][Current].status))
          /\ required' = required \cup Requires(Current, reply.pre)
          /\ reply' = NoReply /\ pc' = AfterCase(Len(cases'))
        BY <1>3 DEF TraceCall
    <2>2. /\ k \in Nat /\ Len(calls) \in Nat /\ k < Len(calls)
          /\ cases = CasesTo(k) /\ required = NeededBy(k)
          /\ reply.pre = Trace[block][Current].touched /\ reply.post = Trace[block][Current].post
        BY <1>1, <1>3 DEF CasesKnown, Faithful, Typed
    <2>3. Current = calls[k + 1] /\ canon = block
        BY <1>3 DEF Current
    <2>4. cases' = Append(cases, CaseOf(k + 1))
        BY <2>1, <2>2, <2>3 DEF CaseOf
    <2>5. /\ Len(cases') = k + 1
          /\ cases' = CasesTo(k + 1)
        <3> DEFINE C == {CaseOf(i) : i \in 1..k + 1}
        <3>1. cases \in Seq(C) /\ CaseOf(k + 1) \in C
            <4>1. \A i \in 1..k : CaseOf(i) \in C
                BY <2>2
            <4>2. k + 1 \in 1..k + 1
                BY <2>2
            <4> HIDE DEF C
            <4>3. [i \in 1..k |-> CaseOf(i)] \in Seq(C)
                BY <2>2, <4>1
            <4>4. CaseOf(k + 1) \in C
                BY <4>2 DEF C
            <4> QED BY <2>2, <4>3, <4>4 DEF CasesTo
        <3> HIDE DEF C
        <3>2. /\ Len(cases') = k + 1 /\ cases' \in Seq(C) /\ DOMAIN cases' = 1..k + 1
              /\ \A i \in 1..k : cases'[i] = cases[i]
              /\ cases'[k + 1] = CaseOf(k + 1)
            <4>1. \A e \in C : /\ Append(cases, e) \in Seq(C) /\ Len(Append(cases, e)) = k + 1
                               /\ DOMAIN Append(cases, e) = 1..k + 1
                               /\ Append(cases, e)[k + 1] = e
                               /\ \A i \in 1..k : Append(cases, e)[i] = cases[i]
                BY <2>2, <3>1
            <4> QED BY <2>4, <3>1, <4>1
        <3>3. \A i \in 1..k + 1 : cases'[i] = CaseOf(i)
            <4>1. \A i \in 1..k : cases[i] = CaseOf(i)
                BY <2>2 DEF CasesTo
            <4> QED BY <2>2, <3>2, <4>1
        <3>4. cases' = [i \in 1..k + 1 |-> cases'[i]]
            BY <3>2
        <3> QED BY <3>2, <3>3, <3>4 DEF CasesTo
    <2>6. required' = NeededBy(k + 1)
        <3>1. 1..k + 1 = 1..k \cup {k + 1}
            BY <2>2
        <3>2. required' = NeededBy(k) \cup Requires(calls[k + 1], Trace[block][calls[k + 1]].touched)
            BY <2>1, <2>2, <2>3
        <3> QED BY <3>1, <3>2 DEF NeededBy
    <2>7. /\ pc' \in {"proof", "prestate"}
          /\ pc' = "proof" => k + 1 = Len(calls)
          /\ pc' = "prestate" => k + 1 # Len(calls)
        BY <1>3, <2>1, <2>5 DEF AfterCase
    <2>8. CasesKnown'
        <3>1. Len(cases)' = k + 1 /\ Len(calls)' = Len(calls)
            BY <1>1, <2>5
        <3>2. cases' = CasesTo(Len(cases))' /\ required' = NeededBy(Len(cases))'
            BY <1>1, <2>5, <2>6, <3>1, PartsStay
        <3>3. reply' = [pre |-> reply'.pre, post |-> reply'.post]
            BY <2>1 DEF NoReply
        <3>4. PICK n : n = Len(calls)
            OBVIOUS
        <3>5. k \in Nat /\ n \in Nat /\ k < n
            BY <2>2, <3>4
        <3>6. k + 1 \in 0..n /\ k + 1 # 0 /\ (k + 1 # n => k + 1 < n)
            BY <3>5
        <3>7. Len(cases') \in 0..Len(calls') /\ Len(cases') # 0
            BY <3>1, <3>4, <3>6
        <3>8. /\ pc' = "prestate" => Len(cases') < Len(calls')
              /\ pc' = "proof" => Len(cases') = Len(calls')
            BY <2>7, <3>1, <3>4, <3>6
        <3> QED BY <2>7, <3>2, <3>3, <3>7, <3>8 DEF CasesKnown, Hydrating
    <2>9. HashesKnown'
        BY <1>1, <1>3, <2>7 DEF HashesKnown, hashing
    <2>10. AccountsKnown'
        BY <1>1, <1>3, <2>7 DEF AccountsKnown, EntryOf, Hydrating
    <2> QED BY <2>8, <2>9, <2>10
<1> QED BY <1>1, <1>2, <1>3, CallIsFaithful

\* The steps that hydrate the state.
LEMMA ProofIsFaithful == ASSUME Faithful, GetProof PROVE Faithful'
<1>1. /\ UNCHANGED <<chain, calls, block, hashing, tracing, accounts>>
      /\ pc = "proof" /\ pc' = "code"
    BY DEF GetProof
<1>2. PICK a \in Unhydrated : proof' = [address |-> a, answer |-> Account[canon][a]]
    BY DEF GetProof
<1>3. ASSUME block = canon, HashesKnown, CasesKnown, AccountsKnown
      PROVE  (HashesKnown /\ CasesKnown /\ AccountsKnown)'
    <2>1. HashesKnown' /\ CasesKnown'
        BY <1>1, <1>3, PartsStay DEF HashesKnown, CasesKnown, Hydrating, hashing, tracing
    <2>2. a \in AddressesOf(required)
        BY <1>2 DEF Unhydrated
    <2>3. AddressesOf(required)' = AddressesOf(required) /\ \A x : EntryOf(x)' = EntryOf(x)
        BY <1>1 DEF tracing, AddressesOf, EntryOf
    <2>4. AccountsKnown'
        <3>1. accounts' = [x \in DOMAIN accounts' |-> EntryOf(x)']
            BY <1>1, <1>3, <2>3 DEF AccountsKnown
        <3> QED BY <1>1, <1>2, <1>3, <2>2, <2>3, <3>1 DEF AccountsKnown, Hydrating
    <2> QED BY <2>1, <2>4
<1>4. pc' \in Locations \ {"select"} /\ pc \notin Ended \cup {"select"}
    BY <1>1 DEF Locations, Ended
<1> QED BY <1>1, <1>3, <1>4, CallIsFaithful

LEMMA CodeIsFaithful == ASSUME Faithful, GetCode PROVE Faithful'
<1>1. /\ UNCHANGED <<chain, calls, block, hashing, tracing>> /\ pc = "code"
    BY DEF GetCode
<1>2. pc' \in Locations \ {"select"} /\ pc \notin Ended \cup {"select"}
    BY <1>1 DEF GetCode, Locations, Ended
<1>3. ASSUME pc' # "failed", block = canon, HashesKnown, CasesKnown, AccountsKnown
      PROVE  (HashesKnown /\ CasesKnown /\ AccountsKnown)'
    <2>1. PICK a \in AddressesOf(required) :
            proof = [address |-> a, answer |-> Account[block][a]]
        BY <1>1, <1>3 DEF AccountsKnown
    <2>2. /\ accounts' = With(accounts, a, EntryOf(a))
          /\ pc' = IF DOMAIN accounts' = AddressesOf(required) THEN "recheck" ELSE "proof"
        BY <1>3, <2>1 DEF GetCode, EntryOf
    <2>3. HashesKnown' /\ CasesKnown'
        BY <1>1, <1>3, <2>2, PartsStay DEF HashesKnown, CasesKnown, Hydrating, hashing, tracing
    <2>4. AddressesOf(required)' = AddressesOf(required) /\ \A x : EntryOf(x)' = EntryOf(x)
        BY <1>1 DEF tracing, AddressesOf, EntryOf
    <2>5. /\ accounts' = [x \in DOMAIN accounts \cup {a} |-> EntryOf(x)]
          /\ DOMAIN accounts' = DOMAIN accounts \cup {a}
        <3>1. \A x \in DOMAIN accounts : accounts[x] = EntryOf(x)
            BY <1>3 DEF AccountsKnown
        <3> QED BY <2>2, <3>1 DEF With
    <2>6. accounts' = [x \in DOMAIN accounts' |-> EntryOf(x)']
        BY <2>4, <2>5
    <2>7. AccountsKnown'
        BY <1>3, <2>1, <2>2, <2>4, <2>5, <2>6 DEF AccountsKnown, Hydrating
    <2> QED BY <2>3, <2>7
<1> QED BY <1>1, <1>2, <1>3, CallIsFaithful

LEMMA SelectIsFaithful == ASSUME Faithful, Select PROVE Faithful'
<1>1. /\ UNCHANGED <<chain, calls, hashing, reply, cases, hydrating>> /\ Fresh
      /\ block' = canon /\ required' = Keys(Beneficiary[canon], {})
      /\ calls # <<>> /\ calls \in Seq(Calls)
    BY DEF Select, Faithful, Typed
<1>2. /\ pc' \in {"batch", "prestate", "failed"}
      /\ pc' = "batch" => Depth > 0
      /\ pc' = "prestate" => Depth = 0
    BY CaptureAssumption DEF Select
<1>3. PICK n : n = Len(calls)
    OBVIOUS
<1>4. n \in Nat /\ n > 0
    BY <1>1, <1>3
<1>5. HashesKnown' \/ pc' = "failed"
    <2>1. hashes' = [k \in (1..0) \ {} |-> HashAt[block'][k]]
        BY <1>1 DEF hashing, Fresh, Nothing
    <2> QED BY <1>1, <1>2, <2>1, CaptureAssumption DEF HashesKnown, hashing, Fresh
<1>6. CasesKnown' \/ pc' = "failed"
    <2>1. /\ Len(cases') = 0 /\ Len(cases') \in 0..Len(calls') /\ Len(cases') < Len(calls')
          /\ cases' = <<>> /\ reply' = NoReply
        BY <1>1, <1>3, <1>4 DEF Fresh
    <2>2. CasesTo(0)' = <<>>
        BY DEF CasesTo
    <2>3. required' = NeededBy(0)'
        <3>1. 1..0 = {}
            OBVIOUS
        <3> QED BY <1>1, <3>1 DEF NeededBy
    <2> QED BY <1>2, <2>1, <2>2, <2>3 DEF CasesKnown, Hydrating, NoReply
<1>7. AccountsKnown' \/ pc' = "failed"
    <2>1. accounts' = <<>> /\ DOMAIN accounts' = {}
        BY <1>1 DEF hydrating, Fresh, Nothing
    <2>2. accounts' = [a \in DOMAIN accounts' |-> EntryOf(a)']
        BY <2>1
    <2> QED BY <1>2, <2>1, <2>2 DEF AccountsKnown, Hydrating
<1>8. Typed'
    BY <1>1, <1>2 DEF Faithful, Typed, Locations, Ended, chain
<1>9. block' = canon' /\ pc' # "select"
    BY <1>1, <1>2 DEF chain
<1> QED BY <1>5, <1>6, <1>7, <1>8, <1>9 DEF Faithful

\* A step that moves the tool on without collecting, or moves the chain.
LEMMA RestIsFaithful ==
    ASSUME Faithful, FetchFails \/ Recheck \/ RpcFails \/ Reorg \/ UNCHANGED vars
    PROVE  Faithful'
<1>1. UNCHANGED <<calls, block, hashes, asked, pending, tracing, hydrating>>
    BY DEF FetchFails, Recheck, RpcFails, Reorg, vars, hashing
<1>2. /\ CasesKnown /\ pc' = pc => CasesKnown'
      /\ AccountsKnown /\ pc' = pc => AccountsKnown'
      /\ HashesKnown /\ pc' = pc => HashesKnown'
      /\ Fresh => Fresh'
    <2>1. CasesKnown /\ pc' = pc => CasesKnown'
        BY <1>1, PartsStay DEF CasesKnown, Hydrating, Current, tracing
    <2>2. AccountsKnown /\ pc' = pc => AccountsKnown'
        BY <1>1 DEF AccountsKnown, Hydrating, EntryOf, tracing, hydrating
    <2>3. (HashesKnown /\ pc' = pc => HashesKnown') /\ (Fresh => Fresh')
        BY <1>1 DEF HashesKnown, Fresh, tracing, hydrating
    <2> QED BY <2>1, <2>2, <2>3
<1>3. CASE RpcFails
    BY <1>1, <1>3 DEF RpcFails, Faithful, Typed, chain, Locations, Ended
<1>4. CASE FetchFails
    BY <1>1, <1>2, <1>4 DEF FetchFails, Faithful, Typed, chain, Locations, Ended
<1>5. CASE Recheck
    <2>1. CASE pc' = "failed"
        BY <1>1, <1>5, <2>1 DEF Recheck, Faithful, Typed, chain, Locations, Ended
    <2>2. CASE pc' # "failed"
        <3>1. pc = "recheck" /\ pc' = "captured" /\ canon' = canon /\ changed' = changed
            BY <1>5, <2>2 DEF Recheck, chain
        <3>2. HashesKnown => HashesKnown'
            BY <1>1, <3>1 DEF HashesKnown
        <3>3. CasesKnown => CasesKnown'
            BY <1>1, <3>1, PartsStay DEF CasesKnown, Hydrating, tracing
        <3>4. AccountsKnown => AccountsKnown'
            BY <1>1, <3>1 DEF AccountsKnown, Hydrating, EntryOf, tracing, hydrating
        <3> QED BY <1>1, <3>1, <3>2, <3>3, <3>4 DEF Faithful, Typed, Locations, Ended
    <2> QED BY <2>1, <2>2
<1>6. CASE Reorg
    <2>1. /\ pc' = pc /\ canon' \in Blocks
          /\ changed' = (changed \/ pc \notin Ended \cup {"select"})
        BY <1>6 DEF Reorg
    <2> QED BY <1>1, <1>2, <2>1 DEF Faithful, Typed, Ended
<1>7. CASE UNCHANGED vars
    BY <1>1, <1>2, <1>7 DEF vars, chain, Faithful, Typed
<1> QED BY <1>3, <1>4, <1>5, <1>6, <1>7

LEMMA FaithfulInvariant == Spec => []Faithful
<1>1. Init => Faithful
    BY CaptureAssumption DEF Init, Faithful, Typed, Fresh, Locations, Ended
<1>2. ASSUME Faithful, [Next]_vars PROVE Faithful'
    BY <1>2, SelectIsFaithful, BatchIsFaithful, FetchIsFaithful, TracingIsFaithful,
       TraceCallIsFaithful, ProofIsFaithful, CodeIsFaithful, RestIsFaithful
       DEF Next, CaptureSuite
<1> QED BY <1>1, <1>2, PTL DEF Spec

\* The requirements of all cases are what the snapshot needs.
LEMMA RequirementsAreNeeds ==
    ASSUME Typed, required = NeededBy(Len(calls))
    PROVE  /\ AddressesOf(required) = {x \in Addresses : NeedsAccount(block, x)}
           /\ \A a : SlotsOf(a, required) = {s \in Slots : NeedsSlot(block, a, s)}
<1> DEFINE touched(i) == Trace[block][calls[i]].touched
           ByTrace(i) == UNION {Keys(x, touched(i)[x]) : x \in DOMAIN touched(i)}
           ByEnds(i) == Keys(calls[i].from, {}) \cup Keys(calls[i].to, {})
           ByAccess(i) == UNION {Keys(e[1], {e[2]}) : e \in calls[i].access}
<1>0. \A i, key : key \in Requires(calls[i], touched(i)) <=>
                     key \in ByTrace(i) \/ key \in ByEnds(i) \/ key \in ByAccess(i)
    <2> TAKE i, key
    <2>1. key \in ByTrace(i) <=> \E x \in DOMAIN touched(i) : key \in Keys(x, touched(i)[x])
        OBVIOUS
    <2>2. key \in ByAccess(i) <=> \E e \in calls[i].access : key \in Keys(e[1], {e[2]})
        OBVIOUS
    <2>3. key \in ByEnds(i) <=> key \in Keys(calls[i].from, {}) \/ key \in Keys(calls[i].to, {})
        OBVIOUS
    <2> HIDE DEF ByTrace, ByEnds, ByAccess
    <2> QED BY <2>1, <2>2, <2>3 DEF Requires
<1>1. calls \in Seq(Calls) /\ DOMAIN calls = 1..Len(calls) /\ \A i \in DOMAIN calls : calls[i] \in Calls
    BY DEF Typed
<1>2. \A i \in DOMAIN calls : calls[i].access \subseteq Addresses \X Slots
    BY <1>1, CaptureAssumption
<1>3. \A i \in DOMAIN calls : \A a :
        <<a, NoSlot>> \in Requires(calls[i], touched(i)) <=>
          \/ a \in {calls[i].from, calls[i].to} \cup DOMAIN touched(i)
          \/ \E s \in Slots : <<a, s>> \in calls[i].access
    <2> TAKE i \in DOMAIN calls
    <2> TAKE a
    <2>1. \A e \in calls[i].access : e = <<e[1], e[2]>> /\ e[2] \in Slots
        BY <1>2
    <2>2. <<a, NoSlot>> \in ByAccess(i) <=>
            \E s \in Slots : <<a, s>> \in calls[i].access
        <3>1. ASSUME NEW e \in calls[i].access, <<a, NoSlot>> \in Keys(e[1], {e[2]})
              PROVE  \E s \in Slots : <<a, s>> \in calls[i].access
            <4>1. a = e[1]
                BY <3>1 DEF Keys
            <4> QED BY <2>1, <4>1
        <3>2. ASSUME NEW s \in Slots, <<a, s>> \in calls[i].access
              PROVE  <<a, NoSlot>> \in Keys(<<a, s>>[1], {<<a, s>>[2]})
            BY DEF Keys
        <3> QED BY <3>1, <3>2
    <2>3. <<a, NoSlot>> \in ByEnds(i) <=>
            a \in {calls[i].from, calls[i].to}
        BY DEF Keys
    <2>4. <<a, NoSlot>> \in ByTrace(i) <=>
            a \in DOMAIN touched(i)
        <3>1. \A x : <<a, NoSlot>> \in Keys(x, touched(i)[x]) <=> a = x
            BY DEF Keys
        <3> QED BY <3>1
    <2> HIDE DEF ByTrace, ByEnds, ByAccess
    <2> QED BY <1>0, <2>2, <2>3, <2>4
<1>4. \A i \in DOMAIN calls : \A a : \A s \in Slots :
        <<a, s>> \in Requires(calls[i], touched(i)) <=>
          \/ a \in DOMAIN touched(i) /\ s \in touched(i)[a]
          \/ <<a, s>> \in calls[i].access
    <2> TAKE i \in DOMAIN calls
    <2> TAKE a
    <2> TAKE s \in Slots
    <2>1. s # NoSlot
        BY SlotAssumption
    <2>2. <<a, s>> \in ByAccess(i) <=>
            <<a, s>> \in calls[i].access
        <3>1. ASSUME NEW e \in calls[i].access, <<a, s>> \in Keys(e[1], {e[2]})
              PROVE  <<a, s>> \in calls[i].access
            <4>1. a = e[1] /\ s = e[2]
                BY <2>1, <3>1 DEF Keys
            <4>2. e = <<e[1], e[2]>>
                BY <1>2
            <4> QED BY <4>1, <4>2
        <3>2. <<a, s>> \in Keys(<<a, s>>[1], {<<a, s>>[2]})
            BY DEF Keys
        <3> QED BY <3>1, <3>2
    <2>3. <<a, s>> \notin ByEnds(i)
        BY <2>1 DEF Keys
    <2>4. <<a, s>> \in ByTrace(i) <=>
            a \in DOMAIN touched(i) /\ s \in touched(i)[a]
        <3>1. \A x : <<a, s>> \in Keys(x, touched(i)[x]) <=> a = x /\ s \in touched(i)[x]
            BY <2>1 DEF Keys
        <3> QED BY <3>1
    <2> HIDE DEF ByTrace, ByEnds, ByAccess
    <2> QED BY <1>0, <2>2, <2>3, <2>4
<1>5. \A key : key \in required <=>
        \/ key \in Keys(Beneficiary[block], {})
        \/ \E i \in DOMAIN calls : key \in Requires(calls[i], touched(i))
    BY <1>1 DEF NeededBy
<1>6. AddressesOf(required) = {x \in Addresses : NeedsAccount(block, x)}
    <2>1. \A a : <<a, NoSlot>> \in Keys(Beneficiary[block], {}) <=> a = Beneficiary[block]
        BY DEF Keys
    <2>2. \A a : <<a, NoSlot>> \in required <=> NeedsAccount(block, a)
        BY <1>3, <1>5, <2>1 DEF NeedsAccount
    <2> QED BY <2>2 DEF AddressesOf
<1>7. ASSUME NEW a PROVE SlotsOf(a, required) = {s \in Slots : NeedsSlot(block, a, s)}
    <2>1. \A s \in Slots : <<a, s>> \notin Keys(Beneficiary[block], {})
        BY SlotAssumption DEF Keys
    <2>2. \A s \in Slots : <<a, s>> \in required <=> NeedsSlot(block, a, s)
        BY <1>4, <1>5, <2>1 DEF NeedsSlot
    <2> QED BY <2>2 DEF SlotsOf
<1> QED BY <1>6, <1>7

\* A returned bundle is one block's, although each part of it was asked for by number
\* while the chain moved: on a chain that never returns to an abandoned block, the
\* comparison at the end vouches for all the answers before it.
THEOREM OneSnapshot ==
    ASSUME ~MayReturn
    PROVE  Spec => []CapturedIsSnapshot
<1>1. Faithful /\ FailsIfBlockChanges => CapturedIsSnapshot
    <2> SUFFICES ASSUME Faithful, FailsIfBlockChanges, pc = "captured"
                 PROVE  [hashes |-> hashes, cases |-> cases, accounts |-> accounts] = Snapshot(block)
        BY DEF CapturedIsSnapshot
    <2>1. HashesKnown /\ CasesKnown /\ AccountsKnown /\ Typed
        BY DEF Faithful, FailsIfBlockChanges
    <2>2. hashes = HashAt[block]
        <3>1. pending = {} /\ asked = Depth /\ hashes = [n \in (1..asked) \ pending |-> HashAt[block][n]]
            BY <2>1 DEF HashesKnown
        <3>2. HashAt[block] = [n \in 1..Depth |-> HashAt[block][n]]
            BY <2>1, CaptureAssumption DEF Typed
        <3>3. (1..asked) \ pending = 1..Depth
            BY <3>1
        <3> QED BY <3>1, <3>2, <3>3
    <2>3. Len(cases) = Len(calls) /\ cases = CasesTo(Len(calls)) /\ required = NeededBy(Len(calls))
        BY <2>1 DEF CasesKnown, Hydrating
    <2>4. cases = [i \in DOMAIN calls |->
                     CapturedCase(calls[i], Trace[block][calls[i]].post,
                                  Trace[block][calls[i]].status)]
        <3>1. DOMAIN calls = 1..Len(calls)
            BY <2>1 DEF Typed
        <3> QED BY <2>3, <3>1 DEF CasesTo, CaseOf
    <2>5. /\ DOMAIN accounts = {x \in Addresses : NeedsAccount(block, x)}
          /\ \A a : SlotsOf(a, required) = {s \in Slots : NeedsSlot(block, a, s)}
        BY <2>1, <2>3, RequirementsAreNeeds DEF AccountsKnown
    <2>6. accounts = [a \in {x \in Addresses : NeedsAccount(block, x)} |->
                        Entry(Account[block][a], Account[block][a].code,
                              {s \in Slots : NeedsSlot(block, a, s)})]
        <3>1. accounts = [a \in DOMAIN accounts |->
                            Entry(Account[block][a], Account[block][a].code, SlotsOf(a, required))]
            BY <2>1 DEF AccountsKnown, EntryOf
        <3> QED BY <2>5, <3>1
    <2> QED BY <2>2, <2>4, <2>6 DEF Snapshot
<1> QED BY <1>1, FaithfulInvariant, ChangesNoticed, PTL

-----------------------------------------------------------------------------
(* Types, whatever the RPC answers and wherever the chain moves.  A block  *)
(* of the chain answers with what some candidate says; where the tool      *)
(* stands decides what has been asked.                                     *)

Touched == {Nothing} \cup {Trace[b][c].touched : b \in Blocks, c \in Calls}
Posts == {"no post"} \cup {Trace[b][c].post : b \in Blocks, c \in Calls}
CapturedCases == {CapturedCase(c, post, status) : c \in Calls, post \in Posts, status \in Statuses}

TInv ==
    /\ TypeOK
    /\ cases \in Seq(CapturedCases)
    /\ reply \in [pre : Touched, post : Posts]
    /\ pc # "failed" => calls # <<>>
    /\ pc = "select" => DOMAIN accounts = {}
    /\ pc \in {"select", "batch"} => pending = {}
    /\ pc = "fetch" => pending # {} /\ attempts < MaxAttempts
    /\ pc \in {"select", "batch", "fetch"} => cases = <<>>
    /\ pc \in {"prestate", "diff", "trace"} => Len(cases) < Len(calls)

LEMMA NoReplyTyped == NoReply \in [pre : Touched, post : Posts]
<1>1. Nothing \in Touched /\ "no post" \in Posts
    BY DEF Touched, Posts
<1> QED BY <1>1 DEF NoReply

\* An answer about a call is one some candidate gives.
LEMMA AnswerTyped ==
    ASSUME NEW b \in Blocks, NEW c \in Calls
    PROVE  /\ Trace[b][c].touched \in Touched /\ Trace[b][c].post \in Posts
           /\ Trace[b][c].status \in Statuses
<1>1. Trace[b][c].touched \in Touched
    BY DEF Touched
<1>2. Trace[b][c].post \in Posts
    <2> DEFINE post == Trace[b][c].post  posts == {Trace[x][y].post : x \in Blocks, y \in Calls}
    <2>1. post \in posts
        OBVIOUS
    <2>2. Posts = {"no post"} \cup posts
        BY DEF Posts
    <2> HIDE DEF posts
    <2> QED BY <2>1, <2>2
<1>3. Trace[b][c].status \in Statuses
    BY CaptureAssumption
<1> QED BY <1>1, <1>2, <1>3

\* The requirements of a case are addresses and slots.
LEMMA RequirementsTyped ==
    ASSUME NEW call \in Calls, NEW touched \in Touched
    PROVE  Requires(call, touched) \subseteq Addresses \X (Slots \cup {NoSlot})
<1>1. /\ DOMAIN touched \subseteq Addresses /\ \A a \in DOMAIN touched : touched[a] \subseteq Slots
    <2>1. CASE touched = Nothing
        BY <2>1 DEF Nothing
    <2>2. CASE touched # Nothing
        <3>1. PICK b \in Blocks, c \in Calls : touched = Trace[b][c].touched
            BY <2>2 DEF Touched
        <3> QED BY <3>1, CaptureAssumption
    <2> QED BY <2>1, <2>2
<1>2. \A a \in Addresses : \A slots \in SUBSET Slots : Keys(a, slots) \subseteq Addresses \X (Slots \cup {NoSlot})
    BY DEF Keys
<1>3. call.from \in Addresses /\ call.to \in Addresses /\ call.access \subseteq Addresses \X Slots
    BY CaptureAssumption
<1>4. UNION {Keys(a, touched[a]) : a \in DOMAIN touched} \subseteq Addresses \X (Slots \cup {NoSlot})
    <2> SUFFICES ASSUME NEW a \in DOMAIN touched
                 PROVE  Keys(a, touched[a]) \subseteq Addresses \X (Slots \cup {NoSlot})
        OBVIOUS
    <2> QED BY <1>1, <1>2
<1>5. UNION {Keys(e[1], {e[2]}) : e \in call.access} \subseteq Addresses \X (Slots \cup {NoSlot})
    <2> SUFFICES ASSUME NEW e \in call.access
                 PROVE  Keys(e[1], {e[2]}) \subseteq Addresses \X (Slots \cup {NoSlot})
        OBVIOUS
    <2>1. e[1] \in Addresses /\ {e[2]} \in SUBSET Slots
        BY <1>3
    <2> QED BY <1>2, <2>1
<1>6. Keys(call.from, {}) \cup Keys(call.to, {}) \subseteq Addresses \X (Slots \cup {NoSlot})
    BY <1>2, <1>3
<1> QED BY <1>4, <1>5, <1>6 DEF Requires

\* Where the hashes or a case lead: to a case that is there to be traced, and to no
\* place that waits for more.
LEMMA LeadsOn ==
    ASSUME NEW done \in Nat, calls \in Seq(Calls), done <= Len(calls)
    PROVE  /\ AfterCase(done) \in {"proof", "failed", "prestate"}
           /\ AfterCase(done) = "prestate" => done < Len(calls)
           /\ \A waiting, last :
                /\ AfterHashes(waiting, last) = "fetch" <=> waiting # {}
                /\ AfterHashes(waiting, last) \in {"fetch", "batch", AfterCase(0)}
BY DEF AfterCase, AfterHashes

\* A call that leaves the chain and the manifest alone.
LEMMA HashingTyped == ASSUME TInv, Batch \/ FetchHash \/ FetchFails PROVE TInv'
<1>1. /\ UNCHANGED <<canon, past, changed, calls, block, reply, cases, required, proof, accounts>>
      /\ pc \in {"batch", "fetch"}
    BY DEF Batch, FetchHash, FetchFails, chain, tracing, hydrating
<1>2. /\ asked \in 0..Depth /\ attempts \in 0..MaxAttempts /\ MaxAttempts \in Nat \ {0} /\ Depth \in Nat
      /\ DOMAIN hashes \cup pending = 1..asked
      /\ calls \in Seq(Calls) /\ calls # <<>> /\ Len(calls) \in Nat \ {0} /\ cases = <<>> /\ Len(cases) = 0
    BY <1>1, CaptureAssumption DEF TInv, TypeOK
<1>3. ASSUME asked' \in 0..Depth, DOMAIN hashes' \cup pending' = 1..asked', attempts' \in 0..MaxAttempts,
             pc' \in {"batch", "fetch", "proof", "failed", "prestate"},
             pc' = "batch" => pending' = {}, pc' = "fetch" => pending' # {} /\ attempts' < MaxAttempts
      PROVE  TInv'
    <2>1. TypeOK'
        BY <1>1, <1>3 DEF TInv, TypeOK, Locations, Ended, AddressesOf
    <2> QED BY <1>1, <1>2, <1>3, <2>1 DEF TInv
<1>4. /\ AfterCase(0) \in {"proof", "failed", "prestate"}
      /\ \A waiting, last : /\ AfterHashes(waiting, last) = "fetch" <=> waiting # {}
                            /\ AfterHashes(waiting, last) \in {"fetch", "batch", AfterCase(0)}
    BY <1>2, LeadsOn
<1>5. CASE Batch
    <2>1. PICK bad \in SUBSET Chunk :
            /\ DOMAIN hashes' = DOMAIN hashes \cup (Chunk \ bad)
            /\ pending' = bad /\ asked' = asked + Cardinality(Chunk)
            /\ pc' = AfterHashes(bad, asked') /\ attempts' = 0
        BY <1>5 DEF Batch
    <2>2. asked' \in 0..Depth /\ 1..asked' = (1..asked) \cup Chunk
        BY <1>2, <2>1, NextChunk
    <2>3. pending = {}
        BY <1>5 DEF Batch, TInv
    <2>4. DOMAIN hashes' \cup pending' = 1..asked'
        BY <1>2, <2>1, <2>2, <2>3
    <2>5. /\ pc' \in {"batch", "fetch", "proof", "failed", "prestate"}
          /\ pc' = "batch" => pending' = {}
          /\ pc' = "fetch" => pending' # {}
        BY <1>4, <2>1
    <2> QED BY <1>2, <1>3, <2>1, <2>2, <2>4, <2>5
<1>6. CASE FetchHash
    <2> DEFINE n == Min1(pending)
    <2>1. /\ DOMAIN hashes' = DOMAIN hashes \cup {n} /\ pending' = pending \ {n} /\ asked' = asked
          /\ pc' = AfterHashes(pending', asked) /\ attempts' = 0
        BY <1>6 DEF FetchHash, With
    <2>2. n \in pending
        <3>1. pending \subseteq 1..asked /\ pending # {}
            BY <1>2, <1>6 DEF FetchHash, TInv
        <3>2. PICK least \in pending : \A k \in pending : least <= k
            BY <1>2, <3>1, LeastPending
        <3> QED BY <3>2 DEF Min1
    <2> HIDE DEF n
    <2>3. DOMAIN hashes' \cup pending' = 1..asked'
        BY <1>2, <2>1, <2>2
    <2>4. /\ pc' \in {"batch", "fetch", "proof", "failed", "prestate"}
          /\ pc' = "batch" => pending' = {}
          /\ pc' = "fetch" => pending' # {}
        BY <1>4, <2>1
    <2> QED BY <1>2, <1>3, <2>1, <2>3, <2>4
<1>7. CASE FetchFails
    <2>1. /\ pc = "fetch" /\ attempts' = attempts + 1 /\ UNCHANGED <<hashes, asked, pending>>
          /\ pc' = IF attempts' < MaxAttempts THEN "fetch" ELSE "failed"
        BY <1>7 DEF FetchFails
    <2>2. attempts < MaxAttempts /\ pending # {}
        BY <2>1 DEF TInv
    <2>3. attempts' \in 0..MaxAttempts
        BY <1>2, <2>1, <2>2
    <2> QED BY <1>2, <1>3, <2>1, <2>2, <2>3
<1> QED BY <1>5, <1>6, <1>7

LEMMA TracingTyped == ASSUME TInv, TracePrestate \/ TraceDiff \/ TraceCall PROVE TInv'
<1>1. /\ UNCHANGED <<canon, past, changed, calls, block, hashes, asked, pending, attempts, proof, accounts>>
      /\ pc \in {"prestate", "diff", "trace"}
    BY DEF TracePrestate, TraceDiff, TraceCall, chain, hashing, hydrating
<1>2. /\ calls \in Seq(Calls) /\ cases \in Seq(CapturedCases) /\ Len(cases) \in Nat /\ Len(calls) \in Nat
      /\ Len(cases) < Len(calls) /\ reply \in [pre : Touched, post : Posts]
      /\ required \subseteq Addresses \X (Slots \cup {NoSlot}) /\ canon \in Blocks /\ calls # <<>>
      /\ DOMAIN accounts \subseteq AddressesOf(required)
    BY <1>1, CaptureAssumption DEF TInv, TypeOK
<1>3. Current \in Calls
    BY <1>2 DEF Current
<1>4. ASSUME pc' \in {"diff", "trace", "proof", "failed", "prestate"},
             reply' \in [pre : Touched, post : Posts], cases' \in Seq(CapturedCases), Len(cases') <= Len(calls),
             required \subseteq required', required' \subseteq Addresses \X (Slots \cup {NoSlot}),
             pc' \in {"prestate", "diff", "trace"} => Len(cases') < Len(calls)
      PROVE  TInv'
    <2>1. DOMAIN accounts' \subseteq AddressesOf(required')
        BY <1>1, <1>2, <1>4 DEF AddressesOf
    <2>2. TypeOK'
        BY <1>1, <1>4, <2>1 DEF TInv, TypeOK, Locations, AddressesOf, Ended
    <2> QED BY <1>1, <1>2, <1>4, <2>2 DEF TInv
<1>5. CASE TracePrestate
    <2>1. /\ reply' = [reply EXCEPT !.pre = Trace[canon][Current].touched] /\ pc' = "diff"
          /\ UNCHANGED <<cases, required>>
        BY <1>5 DEF TracePrestate
    <2>2. reply' \in [pre : Touched, post : Posts]
        <3>1. Trace[canon][Current].touched \in Touched
            BY <1>2, <1>3, AnswerTyped
        <3> QED BY <1>2, <2>1, <3>1
    <2> QED BY <1>2, <1>4, <2>1, <2>2
<1>6. CASE TraceDiff
    <2>1. /\ reply' = [reply EXCEPT !.post = Trace[canon][Current].post] /\ pc' = "trace"
          /\ UNCHANGED <<cases, required>>
        BY <1>6 DEF TraceDiff
    <2>2. reply' \in [pre : Touched, post : Posts]
        <3>1. Trace[canon][Current].post \in Posts
            BY <1>2, <1>3, AnswerTyped
        <3> QED BY <1>2, <2>1, <3>1
    <2> QED BY <1>2, <1>4, <2>1, <2>2
<1>7. CASE TraceCall
    <2> DEFINE status == Trace[canon][Current].status
    <2>1. CASE status = "unsupported"
        BY <1>2, <1>4, <1>7, <2>1 DEF TraceCall, tracing
    <2>2. CASE status # "unsupported"
        <3> DEFINE added == CapturedCase(Current, reply.post, status)
        <3>1. /\ cases' = Append(cases, added) /\ required' = required \cup Requires(Current, reply.pre)
              /\ reply' = NoReply /\ pc' = AfterCase(Len(cases'))
            BY <1>7, <2>2 DEF TraceCall
        <3>2. added \in CapturedCases
            <4>1. reply.post \in Posts /\ status \in Statuses
                BY <1>2, <1>3, AnswerTyped
            <4> HIDE DEF status
            <4> QED BY <1>3, <4>1 DEF CapturedCases
        <3> HIDE DEF added
        <3>3. cases' \in Seq(CapturedCases) /\ Len(cases') = Len(cases) + 1
            BY <1>2, <3>1, <3>2
        <3>4. reply' \in [pre : Touched, post : Posts]
            BY <3>1, NoReplyTyped
        <3>5. Requires(Current, reply.pre) \subseteq Addresses \X (Slots \cup {NoSlot})
            BY <1>2, <1>3, RequirementsTyped
        <3>6. Len(cases') \in Nat /\ Len(cases') <= Len(calls)
            BY <1>2, <3>3
        <3>7. /\ pc' \in {"proof", "failed", "prestate"}
              /\ pc' = "prestate" => Len(cases') < Len(calls)
            BY <1>2, <3>1, <3>6, LeadsOn
        <3> QED BY <1>2, <1>4, <3>1, <3>3, <3>4, <3>5, <3>6, <3>7
    <2> QED BY <2>1, <2>2
<1> QED BY <1>5, <1>6, <1>7

LEMMA HydratingTyped == ASSUME TInv, GetProof \/ GetCode PROVE TInv'
<1>1. /\ UNCHANGED <<canon, past, changed, calls, block, hashes, asked, pending, attempts, reply, cases, required>>
      /\ pc \in {"proof", "code"} /\ pc' \in {"proof", "code", "recheck", "failed"}
    BY DEF GetProof, GetCode, chain, hashing, tracing
<1>2. ASSUME DOMAIN accounts' \subseteq AddressesOf(required),
             pc' = "code" => proof'.address \in Unhydrated'
      PROVE  TInv'
    <2>1. TypeOK'
        BY <1>1, <1>2 DEF TInv, TypeOK, Locations, Ended, AddressesOf
    <2> QED BY <1>1, <2>1 DEF TInv
<1>3. CASE GetProof
    <2>1. PICK a \in Unhydrated : proof' = [address |-> a, answer |-> Account[canon][a]]
        BY <1>3 DEF GetProof
    <2>2. proof'.address \in Unhydrated' /\ accounts' = accounts
        BY <1>1, <1>3, <2>1 DEF GetProof, Unhydrated, AddressesOf
    <2> QED BY <1>2, <2>2 DEF TInv, TypeOK
<1>4. CASE GetCode
    <2>1. proof.address \in AddressesOf(required)
        BY <1>4 DEF GetCode, TInv, TypeOK, Unhydrated
    <2>2. DOMAIN accounts' \subseteq DOMAIN accounts \cup {proof.address} /\ pc' # "code"
        BY <1>4 DEF GetCode, With
    <2> QED BY <1>2, <2>1, <2>2 DEF TInv, TypeOK
<1> QED BY <1>3, <1>4

\* Every variable has its type, whatever fails and however the chain moves.
THEOREM TypeCorrect == Spec => []TypeOK
<1>1. Init => TInv
    <2> SUFFICES ASSUME Init PROVE TInv
        OBVIOUS
    <2>1. DOMAIN Nothing = {} /\ 1..0 = {} /\ Len(<<>>) = 0
        BY DEF Nothing
    <2>2. NoReply \in [pre : Touched, post : Posts]
        BY NoReplyTyped
    <2>3. calls \in Seq(Calls) /\ Len(calls) \in Nat
        BY CaptureAssumption DEF Init
    <2>4. TypeOK
        <3>1. /\ DOMAIN hashes \cup pending = 1..asked /\ DOMAIN accounts = {}
              /\ asked = 0 /\ attempts = 0 /\ Len(cases) = 0
            BY <2>1 DEF Init
        <3>2. asked \in 0..Depth /\ attempts \in 0..MaxAttempts /\ Len(cases) <= Len(calls)
            BY <2>3, <3>1, CaptureAssumption
        <3>3. pc \in Locations /\ pc # "code"
            BY DEF Init, Locations, Ended
        <3> QED BY <3>1, <3>2, <3>3 DEF Init, TypeOK
    <2> QED BY <2>1, <2>2, <2>4 DEF Init, TInv
<1>2. ASSUME TInv, [Next]_vars PROVE TInv'
    <2>1. CASE Select
        <3>1. /\ block' = canon /\ required' = Keys(Beneficiary[canon], {})
              /\ pc' \in {"batch", "prestate", "failed"} /\ pc = "select"
              /\ UNCHANGED <<canon, past, changed, calls, hashes, asked, pending, attempts,
                             reply, cases, proof, accounts>>
            BY <2>1 DEF Select, chain, hashing, hydrating
        <3>2. required' \subseteq Addresses \X (Slots \cup {NoSlot})
            BY <1>2, <3>1, CaptureAssumption DEF Keys, TInv, TypeOK
        <3>3. calls \in Seq(Calls) /\ calls # <<>> /\ cases = <<>> /\ Len(cases) < Len(calls)
            BY <1>2, <3>1, CaptureAssumption DEF TInv, TypeOK
        <3>4. DOMAIN accounts = {}
            BY <1>2, <3>1 DEF TInv
        <3>5. TypeOK'
            BY <1>2, <3>1, <3>2, <3>4 DEF TInv, TypeOK, Locations, Ended, AddressesOf
        <3> QED BY <1>2, <3>1, <3>3, <3>5 DEF TInv
    <2>2. CASE Recheck \/ RpcFails
        <3>1. /\ UNCHANGED <<canon, past, changed, calls, block, hashes, asked, pending, attempts,
                             reply, cases, required, proof, accounts>>
              /\ pc' \in {"captured", "failed"} /\ (pc = "failed" => pc' = "failed")
            BY <2>2 DEF Recheck, RpcFails, chain, hashing, tracing, hydrating
        <3>2. TypeOK'
            BY <1>2, <3>1 DEF TInv, TypeOK, Locations, Ended, AddressesOf
        <3> QED BY <1>2, <3>1, <3>2 DEF TInv
    <2>3. CASE Reorg
        <3>1. /\ UNCHANGED <<calls, pc, block, hashes, asked, pending, attempts,
                             reply, cases, required, proof, accounts>>
              /\ canon' \in Blocks /\ past' = past \cup {canon} /\ changed' \in BOOLEAN
            BY <1>2, <2>3 DEF Reorg, hashing, tracing, hydrating, TInv, TypeOK
        <3>2. TypeOK'
            BY <1>2, <3>1 DEF TInv, TypeOK, AddressesOf, Unhydrated
        <3> QED BY <1>2, <3>1, <3>2 DEF TInv
    <2>4. CASE UNCHANGED vars
        BY <1>2, <2>4 DEF vars, chain, hashing, tracing, hydrating, TInv, TypeOK, AddressesOf, Unhydrated
    <2> QED BY <1>2, <2>1, <2>2, <2>3, <2>4, HashingTyped, TracingTyped, HydratingTyped DEF Next, CaptureSuite
<1>3. TInv => TypeOK
    BY DEF TInv
<1> QED BY <1>1, <1>2, <1>3, PTL DEF Spec


(***************************************************************************)
(* collect_logs and expected_state.  `visit' starts from the root and the  *)
(* logs come from all over the tree; while the tree grows, what a frame    *)
(* that ended will give is fixed, and what a running one has to give so    *)
(* far is the stretch of the journal from where it began to where its      *)
(* running call did.                                                       *)
(***************************************************************************)
\* Induction over sizes, as a choice of the least.
LEMMA LeastNumber ==
    ASSUME NEW T, T \subseteq Nat, T # {}
    PROVE  \E n \in T : \A m \in T : n <= m
<1>1. \E R : IsWellFoundedOn(R, Nat) /\ \A j, k \in Nat : j < k => <<j, k>> \in R
    <2>1. \A j, k \in Nat : j < k => <<j, k>> \in OpToRel(<, Nat)
        BY DEF OpToRel
    <2> QED BY <2>1, NatLessThanWellFounded
<1>2. PICK R : IsWellFoundedOn(R, Nat) /\ \A j, k \in Nat : j < k => <<j, k>> \in R
    BY <1>1
<1>3. IsWellFoundedOn(R, Nat)
    BY <1>2
<1>4. PICK n \in T : \A m \in T : ~ (<<m, n>> \in R)
    BY <1>3, WFMin, Zenon
<1>5. ASSUME NEW m \in T PROVE n <= m
    <2>1. m \in Nat /\ n \in Nat /\ ~ (m < n)
        BY <1>2, <1>4
    <2> QED BY <2>1
<1> QED BY <1>5

\* g[i] joins the first i elements of s.
Joins(s, g) ==
    \A i \in 1 .. Len(s) : g[i] = IF i = 1 THEN s[i] ELSE g[i - 1] \o s[i]

LEMMA JoinsExists ==
    ASSUME NEW S
    PROVE  \A s \in Seq(Seq(S)) : s # << >> => \E g \in [1 .. Len(s) -> Seq(S)] : Joins(s, g)
<1> DEFINE Good(s) == \E g \in [1 .. Len(s) -> Seq(S)] : Joins(s, g)
<1> DEFINE Bad == {s \in Seq(Seq(S)) : s # << >> /\ ~Good(s)}
<1> DEFINE Sizes == {n \in Nat : \E s \in Bad : Len(s) = n}
<1> SUFFICES ASSUME Bad # {} PROVE FALSE
    OBVIOUS
<1>1. PICK n \in Sizes : \A m \in Sizes : n <= m
    <2>1. PICK s : s \in Bad
        OBVIOUS
    <2>2. Len(s) \in Nat
        BY <2>1
    <2> HIDE DEF Bad
    <2>3. Sizes \subseteq Nat /\ Sizes # {}
        BY <2>1, <2>2
    <2> HIDE DEF Sizes
    <2> QED BY <2>3, LeastNumber
<1>2. PICK s \in Bad : Len(s) = n
    BY <1>1
<1>3. s \in Seq(Seq(S)) /\ n \in Nat \ {0} /\ \A i \in 1 .. n : s[i] \in Seq(S)
    BY <1>2
<1>4. CASE n = 1
    <2>1. [i \in 1 .. 1 |-> s[1]] \in [1 .. Len(s) -> Seq(S)] /\ Joins(s, [i \in 1 .. 1 |-> s[1]])
        BY <1>2, <1>3, <1>4 DEF Joins
    <2> QED BY <1>2, <2>1
<1>5. CASE n > 1
    <2> DEFINE r == SubSeq(s, 1, n - 1)
    <2>1. r \in Seq(Seq(S)) /\ Len(r) = n - 1 /\ \A i \in 1 .. n - 1 : r[i] = s[i]
        BY <1>2, <1>3, <1>5
    <2> HIDE DEF r
    <2>2. r # << >>
        BY <1>5, <1>3, <2>1
    <2>3. Good(r)
        <3>1. n - 1 \notin Sizes /\ n - 1 \in Nat
            BY <1>1, <1>3
        <3> QED BY <2>1, <2>2, <3>1
    <2>4. PICK g \in [1 .. Len(r) -> Seq(S)] : Joins(r, g)
        BY <2>3
    <2> DEFINE h == [i \in 1 .. n |-> IF i = n THEN g[n - 1] \o s[n] ELSE g[i]]
    <2>5. \A i \in 1 .. n : i # n => i \in 1 .. n - 1
        BY <1>3
    <2>6. g[n - 1] \in Seq(S) /\ s[n] \in Seq(S) /\ \A i \in 1 .. n - 1 : g[i] \in Seq(S)
        BY <1>3, <1>5, <2>1, <2>4
    <2>7. g[n - 1] \o s[n] \in Seq(S)
        BY <2>6, ConcatProperties
    <2>8. h \in [1 .. Len(s) -> Seq(S)]
        BY <1>2, <2>5, <2>6, <2>7
    <2>9. ASSUME NEW i \in 1 .. n PROVE h[i] = IF i = 1 THEN s[i] ELSE h[i - 1] \o s[i]
        <3>1. CASE i = n
            <4>1. i # 1 /\ h[i] = g[n - 1] \o s[n] /\ h[n - 1] = g[n - 1]
                <5>1. n \in 1 .. n /\ n - 1 \in 1 .. n /\ n - 1 # n /\ n # 1
                    BY <1>3, <1>5
                <5> QED BY <3>1, <5>1
            <4> HIDE DEF h
            <4> QED BY <3>1, <4>1
        <3>2. CASE i # n
            <4>1. i \in 1 .. n - 1 /\ h[i] = g[i] /\ r[i] = s[i] /\ i \in 1 .. Len(r)
                BY <1>3, <2>1, <2>5, <3>2
            <4>2. i # 1 => i - 1 \in 1 .. n /\ i - 1 # n
                BY <1>3, <4>1
            <4>3. i # 1 => h[i - 1] = g[i - 1]
                BY <4>2
            <4>4. g[i] = IF i = 1 THEN r[i] ELSE g[i - 1] \o r[i]
                BY <2>4, <4>1 DEF Joins
            <4> QED BY <4>1, <4>3, <4>4
        <3> QED BY <3>1, <3>2
    <2>10. Joins(s, h)
        <3> HIDE DEF h
        <3> QED BY <1>2, <2>9 DEF Joins
    <2> QED BY <1>2, <2>8, <2>10
<1> QED BY <1>3, <1>4, <1>5

\* FlattenSeq is the last of them.
LEMMA FlattenJoins ==
    ASSUME NEW S, NEW s \in Seq(Seq(S)), s # << >>,
           NEW g \in [1 .. Len(s) -> Seq(S)], Joins(s, g)
    PROVE  FlattenSeq(s) = g[Len(s)]
<1> DEFINE h == CHOOSE f : f = [i \in 1 .. Len(s) |-> IF i = 1 THEN s[i] ELSE f[i - 1] \o s[i]]
<1>1. Len(s) \in Nat \ {0} /\ Len(s) \in 1 .. Len(s)
    OBVIOUS
<1>2. FlattenSeq(s) = h[Len(s)]
    BY <1>1 DEF FlattenSeq
<1>3. g = [i \in 1 .. Len(s) |-> IF i = 1 THEN s[i] ELSE g[i - 1] \o s[i]]
    BY DEF Joins
<1>4. h = [i \in 1 .. Len(s) |-> IF i = 1 THEN s[i] ELSE h[i - 1] \o s[i]]
    BY <1>3
<1> HIDE DEF h
<1> DEFINE Wrong == {i \in 1 .. Len(s) : h[i] # g[i]}
<1>5. SUFFICES ASSUME Wrong # {} PROVE FALSE
    BY <1>1, <1>2
<1>6. PICK i \in Wrong : \A j \in Wrong : i <= j
    <2>1. Wrong \subseteq Nat /\ Wrong # {}
        BY <1>5
    <2> HIDE DEF Wrong
    <2> QED BY <2>1, LeastNumber
<1>7. i \in 1 .. Len(s) /\ h[i] # g[i]
    BY <1>6
<1>8. i # 1 => h[i - 1] = g[i - 1]
    BY <1>1, <1>6, <1>7
<1>9. h[i] = IF i = 1 THEN s[i] ELSE h[i - 1] \o s[i]
    BY <1>4, <1>7
<1>10. g[i] = IF i = 1 THEN s[i] ELSE g[i - 1] \o s[i]
    BY <1>7 DEF Joins
<1>11. CASE i = 1
    BY <1>7, <1>9, <1>10, <1>11
<1>12. CASE i # 1
    BY <1>7, <1>8, <1>9, <1>10, <1>12
<1> QED BY <1>11, <1>12

\* One more element is joined at the end.
LEMMA FlattenGrows ==
    ASSUME NEW S, NEW s \in Seq(Seq(S)), NEW t \in Seq(Seq(S)), Len(t) = Len(s) + 1,
           \A i \in 1 .. Len(s) : t[i] = s[i]
    PROVE  /\ FlattenSeq(s) \in Seq(S)
           /\ FlattenSeq(t) = FlattenSeq(s) \o t[Len(t)]
<1> DEFINE n == Len(t)
<1>1. n \in Nat \ {0} /\ t # << >> /\ Len(s) = n - 1 /\ t[n] \in Seq(S)
    OBVIOUS
<1>2. PICK g \in [1 .. n -> Seq(S)] : Joins(t, g)
    BY <1>1, JoinsExists
<1>3. FlattenSeq(t) = g[n]
    BY <1>1, <1>2, FlattenJoins
<1>4. CASE s = << >>
    <2>1. n = 1 /\ FlattenSeq(s) = << >>
        BY <1>1, <1>4 DEF FlattenSeq
    <2>2. g[n] = t[n]
        <3>1. g[1] = IF 1 = 1 THEN t[1] ELSE g[1 - 1] \o t[1]
            BY <1>1, <1>2, <2>1 DEF Joins
        <3> QED BY <2>1, <3>1, SMTT(30)
    <2>3. << >> \o t[n] = t[n] /\ << >> \in Seq(S)
        BY <1>1, ConcatEmptySeq
    <2> QED BY <1>3, <2>1, <2>2, <2>3
<1>5. CASE s # << >>
    <2>1. Len(s) \in Nat \ {0}
        BY <1>5
    <2> DEFINE h == [i \in 1 .. Len(s) |-> g[i]]
    <2>2. h \in [1 .. Len(s) -> Seq(S)]
        BY <1>1, <1>2
    <2>3. Joins(s, h)
        <3> SUFFICES ASSUME NEW i \in 1 .. Len(s)
                     PROVE  h[i] = IF i = 1 THEN s[i] ELSE h[i - 1] \o s[i]
            BY DEF Joins
        <3>1. i \in 1 .. n /\ t[i] = s[i] /\ h[i] = g[i]
            BY <1>1
        <3>2. i # 1 => h[i - 1] = g[i - 1]
            BY <2>1
        <3>3. g[i] = IF i = 1 THEN t[i] ELSE g[i - 1] \o t[i]
            BY <1>2, <3>1 DEF Joins
        <3> HIDE DEF h
        <3> QED BY <3>1, <3>2, <3>3
    <2>4. FlattenSeq(s) = h[Len(s)] /\ h[Len(s)] \in Seq(S)
        <3>1. Len(s) \in 1 .. Len(s)
            BY <2>1
        <3> HIDE DEF h
        <3>2. FlattenSeq(s) = h[Len(s)]
            BY <1>5, <2>2, <2>3, FlattenJoins
        <3> QED BY <2>2, <3>1, <3>2
    <2>5. h[Len(s)] = g[n - 1]
        BY <1>1, <2>1
    <2>6. g[n] = g[n - 1] \o t[n]
        <3>1. n \in 1 .. Len(t) /\ n # 1
            BY <1>1, <2>1
        <3>2. g[n] = IF n = 1 THEN t[n] ELSE g[n - 1] \o t[n]
            BY <1>2, <3>1 DEF Joins
        <3> HIDE DEF n
        <3> QED BY <3>1, <3>2
    <2> QED BY <1>3, <2>4, <2>5, <2>6
<1> QED BY <1>4, <1>5

\* FlattenSeq joins sequences to a sequence.
LEMMA FlattenType ==
    ASSUME NEW S, NEW s \in Seq(Seq(S))
    PROVE  FlattenSeq(s) \in Seq(S)
<1>1. Append(s, << >>) \in Seq(Seq(S)) /\ Len(Append(s, << >>)) = Len(s) + 1
      /\ \A i \in 1 .. Len(s) : Append(s, << >>)[i] = s[i]
    OBVIOUS
<1> QED BY <1>1, FlattenGrows

\* What is joined of nothing is nothing.
LEMMA FlattenNothing ==
    ASSUME NEW S, NEW s \in Seq(Seq(S)), \A i \in 1 .. Len(s) : s[i] = << >>
    PROVE  FlattenSeq(s) = << >>
<1>1. CASE s = << >>
    BY <1>1 DEF FlattenSeq
<1>2. CASE s # << >>
    <2> DEFINE g == [i \in 1 .. Len(s) |-> << >>]
    <2>1. Len(s) \in 1 .. Len(s) /\ g \in [1 .. Len(s) -> Seq(S)]
        BY <1>2
    <2>2. Joins(s, g)
        <3> SUFFICES ASSUME NEW i \in 1 .. Len(s)
                     PROVE  g[i] = IF i = 1 THEN s[i] ELSE g[i - 1] \o s[i]
            BY DEF Joins
        <3>1. s[i] = << >> /\ g[i] = << >> /\ (i # 1 => g[i - 1] = << >>)
            OBVIOUS
        <3>2. << >> \o << >> = << >>
            OBVIOUS
        <3> HIDE DEF g
        <3> QED BY <3>1, <3>2
    <2>3. g[Len(s)] = << >>
        BY <2>1
    <2> HIDE DEF g
    <2> QED BY <1>2, <2>1, <2>2, <2>3, FlattenJoins
<1> QED BY <1>1, <1>2

-----------------------------------------------------------------------------
(* What collect_logs makes of a frame.                                     *)

LogEntry == [log : Nat, position : Nat]

\* A frame, and what its calls gave.
Fits(frame, visit) ==
    /\ frame.calls \in Seq(1 .. Len(visit)) /\ frame.logs \in Seq(LogEntry)
    /\ visit \in Seq(Seq(Nat))

LEMMA LogsAtType ==
    ASSUME NEW frame, frame.logs \in Seq(LogEntry), NEW p
    PROVE  LogsAt(frame, p) \in Seq(Nat)
<1> DEFINE s == [i \in DOMAIN frame.logs |->
                   IF frame.logs[i].position = p THEN <<frame.logs[i].log>> ELSE << >>]
<1>1. DOMAIN frame.logs = 1 .. Len(frame.logs) /\ Len(frame.logs) \in Nat
    OBVIOUS
<1>2. ASSUME NEW i \in 1 .. Len(frame.logs) PROVE s[i] \in Seq(Nat)
    <2>1. frame.logs[i] \in LogEntry
        BY <1>1
    <2>2. frame.logs[i].log \in Nat
        BY <2>1 DEF LogEntry
    <2> QED BY <1>1, <2>2
<1>3. s \in Seq(Seq(Nat))
    <2>1. s \in [1 .. Len(frame.logs) -> Seq(Nat)]
        BY <1>1, <1>2
    <2> HIDE DEF s
    <2> QED BY <1>1, <2>1
<1> HIDE DEF s
<1>4. LogsAt(frame, p) = FlattenSeq(s)
    BY DEF LogsAt, s
<1> QED BY <1>3, <1>4, FlattenType

LEMMA LogsAtGrows ==
    ASSUME NEW old, old.logs \in Seq(LogEntry), NEW x \in Nat, NEW q \in Nat, NEW p, NEW new,
           new.logs = Append(old.logs, [log |-> x, position |-> q])
    PROVE  LogsAt(new, p) = IF q = p THEN Append(LogsAt(old, p), x) ELSE LogsAt(old, p)
<1> DEFINE piece(l) == IF l.position = p THEN <<l.log>> ELSE << >>
           s == [i \in DOMAIN old.logs |-> piece(old.logs[i])]
           t == [i \in DOMAIN new.logs |-> piece(new.logs[i])]
           e == [log |-> x, position |-> q]
<1>1. /\ Len(old.logs) \in Nat /\ DOMAIN old.logs = 1 .. Len(old.logs)
      /\ e \in LogEntry /\ e.log = x /\ e.position = q
    BY DEF LogEntry
<1>2. /\ new.logs \in Seq(LogEntry) /\ Len(new.logs) = Len(old.logs) + 1
      /\ DOMAIN new.logs = 1 .. Len(new.logs)
      /\ \A i \in 1 .. Len(old.logs) : new.logs[i] = old.logs[i]
      /\ new.logs[Len(new.logs)] = e
    BY <1>1
<1>3. \A l \in LogEntry : piece(l) \in Seq(Nat)
    BY DEF LogEntry
<1>4. s \in Seq(Seq(Nat)) /\ Len(s) = Len(old.logs)
    <2>1. \A i \in 1 .. Len(old.logs) : piece(old.logs[i]) \in Seq(Nat)
        BY <1>1, <1>3
    <2> HIDE DEF piece
    <2> QED BY <1>1, <2>1
<1>5. t \in Seq(Seq(Nat)) /\ Len(t) = Len(new.logs)
    <2>1. \A i \in 1 .. Len(new.logs) : piece(new.logs[i]) \in Seq(Nat)
        BY <1>2, <1>3
    <2> HIDE DEF piece
    <2> QED BY <1>2, <2>1, SMTT(30)
<1>6. \A i \in 1 .. Len(s) : t[i] = s[i]
    BY <1>1, <1>2, <1>4
<1>7. t[Len(t)] = piece(e)
    BY <1>1, <1>2, <1>5
<1>8. LogsAt(old, p) = FlattenSeq(s) /\ LogsAt(new, p) = FlattenSeq(t)
    BY DEF LogsAt
<1> HIDE DEF s, t
<1>9. FlattenSeq(t) = FlattenSeq(s) \o t[Len(t)] /\ FlattenSeq(s) \in Seq(Nat)
    BY <1>1, <1>2, <1>4, <1>5, <1>6, FlattenGrows
<1>10. FlattenSeq(t) = FlattenSeq(s) \o (IF q = p THEN <<x>> ELSE << >>)
    BY <1>1, <1>7, <1>9
<1>11. FlattenSeq(s) \o <<x>> = Append(FlattenSeq(s), x) /\ FlattenSeq(s) \o << >> = FlattenSeq(s)
    BY <1>9, AppendIsConcat, ConcatEmptySeq
<1> QED BY <1>8, <1>10, <1>11

LEMMA NoLogsAt ==
    ASSUME NEW frame, frame.logs \in Seq(LogEntry), NEW p,
           \A i \in DOMAIN frame.logs : frame.logs[i].position # p
    PROVE  LogsAt(frame, p) = << >>
<1> DEFINE s == [i \in DOMAIN frame.logs |->
                   IF frame.logs[i].position = p THEN <<frame.logs[i].log>> ELSE << >>]
<1>1. DOMAIN frame.logs = 1 .. Len(frame.logs) /\ Len(frame.logs) \in Nat
    OBVIOUS
<1>2. s \in [1 .. Len(frame.logs) -> Seq(Nat)] /\ \A i \in 1 .. Len(frame.logs) : s[i] = << >>
    BY <1>1
<1>3. LogsAt(frame, p) = FlattenSeq(s)
    BY DEF LogsAt
<1> HIDE DEF s
<1>4. s \in Seq(Seq(Nat)) /\ Len(s) = Len(frame.logs)
    BY <1>1, <1>2
<1> QED BY <1>2, <1>3, <1>4, FlattenNothing

Part(frame, visit, i) ==
    LogsAt(frame, i - 1) \o (IF i \in DOMAIN frame.calls THEN visit[frame.calls[i]] ELSE << >>)
Parts(frame, visit, n) == [i \in 1 .. n |-> Part(frame, visit, i)]

LEMMA PartsType ==
    ASSUME NEW frame, NEW visit, Fits(frame, visit), NEW n \in Nat
    PROVE  /\ Parts(frame, visit, n) \in Seq(Seq(Nat)) /\ Len(Parts(frame, visit, n)) = n
           /\ FlattenSeq(Parts(frame, visit, n)) \in Seq(Nat)
           /\ \A i \in 1 .. n : Part(frame, visit, i) \in Seq(Nat)
<1>1. ASSUME NEW i \in 1 .. n PROVE Part(frame, visit, i) \in Seq(Nat)
    <2>1. LogsAt(frame, i - 1) \in Seq(Nat)
        BY LogsAtType DEF Fits
    <2>2. CASE i \in DOMAIN frame.calls
        <3>1. frame.calls[i] \in 1 .. Len(visit)
            BY <2>2 DEF Fits
        <3>2. visit[frame.calls[i]] \in Seq(Nat)
            BY <3>1 DEF Fits
        <3> QED BY <2>1, <2>2, <3>2, ConcatProperties DEF Part
    <2>3. CASE i \notin DOMAIN frame.calls
        <3>1. << >> \in Seq(Nat)
            OBVIOUS
        <3> QED BY <2>1, <2>3, <3>1, ConcatProperties DEF Part
    <2> QED BY <2>2, <2>3
<1>2. Parts(frame, visit, n) \in Seq(Seq(Nat)) /\ Len(Parts(frame, visit, n)) = n
    BY <1>1 DEF Parts
<1> QED BY <1>1, <1>2, FlattenType

LEMMA OneMorePart ==
    ASSUME NEW frame, NEW visit, Fits(frame, visit), NEW n \in Nat
    PROVE  FlattenSeq(Parts(frame, visit, n + 1)) =
             FlattenSeq(Parts(frame, visit, n)) \o Part(frame, visit, n + 1)
<1> DEFINE s == Parts(frame, visit, n)
           t == Parts(frame, visit, n + 1)
<1>1. s \in Seq(Seq(Nat)) /\ t \in Seq(Seq(Nat)) /\ Len(s) = n /\ Len(t) = n + 1
    BY PartsType
<1>2. t[n + 1] = Part(frame, visit, n + 1) /\ \A i \in 1 .. n : t[i] = s[i]
    BY DEF Parts
<1> HIDE DEF s, t
<1>3. FlattenSeq(t) = FlattenSeq(s) \o t[Len(t)]
    BY <1>1, <1>2, FlattenGrows
<1> QED BY <1>1, <1>2, <1>3 DEF s, t

\* The calls' part and the logs after the last call.
LEMMA OrderedSplits ==
    ASSUME NEW frame, NEW visit, Fits(frame, visit)
    PROVE  LET n == Len(frame.calls) IN
           /\ Ordered(frame, visit) = FlattenSeq(Parts(frame, visit, n + 1))
           /\ Ordered(frame, visit) = FlattenSeq(Parts(frame, visit, n)) \o LogsAt(frame, n)
           /\ Ordered(frame, visit) \in Seq(Nat)
<1> DEFINE n == Len(frame.calls)
<1>1. n \in Nat /\ DOMAIN frame.calls = 1 .. n
    BY DEF Fits
<1>2. Ordered(frame, visit) = FlattenSeq(Parts(frame, visit, n + 1))
    BY DEF Ordered, Parts, Part
<1>3. Part(frame, visit, n + 1) = LogsAt(frame, n)
    <2>1. LogsAt(frame, n) \in Seq(Nat) /\ (n + 1) - 1 = n /\ n + 1 \notin 1 .. n
        BY <1>1, LogsAtType DEF Fits
    <2>2. LogsAt(frame, n) \o << >> = LogsAt(frame, n)
        BY <2>1, ConcatEmptySeq
    <2> HIDE DEF n
    <2> QED BY <1>1, <2>1, <2>2 DEF Part
<1> HIDE DEF n
<1>4. FlattenSeq(Parts(frame, visit, n + 1)) \in Seq(Nat)
    <2>1. n + 1 \in Nat
        BY <1>1
    <2> QED BY <2>1, PartsType
<1>5. Ordered(frame, visit) = FlattenSeq(Parts(frame, visit, n)) \o LogsAt(frame, n)
    BY <1>1, <1>2, <1>3, OneMorePart
<1> QED BY <1>2, <1>4, <1>5 DEF n

\* LOG: a log after the last call comes last.
LEMMA EmitAppends ==
    ASSUME NEW old, NEW new, NEW visit, Fits(old, visit), NEW x \in Nat, new.calls = old.calls,
           new.logs = Append(old.logs, [log |-> x, position |-> Len(old.calls)])
    PROVE  /\ Ordered(new, visit) = Append(Ordered(old, visit), x)
           /\ Fits(new, visit)
<1> DEFINE n == Len(old.calls)
           F == FlattenSeq(Parts(old, visit, n))
<1>1. n \in Nat /\ Len(new.calls) = n /\ DOMAIN new.calls = DOMAIN old.calls
    BY DEF Fits
<1>2. ASSUME NEW p
      PROVE  LogsAt(new, p) = IF n = p THEN Append(LogsAt(old, p), x) ELSE LogsAt(old, p)
    <2>1. old.logs \in Seq(LogEntry) /\ new.logs = Append(old.logs, [log |-> x, position |-> n])
        BY DEF Fits
    <2> HIDE DEF n
    <2> QED BY <1>1, <2>1, LogsAtGrows
<1>3. Fits(new, visit)
    <2>1. [log |-> x, position |-> n] \in LogEntry
        BY <1>1 DEF LogEntry
    <2> HIDE DEF n
    <2> QED BY <2>1 DEF Fits, n
<1>4. Parts(new, visit, n) = Parts(old, visit, n)
    <2>1. \A i \in 1 .. n : i - 1 # n
        BY <1>1
    <2>2. \A i \in 1 .. n : LogsAt(new, i - 1) = LogsAt(old, i - 1)
        BY <1>2, <2>1
    <2>3. \A i \in 1 .. n : Part(new, visit, i) = Part(old, visit, i)
        BY <2>2 DEF Part
    <2> HIDE DEF n
    <2> QED BY <2>3 DEF Parts
<1>5. LogsAt(new, n) = Append(LogsAt(old, n), x)
    BY <1>2
<1>6. /\ Ordered(new, visit) = F \o LogsAt(new, n)
      /\ Ordered(old, visit) = F \o LogsAt(old, n)
    BY <1>1, <1>3, <1>4, OrderedSplits
<1>7. F \in Seq(Nat) /\ LogsAt(old, n) \in Seq(Nat)
    BY <1>1, PartsType, LogsAtType DEF Fits
<1> HIDE DEF F, n
<1>8. F \o Append(LogsAt(old, n), x) = Append(F \o LogsAt(old, n), x)
    <2>1. LogsAt(old, n) \o <<x>> = Append(LogsAt(old, n), x)
        BY <1>7, AppendIsConcat
    <2>2. F \o LogsAt(old, n) \in Seq(Nat) /\ <<x>> \in Seq(Nat)
        BY <1>7, ConcatProperties
    <2>3. (F \o LogsAt(old, n)) \o <<x>> = Append(F \o LogsAt(old, n), x)
        BY <2>2, AppendIsConcat
    <2>4. F \o (LogsAt(old, n) \o <<x>>) = (F \o LogsAt(old, n)) \o <<x>>
        BY <1>7, <2>2, ConcatAssociative, SMTT(30)
    <2> QED BY <2>1, <2>3, <2>4
<1> QED BY <1>3, <1>5, <1>6, <1>8

\* CALL or CREATE: a call that has given nothing changes nothing.
LEMMA EnterKeeps ==
    ASSUME NEW old, NEW new, NEW visit, NEW other, Fits(old, visit), Fits(new, other), NEW c,
           new.calls = Append(old.calls, c), new.logs = old.logs, other[c] = << >>,
           \A i \in DOMAIN old.calls : other[old.calls[i]] = visit[old.calls[i]],
           \A i \in DOMAIN old.logs : old.logs[i].position <= Len(old.calls)
    PROVE  Ordered(new, other) = Ordered(old, visit)
<1> DEFINE n == Len(old.calls)
<1>1. /\ n \in Nat /\ n + 1 \in Nat /\ DOMAIN old.calls = 1 .. n
      /\ Len(new.calls) = n + 1 /\ DOMAIN new.calls = 1 .. (n + 1)
      /\ new.calls[n + 1] = c /\ \A i \in 1 .. n : new.calls[i] = old.calls[i]
    <2> DEFINE S == 1 .. Len(visit) \cup {c}
    <2>1. old.calls \in Seq(S)
        <3>1. old.calls \in Seq(1 .. Len(visit)) /\ 1 .. Len(visit) \subseteq S
            BY DEF Fits
        <3> HIDE DEF S
        <3> QED BY <3>1, SeqMonotonic
    <2>2. c \in S
        OBVIOUS
    <2> HIDE DEF S
    <2> QED BY <2>1, <2>2
<1>2. \A p : LogsAt(new, p) = LogsAt(old, p) /\ LogsAt(old, p) \in Seq(Nat)
    BY LogsAtType DEF LogsAt, Fits
<1>3. Parts(new, other, n + 1) = Parts(old, visit, n + 1)
    <2>1. ASSUME NEW i \in 1 .. (n + 1) PROVE Part(new, other, i) = Part(old, visit, i)
        <3>1. CASE i \in 1 .. n
            BY <1>1, <1>2, <3>1 DEF Part
        <3>2. CASE i = n + 1
            BY <1>1, <1>2, <3>2 DEF Part
        <3> QED BY <1>1, <3>1, <3>2
    <2> HIDE DEF n
    <2> QED BY <2>1 DEF Parts
<1>4. LogsAt(new, n + 1) = << >>
    <2>1. \A i \in DOMAIN old.logs : old.logs[i].position # n + 1
        <3>1. \A i \in DOMAIN old.logs : old.logs[i] \in LogEntry
            BY DEF Fits
        <3>2. \A i \in DOMAIN old.logs : old.logs[i].position \in Nat
            BY <3>1 DEF LogEntry
        <3> QED BY <1>1, <3>2
    <2> QED BY <1>2, <2>1, NoLogsAt DEF Fits
<1>5. Ordered(new, other) = FlattenSeq(Parts(new, other, n + 1)) \o << >>
    BY <1>1, <1>4, OrderedSplits
<1>6. FlattenSeq(Parts(new, other, n + 1)) \in Seq(Nat)
    <2> HIDE DEF n
    <2> QED BY <1>1, PartsType
<1>7. Ordered(new, other) = FlattenSeq(Parts(new, other, n + 1))
    <2> HIDE DEF n
    <2> QED BY <1>5, <1>6, ConcatEmptySeq
<1> QED BY <1>3, <1>7, OrderedSplits

\* The last call ends with no log after it: what it gave comes last.
LEMMA LeaveAppends ==
    ASSUME NEW frame, NEW visit, NEW other, Fits(frame, visit), Fits(frame, other),
           frame.calls # << >>, visit[frame.calls[Len(frame.calls)]] = << >>,
           \A i \in DOMAIN frame.calls :
             i # Len(frame.calls) => other[frame.calls[i]] = visit[frame.calls[i]],
           \A i \in DOMAIN frame.logs : frame.logs[i].position # Len(frame.calls)
    PROVE  Ordered(frame, other) = Ordered(frame, visit) \o other[frame.calls[Len(frame.calls)]]
<1> DEFINE n == Len(frame.calls)
           F == FlattenSeq(Parts(frame, visit, n - 1))
           l == LogsAt(frame, n - 1)
           given == other[frame.calls[n]]
<1>1. n \in Nat \ {0} /\ n - 1 \in Nat /\ (n - 1) + 1 = n /\ DOMAIN frame.calls = 1 .. n
    <2>1. n \in Nat /\ n # 0 /\ DOMAIN frame.calls = 1 .. n
        BY EmptySeq DEF Fits
    <2> HIDE DEF n
    <2> QED BY <2>1
<1>2. Parts(frame, visit, n - 1) = Parts(frame, other, n - 1)
    <2>1. \A i \in 1 .. (n - 1) : i \in 1 .. n /\ i # n
        BY <1>1
    <2>2. \A i \in 1 .. (n - 1) : Part(frame, visit, i) = Part(frame, other, i)
        BY <1>1, <2>1 DEF Part
    <2> HIDE DEF n
    <2> QED BY <2>2 DEF Parts
<1>3. LogsAt(frame, n) = << >>
    BY NoLogsAt DEF Fits
<1>4. n \in DOMAIN frame.calls /\ given \in Seq(Nat) /\ l \in Seq(Nat) /\ F \in Seq(Nat)
    <2>1. n \in DOMAIN frame.calls
        BY <1>1
    <2>2. frame.calls[n] \in 1 .. Len(other)
        <3>1. \A i \in DOMAIN frame.calls : frame.calls[i] \in 1 .. Len(other)
            <4>1. frame.calls \in Seq(1 .. Len(other))
                BY DEF Fits
            <4> QED BY <4>1
        <3> HIDE DEF n
        <3> QED BY <2>1, <3>1
    <2>3. \A i \in 1 .. Len(other) : other[i] \in Seq(Nat)
        BY DEF Fits
    <2>4. l \in Seq(Nat) /\ F \in Seq(Nat)
        BY <1>1, PartsType, LogsAtType DEF Fits
    <2> HIDE DEF F, l
    <2> QED BY <2>1, <2>2, <2>3, <2>4
<1>5. Part(frame, visit, n) = l \o << >> /\ Part(frame, other, n) = l \o given
    BY <1>4 DEF Part
<1>6. /\ FlattenSeq(Parts(frame, visit, n)) = F \o (l \o << >>)
      /\ FlattenSeq(Parts(frame, other, n)) = F \o (l \o given)
    <2>1. /\ FlattenSeq(Parts(frame, visit, n)) = F \o Part(frame, visit, n)
          /\ FlattenSeq(Parts(frame, other, n)) = F \o Part(frame, other, n)
        <3> DEFINE m == n - 1
        <3>1. m \in Nat /\ m + 1 = n
            BY <1>1
        <3>2. /\ FlattenSeq(Parts(frame, visit, m + 1)) =
                   FlattenSeq(Parts(frame, visit, m)) \o Part(frame, visit, m + 1)
              /\ FlattenSeq(Parts(frame, other, m + 1)) =
                   FlattenSeq(Parts(frame, other, m)) \o Part(frame, other, m + 1)
            <4> HIDE DEF m
            <4> QED BY <3>1, OneMorePart
        <3> QED BY <1>2, <3>1, <3>2
    <2> QED BY <1>5, <2>1
<1>7. /\ Ordered(frame, visit) = (F \o (l \o << >>)) \o << >>
      /\ Ordered(frame, other) = (F \o (l \o given)) \o << >>
    BY <1>3, <1>6, OrderedSplits
<1> HIDE DEF n, F, l, given
<1>8. /\ l \o << >> = l /\ F \o l \in Seq(Nat) /\ (F \o l) \o << >> = F \o l
      /\ l \o given \in Seq(Nat)
    BY <1>4, ConcatEmptySeq, ConcatProperties
<1>9. F \o (l \o given) = (F \o l) \o given /\ (F \o (l \o given)) \o << >> = F \o (l \o given)
    <2>1. F \o (l \o given) \in Seq(Nat)
        BY <1>4, <1>8, ConcatProperties
    <2>2. (F \o l) \o given = F \o (l \o given)
        BY <1>4, ConcatAssociative, SMTT(30)
    <2> QED BY <2>1, <2>2, ConcatEmptySeq
<1> QED BY <1>7, <1>8, <1>9 DEF given, n

\* Only what a frame's own calls gave matters.
LEMMA OrderedDepends ==
    ASSUME NEW frame, NEW visit, NEW other,
           \A i \in DOMAIN frame.calls : other[frame.calls[i]] = visit[frame.calls[i]]
    PROVE  Ordered(frame, other) = Ordered(frame, visit) /\ Visit(frame, other) = Visit(frame, visit)
BY DEF Ordered, Visit

LEMMA NothingYet ==
    ASSUME NEW frame, NEW visit, Fits(frame, visit), frame.calls = << >>, frame.logs = << >>
    PROVE  Ordered(frame, visit) = << >>
<1>1. Len(frame.calls) = 0 /\ LogsAt(frame, 0) = << >>
    <2>1. Len(frame.calls) = 0 /\ DOMAIN frame.logs = {}
        OBVIOUS
    <2> QED BY <2>1, NoLogsAt DEF Fits
<1>2. Parts(frame, visit, 0) = << >>
    BY PartsType
<1>3. Ordered(frame, visit) = FlattenSeq(<< >>) \o << >>
    BY <1>1, <1>2, OrderedSplits
<1> QED BY <1>3 DEF FlattenSeq

-----------------------------------------------------------------------------
(* The tree while it grows.                                                *)

FrameType == [parent : Nat, mark : Nat,
              calls : Seq(Nat), logs : Seq(LogEntry), error : BOOLEAN]

TraceTypes ==
    /\ frames \in Seq(FrameType) /\ 1 <= Len(frames) /\ current \in 0 .. Len(frames)
    /\ emitted \in Nat /\ journal \in Seq(Nat)

\* Frames are numbered as they begin.
Tree ==
    /\ frames[1].parent = 0 /\ frames[1].mark = 0
    /\ \A f \in DOMAIN frames :
         /\ f # 1 => frames[f].parent < f
         /\ \A i \in DOMAIN frames[f].calls :
              frames[f].calls[i] \in (f + 1) .. Len(frames)
              /\ frames[frames[f].calls[i]].parent = f
         /\ \A i, j \in DOMAIN frames[f].calls : frames[f].calls[i] = frames[f].calls[j] => i = j
         /\ \A i \in DOMAIN frames[f].logs : frames[f].logs[i].position <= Len(frames[f].calls)

\* The frames in O are running, each but the current one is in its last call, in
\* which nothing has been logged by the frame itself.
Nested(O) ==
    /\ O \subseteq DOMAIN frames
    /\ current = 0 => O = {}
    /\ current # 0 => current \in O
    /\ \A f \in O :
         /\ f <= current /\ frames[f].mark <= Len(journal)
         /\ f # 1 => /\ frames[f].parent \in O /\ frames[frames[f].parent].calls # << >>
                     /\ Last(frames[frames[f].parent].calls) = f
    /\ \A f \in O \ {current} :
         /\ frames[f].calls # << >> /\ Last(frames[f].calls) \in O
         /\ \A i \in DOMAIN frames[f].logs : frames[f].logs[i].position # Len(frames[f].calls)
    /\ \A f, g \in O : f < g => Last(frames[f].calls) <= g /\ frames[f].mark <= frames[g].mark

\* What a running frame has collected ends where its running call began.
Limit(f) == IF f = current THEN Len(journal) ELSE frames[Last(frames[f].calls)].mark

\* v is what visit makes of the frames that ended, and of the others nothing.
Gave(v, O) ==
    /\ v \in Seq(Seq(Nat)) /\ Len(v) = Len(frames)
    /\ \A f \in O : v[f] = << >>
                    /\ Ordered(frames[f], v) = SubSeq(journal, frames[f].mark + 1, Limit(f))
    /\ \A f \in DOMAIN frames \ O : v[f] = Visit(frames[f], v)
    /\ current = 0 => v[1] = journal

LInv == TraceTypes /\ Tree /\ \E v, O : Nested(O) /\ Gave(v, O)

\* One frame of a sequence.
LEMMA FrameIs ==
    ASSUME TraceTypes, NEW f \in DOMAIN frames
    PROVE  /\ frames[f] \in FrameType /\ f \in Nat \ {0} /\ f \in 1 .. Len(frames)
           /\ frames[f].parent \in Nat /\ frames[f].mark \in Nat /\ frames[f].error \in BOOLEAN
           /\ frames[f].calls \in Seq(Nat) /\ frames[f].logs \in Seq(LogEntry)
           /\ Len(frames[f].calls) \in Nat /\ DOMAIN frames[f].calls = 1 .. Len(frames[f].calls)
<1>1. frames[f] \in FrameType /\ f \in 1 .. Len(frames) /\ Len(frames) \in Nat
    BY DEF TraceTypes
<1>2. frames[f].calls \in Seq(Nat) /\ frames[f].logs \in Seq(LogEntry)
    BY <1>1 DEF FrameType
<1> QED BY <1>1, <1>2 DEF FrameType

\* A change of one frame.
LEMMA OneFrame ==
    ASSUME TraceTypes, NEW c \in DOMAIN frames, NEW new \in FrameType,
           frames' = [frames EXCEPT ![c] = new]
    PROVE  /\ frames' \in Seq(FrameType) /\ Len(frames') = Len(frames)
           /\ DOMAIN frames' = DOMAIN frames /\ DOMAIN frames = 1 .. Len(frames)
           /\ frames'[c] = new /\ \A f \in DOMAIN frames \ {c} : frames'[f] = frames[f]
BY DEF TraceTypes

LEMMA EmitFrames ==
    ASSUME TraceTypes, Emit
    PROVE  LET c == current IN
           /\ c \in DOMAIN frames /\ emitted' \in Nat
           /\ frames' \in Seq(FrameType) /\ Len(frames') = Len(frames)
           /\ DOMAIN frames' = DOMAIN frames /\ DOMAIN frames = 1 .. Len(frames)
           /\ \A f \in DOMAIN frames \ {c} : frames'[f] = frames[f]
           /\ frames'[c].calls = frames[c].calls /\ frames'[c].mark = frames[c].mark
           /\ frames'[c].parent = frames[c].parent /\ frames'[c].error = frames[c].error
           /\ frames'[c].logs =
                Append(frames[c].logs, [log |-> emitted', position |-> Len(frames[c].calls)])
           /\ journal' = Append(journal, emitted') /\ journal' \in Seq(Nat)
           /\ UNCHANGED current
<1> DEFINE c == current
           entry == [log |-> emitted', position |-> Len(frames[c].calls)]
           new == [frames[c] EXCEPT !.logs = Append(@, entry)]
<1>1. c \in DOMAIN frames /\ emitted' \in Nat
    BY DEF Emit, Running, TraceTypes
<1>2. entry \in LogEntry
    BY <1>1, FrameIs DEF LogEntry
<1>3. frames' = [frames EXCEPT ![c] = new]
    BY DEF Emit
<1> HIDE DEF entry
<1>4. Append(frames[c].logs, entry) \in Seq(LogEntry)
    BY <1>1, <1>2, FrameIs
<1>5. /\ new \in FrameType /\ new.calls = frames[c].calls /\ new.mark = frames[c].mark
      /\ new.parent = frames[c].parent /\ new.error = frames[c].error
      /\ new.logs = Append(frames[c].logs, entry)
    BY <1>1, <1>4, FrameIs DEF FrameType
<1> HIDE DEF new
<1>6. journal' = Append(journal, emitted') /\ journal' \in Seq(Nat)
    BY <1>1 DEF Emit, TraceTypes
<1> QED BY <1>1, <1>3, <1>5, <1>6, OneFrame DEF Emit, entry

LEMMA LeaveFrames ==
    ASSUME TraceTypes, NEW error \in BOOLEAN, Running,
           frames' = [frames EXCEPT ![current].error = error]
    PROVE  LET c == current IN
           /\ c \in DOMAIN frames
           /\ frames' \in Seq(FrameType) /\ Len(frames') = Len(frames)
           /\ DOMAIN frames' = DOMAIN frames /\ DOMAIN frames = 1 .. Len(frames)
           /\ \A f \in DOMAIN frames \ {c} : frames'[f] = frames[f]
           /\ frames'[c].calls = frames[c].calls /\ frames'[c].mark = frames[c].mark
           /\ frames'[c].parent = frames[c].parent /\ frames'[c].error = error
           /\ frames'[c].logs = frames[c].logs
<1> DEFINE c == current
           new == [frames[c] EXCEPT !.error = error]
<1>1. c \in DOMAIN frames
    BY DEF Running, TraceTypes
<1>2. frames' = [frames EXCEPT ![c] = new]
    OBVIOUS
<1>3. /\ new \in FrameType /\ new.calls = frames[c].calls /\ new.mark = frames[c].mark
      /\ new.parent = frames[c].parent /\ new.error = error /\ new.logs = frames[c].logs
    BY <1>1, FrameIs DEF FrameType
<1> HIDE DEF new
<1> QED BY <1>1, <1>2, <1>3, OneFrame

LEMMA EnterFrames ==
    ASSUME TraceTypes, Enter
    PROVE  LET c == current
               n == Len(frames) + 1
           IN
           /\ c \in DOMAIN frames /\ c \in 1 .. Len(frames) /\ n \in Nat /\ n # c
           /\ frames' \in Seq(FrameType) /\ Len(frames') = n
           /\ DOMAIN frames' = DOMAIN frames \cup {n} /\ DOMAIN frames = 1 .. Len(frames)
           /\ frames'[n] = NewFrame(c)
           /\ \A f \in DOMAIN frames \ {c} : frames'[f] = frames[f]
           /\ frames'[c].calls = Append(frames[c].calls, n) /\ frames'[c].mark = frames[c].mark
           /\ frames'[c].parent = frames[c].parent /\ frames'[c].error = frames[c].error
           /\ frames'[c].logs = frames[c].logs
           /\ current' = n
           /\ UNCHANGED <<emitted, journal>>
<1> DEFINE c == current
           n == Len(frames) + 1
           s == Append(frames, NewFrame(c))
           new == [frames[c] EXCEPT !.calls = Append(@, n)]
<1>1. c \in DOMAIN frames /\ c \in 1 .. Len(frames) /\ n \in Nat /\ n # c
      /\ DOMAIN frames = 1 .. Len(frames) /\ Len(frames) \in Nat
    BY DEF Enter, Running, TraceTypes
<1>2. NewFrame(c) \in FrameType
    BY <1>1, SMTT(30) DEF NewFrame, FrameType, TraceTypes
<1>3. /\ s \in Seq(FrameType) /\ Len(s) = n /\ DOMAIN s = 1 .. n
      /\ s[n] = NewFrame(c) /\ \A f \in DOMAIN frames : s[f] = frames[f]
    <2>1. frames \in Seq(FrameType)
        BY DEF TraceTypes
    <2> QED BY <1>1, <1>2, <2>1
<1>4. Append(frames[c].calls, n) \in Seq(Nat)
    BY <1>1, FrameIs
<1>5. /\ new \in FrameType /\ new.calls = Append(frames[c].calls, n) /\ new.mark = frames[c].mark
      /\ new.parent = frames[c].parent /\ new.error = frames[c].error /\ new.logs = frames[c].logs
    BY <1>1, <1>4, FrameIs DEF FrameType
<1>6. frames' = [s EXCEPT ![c] = new]
    <2>1. s[c] = frames[c]
        BY <1>1, <1>3
    <2>2. frames' = [s EXCEPT ![c].calls = Append(@, n)]
        BY DEF Enter
    <2> HIDE DEF s
    <2> QED BY <2>1, <2>2
<1> HIDE DEF s, new
<1>7. /\ frames' \in Seq(FrameType) /\ Len(frames') = n /\ DOMAIN frames' = 1 .. n
      /\ frames'[c] = new /\ \A f \in 1 .. n : f # c => frames'[f] = s[f]
    BY <1>1, <1>3, <1>5, <1>6
<1>8. 1 .. n = DOMAIN frames \cup {n} /\ n \in 1 .. n
    BY <1>1
<1>9. /\ current' = n /\ UNCHANGED <<emitted, journal>>
    BY DEF Enter
<1> QED BY <1>1, <1>3, <1>5, <1>7, <1>8, <1>9

-----------------------------------------------------------------------------
(* Pieces of the journal.                                                  *)

LEMMA Longer ==
    ASSUME NEW j \in Seq(Nat), NEW x \in Nat, NEW m \in 1 .. (Len(j) + 1)
    PROVE  /\ Len(Append(j, x)) = Len(j) + 1
           /\ SubSeq(Append(j, x), m, Len(j) + 1) = Append(SubSeq(j, m, Len(j)), x)
           /\ \A l \in 0 .. Len(j) : SubSeq(Append(j, x), m, l) = SubSeq(j, m, l)
BY SMTT(30)

LEMMA Shorter ==
    ASSUME NEW j \in Seq(Nat), NEW k \in 0 .. Len(j)
    PROVE  /\ SubSeq(j, 1, k) \in Seq(Nat) /\ Len(SubSeq(j, 1, k)) = k
           /\ \A l \in 0 .. k : \A m \in 1 .. (k + 1) :
                SubSeq(SubSeq(j, 1, k), m, l) = SubSeq(j, m, l)
OBVIOUS

LEMMA Adjacent ==
    ASSUME NEW j \in Seq(Nat), NEW k \in 0 .. Len(j), NEW m \in 1 .. (k + 1)
    PROVE  /\ SubSeq(j, m, k) \o SubSeq(j, k + 1, Len(j)) = SubSeq(j, m, Len(j))
           /\ SubSeq(j, m, k) \in Seq(Nat) /\ SubSeq(j, m, k) \o << >> = SubSeq(j, m, k)
<1>1. m \in 1 .. (Len(j) + 1) /\ k \in (m - 1) .. Len(j) /\ Len(j) \in k .. Len(j)
    OBVIOUS
<1>2. SubSeq(j, m, k) \in Seq(Nat)
    OBVIOUS
<1> QED BY <1>1, <1>2, ConcatAdjacentSubSeq, ConcatEmptySeq

-----------------------------------------------------------------------------
(* Every step.                                                             *)

\* What the frames' calls gave fits them.
LEMMA ElementsIn ==
    ASSUME NEW S, NEW T, NEW s \in Seq(S), \A i \in DOMAIN s : s[i] \in T
    PROVE  s \in Seq(T)
<1>1. Len(s) \in Nat /\ s = [i \in 1 .. Len(s) |-> s[i]] /\ DOMAIN s = 1 .. Len(s)
    BY LenProperties
<1>2. s \in [1 .. Len(s) -> T]
    BY <1>1
<1> QED BY <1>1, <1>2

LEMMA FramesFit ==
    ASSUME TraceTypes, Tree, NEW v \in Seq(Seq(Nat)), Len(v) = Len(frames), NEW f \in DOMAIN frames
    PROVE  Fits(frames[f], v)
<1>1. /\ frames[f].calls \in Seq(Nat) /\ frames[f].logs \in Seq(LogEntry)
      /\ f \in Nat \ {0}
    BY FrameIs
<1>2. \A i \in DOMAIN frames[f].calls : frames[f].calls[i] \in 1 .. Len(v)
    BY <1>1 DEF Tree
<1>3. frames[f].calls \in Seq(1 .. Len(v))
    BY <1>1, <1>2, ElementsIn
<1> QED BY <1>1, <1>3 DEF Fits

\* No frame begins, and none changes its place.
LEMMA SameTree ==
    ASSUME TraceTypes, Tree, Len(frames') = Len(frames), DOMAIN frames' = DOMAIN frames,
           \A f \in DOMAIN frames : /\ frames'[f].calls = frames[f].calls
                                   /\ frames'[f].mark = frames[f].mark
                                   /\ frames'[f].parent = frames[f].parent,
           \A f \in DOMAIN frames : \A i \in DOMAIN frames'[f].logs :
             frames'[f].logs[i].position <= Len(frames[f].calls)
    PROVE  Tree'
<1>1. 1 \in DOMAIN frames /\ DOMAIN frames = 1 .. Len(frames)
    BY DEF TraceTypes
<1>2. frames'[1].parent = 0 /\ frames'[1].mark = 0
    BY <1>1 DEF Tree
<1>3. ASSUME NEW f \in DOMAIN frames
      PROVE  /\ f # 1 => frames'[f].parent < f
             /\ \A i \in DOMAIN frames'[f].calls :
                  frames'[f].calls[i] \in (f + 1) .. Len(frames')
                  /\ frames'[frames'[f].calls[i]].parent = f
             /\ \A i, j \in DOMAIN frames'[f].calls :
                  frames'[f].calls[i] = frames'[f].calls[j] => i = j
    <2>1. /\ f # 1 => frames[f].parent < f
          /\ \A i \in DOMAIN frames[f].calls :
               /\ frames[f].calls[i] \in (f + 1) .. Len(frames)
               /\ frames[frames[f].calls[i]].parent = f
          /\ \A i, j \in DOMAIN frames[f].calls :
               frames[f].calls[i] = frames[f].calls[j] => i = j
        BY DEF Tree
    <2>2. \A g \in (f + 1) .. Len(frames) : g \in DOMAIN frames
        BY <1>1
    <2>3. \A i \in DOMAIN frames[f].calls :
            frames'[frames[f].calls[i]].parent = frames[frames[f].calls[i]].parent
        BY <2>1, <2>2
    <2> QED BY <2>1, <2>3
<1> QED BY <1>2, <1>3 DEF Tree

LEMMA TraceInitInvariant == ASSUME TraceInit PROVE LInv
<1>4. /\ journal = << >> /\ Len(journal) = 0 /\ current = 1 /\ emitted = 0
      /\ frames = <<NewFrame(0)>> /\ Len(frames) = 1 /\ DOMAIN frames = {1}
      /\ frames[1] = NewFrame(0)
    BY DEF TraceInit
<1>5. /\ frames[1].parent = 0 /\ frames[1].mark = 0 /\ frames[1].calls = << >>
      /\ frames[1].logs = << >>
    BY <1>4 DEF NewFrame
<1>6. NewFrame(0) \in FrameType
    BY <1>4 DEF NewFrame, FrameType
<1>7. TraceTypes
    BY <1>4, <1>6 DEF TraceTypes
<1>8. Tree
    BY <1>4, <1>5 DEF Tree
<1>9. Nested({1})
    BY <1>4, <1>5 DEF Nested
<1>10. Gave(<< << >> >>, {1})
    <2> DEFINE v == << << >> >>
    <2>1. v \in Seq(Seq(Nat)) /\ Len(v) = 1 /\ v[1] = << >>
        OBVIOUS
    <2> HIDE DEF v
    <2>2. Ordered(frames[1], v) = << >>
        BY <1>4, <1>5, <1>7, <1>8, <2>1, FramesFit, NothingYet
    <2>3. SubSeq(journal, frames[1].mark + 1, Limit(1)) = << >>
        BY <1>4, <1>5 DEF Limit
    <2>4. current # 0 /\ \A f \in {1} : f = 1
        BY <1>4
    <2>5. Len(v) = Len(frames) /\ DOMAIN frames \ {1} = {}
        BY <1>4, <2>1
    <2>6. v \in Seq(Seq(Nat)) /\ \A f \in {1} : v[f] = << >>
               /\ Ordered(frames[f], v) = SubSeq(journal, frames[f].mark + 1, Limit(f))
        BY <2>1, <2>2, <2>3
    <2>7. Gave(v, {1})
        BY <2>4, <2>5, <2>6 DEF Gave
    <2> QED BY <2>7 DEF v
<1> QED BY <1>7, <1>8, <1>9, <1>10 DEF LInv

LEMMA EmitKeepsLogs == ASSUME LInv, Emit PROVE LInv'
<1> DEFINE c == current
           x == emitted'
<1>1. TraceTypes /\ Tree
    BY DEF LInv
<1>2. PICK v, O : Nested(O) /\ Gave(v, O)
    BY DEF LInv
<1>3. /\ c \in DOMAIN frames /\ x \in Nat
      /\ frames' \in Seq(FrameType) /\ Len(frames') = Len(frames)
      /\ DOMAIN frames' = DOMAIN frames /\ DOMAIN frames = 1 .. Len(frames)
      /\ \A f \in DOMAIN frames \ {c} : frames'[f] = frames[f]
      /\ frames'[c].calls = frames[c].calls /\ frames'[c].mark = frames[c].mark
      /\ frames'[c].parent = frames[c].parent /\ frames'[c].error = frames[c].error
      /\ frames'[c].logs = Append(frames[c].logs, [log |-> x, position |-> Len(frames[c].calls)])
      /\ journal' = Append(journal, x) /\ journal' \in Seq(Nat)
      /\ UNCHANGED current
    BY <1>1, EmitFrames
<1>4. \A f \in DOMAIN frames : /\ frames'[f].calls = frames[f].calls
                               /\ frames'[f].mark = frames[f].mark
                               /\ frames'[f].parent = frames[f].parent
    BY <1>3
<1>5. journal \in Seq(Nat) /\ Len(journal') = Len(journal) + 1 /\ Len(journal) \in Nat /\ c # 0
    BY <1>1, <1>3 DEF TraceTypes
<1> HIDE DEF x
<1>6. TraceTypes'
    BY <1>1, <1>3 DEF TraceTypes, x
<1>7. Tree'
    <2>1. ASSUME NEW f \in DOMAIN frames, NEW i \in DOMAIN frames'[f].logs
          PROVE  frames'[f].logs[i].position <= Len(frames[f].calls)
        <3>1. CASE f # c
            BY <1>1, <1>3, <2>1, <3>1 DEF Tree
        <3>2. CASE f = c
            <4> DEFINE e == [log |-> x, position |-> Len(frames[c].calls)]
            <4>1. /\ frames[c].logs \in Seq(LogEntry) /\ Len(frames[c].calls) \in Nat
                  /\ \A k \in DOMAIN frames[c].logs :
                       frames[c].logs[k].position <= Len(frames[c].calls)
                BY <1>1, <1>3, FrameIs DEF Tree
            <4>2. e \in LogEntry /\ e.position = Len(frames[c].calls)
                BY <1>3, <4>1 DEF LogEntry
            <4> HIDE DEF e
            <4>3. frames'[c].logs = Append(frames[c].logs, e)
                BY <1>3 DEF e
            <4>4. \/ i \in DOMAIN frames[c].logs /\ frames'[c].logs[i] = frames[c].logs[i]
                  \/ frames'[c].logs[i] = e
                BY <2>1, <3>2, <4>1, <4>2, <4>3
            <4> QED BY <3>2, <4>1, <4>2, <4>4
        <3> QED BY <3>1, <3>2
    <2> QED BY <1>1, <1>3, <1>4, <2>1, SameTree
<1>8. Nested(O)'
    <2>1. \A f \in DOMAIN frames : frames[f].mark \in Nat
        BY <1>1, FrameIs
    <2>2. \A f \in DOMAIN frames : Last(frames'[f].calls) = Last(frames[f].calls)
        BY <1>4
    <2>3. O \subseteq DOMAIN frames /\ c \in O
        BY <1>2, <1>5 DEF Nested
    <2>4. \A f \in O : f <= current' /\ frames'[f].mark <= Len(journal')
        BY <1>2, <1>3, <1>4, <1>5, <2>1, <2>3, SMTT(30) DEF Nested
    <2>5. \A f \in O : f # 1 => /\ frames'[f].parent \in O /\ frames'[frames'[f].parent].calls # << >>
                               /\ Last(frames'[frames'[f].parent].calls) = f
        <3> SUFFICES ASSUME NEW f \in O, f # 1
                     PROVE  /\ frames'[f].parent \in O
                            /\ frames'[frames'[f].parent].calls # << >>
                            /\ Last(frames'[frames'[f].parent].calls) = f
            OBVIOUS
        <3> DEFINE p == frames[f].parent
        <3>1. p \in O /\ frames[p].calls # << >> /\ Last(frames[p].calls) = f
            BY <1>2 DEF Nested
        <3>2. p \in DOMAIN frames /\ frames'[f].parent = p
            BY <1>4, <2>3, <3>1
        <3> QED BY <1>4, <3>1, <3>2
    <2>6. \A f \in O \ {current'} :
            /\ frames'[f].calls # << >> /\ Last(frames'[f].calls) \in O
            /\ \A i \in DOMAIN frames'[f].logs : frames'[f].logs[i].position # Len(frames'[f].calls)
        BY <1>2, <1>3, <2>2, <2>3 DEF Nested
    <2>7. \A f, g \in O : f < g => Last(frames'[f].calls) <= g /\ frames'[f].mark <= frames'[g].mark
        BY <1>2, <1>4, <2>2, <2>3 DEF Nested
    <2>8. O \subseteq DOMAIN frames' /\ current' # 0 /\ current' \in O
        BY <1>3, <1>5, <2>3
    <2>9. \A f \in O :
            /\ f <= current' /\ frames'[f].mark <= Len(journal')
            /\ f # 1 => /\ frames'[f].parent \in O /\ frames'[frames'[f].parent].calls # << >>
                        /\ Last(frames'[frames'[f].parent].calls) = f
        BY <2>4, <2>5
    <2> QED BY <2>6, <2>7, <2>8, <2>9 DEF Nested
<1>9. Gave(v, O)'
    <2>1. v \in Seq(Seq(Nat)) /\ Len(v) = Len(frames')
        BY <1>2, <1>3 DEF Gave
    <2>2. ASSUME NEW f \in DOMAIN frames, f # c
          PROVE  frames'[f] = frames[f]
        BY <1>3, <2>2
    <2>3. ASSUME NEW f \in O
          PROVE  Ordered(frames'[f], v) = SubSeq(journal', frames'[f].mark + 1, Limit(f)')
        <3>1. /\ f \in DOMAIN frames /\ frames[f].mark \in Nat /\ frames[f].mark <= Len(journal)
              /\ frames'[f].mark = frames[f].mark
              /\ Ordered(frames[f], v) = SubSeq(journal, frames[f].mark + 1, Limit(f))
            BY <1>1, <1>2, <1>4, FrameIs DEF Nested, Gave
        <3>2. frames[f].mark + 1 \in 1 .. (Len(journal) + 1)
            BY <1>5, <3>1
        <3>3. CASE f = c
            <4>1. Ordered(frames'[f], v) = Append(Ordered(frames[f], v), x)
                <5>1. Fits(frames[c], v)
                    BY <1>1, <1>3, <2>1, FramesFit
                <5>2. Ordered(frames'[c], v) = Append(Ordered(frames[c], v), x)
                    <6> DEFINE new == frames'[c]
                               old == frames[c]
                    <6>1. /\ x \in Nat /\ new.calls = old.calls
                          /\ new.logs = Append(old.logs, [log |-> x, position |-> Len(old.calls)])
                        BY <1>3
                    <6> HIDE DEF new, c
                    <6>2. Fits(old, v)
                        BY <5>1
                    <6> HIDE DEF old
                    <6>3. Ordered(new, v) = Append(Ordered(old, v), x)
                        BY <6>1, <6>2, EmitAppends
                    <6> QED BY <6>3 DEF old, new
                <5> QED BY <3>3, <5>2
            <4>2. Limit(f) = Len(journal) /\ Limit(f)' = Len(journal) + 1
                BY <1>3, <1>5, <3>3 DEF Limit
            <4> DEFINE m == frames[f].mark + 1
            <4>3. m \in 1 .. (Len(journal) + 1) /\ frames'[f].mark + 1 = m
                BY <3>1, <3>2
            <4> HIDE DEF m
            <4>4. SubSeq(journal', m, Len(journal) + 1) = Append(SubSeq(journal, m, Len(journal)), x)
                BY <1>3, <1>5, <4>3, Longer
            <4> QED BY <3>1, <4>1, <4>2, <4>3, <4>4 DEF m
        <3>4. CASE f # c
            <4>1. Last(frames[f].calls) \in O /\ Last(frames[f].calls) \in DOMAIN frames
                BY <1>2, <3>4 DEF Nested
            <4>2. Limit(f) = frames[Last(frames[f].calls)].mark /\ Limit(f)' = Limit(f)
                BY <1>3, <1>4, <3>1, <3>4, <4>1 DEF Limit
            <4>3. Limit(f) \in 0 .. Len(journal)
                BY <1>1, <1>2, <1>5, <4>1, <4>2, FrameIs DEF Nested
            <4>4. SubSeq(journal', frames[f].mark + 1, Limit(f)) = SubSeq(journal, frames[f].mark + 1, Limit(f))
                BY <1>3, <1>5, <3>2, <4>3, Longer
            <4> QED BY <2>2, <3>1, <3>4, <4>2, <4>4
        <3> QED BY <3>3, <3>4
    <2>4. \A f \in DOMAIN frames' \ O : v[f] = Visit(frames'[f], v)
        <3>1. c \in O
            BY <1>2, <1>5 DEF Nested
        <3> QED BY <1>2, <1>3, <2>2, <3>1 DEF Gave
    <2> QED BY <1>2, <1>3, <1>5, <2>1, <2>3, <2>4 DEF Gave
<1> QED BY <1>6, <1>7, <1>8, <1>9 DEF LInv

\* What a frame gives depends on its calls and its logs.
LEMMA SameOrdered ==
    ASSUME NEW frame, NEW new, NEW visit, NEW other,
           new.calls = frame.calls, new.logs = frame.logs,
           \A i \in DOMAIN frame.calls : other[frame.calls[i]] = visit[frame.calls[i]]
    PROVE  Ordered(new, other) = Ordered(frame, visit)
<1>1. \A p : LogsAt(new, p) = LogsAt(frame, p)
    BY DEF LogsAt
<1> QED BY <1>1 DEF Ordered

\* What stands after a frame that began with k logs ended.
LEMMA JournalAtEnd ==
    ASSUME NEW j \in Seq(Nat), NEW k \in 0 .. Len(j)
    PROVE  /\ LET rest == SubSeq(j, 1, k) IN
              /\ rest \in Seq(Nat) /\ Len(rest) \in k .. Len(j)
              /\ \A m \in 1 .. (k + 1) :
                   /\ SubSeq(rest, m, Len(rest)) = SubSeq(j, m, k) \o << >>
                   /\ \A l \in 0 .. k : SubSeq(rest, m, l) = SubSeq(j, m, l)
           /\ SubSeq(j, k + 1, Len(j)) \in Seq(Nat) /\ Len(j) \in k .. Len(j)
           /\ \A m \in 1 .. (k + 1) : SubSeq(j, m, Len(j)) = SubSeq(j, m, k) \o SubSeq(j, k + 1, Len(j))
<1> DEFINE rest == SubSeq(j, 1, k)
<1>1. /\ rest \in Seq(Nat) /\ Len(rest) = k
      /\ \A l \in 0 .. k : \A m \in 1 .. (k + 1) : SubSeq(rest, m, l) = SubSeq(j, m, l)
    BY Shorter
<1>2. k \in 0 .. k /\ k \in k .. Len(j) /\ Len(j) \in k .. Len(j)
      /\ SubSeq(j, k + 1, Len(j)) \in Seq(Nat)
    OBVIOUS
<1>3. \A m \in 1 .. (k + 1) :
        /\ SubSeq(j, m, k) \o << >> = SubSeq(j, m, k)
        /\ SubSeq(j, m, k) \o SubSeq(j, k + 1, Len(j)) = SubSeq(j, m, Len(j))
    BY Adjacent
<1> HIDE DEF rest
<1> QED BY <1>1, <1>2, <1>3 DEF rest

LEMMA LeaveKeepsLogs == ASSUME LInv, NEW error \in BOOLEAN, Leave(error) PROVE LInv'
<1> DEFINE c == current
           p == frames[c].parent
           k == frames[c].mark
<1>1. TraceTypes /\ Tree
    BY DEF LInv
<1>2. PICK v, O : Nested(O) /\ Gave(v, O)
    BY DEF LInv
<1>3. /\ frames' = [frames EXCEPT ![current].error = error]
      /\ journal' = IF error THEN SubSeq(journal, 1, k) ELSE journal
    BY DEF Leave
<1> DEFINE g == IF error THEN << >> ELSE SubSeq(journal, k + 1, Len(journal))
<1>4. /\ c \in DOMAIN frames
      /\ frames' \in Seq(FrameType) /\ Len(frames') = Len(frames)
      /\ DOMAIN frames' = DOMAIN frames /\ DOMAIN frames = 1 .. Len(frames)
      /\ \A f \in DOMAIN frames \ {c} : frames'[f] = frames[f]
      /\ frames'[c].calls = frames[c].calls /\ frames'[c].mark = frames[c].mark
      /\ frames'[c].parent = frames[c].parent /\ frames'[c].error = error
      /\ frames'[c].logs = frames[c].logs
    BY <1>1, <1>3, LeaveFrames DEF Leave
<1>5. /\ Running /\ c # 0 /\ current' = p /\ UNCHANGED emitted
      /\ 1 \in DOMAIN frames /\ Len(frames) \in Nat
    BY <1>1 DEF Leave, Running, TraceTypes
<1>6. \A f \in DOMAIN frames : /\ frames'[f].calls = frames[f].calls
                               /\ frames'[f].mark = frames[f].mark
                               /\ frames'[f].parent = frames[f].parent
                               /\ frames'[f].logs = frames[f].logs
    BY <1>4
<1>7. /\ O \subseteq DOMAIN frames /\ c \in O
      /\ \A f \in O : f \in Nat \ {0} /\ f <= c /\ frames[f].mark \in Nat /\ frames[f].parent \in Nat
    BY <1>1, <1>2, <1>5, FrameIs DEF Nested
<1>8. journal \in Seq(Nat) /\ k \in 0 .. Len(journal)
    BY <1>1, <1>2, <1>7 DEF Nested, TraceTypes
<1>9. /\ journal' \in Seq(Nat) /\ Len(journal') \in k .. Len(journal) /\ g \in Seq(Nat)
      /\ \A m \in 1 .. (k + 1) :
           /\ SubSeq(journal', m, Len(journal')) = SubSeq(journal, m, k) \o g
           /\ \A l \in 0 .. k : SubSeq(journal', m, l) = SubSeq(journal, m, l)
    <2>1. CASE error
        <3>1. journal' = SubSeq(journal, 1, k) /\ g = << >>
            BY <1>3, <2>1
        <3> HIDE DEF g, k, p, c
        <3>2. g \in Seq(Nat)
            BY <3>1
        <3> QED BY <1>8, <3>1, <3>2, JournalAtEnd
    <2>2. CASE ~error
        <3>1. journal' = journal /\ g = SubSeq(journal, k + 1, Len(journal))
            BY <1>3, <2>2
        <3> HIDE DEF g, k, p, c
        <3>2. \A m \in 1 .. (k + 1) : \A l \in 0 .. k : SubSeq(journal', m, l) = SubSeq(journal, m, l)
            BY <3>1
        <3> QED BY <1>8, <3>1, <3>2, JournalAtEnd
    <2> QED BY <2>1, <2>2
<1>10. p \in Nat /\ p < c /\ (c # 1 => p \in O /\ frames[p].calls # << >> /\ Last(frames[p].calls) = c)
       /\ (c = 1 => p = 0)
    BY <1>1, <1>2, <1>4, <1>7, FrameIs DEF Nested, Tree
<1> HIDE DEF g, p, k
\* The frame that ends is in the last call of its parent, and of no other.
<1>11. ASSUME NEW f \in O \ {c}
       PROVE  /\ c # 1 /\ f \in O /\ f < c /\ f <= p /\ frames[f].mark <= k
              /\ frames[f].calls # << >> /\ Last(frames[f].calls) \in O
              /\ f # p => f < p /\ Last(frames[f].calls) <= p
    <2>1. f \in O /\ f < c /\ c # 1
        BY <1>7
    <2>2. frames[f].mark <= k /\ frames[f].calls # << >> /\ Last(frames[f].calls) \in O
        BY <1>2, <1>7, <2>1 DEF Nested, k
    <2>3. p \in O /\ Last(frames[p].calls) = c
        BY <1>10, <2>1
    <2>4. f <= p
        <3>1. p < f => Last(frames[p].calls) <= f
            BY <1>2, <2>1, <2>3 DEF Nested
        <3> QED BY <1>7, <1>10, <2>1, <2>3, <3>1
    <2>5. f < p => Last(frames[f].calls) <= p
        BY <1>2, <2>1, <2>3 DEF Nested
    <2> QED BY <1>7, <1>10, <2>1, <2>2, <2>4, <2>5
<1>12. TraceTypes'
    <2>1. current' \in 0 .. Len(frames')
        BY <1>4, <1>5, <1>10 DEF p
    <2> QED BY <1>1, <1>4, <1>5, <1>9, <2>1 DEF TraceTypes
<1>13. Tree'
    <2>1. \A f \in DOMAIN frames : \A i \in DOMAIN frames'[f].logs :
            frames'[f].logs[i].position <= Len(frames[f].calls)
        BY <1>1, <1>6 DEF Tree
    <2> QED BY <1>1, <1>4, <1>6, <2>1, SameTree
<1>14. PICK Q : Q = O \ {c}
    OBVIOUS
<1>15. Nested(Q)'
    <2>1. Q \subseteq DOMAIN frames' /\ (current' = 0 => Q = {}) /\ (current' # 0 => current' \in Q)
        <3>1. current' = 0 => c = 1
            BY <1>5, <1>7, <1>10
        <3>2. c = 1 => Q = {}
            BY <1>11, <1>14
        <3>3. current' # 0 => p \in Q
            BY <1>5, <1>7, <1>10, <1>14
        <3> QED BY <1>4, <1>5, <1>7, <1>14, <3>1, <3>2, <3>3
    <2>2. ASSUME NEW f \in Q
          PROVE  /\ f <= current' /\ frames'[f].mark <= Len(journal')
                 /\ f # 1 => /\ frames'[f].parent \in Q
                             /\ frames'[frames'[f].parent].calls # << >>
                             /\ Last(frames'[frames'[f].parent].calls) = f
        <3>1. f \in O \ {c} /\ f \in DOMAIN frames
            BY <1>7, <1>14
        <3>2. f <= current' /\ frames'[f].mark <= Len(journal')
            <4>1. k \in Nat /\ frames[f].mark \in Nat /\ frames[f].mark <= k
                BY <1>7, <1>11, <1>8, <3>1
            <4>2. f <= p
                BY <1>11, <3>1
            <4> QED BY <1>5, <1>6, <1>9, <3>1, <4>1, <4>2
        <3>3. ASSUME f # 1
              PROVE  /\ frames[f].parent \in Q /\ frames[f].parent \in DOMAIN frames
                     /\ frames[frames[f].parent].calls # << >>
                     /\ Last(frames[frames[f].parent].calls) = f
            <4>1. /\ frames[f].parent \in O /\ frames[frames[f].parent].calls # << >>
                  /\ Last(frames[frames[f].parent].calls) = f
                BY <1>2, <3>1, <3>3 DEF Nested
            <4>2. frames[f].parent < f
                BY <1>1, <3>1, <3>3 DEF Tree
            <4>3. frames[f].parent # c
                BY <1>7, <1>11, <3>1, <4>1, <4>2
            <4> QED BY <1>7, <1>14, <4>1, <4>3
        <3> QED BY <1>6, <3>1, <3>2, <3>3
    <2>3. ASSUME NEW f \in Q \ {current'}
          PROVE  /\ frames'[f].calls # << >> /\ Last(frames'[f].calls) \in Q
                 /\ \A i \in DOMAIN frames'[f].logs :
                      frames'[f].logs[i].position # Len(frames'[f].calls)
        <3>1. f \in O \ {c} /\ f \in DOMAIN frames /\ f # p
            BY <1>5, <1>7, <1>14
        <3>2. /\ frames[f].calls # << >> /\ Last(frames[f].calls) \in O
              /\ Last(frames[f].calls) <= p
            BY <1>11, <3>1
        <3>3. Last(frames[f].calls) \in Q
            BY <1>7, <1>10, <1>14, <3>2
        <3>4. \A i \in DOMAIN frames[f].logs : frames[f].logs[i].position # Len(frames[f].calls)
            BY <1>2, <3>1 DEF Nested
        <3> QED BY <1>6, <3>1, <3>2, <3>3, <3>4
    <2>4. \A f, h \in Q : f < h => Last(frames'[f].calls) <= h /\ frames'[f].mark <= frames'[h].mark
        <3>1. \A f, h \in Q : f < h => Last(frames[f].calls) <= h /\ frames[f].mark <= frames[h].mark
            BY <1>2, <1>14 DEF Nested
        <3> QED BY <1>6, <1>7, <1>14, <3>1
    <2> QED BY <2>1, <2>2, <2>3, <2>4 DEF Nested
<1>16. v \in Seq(Seq(Nat)) /\ Len(v) = Len(frames) /\ v[c] = << >>
    BY <1>2, <1>7 DEF Gave
<1>17. PICK w : w = [v EXCEPT ![c] = g]
    OBVIOUS
<1>18. /\ w \in Seq(Seq(Nat)) /\ Len(w) = Len(frames) /\ w[c] = g
       /\ \A f \in DOMAIN frames \ {c} : w[f] = v[f]
    BY <1>4, <1>9, <1>16, <1>17
\* The calls of a frame are not the frame that ends, unless it is its parent.
<1>19. ASSUME NEW f \in DOMAIN frames, f # p
       PROVE  \A i \in DOMAIN frames[f].calls : w[frames[f].calls[i]] = v[frames[f].calls[i]]
    <2>1. \A i \in DOMAIN frames[f].calls :
            frames[f].calls[i] \in (f + 1) .. Len(frames) /\ frames[frames[f].calls[i]].parent = f
        BY <1>1 DEF Tree
    <2>2. \A i \in (f + 1) .. Len(frames) : i \in DOMAIN frames
        BY <1>4, <1>5
    <2>3. \A i \in DOMAIN frames[f].calls : frames[f].calls[i] # c
        BY <1>19, <2>1 DEF p
    <2> QED BY <1>18, <2>1, <2>2, <2>3
<1>20. Gave(w, Q)'
    <2>1. w \in Seq(Seq(Nat)) /\ Len(w) = Len(frames')
        BY <1>4, <1>18
    <2>2. ASSUME NEW f \in Q
          PROVE  w[f] = << >> /\ Ordered(frames'[f], w) = SubSeq(journal', frames'[f].mark + 1, Limit(f)')
        <3>1. f \in O \ {c} /\ f \in DOMAIN frames /\ f # c
            BY <1>7, <1>14
        <3>2. /\ w[f] = << >> /\ frames'[f] = frames[f]
              /\ Ordered(frames[f], v) = SubSeq(journal, frames[f].mark + 1, Limit(f))
              /\ Limit(f) = frames[Last(frames[f].calls)].mark
            BY <1>2, <1>4, <1>18, <3>1 DEF Gave, Limit
        <3>3. frames[f].mark + 1 \in 1 .. (k + 1)
            BY <1>7, <1>8, <1>11, <3>1
        <3>4. CASE f = p
            <4>1. /\ frames[f].calls # << >> /\ Last(frames[f].calls) = c
                  /\ Limit(f) = k /\ Limit(f)' = Len(journal')
                BY <1>5, <1>10, <1>11, <3>1, <3>2, <3>4 DEF Limit, k
            <4>2. Ordered(frames[f], w) = Ordered(frames[f], v) \o g
                <5>1. Fits(frames[f], v) /\ Fits(frames[f], w)
                    BY <1>1, <1>16, <1>18, <3>1, FramesFit
                <5>2. frames[f].calls[Len(frames[f].calls)] = c
                    BY <4>1 DEF Last
                <5>3. Len(frames[f].calls) \in DOMAIN frames[f].calls
                    BY <1>1, <3>1, <4>1, FrameIs, EmptySeq
                <5>4. \A i \in DOMAIN frames[f].calls : i # Len(frames[f].calls) =>
                        w[frames[f].calls[i]] = v[frames[f].calls[i]]
                    <6>1. ASSUME NEW i \in DOMAIN frames[f].calls, i # Len(frames[f].calls)
                          PROVE  frames[f].calls[i] \in DOMAIN frames \ {c}
                        <7>1. frames[f].calls[i] \in (f + 1) .. Len(frames)
                            BY <1>1, <3>1 DEF Tree
                        <7>2. frames[f].calls[i] # frames[f].calls[Len(frames[f].calls)]
                            BY <1>1, <3>1, <5>3, <6>1 DEF Tree
                        <7> QED BY <1>4, <1>5, <3>1, <5>2, <7>1, <7>2
                    <6> QED BY <1>18, <6>1
                <5>5. \A i \in DOMAIN frames[f].logs : frames[f].logs[i].position # Len(frames[f].calls)
                    BY <1>2, <3>1 DEF Nested
                <5> DEFINE frame == frames[f]
                <5>6. /\ Fits(frame, v) /\ Fits(frame, w) /\ frame.calls # << >>
                      /\ v[frame.calls[Len(frame.calls)]] = << >>
                      /\ \A i \in DOMAIN frame.calls :
                           i # Len(frame.calls) => w[frame.calls[i]] = v[frame.calls[i]]
                      /\ \A i \in DOMAIN frame.logs : frame.logs[i].position # Len(frame.calls)
                      /\ w[frame.calls[Len(frame.calls)]] = g
                    BY <1>16, <1>18, <4>1, <5>1, <5>2, <5>4, <5>5
                <5> HIDE DEF frame
                <5>7. Ordered(frame, w) = Ordered(frame, v) \o g
                    BY <5>6, LeaveAppends
                <5> QED BY <5>7 DEF frame
            <4> QED BY <1>9, <3>2, <3>3, <4>1, <4>2
        <3>5. CASE f # p
            <4>1. Ordered(frames[f], w) = Ordered(frames[f], v)
                BY <1>19, <3>1, <3>5, OrderedDepends
            <4> DEFINE h == Last(frames[f].calls)
            <4>2. h \in O \ {c} /\ h \in DOMAIN frames
                BY <1>7, <1>10, <1>11, <3>1, <3>5
            <4>3. frames[h].mark \in 0 .. k
                BY <1>7, <1>8, <1>11, <4>2
            <4>4. Limit(f) = frames[h].mark /\ Limit(f)' = frames[h].mark
                BY <1>5, <1>6, <3>1, <3>2, <3>5, <4>2 DEF Limit
            <4> HIDE DEF h
            <4>5. SubSeq(journal', frames[f].mark + 1, frames[h].mark) =
                    SubSeq(journal, frames[f].mark + 1, frames[h].mark)
                BY <1>9, <3>3, <4>3
            <4> QED BY <3>2, <4>1, <4>4, <4>5
        <3> QED BY <3>2, <3>4, <3>5
    <2>3. ASSUME NEW f \in DOMAIN frames' \ Q
          PROVE  w[f] = Visit(frames'[f], w)
        <3>1. f \in DOMAIN frames
            BY <1>4
        <3>2. CASE f = c
            <4>1. Ordered(frames'[c], w) = Ordered(frames[c], v)
                <5>1. c # p
                    BY <1>7, <1>10
                <5>2. \A i \in DOMAIN frames[c].calls : w[frames[c].calls[i]] = v[frames[c].calls[i]]
                    BY <1>4, <1>19, <5>1
                <5> DEFINE new == frames'[c]
                           old == frames[c]
                <5>3. new.calls = old.calls /\ new.logs = old.logs
                    BY <1>4
                <5>4. \A i \in DOMAIN old.calls : w[old.calls[i]] = v[old.calls[i]]
                    BY <5>2
                <5> HIDE DEF new, old
                <5>5. Ordered(new, w) = Ordered(old, v)
                    BY <5>3, <5>4, SameOrdered
                <5> QED BY <5>5 DEF new, old
            <4>2. Ordered(frames[c], v) = SubSeq(journal, k + 1, Len(journal))
                BY <1>2, <1>7 DEF Gave, Limit, k
            <4> QED BY <1>4, <1>18, <3>2, <4>1, <4>2 DEF Visit, g
        <3>3. CASE f # c
            <4>1. f \in DOMAIN frames \ O
                BY <1>14, <3>1, <3>3
            <4>2. v[f] = Visit(frames[f], v)
                BY <1>2, <4>1 DEF Gave
            <4>3. f # p
                BY <1>4, <1>10, <4>1
            <4>4. Visit(frames[f], w) = Visit(frames[f], v)
                BY <1>19, <3>1, <4>3, OrderedDepends
            <4> QED BY <1>4, <1>18, <3>1, <3>3, <4>2, <4>4
        <3> QED BY <3>2, <3>3
    <2>4. ASSUME current' = 0 PROVE w[1] = journal'
        <3>1. c = 1
            BY <1>5, <1>7, <1>10, <2>4
        <3>2. k = 0
            BY <1>1, <3>1 DEF Tree, k
        <3>3. SubSeq(journal', 1, Len(journal')) = SubSeq(journal, 1, 0) \o g
            BY <1>9, <3>2
        <3>4. SubSeq(journal, 1, 0) = << >> /\ << >> \o g = g
            BY <1>8, <1>9, SubSeqEmpty, ConcatEmptySeq
        <3>5. SubSeq(journal', 1, Len(journal')) = journal'
            BY <1>9, SubSeqFull
        <3> QED BY <1>18, <3>1, <3>3, <3>4, <3>5
    <2> QED BY <2>1, <2>2, <2>3, <2>4 DEF Gave
<1> QED BY <1>12, <1>13, <1>15, <1>20 DEF LInv

LEMMA EnterKeepsLogs == ASSUME LInv, Enter PROVE LInv'
<1> DEFINE c == current
           n == Len(frames) + 1
<1>1. TraceTypes /\ Tree
    BY DEF LInv
<1>2. PICK v, O : Nested(O) /\ Gave(v, O)
    BY DEF LInv
<1>3. /\ c \in DOMAIN frames /\ c \in 1 .. Len(frames) /\ n \in Nat /\ n # c
      /\ frames' \in Seq(FrameType) /\ Len(frames') = n
      /\ DOMAIN frames' = DOMAIN frames \cup {n} /\ DOMAIN frames = 1 .. Len(frames)
      /\ frames'[n] = NewFrame(c)
      /\ \A f \in DOMAIN frames \ {c} : frames'[f] = frames[f]
      /\ frames'[c].calls = Append(frames[c].calls, n) /\ frames'[c].mark = frames[c].mark
      /\ frames'[c].parent = frames[c].parent /\ frames'[c].error = frames[c].error
      /\ frames'[c].logs = frames[c].logs
      /\ current' = n
      /\ UNCHANGED <<emitted, journal>>
    BY <1>1, EnterFrames
<1>4. /\ journal \in Seq(Nat) /\ Len(journal) \in Nat /\ 1 \in DOMAIN frames /\ c # 0
      /\ n = Len(frames) + 1 /\ Len(frames) \in Nat
      /\ \A f \in DOMAIN frames : f \in Nat /\ f < n
    BY <1>1, <1>3 DEF TraceTypes
<1>5. /\ frames'[n].parent = c /\ frames'[n].mark = Len(journal) /\ frames'[n].calls = << >>
      /\ frames'[n].logs = << >>
    BY <1>3 DEF NewFrame
<1> HIDE DEF n
<1>6. /\ \A f \in DOMAIN frames : frames'[f].mark = frames[f].mark /\ frames'[f].parent = frames[f].parent
                                  /\ frames'[f].logs = frames[f].logs
      /\ \A f \in DOMAIN frames \ {c} : frames'[f].calls = frames[f].calls
    BY <1>3
<1>7. /\ frames[c].calls \in Seq(Nat) /\ Len(frames[c].calls) \in Nat
      /\ DOMAIN frames[c].calls = 1 .. Len(frames[c].calls)
    BY <1>1, <1>3, FrameIs
<1>8. /\ DOMAIN frames'[c].calls = DOMAIN frames[c].calls \cup {Len(frames[c].calls) + 1}
      /\ \A i \in DOMAIN frames[c].calls : frames'[c].calls[i] = frames[c].calls[i]
      /\ frames'[c].calls[Len(frames[c].calls) + 1] = n
      /\ Len(frames'[c].calls) = Len(frames[c].calls) + 1
      /\ frames'[c].calls # << >> /\ Last(frames'[c].calls) = n
    <2> DEFINE s == frames[c].calls
    <2>1. s \in Seq(Nat) /\ Len(s) \in Nat /\ n \in Nat /\ DOMAIN s = 1 .. Len(s)
          /\ frames'[c].calls = Append(s, n)
        BY <1>3, <1>7
    <2> HIDE DEF s
    <2>2. /\ \A i \in DOMAIN s : Append(s, n)[i] = s[i]
          /\ Append(s, n)[Len(s) + 1] = n /\ Len(Append(s, n)) = Len(s) + 1
        BY <2>1
    <2>3. DOMAIN Append(s, n) = 1 .. (Len(s) + 1) /\ Append(s, n) # << >>
        <3>1. Append(s, n) \in Seq(Nat)
            BY <2>1
        <3> QED BY <2>1, <2>2, <3>1
    <2>4. 1 .. (Len(s) + 1) = DOMAIN s \cup {Len(s) + 1}
        BY <2>1
    <2> QED BY <2>1, <2>2, <2>3, <2>4 DEF s, Last
<1>9. O \subseteq DOMAIN frames /\ c \in O /\ \A f \in O : f <= c /\ f < n /\ f \in Nat
    BY <1>2, <1>4 DEF Nested
<1>10. TraceTypes'
    BY <1>1, <1>3, <1>4 DEF TraceTypes
<1>11. Tree'
    <2>1. frames'[1].parent = 0 /\ frames'[1].mark = 0
        BY <1>1, <1>4, <1>6 DEF Tree
    <2>2. ASSUME NEW f \in DOMAIN frames
          PROVE  /\ f # 1 => frames[f].parent < f
                 /\ \A i \in DOMAIN frames[f].calls :
                      /\ frames[f].calls[i] \in (f + 1) .. Len(frames)
                      /\ frames[f].calls[i] \in (f + 1) .. n
                      /\ frames[f].calls[i] \in DOMAIN frames
                      /\ frames'[frames[f].calls[i]].parent = f
                 /\ \A i, j \in DOMAIN frames[f].calls : frames[f].calls[i] = frames[f].calls[j] => i = j
                 /\ \A i \in DOMAIN frames[f].logs : frames[f].logs[i].position <= Len(frames[f].calls)
        <3>1. \A i \in (f + 1) .. Len(frames) : i \in DOMAIN frames /\ i \in (f + 1) .. n
            BY <1>3, <1>4
        <3> QED BY <1>1, <1>6, <3>1 DEF Tree
    <2>3. ASSUME NEW f \in DOMAIN frames'
          PROVE  /\ f # 1 => frames'[f].parent < f
                 /\ \A i \in DOMAIN frames'[f].calls :
                      frames'[f].calls[i] \in (f + 1) .. Len(frames')
                      /\ frames'[frames'[f].calls[i]].parent = f
                 /\ \A i, j \in DOMAIN frames'[f].calls :
                      frames'[f].calls[i] = frames'[f].calls[j] => i = j
                 /\ \A i \in DOMAIN frames'[f].logs :
                      frames'[f].logs[i].position <= Len(frames'[f].calls)
        <3>1. CASE f = n
            BY <1>4, <1>3, <1>5, <3>1
        <3>2. CASE f = c
            <4>1. c + 1 <= n /\ n \in (c + 1) .. n
                BY <1>3, <1>4
            <4>2. f # 1 => frames'[f].parent < f
                BY <1>6, <1>3, <2>2, <3>2
            <4>3. \A i \in DOMAIN frames'[c].calls :
                    frames'[c].calls[i] \in (c + 1) .. n
                    /\ frames'[frames'[c].calls[i]].parent = c
                BY <1>3, <1>5, <1>8, <2>2, <4>1
            <4>4. \A i, j \in DOMAIN frames'[c].calls : frames'[c].calls[i] = frames'[c].calls[j] => i = j
                BY <1>3, <1>4, <1>8, <2>2, SMTT(30)
            <4>5. \A i \in DOMAIN frames'[c].logs : frames'[c].logs[i].position <= Len(frames'[c].calls)
                <5>1. \A i \in DOMAIN frames[c].logs : frames[c].logs[i].position \in Nat
                    <6>1. frames[c].logs \in Seq(LogEntry)
                        BY <1>1, <1>3, FrameIs
                    <6>2. \A i \in DOMAIN frames[c].logs : frames[c].logs[i] \in LogEntry
                        BY <6>1
                    <6> QED BY <6>2 DEF LogEntry
                <5> QED BY <1>3, <1>7, <1>8, <2>2, <5>1
            <4> QED BY <1>3, <3>2, <4>2, <4>3, <4>4, <4>5
        <3>3. CASE f # n /\ f # c
            <4>1. f \in DOMAIN frames /\ frames'[f] = frames[f]
                BY <1>3, <3>3
            <4> QED BY <1>3, <2>2, <4>1
        <3> QED BY <3>1, <3>2, <3>3
    <2> QED BY <2>1, <2>3 DEF Tree
<1>12. PICK P : P = O \cup {n}
    OBVIOUS
<1>13. Nested(P)'
    <2>1. P \subseteq DOMAIN frames' /\ current' # 0 /\ current' \in P
        BY <1>3, <1>4, <1>9, <1>12
    <2>2. ASSUME NEW f \in P
          PROVE  /\ f <= current' /\ frames'[f].mark <= Len(journal')
                 /\ f # 1 => /\ frames'[f].parent \in P
                             /\ frames'[frames'[f].parent].calls # << >>
                             /\ Last(frames'[frames'[f].parent].calls) = f
        <3>1. CASE f = n
            <4>1. n <= n /\ Len(journal) <= Len(journal) /\ journal' = journal
                BY <1>3, <1>4
            <4>2. f <= current' /\ frames'[f].mark <= Len(journal')
                BY <1>3, <1>5, <3>1, <4>1
            <4>3. /\ frames'[f].parent = c /\ c \in P /\ frames'[c].calls # << >>
                  /\ Last(frames'[c].calls) = f
                BY <1>5, <1>8, <1>9, <1>12, <3>1
            <4> QED BY <4>2, <4>3
        <3>2. CASE f # n
            <4>1. f \in O /\ f \in DOMAIN frames /\ f <= c
                BY <1>9, <1>12, <3>2
            <4>2. f <= current' /\ frames'[f].mark <= Len(journal')
                BY <1>2, <1>3, <1>4, <1>6, <4>1, SMTT(30) DEF Nested
            <4>3. ASSUME f # 1
                  PROVE  /\ frames[f].parent \in O /\ frames[f].parent \in DOMAIN frames \ {c}
                         /\ frames[frames[f].parent].calls # << >>
                         /\ Last(frames[frames[f].parent].calls) = f
                <5>1. /\ frames[f].parent \in O /\ frames[frames[f].parent].calls # << >>
                      /\ Last(frames[frames[f].parent].calls) = f
                    BY <1>2, <4>1, <4>3 DEF Nested
                <5>2. frames[f].parent < f
                    BY <1>1, <4>1, <4>3 DEF Tree
                <5>3. frames[f].parent # c
                    BY <1>9, <4>1, <5>1, <5>2
                <5> QED BY <1>9, <5>1, <5>3
            <4> QED BY <1>6, <1>12, <4>1, <4>2, <4>3
        <3> QED BY <3>1, <3>2
    <2>3. ASSUME NEW f \in P \ {current'}
          PROVE  /\ frames'[f].calls # << >> /\ Last(frames'[f].calls) \in P
                 /\ \A i \in DOMAIN frames'[f].logs :
                      frames'[f].logs[i].position # Len(frames'[f].calls)
        <3>1. f \in O /\ f \in DOMAIN frames
            BY <1>3, <1>9, <1>12
        <3>2. CASE f = c
            <4>1. \A i \in DOMAIN frames[c].logs :
                    /\ frames[c].logs[i].position <= Len(frames[c].calls)
                    /\ frames[c].logs[i].position \in Nat
                <5>1. frames[c].logs \in Seq(LogEntry)
                    BY <1>1, <1>3, FrameIs
                <5>2. \A i \in DOMAIN frames[c].logs : frames[c].logs[i] \in LogEntry
                    BY <5>1
                <5> QED BY <1>1, <1>3, <5>2 DEF LogEntry, Tree
            <4>2. \A i \in DOMAIN frames[c].logs :
                    frames[c].logs[i].position # Len(frames[c].calls) + 1
                BY <1>7, <4>1
            <4> QED BY <1>3, <1>8, <1>12, <3>2, <4>2
        <3>3. CASE f # c
            <4>1. f \in O \ {current} /\ frames'[f] = frames[f]
                BY <1>3, <3>1, <3>3
            <4> QED BY <1>2, <1>12, <4>1 DEF Nested
        <3> QED BY <3>2, <3>3
    <2>4. ASSUME NEW f \in P, NEW h \in P, f < h
          PROVE  Last(frames'[f].calls) <= h /\ frames'[f].mark <= frames'[h].mark
        <3>1. f \in O /\ f \in DOMAIN frames
            BY <1>3, <1>9, <1>12, <2>4
        <3>2. CASE h = n
            <4>1. Last(frames'[f].calls) <= n
                <5>1. CASE f = c
                    <6>1. n <= n /\ Last(frames'[c].calls) = n
                        BY <1>3, <1>8
                    <6> QED BY <5>1, <6>1
                <5>2. CASE f # c
                    <6>1. Last(frames[f].calls) \in O
                        BY <1>2, <3>1, <5>2 DEF Nested
                    <6> QED BY <1>3, <1>6, <1>9, <3>1, <5>2, <6>1
                <5> QED BY <5>1, <5>2
            <4>2. frames'[f].mark <= Len(journal)
                BY <1>2, <1>6, <3>1 DEF Nested
            <4> QED BY <1>5, <3>2, <4>1, <4>2
        <3>3. CASE h # n
            <4>1. h \in O /\ h \in DOMAIN frames /\ f # c
                BY <1>3, <1>9, <1>12, <2>4, <3>1, <3>3
            <4>2. Last(frames[f].calls) <= h /\ frames[f].mark <= frames[h].mark
                BY <1>2, <2>4, <3>1, <4>1 DEF Nested
            <4> QED BY <1>6, <3>1, <4>1, <4>2
        <3> QED BY <3>2, <3>3
    <2> QED BY <2>1, <2>2, <2>3, <2>4 DEF Nested
<1>14. v \in Seq(Seq(Nat)) /\ Len(v) = Len(frames)
    BY <1>2 DEF Gave
<1>15. PICK w : w = Append(v, << >>)
    OBVIOUS
<1>16. /\ w \in Seq(Seq(Nat)) /\ Len(w) = n /\ w[n] = << >>
       /\ \A f \in DOMAIN frames : w[f] = v[f]
    BY <1>3, <1>4, <1>14, <1>15
<1>17. ASSUME NEW f \in DOMAIN frames
       PROVE  \A i \in DOMAIN frames[f].calls : w[frames[f].calls[i]] = v[frames[f].calls[i]]
    <2>1. \A i \in DOMAIN frames[f].calls : frames[f].calls[i] \in (f + 1) .. Len(frames)
        BY <1>1 DEF Tree
    <2>2. \A i \in (f + 1) .. Len(frames) : i \in DOMAIN frames
        BY <1>3, <1>4
    <2> QED BY <1>16, <2>1, <2>2
<1>18. Gave(w, P)'
    <2>1. w \in Seq(Seq(Nat)) /\ Len(w) = Len(frames')
        BY <1>3, <1>16
    <2>2. ASSUME NEW f \in P
          PROVE  w[f] = << >> /\ Ordered(frames'[f], w) = SubSeq(journal', frames'[f].mark + 1, Limit(f)')
        <3>1. CASE f = n
            <4>1. Ordered(frames'[n], w) = << >>
                <5> DEFINE frame == frames'[n]
                <5>1. frame.calls = << >> /\ frame.logs = << >>
                    BY <1>5
                <5> HIDE DEF frame
                <5>2. Fits(frame, w)
                    BY <1>16, <5>1 DEF Fits
                <5>3. Ordered(frame, w) = << >>
                    BY <5>1, <5>2, NothingYet
                <5> QED BY <5>3 DEF frame
            <4>2. Limit(f)' = Len(journal)
                BY <1>3, <3>1 DEF Limit
            <4>3. SubSeq(journal, Len(journal) + 1, Len(journal)) = << >>
                BY <1>4, SubSeqEmpty
            <4> QED BY <1>3, <1>5, <1>16, <3>1, <4>1, <4>2, <4>3
        <3>2. CASE f = c
            <4>1. Ordered(frames'[c], w) = Ordered(frames[c], v)
                <5> DEFINE new == frames'[c]
                           old == frames[c]
                <5>1. Fits(old, v)
                    BY <1>1, <1>3, <1>14, FramesFit
                <5>2. /\ new.calls = Append(old.calls, n) /\ new.logs = old.logs /\ w[n] = << >>
                      /\ \A i \in DOMAIN old.calls : w[old.calls[i]] = v[old.calls[i]]
                      /\ \A i \in DOMAIN old.logs : old.logs[i].position <= Len(old.calls)
                    BY <1>1, <1>3, <1>16, <1>17 DEF Tree
                <5> HIDE DEF new, old
                <5>3. Fits(new, w)
                    <6>1. old.calls \in Seq(1 .. Len(v)) /\ old.logs \in Seq(LogEntry) /\ Len(v) \in Nat
                          /\ Len(w) = Len(v) + 1 /\ n = Len(v) + 1
                        BY <1>4, <1>14, <1>16, <5>1 DEF Fits
                    <6>2. old.calls \in Seq(1 .. Len(w)) /\ n \in 1 .. Len(w)
                        <7>1. 1 .. Len(v) \subseteq 1 .. Len(w)
                            BY <6>1
                        <7> QED BY <6>1, <7>1, SeqMonotonic
                    <6>3. Append(old.calls, n) \in Seq(1 .. Len(w))
                        BY <6>2, AppendProperties
                    <6> QED BY <1>16, <5>2, <6>1, <6>3 DEF Fits
                <5>4. Ordered(new, w) = Ordered(old, v)
                    BY <5>1, <5>2, <5>3, EnterKeeps
                <5> QED BY <5>4 DEF new, old
            <4>2. v[c] = << >> /\ Ordered(frames[c], v) = SubSeq(journal, frames[c].mark + 1, Len(journal))
                BY <1>2, <1>9 DEF Gave, Limit
            <4>3. Limit(f)' = Len(journal)
                BY <1>3, <1>5, <1>8, <3>2 DEF Limit
            <4> QED BY <1>3, <1>16, <3>2, <4>1, <4>2, <4>3
        <3>3. CASE f # n /\ f # c
            <4>1. f \in O /\ f \in DOMAIN frames /\ frames'[f] = frames[f]
                BY <1>3, <1>9, <1>12, <3>3
            <4>2. /\ w[f] = << >> /\ Ordered(frames[f], v) = SubSeq(journal, frames[f].mark + 1, Limit(f))
                BY <1>2, <1>16, <4>1 DEF Gave
            <4>3. Ordered(frames[f], w) = Ordered(frames[f], v)
                BY <1>17, <4>1, OrderedDepends
            <4>4. Last(frames[f].calls) \in DOMAIN frames
                BY <1>2, <1>9, <3>3, <4>1 DEF Nested
            <4>5. Limit(f)' = Limit(f)
                BY <1>3, <1>6, <3>3, <4>1, <4>4 DEF Limit
            <4> QED BY <1>3, <4>1, <4>2, <4>3, <4>5
        <3> QED BY <3>1, <3>2, <3>3
    <2>3. ASSUME NEW f \in DOMAIN frames' \ P
          PROVE  w[f] = Visit(frames'[f], w)
        <3>1. f \in DOMAIN frames \ O /\ frames'[f] = frames[f]
            BY <1>3, <1>9, <1>12
        <3>2. v[f] = Visit(frames[f], v)
            BY <1>2, <3>1 DEF Gave
        <3>3. Visit(frames[f], w) = Visit(frames[f], v)
            BY <1>17, <3>1, OrderedDepends
        <3> QED BY <1>16, <3>1, <3>2, <3>3
    <2>4. current' # 0
        BY <1>3, <1>4
    <2> QED BY <2>1, <2>2, <2>3, <2>4 DEF Gave
<1> QED BY <1>10, <1>11, <1>13, <1>18 DEF LInv

LEMMA LogsInvariant == TraceSpec => []LInv
<1>1. TraceInit => LInv
    BY TraceInitInvariant
<1>2. LInv /\ [TraceNext]_trace => LInv'
    <2> SUFFICES ASSUME LInv, [TraceNext]_trace PROVE LInv'
        OBVIOUS
    <2>1. CASE Emit
        BY <2>1, EmitKeepsLogs
    <2>2. CASE Enter
        BY <2>2, EnterKeepsLogs
    <2>3. ASSUME NEW error \in BOOLEAN, Leave(error) PROVE LInv'
        BY <2>3, LeaveKeepsLogs
    <2>4. CASE UNCHANGED trace
        <3>1. UNCHANGED <<frames, current, emitted, journal>>
            BY <2>4 DEF trace
        <3>2. PICK v, O : Nested(O) /\ Gave(v, O)
            BY DEF LInv
        <3>3. TraceTypes' /\ Tree'
            BY <3>1 DEF LInv, TraceTypes, Tree
        <3>4. Nested(O)' /\ Gave(v, O)'
            BY <3>1, <3>2 DEF Nested, Gave, Limit
        <3> QED BY <3>3, <3>4 DEF LInv
    <2> QED BY <2>1, <2>2, <2>3, <2>4 DEF TraceNext
<1> QED BY <1>1, <1>2, PTL DEF TraceSpec

-----------------------------------------------------------------------------
(* The two properties.                                                     *)

\* The frames of a tree give but one thing.
LEMMA CollectedIs ==
    ASSUME TraceTypes, Tree, NEW v \in Seq(Seq(Nat)), Len(v) = Len(frames),
           \A f \in DOMAIN frames : v[f] = Visit(frames[f], v)
    PROVE  CollectLogs = v[1]
<1> DEFINE Solves(u) == u = [f \in DOMAIN frames |-> Visit(frames[f], u)]
           u == CHOOSE visit : Solves(visit)
<1>1. /\ DOMAIN frames = 1 .. Len(frames) /\ Len(frames) \in Nat /\ 1 \in DOMAIN frames
      /\ \A f \in DOMAIN frames : f \in Nat /\ Len(frames) - f \in Nat
    BY DEF TraceTypes
<1>2. Solves(v)
    <2>1. v = [f \in DOMAIN frames |-> v[f]]
        BY <1>1
    <2> QED BY <2>1
<1>3. Solves(u)
    BY <1>2
<1>4. CollectLogs = u[1]
    BY DEF CollectLogs
<1> HIDE DEF u
<1>5. \A f \in DOMAIN frames : u[f] = Visit(frames[f], u)
    BY <1>3
<1> DEFINE Differ == {f \in DOMAIN frames : u[f] # v[f]}
           Behind == {Len(frames) - f : f \in Differ}
<1>6. ASSUME Differ # {} PROVE FALSE
    <2>1. Behind \subseteq Nat /\ Behind # {}
        BY <1>1, <1>6
    <2>2. PICK b \in Behind : \A m \in Behind : b <= m
        <3> HIDE DEF Behind
        <3> QED BY <2>1, LeastNumber
    <2>3. PICK f \in Differ : b = Len(frames) - f
        BY <2>2
    <2>4. ASSUME NEW h \in (f + 1) .. Len(frames) PROVE u[h] = v[h]
        <3>1. h \in DOMAIN frames /\ Len(frames) - h < b
            BY <1>1, <2>3
        <3>2. h \notin Differ
            <4>1. h \in Differ => Len(frames) - h \in Behind
                OBVIOUS
            <4>2. b \in Nat /\ Len(frames) - h \in Nat
                BY <1>1, <2>1, <2>2, <3>1
            <4> HIDE DEF Behind
            <4> QED BY <2>2, <3>1, <4>1, <4>2
        <3> QED BY <3>1, <3>2
    <2>5. \A i \in DOMAIN frames[f].calls : u[frames[f].calls[i]] = v[frames[f].calls[i]]
        BY <2>3, <2>4 DEF Tree
    <2>6. Visit(frames[f], u) = Visit(frames[f], v)
        BY <2>5, OrderedDepends
    <2> QED BY <1>5, <2>3, <2>6
<1> QED BY <1>1, <1>4, <1>6

\* The execution on two machines is one of the tracer's runs.
LEMMA ExecutionIsTraced == ExecutionSpec => TraceSpec
<1>1. ExecutionInit => TraceInit
    BY DEF ExecutionInit
<1>2. [ExecutionNext]_<<trace, execution>> => [TraceNext]_trace
    BY DEF ExecutionNext, Log, Store, Call, Create, Return, TraceNext
<1> QED BY <1>1, <1>2, PTL DEF ExecutionSpec, TraceSpec

\* The logs of the call, in order, whatever the nesting (collect_logs).
THEOREM CallLogs == ExecutionSpec => []CollectedLogsAreTheJournal
<1>1. LInv => CollectedLogsAreTheJournal
    <2> SUFFICES ASSUME LInv, ~Running PROVE CollectLogs = journal
        BY DEF CollectedLogsAreTheJournal
    <2>1. PICK v, O : Nested(O) /\ Gave(v, O)
        BY DEF LInv
    <2>2. current = 0 /\ O = {}
        BY <2>1 DEF Running, Nested
    <2>3. /\ v \in Seq(Seq(Nat)) /\ Len(v) = Len(frames) /\ v[1] = journal
          /\ \A f \in DOMAIN frames : v[f] = Visit(frames[f], v)
        BY <2>1, <2>2 DEF Gave
    <2> QED BY <2>3, CollectedIs DEF LInv
<1> QED BY <1>1, LogsInvariant, ExecutionIsTraced, PTL

-----------------------------------------------------------------------------
(* The execution on two machines.                                          *)

Shaped(s) ==
    /\ DOMAIN s = {"nonce", "storage", "code"}
    /\ Sender \in DOMAIN s.nonce /\ Contract \in DOMAIN s.nonce
    /\ \A a \in DOMAIN s.nonce : s.nonce[a] \in Nat
    /\ DOMAIN s.storage = TraceSlots

\* The states of the machines, of which the first has the envelope.
Agreed(states) ==
    LET r == states["rpc"]
        p == states["replay"] IN
    /\ DOMAIN p.nonce = DOMAIN r.nonce /\ p.nonce[Sender] = 1
    /\ \A a \in DOMAIN r.nonce \ {Sender} : p.nonce[a] = r.nonce[a]
    /\ p.code = r.code
    /\ \A slot \in TraceSlots : p.storage[slot] = r.storage[slot]

\* Until the sender creates, the machines agree.
Used(states) == states["rpc"].nonce[Sender]
Together(states) ==
    /\ \A m \in Machines : Shaped(states[m])
    /\ Used(states) >= 2
    /\ Used(states) = 2 => Agreed(states)

Exist(account, states) == \A m \in Machines : account[m] \in DOMAIN states[m].nonce
Same(account) == account["rpc"] = account["replay"]

\* The running frames, outermost first.
Chain ==
    /\ current # 0 => undo # << >>
    /\ undo # << >> => undo[Len(undo)].frame = current
    /\ \A i \in 1 .. Len(undo) : /\ undo[i].frame \in DOMAIN frames
                                 /\ frames[undo[i].frame].parent = IF i = 1 THEN 0 ELSE undo[i - 1].frame

Snapshots(states) ==
    \A i \in 1 .. Len(undo) :
      /\ Together(undo[i].state) /\ Used(undo[i].state) <= Used(states)
      /\ Used(undo[i].state) = 2 => Same(undo[i].account)
      /\ Exist(undo[i].account, states)
      /\ \A j \in 1 .. Len(undo) : i < j =>
           Used(undo[i].state) <= Used(undo[j].state) /\ Exist(undo[i].account, undo[j].state)

Started ==
    /\ DOMAIN before = {"nonce", "storage", "code"}
    /\ before.nonce = [a \in {Sender, Contract} |-> 1] /\ before.code = {}
    /\ before.storage \in [TraceSlots -> 0 .. 1]

EInv == /\ Started /\ Together(state)
        /\ \E S : undo \in Seq(S)
        /\ Chain /\ Snapshots(state)

LEMMA RaisedIs ==
    ASSUME NEW s, Shaped(s), NEW a \in DOMAIN s.nonce
    PROVE  LET t == Raised(s, a) IN
           /\ Shaped(t) /\ DOMAIN t.nonce = DOMAIN s.nonce /\ t.nonce[a] = s.nonce[a] + 1
           /\ \A o \in DOMAIN s.nonce \ {a} : t.nonce[o] = s.nonce[o]
           /\ t.code = s.code /\ t.storage = s.storage
BY DEF Shaped, Raised

LEMMA OpenedIs ==
    ASSUME NEW s, Shaped(s), NEW a
    PROVE  LET t == Opened(s, a) IN
           /\ Shaped(t) /\ DOMAIN t.nonce = DOMAIN s.nonce \cup {a}
           /\ \A o \in DOMAIN s.nonce : t.nonce[o] = s.nonce[o]
           /\ a \notin DOMAIN s.nonce => t.nonce[a] = 1
           /\ t.code = s.code /\ t.storage = s.storage
BY DEF Shaped, Opened

LEMMA DeployedIs ==
    ASSUME NEW s, Shaped(s), NEW a
    PROVE  LET t == Deployed(s, a) IN
           /\ Shaped(t) /\ t.nonce = s.nonce
           /\ t.code = s.code \cup {a} /\ t.storage = s.storage
BY DEF Shaped, Deployed

LEMMA StoredIs ==
    ASSUME NEW s, Shaped(s), NEW slot \in TraceSlots, NEW value
    PROVE  LET t == [s EXCEPT !.storage[slot] = value] IN
           /\ Shaped(t) /\ t.nonce = s.nonce /\ t.code = s.code /\ t.storage[slot] = value
           /\ \A o \in TraceSlots \ {slot} : t.storage[o] = s.storage[o]
BY DEF Shaped

\* A change of the states that keeps what the running frames need.
LEMMA SnapshotsStay ==
    ASSUME NEW states, NEW states2, Snapshots(states), Together(states), Together(states2),
           Used(states2) >= Used(states),
           \A m \in Machines : DOMAIN states[m].nonce \subseteq DOMAIN states2[m].nonce
    PROVE  Snapshots(states2)
<1>1. Used(states) \in Nat /\ Used(states2) \in Nat
    BY DEF Together, Shaped, Used, Machines
<1>2. \A i \in 1 .. Len(undo) : Used(undo[i].state) \in Nat
    BY DEF Snapshots, Together, Shaped, Used, Machines
<1> SUFFICES ASSUME NEW i \in 1 .. Len(undo)
             PROVE  /\ Together(undo[i].state) /\ Used(undo[i].state) <= Used(states2)
                    /\ Used(undo[i].state) = 2 => Same(undo[i].account)
                    /\ Exist(undo[i].account, states2)
                    /\ \A j \in 1 .. Len(undo) : i < j =>
                         /\ Used(undo[i].state) <= Used(undo[j].state)
                         /\ Exist(undo[i].account, undo[j].state)
    BY DEF Snapshots
<1>3. /\ Together(undo[i].state)
      /\ Used(undo[i].state) = 2 => Same(undo[i].account)
      /\ \A j \in 1 .. Len(undo) : i < j =>
           /\ Used(undo[i].state) <= Used(undo[j].state)
           /\ Exist(undo[i].account, undo[j].state)
    BY Zenon DEF Snapshots
<1>4. Used(undo[i].state) <= Used(states) /\ Exist(undo[i].account, states)
    BY Zenon DEF Snapshots
<1>5. Used(undo[i].state) <= Used(states2)
    BY <1>1, <1>2, <1>4
<1>6. Exist(undo[i].account, states2)
    BY <1>4 DEF Exist
<1> QED BY <1>3, <1>5, <1>6

LEMMA ExecutionBegins == ASSUME ExecutionInit PROVE EInv
<1>1. PICK stored \in [TraceSlots -> 0 .. 1] :
        before = [nonce |-> [a \in {Sender, Contract} |-> 1], storage |-> stored, code |-> {}]
    BY DEF ExecutionInit
<1>2. Started
    BY <1>1 DEF Started
<1>3. Shaped(before) /\ Sender \in DOMAIN before.nonce /\ before.nonce[Sender] = 1
    BY <1>1 DEF Shaped
<1>4. state["rpc"] = Raised(before, Sender) /\ state["replay"] = before
    BY DEF ExecutionInit, Machines
<1>5. Together(state) /\ Used(state) = 2
    <2>1. \A m \in Machines : Shaped(state[m])
        BY <1>3, <1>4, RaisedIs DEF Machines
    <2>2. Used(state) = 2
        BY <1>3, <1>4, RaisedIs DEF Used
    <2>3. Agreed(state)
        BY <1>3, <1>4, RaisedIs DEF Agreed
    <2> QED BY <2>1, <2>2, <2>3 DEF Together
<1>6. PICK account \in {Sender, Contract} : undo = <<Began(1, [m \in Machines |-> account], FALSE, state)>>
    BY DEF ExecutionInit
<1> DEFINE b == Began(1, [m \in Machines |-> account], FALSE, state)
<1>7. b.frame = 1 /\ b.account = [m \in Machines |-> account] /\ b.state = state
    BY DEF Began
<1> HIDE DEF b
<1>8. undo = <<b>> /\ Len(undo) = 1 /\ undo[1] = b /\ undo \in Seq({b})
    BY <1>6 DEF b
<1>9. Same(b.account) /\ Exist(b.account, state)
    BY <1>5, <1>7 DEF Same, Exist, Together, Shaped, Machines
<1>10. Used(state) \in Nat
    BY <1>5
<1>11. Snapshots(state)
    BY <1>5, <1>7, <1>8, <1>9, <1>10 DEF Snapshots
<1>12. current = 1 /\ frames = <<NewFrame(0)>> /\ NewFrame(0).parent = 0
    BY DEF ExecutionInit, TraceInit, NewFrame
<1>13. Chain
    BY <1>7, <1>8, <1>12 DEF Chain
<1> QED BY <1>2, <1>5, <1>8, <1>11, <1>13 DEF EInv

\* Emit.
LEMMA LogKeeps == ASSUME LInv, EInv, Log PROVE EInv'
<1>1. Emit /\ UNCHANGED <<before, state, undo, writes>>
    BY DEF Log, execution
<1>2. /\ DOMAIN frames' = DOMAIN frames /\ current' = current
      /\ \A f \in DOMAIN frames : frames'[f].parent = frames[f].parent
    BY <1>1, EmitFrames DEF LInv
<1>3. Chain'
    BY <1>1, <1>2 DEF EInv, Chain
<1>4. Started' /\ Together(state)' /\ Snapshots(state)' /\ \E S : undo' \in Seq(S)
    BY <1>1 DEF EInv, Started, Together, Snapshots
<1> QED BY <1>3, <1>4 DEF EInv

LEMMA StoreKeeps == ASSUME EInv, Store PROVE EInv'
<1>1. PICK slot \in TraceSlots, value \in 0 .. 2 :
        state' = [m \in Machines |-> [state[m] EXCEPT !.storage[slot] = value]]
    BY DEF Store
<1>2. UNCHANGED <<frames, current, before, undo>>
    BY DEF Store, trace
<1>3. \A m \in Machines : state'[m] = [state[m] EXCEPT !.storage[slot] = value] /\ Shaped(state[m])
    BY <1>1 DEF EInv, Together
<1>4. \A m \in Machines : /\ Shaped(state'[m]) /\ state'[m].nonce = state[m].nonce
                           /\ state'[m].code = state[m].code /\ state'[m].storage[slot] = value
                           /\ \A o \in TraceSlots \ {slot} : state'[m].storage[o] = state[m].storage[o]
    <2> SUFFICES ASSUME NEW m \in Machines
                 PROVE  /\ Shaped(state'[m]) /\ state'[m].nonce = state[m].nonce
                        /\ state'[m].code = state[m].code /\ state'[m].storage[slot] = value
                        /\ \A o \in TraceSlots \ {slot} : state'[m].storage[o] = state[m].storage[o]
        OBVIOUS
    <2> DEFINE s == state[m]
               t == [s EXCEPT !.storage[slot] = value]
    <2>1. Shaped(s) /\ state'[m] = t
        BY <1>3
    <2> HIDE DEF s
    <2>2. /\ Shaped(t) /\ t.nonce = s.nonce /\ t.code = s.code /\ t.storage[slot] = value
          /\ \A o \in TraceSlots \ {slot} : t.storage[o] = s.storage[o]
        BY <2>1, StoredIs
    <2> QED BY <2>1, <2>2 DEF s
<1>5. "rpc" \in Machines /\ "replay" \in Machines
    BY DEF Machines
<1>6. Together(state') /\ Used(state') = Used(state)
    <2>1. Used(state') = Used(state)
        BY <1>4, <1>5 DEF Used
    <2>2. Agreed(state) => Agreed(state')
        BY <1>4, <1>5 DEF Agreed
    <2> QED BY <1>4, <2>1, <2>2 DEF EInv, Together
<1>7. Used(state) \in Nat
    BY <1>3, <1>5 DEF Used, Shaped
<1>8. Snapshots(state')
    BY <1>4, <1>6, <1>7, SnapshotsStay DEF EInv
<1>9. Chain' /\ Started' /\ Together(state)' /\ Snapshots(state)' /\ \E S : undo' \in Seq(S)
    BY <1>2, <1>6, <1>8 DEF EInv, Chain, Started, Together, Snapshots
<1> QED BY <1>9 DEF EInv

\* The running frame, and the account that runs in it.
LEMMA Innermost ==
    ASSUME TraceTypes, EInv, Running
    PROVE  /\ Len(undo) \in Nat \ {0} /\ Len(undo) \in 1 .. Len(undo) /\ Last(undo) = undo[Len(undo)]
           /\ Exist(Last(undo).account, state)
           /\ Used(state) = 2 => Same(Last(undo).account)
           /\ Together(Last(undo).state) /\ Used(Last(undo).state) <= Used(state)
           /\ Used(state) \in Nat /\ Used(Last(undo).state) \in Nat
<1>1. undo # << >>
    BY DEF EInv, Chain, Running
<1>2. PICK S : undo \in Seq(S)
    BY DEF EInv
<1>3. Len(undo) \in Nat \ {0} /\ Len(undo) \in 1 .. Len(undo) /\ Last(undo) = undo[Len(undo)]
    BY <1>1, <1>2 DEF Last
<1> DEFINE u == Last(undo)
<1>4. /\ Together(u.state) /\ Used(u.state) <= Used(state)
      /\ Exist(u.account, state)
    BY <1>3 DEF EInv, Snapshots
<1>5. Used(u.state) = 2 => Same(u.account)
    BY <1>3, Zenon DEF EInv, Snapshots
<1>6. Used(state) \in Nat /\ Used(u.state) \in Nat /\ Used(u.state) >= 2
    BY <1>4 DEF EInv, Together, Shaped, Used, Machines
<1> HIDE DEF u
<1>7. Used(state) = 2 => Used(u.state) = 2
    BY <1>4, <1>6
<1> QED BY <1>3, <1>4, <1>5, <1>6, <1>7 DEF u

\* A frame begins: b is what undo keeps of it.
LEMMA FrameBegins ==
    ASSUME TraceTypes, EInv, Enter, NEW b, NEW states,
           undo' = Append(undo, b), b.frame = current',
           Together(b.state), Together(states), Used(b.state) = Used(states), Used(b.state) >= Used(state),
           \A m \in Machines : /\ DOMAIN state[m].nonce \subseteq DOMAIN b.state[m].nonce
                               /\ DOMAIN b.state[m].nonce \subseteq DOMAIN states[m].nonce,
           Used(b.state) = 2 => Same(b.account), Exist(b.account, states)
    PROVE  Chain' /\ Snapshots(states)' /\ \E S : undo' \in Seq(S)
<1> DEFINE n == Len(undo)
<1>1. PICK S : undo \in Seq(S)
    BY DEF EInv
<1>2. /\ n \in Nat /\ n + 1 \in 1 .. Len(undo') /\ Len(undo') = n + 1 /\ undo'[n + 1] = b
      /\ \A i \in 1 .. n : undo'[i] = undo[i] /\ i \in 1 .. Len(undo')
      /\ \A i \in 1 .. Len(undo') : i = n + 1 \/ i \in 1 .. n
    BY <1>1
<1>3. undo' \in Seq(S \cup {b})
    BY <1>1
<1>4. /\ current \in DOMAIN frames /\ DOMAIN frames' = DOMAIN frames \cup {current'}
      /\ frames'[current'].parent = current /\ current' \notin DOMAIN frames
      /\ \A f \in DOMAIN frames : frames'[f].parent = frames[f].parent
    <2>1. /\ current \in DOMAIN frames /\ Len(frames) \in Nat
          /\ DOMAIN frames = 1 .. Len(frames) /\ current' = Len(frames) + 1
          /\ DOMAIN frames' = DOMAIN frames \cup {Len(frames) + 1}
        BY EnterFrames DEF TraceTypes
    <2>2. /\ frames'[Len(frames) + 1].parent = current
          /\ frames'[current].parent = frames[current].parent
          /\ \A f \in DOMAIN frames \ {current} : frames'[f] = frames[f]
        BY EnterFrames DEF NewFrame
    <2> QED BY <2>1, <2>2
<1>5. Running
    BY DEF Enter
<1> HIDE DEF n
<1>6. n # 0 /\ undo[n].frame = current
    BY <1>5, Innermost DEF EInv, Chain, n
<1>7. Chain'
    <2>1. undo' # << >> /\ undo'[Len(undo')].frame = current'
        BY <1>2, <1>3
    <2>2. ASSUME NEW i \in 1 .. Len(undo')
          PROVE  /\ undo'[i].frame \in DOMAIN frames'
                 /\ frames'[undo'[i].frame].parent = IF i = 1 THEN 0 ELSE undo'[i - 1].frame
        <3>1. CASE i = n + 1
            BY <1>2, <1>4, <1>6, <3>1
        <3>2. CASE i \in 1 .. n
            <4>1. /\ undo[i].frame \in DOMAIN frames
                  /\ frames[undo[i].frame].parent = IF i = 1 THEN 0 ELSE undo[i - 1].frame
                BY <3>2 DEF EInv, Chain, n
            <4>2. i # 1 => undo'[i - 1] = undo[i - 1]
                BY <1>2, <3>2
            <4> QED BY <1>2, <1>4, <3>2, <4>1, <4>2
        <3> QED BY <1>2, <3>1, <3>2
    <2> QED BY <2>1, <2>2 DEF Chain
<1>8. Used(b.state) \in Nat /\ Used(state) \in Nat /\ \A i \in 1 .. n : Used(undo[i].state) \in Nat
    BY DEF EInv, Snapshots, Together, Shaped, Used, Machines, n
<1>9. Snapshots(state) /\ Snapshots(b.state) /\ Snapshots(states)
    <2>1. Used(states) >= Used(state)
        BY <1>8
    <2>2. \A m \in Machines : DOMAIN state[m].nonce \subseteq DOMAIN states[m].nonce
        OBVIOUS
    <2> QED BY <2>1, <2>2, SnapshotsStay DEF EInv
<1>10. ASSUME NEW i \in 1 .. Len(undo')
       PROVE  /\ Together(undo'[i].state) /\ Used(undo'[i].state) <= Used(states)
              /\ Used(undo'[i].state) = 2 => Same(undo'[i].account)
              /\ Exist(undo'[i].account, states)
              /\ \A j \in 1 .. Len(undo') : i < j =>
                   /\ Used(undo'[i].state) <= Used(undo'[j].state)
                   /\ Exist(undo'[i].account, undo'[j].state)
    <2>1. CASE i = n + 1
        <3>1. undo'[i] = b /\ \A j \in 1 .. Len(undo') : ~(i < j)
            BY <1>2, <2>1
        <3>2. Used(b.state) <= Used(states)
            BY <1>8
        <3> QED BY <3>1, <3>2
    <2>2. CASE i \in 1 .. n
        <3>1. undo'[i] = undo[i]
            BY <1>2, <2>2
        <3>2. /\ Together(undo[i].state) /\ Used(undo[i].state) <= Used(states)
              /\ Exist(undo[i].account, states)
            BY <1>9, <2>2 DEF Snapshots, n
        <3>3. Used(undo[i].state) = 2 => Same(undo[i].account)
            BY <1>9, <2>2, Zenon DEF Snapshots, n
        <3>4. Used(undo[i].state) <= Used(b.state) /\ Exist(undo[i].account, b.state)
            BY <1>9, <2>2 DEF Snapshots, n
        <3>5. ASSUME NEW j \in 1 .. Len(undo'), i < j
              PROVE  Used(undo'[i].state) <= Used(undo'[j].state) /\ Exist(undo'[i].account, undo'[j].state)
            <4>1. CASE j = n + 1
                BY <1>2, <3>1, <3>4, <4>1
            <4>2. CASE j \in 1 .. n
                <5>1. undo'[j] = undo[j]
                    BY <1>2, <4>2
                <5>2. Used(undo[i].state) <= Used(undo[j].state) /\ Exist(undo[i].account, undo[j].state)
                    BY <1>9, <2>2, <3>5, <4>2 DEF Snapshots, n
                <5> QED BY <3>1, <5>1, <5>2
            <4> QED BY <1>2, <4>1, <4>2
        <3> QED BY <3>1, <3>2, <3>3, <3>5
    <2> QED BY <1>2, <2>1, <2>2
<1> QED BY <1>3, <1>7, <1>10 DEF Snapshots

LEMMA CallKeeps == ASSUME TraceTypes, EInv, Call PROVE EInv'
<1>1. PICK account \in {Sender, Contract} :
        undo' = Append(undo, Began(current', [m \in Machines |-> account], FALSE, state))
    BY DEF Call
<1> DEFINE b == Began(current', [m \in Machines |-> account], FALSE, state)
<1>2. /\ b.frame = current' /\ b.state = state /\ \A m \in Machines : b.account[m] = account
    BY DEF Began
<1> HIDE DEF b
<1>3. /\ Enter /\ UNCHANGED <<before, state>> /\ undo' = Append(undo, b)
    BY <1>1 DEF Call, b
<1>4. Together(state) /\ Used(state) \in Nat
    BY DEF EInv, Together, Shaped, Used, Machines
<1>5. Same(b.account) /\ Exist(b.account, state)
    BY <1>2, <1>4 DEF Same, Exist, Together, Shaped, Machines
<1>6. Chain' /\ Snapshots(state)' /\ \E S : undo' \in Seq(S)
    <2>1. /\ Together(b.state) /\ Together(state) /\ Used(b.state) = Used(state)
          /\ Used(b.state) >= Used(state) /\ Exist(b.account, state)
        BY <1>2, <1>4, <1>5
    <2>2. \A m \in Machines : /\ DOMAIN state[m].nonce \subseteq DOMAIN b.state[m].nonce
                              /\ DOMAIN b.state[m].nonce \subseteq DOMAIN state[m].nonce
        BY <1>2
    <2>3. Chain' /\ (\E S : undo' \in Seq(S))
        BY <1>2, <1>3, <1>5, <2>1, <2>2, FrameBegins
    <2>4. Snapshots(state)'
        BY <1>2, <1>3, <1>5, <2>1, <2>2, FrameBegins DEF Snapshots
    <2> QED BY <2>3, <2>4
<1>7. Started' /\ Together(state)'
    BY <1>3, <1>4 DEF EInv, Started, Together
<1> QED BY <1>6, <1>7 DEF EInv

\* A creator's nonce is raised on both machines.
LEMMA RaisedTogether ==
    ASSUME NEW states, Together(states), NEW c, Exist(c, states), Used(states) = 2 => Same(c),
           NEW next, \A m \in Machines : next[m] = Raised(states[m], c[m])
    PROVE  /\ Together(next) /\ Used(next) >= Used(states)
           /\ \A m \in Machines : DOMAIN next[m].nonce = DOMAIN states[m].nonce
           /\ Used(next) = 2 => /\ Same(c)
                               /\ states["rpc"].nonce[c["rpc"]] = states["replay"].nonce[c["replay"]]
<1> DEFINE r == states["rpc"]
           p == states["replay"]
           cr == c["rpc"]
           cp == c["replay"]
<1>1. /\ Shaped(r) /\ Shaped(p) /\ cr \in DOMAIN r.nonce /\ cp \in DOMAIN p.nonce
      /\ next["rpc"] = Raised(r, cr) /\ next["replay"] = Raised(p, cp)
    BY DEF Together, Exist, Machines
<1>2. Used(states) = r.nonce[Sender] /\ Used(states) >= 2
    BY DEF Together, Used
<1>3. /\ Same(c) <=> cr = cp
      /\ Used(states) = 2 => cr = cp /\ Agreed(states)
    BY DEF Same, Together
<1>4. Agreed(states) => /\ DOMAIN p.nonce = DOMAIN r.nonce /\ p.nonce[Sender] = 1
                        /\ \A a \in DOMAIN r.nonce \ {Sender} : p.nonce[a] = r.nonce[a]
                        /\ p.code = r.code
                        /\ \A slot \in TraceSlots : p.storage[slot] = r.storage[slot]
    BY DEF Agreed
<1> DEFINE nr == next["rpc"]
           np == next["replay"]
<1>5. /\ Shaped(nr) /\ DOMAIN nr.nonce = DOMAIN r.nonce /\ nr.nonce[cr] = r.nonce[cr] + 1
      /\ \A o \in DOMAIN r.nonce \ {cr} : nr.nonce[o] = r.nonce[o]
      /\ nr.code = r.code /\ nr.storage = r.storage
    <2> HIDE DEF r, cr
    <2> QED BY <1>1, RaisedIs
<1>6. /\ Shaped(np) /\ DOMAIN np.nonce = DOMAIN p.nonce /\ np.nonce[cp] = p.nonce[cp] + 1
      /\ \A o \in DOMAIN p.nonce \ {cp} : np.nonce[o] = p.nonce[o]
      /\ np.code = p.code /\ np.storage = p.storage
    <2> HIDE DEF p, cp
    <2> QED BY <1>1, RaisedIs
<1>7. /\ Sender \in DOMAIN r.nonce /\ r.nonce[Sender] \in Nat
      /\ Sender \in DOMAIN p.nonce
    BY <1>1 DEF Shaped
<1>8. Agreed(next) <=> /\ DOMAIN np.nonce = DOMAIN nr.nonce /\ np.nonce[Sender] = 1
                       /\ \A a \in DOMAIN nr.nonce \ {Sender} : np.nonce[a] = nr.nonce[a]
                       /\ np.code = nr.code
                       /\ \A slot \in TraceSlots : np.storage[slot] = nr.storage[slot]
    BY DEF Agreed
<1> HIDE DEF r, p, cr, cp, nr, np
<1>9. Used(next) = nr.nonce[Sender]
    BY DEF nr, Used
<1>10. nr.nonce[Sender] >= r.nonce[Sender] /\ nr.nonce[Sender] \in Nat /\ (cr = Sender => nr.nonce[Sender] = r.nonce[Sender] + 1)
    BY <1>5, <1>7
<1>11. ASSUME nr.nonce[Sender] = 2
       PROVE  cr # Sender /\ cr = cp /\ r.nonce[Sender] = 2 /\ Agreed(states) /\ r.nonce[cr] = p.nonce[cp]
    <2>1. cr # Sender /\ r.nonce[Sender] = 2
        BY <1>2, <1>7, <1>10, <1>11
    <2>2. Used(states) = 2
        BY <1>2, <2>1
    <2>3. cr = cp /\ Agreed(states)
        BY <1>3, <2>2
    <2>4. r.nonce[cr] = p.nonce[cp]
        BY <1>1, <1>4, <2>1, <2>3
    <2> QED BY <2>1, <2>3, <2>4
<1>12. ASSUME nr.nonce[Sender] = 2 PROVE Agreed(next)
    <2>1. /\ cr # Sender /\ cr = cp /\ r.nonce[cr] = p.nonce[cp]
          /\ DOMAIN p.nonce = DOMAIN r.nonce /\ p.nonce[Sender] = 1
          /\ \A a \in DOMAIN r.nonce \ {Sender} : p.nonce[a] = r.nonce[a]
          /\ p.code = r.code
          /\ \A slot \in TraceSlots : p.storage[slot] = r.storage[slot]
        BY <1>4, <1>11, <1>12
    <2>2. DOMAIN np.nonce = DOMAIN nr.nonce /\ np.nonce[Sender] = 1
        BY <1>5, <1>6, <1>7, <2>1
    <2>3. \A a \in DOMAIN nr.nonce \ {Sender} : np.nonce[a] = nr.nonce[a]
        BY <1>5, <1>6, <2>1
    <2>4. np.code = nr.code /\ \A slot \in TraceSlots : np.storage[slot] = nr.storage[slot]
        BY <1>5, <1>6, <2>1
    <2> QED BY <1>8, <2>2, <2>3, <2>4
<1>13. Together(next)
    <2>1. \A m \in Machines : Shaped(next[m])
        BY <1>5, <1>6 DEF Machines, nr, np
    <2>2. Used(next) >= 2
        BY <1>2, <1>7, <1>9, <1>10
    <2>3. Used(next) = 2 => Agreed(next)
        BY <1>9, <1>12
    <2> QED BY <2>1, <2>2, <2>3 DEF Together
<1>14. \A m \in Machines : DOMAIN next[m].nonce = DOMAIN states[m].nonce
    BY <1>5, <1>6 DEF Machines, nr, np, r, p
<1>15. Used(next) = 2 => Same(c) /\ states["rpc"].nonce[c["rpc"]] = states["replay"].nonce[c["replay"]]
    BY <1>3, <1>9, <1>11 DEF r, p, cr, cp
<1>16. Used(next) >= Used(states)
    BY <1>2, <1>7, <1>9, <1>10
<1> QED BY <1>13, <1>14, <1>15, <1>16

LEMMA OpenedTogether ==
    ASSUME NEW states, Together(states), NEW c, Used(states) = 2 => Same(c),
           NEW next, \A m \in Machines : next[m] = Opened(states[m], c[m])
    PROVE  /\ Together(next) /\ Used(next) = Used(states) /\ Exist(c, next)
           /\ \A m \in Machines : DOMAIN states[m].nonce \subseteq DOMAIN next[m].nonce
<1>1. \A m \in Machines :
        /\ Shaped(states[m]) /\ Shaped(next[m])
        /\ DOMAIN next[m].nonce = DOMAIN states[m].nonce \cup {c[m]}
        /\ \A o \in DOMAIN states[m].nonce : next[m].nonce[o] = states[m].nonce[o]
        /\ c[m] \notin DOMAIN states[m].nonce => next[m].nonce[c[m]] = 1
        /\ next[m].code = states[m].code /\ next[m].storage = states[m].storage
    BY OpenedIs DEF Together
<1>2. "rpc" \in Machines /\ "replay" \in Machines
    BY DEF Machines
<1>3. Used(next) = Used(states)
    BY <1>1, <1>2 DEF Used, Shaped
<1>4. ASSUME Used(states) = 2 PROVE Agreed(next)
    <2>1. Agreed(states) /\ c["rpc"] = c["replay"]
        BY <1>4 DEF Together, Same
    <2>2. Sender \in DOMAIN states["replay"].nonce
        BY <1>1, <1>2 DEF Shaped
    <2> DEFINE r == states["rpc"]
               p == states["replay"]
               x == c["rpc"]
    <2>3. /\ DOMAIN p.nonce = DOMAIN r.nonce /\ p.nonce[Sender] = 1 /\ Sender \in DOMAIN p.nonce
          /\ \A a \in DOMAIN r.nonce \ {Sender} : p.nonce[a] = r.nonce[a]
          /\ p.code = r.code
          /\ \A slot \in TraceSlots : p.storage[slot] = r.storage[slot]
        BY <2>1, <2>2 DEF Agreed
    <2> DEFINE nr == next["rpc"]
               np == next["replay"]
    <2>4. /\ DOMAIN nr.nonce = DOMAIN r.nonce \cup {x}
          /\ \A o \in DOMAIN r.nonce : nr.nonce[o] = r.nonce[o]
          /\ x \notin DOMAIN r.nonce => nr.nonce[x] = 1
          /\ nr.code = r.code /\ nr.storage = r.storage
        BY <1>1, <1>2
    <2>5. /\ DOMAIN np.nonce = DOMAIN p.nonce \cup {x}
          /\ \A o \in DOMAIN p.nonce : np.nonce[o] = p.nonce[o]
          /\ x \notin DOMAIN p.nonce => np.nonce[x] = 1
          /\ np.code = p.code /\ np.storage = p.storage
        BY <1>1, <1>2, <2>1
    <2> HIDE DEF r, p, x, nr, np
    <2>6. /\ DOMAIN np.nonce = DOMAIN nr.nonce /\ np.nonce[Sender] = 1
          /\ \A a \in DOMAIN nr.nonce \ {Sender} : np.nonce[a] = nr.nonce[a]
          /\ np.code = nr.code
          /\ \A slot \in TraceSlots : np.storage[slot] = nr.storage[slot]
        BY <2>3, <2>4, <2>5
    <2> QED BY <2>6 DEF Agreed, nr, np
<1>5. Together(next)
    BY <1>1, <1>3, <1>4 DEF Together
<1> QED BY <1>1, <1>3, <1>5 DEF Exist

LEMMA CreateKeeps == ASSUME TraceTypes, EInv, Create PROVE EInv'
<1> DEFINE creator == Last(undo).account
           raised == [m \in Machines |-> Raised(state[m], creator[m])]
           account == [m \in Machines |-> NewAddress(state[m], creator[m])]
           b == Began(current', account, TRUE, raised)
<1>1. /\ Enter /\ Running /\ UNCHANGED before /\ undo' = Append(undo, b)
      /\ state' = [m \in Machines |-> Opened(raised[m], account[m])]
    BY DEF Create, Enter
<1>2. Together(state) /\ Used(state) \in Nat
    BY DEF EInv, Together, Shaped, Used, Machines
<1>3. Exist(creator, state) /\ (Used(state) = 2 => Same(creator))
    BY <1>1, Innermost
<1>4. /\ \A m \in Machines : raised[m] = Raised(state[m], creator[m])
      /\ \A m \in Machines : account[m] = Append(creator[m], state[m].nonce[creator[m]])
    BY DEF NewAddress
<1>5. /\ b.frame = current' /\ b.state = raised /\ b.account = account
    BY DEF Began
<1>6. \A m \in Machines : state'[m] = Opened(raised[m], account[m])
    BY <1>1
<1>7. "rpc" \in Machines /\ "replay" \in Machines
    BY DEF Machines
<1> HIDE DEF creator, raised, account, b
<1>8. /\ Together(raised) /\ Used(raised) >= Used(state)
      /\ \A m \in Machines : DOMAIN raised[m].nonce = DOMAIN state[m].nonce
      /\ Used(raised) = 2 => /\ Same(creator)
                            /\ state["rpc"].nonce[creator["rpc"]] = state["replay"].nonce[creator["replay"]]
    BY <1>2, <1>3, <1>4, RaisedTogether
<1>9. Used(raised) = 2 => Same(account)
    BY <1>4, <1>7, <1>8 DEF Same
<1>10. /\ Together(state') /\ Used(state') = Used(raised) /\ Exist(account, state')
       /\ \A m \in Machines : DOMAIN raised[m].nonce \subseteq DOMAIN state'[m].nonce
    BY <1>6, <1>8, <1>9, OpenedTogether
<1>11. \A m \in Machines : /\ DOMAIN state[m].nonce \subseteq DOMAIN b.state[m].nonce
                           /\ DOMAIN b.state[m].nonce \subseteq DOMAIN state'[m].nonce
    BY <1>5, <1>8, <1>10
<1>12. /\ Together(b.state) /\ Used(b.state) = Used(state') /\ Used(b.state) >= Used(state)
       /\ Exist(b.account, state')
       /\ Used(b.state) = 2 => Same(b.account)
    BY <1>5, <1>8, <1>9, <1>10
<1>13. Chain' /\ (\E S : undo' \in Seq(S))
    BY <1>1, <1>5, <1>10, <1>11, <1>12, FrameBegins
<1>14. Snapshots(state)'
    BY <1>1, <1>5, <1>10, <1>11, <1>12, FrameBegins DEF Snapshots
<1>15. Started' /\ Together(state)'
    BY <1>1, <1>10 DEF EInv, Started, Together
<1> QED BY <1>13, <1>14, <1>15 DEF EInv

\* What a frame leaves behind: its changes, its code, or nothing.
LEMMA ReturnLeaves ==
    ASSUME TraceTypes, EInv, Running, NEW error \in BOOLEAN, NEW next,
           \A m \in Machines : next[m] = IF error THEN Last(undo).state[m]
                                        ELSE IF Last(undo).creates THEN Deployed(state[m], Last(undo).account[m])
                                        ELSE state[m]
    PROVE  /\ Together(next)
           /\ \A i \in 1 .. (Len(undo) - 1) :
                Used(undo[i].state) <= Used(next) /\ Exist(undo[i].account, next)
<1> DEFINE k == Len(undo)
           u == Last(undo)
<1>1. /\ k \in Nat \ {0} /\ k \in 1 .. k /\ u = undo[k] /\ Together(u.state) /\ Used(state) \in Nat
      /\ \A i \in 1 .. (k - 1) : i \in 1 .. k /\ i < k
    BY Innermost
<1>2. "rpc" \in Machines /\ "replay" \in Machines /\ Together(state)
    BY DEF Machines, EInv
<1>3. \A i \in 1 .. (k - 1) : Used(undo[i].state) <= Used(state) /\ Exist(undo[i].account, state)
    BY <1>1 DEF EInv, Snapshots
<1>4. \A i \in 1 .. (k - 1) : Used(undo[i].state) <= Used(u.state) /\ Exist(undo[i].account, u.state)
    <2>1. \A i \in 1 .. k : \A j \in 1 .. k : i < j =>
            Used(undo[i].state) <= Used(undo[j].state) /\ Exist(undo[i].account, undo[j].state)
        BY DEF EInv, Snapshots
    <2> HIDE DEF k, u
    <2>2. \A i \in 1 .. (k - 1) : Used(undo[i].state) <= Used(undo[k].state) /\ Exist(undo[i].account, undo[k].state)
        BY <1>1, <2>1
    <2> QED BY <1>1, <2>2
<1>5. CASE error
    <2>1. \A m \in Machines : next[m] = u.state[m]
        BY <1>5
    <2> HIDE DEF u
    <2>2. Together(next) /\ Used(next) = Used(u.state)
        <3>1. \A m \in Machines : Shaped(next[m])
            BY <1>1, <2>1 DEF Together
        <3>2. Used(next) = Used(u.state)
            BY <1>2, <2>1 DEF Used
        <3>3. Agreed(u.state) => Agreed(next)
            BY <1>2, <2>1 DEF Agreed
        <3> QED BY <1>1, <3>1, <3>2, <3>3 DEF Together
    <2> QED BY <1>4, <2>1, <2>2 DEF Exist
<1>6. CASE ~error /\ u.creates
    <2>1. \A m \in Machines : next[m] = Deployed(state[m], u.account[m])
        BY <1>6
    <2>2. Used(state) = 2 => Same(u.account)
        BY Innermost
    <2> HIDE DEF u
    <2>3. \A m \in Machines : /\ Shaped(next[m]) /\ next[m].nonce = state[m].nonce
                              /\ next[m].code = state[m].code \cup {u.account[m]}
                              /\ next[m].storage = state[m].storage
        BY <1>2, <2>1, DeployedIs DEF Together
    <2>4. Used(next) = Used(state)
        BY <1>2, <2>3 DEF Used
    <2>5. ASSUME Used(state) = 2 PROVE Agreed(next)
        <3>1. Agreed(state) /\ u.account["rpc"] = u.account["replay"]
            BY <1>2, <2>2, <2>5 DEF Together, Same
        <3> DEFINE r == next["rpc"]
                   p == next["replay"]
        <3>2. /\ r.nonce = state["rpc"].nonce /\ p.nonce = state["replay"].nonce
              /\ r.storage = state["rpc"].storage /\ p.storage = state["replay"].storage
            BY <1>2, <2>3
        <3>3. r.code = state["rpc"].code \cup {u.account["rpc"]}
              /\ p.code = state["replay"].code \cup {u.account["replay"]}
            BY <1>2, <2>3
        <3>4. p.code = r.code
            BY <3>1, <3>3 DEF Agreed
        <3> HIDE DEF r, p
        <3>5. /\ DOMAIN p.nonce = DOMAIN r.nonce /\ p.nonce[Sender] = 1
              /\ \A a \in DOMAIN r.nonce \ {Sender} : p.nonce[a] = r.nonce[a]
              /\ \A slot \in TraceSlots : p.storage[slot] = r.storage[slot]
            BY <3>1, <3>2 DEF Agreed
        <3> QED BY <3>4, <3>5 DEF Agreed, r, p
    <2>6. Together(next)
        BY <1>2, <2>3, <2>4, <2>5 DEF Together
    <2> QED BY <1>3, <2>3, <2>4, <2>6 DEF Exist
<1>7. CASE ~error /\ ~u.creates
    <2>1. \A m \in Machines : next[m] = state[m]
        BY <1>7
    <2>2. Used(next) = Used(state)
        BY <1>2, <2>1 DEF Used
    <2>3. Agreed(state) => Agreed(next)
        BY <1>2, <2>1 DEF Agreed
    <2>4. Together(next)
        BY <1>2, <2>1, <2>2, <2>3 DEF Together
    <2> QED BY <1>3, <2>1, <2>2, <2>4 DEF Exist
<1> QED BY <1>5, <1>6, <1>7

LEMMA ReturnKeeps ==
    ASSUME TraceTypes, Tree, EInv, NEW error \in BOOLEAN, Return(error) PROVE EInv'
<1> DEFINE k == Len(undo)
<1>1. /\ Running /\ Leave(error) /\ UNCHANGED before /\ undo' = Front(undo)
      /\ state' = [m \in Machines |-> IF error THEN Last(undo).state[m]
                      ELSE IF Last(undo).creates THEN Deployed(state[m], Last(undo).account[m])
                      ELSE state[m]]
    BY DEF Return, Leave
<1>2. \A m \in Machines : state'[m] = IF error THEN Last(undo).state[m]
                      ELSE IF Last(undo).creates THEN Deployed(state[m], Last(undo).account[m])
                      ELSE state[m]
    BY <1>1
<1>3. /\ Together(state')
      /\ \A i \in 1 .. (k - 1) : Used(undo[i].state) <= Used(state') /\ Exist(undo[i].account, state')
    BY <1>1, <1>2, ReturnLeaves
<1>4. PICK S : undo \in Seq(S)
    BY DEF EInv
<1>5. k \in Nat \ {0} /\ k \in 1 .. k /\ undo # << >>
    BY <1>1, Innermost
<1>6. /\ undo' \in Seq(S) /\ Len(undo') = k - 1 /\ \A i \in 1 .. (k - 1) : undo'[i] = undo[i]
      /\ \A i \in 1 .. (k - 1) : i \in 1 .. k
      /\ undo' # << >> => k - 1 \in 1 .. (k - 1) /\ k # 1
    <2>1. undo' = SubSeq(undo, 1, k - 1)
        BY <1>1 DEF Front
    <2>2. /\ undo' \in Seq(S) /\ Len(undo') = k - 1 /\ \A i \in 1 .. (k - 1) : undo'[i] = undo[i]
        <3>1. k = Len(undo) /\ k - 1 \in 0 .. Len(undo)
            BY <1>4, <1>5
        <3> HIDE DEF k
        <3>2. undo' \in Seq(S)
            BY <1>4, <2>1, <3>1
        <3>3. Len(undo') = k - 1
            BY <1>4, <2>1, <3>1
        <3>4. \A i \in 1 .. (k - 1) : undo'[i] = undo[i]
            BY <1>4, <2>1, <3>1
        <3> QED BY <3>2, <3>3, <3>4
    <2> HIDE DEF k
    <2>3. \A i \in 1 .. (k - 1) : i \in 1 .. k
        BY <1>5
    <2>4. undo' # << >> => k - 1 \in 1 .. (k - 1) /\ k # 1
        BY <1>5, <2>2
    <2> QED BY <2>2, <2>3, <2>4
<1>7. /\ undo[k].frame = current /\ undo[k].frame \in DOMAIN frames
      /\ frames[undo[k].frame].parent = IF k = 1 THEN 0 ELSE undo[k - 1].frame
      /\ \A i \in 1 .. (k - 1) : /\ undo[i].frame \in DOMAIN frames
                                /\ frames[undo[i].frame].parent = IF i = 1 THEN 0 ELSE undo[i - 1].frame
    BY <1>5, <1>6 DEF EInv, Chain
<1>8. /\ DOMAIN frames' = DOMAIN frames /\ \A f \in DOMAIN frames : frames'[f].parent = frames[f].parent
      /\ current' = frames[current].parent
    BY <1>1, LeaveFrames DEF Leave
<1> HIDE DEF k
<1>9. Chain'
    <2>1. current' = IF k = 1 THEN 0 ELSE undo[k - 1].frame
        BY <1>7, <1>8
    <2>2. current' # 0 => undo' # << >>
        BY <1>5, <1>6, <2>1
    <2>3. undo' # << >> => undo'[Len(undo')].frame = current'
        BY <1>6, <2>1
    <2>4. ASSUME NEW i \in 1 .. Len(undo')
          PROVE  /\ undo'[i].frame \in DOMAIN frames'
                 /\ frames'[undo'[i].frame].parent = IF i = 1 THEN 0 ELSE undo'[i - 1].frame
        <3>1. i \in 1 .. (k - 1) /\ (i # 1 => i - 1 \in 1 .. (k - 1))
            BY <1>5, <1>6
        <3> QED BY <1>6, <1>7, <1>8, <3>1
    <2> QED BY <2>2, <2>3, <2>4 DEF Chain
<1>10. Snapshots(state)'
    <2> SUFFICES ASSUME NEW i \in 1 .. (k - 1)
                 PROVE  /\ Together(undo[i].state) /\ Used(undo[i].state) <= Used(state')
                        /\ Used(undo[i].state) = 2 => Same(undo[i].account)
                        /\ Exist(undo[i].account, state')
                        /\ \A j \in 1 .. (k - 1) : i < j =>
                             /\ Used(undo[i].state) <= Used(undo[j].state)
                             /\ Exist(undo[i].account, undo[j].state)
        <3>1. ASSUME NEW i \in 1 .. Len(undo') PROVE i \in 1 .. (k - 1) /\ undo'[i] = undo[i]
            BY <1>6
        <3>2. 1 .. Len(undo') = 1 .. (k - 1)
            BY <1>6
        <3> QED BY <3>1, <3>2, Zenon DEF Snapshots
    <2>1. i \in 1 .. Len(undo) /\ \A j \in 1 .. (k - 1) : j \in 1 .. Len(undo)
        BY <1>6 DEF k
    <2>2. Used(undo[i].state) = 2 => Same(undo[i].account)
        BY <2>1, Zenon DEF EInv, Snapshots
    <2>3. /\ Together(undo[i].state)
          /\ \A j \in 1 .. (k - 1) : i < j =>
               /\ Used(undo[i].state) <= Used(undo[j].state)
               /\ Exist(undo[i].account, undo[j].state)
        BY <2>1, Zenon DEF EInv, Snapshots
    <2> QED BY <1>3, <2>2, <2>3 DEF k
<1>11. Started' /\ Together(state)'
    BY <1>1, <1>3 DEF EInv, Started, Together
<1> QED BY <1>6, <1>9, <1>10, <1>11 DEF EInv

LEMMA ExecutionInvariant == ExecutionSpec => []EInv
<1>1. ExecutionInit => EInv
    BY ExecutionBegins
<1>2. LInv /\ EInv /\ [ExecutionNext]_<<trace, execution>> => EInv'
    <2> SUFFICES ASSUME LInv, EInv, [ExecutionNext]_<<trace, execution>> PROVE EInv'
        OBVIOUS
    <2>1. TraceTypes /\ Tree
        BY DEF LInv
    <2>2. CASE Log
        BY <2>2, LogKeeps
    <2>3. CASE Store
        BY <2>3, StoreKeeps
    <2>4. CASE Call
        BY <2>1, <2>4, CallKeeps
    <2>5. CASE Create
        BY <2>1, <2>5, CreateKeeps
    <2>6. ASSUME NEW error \in BOOLEAN, Return(error) PROVE EInv'
        BY <2>1, <2>6, ReturnKeeps
    <2>7. CASE UNCHANGED <<trace, execution>>
        <3>1. UNCHANGED <<frames, current, before, state, undo>>
            BY <2>7 DEF trace, execution
        <3> QED BY <3>1 DEF EInv, Started, Together, Chain, Snapshots
    <2> QED BY <2>2, <2>3, <2>4, <2>5, <2>6, <2>7 DEF ExecutionNext
<1> QED BY <1>1, <1>2, LogsInvariant, ExecutionIsTraced, PTL DEF ExecutionSpec

\* What expected_state takes from the transaction holds after the direct call of the
\* replay, and misses none of its changes but a slot it cleared.
THEOREM Expectations == ExecutionSpec => []ExpectationHoldsInReplay
<1>1. EInv => ExpectationHoldsInReplay
    <2> SUFFICES ASSUME EInv, OnlyTheEnvelope
                 PROVE  LET expected == ExpectedState
                            after == state["replay"] IN
                        /\ Verified(expected, after)
                        /\ \A a \in DOMAIN after.nonce :
                             \/ a \in DOMAIN expected.nonce
                             \/ a \in DOMAIN before.nonce /\ after.nonce[a] = before.nonce[a]
                        /\ after.code \ before.code \subseteq expected.code
                        /\ \A slot \in TraceSlots :
                             after.storage[slot] # before.storage[slot] =>
                               slot \in DOMAIN expected.storage \/ after.storage[slot] = 0
        BY DEF ExpectationHoldsInReplay
    <2> DEFINE r == state["rpc"]
               p == state["replay"]
    <2>1. /\ DOMAIN before.nonce = {Sender, Contract} /\ before.nonce[Sender] = 1
          /\ before.code = {}
        BY DEF EInv, Started
    <2>2. Agreed(state) /\ Shaped(p) /\ Sender \in DOMAIN p.nonce
        BY <2>1 DEF OnlyTheEnvelope, EInv, Together, Used, Machines, Shaped
    <2>3. /\ DOMAIN p.nonce = DOMAIN r.nonce /\ p.nonce[Sender] = 1
          /\ \A a \in DOMAIN r.nonce \ {Sender} : p.nonce[a] = r.nonce[a]
          /\ p.code = r.code
          /\ \A slot \in TraceSlots : p.storage[slot] = r.storage[slot]
        BY <2>2 DEF Agreed
    <2> DEFINE touched == {a \in DOMAIN r.nonce : a \in DOMAIN before.nonce => r.nonce[a] # before.nonce[a]}
               written == {slot \in TraceSlots : r.storage[slot] \notin {before.storage[slot], 0}}
               expected == ExpectedState
    <2>4. /\ DOMAIN expected.nonce = touched \ {Sender}
          /\ \A a \in touched \ {Sender} : expected.nonce[a] = r.nonce[a]
          /\ expected.code = r.code \ before.code
          /\ DOMAIN expected.storage = written
          /\ \A slot \in written : expected.storage[slot] = r.storage[slot]
        BY DEF ExpectedState, Post
    <2> HIDE DEF r, p, expected
    <2>5. Verified(expected, p)
        BY <2>3, <2>4 DEF Verified
    <2>6. \A a \in DOMAIN p.nonce :
            \/ a \in DOMAIN expected.nonce
            \/ a \in DOMAIN before.nonce /\ p.nonce[a] = before.nonce[a]
        BY <2>1, <2>2, <2>3, <2>4
    <2>7. p.code \ before.code \subseteq expected.code
        BY <2>3, <2>4
    <2>8. \A slot \in TraceSlots :
            p.storage[slot] # before.storage[slot] =>
              slot \in DOMAIN expected.storage \/ p.storage[slot] = 0
        BY <2>3, <2>4
    <2> QED BY <2>5, <2>6, <2>7, <2>8 DEF p, expected
<1> QED BY <1>1, ExecutionInvariant, PTL

=============================================================================
