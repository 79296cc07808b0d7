------------------------------ MODULE Capture ------------------------------
(***************************************************************************)
(* The capture tool's conversation with the RPC (capture_suite in          *)
(* capture/monad_execbench_capture/capture.py) while the chain behind the  *)
(* RPC is reorganised.                                                     *)
(*                                                                         *)
(* Every call names its block by NUMBER, so each is answered from the      *)
(* block that is canonical at that moment; the tool compares the hash of   *)
(* the selected number once, after the last answer.  A block of Blocks is  *)
(* one candidate for the selected number: it fixes its ancestors, every    *)
(* account and every trace.  A call may also fail, be late or be malformed *)
(* at any time.  Heights above the selected one do not matter to the tool. *)
(***************************************************************************)
EXTENDS Naturals, Sequences, FiniteSets

CONSTANTS
    Blocks,       \* candidates for the selected number, told apart by hash
    Calls,        \* cases of a calls manifest: [name, from, to, access]
    Documents,    \* calls manifests: sequences over Calls
    Acceptable,   \* [Blocks -> SUBSET Calls]: calls normalize_call accepts
    Addresses, Slots,
    Beneficiary,  \* [Blocks -> Addresses]
    Depth,        \* ancestors whose hash is captured (256 in the code)
    HashAt,       \* [Blocks -> [1..Depth -> hashes]]
    Trace,        \* [Blocks -> [Calls -> [touched, post, status]]]
    Account,      \* [Blocks -> [Addresses -> [absent, code, rest, storage]]]
    ChunkSize,    \* numbers per JSON-RPC batch (50 in the code)
    MaxAttempts,  \* BLOCK_HASH_RETRY_ATTEMPTS
    MayReturn     \* may the chain return to a block it has abandoned?

Statuses == {"success", "revert", "unsupported"}

ASSUME CaptureAssumption ==
    /\ Depth \in Nat /\ ChunkSize \in Nat \ {0} /\ MaxAttempts \in Nat \ {0}
    /\ MayReturn \in BOOLEAN
    /\ Documents \subseteq Seq(Calls)
    /\ \A c \in Calls : /\ c.from \in Addresses /\ c.to \in Addresses
                        /\ c.access \subseteq Addresses \X Slots
    /\ Beneficiary \in [Blocks -> Addresses]
    /\ \A b \in Blocks :
         /\ HashAt[b] = [n \in 1..Depth |-> HashAt[b][n]]
         /\ \A c \in Calls : /\ Trace[b][c].status \in Statuses
                             /\ DOMAIN Trace[b][c].touched \subseteq Addresses
                             /\ \A a \in DOMAIN Trace[b][c].touched :
                                  Trace[b][c].touched[a] \subseteq Slots

NoSlot == "no slot"
Nothing == <<>>   \* the empty sequence is also the empty dict
NoReply == [pre |-> Nothing, post |-> "no post"]

ASSUME SlotAssumption == NoSlot \notin Slots

VARIABLES
    canon,     \* the block now canonical at the selected number
    past,      \* the blocks the chain has abandoned
    changed,   \* has canon changed since the block was selected?
    calls,     \* the calls manifest
    pc,        \* the call the tool is about to make, or how it ended
    block,     \* the block it selected
    hashes,    \* block_hashes: number -> hash
    asked,     \* the numbers 1..asked have been in a batch
    pending,   \* numbers of the last batch still to be fetched one by one
    attempts,  \* failed attempts for the first of them
    reply,     \* the prestate and diff traces of the current case
    cases,     \* captured_cases
    required,  \* requirements: pairs <<address, slot or NoSlot>>
    proof,     \* the eth_getProof answer awaiting its code, or Nothing
    accounts   \* the hydrated state

chain == <<canon, past, changed>>
hashing == <<hashes, asked, pending, attempts>>
tracing == <<reply, cases, required>>
hydrating == <<proof, accounts>>
vars == <<chain, calls, pc, block, hashing, tracing, hydrating>>

Ended == {"captured", "failed"}
Locations == {"select", "batch", "fetch", "prestate", "diff", "trace",
              "proof", "code", "recheck"} \cup Ended

Min1(S) == CHOOSE n \in S : \A m \in S : n <= m
With(f, n, v) == [k \in DOMAIN f \cup {n} |-> IF k = n THEN v ELSE f[k]]

(***************************************************************************)
(* What the tool computes from the answers.                                *)
(***************************************************************************)
Keys(a, slots) == {<<a, NoSlot>>} \cup {<<a, s>> : s \in slots}

FaultyRequires(call, touched) ==
    (UNION {Keys(a, touched[a]) : a \in DOMAIN touched})
        \cup Keys(call.from, {}) \cup Keys(call.to, {})

\* The accounts and slots one case adds to the requirements.
Requires(call, touched) ==
    (UNION {Keys(a, touched[a]) : a \in DOMAIN touched})
        \cup Keys(call.from, {}) \cup Keys(call.to, {})
        \cup UNION {Keys(e[1], {e[2]}) : e \in call.access}

CapturedCase(call, post, status) ==
    [call |-> call, post |-> post, status |-> status]

SlotsOf(a, needed) == {s \in Slots : <<a, s>> \in needed}

\* The entry of state.json for an account, from its proof and its code.
Entry(answer, code, slots) ==
    IF answer.absent
    THEN [absent |-> TRUE]
    ELSE [absent |-> FALSE, rest |-> answer.rest, code |-> code,
          storage |-> [s \in slots |-> answer.storage[s]]]

AddressesOf(needed) == {a \in Addresses : <<a, NoSlot>> \in needed}

\* A case is refused before any call is made for it.
Refused(i) ==
    \/ calls[i] \notin Acceptable[block]
    \/ \E j \in 1..(i - 1) : calls[j].name = calls[i].name

\* Where the tool goes once `done' cases are captured.
AfterCase(done) ==
    IF done = Len(calls) THEN "proof"
    ELSE IF Refused(done + 1) THEN "failed" ELSE "prestate"

AfterHashes(waiting, last) ==
    IF waiting # {} THEN "fetch"
    ELSE IF last < Depth THEN "batch" ELSE AfterCase(0)

(***************************************************************************)
(* The block and its ancestors.                                            *)
(***************************************************************************)
Select ==
    /\ pc = "select"
    /\ block' = canon
    /\ required' = Keys(Beneficiary[canon], {})
    /\ pc' = IF Depth > 0 THEN "batch"
             ELSE IF calls[1] \in Acceptable[canon] THEN "prestate"
             ELSE "failed"
    /\ UNCHANGED <<chain, calls, hashing, reply, cases, hydrating>>

Chunk == {n \in 1..Depth : asked < n /\ n <= asked + ChunkSize}

\* capture_block_hashes: one batch; a failed batch, or an item that is
\* missing, misnumbered or zero, leaves numbers to fetch one by one.
Batch ==
    /\ pc = "batch"
    /\ \E bad \in SUBSET Chunk :
         /\ hashes' = [n \in DOMAIN hashes \cup (Chunk \ bad) |->
                         IF n \in Chunk THEN HashAt[canon][n] ELSE hashes[n]]
         /\ pending' = bad
         /\ asked' = asked + Cardinality(Chunk)
         /\ pc' = AfterHashes(bad, asked')
    /\ attempts' = 0
    /\ UNCHANGED <<chain, calls, block, tracing, hydrating>>

FaultyFetchHash ==
    /\ pc = "fetch"
    /\ hashes' = With(hashes, Min1(pending), HashAt[canon][Min1(pending)])
    /\ pending' = {}
    /\ attempts' = 0
    /\ pc' = AfterHashes(pending', asked)
    /\ UNCHANGED <<chain, calls, block, asked, tracing, hydrating>>

\* fetch_block_hash: one attempt that succeeds ...
FetchHash ==
    /\ pc = "fetch"
    /\ hashes' = With(hashes, Min1(pending), HashAt[canon][Min1(pending)])
    /\ pending' = pending \ {Min1(pending)}
    /\ attempts' = 0
    /\ pc' = AfterHashes(pending', asked)
    /\ UNCHANGED <<chain, calls, block, asked, tracing, hydrating>>

\* ... and one that fails; the last allowed one ends the capture.
FaultyFetchFails ==
    /\ pc = "fetch"
    /\ attempts' = (attempts + 1) % MaxAttempts
    /\ pc' = IF attempts' < MaxAttempts THEN "fetch" ELSE "failed"
    /\ UNCHANGED <<chain, calls, block, hashes, asked, pending, tracing, hydrating>>

FetchFails ==
    /\ pc = "fetch"
    /\ attempts' = attempts + 1
    /\ pc' = IF attempts' < MaxAttempts THEN "fetch" ELSE "failed"
    /\ UNCHANGED <<chain, calls, block, hashes, asked, pending, tracing, hydrating>>

(***************************************************************************)
(* The three traces of each case.                                          *)
(***************************************************************************)
Current == calls[Len(cases) + 1]

TracePrestate ==
    /\ pc = "prestate"
    /\ reply' = [reply EXCEPT !.pre = Trace[canon][Current].touched]
    /\ pc' = "diff"
    /\ UNCHANGED <<chain, calls, block, hashing, cases, required, hydrating>>

TraceDiff ==
    /\ pc = "diff"
    /\ reply' = [reply EXCEPT !.post = Trace[canon][Current].post]
    /\ pc' = "trace"
    /\ UNCHANGED <<chain, calls, block, hashing, cases, required, hydrating>>

\* callTracer's answer completes the case, unless its error is unsupported.
TraceCall ==
    /\ pc = "trace"
    /\ LET status == Trace[canon][Current].status IN
         IF status = "unsupported"
         THEN /\ pc' = "failed"
              /\ UNCHANGED tracing
         ELSE /\ cases' = Append(cases, CapturedCase(Current, reply.post, status))
              /\ required' = required \cup Requires(Current, reply.pre)
              /\ reply' = NoReply
              /\ pc' = AfterCase(Len(cases'))
    /\ UNCHANGED <<chain, calls, block, hashing, hydrating>>

(***************************************************************************)
(* hydrate_state: a proof and a code per required account.  The code goes  *)
(* through the addresses in sorted order, which the model leaves open.     *)
(***************************************************************************)
Unhydrated == AddressesOf(required) \ DOMAIN accounts

GetProof ==
    /\ pc = "proof"
    /\ \E a \in Unhydrated :
         proof' = [address |-> a, answer |-> Account[canon][a]]
    /\ pc' = "code"
    /\ UNCHANGED <<chain, calls, block, hashing, tracing, accounts>>

\* The code must hash to the code hash of the proof.
GetCode ==
    /\ pc = "code"
    /\ LET a == proof.address
           code == Account[canon][a].code
       IN IF code # proof.answer.code
          THEN pc' = "failed" /\ UNCHANGED accounts
          ELSE /\ accounts' = With(accounts, a,
                                Entry(proof.answer, code, SlotsOf(a, required)))
               /\ pc' = IF DOMAIN accounts' = AddressesOf(required)
                        THEN "recheck" ELSE "proof"
    /\ proof' = Nothing
    /\ UNCHANGED <<chain, calls, block, hashing, tracing>>

FaultyRecheck ==
    /\ pc = "recheck"
    /\ pc' = "captured"
    /\ UNCHANGED <<chain, calls, block, hashing, tracing, hydrating>>

\* The block of the selected number must still have the selected hash.
Recheck ==
    /\ pc = "recheck"
    /\ pc' = IF canon = block THEN "captured" ELSE "failed"
    /\ UNCHANGED <<chain, calls, block, hashing, tracing, hydrating>>

\* An RPC error or a malformed answer ends the capture.  In the batches and
\* the retried fetches only an error _send does not turn into an RpcError
\* does, such as a connection reset while an answer is read.
RpcFails ==
    /\ pc \notin Ended
    /\ pc' = "failed"
    /\ UNCHANGED <<chain, calls, block, hashing, tracing, hydrating>>

(***************************************************************************)
(* The chain.                                                              *)
(***************************************************************************)
Reorg ==
    /\ \E b \in Blocks \ {canon} : canon' = b /\ (b \in past => MayReturn)
    /\ past' = past \cup {canon}
    /\ changed' = (changed \/ pc \notin Ended \cup {"select"})
    /\ UNCHANGED <<calls, pc, block, hashing, tracing, hydrating>>

Init ==
    /\ canon \in Blocks /\ past = {} /\ changed = FALSE
    /\ calls \in Documents
    /\ pc = IF calls = <<>> THEN "failed" ELSE "select"
    /\ block = canon
    /\ hashes = Nothing /\ asked = 0 /\ pending = {} /\ attempts = 0
    /\ reply = NoReply /\ cases = <<>> /\ required = {}
    /\ proof = Nothing /\ accounts = Nothing

CaptureSuite ==
    \/ Select \/ Batch \/ FetchHash \/ FetchFails
    \/ TracePrestate \/ TraceDiff \/ TraceCall
    \/ GetProof \/ GetCode \/ Recheck \/ RpcFails

Next == CaptureSuite \/ Reorg

\* The tool is one thread, and every call returns or times out.
Spec == Init /\ [][Next]_vars /\ WF_vars(CaptureSuite)

(***************************************************************************)
(* Properties.                                                             *)
(***************************************************************************)
\* What block b's traces, the endpoints, the access lists and the
\* beneficiary read.
NeedsAccount(b, a) ==
    \/ a = Beneficiary[b]
    \/ \E i \in DOMAIN calls :
         \/ a \in {calls[i].from, calls[i].to} \cup DOMAIN Trace[b][calls[i]].touched
         \/ \E s \in Slots : <<a, s>> \in calls[i].access

NeedsSlot(b, a, s) ==
    \E i \in DOMAIN calls :
        LET touched == Trace[b][calls[i]].touched IN
            \/ a \in DOMAIN touched /\ s \in touched[a]
            \/ <<a, s>> \in calls[i].access

\* The bundle one look at block b would give.
Snapshot(b) ==
    [hashes   |-> HashAt[b],
     cases    |-> [i \in DOMAIN calls |->
                     CapturedCase(calls[i], Trace[b][calls[i]].post,
                                  Trace[b][calls[i]].status)],
     accounts |-> [a \in {x \in Addresses : NeedsAccount(b, x)} |->
                     Entry(Account[b][a], Account[b][a].code,
                           {s \in Slots : NeedsSlot(b, a, s)})]]

\* The type of every variable.
TypeOK ==
    /\ canon \in Blocks /\ past \subseteq Blocks /\ changed \in BOOLEAN
    /\ calls \in Documents
    /\ pc \in Locations
    /\ block \in Blocks
    /\ DOMAIN hashes \cup pending = 1..asked
    /\ asked \in 0..Depth
    /\ attempts \in 0..MaxAttempts
    /\ Len(cases) <= Len(calls)
    /\ required \subseteq Addresses \X (Slots \cup {NoSlot})
    /\ DOMAIN accounts \subseteq AddressesOf(required)
    /\ pc = "code" => proof.address \in Unhydrated

\* A bundle is one block's, although every part of it was asked for on its
\* own while the chain moved: its ancestors' hashes, every case's traces and
\* exactly the accounts and slots the suite needs.
CapturedIsSnapshot ==
    pc = "captured" =>
        [hashes |-> hashes, cases |-> cases, accounts |-> accounts] = Snapshot(block)

\* docs/capture.md:83-84: "Capture fails if the hash changes before the
\* bundle is complete."
FailsIfBlockChanges == pc = "captured" => ~changed

\* However often the RPC fails, the tool ends: its retries are bounded.
Terminates == <>(pc \in Ended)
=============================================================================
