-------------------------- MODULE StateExpectation --------------------------
(***************************************************************************)
(* expected_state of capture/monad_execbench_capture/capture.py and        *)
(* verify_expected_state of src/src/replay.cpp: what a case says of the    *)
(* state after the call.                                                   *)
(*                                                                         *)
(* The call is executed twice.  The RPC executes it as a transaction, and  *)
(* prestateTracer in diffMode tells what that changed; the offline replay  *)
(* executes it as a direct root call on the captured state.  The machines  *)
(* take the same steps, each on its own state: the transaction has raised  *)
(* the sender's nonce, and the address of a contract is made of the        *)
(* creator's.  An address is <<"sender">>, <<"contract">> or its creator   *)
(* followed by the nonce it was created with.                              *)
(***************************************************************************)
EXTENDS TraceLogs

CONSTANTS
    TraceSlots,   \* storage slots of the contract
    MaxWrites     \* bound on the storage writes of a call

VARIABLES
    before,   \* the state that is captured: [nonce, storage, code]
    state,    \* the state of each machine
    undo,     \* of each running frame, outermost first: [frame, account, creates, state],
              \* its account, whether that is being created, the states it began with
    writes    \* storage writes so far

execution == <<before, state, undo, writes>>

Machines == {"rpc", "replay"}
Sender == <<"sender">>
Contract == <<"contract">>

Raised(s, account) == [s EXCEPT !.nonce[account] = @ + 1]
NewAddress(s, creator) == Append(creator, s.nonce[creator])

\* An account that is being created has nonce 1.
Opened(s, account) ==
    [s EXCEPT !.nonce = [a \in DOMAIN @ \cup {account} |-> IF a \in DOMAIN @ THEN @[a] ELSE 1]]
Deployed(s, account) == [s EXCEPT !.code = @ \cup {account}]

Began(frame, account, creates, states) ==
    [frame |-> frame, account |-> account, creates |-> creates, state |-> states]

\* The envelope of the transaction raises the sender's nonce.  The root call may be
\* one of the sender's own account, whose code is a delegation.
ExecutionInit ==
    /\ TraceInit
    /\ \E stored \in [TraceSlots -> 0 .. 1] :
         before = [nonce |-> [a \in {Sender, Contract} |-> 1], storage |-> stored, code |-> {}]
    /\ state = [m \in Machines |-> IF m = "rpc" THEN Raised(before, Sender) ELSE before]
    /\ \E account \in {Sender, Contract} :
         undo = <<Began(1, [m \in Machines |-> account], FALSE, state)>>
    /\ writes = 0

Log == Emit /\ UNCHANGED execution

\* SSTORE.
Store ==
    /\ Running /\ writes < MaxWrites
    /\ writes' = writes + 1
    /\ \E slot \in TraceSlots, value \in 0 .. 2 :
         state' = [m \in Machines |-> [state[m] EXCEPT !.storage[slot] = value]]
    /\ UNCHANGED <<trace, before, undo>>

Call ==
    /\ Enter
    /\ \E account \in {Sender, Contract} :
         undo' = Append(undo, Began(current', [m \in Machines |-> account], FALSE, state))
    /\ UNCHANGED <<before, state, writes>>

\* CREATE: the creator's nonce stays raised if the new frame fails.
Create ==
    /\ Enter
    /\ LET creator == Last(undo).account
           raised == [m \in Machines |-> Raised(state[m], creator[m])]
           account == [m \in Machines |-> NewAddress(state[m], creator[m])] IN
       /\ undo' = Append(undo, Began(current', account, TRUE, raised))
       /\ state' = [m \in Machines |-> Opened(raised[m], account[m])]
    /\ UNCHANGED <<before, writes>>

\* A frame that fails takes its changes with it; one that creates leaves its code.
Return(error) ==
    /\ Leave(error)
    /\ LET frame == Last(undo) IN
       state' = [m \in Machines |->
                   IF error THEN frame.state[m]
                   ELSE IF frame.creates THEN Deployed(state[m], frame.account[m])
                   ELSE state[m]]
    /\ undo' = Front(undo)
    /\ UNCHANGED <<before, writes>>

ExecutionNext == Log \/ Store \/ Call \/ Create \/ \E error \in BOOLEAN : Return(error)

ExecutionSpec == ExecutionInit /\ [][ExecutionNext]_<<trace, execution>>

(***************************************************************************)
(* expected_state                                                          *)
(***************************************************************************)
\* diff.post: what the transaction changed; a slot set to zero is not listed.
Post ==
    LET after == state["rpc"] IN
    [nonce |-> {a \in DOMAIN after.nonce :
                  a \in DOMAIN before.nonce => after.nonce[a] # before.nonce[a]},
     code |-> after.code \ before.code,
     storage |-> {slot \in TraceSlots :
                    after.storage[slot] \notin {before.storage[slot], 0}}]

\* The bug of asserting every nonce of the diff.
FaultyExpectedState ==
    [nonce |-> [a \in Post.nonce |-> state["rpc"].nonce[a]],
     code |-> Post.code,
     storage |-> [slot \in Post.storage |-> state["rpc"].storage[slot]]]

\* The sender's nonce belongs to the envelope.
ExpectedState ==
    [nonce |-> [a \in Post.nonce \ {Sender} |-> state["rpc"].nonce[a]],
     code |-> Post.code,
     storage |-> [slot \in Post.storage |-> state["rpc"].storage[slot]]]

(***************************************************************************)
(* verify_expected_state, after the replay.                                *)
(***************************************************************************)
Verified(expected, s) ==
    /\ \A a \in DOMAIN expected.nonce : a \in DOMAIN s.nonce /\ s.nonce[a] = expected.nonce[a]
    /\ expected.code \subseteq s.code
    /\ \A slot \in DOMAIN expected.storage : s.storage[slot] = expected.storage[slot]

(***************************************************************************)
(* Properties.                                                             *)
(***************************************************************************)
\* The sender created nothing that stands.
OnlyTheEnvelope == state["rpc"].nonce[Sender] = before.nonce[Sender] + 1

\* What was captured from the transaction holds after the direct call, through failed
\* frames and creations, and names every change the direct call made but a slot it
\* cleared ("storage/code/contract-nonce changes reported by the prestate diff tracer.
\* Sender nonce and balance changes are excluded because they belong to the
\* transaction envelope rather than the direct root VM call", docs/capture.md:113-117).
ExpectationHoldsInReplay ==
    ~Running /\ OnlyTheEnvelope =>
      LET expected == ExpectedState
          after == state["replay"] IN
      /\ Verified(expected, after)
      /\ \A a \in DOMAIN after.nonce :
           a \in DOMAIN expected.nonce \/ (a \in DOMAIN before.nonce /\ after.nonce[a] = before.nonce[a])
      /\ after.code \ before.code \subseteq expected.code
      /\ \A slot \in TraceSlots :
           after.storage[slot] # before.storage[slot] =>
             slot \in DOMAIN expected.storage \/ after.storage[slot] = 0
=============================================================================
