----------------------------- MODULE MCCapture -----------------------------
(* Three blocks compete for one number.  They differ in their parent, in   *)
(* one account's code and storage, in what the second case touches and in  *)
(* their beneficiary.                                                      *)
EXTENDS Capture

MCBlocks == {"b1", "b2", "b3"}
MCAddresses == {"sender", "token", "miner", "oracle"}
MCSlots == {"s"}

Transfer == [name |-> "transfer", from |-> "sender", to |-> "token", access |-> {}]
Warm == [name |-> "warm", from |-> "sender", to |-> "sender",
         access |-> {<<"token", "s">>}]
Cheap == [name |-> "cheap", from |-> "sender", to |-> "token", access |-> {}]
MCCalls == {Transfer, Warm, Cheap}

MCDocuments == {<<Transfer, Warm>>, <<Warm>>, <<Transfer, Transfer>>,
                <<Warm, Cheap>>, <<>>}
\* b2's base fee is above the gas price of Cheap.
MCAcceptable == [b \in MCBlocks |-> IF b = "b2" THEN MCCalls \ {Cheap} ELSE MCCalls]
MCBeneficiary == [b \in MCBlocks |-> IF b = "b3" THEN "token" ELSE "miner"]
MCHashAt == [b \in MCBlocks |-> [n \in 1..Depth |-> IF b = "b2" THEN "h2" ELSE "h1"]]

Touches(b, c) ==
    [a \in (IF c # Warm THEN {"token"} ELSE IF b = "b2" THEN {"oracle"} ELSE {}) |->
        IF b # "b3" THEN MCSlots ELSE {}]

MCTrace ==
    [b \in MCBlocks |-> [c \in MCCalls |->
        [touched |-> Touches(b, c),
         post |-> IF b = "b1" THEN "minted" ELSE "burned",
         status |-> IF c = Transfer THEN "success"
                    ELSE IF b = "b3" THEN "unsupported" ELSE "revert"]]]

MCAccount ==
    [b \in MCBlocks |-> [a \in MCAddresses |->
        [absent |-> a = "miner" /\ b = "b1",
         code |-> IF a # "token" THEN "none" ELSE IF b = "b2" THEN "new" ELSE "old",
         rest |-> IF b = "b3" THEN 2 ELSE 1,
         storage |-> [s \in MCSlots |-> IF b = "b1" THEN 0 ELSE 7]]]]
=============================================================================
