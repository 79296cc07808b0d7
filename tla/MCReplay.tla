------------------------------ MODULE MCReplay ------------------------------
(***************************************************************************)
(* A small chain, two programs that branch on what they read, and the      *)
(* suites that can be captured from them: every incomplete capture, and    *)
(* every way one expectation can be wrong.                                 *)
(***************************************************************************)
EXTENDS OnChain, FiniteSets, TLC

CONSTANTS alice, vault, token, ghost, vaultSlot, tokenSlot, ghostSlot, parent,
          zero, one, two, none, nullOutput

MCAccounts == {alice, vault, token, ghost}
MCSlots == {vaultSlot, tokenSlot, ghostSlot}
MCOwner == vaultSlot :> vault @@ tokenSlot :> token @@ ghostSlot :> ghost
MCValues == {zero, one, two}

\* The chain at the captured block.  alice's code (value two) delegates to
\* token; ghost does not exist.
MCChain == alice :> two @@ vault :> one @@ token :> one @@ ghost :> zero
             @@ vaultSlot :> one @@ tokenSlot :> two @@ ghostSlot :> zero
             @@ parent :> one
MCDelegate == zero :> none @@ one :> none @@ two :> token

MCMessage ==
  <<[sender |-> alice, recipient |-> vault, accessList |-> {}, gas |-> 9],
    [sender |-> vault, recipient |-> alice, accessList |-> {ghost}, gas |-> 9]>>

ReadOp(l) == [kind |-> "read", at |-> l]
WriteOp(l, v) == [kind |-> "write", at |-> l, value |-> v]
LogOp(v) == [kind |-> "log", value |-> v]
Halt(status, output, gasLeft) ==
  [kind |-> "halt", status |-> status, output |-> output, gasLeft |-> gasLeft]

\* One VM state per point of a program.  Program a is case 1, program b case 2;
\* x, y, z are native code that logs, leaves gas or reads differently.
MCOp ==
  "a0" :> ReadOp(vaultSlot) @@ "a1" :> ReadOp(ghostSlot)
    @@ "a2" :> WriteOp(vaultSlot, two) @@ "a3" :> LogOp(one)
    @@ "a4" :> WriteOp(ghost, one) @@ "a5" :> Halt("success", one, 4)
    @@ "a6" :> Halt("revert", zero, 4)
    @@ "b0" :> ReadOp(vaultSlot) @@ "b1" :> ReadOp(parent)
    @@ "b2" :> WriteOp(tokenSlot, one) @@ "b3" :> Halt("revert", one, 2)
    @@ "b4" :> Halt("error", zero, 0)
    @@ "x0" :> LogOp(two) @@ "x1" :> Halt("success", one, 4)
    @@ "y0" :> Halt("success", one, 10)
    @@ "z0" :> ReadOp(token)
MCVmStates == DOMAIN MCOp

Branch(s, v) ==
  CASE s = "a0" -> IF v = one THEN "a1" ELSE "a6"
    [] s = "a1" -> "a2" [] s = "a2" -> "a3" [] s = "a3" -> "a4" [] s = "a4" -> "a5"
    [] s = "b0" -> IF v = one THEN "b1" ELSE "b4"
    [] s = "b1" -> IF v = one THEN "b2" ELSE "b4"
    [] s = "b2" -> "b3"
    [] s = "x0" -> "x1"
    [] s = "z0" -> "b0"
    [] OTHER -> s
MCAfter == [s \in MCVmStates |-> [v \in MCValues |-> Branch(s, v)]]
MCInterpreterEntry == <<"a0", "b0">>
MCNativeEntries == {<<"a0", "b0">>, <<"x0", "b0">>, <<"y0", "b0">>, <<"a0", "z0">>}

-----------------------------------------------------------------------------
(* Suites.                                                                 *)

NoSlots == [s \in MCSlots |-> none]
VaultAfter(v) == [account |-> vault, info |-> none,
                  slots |-> [NoSlots EXCEPT ![vaultSlot] = v]]
GhostAfter(v) == [account |-> ghost, info |-> v, slots |-> NoSlots]
TokenAfter == [account |-> token, info |-> one, slots |-> [NoSlots EXCEPT ![tokenSlot] = two]]

Expect(status, output, gasUsed, logs, state) ==
  [status |-> status, output |-> output, gasUsed |-> gasUsed, logs |-> logs,
   state |-> state]

GoodA == Expect("success", one, 5, <<one>>, <<VaultAfter(two), GhostAfter(one)>>)
GoodB == Expect("revert", one, 7, << >>, <<TokenAfter>>)

ExpectationsA ==
  {GoodA} \cup
  {[GoodA EXCEPT !.logs = l] : l \in {none, << >>}} \cup
  {[GoodA EXCEPT !.status = "revert"], [GoodA EXCEPT !.output = zero],
   [GoodA EXCEPT !.gasUsed = 4]} \cup
  {[GoodA EXCEPT !.state = s] : s \in {<< >>, <<VaultAfter(one)>>, <<TokenAfter>>}} \cup
  {[GoodA EXCEPT !.logs = none, !.state = s] : s \in {<< >>, <<GhostAfter(two)>>}}
ExpectationsB ==
  {GoodB, [GoodB EXCEPT !.state = <<VaultAfter(one)>>],
   [GoodB EXCEPT !.state = <<GhostAfter(none)>>], [GoodB EXCEPT !.logs = <<two>>]}

Suite(env, accounts, absent, slots, hashes, a, b) ==
  [env |-> env, accounts |-> accounts, absent |-> absent,
   slots |-> {s \in slots : MCOwner[s] \in accounts}, hashes |-> hashes,
   value |-> MCChain, expected |-> <<a, b>>]

Complete(env, a, b) ==
  Suite(env, {alice, vault, token}, {ghost}, {vaultSlot, tokenSlot}, {parent}, a, b)

MCFixtures ==
  {Suite("MONAD_TEN", accounts, absent, slots, hashes, GoodA, GoodB) :
     accounts \in SUBSET {alice, vault, token}, absent \in SUBSET {ghost},
     slots \in SUBSET {vaultSlot, tokenSlot}, hashes \in SUBSET {parent}}
  \cup {Complete("MONAD_TEN", a, b) : a \in ExpectationsA, b \in ExpectationsB}
  \cup {Complete("MONAD_NEXT", GoodA, GoodB)}

-----------------------------------------------------------------------------
(* The executions on the chain itself.                                     *)

RECURSIVE RunFrom(_)
RunFrom(s) ==
  LET op == MCOp[s.vm]
      then(v) == MCAfter[s.vm][v]
      on(t) == <<s>> \o RunFrom(t)
  IN CASE op.kind = "read" -> on([s EXCEPT !.vm = then(Held(s.written, op.at))])
       [] op.kind = "write" -> on([s EXCEPT !.vm = then(op.value), !.written[op.at] = op.value])
       [] op.kind = "log" -> on([s EXCEPT !.vm = then(op.value), !.logs = Append(@, op.value)])
       [] OTHER -> <<s>>

MCChainRun ==
  [v \in MCVmStates |-> RunFrom([vm |-> v, written |-> Unwritten, logs |-> << >>])]
=============================================================================
