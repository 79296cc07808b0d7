----------------------------- MODULE Measurement -----------------------------
(***************************************************************************)
(* What `monad-execbench run' promises, whatever the benchmark library     *)
(* does: cases are measured only after the whole suite was verified, a     *)
(* measurement that fails ends the measuring, and the command succeeds     *)
(* only when every selected case has all its samples and the output holds  *)
(* them.  Not promised are samples the user did not ask for, and samples   *)
(* the file system did not take: nothing looks at the output but for its   *)
(* size.                                                                   *)
(***************************************************************************)
EXTENDS Naturals

CONSTANTS Cases, Repetitions

VARIABLES
  stage,      \* "checking", "measuring", "answered", "succeeded" or "failed"
  asked,      \* "samples", one sample per case ("trial"), "aggregates" or "help"
  selected,   \* the cases to measure
  samples,    \* [Cases -> samples taken]
  published,  \* whether the output is complete and holds all samples
  lost        \* whether the file system refused a part of the output

vars == <<stage, asked, selected, samples, published, lost>>

Wanted == IF asked = "trial" THEN 1 ELSE Repetitions
AllTaken == \A c \in selected : samples[c] = Wanted

Init ==
  /\ stage = "checking" /\ asked \in {"samples", "trial", "aggregates", "help"}
  /\ selected \in SUBSET Cases
  /\ samples = [c \in Cases |-> 0] /\ published = FALSE /\ lost = FALSE

\* Help is given instead.
Answer ==
  /\ stage = "checking" /\ asked = "help"
  /\ stage' = "answered"
  /\ UNCHANGED <<asked, selected, samples, published, lost>>

\* The suite is verified and some case is selected.
Start ==
  /\ stage = "checking" /\ selected # {} /\ asked # "help"
  /\ stage' = "measuring" /\ lost' \in BOOLEAN
  /\ UNCHANGED <<asked, selected, samples, published>>

Sample(c) ==
  /\ stage = "measuring"
  /\ c \in selected /\ samples[c] < Wanted
  /\ samples' = [samples EXCEPT ![c] = @ + 1] /\ lost' \in {lost, TRUE}
  /\ UNCHANGED <<stage, asked, selected, published>>

Publish ==
  /\ stage = "measuring" /\ ~lost /\ AllTaken
  /\ published' = TRUE
  /\ UNCHANGED <<stage, asked, selected, samples, lost>>

Lose ==
  /\ stage \in {"measuring", "failed"} /\ ~published
  /\ lost' = TRUE
  /\ UNCHANGED <<stage, asked, selected, samples, published>>

Succeed ==
  /\ stage = "measuring" /\ AllTaken /\ (published \/ lost \/ asked = "aggregates")
  /\ stage' = "succeeded"
  /\ UNCHANGED <<asked, selected, samples, published, lost>>

Fail ==
  /\ stage \in {"checking", "measuring"}
  /\ stage' = "failed"
  /\ UNCHANGED <<asked, selected, samples, published, lost>>

Next ==
  \/ Answer \/ Start \/ (\E c \in Cases : Sample(c)) \/ Publish \/ Lose
  \/ Succeed \/ Fail

Spec == Init /\ [][Next]_vars
=============================================================================
