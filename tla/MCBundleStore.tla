--------------------------- MODULE MCBundleStore ---------------------------
(* Two captures, each forced or not, publish beside an original bundle.  The *)
(* two captures share a manifest (one block), the original and the second   *)
(* share a state; the original names another Monad commit.                  *)
EXTENDS BundleStore

MCPayload ==
    [b \in Bundles |->
       [n \in Payloads |->
          CASE n = "manifest.json"  -> IF b = "original" THEN "m0" ELSE "m1"
            [] n = "state.json.zst" -> IF b = "first" THEN "s1" ELSE "s0"
            [] n = "cases.json"     -> b]]

MCBlockOf == [m \in {"m0", "m1", "swapped"} |-> IF m = "m0" THEN 0 ELSE 1]
MCCommit == [b \in Bundles |-> IF b = "original" THEN "older" ELSE "pinned"]
=============================================================================
