------------------------------ MODULE MCQuota ------------------------------
(* Instances of Quota for TLC: three requests, two of them for one key. *)
EXTENDS Quota, TLC

CONSTANTS r1, r2, r3, k1, k2

ThreeRuns == {r1, r2, r3}
TwoKeys == {k1, k2}
KeyOfThree == r1 :> k1 @@ r2 :> k1 @@ r3 :> k2
OneKey == {k1}
KeyOfOne == [r \in ThreeRuns |-> k1]
=============================================================================
