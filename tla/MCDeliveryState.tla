---------------------------- MODULE MCDeliveryState ----------------------------
EXTENDS DeliveryState, TLC

CONSTANTS p1, p2, p3

\* Two policies that block and one that warns.
TwoBlock == p1 :> "blocking" @@ p2 :> "blocking" @@ p3 :> "warning"

\* The policies that block, and the evaluations, are alike.
Alike == {f @@ (p3 :> p3) : f \in Permutations({p1, p2})}
         \cup Permutations(Evaluators)
=============================================================================
