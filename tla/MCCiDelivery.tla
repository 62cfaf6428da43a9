---------------------------- MODULE MCCiDelivery ----------------------------
EXTENDS CiDelivery, TLC

CONSTANTS d1, d2

OneRun   == [d \in Deliveries |-> "run"]

\* A run, and a delivery that is ignored.
Mixed == d1 :> "run" @@ d2 :> "unconnected"

\* The job slots are interchangeable.
SlotSymmetry == Permutations(Workers)
=============================================================================
