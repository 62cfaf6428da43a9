----------------------- MODULE MCOrchestrationDelivery -----------------------
EXTENDS OrchestrationDelivery, TLC

\* The job slots are interchangeable, and so are the sends of a key: nothing
\* orders them, and every property is quantified over all of them.
SlotAndSendSymmetry == Permutations(Workers) \cup Permutations(Sends)
=============================================================================
