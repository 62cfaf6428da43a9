-------------------------- MODULE MCSecurityIngest --------------------------
EXTENDS SecurityIngest, TLC

\* Job slots are interchangeable, and so are the sends of a report.
SlotAndSendSymmetry == Permutations(Workers) \cup Permutations(Sends)
=============================================================================
