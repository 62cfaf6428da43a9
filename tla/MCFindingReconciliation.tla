----------------------- MODULE MCFindingReconciliation -----------------------
EXTENDS FindingReconciliation, TLC
=============================================================================
