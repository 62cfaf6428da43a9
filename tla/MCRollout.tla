------------------------------- MODULE MCRollout -------------------------------
EXTENDS Rollout
=============================================================================
