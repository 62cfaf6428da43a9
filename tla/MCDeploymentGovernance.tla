------------------------ MODULE MCDeploymentGovernance ------------------------
EXTENDS DeploymentGovernance, TLC

CONSTANTS p1, p2

\* One policy that blocks and one that warns.
OneBlocks == p1 :> "blocking" @@ p2 :> "warning"
=============================================================================
