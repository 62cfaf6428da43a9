CONSTANTS
    Slots = {j1, j2}
    MaxReplicas = 2
    Surge = 1
    MaxChanges = 1
    MaxFaults = 1
SPECIFICATION RolloutSpec
INVARIANTS CleanSuccessIsReal
PROPERTIES EventuallyShown
CHECK_DEADLOCK FALSE
