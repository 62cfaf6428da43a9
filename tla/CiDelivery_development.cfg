\* The in-process fallback, and a delivery that is ignored beside the run.
CONSTANTS
    MaxAttempts = 2
    MaxStalls = 1
    d1 = d1
    d2 = d2
    Deliveries = {d1, d2}
    Sends = {1}
    Workers = {w1}
    Kind <- Mixed
    Production = FALSE
SPECIFICATION FairSpec
PROPERTIES EveryJobEnds
CHECK_DEADLOCK FALSE
