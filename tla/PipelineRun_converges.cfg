\* A job slot and a manual sync, on a run that is run again.
CONSTANTS
    Timeline <- RunAgain
    Workers = {w1}
    Requests = {r1}
    MaxAttempts = 2
    LookbackCovers = TRUE
SPECIFICATION FairSpec
INVARIANTS StoreIsAReport
PROPERTIES Converges
