\* One job slot, no manual sync: the guard's read and write are never split.
CONSTANTS
    Timeline <- RunOnce
    Workers = {w1}
    Requests = {}
    MaxAttempts = 3
    LookbackCovers = FALSE
SPECIFICATION Spec
INVARIANTS TypeOK StoreReflectsNewest
PROPERTIES Implements
CHECK_DEADLOCK FALSE
