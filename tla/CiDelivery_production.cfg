CONSTANTS
    MaxAttempts = 2
    MaxStalls = 1
    d1 = d1
    d2 = d2
    Deliveries = {d1}
    Sends = {1, 2}
    Workers = {w1, w2}
    Kind <- OneRun
    Production = TRUE
SPECIFICATION Spec
SYMMETRY SlotSymmetry
INVARIANTS TypeOK AcceptedOnce ProcessedIsStored CompletedIsDone AcceptedIsDurable SettledUnlessLate
CHECK_DEADLOCK FALSE
