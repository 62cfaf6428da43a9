CONSTANTS
    MaxAttempts = 2
    MaxStalls = 1
    Deliveries = {d1}
    Sends = {s1, s2, s3}
    Workers = {w1, w2}
SPECIFICATION Spec
SYMMETRY SlotAndSendSymmetry
INVARIANTS ReclaimsAreEarned SucceededIsObserved AnsweredIsNotLost AcceptedRuns
CHECK_DEADLOCK FALSE
