CONSTANTS
    MaxAttempts = 2
    MaxStalls = 1
    Reports = {r1}
    Sends = {s1, s2}
    Workers = {w1, w2}
SPECIFICATION Spec
SYMMETRY SlotAndSendSymmetry
INVARIANTS ProcessedIsScanned OneScanPerReport AnsweredIsNotLost
CHECK_DEADLOCK FALSE
