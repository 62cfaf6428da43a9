CONSTANTS
    Keys = {k1}
    MaxScans = 3
    MaxCount = 0
SPECIFICATION Spec
INVARIANTS JudgedByItsReport
PROPERTIES DecisionsStay ImplementsLifecycle
CHECK_DEADLOCK FALSE
