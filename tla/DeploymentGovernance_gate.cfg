CONSTANTS
    p1 = p1
    p2 = p2
    Policies = {p1, p2}
    Enforcement <- OneBlocks
    Evaluators = {e1}
    Admins = {a1}
    Calls = {c1}
    Slots = {j1}
    MaxShown = 1
    MaxFaults = 1
SPECIFICATION GovernedSpec
INVARIANTS DecidedByGate
PROPERTIES EventuallyGoverned
CHECK_DEADLOCK FALSE
