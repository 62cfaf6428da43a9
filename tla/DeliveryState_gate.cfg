CONSTANTS
    p1 = p1
    p2 = p2
    p3 = p3
    Policies = {p1, p2, p3}
    Enforcement <- TwoBlock
    Evaluators = {e1, e2}
    Admins = {a1}
SYMMETRY Alike
SPECIFICATION ViewSpec
INVARIANTS TypeOK GateAndDecisionAgree GateCoversAllPolicies ShownMatchesDecision
PROPERTIES OverrideSurvives
CHECK_DEADLOCK FALSE
