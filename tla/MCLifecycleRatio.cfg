CONSTANTS
    Given <- MCGiven
    Request = {q1, q2, q3}
    MaxStatements = 2
SPECIFICATION Spec
CHECK_DEADLOCK FALSE
INVARIANTS
    AcceptedRatioInRange
