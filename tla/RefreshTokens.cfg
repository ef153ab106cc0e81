SPECIFICATION Spec
CONSTANTS
    Requests = {r1, r2, r3}
    Families = {F1, F2}
    MaxTokens = 4
    None = None
SYMMETRY MCSymmetry
INVARIANTS
    OneTokenPerFamily
CHECK_DEADLOCK FALSE
