SPECIFICATION Spec
CONSTANTS
    Run = {r1, r2}
    Call = {c1, c2}
    HardCap = 2
    Overlap = TRUE
    Faults = FALSE
INVARIANT
    ProjectionLegal
CHECK_DEADLOCK FALSE
