SPECIFICATION Spec
CONSTANTS
    Run = {r1, r2}
    Call = {c1}
    HardCap = 3
    Overlap = FALSE
    Faults = FALSE
INVARIANTS
    InputLegal
PROPERTIES
    RunEnds
CHECK_DEADLOCK FALSE
