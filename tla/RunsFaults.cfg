SPECIFICATION Spec
CONSTANTS
    Run = {r1}
    Call = {c1, c2}
    HardCap = 3
    Overlap = TRUE
    Faults = TRUE
SYMMETRY Symmetry
INVARIANTS
    ObsBehindLog
CHECK_DEADLOCK FALSE
