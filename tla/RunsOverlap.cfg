SPECIFICATION Spec
CONSTANTS
    Run = {r1, r2}
    Call = {c1}
    HardCap = 2
    Overlap = TRUE
    Faults = FALSE
SYMMETRY Symmetry
INVARIANTS
    TypeOK
    PayloadLife
    SpansSettle
PROPERTIES
    RunLogSpec
    TerminalIsLast
CHECK_DEADLOCK FALSE
