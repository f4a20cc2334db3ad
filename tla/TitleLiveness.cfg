SPECIFICATION Spec
CONSTANTS
    UserMessage = {m1}
    Request = {r1, r2}
    ManualTitle = {t1}
    Null = Null
    Faults = FALSE
PROPERTIES
    EveryRequestEnds
    ClaimSettles
CHECK_DEADLOCK FALSE
