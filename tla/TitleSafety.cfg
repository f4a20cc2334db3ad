SPECIFICATION Spec
CONSTANTS
    UserMessage = {m1, m2}
    Request = {r1, r2, r3}
    ManualTitle = {t1}
    Null = Null
    Faults = TRUE
SYMMETRY Symmetry
INVARIANTS
    TypeOK
    OneModelCall
    FallbackIsFirst
    OutcomeHonest
PROPERTIES
    ManualTitleWins
    AttemptSpec
CHECK_DEADLOCK FALSE
