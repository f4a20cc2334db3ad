SPECIFICATION Spec
CONSTANTS
    Call = {"c1", "c2"}
    Tool <- ToolNames
    Registered <- RegisteredNames
    Retryable <- RetryableNames
    Serial <- SerialNames
    MaxAttempts = 3
    HardCap = 2
INVARIANTS
    StreamTypeOK
    HistoryPaired
    NoStrayHandler
    TraceFaithful
PROPERTIES
    RunEventsSpec
    FrameOrder
    HandlersSettle
    EveryStreamEnds
CHECK_DEADLOCK FALSE
