SPECIFICATION Spec
CONSTANTS
    Adapters = {"anthropic_messages", "openai_responses", "openai_chat_completions"}
    MaxBlocks = 2
    Whole = 2
    Speech = {"anthropic_messages", "openai_responses", "openai_chat_completions"}
    MaxQuestions = 2
    MaxAnswers = 2
    MaxSpoken = 3
    MaxTurns = 2
    MaxRecalled = 1
    Null = Null
    Task = {t1, t2}
    Definitions <- EndpointsFile
    DefaultProfile = "anthropic"
    Overrides <- Visitors
    Env <- SecretsSet
    Capacity = 1
    Normal <- Spellings
    Process = {p1, p2}
    Visited = {p1}
    Release <- Releases
    Inputs <- Names
    Profiles <- RefreshedPresets
    Model = {m1, m2}
    MaxItems = 2
    MaxStarts = 2
PROPERTIES
    BrokenCallsAreClosed
CHECK_DEADLOCK FALSE
