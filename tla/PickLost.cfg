SPECIFICATION Spec
CONSTANTS
    Null = Null
    Definitions <- EndpointsFile
    DefaultProfile = "a"
    Custom = "custom"
    Env <- SecretsSet
    Session = {"s1", "s2"}
    Typed = {"m4"}
    Connections <- Fields
    Blank <- BlankFields
    Stored <- OldConfiguration
    MaxDownloads = 2
    MaxEdits = 4
    Chat = {c1}
    Title = {t1, t2}
    Nothing = Nothing
    MaxCommands = 2
    MaxRefreshes = 1
    MaxUnderWay = 4
PROPERTIES
    PickStays
CHECK_DEADLOCK FALSE
