CONSTANTS
    Names = {"a", "b"}
    SetupName = "a"
    Extra = {"x"}
    Windows = TRUE
    InitialConfs <- SmallConfs
    LogFiles = {"daily"}
    Cores = 4
    MaxStarts = 2
    Malformed = Malformed
    Sections <- SmallSections
    Files <- SmallFiles
    SetupSection = "mysql"
    SetupProtocol = "DB_CUSTOM_V5"
    SetupOption = "v5"
    Additions <- SmallAdditions
    MaxSystemCalls = 3
    MaxMissions = 2
    MaxQueue = 1
SPECIFICATION Spec
INVARIANTS
    TypeOK
    DatabaseUsable
    CallsFindProtocol
    SetupIsReady
    EveryStartFindsConf
\* System calls are bounded.
CHECK_DEADLOCK FALSE
