CONSTANTS
    Adders = {a1, a2}
    a1 = a1
    a2 = a2
    Main = a1
    MaxCommands = 2
    MaxChats = 1
    MaxFaults = 2
    KeepAliveAfter = 2
    ReconnectAfter = 4
SPECIFICATION FairSpec
INVARIANTS
    NothingLostInFlush
    PasswordAlive
    RepliesNotMixed
PROPERTIES
    StopEnds
\* Commands are bounded, and the extension may be stopped.
CHECK_DEADLOCK FALSE
