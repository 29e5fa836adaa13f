CONSTANTS
    NotNumber = NotNumber
    SteamIDs = {1, 2, 3}
    Banned = {1, 3}
    Calls <- SmallCalls
    MaxQueries = 3
    MaxExpired = 1
    BatchSize = 2
SPECIFICATION Spec
INVARIANTS
    SmallRoundsRight
    BannedOnce
\* Queries are bounded, and the thread may die.
CHECK_DEADLOCK FALSE
