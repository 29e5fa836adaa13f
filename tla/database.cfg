CONSTANTS
    Users = {u1, u2}
    Sessions = {c1, c2, c3}
    u1 = u1
    u2 = u2
    c1 = c1
    c2 = c2
    c3 = c3
    MinSessions = 1
    Names = {"a", "b"}
    Templates <- DistinctNames
    Inputs = {"x", "y"}
SPECIFICATION CacheSpec
INVARIANTS
    PoolTypeOK
    OnePlace
    NoLeak
    NoMoreThanUsers
    RunsOwnStatements
    EntriesWhole
PROPERTIES
    SurplusCloses
    LeaseSpec
\* A connection that cannot be made, or a stuck shutdown, ends all steps.
CHECK_DEADLOCK FALSE
