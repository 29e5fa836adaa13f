CONSTANTS
    Users = {u1}
    Sessions = {c1}
    u1 = u1
    c1 = c1
    MinSessions = 1
    Names = {"a"}
    Templates <- OneTemplate
    Inputs = {"x", "y"}
SPECIFICATION CacheSpec
PROPERTIES
    FailedConnectReturns
\* A stuck shutdown ends all steps.
CHECK_DEADLOCK FALSE
