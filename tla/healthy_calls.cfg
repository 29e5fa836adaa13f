CONSTANTS
    Scripts = {s1, s2}
    Workers = {w1, w2}
    s1 = s1
    s2 = s2
    w1 = w1
    w2 = w2
    Lo = 1
    Hi = 3
    Calls <- HealthyCalls
    MaxCalls = 3
    OutputSize = 7
    Lengths = {1, 4, 10}
SPECIFICATION FairSpec
INVARIANTS
    TypeOK
    AnswerComing
    OwnAnswer
    WholeAnswer
    StopDrains
PROPERTIES
    NoOverwrite
    ContractSpec
    EveryCallAnswered
    StopJoinsWorkers
\* Calls are bounded by MaxCalls, and the program may be stopped.
CHECK_DEADLOCK FALSE
