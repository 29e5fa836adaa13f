CONSTANTS
    Scripts = {s1, s2}
    Workers = {w1, w2}
    s1 = s1
    s2 = s2
    w1 = w1
    w2 = w2
    Lo = 1
    Hi = 4
    Calls <- FaultyCalls
    MaxCalls = 3
    OutputSize = 7
    Lengths = {1, 4}
SPECIFICATION Spec
SYMMETRY Symmetry
INVARIANTS
    OwnersApart
    NoSecondAnswer
\* Calls are bounded by MaxCalls, and the program may be stopped.
CHECK_DEADLOCK FALSE
