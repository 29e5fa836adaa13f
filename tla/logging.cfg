CONSTANTS
    Clients = {c1, c2}
    Dropper = d
    c1 = c1
    c2 = c2
    d = d
    QueueSize = 2
    MaxMessages = 3
SPECIFICATION FairSpec
INVARIANTS
    DropDrains
PROPERTIES
    FifoSpec
    ClaimedIsWritten
\* The logger may be dropped, and the program may end.
CHECK_DEADLOCK FALSE
