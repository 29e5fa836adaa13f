CONSTANTS
    Lo = 1
    Hi = 8
SPECIFICATION Spec
INVARIANTS
    TypeOK
    Disjoint
    NoDoubleAllocation
PROPERTY PoolSpec
\* After Overrun the behaviour is undefined and the model stops.
CHECK_DEADLOCK FALSE
