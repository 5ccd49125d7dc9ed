SPECIFICATION Spec
CONSTANTS
    MaxAdr = 5
    MaxSize = 3
    MaxBlocks = 3
    Overlapping = FALSE
INVARIANTS
    TypeOK
    InCapacity
    BlocksDisjoint
    NoDoubleAllocation
PROPERTY
    PoolSpec
CHECK_DEADLOCK FALSE
