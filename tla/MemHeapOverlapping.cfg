SPECIFICATION Spec
CONSTANTS
    MaxAdr = 4
    MaxSize = 3
    MaxBlocks = 3
    Overlapping = TRUE
PROPERTY
    AddsExactly
CHECK_DEADLOCK FALSE
