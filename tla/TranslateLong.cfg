SPECIFICATION FairSpec
CONSTANTS
    MaxRules = 16
    ByteRange = 4
    Family = "long"
    Op <- MCOp
    Pattern <- MCPattern
    Units <- MCUnits
    TINT <- MCTINT
INVARIANT NoRepeatedCall
CHECK_DEADLOCK FALSE
