SPECIFICATION FairSpec
CONSTANTS
    MaxRules = 16
    ByteRange = 4
    Family = "narrowing"
    Op <- MCOp
    Pattern <- MCPattern
    Units <- MCUnits
    TINT <- MCTINT
INVARIANTS
    TypeOK
    Ordered
    SameMeaning
    AllOrNothing
    FindsTranslation
PROPERTY Terminates
CHECK_DEADLOCK FALSE
