SPECIFICATION Spec
CONSTANTS
    Limit = 1000
    MaxSteps = 60
    Family = "plain"
    Procedures <- MCProcedures
INVARIANTS
    TypeOK
    NoCrash
    TypesContain
    SameMeaning
    Fits
    UninitializedReported
PROPERTY PassesSettle
CHECK_DEADLOCK FALSE
