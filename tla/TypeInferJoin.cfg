SPECIFICATION Spec
CONSTANTS
    Limit = 1000
    MaxSteps = 60
    Family = "join"
    Procedures <- MCProcedures
INVARIANT TypesContain
CHECK_DEADLOCK FALSE
