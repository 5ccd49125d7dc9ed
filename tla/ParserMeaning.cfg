SPECIFICATION Spec
CONSTANTS
    Modules <- MCModules
    Files <- MCFiles
    Programs <- MCPrograms
    Initial <- MCInitial
    Meant <- MCMeant
    Fuel <- MCFuel
    Registers <- MCRegisters
    Address <- MCAddress
INVARIANTS TypeOK Accepted Balanced DeclaredOnce SameMeaning Progresses
CHECK_DEADLOCK FALSE
