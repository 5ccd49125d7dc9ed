CONSTANTS
  P = P
  Procs = {P}
  Sources <- Structured
SPECIFICATION FairSpec
INVARIANTS TypeOK LabelsPlaced SameEvents NoNullInstr
PROPERTY Terminates
