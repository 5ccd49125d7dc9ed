CONSTANTS
  NProc = 3
  MaxVars = 2
  VarHeap <- SmallHeap
  Programs <- PlainPrograms
SPECIFICATION FairSpec
INVARIANTS TypeOK VarHeapUnused CallersKeepVariables LocalsApart
PROPERTY Terminates
