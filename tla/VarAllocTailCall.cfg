CONSTANTS
  NProc = 4
  MaxVars = 2
  VarHeap <- LargeHeap
  Programs <- TailCalls
SPECIFICATION Spec
INVARIANT CallersKeepVariables
