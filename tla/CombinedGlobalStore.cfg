CONSTANTS
  A = A X = X F = F L = L G = G R = R P = P Q = Q M = M
  NoVar = NoVar
  Vars <- VarList
  Registers <- Machine
  InVars = {P}
  OutVars = {Q}
  Kind <- KindOfVar
  Rules <- RulesUsed
  Size = 4
  Fresh = {0, 3}
  Procedures <- ReadByCallee
SPECIFICATION Spec
INVARIANT SameEvents
