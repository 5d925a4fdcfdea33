CONSTANTS
  alice = alice
  a1 = a1
  a2 = a2
  b1 = b1
  A = A
  B = B
  x1 = x1
  NoScope = NoScope
  Users <- OneUser
  Targets <- AllTargets
  RoleTargets = {}
  Places = {A, B}
  PlaceOf <- Homes
  Contexts = {x1}
  Configs <- AllConfigs
  Adapters <- AllAdapters
  LegacyFiles <- OldFiles
  MaxTime = 2
  MaxRev = 3
SPECIFICATION Spec
INVARIANTS TypeOK AccessIsCovered NotExtended
PROPERTIES LapsedStaysLapsed

