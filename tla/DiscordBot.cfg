CONSTANTS
  alice = alice
  a1 = a1
  a2 = a2
  role = role
  A = A
  B = B
  x1 = x1
  NoScope = NoScope
  None = None
  Users = {alice}
  Targets = {a1, a2, role}
  RoleTargets = {role}
  Places = {A, B}
  PlaceOf <- Homes
  Contexts = {x1}
  Configs <- Served
  Adapters <- Discord
  LegacyFiles <- RoleFile
  MaxTime = 1
  MaxRev = 2
  Passes = {1}
  DenialsRace = FALSE
SPECIFICATION BotSpec
PROPERTIES ImplementsLedger
