CONSTANTS
  alice = alice
  a1 = a1
  a2 = a2
  role = role
  A = A
  B = B
  x1 = x1
  NoScope = NoScope
  None = None
  Users = {alice}
  Targets = {a1}
  RoleTargets = {}
  Places = {A}
  PlaceOf <- HomesOne
  Contexts = {x1}
  Configs <- OneChannel
  Adapters <- DiscordOne
  LegacyFiles <- OldFile
  MaxTime = 1
  MaxRev = 2
  Passes = {1}
  DenialsRace = TRUE
SPECIFICATION BotSpec
INVARIANTS AccessIsCovered
