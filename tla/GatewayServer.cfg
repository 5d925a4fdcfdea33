CONSTANTS
  r1 = r1
  r2 = r2
  adapter = adapter
  alice = alice
  bob = bob
  EpochSeconds = 2
  SeasonSeconds = 3
  MaxClock = 3
  DurableMarks = TRUE
  MarkWritesFail = FALSE
  WindowTicks = 1
  MaxKeys = 1
  Requests = {r1, r2}
  Client <- OneAdapter
  Account <- TwoMembers
  IngressMax = 2
  AccountMax = 1
  SharedMax = 1
SPECIFICATION FairServerSpec
INVARIANTS RefusalOutlivesRestart TeardownIsSafe RefusalsAreFree
PROPERTIES NeverServesThePast TeardownEnds
