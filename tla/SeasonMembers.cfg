CONSTANTS
  k1 = k1
  k2 = k2
  k3 = k3
  k4 = k4
  k5 = k5
  m4 = m4
  m5 = m5
  r1 = r1
  r2 = r2
  r3 = r3
  r4 = r4
  v1 = v1
  x1 = x1
  x2 = x2
  timer = timer
  DurableMarks = TRUE
  MarkWritesFail = FALSE
  Keys = {k1, k2, k3}
  Contexts = {x1}
  EpochSeconds = 1
  SeasonSeconds = 1
  MaxClock = 1
  Registrations = {r1, r2, r3, r4}
  Members = {}
  KeyOf <- Retried
  Timers = {}
  Depth = 2
  Earlier <- TwoMembers
  RootWindow = 2
  StoreFails = TRUE
SPECIFICATION Spec
INVARIANTS CacheFollowsLog AnswersHold CapacityHolds MembersCanProve
PROPERTIES LandsInItsSeason
