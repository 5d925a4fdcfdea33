CONSTANTS
  k1 = k1
  k2 = k2
  k3 = k3
  k4 = k4
  k5 = k5
  m4 = m4
  m5 = m5
  r1 = r1
  r2 = r2
  r3 = r3
  r4 = r4
  v1 = v1
  x1 = x1
  x2 = x2
  timer = timer
  DurableMarks = TRUE
  MarkWritesFail = FALSE
  Keys = {k1}
  Contexts = {x1}
  EpochSeconds = 2
  SeasonSeconds = 1
  MaxClock = 2
  Registrations = {r1}
  Members = {v1}
  KeyOf <- OneEach
  Timers = {timer}
  Depth = 1
  Earlier <- NoMembers
  RootWindow = 1
  StoreFails = TRUE
SPECIFICATION FairSpec
INVARIANTS GrantNeedsRegistration
PROPERTIES RequestsAreAnswered
