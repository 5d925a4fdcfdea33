CONSTANTS
  EpochSeconds = 1
  SeasonSeconds = 2
  MaxClock = 1
  DurableMarks = TRUE
  MarkWritesFail = FALSE
  Requests = {r1, r2}
  Accounts = {alice, bob}
  Keys = {k1}
  Contexts = {x1}
  Nonces = {n1, n2}
  None = None
  Heights = {1,2}
  RootWindow = 1
  OracleMaxAge = 1
  FutureSkew = 0
  ChallengeTtl = 1
  MaxPending = 1
  MaxVerifies = 1
  MaxQueue = 1
  RetainEpochs = 1
  Store = "platform"
  ReadsFail = TRUE
  AddsFail = TRUE
SPECIFICATION FairSpec
INVARIANTS GateIsSound
PROPERTIES ImplementsMembership RequestsAreAnswered
