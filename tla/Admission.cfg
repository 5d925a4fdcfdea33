CONSTANTS
  EpochSeconds = 1
  SeasonSeconds = 2
  MaxClock = 2
  DurableMarks = TRUE
  MarkWritesFail = FALSE
  Requests = {r1, r2}
  Accounts = {alice, bob}
  Keys = {k1}
  Contexts = {x1}
  Nonces = {n1, n2}
  None = None
  Heights = {1}
  RootWindow = 2
  OracleMaxAge = 1
  FutureSkew = 0
  ChallengeTtl = 1
  MaxPending = 1
  MaxVerifies = 1
  MaxQueue = 1
  RetainEpochs = 1
  Store = "sqlite"
  ReadsFail = TRUE
  AddsFail = TRUE
SPECIFICATION Spec
SYMMETRY Symmetry
INVARIANTS TypeOK OneAccountPerTag ClaimsAreBacked NonceIsOneTime HoldsMatchVerifies
PROPERTIES ImplementsMembership
