CONSTANTS
  EpochSeconds = 2
  SeasonSeconds = 3
  MaxClock = 6
  DurableMarks = TRUE
  MarkWritesFail = TRUE
SPECIFICATION Spec
INVARIANTS RefusalOutlivesRestart
