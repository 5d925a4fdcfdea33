CONSTANTS
  b1 = b1
  b2 = b2
  k1 = k1
  k2 = k2
  k3 = k3
  c1 = c1
  c2 = c2
  s1 = s1
  s2 = s2
  Buckets = {b1, b2}
  Requests <- MCRequests
  Schedules = {s1, s2}
  AssumeSchedule = TRUE
  InitialFiles <- MCAnyFiles
  PathDirs = 2
  OrphanDirs = FALSE
SPECIFICATION FairSpec
INVARIANTS ReadsAreDurable AckedKeepTheirLeaf StaysLoadable
PROPERTIES LeavesOnlyGrow StoreRecovers
