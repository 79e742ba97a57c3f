\* A reader of the latest state and of point 2, the snapshot worker, three appends, one rule change.
CONSTANTS
  rd1 = rd1
  sw1 = sw1
  rp1 = rp1
  ap1 = ap1
  latest = latest
  miss = miss
  Latest = latest
  Miss = miss
  Readers <- OneReader
  SnapshotWorkers <- OneSnapshotWorker
  ReplayWorkers <- NoProcess
  Appenders <- OneAppender
  Points <- LatestAnd2
  Threshold = 2
  MaxEvents = 3
  MaxRules = 1
  Faults <- NoFaults
SPECIFICATION FairSpec
INVARIANTS
  TypeOK
  FoldsEachEventOnce
  NeverBeyondPoint
  MissCoversCommitted
PROPERTIES
  CacheConverges
  CrossingNoticed
