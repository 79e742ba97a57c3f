\* Both workers and the appends, with every failure: duplicate snapshots, snapshots
\* created out of order, lost deletions, crashes.
CONSTANTS
  rd1 = rd1
  sw1 = sw1
  rp1 = rp1
  ap1 = ap1
  latest = latest
  miss = miss
  Latest = latest
  Miss = miss
  Readers <- NoProcess
  SnapshotWorkers <- OneSnapshotWorker
  ReplayWorkers <- OneReplayWorker
  Appenders <- OneAppender
  Points <- OnlyLatest
  Threshold = 1
  MaxEvents = 2
  MaxRules = 0
  Faults <- AllFaults
SPECIFICATION FairSpec
INVARIANTS
  FoldsEachEventOnce
  MissCoversCommitted
PROPERTIES
  CacheConverges
