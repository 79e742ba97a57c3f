\* Violated: a snapshot keeps the fold of the rules it was made with.
CONSTANTS
  rd1 = rd1
  sw1 = sw1
  rp1 = rp1
  ap1 = ap1
  latest = latest
  miss = miss
  Latest = latest
  Miss = miss
  Readers <- OneReader
  SnapshotWorkers <- OneSnapshotWorker
  ReplayWorkers <- NoProcess
  Appenders <- OneAppender
  Points <- OnlyLatest
  Threshold = 2
  MaxEvents = 3
  MaxRules = 1
  Faults <- NoFaults
SPECIFICATION Spec
PROPERTIES
  SnapshotTransparent
