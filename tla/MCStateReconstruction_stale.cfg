\* Violated: a fill that read before an append overwrites its deletion.
CONSTANTS
  rd1 = rd1
  sw1 = sw1
  rp1 = rp1
  ap1 = ap1
  latest = latest
  miss = miss
  Latest = latest
  Miss = miss
  Readers <- OneReader
  SnapshotWorkers <- OneSnapshotWorker
  ReplayWorkers <- NoProcess
  Appenders <- OneAppender
  Points <- OnlyLatest
  Threshold = 2
  MaxEvents = 3
  MaxRules = 0
  Faults <- NoFaults
SPECIFICATION Spec
INVARIANTS
  NoStaleRead
