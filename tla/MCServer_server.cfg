\* Two overlapping polls, a failing call or a stalled job, a probe; once the process
\* has ended nothing is left to do.
CONSTANTS
  replayJobs = replayJobs
  j1 = j1
  j2 = j2
  p1 = p1
  Queues <- OneQueue
  Jobs <- TwoJobs
  QueueOf <- SameQueue
  None = none
  MaxPolls = 2
  MaxMishaps = 1
  Probes <- OneProbe
SPECIFICATION FairServerSpec
CHECK_DEADLOCK FALSE
INVARIANTS
  TypeOK
  ServerTypeOK
  ExitsOnlyWhenAsked
  MainExitsDrained
  NotReadyAfterQuit
PROPERTIES
  DepthNotUnderstated
  GaugesConverge
