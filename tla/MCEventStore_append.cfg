\* Three appends over two aggregates: every interleaving of the transaction's
\* statements, with rollbacks and lost answers anywhere.
CONSTANTS
  r1 = r1
  r2 = r2
  r3 = r3
  k1 = k1
  k2 = k2
  none = none
  None = none
  Requests <- ThreeRequests
  Keys <- TwoKeys
SPECIFICATION FairSpec
INVARIANTS
  TypeOK
  Gapless
  NeverRaises
  AggregateHasEvents
PROPERTIES
  ImplementsLog
  EveryAppendEnds
