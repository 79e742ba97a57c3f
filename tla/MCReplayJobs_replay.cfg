\* One job on two slots with every failure; once it is over nothing is left to do.
CONSTANTS
  j1 = j1
  w1 = w1
  w2 = w2
  a1 = a1
  a2 = a2
  order = order
  cart = cart
  Jobs <- OneJob
  Slots <- TwoSlots
  Aggregates <- TwoAggregates
  Types <- TwoTypes
  TypeOf <- TypeOfTwo
  AllTypes = all
  None = none
  MaxStalled = 1
  MaxCrashes = 2
  Faults <- AllFaults
SPECIFICATION FairSpec
CHECK_DEADLOCK FALSE
INVARIANTS
  TypeOK
  QueueAgrees
  ResultTruthful
PROPERTIES
  EndIsFinal
  PendingCompletes
