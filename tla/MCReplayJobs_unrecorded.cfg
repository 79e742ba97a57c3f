\* The first update of the row fails.
CONSTANTS
  j1 = j1
  w1 = w1
  w2 = w2
  a1 = a1
  a2 = a2
  order = order
  cart = cart
  Jobs <- OneJob
  Slots <- OneSlot
  Aggregates <- TwoAggregates
  Types <- TwoTypes
  TypeOf <- TypeOfTwo
  AllTypes = all
  None = none
  MaxStalled = 1
  MaxCrashes = 0
  Faults <- DbFaults
SPECIFICATION Spec
CHECK_DEADLOCK FALSE
INVARIANTS
  FailureIsRecorded
