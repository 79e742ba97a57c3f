\* Two projects, two aggregates and two calls at a time.
CONSTANTS
  p1 = p1
  p2 = p2
  a1 = a1
  a2 = a2
  c1 = c1
  c2 = c2
  Projects <- TwoProjects
  Aggregates <- TwoAggregates
  Calls <- TwoCalls
  None = none
SPECIFICATION Spec
INVARIANTS
  TypeOK
  FoldedByOwnRules
PROPERTIES
  CachedStateEnds
