\* One aggregate: whom its cached state is answered to.
CONSTANTS
  p1 = p1
  p2 = p2
  a1 = a1
  a2 = a2
  c1 = c1
  c2 = c2
  Projects <- TwoProjects
  Aggregates <- OneAggregate
  Calls <- TwoCalls
  None = none
SPECIFICATION Spec
INVARIANTS
  StatesStayInProject
