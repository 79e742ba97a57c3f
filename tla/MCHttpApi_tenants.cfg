\* Three requests in any roles; when all are answered nothing is left to do.
CONSTANTS
  r1 = r1
  r2 = r2
  r3 = r3
  Requests <- ThreeRequests
  None = none
SPECIFICATION ApiSpec
SYMMETRY Symmetry
INVARIANTS
  TypeOK
  ApiTypeOK
  WholeTenants
  KeysStayInTenant
  AnswerTellsEffect
  LetInCountedOnce
PROPERTIES
  LockedOutForGood
CHECK_DEADLOCK FALSE
