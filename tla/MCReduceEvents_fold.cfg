\* Three event types, rules on two fields, four payloads, up to three events.
CONSTANTS
  t1 = t1
  t2 = t2
  t3 = t3
  EventTypes <- ThreeTypes
  Fields <- TwoFields
  Payloads <- FieldPayloads
  NoField = nofield
  Omitted = omitted
  NoRule = norule
  MaxEvents = 3
SPECIFICATION Spec
SYMMETRY TypeSymmetry
INVARIANTS
  TypeOK
  FoldsToReference
  NoRuleIsSilent
