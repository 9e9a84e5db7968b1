SPECIFICATION Spec
CONSTANTS
  c1 = c1
  r1 = r1
  r2 = r2
  d1 = d1
  d2 = d2
  Create = {c1}
  Restore = {r1}
  Delete = {d1}
  MaxVersion = 2
  MaxCrashes = 2
  MaxFaults = 2
  None = None
CHECK_DEADLOCK FALSE
INVARIANTS
  TornIsFenced
  ReferencedObjectsExist
PROPERTIES
  RestoreEndsWhole
  ImportsOwnTheStores
  FencesLift
