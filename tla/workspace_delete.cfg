SPECIFICATION Spec
CONSTANTS
  MaxVersion = 3
  MaxCrashes = 3
  MaxFaults = 3
  None = None
CHECK_DEADLOCK FALSE
INVARIANTS
  AuditBeforeRemoval
  TornDeletionIsFenced
  PointsKeepTheirObjects
PROPERTIES
  DeletionCompletes
