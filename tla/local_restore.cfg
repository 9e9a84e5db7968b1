SPECIFICATION FairSpec
CONSTANTS
  x1 = x1
  Restore = {x1}
  MaxWrites = 2
  MaxCrashes = 1
  MaxFaults = 2
  None = None
  Partial = Partial
INVARIANTS
  TornIsRecoverable
PROPERTIES
  RestoreEndsAsReported
  RestoresSettle
