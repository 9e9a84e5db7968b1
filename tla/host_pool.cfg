SPECIFICATION Spec
CONSTANTS
  w1 = w1
  w2 = w2
  r1 = r1
  r2 = r2
  c1 = c1
  v1 = v1
  v2 = v2
  Write = {w1, w2}
  Read = {r1}
  Reconcile = {c1}
  Recovery = {v1}
  Lanes = 2
  MaxQueueDepth = 2
  MaxStarts = 2
  MaxJournals = 1
  Nobody = Nobody
INVARIANTS
  ReadersExcludeWriter
  ReadyMeansReconciled
  ReadsKeepTheOrder
CHECK_DEADLOCK FALSE
PROPERTIES
  EveryRequestEnds
