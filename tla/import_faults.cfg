SPECIFICATION Spec
CONSTANTS
  j1 = j1
  j2 = j2
  t1 = t1
  t2 = t2
  Job = {j1, j2}
  Worker = {w1, w2, w3}
  Table = {t1, t2}
  TablesOf <- MCTablesOf
  None = None
  Faults = {"inputDrift", "boundaryDenied"}
SYMMETRY WorkerSymmetry
INVARIANTS
  CatalogAgreesWhenSettled
  PreviousOrTarget
  RecoveryNeverBlocked
  SuccessIsActivation
PROPERTIES
  FencedWorkersAreInert
  ImportIsAtomic
