SPECIFICATION MSpec
CONSTANTS
  j1 = j1
  j2 = j2
  t1 = t1
  t2 = t2
  Job = {j1, j2}
  Worker = {w1, w2}
  Table = {t1, t2}
  TablesOf <- MCTablesOf
  None = None
  Faults = {"inputDrift", "boundaryDenied"}
  Layout = {l1}
  Object = {"imported", "sorted"}
  ObjectOf <- MCObjectOf
  SharedKeys = {t1}
  Elsewhere = Elsewhere
  Manager = Manager
  MaxCommands = 3
  ManagerFaults = {}
SYMMETRY MWorkerSymmetry
CHECK_DEADLOCK FALSE
INVARIANTS
  StoresAgreeOnceReconciled
  RetainedObjectsExist
  CurrentRunIsOfATable
