SPECIFICATION RestartSpec
CONSTANTS
  j1 = j1
  j2 = j2
  t1 = t1
  t2 = t2
  Job = {j1, j2}
  Worker = {w1, w2}
  Table = {t1}
  TablesOf <- MCOneTable
  None = None
  Faults = {"restoreError", "duplicateLaunch"}
PROPERTIES
  RunningJobsEnd
  ActivationsSettle
