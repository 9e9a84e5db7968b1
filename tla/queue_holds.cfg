SPECIFICATION QueueSpec
CONSTANTS
  Job = {j1, j2}
  Home = home
  Elsewhere = elsewhere
  Away = {j2}
  Workspace = {home, elsewhere}
  WorkspaceOf <- MCWorkspaceOf
  Worker = {w1, w2}
  None = None
  MaxRequests = 2
  Faults = {"callError", "hostRestart", "workspaceSwitch"}
CHECK_DEADLOCK FALSE
SYMMETRY MCSymmetry
INVARIANTS OneImportRuns PendingBehindActive
PROPERTIES QueuedJobsAreHeld RunningJobsKeepTheQueue
