SPECIFICATION FairQueueSpec
CONSTANTS
  Job = {j1, j2, j3}
  Home = home
  Elsewhere = elsewhere
  Away = {}
  Workspace = {home}
  WorkspaceOf <- MCWorkspaceOf
  Worker = {w1, w2}
  None = None
  MaxRequests = 1
  Faults = {}
CHECK_DEADLOCK FALSE
PROPERTY QueuedJobsGetTheirTurn
