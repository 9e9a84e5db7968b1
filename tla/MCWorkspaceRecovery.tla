------------------------ MODULE MCWorkspaceRecovery ------------------------
(* WorkspaceRecovery with a few request keys.                               *)
EXTENDS WorkspaceRecovery

CONSTANTS c1, r1, r2, d1, d2
=============================================================================
