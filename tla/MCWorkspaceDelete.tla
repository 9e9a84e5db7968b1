------------------------- MODULE MCWorkspaceDelete --------------------------
(* WorkspaceDelete with a few versions, crashes and failures.               *)
EXTENDS WorkspaceDelete
=============================================================================
