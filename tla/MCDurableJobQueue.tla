------------------------- MODULE MCDurableJobQueue --------------------------
(* DurableJobQueue with the jobs in Away in a second workspace, and with    *)
(* symmetric workers and symmetric jobs of a workspace.                     *)
EXTENDS DurableJobQueue, TLC

CONSTANTS Home, Elsewhere, Away

MCWorkspaceOf == [j \in Job |-> IF j \in Away THEN Elsewhere ELSE Home]

MCSymmetry ==
  Permutations(Worker)
    \union {p \in Permutations(Job) : \A j \in Job : MCWorkspaceOf[p[j]] = MCWorkspaceOf[j]}
=============================================================================
