------------------------- MODULE MCSourceManagement -------------------------
(* SourceManagement with a table for each of two jobs, and with workers     *)
(* whose imports all store the same object.                                 *)
EXTENDS SourceInvariant, TLC

CONSTANTS j1, j2, t1, t2

MCTablesOf == [j \in Job |-> IF j = j1 THEN {t1} ELSE {t2}]

MCObjectOf == [v \in Worker \union Layout |-> IF v \in Layout THEN "sorted" ELSE "imported"]

MWorkerSymmetry == Permutations(Worker)
=============================================================================
