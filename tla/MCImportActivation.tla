------------------------ MODULE MCImportActivation --------------------------
(* ImportActivation on a small workspace.                                   *)
EXTENDS ImportInvariant, TLC

CONSTANTS j1, j2, t1, t2

\* Two imports that share a table: one replaces a folder of two, one a single
\* file.
MCTablesOf == (j1 :> {t1, t2}) @@ (j2 :> {t1})

MCOneTable == [j \in {j1, j2} |-> {t1}]

WorkerSymmetry == Permutations(Worker)
=============================================================================
