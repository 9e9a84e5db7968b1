----------------------- MODULE MCSqlServerActivation ------------------------
(* SqlServerActivation with a few plans, activations and other imports.     *)
EXTENDS SqlServerActivation

CONSTANTS p1, p2, k1, k2, i1
=============================================================================
