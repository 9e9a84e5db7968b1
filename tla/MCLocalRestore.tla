--------------------------- MODULE MCLocalRestore ---------------------------
(* LocalRestore with a few restores.                                        *)
EXTENDS LocalRestore

CONSTANTS x1
=============================================================================
