------------------------- MODULE MCRuntimeHostPool --------------------------
(* RuntimeHostPool with a few named requests.                               *)
EXTENDS RuntimeHostPool

CONSTANTS w1, w2, r1, r2, c1, v1, v2
=============================================================================
