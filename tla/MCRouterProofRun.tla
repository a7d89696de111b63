--------------------------- MODULE MCRouterProofRun ---------------------------
(* Two runs of ops/router-proof, two payments, two pairs of endpoints, and a *)
(* path whose channels are replaced once.                                    *)
EXTENDS RouterProofRun

CONSTANTS a, b, r1, r2, e1, e2

=============================================================================
