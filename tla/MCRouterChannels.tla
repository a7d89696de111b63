--------------------------- MODULE MCRouterChannels ---------------------------
(* Two runs of the command, a request to each of two peers, either of which  *)
(* may be the sub-minimum request of an old journal.                        *)
EXTENDS RouterChannels, TLC

CONSTANTS a, b, r1, r2, p1, p2

MCSymmetry == Permutations({a, b})

MCPeerOf == [r \in Requests |-> IF r = r2 THEN p2 ELSE p1]

=============================================================================
