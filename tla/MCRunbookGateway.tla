--------------------------- MODULE MCRunbookGateway ---------------------------
(* Three calls over two and a half cooldowns.                                *)
EXTENDS RunbookGateway, TLC

CONSTANTS c1, c2, c3

MCSymmetry == Permutations({c1, c2, c3})

=============================================================================
