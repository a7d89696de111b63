----------------------------- MODULE MCRouterPeers -----------------------------
(* Passes one after the other, two peers, and two approvals in between.      *)
EXTENDS RouterPeers

CONSTANTS a, x

=============================================================================
