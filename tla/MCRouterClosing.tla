---------------------------- MODULE MCRouterClosing ----------------------------
(* Two runs, two channels, and the balance of one moves once.                *)
EXTENDS RouterClosing

CONSTANTS a, b, c1, c2

=============================================================================
