------------------------------- MODULE MCLoopOps -------------------------------
(* Two screens, two quotes, two approvals; one clock for the budget run. *)
EXTENDS LoopOps, TLC

CONSTANTS a, b, l1, l2, x1, x2

MCSymmetry == Permutations({a, b}) \cup Permutations({l1, l2}) \cup Permutations({x1, x2})

=============================================================================
