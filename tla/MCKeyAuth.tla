------------------------------- MODULE MCKeyAuth -------------------------------
(* KeyAuth for TLC: two gateways and three runs of authenticate. *)
EXTENDS KeyAuth, TLC

CONSTANTS g1, g2, r1, r2, r3

MCGateways == {g1, g2}
MCRequests == {r1, r2, r3}

Symmetry == Permutations(MCGateways) \union Permutations(MCRequests)
=============================================================================
