----------------------------- MODULE MCRateLimiter -----------------------------
(* RateLimiter for TLC: three requests of one key, which has both limits. *)
EXTENDS RateLimiter, TLC

CONSTANTS r1, r2, r3, k1

MCRequests == {r1, r2, r3}
MCKeys == {k1}
MCLimit == [tpm |-> k1 :> 2, rpm |-> k1 :> 1]

Symmetry == Permutations(MCRequests)
=============================================================================
