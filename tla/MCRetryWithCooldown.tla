-------------------------- MODULE MCRetryWithCooldown --------------------------
(* RetryWithCooldown for TLC: model values for the requests and the deployments. *)
EXTENDS RetryWithCooldown, TLC

CONSTANTS r1, r2, r3, d1

MCRequests == {r1, r2, r3}
MCDeployments == {d1}

\* The requests are interchangeable; used only where no liveness is checked.
Symmetry == Permutations(MCRequests)
=============================================================================
