---------------------------- MODULE MCRateLimiter ----------------------------
(* Instances of RateLimiter for TLC. *)
EXTENDS RateLimiter, TLC

CONSTANTS s1, s2, s3, i1, u1, t1

\* A user passes twice in a window, the tenant and the address five times.
Limits == [k \in Keys |-> IF k \in Users THEN 2 ELSE 5]

\* Clients are interchangeable.
Symmetry == Permutations(Slots)
=============================================================================
