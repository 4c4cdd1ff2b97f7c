----------------------------- MODULE MCJwksCache -----------------------------
(* Instances of JwksCache for TLC. *)
EXTENDS JwksCache, TLC

CONSTANTS r1, r2, k1, k2

Symmetry == Permutations(Requests) \cup Permutations(Kids)
=============================================================================
