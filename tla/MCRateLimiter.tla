--------------------------- MODULE MCRateLimiter ---------------------------
(* Model-checking instance of RateLimiter: interchangeable tasks. *)
EXTENDS RateLimiter, TLC

Symmetry == Permutations(Tasks)

=============================================================================
