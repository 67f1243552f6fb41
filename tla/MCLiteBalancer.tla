--------------------------- MODULE MCLiteBalancer ---------------------------
(* Model-checking instance of LiteBalancer: interchangeable peers. *)
EXTENDS LiteBalancer, TLC

Symmetry == Permutations(Peers)

=============================================================================
