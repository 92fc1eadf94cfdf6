--------------------------- MODULE MCServerParent ---------------------------
(* ServerParent on interchangeable connections. *)
EXTENDS ServerParent, TLC

Symmetry == Permutations(Conns)

=============================================================================
