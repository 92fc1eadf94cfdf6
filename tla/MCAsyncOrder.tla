---------------------------- MODULE MCAsyncOrder ----------------------------
(* AsyncOrder on three lanes. *)
EXTENDS AsyncOrder, TLC

Symmetry == Permutations(Lanes)

=============================================================================
