------------------------------ MODULE MCCards -------------------------------
(* Cards with a few requests. *)
EXTENDS Cards, TLC

Symmetry == Permutations(Requests)

=============================================================================
