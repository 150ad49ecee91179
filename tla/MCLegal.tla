------------------------------ MODULE MCLegal -------------------------------
(* Legal with a few requests of every kind. *)
EXTENDS Legal, TLC

Symmetry == Permutations(Requests) \cup Permutations(Types) \cup Permutations(Users)

=============================================================================
