----------------------------- MODULE MCCheckout -----------------------------
(* Checkout on small sets.  "gold" and "guide" cost money, the others do
   not. *)
EXTENDS Checkout, TLC

MCPlans == {"gold", "trial"}
MCBooks == {"guide"}
MCFree  == {"trial"}

Symmetry == Permutations(Requests) \cup Permutations(Users)

=============================================================================
