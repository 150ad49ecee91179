------------------------------ MODULE Purchase ------------------------------
(***************************************************************************)
(* What the checkout promises a customer about money, with no request,     *)
(* await or database in sight.  A purchase is opened (its payment is put   *)
(* on record), the payment provider may take the money of an opened        *)
(* purchase once, and the customer gets the goods of a purchase only when  *)
(* its money has been taken and the purchase was not called off.           *)
(* The provider's side is independent of the shop's: money may be taken    *)
(* for a purchase the shop has already called off (a lost answer).         *)
(***************************************************************************)

CONSTANT Purchases

VARIABLES
    phase,   \* phase[p]: "new", "open", "granted" or "void"
    taken    \* the purchases whose money the provider has taken

pvars == <<phase, taken>>

Init ==
    /\ phase = [p \in Purchases |-> "new"]
    /\ taken = {}

Open(p) ==
    /\ phase[p] = "new"
    /\ phase' = [phase EXCEPT ![p] = "open"]
    /\ UNCHANGED taken

Take(p) ==
    /\ phase[p] \in {"open", "void"}
    /\ p \notin taken
    /\ taken' = taken \cup {p}
    /\ UNCHANGED phase

Grant(p) ==
    /\ phase[p] = "open"
    /\ p \in taken
    /\ phase' = [phase EXCEPT ![p] = "granted"]
    /\ UNCHANGED taken

CallOff(p) ==
    /\ phase[p] = "open"
    /\ phase' = [phase EXCEPT ![p] = "void"]
    /\ UNCHANGED taken

Next == \E p \in Purchases : Open(p) \/ Take(p) \/ Grant(p) \/ CallOff(p)

Spec == Init /\ [][Next]_pvars

=============================================================================
