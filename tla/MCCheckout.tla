----------------------------- MODULE MCCheckout -----------------------------
(* Small instances of Checkout for TLC. *)
EXTENDS CheckoutRefinement, TLC

CONSTANTS u1, u2, k1, k2, r1, r2, ta, tb

Symmetry == Permutations(Users) \cup Permutations(Keys) \cup Permutations(Requests)

(* One ticket type: one seat or two in an order. *)
OneTypeCarts == {[t \in Tickets |-> n] : n \in 1..2}
SingleSeat == {[t \in Tickets |-> 1]}
(* Two ticket types: two of one, one of each, and an order over the limit. *)
TwoTypeCarts == {ta :> 2 @@ tb :> 0, ta :> 1 @@ tb :> 1, ta :> 2 @@ tb :> 2}
=============================================================================
