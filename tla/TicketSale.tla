----------------------------- MODULE TicketSale -----------------------------
(***************************************************************************)
(* What a ticket sale promises, without requests, clocks, payments or      *)
(* workers: an order reserves tickets, is admitted, lapses, is cancelled   *)
(* or is owed its money; stock is never promised twice.  Module Checkout   *)
(* implements it (module CheckoutRefinement).                              *)
(***************************************************************************)
EXTENDS Integers, FiniteSets

CONSTANTS Orders, Tickets,
          Carts,       \* quantities per ticket type that an order may ask for
          Quantities   \* stock an organiser may set

VARIABLES
  stock,   \* tickets of each type the organiser offers
  state,   \* what became of each order
  cart     \* what each order asks for

vars == <<stock, state, cart>>

States == {"none", "reserved", "lapsed", "cancelled", "admitted", "owed", "returned"}

(* The tickets of type t promised to the orders in S. *)
Promised(t, S) ==
  UNION {{<<o, n>> : n \in 1..cart[o][t]} :
           o \in {p \in S : state[p] \in {"reserved", "admitted"}}}

(* Is there stock for everything o asks for, next to what others are promised? *)
Fits(o, wanted) ==
  \A t \in Tickets :
    wanted[t] > 0 => Cardinality(Promised(t, Orders \ {o})) + wanted[t] <= stock[t]

Init ==
  /\ stock \in [Tickets -> Quantities]
  /\ state = [o \in Orders |-> "none"]
  /\ cart = [o \in Orders |-> [t \in Tickets |-> 0]]

-----------------------------------------------------------------------------
(* A new order is given its tickets at once, or has them reserved. *)
Order(o, wanted, next) ==
  /\ state[o] = "none"
  /\ state' = [state EXCEPT ![o] = next]
  /\ cart' = [cart EXCEPT ![o] = wanted]
  /\ Fits(o, wanted)
  /\ UNCHANGED stock

(* A paid order is admitted, also a lapsed one if its tickets are still free. *)
Admit(o) ==
  /\ state[o] \in {"reserved", "lapsed"}
  /\ state' = [state EXCEPT ![o] = "admitted"]
  /\ Fits(o, cart[o])
  /\ UNCHANGED <<stock, cart>>

(* Reservations end, several at a time when their deadlines coincide. *)
Lapse(S) ==
  /\ \A o \in S : state[o] = "reserved"
  /\ state' = [o \in Orders |-> IF o \in S THEN "lapsed" ELSE state[o]]
  /\ UNCHANGED <<stock, cart>>

(* A cancelled order can no longer be admitted, only be paid back. *)
Cancel(o) ==
  /\ state[o] \in {"reserved", "lapsed"}
  /\ state' = [state EXCEPT ![o] = "cancelled"]
  /\ UNCHANGED <<stock, cart>>

Owe(o) ==
  /\ state[o] \in {"reserved", "lapsed", "cancelled"}
  /\ state' = [state EXCEPT ![o] = "owed"]
  /\ UNCHANGED <<stock, cart>>

Return(o) ==
  /\ state[o] = "owed"
  /\ state' = [state EXCEPT ![o] = "returned"]
  /\ UNCHANGED <<stock, cart>>

(* The organiser changes the stock of a type, but not below what is promised. *)
Restock(t, n) ==
  /\ Cardinality(Promised(t, Orders)) <= n
  /\ stock' = [stock EXCEPT ![t] = n]
  /\ UNCHANGED <<state, cart>>

Next ==
  \/ \E o \in Orders :
       \/ \E wanted \in Carts, next \in {"reserved", "admitted"} : Order(o, wanted, next)
       \/ Admit(o) \/ Cancel(o) \/ Owe(o) \/ Return(o)
  \/ \E S \in SUBSET Orders : Lapse(S)
  \/ \E t \in Tickets, n \in Quantities : Restock(t, n)

Spec == Init /\ [][Next]_vars
=============================================================================
