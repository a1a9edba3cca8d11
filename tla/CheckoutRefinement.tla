------------------------- MODULE CheckoutRefinement -------------------------
(***************************************************************************)
(* Checkout implements TicketSale.  What became of an order is read off    *)
(* its rows and the clock: a reservation lapses when its deadline passes,  *)
(* not when the worker gets round to writing that down.                    *)
(***************************************************************************)
EXTENDS Checkout

stateOf(o) ==
  IF order[o].status = "NONE" THEN "none"
  ELSE IF order[o].status = "SUCCESS" THEN "admitted"
  ELSE IF order[o].status = "REFUND_REQUIRED" THEN "owed"
  ELSE IF order[o].status = "REFUNDED" THEN "returned"
  ELSE IF order[o].hold = "CANCELLED" THEN "cancelled"
  ELSE IF ActiveHold(o) THEN "reserved"
  ELSE "lapsed"

Sale == INSTANCE TicketSale
          WITH stock <- quantity,
               state <- [o \in Orders |-> stateOf(o)],
               cart <- [o \in Orders |-> order[o].cart]

(* Every step of a request, a payment, the worker, the clock or the organiser *)
(* is a step of the ticket sale or leaves it alone: in particular stock is    *)
(* never promised twice, admissions and refunds are final, and a cancelled    *)
(* order that is paid after all is paid back and never admitted.              *)
ImplementsSale == Sale!Spec
=============================================================================
