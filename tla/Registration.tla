---------------------------- MODULE Registration ----------------------------
(***************************************************************************)
(* Registration places of one event: the registration half of              *)
(* checkout.service.ts and checkout-inventory.ts, the Registration rows of *)
(* registration.service.ts, the scanner that marks them used and the       *)
(* organiser's capacity edits.                                             *)
(*                                                                         *)
(* The conversation between a request, the provider and the order is       *)
(* module Checkout's subject and is the same code here; this module keeps  *)
(* one action per transaction.  An order is a TransactionReference with    *)
(* its CheckoutReservation; "PENDING" also stands for AWAITING_TRANSFER.   *)
(*                                                                         *)
(* A definition whose comment begins with "Wrong" is not part of the       *)
(* specification: it is the faulty variant of the one that follows it.     *)
(***************************************************************************)
EXTENDS Integers, FiniteSets

CONSTANTS
  Orders,       \* checkouts that may be placed
  Users,        \* buyers
  buyer,        \* who places which order
  Scanners,     \* staff devices scanning at the door
  NoLimit,      \* registrationAttendees is null
  Capacities,   \* values an organiser may give it
  Fees,         \* registration fees an organiser may set, 0 is free
  HoldTime,     \* CHECKOUT_HOLD_SECONDS, in ticks of the clock
  EndDate,      \* Event.endDate
  MaxTime       \* bound: the clock stops here

ASSUME RegistrationAssumption ==
  /\ IsFiniteSet(Orders)
  /\ buyer \in [Orders -> Users]
  /\ Capacities \subseteq Nat /\ NoLimit \notin Nat
  /\ Fees \subseteq Nat
  /\ HoldTime \in Nat \ {0} /\ MaxTime \in Nat /\ EndDate \in Nat

VARIABLES
  now,            \* clock_timestamp() of the database
  capacity, fee,  \* Event.registrationAttendees, Event.registrationFee
  order,          \* TransactionReference and CheckoutReservation
  registration,   \* status of the order's Registration row, or "none"
  payment,        \* external: what was collected for the order
  scan            \* the registration a scanner has validated, or {}

event == <<capacity, fee>>
vars == <<now, event, order, registration, payment, scan>>

OrderType ==
  [status : {"NONE", "PENDING", "SUCCESS", "EXPIRED", "REFUND_REQUIRED"},
   hold : {"NONE", "HELD", "CONFIRMED", "EXPIRED", "CANCELLED"},
   sponsored : BOOLEAN, expiresAt : 0..MaxTime]
NoOrder == [status |-> "NONE", hold |-> "NONE", sponsored |-> FALSE, expiresAt |-> 0]

-----------------------------------------------------------------------------
Exists(o) == order[o].status # "NONE"
ActiveHold(o) == order[o].hold = "HELD" /\ order[o].expiresAt > now
Ended == EndDate <= now

(* The orders that occupy a place.  The three counts of the code never count *)
(* one order twice: only orders that are not sponsored have a registration.  *)
Occupants(excluded) ==
  {o \in Orders : \/ registration[o] = "active"
                  \/ order[o].hold = "CONFIRMED" /\ order[o].sponsored
                  \/ o \notin excluded /\ ActiveHold(o)}
registrationOccupancy(excluded) == Cardinality(Occupants(excluded))

HasActiveCheckout(user) == \E o \in Orders : buyer[o] = user /\ ActiveHold(o)
IsRegistered(user) == \E o \in Orders : buyer[o] = user /\ registration[o] = "active"

(* Wrong: trusts that an order keeps the place it once held. *)
HasSpaceOnceHeld(o) ==
  capacity # NoLimit /\ ~ Exists(o) => registrationOccupancy({o}) < capacity
HasSpace(o) == capacity # NoLimit => registrationOccupancy({o}) < capacity
(* Wrong: only looks for a duplicate when the order is placed. *)
MayAttendAtReservation(o, sponsored) ==
  /\ ~ Ended
  /\ ~ Exists(o) /\ ~ sponsored => ~ IsRegistered(buyer[o])
  /\ HasSpace(o)
MayAttend(o, sponsored) ==
  /\ ~ Ended
  /\ ~ sponsored => ~ IsRegistered(buyer[o])
  /\ HasSpace(o)

Init ==
  /\ now = 0
  /\ capacity \in Capacities \cup {NoLimit}
  /\ fee \in Fees
  /\ order = [o \in Orders |-> NoOrder]
  /\ registration = [o \in Orders |-> "none"]
  /\ payment = [o \in Orders |-> "none"]
  /\ scan = [s \in Scanners |-> {}]

-----------------------------------------------------------------------------
Admit(o, sponsored) ==
  registration' = IF sponsored THEN registration
                  ELSE [registration EXCEPT ![o] = "active"]

(* create: the row is written under the event lock, with a hold when there   *)
(* is something to pay and confirmed at once when there is not.              *)
Create(o, sponsored) ==
  /\ ~ Exists(o)
  /\ ~ HasActiveCheckout(buyer[o])
  /\ MayAttend(o, sponsored)
  /\ now + HoldTime <= MaxTime      \* bound: every hold can run out
  /\ \/ /\ fee > 0
        /\ order' = [order EXCEPT ![o] =
             [status |-> "PENDING", hold |-> "HELD", sponsored |-> sponsored,
              expiresAt |-> now + HoldTime]]
        /\ UNCHANGED registration
     \/ /\ fee = 0
        /\ order' = [order EXCEPT ![o] =
             [status |-> "SUCCESS", hold |-> "CONFIRMED", sponsored |-> sponsored,
              expiresAt |-> now]]
        /\ Admit(o, sponsored)
  /\ UNCHANGED <<now, event, payment, scan>>

(* External: the buyer pays, the right amount or another one. *)
Pay(o, result) ==
  /\ order[o].status \notin {"NONE", "SUCCESS"} /\ payment[o] = "none"
  /\ payment' = [payment EXCEPT ![o] = result]
  /\ UNCHANGED <<now, event, order, registration, scan>>

Release(rec) == IF rec.hold = "HELD" THEN "EXPIRED" ELSE rec.hold
(* Wrong: counts the order's own hold against it. *)
MustRefundWithOwnHold(o) ==
  \/ payment[o] = "paidOther"
  \/ order[o].hold = "CANCELLED"
  \/ Ended
  \/ (~ order[o].sponsored /\ IsRegistered(buyer[o]))
  \/ capacity # NoLimit /\ registrationOccupancy({}) >= capacity
MustRefund(o) ==
  \/ payment[o] = "paidOther"
  \/ order[o].hold = "CANCELLED"
  \/ ~ MayAttend(o, order[o].sponsored)
(* complete: a verified collection admits the buyer or is owed back. *)
Complete(o) ==
  /\ payment[o] # "none"
  /\ order[o].status \notin {"SUCCESS", "REFUND_REQUIRED"}
  /\ \/ /\ MustRefund(o)
        /\ order' = [order EXCEPT ![o] =
             [@ EXCEPT !.status = "REFUND_REQUIRED", !.hold = Release(order[o])]]
        /\ UNCHANGED registration
     \/ /\ ~ MustRefund(o)
        /\ order' = [order EXCEPT ![o] =
             [@ EXCEPT !.status = "SUCCESS", !.hold = "CONFIRMED"]]
        /\ Admit(o, order[o].sponsored)
  /\ UNCHANGED <<now, event, payment, scan>>

Cancel(o) ==
  /\ order[o].status \in {"PENDING", "EXPIRED"}
  /\ order' = [order EXCEPT ![o] = [@ EXCEPT !.status = "EXPIRED", !.hold = "CANCELLED"]]
  /\ UNCHANGED <<now, event, registration, payment, scan>>

(* Wrong: writes a status of the transaction into the reservation. *)
AfterExpiryAsFailed(o) ==
  IF order[o].hold = "HELD" /\ order[o].expiresAt <= now
  THEN [order[o] EXCEPT !.hold = "FAILED",
                        !.status = IF @ = "PENDING" THEN "EXPIRED" ELSE @]
  ELSE order[o]
AfterExpiry(o) ==
  IF order[o].hold = "HELD" /\ order[o].expiresAt <= now
  THEN [order[o] EXCEPT !.hold = "EXPIRED",
                        !.status = IF @ = "PENDING" THEN "EXPIRED" ELSE @]
  ELSE order[o]
ExpireHolds ==
  /\ order' = [o \in Orders |-> AfterExpiry(o)]
  /\ order' # order
  /\ UNCHANGED <<now, event, registration, payment, scan>>

-----------------------------------------------------------------------------
(***************************************************************************)
(* The Registration row: cancelled by the registrant or the organiser, and *)
(* scanned at the door.  A scanner reads the row, decides, and later       *)
(* updates it without looking again.                                       *)
(***************************************************************************)
CancelRegistration(o) ==
  /\ registration[o] # "none"
  /\ registration' = [registration EXCEPT ![o] = "cancelled"]
  /\ UNCHANGED <<now, event, order, payment, scan>>

Validate(s, o) ==
  /\ scan[s] = {}
  /\ registration[o] = "active" /\ now <= EndDate
  /\ scan' = [scan EXCEPT ![s] = {o}]
  /\ UNCHANGED <<now, event, order, registration, payment>>

MarkRegistrationAsUsed(s) ==
  \E o \in scan[s] :
    /\ registration' = [registration EXCEPT ![o] = "used"]
    /\ scan' = [scan EXCEPT ![s] = {}]
    /\ UNCHANGED <<now, event, order, payment>>

(* The organiser edits capacity and fee in one transaction. *)
EditEvent(c, f) ==
  /\ c = capacity \/ (c # NoLimit /\ registrationOccupancy({}) <= c)
  /\ capacity' = c /\ fee' = f
  /\ UNCHANGED <<now, order, registration, payment, scan>>

Tick ==
  /\ now < MaxTime
  /\ now' = now + 1
  /\ UNCHANGED <<event, order, registration, payment, scan>>

Next ==
  \/ \E o \in Orders :
       \/ \E sponsored \in BOOLEAN : Create(o, sponsored)
       \/ \E result \in {"paid", "paidOther"} : Pay(o, result)
       \/ Complete(o)
       \/ Cancel(o)
       \/ CancelRegistration(o)
       \/ \E s \in Scanners : Validate(s, o)
  \/ \E s \in Scanners : MarkRegistrationAsUsed(s)
  \/ \E c \in Capacities \cup {NoLimit}, f \in Fees : EditEvent(c, f)
  \/ ExpireHolds
  \/ Tick

Spec == Init /\ [][Next]_vars

-----------------------------------------------------------------------------
(* Every variable keeps its type. *)
TypeOK ==
  /\ now \in 0..MaxTime
  /\ capacity \in Capacities \cup {NoLimit}
  /\ fee \in Fees
  /\ order \in [Orders -> OrderType]
  /\ registration \in [Orders -> {"none", "active", "used", "cancelled"}]
  /\ payment \in [Orders -> {"none", "paid", "paidOther"}]
  /\ scan \in [Scanners -> SUBSET Orders]

(* Active registrations, sponsored places and live holds together never       *)
(* exceed the capacity, whatever the order of late payments, scans,           *)
(* cancellations and edits.                                                   *)
NoOverbooking == capacity # NoLimit => registrationOccupancy({}) <= capacity

(* A buyer never holds two active registrations of the event, also when an    *)
(* expired checkout is paid after a second one was confirmed.                 *)
NotTwiceRegistered ==
  \A o, p \in Orders :
    registration[o] = "active" /\ registration[p] = "active" /\ buyer[o] = buyer[p]
      => o = p

(* Exact payment applied while the hold is live and the event has not ended   *)
(* admits the buyer, unless the buyer is registered already.                  *)
HoldHonoured ==
  [][\A o \in Orders :
       /\ ActiveHold(o) /\ payment[o] = "paid" /\ ~ Ended
       /\ order[o].sponsored \/ ~ IsRegistered(buyer[o])
       => order'[o].status # "REFUND_REQUIRED"]_vars

(* README.md:291: "Ticket capacity and registration capacity edits cannot     *)
(* undercut booked/reserved spaces."  A registrant who has been let in still  *)
(* has a booked place; the count of the code only sees status "active".       *)
Booked ==
  {o \in Orders : \/ registration[o] \in {"active", "used"}
                  \/ order[o].hold = "CONFIRMED" /\ order[o].sponsored
                  \/ ActiveHold(o)}
EditKeepsBooked == [][capacity' # capacity => Cardinality(Booked) <= capacity']_vars
=============================================================================
