------------------------------ MODULE Checkout ------------------------------
(***************************************************************************)
(* Ticket checkout of one event: src/modules/checkout/checkout.service.ts, *)
(* checkout-inventory.ts, the request that drives it                       *)
(* (transaction-reference.service.ts, initiate and initializeCheckout) and *)
(* the organiser's edits of the same tickets (event.service.ts,            *)
(* event-ticket.service.ts).                                               *)
(*                                                                         *)
(* A database transaction that locks the Event row is one action, because  *)
(* every transaction that reads or writes the same rows takes that lock    *)
(* (or, for expireHolds, initializationFailed and markTransactionFailed,   *)
(* only flips rows still in the state it tests).  Everything a request     *)
(* does between two transactions is an action of its own, so requests,     *)
(* retries, the worker, the provider and the organiser interleave.         *)
(*                                                                         *)
(* An order is a TransactionReference with its CheckoutReservation.  Its   *)
(* identity is the pair (userId, idempotencyKey), which the table declares *)
(* unique.  A cart stands for the hashed request: two requests have the    *)
(* same requestHash iff they have the same cart.                           *)
(*                                                                         *)
(* A definition whose comment begins with "Wrong" is not part of the       *)
(* specification: it is the faulty variant of the definition that follows  *)
(* it, kept to show that a property notices the fault.                     *)
(***************************************************************************)
EXTENDS Integers, FiniteSets

CONSTANTS
  Users, Keys,     \* buyers and the idempotency keys they send
  Requests,        \* HTTP requests in flight at once (an attempt or a retry)
  Tickets,         \* the event's ticket types
  Carts,           \* the orders clients send: quantity per ticket type
  MaxTickets,      \* CHECKOUT_MAX_TICKETS
  HoldTime,        \* CHECKOUT_HOLD_SECONDS, in ticks of the clock
  Prices,          \* unit prices an organiser may set, 0 is free
  Quantities,      \* stock an organiser may set
  EndDates,        \* endDate values an organiser may set
  MaxTime          \* bound: the clock stops here

Orders == Users \X Keys

ASSUME CheckoutAssumption ==
  /\ IsFiniteSet(Users) /\ IsFiniteSet(Keys) /\ IsFiniteSet(Tickets)
  /\ MaxTickets \in Nat \ {0}
  /\ HoldTime \in Nat \ {0}
  /\ MaxTime \in Nat
  /\ Carts \subseteq [Tickets -> 0..MaxTickets]
  /\ Prices \subseteq Nat
  /\ Quantities \subseteq Nat
  /\ EndDates \subseteq Nat

VARIABLES
  now,        \* clock_timestamp() of the database
  endDate,    \* Event.endDate
  quantity,   \* EventTicket.quantity
  sold,       \* EventTicket.sold
  price,      \* EventTicket.updatedPrice ?? EventTicket.price
  shelf,      \* EventTicket.isVisible, or the row is deleted
  order,      \* TransactionReference and CheckoutReservation
  issued,     \* Ticket rows, by fulfillmentKey <<order, ticket type, number>>
  jobs,       \* CheckoutFulfillmentJob rows
  refunds,    \* CheckoutRefund rows
  payment,    \* external: the payment at the provider
  opened,     \* external: how often the provider was asked to open a payment
  request     \* control state of each HTTP request

clock == <<now, endDate>>
catalog == <<quantity, price, shelf>>
admissions == <<sold, issued, jobs>>
provider == <<payment, opened>>
vars == <<clock, catalog, order, admissions, refunds, provider, request>>

Statuses == {"NONE", "PENDING", "SUCCESS", "FAILED", "EXPIRED",
             "REFUND_REQUIRED", "REFUNDED"}
InitStatuses == {"NOT_STARTED", "INITIALIZING", "READY", "FAILED"}
HoldStatuses == {"NONE", "HELD", "CONFIRMED", "EXPIRED", "CANCELLED"}
Shelves == {"visible", "hidden", "deleted"}
(* "open": the provider has the payment but no buyer has its link; "link":   *)
(* the buyer can pay; "paid": the charge was collected; "paidOther": an      *)
(* amount that is not the order's was.                                       *)
Payments == {"none", "open", "link", "paid", "paidOther"}
EmptyCart == [t \in Tickets |-> 0]
OrderType == [status : Statuses, init : InitStatuses, hold : HoldStatuses,
              cart : [Tickets -> 0..MaxTickets], expiresAt : 0..MaxTime,
              fulfilled : BOOLEAN]
NoOrder == [status |-> "NONE", init |-> "NOT_STARTED", hold |-> "NONE",
            cart |-> EmptyCart, expiresAt |-> 0,
            fulfilled |-> FALSE]

(* A request in flight: what it is asked for and the prices it read, then the *)
(* order it works on and whether it read a link for it.                       *)
Stages == {"created", "loaded", "calling", "answered", "failing"}
Idle == [stage |-> "idle"]
RequestType ==
  {Idle}
    \cup [stage : {"priced"}, order : Orders, cart : [Tickets -> 0..MaxTickets],
          seen : [Tickets -> Nat]]
    \cup [stage : Stages, order : Orders, link : BOOLEAN]

-----------------------------------------------------------------------------
(***************************************************************************)
(* Inventory: checkout-inventory.ts.                                       *)
(***************************************************************************)
Exists(o) == order[o].status # "NONE"
ActiveHold(o) == order[o].hold = "HELD" /\ order[o].expiresAt > now

Units(o, t) == {<<o, t, n>> : n \in 1..order[o].cart[t]}
(* Units of t under active holds of orders other than own: the sum the code  *)
(* asks the database for, as the number of units.                            *)
HeldUnits(t, excluded) ==
  UNION {Units(o, t) : o \in {p \in Orders \ excluded : ActiveHold(p)}}
reservedTicketQuantity(t, excluded) == Cardinality(HeldUnits(t, excluded))

IssuedUnits(o, t) == {u \in issued : u[1] = o /\ u[2] = t}
quantityToIssue(o, t) == order[o].cart[t] - Cardinality(IssuedUnits(o, t))

(* Wrong: only counts what is sold. *)
RoomIgnoringHolds(t, excluded, wanted) == quantity[t] - sold[t] >= wanted
Room(t, excluded, wanted) ==
  quantity[t] - sold[t] - reservedTicketQuantity(t, excluded) >= wanted

Ended == endDate <= now
Wanted(cart) == {t \in Tickets : cart[t] > 0}
CartUnits(cart) == {u \in Tickets \X (1..MaxTickets) : u[2] <= cart[u[1]]}
validateQuantity(cart) == Cardinality(CartUnits(cart)) \in 1..MaxTickets

(* Wrong: forgets an order that ended. *)
FindLiveOrder(o) == order[o].status \in {"PENDING", "SUCCESS"}
(* The lookup by (userId, idempotencyKey), whatever became of the order. *)
FindReplay(o) == Exists(o)

Payable(o) == order[o].status = "PENDING" /\ ~ (order[o].hold = "HELD" /\ ~ ActiveHold(o))
(* format returns a link only for a READY order that can still be paid. *)
HasLink(o) == order[o].init = "READY" /\ Payable(o)
(* The buyer reads the link: from then on the payment can be made. *)
Deliver(o) == [payment EXCEPT ![o] = IF @ = "open" THEN "link" ELSE @]

-----------------------------------------------------------------------------
Init ==
  /\ now = 0
  /\ endDate \in EndDates
  /\ quantity \in [Tickets -> Quantities]
  /\ sold = [t \in Tickets |-> 0]
  /\ price \in [Tickets -> Prices]
  /\ shelf = [t \in Tickets |-> "visible"]
  /\ order = [o \in Orders |-> NoOrder]
  /\ issued = {} /\ jobs = {} /\ refunds = {}
  /\ payment = [o \in Orders |-> "none"]
  /\ opened = [o \in Orders |-> 0]
  /\ request = [r \in Requests |-> Idle]

-----------------------------------------------------------------------------
(***************************************************************************)
(* What a transaction does to an order's rows.                             *)
(***************************************************************************)
(* Wrong: counts an order, not its tickets. *)
IssueCountedOnce(o, plan) ==
  LET fresh == {u \in {o} \X Tickets \X (1..MaxTickets) :
                  u[3] - Cardinality(IssuedUnits(o, u[2])) \in 1..plan[u[2]]}
  IN /\ o \notin jobs
     /\ issued' = issued \cup fresh
     /\ sold' = [t \in Tickets |-> sold[t] + (IF plan[t] > 0 THEN 1 ELSE 0)]
     /\ jobs' = jobs \cup {o}
(* issue: admissions, sold counts, reservation and job commit together; the  *)
(* unique fulfillmentKey and the job's primary key abort the transaction.    *)
Issue(o, plan) ==
  LET fresh == {u \in {o} \X Tickets \X (1..MaxTickets) :
                  u[3] - Cardinality(IssuedUnits(o, u[2])) \in 1..plan[u[2]]}
  IN /\ o \notin jobs
     /\ fresh \cap issued = {}
     /\ issued' = issued \cup fresh
     /\ sold' = [t \in Tickets |-> sold[t] + plan[t]]
     /\ jobs' = jobs \cup {o}

HasActiveCheckout(user) == \E o \in Orders : o[1] = user /\ ActiveHold(o)
OnSale(t, o, cart) == ~ Ended /\ shelf[t] = "visible" /\ Room(t, {o}, cart[t])
(* Wrong: lets a buyer hold two checkouts. *)
CanReserveTwice(o, cart, seen) ==
  \A t \in Wanted(cart) : OnSale(t, o, cart) /\ price[t] = seen[t]
(* Wrong: trusts the price read before the lock. *)
CanReserveAtAnyPrice(o, cart, seen) ==
  ~ HasActiveCheckout(o[1]) /\ \A t \in Wanted(cart) : OnSale(t, o, cart)
(* The checks of create, made under the event lock. *)
CanReserve(o, cart, seen) ==
  /\ ~ HasActiveCheckout(o[1])
  /\ \A t \in Wanted(cart) : OnSale(t, o, cart) /\ price[t] = seen[t]

Costs(cart, seen) == \E t \in Wanted(cart) : seen[t] > 0
PaidOrder(cart) ==
  [status |-> "PENDING", init |-> "NOT_STARTED", hold |-> "HELD", cart |-> cart,
   expiresAt |-> now + HoldTime, fulfilled |-> FALSE]
FreeOrder(cart) ==
  [status |-> "SUCCESS", init |-> "READY", hold |-> "CONFIRMED", cart |-> cart,
   expiresAt |-> now, fulfilled |-> TRUE]

(* Wrong: writes the reservation's status into the transaction. *)
ExpireAsCancelled(rec) == IF rec.status = "PENDING" THEN "CANCELLED" ELSE rec.status
Expire(rec) == IF rec.status = "PENDING" THEN "EXPIRED" ELSE rec.status
Release(rec) == IF rec.hold = "HELD" THEN "EXPIRED" ELSE rec.hold

-----------------------------------------------------------------------------
(***************************************************************************)
(* The request.                                                            *)
(***************************************************************************)
At(r, stage) == request[r].stage = stage
Goto(r, stage) == request' = [request EXCEPT ![r] = [@ EXCEPT !.stage = stage]]
Done(r) == request' = [request EXCEPT ![r] = Idle]

(* initiate up to create: a replay of a known key answers with that order,   *)
(* a different cart under it is refused; otherwise prices and visibility are *)
(* read, outside any transaction.                                            *)
Start(r, o, cart) ==
  /\ At(r, "idle")
  /\ validateQuantity(cart)
  /\ \/ /\ FindReplay(o) /\ order[o].cart = cart
        /\ payment' = IF HasLink(o) THEN Deliver(o) ELSE payment
        /\ UNCHANGED request
     \/ /\ ~ FindReplay(o) /\ ~ Ended
        /\ \A t \in Wanted(cart) : shelf[t] = "visible"
        /\ request' = [request EXCEPT ![r] =
             [stage |-> "priced", order |-> o, cart |-> cart,
              seen |-> [t \in Tickets |-> IF cart[t] > 0 THEN price[t] ELSE 0]]]
        /\ UNCHANGED payment
  /\ UNCHANGED <<clock, catalog, order, admissions, refunds, opened>>

(* create: one transaction, serialised by the advisory lock and event lock.  *)
Create(r) ==
  LET o == request[r].order
      cart == request[r].cart
      seen == request[r].seen
      created == [stage |-> "created", order |-> o, link |-> FALSE]
  IN /\ At(r, "priced")
     /\ \/ /\ FindReplay(o) /\ order[o].cart = cart
           /\ request' = [request EXCEPT ![r] = created]
           /\ UNCHANGED <<catalog, order, admissions, refunds>>
        \/ /\ ~ FindReplay(o) /\ CanReserve(o, cart, seen)
           /\ now + HoldTime <= MaxTime    \* bound: every hold can run out
           /\ IF Costs(cart, seen)
              THEN /\ order' = [order EXCEPT ![o] = PaidOrder(cart)]
                   /\ UNCHANGED admissions
              ELSE /\ order' = [order EXCEPT ![o] = FreeOrder(cart)]
                   /\ Issue(o, cart)
           /\ request' = [request EXCEPT ![r] = created]
           /\ UNCHANGED <<catalog, refunds>>
        \/ /\ IF FindReplay(o) THEN order[o].cart # cart ELSE ~ CanReserve(o, cart, seen)
           /\ Done(r)
           /\ UNCHANGED <<catalog, order, admissions, refunds>>
     /\ UNCHANGED <<clock, provider>>

(* initializeCheckout reads the order before it claims the initialization. *)
Load(r) ==
  /\ At(r, "created")
  /\ request' = [request EXCEPT ![r] =
       [@ EXCEPT !.stage = "loaded", !.link = HasLink(request[r].order)]]
  /\ UNCHANGED <<clock, catalog, order, admissions, refunds, provider>>

(* Wrong: takes over an initialization that has not finished. *)
ClaimableAgain(o) == order[o].init # "READY" /\ order[o].status = "PENDING"
Claimable(o) == order[o].init = "NOT_STARTED" /\ order[o].status = "PENDING"
ClaimInitialization(r) ==
  LET o == request[r].order
  IN /\ At(r, "loaded")
     /\ \/ /\ Claimable(o)
           /\ order' = [order EXCEPT ![o] = [@ EXCEPT !.init = "INITIALIZING"]]
           /\ Goto(r, "calling")
           /\ UNCHANGED payment
        \/ /\ ~ Claimable(o)
           /\ payment' = IF request[r].link THEN Deliver(o) ELSE payment
           /\ Done(r)
           /\ UNCHANGED order
     /\ UNCHANGED <<clock, catalog, admissions, refunds, opened>>

(* External: the provider opens the payment, refuses, or the call fails. *)
CallProvider(r) ==
  LET o == request[r].order
  IN /\ At(r, "calling")
     /\ opened' = [opened EXCEPT ![o] = @ + 1]
     /\ \/ /\ payment' = [payment EXCEPT ![o] = IF @ = "none" THEN "open" ELSE @]
           /\ Goto(r, "answered")
        \/ Goto(r, "failing") /\ UNCHANGED payment
     /\ UNCHANGED <<clock, catalog, order, admissions, refunds>>

(* finishInitialization overwrites whatever happened meanwhile; its own      *)
(* failure is caught like the provider's.                                    *)
FinishInitialization(r) ==
  LET o == request[r].order
  IN /\ At(r, "answered")
     /\ \/ /\ order' = [order EXCEPT ![o] = [@ EXCEPT !.init = "READY"]]
           /\ payment' = IF Payable(o) THEN Deliver(o) ELSE payment
           /\ Done(r)
        \/ Goto(r, "failing") /\ UNCHANGED <<order, payment>>
     /\ UNCHANGED <<clock, catalog, admissions, refunds, opened>>

AfterInitializationFailed(o) ==
  [order[o] EXCEPT !.status = Expire(order[o]),
                   !.init = IF order[o].status = "PENDING" THEN "FAILED" ELSE @,
                   !.hold = Release(order[o])]
InitializationFailed(r) ==
  LET o == request[r].order
  IN /\ At(r, "failing")
     /\ order' = [order EXCEPT ![o] = AfterInitializationFailed(o)]
     /\ Done(r)
     /\ UNCHANGED <<clock, catalog, admissions, refunds, provider>>

(* The server stops between two steps of the request. *)
Crash(r) ==
  /\ ~ At(r, "idle")
  /\ Done(r)
  /\ UNCHANGED <<clock, catalog, order, admissions, refunds, provider>>

-----------------------------------------------------------------------------
(***************************************************************************)
(* Payment, cancellation and expiry.                                       *)
(***************************************************************************)
(* External: the buyer pays through the link. *)
Pay(o, result) ==
  /\ payment[o] = "link"
  /\ payment' = [payment EXCEPT ![o] = result]
  /\ UNCHANGED <<clock, catalog, order, admissions, refunds, opened, request>>

CapacityFor(o) ==
  /\ ~ Ended
  /\ \A t \in Wanted(order[o].cart) : Room(t, {o}, quantityToIssue(o, t))

Settled == {"SUCCESS", "REFUND_REQUIRED", "REFUNDED"}
(* Wrong: a payment of an order that ended is dropped. *)
CanCompletePending(o) ==
  payment[o] \in {"paid", "paidOther"} /\ order[o].status = "PENDING"
CanComplete(o) == payment[o] \in {"paid", "paidOther"} /\ order[o].status \notin Settled
(* Wrong: admits a cancelled order that is paid. *)
MustRefundIfNoRoom(o) == payment[o] = "paidOther" \/ ~ CapacityFor(o)
(* Wrong: counts the order's own hold against it. *)
MustRefundUnlessRoomForAll(o) ==
  \/ payment[o] = "paidOther"
  \/ order[o].hold = "CANCELLED"
  \/ Ended
  \/ \E t \in Wanted(order[o].cart) : ~ Room(t, {}, quantityToIssue(o, t))
MustRefund(o) ==
  \/ payment[o] = "paidOther"
  \/ order[o].hold = "CANCELLED"
  \/ ~ CapacityFor(o)

(* complete: called for every verified collection, by the webhook, by a      *)
(* redelivery of it or by polling; a settled order is returned unchanged.    *)
Complete(o) ==
  /\ CanComplete(o)
  /\ \/ /\ MustRefund(o)
        /\ o \notin refunds
        /\ refunds' = refunds \cup {o}
        /\ order' = [order EXCEPT ![o] =
             [@ EXCEPT !.status = "REFUND_REQUIRED", !.hold = Release(order[o])]]
        /\ UNCHANGED admissions
     \/ /\ ~ MustRefund(o)
        /\ Issue(o, [t \in Tickets |-> quantityToIssue(o, t)])
        /\ order' = [order EXCEPT ![o] =
             [@ EXCEPT !.status = "SUCCESS", !.hold = "CONFIRMED", !.fulfilled = TRUE]]
        /\ UNCHANGED refunds
  /\ UNCHANGED <<clock, catalog, provider, request>>

(* The refund worker or an operator confirms the provider's refund. *)
ConfirmRefund(o) ==
  /\ order[o].status = "REFUND_REQUIRED"
  /\ order' = [order EXCEPT ![o] = [@ EXCEPT !.status = "REFUNDED"]]
  /\ UNCHANGED <<clock, catalog, admissions, refunds, provider, request>>

(* Wrong: cancels an order that is owed a refund. *)
CancellableWhenUnpaid(o) == Exists(o) /\ order[o].status # "SUCCESS"
Cancellable(o) == Exists(o) /\ ~ order[o].fulfilled /\ o \notin refunds
Cancel(o) ==
  /\ Cancellable(o)
  /\ order' = [order EXCEPT ![o] = [@ EXCEPT !.status = "EXPIRED", !.hold = "CANCELLED"]]
  /\ UNCHANGED <<clock, catalog, admissions, refunds, provider, request>>

Overdue(o) == order[o].hold = "HELD" /\ order[o].expiresAt <= now
(* Wrong: releases the reservation first, so the order no longer matches. *)
AfterExpiryHoldsFirst(o) ==
  IF Overdue(o) THEN [order[o] EXCEPT !.hold = "EXPIRED"] ELSE order[o]
AfterExpiry(o) ==
  IF Overdue(o) THEN [order[o] EXCEPT !.status = Expire(order[o]), !.hold = "EXPIRED"]
  ELSE order[o]
(* The worker's tick; takes no event lock. *)
ExpireHolds ==
  /\ \E o \in Orders : Overdue(o)
  /\ order' = [o \in Orders |-> AfterExpiry(o)]
  /\ UNCHANGED <<clock, catalog, admissions, refunds, provider, request>>

(* Polling a bank transfer that the provider reports failed. *)
MarkTransactionFailed(o) ==
  /\ payment[o] \in {"open", "link"}
  /\ order[o].status = "PENDING"
  /\ order' = [order EXCEPT ![o] =
       [@ EXCEPT !.status = "FAILED", !.hold = Release(order[o])]]
  /\ UNCHANGED <<clock, catalog, admissions, refunds, provider, request>>

-----------------------------------------------------------------------------
(***************************************************************************)
(* The organiser's edits, each under the event lock, and time.             *)
(***************************************************************************)
assertTicketCapacityEdit(t, q) == q - sold[t] >= reservedTicketQuantity(t, {})

EditTicket(t, q, p, s) ==
  /\ shelf[t] # "deleted"
  /\ q # quantity[t] => assertTicketCapacityEdit(t, q)
  /\ quantity' = [quantity EXCEPT ![t] = q]
  /\ price' = [price EXCEPT ![t] = p]
  /\ shelf' = [shelf EXCEPT ![t] = s]
  /\ UNCHANGED <<clock, order, admissions, refunds, provider, request>>

(* Takes no lock: the foreign keys of reservation items and tickets refuse. *)
RemoveTicket(t) ==
  /\ shelf[t] # "deleted"
  /\ \A o \in Orders : order[o].cart[t] = 0 /\ IssuedUnits(o, t) = {}
  /\ shelf' = [shelf EXCEPT ![t] = "deleted"]
  /\ UNCHANGED <<clock, quantity, price, order, admissions, refunds, provider, request>>

EditEndDate(e) ==
  /\ endDate' = e
  /\ UNCHANGED <<now, catalog, order, admissions, refunds, provider, request>>

Tick ==
  /\ now < MaxTime
  /\ now' = now + 1
  /\ UNCHANGED <<endDate, catalog, order, admissions, refunds, provider, request>>

-----------------------------------------------------------------------------
RequestStep(r) ==
  \/ \E o \in Orders, cart \in Carts : Start(r, o, cart)
  \/ Create(r)
  \/ Load(r)
  \/ ClaimInitialization(r)
  \/ CallProvider(r)
  \/ FinishInitialization(r)
  \/ InitializationFailed(r)
  \/ Crash(r)

OrderStep(o) ==
  \/ \E result \in {"paid", "paidOther"} : Pay(o, result)
  \/ Complete(o)
  \/ ConfirmRefund(o)
  \/ Cancel(o)
  \/ MarkTransactionFailed(o)

OrganiserStep ==
  \/ \E t \in Tickets, q \in Quantities, p \in Prices, s \in {"visible", "hidden"} :
       EditTicket(t, q, p, s)
  \/ \E t \in Tickets : RemoveTicket(t)
  \/ \E e \in EndDates : EditEndDate(e)

Next ==
  \/ \E r \in Requests : RequestStep(r)
  \/ \E o \in Orders : OrderStep(o)
  \/ OrganiserStep
  \/ ExpireHolds
  \/ Tick

Spec == Init /\ [][Next]_vars

(* The worker runs every ten seconds, a collection is redelivered or polled  *)
(* until it is settled, and time passes; buyers and requests owe nothing.    *)
FairSpec ==
  /\ Spec
  /\ WF_vars(Tick)
  /\ WF_vars(ExpireHolds)
  /\ \A o \in Orders : WF_vars(Complete(o))

-----------------------------------------------------------------------------
(***************************************************************************)
(* Properties.                                                             *)
(***************************************************************************)
(* Every variable keeps its type; in particular an order's status, hold and  *)
(* initialization only take values of their own enumeration.                 *)
TypeOK ==
  /\ now \in 0..MaxTime
  /\ endDate \in Nat
  /\ quantity \in [Tickets -> Nat]
  /\ sold \in [Tickets -> Nat]
  /\ price \in [Tickets -> Nat]
  /\ shelf \in [Tickets -> Shelves]
  /\ order \in [Orders -> OrderType]
  /\ issued \subseteq Orders \X Tickets \X (1..MaxTickets)
  /\ jobs \subseteq Orders
  /\ refunds \subseteq Orders
  /\ payment \in [Orders -> Payments]
  /\ opened \in [Orders -> Nat]
  /\ request \in [Requests -> RequestType]

(* Tickets sold and tickets under a live hold never exceed the stock, through *)
(* late payments, expiry by the clock alone and the organiser's edits.        *)
NoOversell ==
  \A t \in Tickets : sold[t] + reservedTicketQuantity(t, {}) <= quantity[t]

(* EventTicket.sold counts the Ticket rows of that type: no redelivered       *)
(* collection issues twice or counts twice.                                   *)
SoldMatchesIssued ==
  \A t \in Tickets : sold[t] = Cardinality({u \in issued : u[2] = t})

(* An order's rows tell one story.  Admissions, reservation, payment state    *)
(* and confirmation job commit together: SUCCESS has its whole cart issued,   *)
(* a confirmed reservation and a job, and nothing else has any of them; a     *)
(* refund exists exactly for the orders owed one.                             *)
OutcomeConsistent ==
  \A o \in Orders :
    /\ order[o].status = "SUCCESS" <=> order[o].hold = "CONFIRMED"
    /\ order[o].status = "SUCCESS" <=> o \in jobs
    /\ order[o].status = "SUCCESS" <=> order[o].fulfilled
    /\ \A t \in Tickets :
         IssuedUnits(o, t) = IF order[o].status = "SUCCESS" THEN Units(o, t) ELSE {}
    /\ order[o].status \in {"REFUND_REQUIRED", "REFUNDED"} <=> o \in refunds
    /\ order[o].status \in {"FAILED", "EXPIRED", "REFUND_REQUIRED", "REFUNDED"} =>
         order[o].hold \in {"EXPIRED", "CANCELLED"}

(* "one active checkout per buyer/event", under concurrent requests with      *)
(* different keys.                                                            *)
OneActiveHold ==
  \A o, p \in Orders : ActiveHold(o) /\ ActiveHold(p) /\ o[1] = p[1] => o = p

(* However often a request is retried and wherever the server stops, the      *)
(* provider is asked at most once to open a payment for an order.             *)
OpenedOnce == \A o \in Orders : opened[o] <= 1

(* A buyer has one checkout at a time, whatever keys the requests carry, and  *)
(* each order one payment at the provider.                                    *)
RequestsSafe == OneActiveHold /\ OpenedOnce

(* Exact payment that is applied while the hold is live and the event has not *)
(* ended is never turned into a refund: that is what the hold was for.        *)
HoldHonoured ==
  [][\A o \in Orders :
       ActiveHold(o) /\ payment[o] = "paid" /\ ~ Ended => o \notin refunds' \ refunds]_vars

(* "Refreshing or reopening checkout never extends its deadline", and the     *)
(* order under a key stays the one first placed; of every step.               *)
DeadlineFixed ==
  \A o \in Orders : Exists(o) => /\ order'[o].expiresAt = order[o].expiresAt
                                 /\ order'[o].cart = order[o].cart

(* An order is admitted without payment only if every ticket in it is free at *)
(* that moment, although prices are read before the lock is taken; of every   *)
(* step.                                                                      *)
FreeIsFree ==
  \A o \in Orders, t \in Tickets :
    payment[o] = "none" /\ o \in jobs' \ jobs /\ order'[o].cart[t] > 0
      => price[t] = 0

(* No retry and no reopening moves an order's deadline or its cart, and no    *)
(* ticket is given away because a price was read before the lock was taken.   *)
RequestsKept == [][DeadlineFixed /\ FreeIsFree]_vars

(* No order stays pending forever: the worker ends it when its hold is over.  *)
PendingResolves == \A o \in Orders : order[o].status = "PENDING" ~> order[o].status # "PENDING"

(* A collected payment ends in admissions or in a refund, also when the order *)
(* had expired, failed or been cancelled before the collection was applied.   *)
PaidResolves ==
  \A o \in Orders :
    payment[o] \in {"paid", "paidOther"} ~> order[o].status \in Settled
=============================================================================
