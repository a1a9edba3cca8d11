--------------------------- MODULE CheckoutProofs ---------------------------
(***************************************************************************)
(* Checkout's theorems, for any number of buyers, keys, requests, ticket   *)
(* types, prices and stocks, and that Checkout implements TicketSale.      *)
(*                                                                         *)
(* NoOversell is not inductive alone.  Issue adds an order's plan to sold, *)
(* so the plan must not be negative: an order without a job has no ticket  *)
(* (Untouched).  A free order is admitted without ever being held, so the  *)
(* place it takes must not already count as a hold: an order that does not *)
(* exist has no reservation (Untouched again).                             *)
(*                                                                         *)
(* The other theorems argue about rows.  RowSteps sorts the actions by     *)
(* what they do to the order, admission and refund rows (RowStep); every   *)
(* later proof splits on that and not on the actions.                      *)
(* OutcomeConsistent needs that a pending order still holds its tickets    *)
(* (PendingHolds: else a settled order's hold could be anything) and that  *)
(* requests and payments belong to orders that exist (Attached: else a     *)
(* late step would write the rows of an order never placed).  OpenedOnce   *)
(* needs that only one request calls the provider for an order (OneCaller).*)
(*                                                                         *)
(* For the refinement, what the abstract sale has promised is counted by   *)
(* the tickets issued and the units under live holds (PromisedCount), so   *)
(* the code's sum, sold + held, is the sale's.                             *)
(***************************************************************************)
EXTENDS CheckoutRefinement, CountingLemmas

Untouched ==
  /\ \A o \in Orders : order[o].status = "NONE" => order[o].hold = "NONE"
  /\ \A u \in issued : u[1] \in jobs

SaleInv == TypeOK /\ Untouched /\ NoOversell

USE CheckoutAssumption

-----------------------------------------------------------------------------
(* An order without a job has nothing issued: its plan is its whole cart. *)
LEMMA PlanIsCart ==
  ASSUME TypeOK, Untouched, NEW o \in Orders, o \notin jobs, NEW t \in Tickets
  PROVE  /\ IssuedUnits(o, t) = {}
         /\ Cardinality(IssuedUnits(o, t)) = 0
         /\ quantityToIssue(o, t) = order[o].cart[t]
<1>1. IssuedUnits(o, t) = {}
  BY DEF Untouched, IssuedUnits
<1>2. Cardinality(IssuedUnits(o, t)) = 0
  BY <1>1, FS_EmptySet
<1>3. order[o].cart[t] \in Int
  BY DEF TypeOK, OrderType
<1> QED BY <1>1, <1>2, <1>3 DEF quantityToIssue

(* What Issue does for an order without a job. *)
LEMMA IssueEffect ==
  ASSUME TypeOK, Untouched, NEW o \in Orders,
         NEW plan \in [Tickets -> 0..MaxTickets], Issue(o, plan)
  PROVE  /\ o \notin jobs
         /\ jobs' = jobs \cup {o}
         /\ issued' = issued \cup {u \in {o} \X Tickets \X (1..MaxTickets) : u[3] <= plan[u[2]]}
         /\ sold' = [t \in Tickets |-> sold[t] + plan[t]]
         /\ sold' \in [Tickets -> Nat]
<1>1. o \notin jobs /\ jobs' = jobs \cup {o}
  BY DEF Issue
<1>2. \A t \in Tickets : Cardinality(IssuedUnits(o, t)) = 0
  BY <1>1, PlanIsCart
<1>3. {u \in {o} \X Tickets \X (1..MaxTickets) :
          u[3] - Cardinality(IssuedUnits(o, u[2])) \in 1..plan[u[2]]}
      = {u \in {o} \X Tickets \X (1..MaxTickets) : u[3] <= plan[u[2]]}
  <2>1. ASSUME NEW u \in {o} \X Tickets \X (1..MaxTickets)
        PROVE  u[3] - Cardinality(IssuedUnits(o, u[2])) \in 1..plan[u[2]] <=> u[3] <= plan[u[2]]
    <3>1. u[2] \in Tickets /\ u[3] \in 1..MaxTickets
      OBVIOUS
    <3>2. Cardinality(IssuedUnits(o, u[2])) = 0 /\ plan[u[2]] \in 0..MaxTickets
      BY <1>2, <3>1
    <3> QED BY <3>1, <3>2
  <2> QED BY <2>1
<1>4. sold' = [t \in Tickets |-> sold[t] + plan[t]]
  BY DEF Issue
<1>5. sold' \in [Tickets -> Nat]
  BY <1>4 DEF TypeOK
<1>6. issued' = issued \cup {u \in {o} \X Tickets \X (1..MaxTickets) : u[3] <= plan[u[2]]}
  BY <1>3 DEF Issue
<1> QED BY <1>1, <1>4, <1>5, <1>6

-----------------------------------------------------------------------------
(* Types. *)
LEMMA RequestShapes ==
  ASSUME NEW rq \in RequestType
  PROVE  /\ rq.stage = "priced" =>
              /\ rq.order \in Orders
              /\ rq.cart \in [Tickets -> 0..MaxTickets]
              /\ rq.seen \in [Tickets -> Nat]
         /\ rq.stage \in Stages => rq \in [stage : Stages, order : Orders, link : BOOLEAN]
<1>1. CASE rq = Idle
  BY <1>1 DEF Idle, Stages
<1>2. CASE rq \in [stage : {"priced"}, order : Orders, cart : [Tickets -> 0..MaxTickets],
                   seen : [Tickets -> Nat]]
  BY <1>2 DEF Stages
<1>3. CASE rq \in [stage : Stages, order : Orders, link : BOOLEAN]
  BY <1>3 DEF Stages
<1> QED BY <1>1, <1>2, <1>3 DEF RequestType

LEMMA RequestMoves ==
  ASSUME NEW rq \in RequestType, rq.stage \in Stages, NEW s \in Stages, NEW l \in BOOLEAN
  PROVE  /\ rq.order \in Orders
         /\ [rq EXCEPT !.stage = s] \in RequestType
         /\ [rq EXCEPT !.stage = s, !.link = l] \in RequestType
<1>1. rq \in [stage : Stages, order : Orders, link : BOOLEAN]
  BY RequestShapes
<1> QED BY <1>1 DEF RequestType

(* An order stays an order when its columns take values of their own kinds. *)
LEMMA OrderColumns ==
  ASSUME NEW rec \in OrderType, NEW s \in Statuses, NEW i \in InitStatuses,
         NEW h \in HoldStatuses, NEW f \in BOOLEAN
  PROVE  /\ [rec EXCEPT !.status = s] \in OrderType
         /\ [rec EXCEPT !.init = i] \in OrderType
         /\ [rec EXCEPT !.status = s, !.hold = h] \in OrderType
         /\ [rec EXCEPT !.status = s, !.init = i, !.hold = h] \in OrderType
         /\ [rec EXCEPT !.status = s, !.hold = h, !.fulfilled = f] \in OrderType
BY DEF OrderType

(* Expiring and releasing stay within the two enumerations. *)
LEMMA ExpireRelease ==
  ASSUME NEW rec \in OrderType
  PROVE  /\ Expire(rec) \in Statuses
         /\ Release(rec) \in HoldStatuses
         /\ rec.init \in InitStatuses
BY DEF Expire, Release, OrderType, Statuses, HoldStatuses

LEMMA TypeStep ==
  ASSUME TypeOK, Untouched, [Next]_vars
  PROVE  TypeOK'
<1> USE DEF TypeOK
<1> USE DEF clock, catalog, admissions, provider
<1>1. ASSUME NEW r \in Requests, NEW o \in Orders, NEW cart \in Carts, Start(r, o, cart)
      PROVE  TypeOK'
  BY <1>1 DEF Start, At, Deliver, Payments, RequestType
<1>2. ASSUME NEW r \in Requests, Create(r)
      PROVE  TypeOK'
  <2> DEFINE o == request[r].order
             cart == request[r].cart
             seen == request[r].seen
  <2>1. /\ o \in Orders
        /\ cart \in [Tickets -> 0..MaxTickets]
        /\ seen \in [Tickets -> Nat]
    BY <1>2, RequestShapes DEF Create, At
  <2>2. request' \in [Requests -> RequestType]
    <3>1. [stage |-> "created", order |-> o, link |-> FALSE] \in RequestType
      BY <2>1 DEF RequestType, Stages
    <3>2. Idle \in RequestType
      BY DEF RequestType
    <3> QED BY <1>2, <3>1, <3>2 DEF Create, Done
  <2>3. /\ <<now, endDate, quantity, price, shelf, refunds, payment, opened>>' =
           <<now, endDate, quantity, price, shelf, refunds, payment, opened>>
    BY <1>2 DEF Create
  <2>4. CASE UNCHANGED <<order, admissions>>
    BY <2>2, <2>3, <2>4
  <2>5. CASE /\ now + HoldTime <= MaxTime
             /\ order' = [order EXCEPT ![o] = PaidOrder(cart)]
             /\ UNCHANGED admissions
    <3>1. PaidOrder(cart) \in OrderType
      BY <2>1, <2>5 DEF PaidOrder, OrderType, Statuses, InitStatuses, HoldStatuses
    <3> QED BY <2>1, <2>2, <2>3, <2>5, <3>1
  <2>6. CASE /\ order' = [order EXCEPT ![o] = FreeOrder(cart)]
             /\ Issue(o, cart)
    <3>1. FreeOrder(cart) \in OrderType
      BY <2>1 DEF FreeOrder, OrderType, Statuses, InitStatuses, HoldStatuses
    <3>2. /\ sold' \in [Tickets -> Nat]
          /\ issued' \subseteq Orders \X Tickets \X (1..MaxTickets)
          /\ jobs' \subseteq Orders
      BY <2>1, <2>6, IssueEffect
    <3> QED BY <2>1, <2>2, <2>3, <2>6, <3>1, <3>2
  <2> QED BY <1>2, <2>4, <2>5, <2>6 DEF Create
<1>3. ASSUME NEW r \in Requests, Load(r)
      PROVE  TypeOK'
  <2>1. HasLink(request[r].order) \in BOOLEAN
    BY DEF HasLink
  <2>2. request[r].stage \in Stages
    BY <1>3 DEF Load, At, Stages
  <2>3. [request[r] EXCEPT !.stage = "loaded", !.link = HasLink(request[r].order)] \in RequestType
    BY <2>1, <2>2, RequestMoves DEF Stages
  <2> QED BY <1>3, <2>3 DEF Load
<1>4. ASSUME NEW r \in Requests, ClaimInitialization(r)
      PROVE  TypeOK'
  <2>1. request[r].order \in Orders
    BY <1>4, RequestShapes DEF ClaimInitialization, At, Stages
  <2>2. request' \in [Requests -> RequestType]
    <3>1. request[r].stage \in Stages
      BY <1>4 DEF ClaimInitialization, At, Stages
    <3>2. \A s \in Stages : [request[r] EXCEPT !.stage = s] \in RequestType
      BY <3>1, RequestMoves
    <3>3. Idle \in RequestType
      BY DEF RequestType
    <3> QED BY <1>4, <3>2, <3>3 DEF ClaimInitialization, Goto, Done, Stages
  <2>3. order' \in [Orders -> OrderType]
    <3>1. [order[request[r].order] EXCEPT !.init = "INITIALIZING"] \in OrderType
      BY <2>1, OrderColumns DEF InitStatuses, Statuses, HoldStatuses
    <3> QED BY <1>4, <2>1, <3>1 DEF ClaimInitialization
  <2>4. payment' \in [Orders -> Payments]
    BY <1>4, <2>1 DEF ClaimInitialization, Deliver, Payments
  <2> QED BY <1>4, <2>2, <2>3, <2>4 DEF ClaimInitialization
<1>5. ASSUME NEW r \in Requests, CallProvider(r)
      PROVE  TypeOK'
  <2>1. request[r].order \in Orders
    BY <1>5, RequestShapes DEF CallProvider, At, Stages
  <2>2. request' \in [Requests -> RequestType]
    <3>1. request[r].stage \in Stages
      BY <1>5 DEF CallProvider, At, Stages
    <3>2. \A s \in Stages : [request[r] EXCEPT !.stage = s] \in RequestType
      BY <3>1, RequestMoves
    <3> QED BY <1>5, <3>2 DEF CallProvider, Goto, Stages
  <2>3. payment' \in [Orders -> Payments]
    BY <1>5, <2>1 DEF CallProvider, Payments
  <2>4. opened' \in [Orders -> Nat]
    BY <1>5, <2>1 DEF CallProvider
  <2> QED BY <1>5, <2>2, <2>3, <2>4 DEF CallProvider
<1>6. ASSUME NEW r \in Requests, FinishInitialization(r)
      PROVE  TypeOK'
  <2>1. request[r].order \in Orders
    BY <1>6, RequestShapes DEF FinishInitialization, At, Stages
  <2>2. request' \in [Requests -> RequestType]
    <3>1. request[r].stage \in Stages
      BY <1>6 DEF FinishInitialization, At, Stages
    <3>2. \A s \in Stages : [request[r] EXCEPT !.stage = s] \in RequestType
      BY <3>1, RequestMoves
    <3>3. Idle \in RequestType
      BY DEF RequestType
    <3> QED BY <1>6, <3>2, <3>3 DEF FinishInitialization, Goto, Done, Stages
  <2>3. order' \in [Orders -> OrderType]
    <3>1. [order[request[r].order] EXCEPT !.init = "READY"] \in OrderType
      BY <2>1, OrderColumns DEF InitStatuses, Statuses, HoldStatuses
    <3> QED BY <1>6, <2>1, <3>1 DEF FinishInitialization
  <2>4. payment' \in [Orders -> Payments]
    BY <1>6, <2>1 DEF FinishInitialization, Deliver, Payments
  <2> QED BY <1>6, <2>2, <2>3, <2>4 DEF FinishInitialization
<1>7. ASSUME NEW r \in Requests, InitializationFailed(r)
      PROVE  TypeOK'
  <2>1. request[r].order \in Orders
    BY <1>7, RequestShapes DEF InitializationFailed, At, Stages
  <2>2. request' \in [Requests -> RequestType]
    BY <1>7 DEF InitializationFailed, Done, RequestType
  <2>3. order' \in [Orders -> OrderType]
    <3> DEFINE o == request[r].order
    <3>1. (IF order[o].status = "PENDING" THEN "FAILED" ELSE order[o].init) \in InitStatuses
      BY <2>1, ExpireRelease DEF InitStatuses
    <3>2. AfterInitializationFailed(o) \in OrderType
      BY <2>1, <3>1, OrderColumns, ExpireRelease DEF AfterInitializationFailed
    <3> QED BY <1>7, <2>1, <3>2 DEF InitializationFailed
  <2> QED BY <1>7, <2>2, <2>3 DEF InitializationFailed
<1>8. ASSUME NEW r \in Requests, Crash(r)
      PROVE  TypeOK'
  BY <1>8 DEF Crash, Done, RequestType
<1>9. ASSUME NEW o \in Orders, NEW result \in {"paid", "paidOther"}, Pay(o, result)
      PROVE  TypeOK'
  BY <1>9 DEF Pay, Payments
<1>10. ASSUME NEW o \in Orders, Complete(o)
       PROVE  TypeOK'
  <2>1. CASE MustRefund(o)
    <3>1. order' \in [Orders -> OrderType]
      <4>1. [order[o] EXCEPT !.status = "REFUND_REQUIRED", !.hold = Release(order[o])] \in OrderType
        BY OrderColumns, ExpireRelease DEF Statuses, InitStatuses
      <4> QED BY <1>10, <2>1, <4>1 DEF Complete
    <3> QED BY <1>10, <2>1, <3>1 DEF Complete
  <2>2. CASE ~ MustRefund(o)
    <3>1. order' \in [Orders -> OrderType]
      <4>1. [order[o] EXCEPT !.status = "SUCCESS", !.hold = "CONFIRMED", !.fulfilled = TRUE]
              \in OrderType
        BY OrderColumns DEF Statuses, InitStatuses, HoldStatuses
      <4> QED BY <1>10, <2>2, <4>1 DEF Complete
    <3>2. Issue(o, [t \in Tickets |-> quantityToIssue(o, t)])
      BY <1>10, <2>2 DEF Complete
    <3>3. \A t \in Tickets : quantityToIssue(o, t) = order[o].cart[t]
      BY <3>2, PlanIsCart DEF Issue
    <3>4. [t \in Tickets |-> quantityToIssue(o, t)] \in [Tickets -> 0..MaxTickets]
      BY <3>3 DEF OrderType
    <3>5. /\ sold' \in [Tickets -> Nat]
          /\ issued' \subseteq Orders \X Tickets \X (1..MaxTickets)
          /\ jobs' \subseteq Orders
      BY <3>2, <3>4, IssueEffect
    <3> QED BY <1>10, <2>2, <3>1, <3>5 DEF Complete
  <2> QED BY <2>1, <2>2
<1>11. ASSUME NEW o \in Orders, ConfirmRefund(o)
       PROVE  TypeOK'
  <2>1. [order[o] EXCEPT !.status = "REFUNDED"] \in OrderType
    BY OrderColumns DEF Statuses, InitStatuses, HoldStatuses
  <2> QED BY <1>11, <2>1 DEF ConfirmRefund
<1>12. ASSUME NEW o \in Orders, Cancel(o)
       PROVE  TypeOK'
  <2>1. [order[o] EXCEPT !.status = "EXPIRED", !.hold = "CANCELLED"] \in OrderType
    BY OrderColumns DEF Statuses, InitStatuses, HoldStatuses
  <2> QED BY <1>12, <2>1 DEF Cancel
<1>13. ASSUME NEW o \in Orders, MarkTransactionFailed(o)
       PROVE  TypeOK'
  <2>1. [order[o] EXCEPT !.status = "FAILED", !.hold = Release(order[o])] \in OrderType
    BY OrderColumns, ExpireRelease DEF Statuses, InitStatuses
  <2> QED BY <1>13, <2>1 DEF MarkTransactionFailed
<1>14. ASSUME NEW t \in Tickets, NEW q \in Quantities, NEW p \in Prices,
              NEW s \in {"visible", "hidden"}, EditTicket(t, q, p, s)
       PROVE  TypeOK'
  BY <1>14 DEF EditTicket, Shelves
<1>15. ASSUME NEW t \in Tickets, RemoveTicket(t)
       PROVE  TypeOK'
  BY <1>15 DEF RemoveTicket, Shelves
<1>16. ASSUME NEW e \in EndDates, EditEndDate(e)
       PROVE  TypeOK'
  BY <1>16 DEF EditEndDate
<1>17. CASE ExpireHolds
  <2>1. \A o \in Orders : AfterExpiry(o) \in OrderType
    BY OrderColumns, ExpireRelease DEF AfterExpiry, HoldStatuses
  <2> QED BY <1>17, <2>1 DEF ExpireHolds
<1>18. CASE Tick
  BY <1>18 DEF Tick
<1>19. CASE UNCHANGED vars
  BY <1>19 DEF vars
<1> QED
  BY <1>1, <1>2, <1>3, <1>4, <1>5, <1>6, <1>7, <1>8, <1>9, <1>10, <1>11, <1>12, <1>13,
     <1>14, <1>15, <1>16, <1>17, <1>18, <1>19 DEF Next, RequestStep, OrderStep, OrganiserStep

-----------------------------------------------------------------------------
(* Rows begin with create: no reservation without an order, no ticket        *)
(* without the job that its transaction inserts.                             *)
LEMMA UntouchedStep ==
  ASSUME TypeOK, Untouched, [Next]_vars
  PROVE  Untouched'
<1> USE DEF TypeOK, Untouched
<1> USE DEF clock, catalog, admissions, provider
<1>1. ASSUME NEW r \in Requests, Create(r)
      PROVE  Untouched'
  <2> DEFINE o == request[r].order
             cart == request[r].cart
  <2>1. o \in Orders /\ cart \in [Tickets -> 0..MaxTickets]
    BY <1>1, RequestShapes DEF Create, At
  <2>2. CASE UNCHANGED <<order, admissions>>
    BY <2>2
  <2>3. CASE order' = [order EXCEPT ![o] = PaidOrder(cart)] /\ UNCHANGED admissions
    BY <2>1, <2>3 DEF PaidOrder
  <2>4. CASE order' = [order EXCEPT ![o] = FreeOrder(cart)] /\ Issue(o, cart)
    <3>1. \A u \in issued' : u \in issued \/ u[1] = o
      BY <2>1, <2>4, IssueEffect
    <3>2. jobs' = jobs \cup {o}
      BY <2>4 DEF Issue
    <3> QED BY <2>1, <2>4, <3>1, <3>2 DEF FreeOrder
  <2> QED BY <1>1, <2>2, <2>3, <2>4 DEF Create
<1>2. ASSUME NEW o \in Orders, Complete(o)
      PROVE  Untouched'
  <2>1. CASE MustRefund(o)
    <3>1. /\ order' = [order EXCEPT ![o] =
                [@ EXCEPT !.status = "REFUND_REQUIRED", !.hold = Release(order[o])]]
          /\ UNCHANGED <<issued, jobs>>
      BY <1>2, <2>1 DEF Complete
    <3>2. order'[o].status = "REFUND_REQUIRED"
      BY <3>1 DEF OrderType
    <3> QED BY <3>1, <3>2
  <2>2. CASE ~ MustRefund(o)
    <3> DEFINE plan == [t \in Tickets |-> quantityToIssue(o, t)]
    <3>1. Issue(o, plan)
      BY <1>2, <2>2 DEF Complete
    <3>2. o \notin jobs /\ jobs' = jobs \cup {o}
      BY <3>1 DEF Issue
    <3>3. plan \in [Tickets -> 0..MaxTickets]
      BY <3>2, PlanIsCart DEF OrderType
    <3>4. \A u \in issued' : u \in issued \/ u[1] = o
      <4> HIDE DEF plan
      <4> QED BY <3>1, <3>3, IssueEffect
    <3>5. order' = [order EXCEPT ![o] =
             [@ EXCEPT !.status = "SUCCESS", !.hold = "CONFIRMED", !.fulfilled = TRUE]]
      BY <1>2, <2>2 DEF Complete
    <3>6. \A p \in Orders : order'[p].status = "NONE" => order'[p].hold = "NONE"
      BY <3>5 DEF OrderType
    <3> QED BY <3>2, <3>4, <3>6
  <2> QED BY <2>1, <2>2
<1>3. ASSUME UNCHANGED admissions,
             \A p \in Orders : \/ order'[p] = order[p]
                               \/ order'[p].status # "NONE"
                               \/ order'[p].status = order[p].status /\ order'[p].hold = Release(order[p])
                               \/ order'[p].status = order[p].status /\ order'[p].hold = order[p].hold
      PROVE  Untouched'
  BY <1>3 DEF Release
<1>4. ASSUME NEW r \in Requests,
             \/ ClaimInitialization(r) \/ FinishInitialization(r) \/ InitializationFailed(r)
      PROVE  Untouched'
  <2> DEFINE o == request[r].order
  <2>1. o \in Orders
    BY <1>4, RequestShapes DEF ClaimInitialization, FinishInitialization, InitializationFailed, At, Stages
  <2>2. \/ UNCHANGED order
        \/ order' = [order EXCEPT ![o] = [@ EXCEPT !.init = "INITIALIZING"]]
        \/ order' = [order EXCEPT ![o] = [@ EXCEPT !.init = "READY"]]
        \/ order' = [order EXCEPT ![o] = AfterInitializationFailed(o)]
    BY <1>4 DEF ClaimInitialization, FinishInitialization, InitializationFailed
  <2>3. AfterInitializationFailed(o).status = Expire(order[o])
        /\ AfterInitializationFailed(o).hold = Release(order[o])
    BY <2>1 DEF AfterInitializationFailed, OrderType
  <2>4. \A p \in Orders : \/ order'[p] = order[p]
                          \/ order'[p].status # "NONE"
                          \/ order'[p].status = order[p].status /\ order'[p].hold = Release(order[p])
                          \/ order'[p].status = order[p].status /\ order'[p].hold = order[p].hold
    <3> HIDE DEF o
    <3> QED BY <2>1, <2>2, <2>3 DEF Expire, OrderType
  <2>5. UNCHANGED admissions
    BY <1>4 DEF ClaimInitialization, FinishInitialization, InitializationFailed
  <2> QED BY <1>3, <2>4, <2>5
<1>5. ASSUME NEW o \in Orders, ConfirmRefund(o) \/ Cancel(o) \/ MarkTransactionFailed(o)
      PROVE  Untouched'
  <2>1. /\ UNCHANGED admissions
        /\ \A p \in Orders : order'[p] = order[p] \/ order'[p].status # "NONE"
    <3>1. CASE ConfirmRefund(o)
      BY <3>1 DEF ConfirmRefund, OrderType
    <3>2. CASE Cancel(o)
      BY <3>2 DEF Cancel, OrderType
    <3>3. CASE MarkTransactionFailed(o)
      BY <3>3 DEF MarkTransactionFailed, OrderType
    <3> QED BY <1>5, <3>1, <3>2, <3>3
  <2> QED BY <1>3, <2>1
<1>6. CASE ExpireHolds
  <2>1. \A p \in Orders : \/ AfterExpiry(p) = order[p]
                          \/ Overdue(p) /\ AfterExpiry(p).status = Expire(order[p])
    BY DEF AfterExpiry, OrderType
  <2>2. \A p \in Orders : Overdue(p) => order[p].status # "NONE" /\ Expire(order[p]) # "NONE"
    BY DEF Overdue, Expire
  <2>3. order' = [p \in Orders |-> AfterExpiry(p)] /\ UNCHANGED admissions
    BY <1>6 DEF ExpireHolds
  <2> QED BY <2>1, <2>2, <2>3
<1>7. ASSUME UNCHANGED <<order, admissions>>
      PROVE  Untouched'
  BY <1>7
<1>8. ASSUME NEW r \in Requests, NEW o \in Orders, NEW cart \in Carts, Start(r, o, cart)
      PROVE  UNCHANGED <<order, admissions>>
  BY <1>8 DEF Start
<1>9. ASSUME NEW r \in Requests, Load(r) \/ CallProvider(r) \/ Crash(r)
      PROVE  UNCHANGED <<order, admissions>>
  BY <1>9 DEF Load, CallProvider, Crash
<1>10. ASSUME NEW o \in Orders, NEW result \in {"paid", "paidOther"}, Pay(o, result)
       PROVE  UNCHANGED <<order, admissions>>
  BY <1>10 DEF Pay
<1>11. ASSUME OrganiserStep \/ Tick \/ UNCHANGED vars
       PROVE  UNCHANGED <<order, admissions>>
  BY <1>11 DEF OrganiserStep, EditTicket, RemoveTicket, EditEndDate, Tick, vars
<1> HIDE DEF TypeOK, Untouched
<1> QED
  BY <1>1, <1>2, <1>4, <1>5, <1>6, <1>7, <1>8, <1>9, <1>10, <1>11
  DEF Next, RequestStep, OrderStep

-----------------------------------------------------------------------------
(* Counting holds. *)
AllUnits == Orders \X Tickets \X (1..MaxTickets)

LEMMA AllUnitsFinite ==
  ASSUME NEW H, H \subseteq AllUnits
  PROVE  IsFiniteSet(H) /\ Cardinality(H) \in Nat
<1>1. IsFiniteSet(Orders)
  BY FS_Product DEF Orders
<1>2. IsFiniteSet(1..MaxTickets)
  BY FS_Interval
<1>3. IsFiniteSet(H)
  BY <1>1, <1>2, TriplesFinite DEF AllUnits
<1> QED BY <1>3, FS_CardinalityType

LEMMA HeldAreUnits ==
  ASSUME TypeOK, NEW t \in Tickets, NEW S
  PROVE  HeldUnits(t, S) \subseteq AllUnits
<1>1. \A o \in Orders : order[o].cart[t] \in 0..MaxTickets
  BY DEF TypeOK, OrderType
<1> QED BY <1>1 DEF HeldUnits, Units, AllUnits

(* If every hold that is live after the step was live before it, with the    *)
(* same cart, no type has more units held.                                   *)
LEMMA FewerHolds ==
  ASSUME TypeOK, TypeOK', NEW t \in Tickets, NEW S \in SUBSET Orders,
         \A p \in Orders : ActiveHold(p)' =>
           p \notin S /\ ActiveHold(p) /\ order'[p].cart = order[p].cart
  PROVE  /\ reservedTicketQuantity(t, {})' <= reservedTicketQuantity(t, S)
         /\ reservedTicketQuantity(t, {})' \in Nat
         /\ reservedTicketQuantity(t, S) \in Nat
<1>1. HeldUnits(t, {})' \subseteq HeldUnits(t, S)
  BY DEF HeldUnits, Units
<1>2. IsFiniteSet(HeldUnits(t, S))
  BY HeldAreUnits, AllUnitsFinite
<1> QED BY <1>1, <1>2, SubsetCount DEF reservedTicketQuantity

(* Steps that leave the stock alone and make no hold live. *)
LEMMA NoNewHold ==
  ASSUME TypeOK, TypeOK', NoOversell, UNCHANGED <<quantity, sold>>,
         \A p \in Orders : ActiveHold(p)' =>
           ActiveHold(p) /\ order'[p].cart = order[p].cart
  PROVE  NoOversell'
<1> SUFFICES ASSUME NEW t \in Tickets
             PROVE  sold'[t] + reservedTicketQuantity(t, {})' <= quantity'[t]
  BY DEF NoOversell
<1>1. /\ reservedTicketQuantity(t, {})' <= reservedTicketQuantity(t, {})
      /\ reservedTicketQuantity(t, {})' \in Nat
      /\ reservedTicketQuantity(t, {}) \in Nat
  BY FewerHolds
<1>2. sold[t] + reservedTicketQuantity(t, {}) <= quantity[t]
  BY DEF NoOversell
<1>3. sold[t] \in Nat /\ quantity[t] \in Nat
  BY DEF TypeOK
<1> QED BY <1>1, <1>2, <1>3

(* Admitting an order that had room beside the other holds. *)
LEMMA IssueWithRoom ==
  ASSUME TypeOK, TypeOK', NoOversell, NEW o \in Orders,
         NEW plan \in [Tickets -> 0..MaxTickets],
         \A t \in Tickets : plan[t] > 0 => Room(t, {o}, plan[t]),
         sold' = [t \in Tickets |-> sold[t] + plan[t]],
         UNCHANGED quantity,
         \A p \in Orders : ActiveHold(p)' =>
           p # o /\ ActiveHold(p) /\ order'[p].cart = order[p].cart
  PROVE  NoOversell'
<1> SUFFICES ASSUME NEW t \in Tickets
             PROVE  sold'[t] + reservedTicketQuantity(t, {})' <= quantity'[t]
  BY DEF NoOversell
<1>1. /\ reservedTicketQuantity(t, {})' <= reservedTicketQuantity(t, {o})
      /\ reservedTicketQuantity(t, {})' \in Nat
      /\ reservedTicketQuantity(t, {o}) \in Nat
  BY FewerHolds
<1>2. /\ reservedTicketQuantity(t, {})' <= reservedTicketQuantity(t, {})
      /\ reservedTicketQuantity(t, {}) \in Nat
  BY FewerHolds
<1>3. sold[t] \in Nat /\ quantity[t] \in Nat /\ plan[t] \in Nat
  BY DEF TypeOK
<1>4. sold[t] + reservedTicketQuantity(t, {}) <= quantity[t]
  BY DEF NoOversell
<1>5. CASE plan[t] = 0
  BY <1>1, <1>2, <1>3, <1>4, <1>5
<1>6. CASE plan[t] > 0
  <2>1. quantity[t] - sold[t] - reservedTicketQuantity(t, {o}) >= plan[t]
    BY <1>6 DEF Room
  <2> QED BY <1>1, <1>3, <2>1
<1> QED BY <1>3, <1>5, <1>6

(* Reserving an order that had room beside the other holds. *)
LEMMA ReserveWithRoom ==
  ASSUME TypeOK, TypeOK', NoOversell, NEW o \in Orders,
         NEW cart \in [Tickets -> 0..MaxTickets],
         \A t \in Tickets : cart[t] > 0 => Room(t, {o}, cart[t]),
         ~ ActiveHold(o),
         UNCHANGED <<now, quantity, sold>>,
         order' = [order EXCEPT ![o] = PaidOrder(cart)]
  PROVE  NoOversell'
<1> SUFFICES ASSUME NEW t \in Tickets
             PROVE  sold'[t] + reservedTicketQuantity(t, {})' <= quantity'[t]
  BY DEF NoOversell
<1> DEFINE own == {<<o, t, n>> : n \in 1..cart[t]}
<1>1. HeldUnits(t, {})' \subseteq HeldUnits(t, {o}) \cup own
  <2>1. \A p \in Orders : p # o => order'[p] = order[p]
    BY DEF TypeOK
  <2>2. order'[o].cart = cart
    BY DEF TypeOK, PaidOrder
  <2> QED BY <2>1, <2>2 DEF HeldUnits, Units, ActiveHold
<1>2. HeldUnits(t, {o}) \cap own = {}
  BY DEF HeldUnits, Units
<1>3. IsFiniteSet(own) /\ Cardinality(own) = cart[t]
  <2>1. cart[t] \in Nat
    OBVIOUS
  <2>2. \A u : u \in own <=> \E n \in 1..cart[t] : u = <<o, t, n>>
    OBVIOUS
  <2> HIDE DEF own
  <2> QED BY <2>1, <2>2, RunCardinality
<1>4. IsFiniteSet(HeldUnits(t, {o}))
  BY HeldAreUnits, AllUnitsFinite
<1> HIDE DEF own
<1>5. /\ IsFiniteSet(HeldUnits(t, {o}) \cup own)
      /\ Cardinality(HeldUnits(t, {o})) \in Nat
      /\ Cardinality(HeldUnits(t, {o}) \cup own) = Cardinality(HeldUnits(t, {o})) + cart[t]
  BY <1>2, <1>3, <1>4, DisjointSum
<1>6. /\ Cardinality(HeldUnits(t, {})') \in Nat
      /\ Cardinality(HeldUnits(t, {})') <= Cardinality(HeldUnits(t, {o})) + cart[t]
  BY <1>1, <1>5, SubsetCount
<1>7. sold[t] \in Nat /\ quantity[t] \in Nat /\ cart[t] \in Nat
  BY DEF TypeOK
<1>8. CASE cart[t] > 0
  <2>1. quantity[t] - sold[t] - Cardinality(HeldUnits(t, {o})) >= cart[t]
    BY <1>8 DEF Room, reservedTicketQuantity
  <2> QED BY <1>5, <1>6, <1>7, <2>1 DEF reservedTicketQuantity
<1>9. CASE cart[t] = 0
  <2>1. HeldUnits(t, {o}) \subseteq HeldUnits(t, {})
    BY DEF HeldUnits
  <2>2. IsFiniteSet(HeldUnits(t, {})) /\ Cardinality(HeldUnits(t, {})) \in Nat
    BY HeldAreUnits, AllUnitsFinite
  <2>3. Cardinality(HeldUnits(t, {o})) <= Cardinality(HeldUnits(t, {}))
    BY <2>1, <2>2, SubsetCount
  <2>4. sold[t] + Cardinality(HeldUnits(t, {})) <= quantity[t]
    BY DEF NoOversell, reservedTicketQuantity
  <2> QED BY <1>5, <1>6, <1>7, <1>9, <2>2, <2>3, <2>4 DEF reservedTicketQuantity
<1> QED BY <1>7, <1>8, <1>9

-----------------------------------------------------------------------------
LEMMA OversellStep ==
  ASSUME SaleInv, TypeOK', [Next]_vars
  PROVE  NoOversell'
<1>0. TypeOK /\ Untouched /\ NoOversell
  BY DEF SaleInv
<1> USE DEF clock, catalog, admissions, provider
(* Most steps leave the stock alone and every order either as it was, or     *)
(* without a hold, or with the same hold and cart.                           *)
<1>1. ASSUME UNCHANGED <<quantity, sold>>, now' >= now,
             \A p \in Orders : \/ order'[p] = order[p]
                               \/ order'[p].hold # "HELD"
                               \/ /\ order'[p].hold = order[p].hold
                                  /\ order'[p].cart = order[p].cart
                                  /\ order'[p].expiresAt = order[p].expiresAt
      PROVE  NoOversell'
  <2>1. \A p \in Orders : ActiveHold(p)' => ActiveHold(p) /\ order'[p].cart = order[p].cart
    BY <1>0, <1>1 DEF ActiveHold, TypeOK, OrderType
  <2> QED BY <1>0, <1>1, <2>1, NoNewHold
<1>2. ASSUME NEW r \in Requests, Create(r)
      PROVE  NoOversell'
  <2> DEFINE o == request[r].order
             cart == request[r].cart
             seen == request[r].seen
  <2>1. o \in Orders /\ cart \in [Tickets -> 0..MaxTickets]
    BY <1>0, <1>2, RequestShapes DEF Create, At, TypeOK
  <2>2. UNCHANGED <<now, quantity>>
    BY <1>2 DEF Create
  <2>3. CASE UNCHANGED <<order, admissions>>
    BY <1>0, <1>1, <2>2, <2>3 DEF TypeOK
  <2>4. ASSUME ~ FindReplay(o), CanReserve(o, cart, seen)
        PROVE  /\ ~ ActiveHold(o)
               /\ \A t \in Tickets : cart[t] > 0 => Room(t, {o}, cart[t])
    BY <1>0, <2>1, <2>4 DEF FindReplay, Exists, Untouched, ActiveHold, CanReserve, OnSale, Wanted
  <2>5. CASE /\ ~ FindReplay(o) /\ CanReserve(o, cart, seen)
             /\ order' = [order EXCEPT ![o] = PaidOrder(cart)]
             /\ UNCHANGED admissions
    BY <1>0, <2>1, <2>2, <2>4, <2>5, ReserveWithRoom
  <2>6. CASE /\ ~ FindReplay(o) /\ CanReserve(o, cart, seen)
             /\ order' = [order EXCEPT ![o] = FreeOrder(cart)]
             /\ Issue(o, cart)
    <3>1. sold' = [t \in Tickets |-> sold[t] + cart[t]]
      BY <2>6 DEF Issue
    <3>2. \A p \in Orders : ActiveHold(p)' =>
             p # o /\ ActiveHold(p) /\ order'[p].cart = order[p].cart
      BY <1>0, <2>1, <2>2, <2>6 DEF ActiveHold, FreeOrder, TypeOK
    <3> HIDE DEF o, cart
    <3> QED BY <1>0, <2>1, <2>2, <2>4, <2>6, <3>1, <3>2, IssueWithRoom
  <2> QED BY <1>2, <2>3, <2>5, <2>6 DEF Create
<1>3. ASSUME NEW o \in Orders, Complete(o)
      PROVE  NoOversell'
  <2>1. CASE MustRefund(o)
    <3>1. \A p \in Orders : order'[p] = order[p] \/ order'[p].hold # "HELD"
      <4>1. Release(order[o]) # "HELD"
        BY DEF Release
      <4>2. order' = [order EXCEPT ![o] =
               [@ EXCEPT !.status = "REFUND_REQUIRED", !.hold = Release(order[o])]]
        BY <1>3, <2>1 DEF Complete
      <4> QED BY <1>0, <4>1, <4>2 DEF TypeOK, OrderType
    <3> QED BY <1>0, <1>1, <1>3, <2>1, <3>1 DEF Complete, TypeOK
  <2>2. CASE ~ MustRefund(o)
    <3> DEFINE plan == [t \in Tickets |-> quantityToIssue(o, t)]
    <3>1. Issue(o, plan)
      BY <1>3, <2>2 DEF Complete
    <3>2. o \notin jobs
      BY <3>1 DEF Issue
    <3>3. \A t \in Tickets : quantityToIssue(o, t) = order[o].cart[t]
      BY <1>0, <3>2, PlanIsCart
    <3>4. plan \in [Tickets -> 0..MaxTickets]
      BY <1>0, <3>3 DEF TypeOK, OrderType
    <3>5. \A t \in Tickets : plan[t] > 0 => Room(t, {o}, plan[t])
      BY <2>2, <3>3 DEF MustRefund, CapacityFor, Wanted
    <3>6. sold' = [t \in Tickets |-> sold[t] + plan[t]]
      BY <3>1 DEF Issue
    <3>7. order' = [order EXCEPT ![o] =
             [@ EXCEPT !.status = "SUCCESS", !.hold = "CONFIRMED", !.fulfilled = TRUE]]
      BY <1>3, <2>2 DEF Complete
    <3>8. UNCHANGED <<now, quantity>>
      BY <1>3 DEF Complete
    <3>9. \A p \in Orders : ActiveHold(p)' =>
             p # o /\ ActiveHold(p) /\ order'[p].cart = order[p].cart
      BY <1>0, <3>7, <3>8 DEF ActiveHold, TypeOK, OrderType
    <3> HIDE DEF plan
    <3> QED BY <1>0, <3>4, <3>5, <3>6, <3>8, <3>9, IssueWithRoom
  <2> QED BY <2>1, <2>2
<1>4. ASSUME NEW r \in Requests,
             \/ ClaimInitialization(r) \/ FinishInitialization(r) \/ InitializationFailed(r)
      PROVE  NoOversell'
  <2> DEFINE o == request[r].order
  <2>1. o \in Orders
    BY <1>0, <1>4, RequestShapes
    DEF TypeOK, ClaimInitialization, FinishInitialization, InitializationFailed, At, Stages
  <2>2. \/ UNCHANGED order
        \/ order' = [order EXCEPT ![o] = [@ EXCEPT !.init = "INITIALIZING"]]
        \/ order' = [order EXCEPT ![o] = [@ EXCEPT !.init = "READY"]]
        \/ order' = [order EXCEPT ![o] = AfterInitializationFailed(o)]
    BY <1>4 DEF ClaimInitialization, FinishInitialization, InitializationFailed
  <2>3. AfterInitializationFailed(o).hold # "HELD"
    BY <1>0, <2>1 DEF AfterInitializationFailed, Release, TypeOK, OrderType
  <2>4. \A p \in Orders : \/ order'[p] = order[p]
                          \/ order'[p].hold # "HELD"
                          \/ /\ order'[p].hold = order[p].hold
                             /\ order'[p].cart = order[p].cart
                             /\ order'[p].expiresAt = order[p].expiresAt
    <3> HIDE DEF o
    <3> QED BY <1>0, <2>1, <2>2, <2>3 DEF TypeOK, OrderType
  <2>5. UNCHANGED <<now, quantity, sold>>
    BY <1>4 DEF ClaimInitialization, FinishInitialization, InitializationFailed
  <2> QED BY <1>0, <1>1, <2>4, <2>5 DEF TypeOK
<1>5. ASSUME NEW o \in Orders, ConfirmRefund(o) \/ Cancel(o) \/ MarkTransactionFailed(o)
      PROVE  NoOversell'
  <2>1. \A p \in Orders : \/ order'[p] = order[p]
                          \/ order'[p].hold # "HELD"
                          \/ /\ order'[p].hold = order[p].hold
                             /\ order'[p].cart = order[p].cart
                             /\ order'[p].expiresAt = order[p].expiresAt
    <3>1. CASE ConfirmRefund(o)
      BY <1>0, <3>1 DEF ConfirmRefund, TypeOK, OrderType
    <3>2. CASE Cancel(o)
      BY <1>0, <3>2 DEF Cancel, TypeOK, OrderType
    <3>3. CASE MarkTransactionFailed(o)
      BY <1>0, <3>3 DEF MarkTransactionFailed, Release, TypeOK, OrderType
    <3> QED BY <1>5, <3>1, <3>2, <3>3
  <2>2. UNCHANGED <<now, quantity, sold>>
    BY <1>5 DEF ConfirmRefund, Cancel, MarkTransactionFailed
  <2> QED BY <1>0, <1>1, <2>1, <2>2 DEF TypeOK
<1>6. CASE ExpireHolds
  <2>1. \A p \in Orders : AfterExpiry(p) = order[p] \/ AfterExpiry(p).hold # "HELD"
    BY <1>0 DEF AfterExpiry, TypeOK, OrderType
  <2>2. order' = [p \in Orders |-> AfterExpiry(p)] /\ UNCHANGED <<now, quantity, sold>>
    BY <1>6 DEF ExpireHolds
  <2> QED BY <1>0, <1>1, <2>1, <2>2 DEF TypeOK
<1>7. ASSUME NEW t \in Tickets, NEW q \in Quantities, NEW p \in Prices,
             NEW s \in {"visible", "hidden"}, EditTicket(t, q, p, s)
      PROVE  NoOversell'
  <2> SUFFICES ASSUME NEW u \in Tickets
               PROVE  sold'[u] + reservedTicketQuantity(u, {})' <= quantity'[u]
    BY DEF NoOversell
  <2>1. HeldUnits(u, {})' = HeldUnits(u, {})
    BY <1>7 DEF EditTicket, HeldUnits, Units, ActiveHold
  <2>2. sold[u] + reservedTicketQuantity(u, {}) <= quantity[u]
    BY <1>0 DEF NoOversell
  <2>3. reservedTicketQuantity(u, {})' = reservedTicketQuantity(u, {})
    BY <2>1 DEF reservedTicketQuantity
  <2>4. reservedTicketQuantity(u, {}) \in Nat /\ sold[u] \in Nat /\ q \in Nat
    BY <1>0, HeldAreUnits, AllUnitsFinite DEF reservedTicketQuantity, TypeOK
  <2>5. quantity' = [quantity EXCEPT ![t] = q] /\ sold' = sold
    BY <1>7 DEF EditTicket
  <2>6. CASE u = t /\ q # quantity[t]
    <3>1. q - sold[t] >= reservedTicketQuantity(t, {})
      BY <1>7, <2>6 DEF EditTicket, assertTicketCapacityEdit
    <3> QED BY <1>0, <2>3, <2>4, <2>5, <2>6, <3>1 DEF TypeOK
  <2>7. CASE ~ (u = t /\ q # quantity[t])
    BY <1>0, <2>2, <2>3, <2>5, <2>7 DEF TypeOK
  <2> QED BY <2>6, <2>7
<1>8. ASSUME NEW r \in Requests, NEW o \in Orders, NEW cart \in Carts, Start(r, o, cart)
      PROVE  NoOversell'
  BY <1>0, <1>1, <1>8 DEF Start, TypeOK
<1>9. ASSUME NEW r \in Requests, Load(r) \/ CallProvider(r) \/ Crash(r)
      PROVE  NoOversell'
  BY <1>0, <1>1, <1>9 DEF Load, CallProvider, Crash, TypeOK
<1>10. ASSUME NEW o \in Orders, NEW result \in {"paid", "paidOther"}, Pay(o, result)
       PROVE  NoOversell'
  BY <1>0, <1>1, <1>10 DEF Pay, TypeOK
<1>11. ASSUME NEW t \in Tickets, RemoveTicket(t)
       PROVE  NoOversell'
  BY <1>0, <1>1, <1>11 DEF RemoveTicket, TypeOK
<1>12. ASSUME NEW e \in EndDates, EditEndDate(e)
       PROVE  NoOversell'
  BY <1>0, <1>1, <1>12 DEF EditEndDate, TypeOK
<1>13. CASE Tick
  BY <1>0, <1>1, <1>13 DEF Tick, TypeOK
<1>14. CASE UNCHANGED vars
  BY <1>0, <1>1, <1>14 DEF vars, TypeOK
<1> QED
  BY <1>2, <1>3, <1>4, <1>5, <1>6, <1>7, <1>8, <1>9, <1>10, <1>11, <1>12, <1>13, <1>14
  DEF Next, RequestStep, OrderStep, OrganiserStep

-----------------------------------------------------------------------------
LEMMA SaleInit == Init => SaleInv
<1> SUFFICES ASSUME Init PROVE SaleInv
  OBVIOUS
<1>1. NoOrder \in OrderType
  BY DEF NoOrder, OrderType, Statuses, InitStatuses, HoldStatuses, EmptyCart
<1>2. TypeOK
  <2>1. now \in 0..MaxTime /\ endDate \in Nat
    BY DEF Init
  <2>2. quantity \in [Tickets -> Nat] /\ price \in [Tickets -> Nat]
    BY DEF Init
  <2>3. sold \in [Tickets -> Nat] /\ shelf \in [Tickets -> Shelves]
    BY DEF Init, Shelves
  <2>4. order \in [Orders -> OrderType]
    BY <1>1 DEF Init
  <2>5. payment \in [Orders -> Payments] /\ opened \in [Orders -> Nat]
    BY DEF Init, Payments
  <2>6. request \in [Requests -> RequestType]
    BY DEF Init, RequestType
  <2>7. issued = {} /\ jobs = {} /\ refunds = {}
    BY DEF Init
  <2> QED BY <2>1, <2>2, <2>3, <2>4, <2>5, <2>6, <2>7 DEF TypeOK
<1>3. Untouched
  BY DEF Init, Untouched, NoOrder
<1>4. NoOversell
  <2>1. \A t \in Tickets : HeldUnits(t, {}) = {}
    BY DEF Init, HeldUnits, ActiveHold, NoOrder
  <2>2. \A t \in Tickets : reservedTicketQuantity(t, {}) = 0
    BY <2>1, FS_EmptySet DEF reservedTicketQuantity
  <2> QED BY <2>2, <1>2 DEF Init, NoOversell, TypeOK
<1> QED BY <1>2, <1>3, <1>4 DEF SaleInv

LEMMA SaleKept == SaleInv /\ [Next]_vars => SaleInv'
<1> SUFFICES ASSUME SaleInv, [Next]_vars PROVE SaleInv'
  OBVIOUS
<1>1. TypeOK /\ Untouched
  BY DEF SaleInv
<1>2. TypeOK'
  BY <1>1, TypeStep
<1>3. Untouched'
  BY <1>1, UntouchedStep
<1>4. NoOversell'
  BY <1>2, OversellStep
<1> QED BY <1>2, <1>3, <1>4 DEF SaleInv

(* Types, untouched rows and stock: what no action breaks. *)
THEOREM SaleCorrect == Spec => []SaleInv
BY SaleInit, SaleKept, PTL DEF Spec

(* Every reachable state has the types the tables declare. *)
THEOREM TypeCorrect == Spec => []TypeOK
<1>1. SaleInv => TypeOK
  BY DEF SaleInv
<1> QED BY <1>1, SaleCorrect, PTL

(* Sold plus held never exceeds the stock of a ticket type. *)
THEOREM NeverOversold == Spec => []NoOversell
<1>1. SaleInv => NoOversell
  BY DEF SaleInv
<1> QED BY <1>1, SaleCorrect, PTL

-----------------------------------------------------------------------------
(***************************************************************************)
(* What the rows of an order say together.                                 *)
(***************************************************************************)
(* Requests and payments belong to orders that exist; a cart that was priced *)
(* is one that clients send.                                                 *)
Attached ==
  /\ \A o \in Orders : payment[o] # "none" => Exists(o)
  /\ \A r \in Requests :
       /\ request[r].stage \in Stages => Exists(request[r].order)
       /\ request[r].stage = "priced" => request[r].cart \in Carts

(* A pending order holds its tickets. *)
PendingHolds == \A o \in Orders : order[o].status = "PENDING" => order[o].hold = "HELD"

(* The rows tell one story. *)
StoryInv == OutcomeConsistent /\ PendingHolds /\ Attached

-----------------------------------------------------------------------------
(***************************************************************************)
(* What a step does to the rows of the orders, whatever action it is of.   *)
(***************************************************************************)
Unsettled == {"PENDING", "FAILED", "EXPIRED"}
Fitting(o, cart) == \A t \in Tickets : cart[t] > 0 => Room(t, {o}, cart[t])
IssuedNow(o, cart) ==
  /\ o \notin jobs
  /\ jobs' = jobs \cup {o}
  /\ issued' = issued \cup {u \in {o} \X Tickets \X (1..MaxTickets) : u[3] <= cart[u[2]]}
  /\ sold' = [t \in Tickets |-> sold[t] + cart[t]]

(* create, of an order that must be paid for and of one that is free. *)
Placed(o, cart) ==
  /\ ~ Exists(o) /\ ~ HasActiveCheckout(o[1]) /\ Fitting(o, cart)
  /\ order' = [order EXCEPT ![o] = PaidOrder(cart)]
  /\ UNCHANGED <<admissions, refunds>>
Given(o, cart) ==
  /\ ~ Exists(o) /\ Fitting(o, cart)
  /\ \A t \in Tickets : cart[t] > 0 => price[t] = 0
  /\ order' = [order EXCEPT ![o] = FreeOrder(cart)]
  /\ IssuedNow(o, cart)
  /\ UNCHANGED refunds
(* complete *)
Admitted(o) ==
  /\ order[o].status \in Unsettled /\ order[o].hold # "CANCELLED"
  /\ payment[o] = "paid"
  /\ Fitting(o, order[o].cart)
  /\ order' = [order EXCEPT ![o] =
       [@ EXCEPT !.status = "SUCCESS", !.hold = "CONFIRMED", !.fulfilled = TRUE]]
  /\ IssuedNow(o, order[o].cart)
  /\ UNCHANGED refunds
Owed(o) ==
  /\ order[o].status \in Unsettled /\ MustRefund(o)
  /\ order' = [order EXCEPT ![o] =
       [@ EXCEPT !.status = "REFUND_REQUIRED", !.hold = Release(order[o])]]
  /\ refunds' = refunds \cup {o}
  /\ UNCHANGED admissions
Returned(o) ==
  /\ order[o].status = "REFUND_REQUIRED"
  /\ order' = [order EXCEPT ![o] = [@ EXCEPT !.status = "REFUNDED"]]
  /\ UNCHANGED <<admissions, refunds>>
Cancelled(o) ==
  /\ order[o].status \in Unsettled
  /\ order' = [order EXCEPT ![o] = [@ EXCEPT !.status = "EXPIRED", !.hold = "CANCELLED"]]
  /\ UNCHANGED <<admissions, refunds>>
(* Orders keep all but their initialization, or stop pending. *)
Lapsed(old, new) ==
  /\ new.cart = old.cart /\ new.expiresAt = old.expiresAt /\ new.fulfilled = old.fulfilled
  /\ \/ new.status = old.status /\ new.hold = old.hold
     \/ /\ old.status = "PENDING" /\ new.status \in {"FAILED", "EXPIRED"}
        /\ new.hold = "EXPIRED"
Lapsing ==
  /\ \A o \in Orders : Lapsed(order[o], order'[o])
  /\ UNCHANGED <<admissions, refunds>>

RowStep ==
  \/ \E o \in Orders, cart \in Carts : Placed(o, cart) \/ Given(o, cart)
  \/ \E o \in Orders : Admitted(o) \/ Owed(o) \/ Returned(o) \/ Cancelled(o)
  \/ Lapsing

LEMMA RowSteps ==
  ASSUME TypeOK, Untouched, StoryInv, [Next]_vars
  PROVE  /\ RowStep
         /\ \/ UNCHANGED <<now, quantity>>
            \/ UNCHANGED <<now, order, admissions, refunds>> /\ OrganiserStep
            \/ UNCHANGED <<quantity, order, admissions, refunds>> /\ now' >= now
<1> USE DEF clock, catalog, admissions, provider
<1>1. ASSUME UNCHANGED <<order, admissions, refunds>>
      PROVE  RowStep
  BY <1>1 DEF RowStep, Lapsing, Lapsed
<1>2. ASSUME NEW r \in Requests, Create(r)
      PROVE  RowStep /\ UNCHANGED <<now, quantity>>
  <2> DEFINE o == request[r].order
             cart == request[r].cart
             seen == request[r].seen
  <2>1. /\ o \in Orders /\ cart \in [Tickets -> 0..MaxTickets] /\ cart \in Carts
        /\ seen \in [Tickets -> Nat]
    BY <1>2, RequestShapes DEF Create, At, TypeOK, StoryInv, Attached
  <2>2. UNCHANGED <<now, quantity, refunds>>
    BY <1>2 DEF Create
  <2>3. CASE UNCHANGED <<order, admissions>>
    BY <1>1, <2>2, <2>3
  <2>4. ASSUME ~ FindReplay(o), CanReserve(o, cart, seen)
        PROVE  /\ ~ Exists(o) /\ ~ HasActiveCheckout(o[1])
               /\ Fitting(o, cart)
               /\ ~ Costs(cart, seen) => \A t \in Tickets : cart[t] > 0 => price[t] = 0
    <3>1. ~ Exists(o) /\ ~ HasActiveCheckout(o[1])
      BY <2>4 DEF FindReplay, CanReserve
    <3>2. \A t \in Tickets : cart[t] > 0 => OnSale(t, o, cart) /\ price[t] = seen[t]
      BY <2>4 DEF CanReserve, Wanted
    <3>3. Fitting(o, cart)
      BY <3>2 DEF Fitting, OnSale
    <3>4. ~ Costs(cart, seen) => \A t \in Tickets : cart[t] > 0 => ~ (seen[t] > 0)
      BY DEF Costs, Wanted
    <3>5. \A t \in Tickets : seen[t] \in Nat
      BY <2>1
    <3> HIDE DEF o, cart, seen
    <3> QED BY <3>1, <3>2, <3>3, <3>4, <3>5
  <2>5. CASE /\ ~ FindReplay(o) /\ CanReserve(o, cart, seen)
             /\ order' = [order EXCEPT ![o] = PaidOrder(cart)]
             /\ UNCHANGED admissions
    <3>1. Placed(o, cart)
      BY <2>2, <2>4, <2>5 DEF Placed
    <3> QED BY <2>1, <2>2, <3>1 DEF RowStep
  <2>6. CASE /\ ~ FindReplay(o) /\ CanReserve(o, cart, seen) /\ ~ Costs(cart, seen)
             /\ order' = [order EXCEPT ![o] = FreeOrder(cart)]
             /\ Issue(o, cart)
    <3>1. IssuedNow(o, cart)
      BY <2>1, <2>6, IssueEffect DEF IssuedNow
    <3>2. Given(o, cart)
      BY <2>2, <2>4, <2>6, <3>1 DEF Given
    <3> QED BY <2>1, <2>2, <3>2 DEF RowStep
  <2> QED BY <1>2, <2>2, <2>3, <2>5, <2>6 DEF Create
<1>3. ASSUME NEW o \in Orders, Complete(o)
      PROVE  RowStep /\ UNCHANGED <<now, quantity>>
  <2>1. order[o].status \in Unsettled /\ payment[o] \in {"paid", "paidOther"}
    BY <1>3 DEF Complete, CanComplete, StoryInv, Attached, Exists, Unsettled, Settled, TypeOK,
       OrderType, Statuses
  <2>2. CASE MustRefund(o)
    <3>1. Owed(o)
      BY <1>3, <2>1, <2>2 DEF Complete, Owed
    <3> QED BY <1>3, <3>1 DEF Complete, RowStep
  <2>3. CASE ~ MustRefund(o)
    <3> DEFINE plan == [t \in Tickets |-> quantityToIssue(o, t)]
    <3>1. Issue(o, plan)
      BY <1>3, <2>3 DEF Complete
    <3>2. o \notin jobs
      BY <3>1 DEF Issue
    <3>3. \A t \in Tickets : quantityToIssue(o, t) = order[o].cart[t]
      BY <3>2, PlanIsCart
    <3>4. order[o].cart \in [Tickets -> 0..MaxTickets]
      BY DEF TypeOK, OrderType
    <3>5. plan = order[o].cart
      BY <3>3, <3>4
    <3>6. IssuedNow(o, order[o].cart)
      BY <3>1, <3>4, <3>5, IssueEffect DEF IssuedNow
    <3>7. Fitting(o, order[o].cart)
      BY <2>3, <3>3 DEF MustRefund, CapacityFor, Wanted, Fitting
    <3>8. Admitted(o)
      BY <1>3, <2>1, <2>3, <3>6, <3>7 DEF Complete, Admitted, MustRefund
    <3> QED BY <1>3, <3>8 DEF Complete, RowStep
  <2> QED BY <2>2, <2>3
<1>4. ASSUME NEW o \in Orders, ConfirmRefund(o)
      PROVE  RowStep /\ UNCHANGED <<now, quantity>>
  <2>1. Returned(o)
    BY <1>4 DEF ConfirmRefund, Returned
  <2> QED BY <1>4, <2>1 DEF ConfirmRefund, RowStep
<1>5. ASSUME NEW o \in Orders, Cancel(o)
      PROVE  RowStep /\ UNCHANGED <<now, quantity>>
  <2>1. order[o].status \in Unsettled
    BY <1>5 DEF Cancel, Cancellable, Exists, StoryInv, OutcomeConsistent, Unsettled, TypeOK,
       OrderType, Statuses
  <2>2. Cancelled(o)
    BY <1>5, <2>1 DEF Cancel, Cancelled
  <2> QED BY <1>5, <2>2 DEF Cancel, RowStep
(* Rows that keep everything but their initialization, or stop pending. *)
<1>6. ASSUME NEW o \in Orders, NEW rec \in OrderType, Lapsed(order[o], rec),
             order' = [order EXCEPT ![o] = rec], UNCHANGED <<admissions, refunds>>
      PROVE  RowStep
  <2>1. \A p \in Orders : Lapsed(order[p], order'[p])
    BY <1>6 DEF Lapsed, TypeOK
  <2> QED BY <1>6, <2>1 DEF RowStep, Lapsing
<1>7. \A o \in Orders : order[o].status = "PENDING" <=> order[o].hold = "HELD"
  BY DEF StoryInv, PendingHolds, OutcomeConsistent, Untouched, TypeOK, OrderType, Statuses
<1>8. ASSUME NEW o \in Orders, MarkTransactionFailed(o)
      PROVE  RowStep /\ UNCHANGED <<now, quantity>>
  <2> DEFINE rec == [order[o] EXCEPT !.status = "FAILED", !.hold = Release(order[o])]
  <2>1. order[o] \in OrderType /\ order[o].status = "PENDING" /\ Release(order[o]) = "EXPIRED"
    BY <1>7, <1>8 DEF MarkTransactionFailed, TypeOK, Release
  <2>2. rec \in OrderType /\ Lapsed(order[o], rec)
    BY <2>1 DEF Lapsed, OrderType, Statuses, HoldStatuses
  <2> QED BY <1>6, <1>8, <2>2 DEF MarkTransactionFailed
<1>9. ASSUME NEW r \in Requests,
             \/ ClaimInitialization(r) \/ FinishInitialization(r) \/ InitializationFailed(r)
      PROVE  RowStep /\ UNCHANGED <<now, quantity>>
  <2> DEFINE o == request[r].order
  <2>1. o \in Orders /\ order[o] \in OrderType
    BY <1>9, RequestShapes
    DEF TypeOK, ClaimInitialization, FinishInitialization, InitializationFailed, At, Stages
  <2>2. UNCHANGED <<now, quantity, admissions, refunds>>
    BY <1>9 DEF ClaimInitialization, FinishInitialization, InitializationFailed
  <2>3. \A i \in InitStatuses : /\ [order[o] EXCEPT !.init = i] \in OrderType
                                /\ Lapsed(order[o], [order[o] EXCEPT !.init = i])
    BY <2>1 DEF Lapsed, OrderType
  <2>4. AfterInitializationFailed(o) \in OrderType /\ Lapsed(order[o], AfterInitializationFailed(o))
    <3> DEFINE i == IF order[o].status = "PENDING" THEN "FAILED" ELSE order[o].init
    <3>1. i \in InitStatuses
      BY <2>1, ExpireRelease DEF InitStatuses
    <3>2. AfterInitializationFailed(o) =
            [order[o] EXCEPT !.status = Expire(order[o]), !.init = i, !.hold = Release(order[o])]
      BY <2>1 DEF AfterInitializationFailed, OrderType
    <3>3. /\ Expire(order[o]) \in Statuses /\ Release(order[o]) \in HoldStatuses
          /\ IF order[o].status = "PENDING"
             THEN Expire(order[o]) = "EXPIRED" /\ Release(order[o]) = "EXPIRED"
             ELSE Expire(order[o]) = order[o].status /\ Release(order[o]) = order[o].hold
      BY <1>7, <2>1, ExpireRelease DEF Expire, Release
    <3> HIDE DEF i, o
    <3> QED BY <2>1, <3>1, <3>2, <3>3 DEF Lapsed, OrderType
  <2>5. \/ UNCHANGED order
        \/ order' = [order EXCEPT ![o] = [order[o] EXCEPT !.init = "INITIALIZING"]]
        \/ order' = [order EXCEPT ![o] = [order[o] EXCEPT !.init = "READY"]]
        \/ order' = [order EXCEPT ![o] = AfterInitializationFailed(o)]
    BY <1>9, <2>1 DEF ClaimInitialization, FinishInitialization, InitializationFailed, TypeOK
  <2>6. "INITIALIZING" \in InitStatuses /\ "READY" \in InitStatuses
    BY DEF InitStatuses
  <2> HIDE DEF o
  <2> QED BY <1>1, <1>6, <2>1, <2>2, <2>3, <2>4, <2>5, <2>6
<1>10. CASE ExpireHolds
  <2>1. \A o \in Orders : Lapsed(order[o], AfterExpiry(o))
    <3> SUFFICES ASSUME NEW o \in Orders PROVE Lapsed(order[o], AfterExpiry(o))
      OBVIOUS
    <3>1. CASE Overdue(o)
      <4>1. order[o].status = "PENDING" /\ Expire(order[o]) = "EXPIRED"
        BY <1>7, <3>1 DEF Overdue, Expire
      <4>2. AfterExpiry(o) = [order[o] EXCEPT !.status = "EXPIRED", !.hold = "EXPIRED"]
        BY <3>1, <4>1 DEF AfterExpiry
      <4> QED BY <4>1, <4>2 DEF Lapsed, TypeOK, OrderType
    <3>2. CASE ~ Overdue(o)
      BY <3>2 DEF AfterExpiry, Lapsed
    <3> QED BY <3>1, <3>2
  <2> QED BY <1>10, <2>1 DEF ExpireHolds, RowStep, Lapsing
<1>11. ASSUME NEW r \in Requests, NEW o \in Orders, NEW cart \in Carts, Start(r, o, cart)
       PROVE  UNCHANGED <<now, quantity, order, admissions, refunds>>
  BY <1>11 DEF Start
<1>12. ASSUME NEW r \in Requests, Load(r) \/ CallProvider(r) \/ Crash(r)
       PROVE  UNCHANGED <<now, quantity, order, admissions, refunds>>
  BY <1>12 DEF Load, CallProvider, Crash
<1>13. ASSUME NEW o \in Orders, NEW result \in {"paid", "paidOther"}, Pay(o, result)
       PROVE  UNCHANGED <<now, quantity, order, admissions, refunds>>
  BY <1>13 DEF Pay
<1>14. CASE OrganiserStep
  BY <1>1, <1>14 DEF OrganiserStep, EditTicket, RemoveTicket, EditEndDate
<1>15. CASE Tick
  BY <1>1, <1>15 DEF Tick, TypeOK
<1>16. CASE UNCHANGED vars
  BY <1>1, <1>16 DEF vars
<1> QED
  BY <1>1, <1>2, <1>3, <1>4, <1>5, <1>8, <1>9, <1>10, <1>11, <1>12, <1>13, <1>14, <1>15, <1>16
  DEF Next, RequestStep, OrderStep

-----------------------------------------------------------------------------
(* What each kind of step makes of the rows. *)
LEMMA PlacedRows ==
  ASSUME TypeOK, NEW o \in Orders, NEW cart, Placed(o, cart)
  PROVE  /\ order'[o] = PaidOrder(cart)
         /\ \A p \in Orders : p # o => order'[p] = order[p]
BY DEF Placed, TypeOK

LEMMA GivenRows ==
  ASSUME TypeOK, NEW o \in Orders, NEW cart, Given(o, cart)
  PROVE  /\ order'[o] = FreeOrder(cart)
         /\ \A p \in Orders : p # o => order'[p] = order[p]
BY DEF Given, TypeOK

LEMMA AdmittedRows ==
  ASSUME TypeOK, NEW o \in Orders, Admitted(o)
  PROVE  /\ order'[o].cart = order[o].cart /\ order'[o].expiresAt = order[o].expiresAt
         /\ order'[o].status = "SUCCESS" /\ order'[o].hold = "CONFIRMED"
         /\ order'[o].fulfilled = TRUE
         /\ \A p \in Orders : p # o => order'[p] = order[p]
BY DEF Admitted, TypeOK, OrderType

LEMMA OwedRows ==
  ASSUME TypeOK, NEW o \in Orders, Owed(o)
  PROVE  /\ order'[o].cart = order[o].cart /\ order'[o].expiresAt = order[o].expiresAt
         /\ order'[o].status = "REFUND_REQUIRED"
         /\ order'[o].hold = Release(order[o])
         /\ order'[o].fulfilled = order[o].fulfilled
         /\ \A p \in Orders : p # o => order'[p] = order[p]
BY DEF Owed, TypeOK, OrderType

LEMMA ReturnedRows ==
  ASSUME TypeOK, NEW o \in Orders, Returned(o)
  PROVE  /\ order'[o].cart = order[o].cart /\ order'[o].expiresAt = order[o].expiresAt
         /\ order'[o].status = "REFUNDED"
         /\ order'[o].hold = order[o].hold
         /\ order'[o].fulfilled = order[o].fulfilled
         /\ \A p \in Orders : p # o => order'[p] = order[p]
BY DEF Returned, TypeOK, OrderType

LEMMA CancelledRows ==
  ASSUME TypeOK, NEW o \in Orders, Cancelled(o)
  PROVE  /\ order'[o].cart = order[o].cart /\ order'[o].expiresAt = order[o].expiresAt
         /\ order'[o].status = "EXPIRED" /\ order'[o].hold = "CANCELLED"
         /\ order'[o].fulfilled = order[o].fulfilled
         /\ \A p \in Orders : p # o => order'[p] = order[p]
BY DEF Cancelled, TypeOK, OrderType

-----------------------------------------------------------------------------
LEMMA Existing ==
  ASSUME TypeOK, RowStep, NEW p \in Orders, order[p].status # "NONE"
  PROVE  order'[p].status # "NONE"
<1>1. ASSUME NEW o \in Orders, NEW cart \in Carts, Placed(o, cart)
      PROVE  order'[p].status # "NONE"
  BY <1>1, PlacedRows DEF PaidOrder, Placed, Exists
<1>2. ASSUME NEW o \in Orders, NEW cart \in Carts, Given(o, cart)
      PROVE  order'[p].status # "NONE"
  BY <1>2, GivenRows DEF FreeOrder, Given, Exists
<1>3. ASSUME NEW o \in Orders, Admitted(o)
      PROVE  order'[p].status # "NONE"
  BY <1>3, AdmittedRows
<1>4. ASSUME NEW o \in Orders, Owed(o)
      PROVE  order'[p].status # "NONE"
  BY <1>4, OwedRows
<1>5. ASSUME NEW o \in Orders, Returned(o)
      PROVE  order'[p].status # "NONE"
  BY <1>5, ReturnedRows
<1>6. ASSUME NEW o \in Orders, Cancelled(o)
      PROVE  order'[p].status # "NONE"
  BY <1>6, CancelledRows
<1>7. CASE Lapsing
  BY <1>7 DEF Lapsing, Lapsed
<1> QED BY <1>1, <1>2, <1>3, <1>4, <1>5, <1>6, <1>7 DEF RowStep

(* A new request works on the cart it priced, a later one on an order that    *)
(* create found or wrote; payments are opened for those.                      *)
LEMMA AttachedStep ==
  ASSUME TypeOK, Untouched, StoryInv, [Next]_vars
  PROVE  Attached'
<1> USE DEF clock, catalog, admissions, provider
<1>0. \A p \in Orders : order[p].status # "NONE" => order'[p].status # "NONE"
  BY RowSteps, Existing
<1>1. /\ \A o \in Orders : payment[o] # "none" => order[o].status # "NONE"
      /\ \A r \in Requests :
           /\ request[r].stage \in Stages => order[request[r].order].status # "NONE"
           /\ request[r].stage = "priced" => request[r].cart \in Carts
  BY DEF StoryInv, Attached, Exists
<1>2. /\ \A r \in Requests : request[r].stage \in Stages => request[r].order \in Orders
      /\ \A r \in Requests : request[r].stage = "priced" => request[r].order \in Orders
  BY RequestShapes DEF TypeOK, Stages
(* Enough: what is newly claimed exists. *)
<1>3. ASSUME \A o \in Orders : payment'[o] # "none" => payment[o] # "none" \/ order[o].status # "NONE",
             \A r \in Requests :
               \/ request'[r] = request[r]
               \/ request'[r].stage = "idle"
               \/ /\ request'[r].stage \in Stages
                  /\ request'[r].order \in Orders /\ order'[request'[r].order].status # "NONE"
               \/ request'[r].stage = "priced" /\ request'[r].cart \in Carts
      PROVE  Attached'
  <2>1. \A o \in Orders : payment'[o] # "none" => order'[o].status # "NONE"
    BY <1>0, <1>1, <1>3
  <2>2. ASSUME NEW r \in Requests, request'[r].stage \in Stages
        PROVE  order'[request'[r].order].status # "NONE"
    <3>1. CASE request'[r] = request[r]
      BY <1>0, <1>1, <1>2, <2>2, <3>1
    <3>2. CASE request'[r] # request[r]
      BY <1>3, <2>2, <3>2 DEF Stages
    <3> QED BY <3>1, <3>2
  <2>3. \A r \in Requests : request'[r].stage = "priced" => request'[r].cart \in Carts
    BY <1>1, <1>3 DEF Stages
  <2> QED BY <2>1, <2>2, <2>3 DEF Attached, Exists
<1>4. ASSUME NEW r \in Requests, NEW s \in Stages, request[r].stage \in Stages, Goto(r, s)
      PROVE  \A q \in Requests :
               \/ request'[q] = request[q]
               \/ /\ request'[q].stage \in Stages
                  /\ request'[q].order \in Orders /\ order'[request'[q].order].status # "NONE"
  <2>1. request[r].order \in Orders /\ order'[request[r].order].status # "NONE"
    BY <1>0, <1>1, <1>2, <1>4
  <2>2. request[r] \in [stage : Stages, order : Orders, link : BOOLEAN]
    BY <1>4, RequestShapes DEF TypeOK
  <2>3. request'[r].stage = s /\ request'[r].order = request[r].order
    BY <1>4, <2>2 DEF Goto, TypeOK
  <2>4. \A q \in Requests : q # r => request'[q] = request[q]
    BY <1>4 DEF Goto, TypeOK
  <2> QED BY <1>4, <2>1, <2>3, <2>4
<1>5. ASSUME NEW r \in Requests, Done(r)
      PROVE  \A q \in Requests : request'[q] = request[q] \/ request'[q].stage = "idle"
  BY <1>5 DEF Done, Idle, TypeOK
<1>6. ASSUME NEW o \in Orders
      PROVE  /\ Deliver(o) \in [Orders -> Payments]
             /\ \A p \in Orders : Deliver(o)[p] # "none" => payment[p] # "none"
  BY DEF Deliver, TypeOK, Payments
<1>7. ASSUME NEW r \in Requests, NEW o \in Orders, NEW cart \in Carts, Start(r, o, cart)
      PROVE  Attached'
  <2>1. \A p \in Orders : payment'[p] # "none" => payment[p] # "none"
    BY <1>6, <1>7 DEF Start
  <2>2. \A q \in Requests : \/ request'[q] = request[q]
                            \/ request'[q].stage = "priced" /\ request'[q].cart \in Carts
    BY <1>7 DEF Start, TypeOK
  <2> QED BY <1>3, <2>1, <2>2
<1>8. ASSUME NEW r \in Requests, Create(r)
      PROVE  Attached'
  <2> DEFINE o == request[r].order
             cart == request[r].cart
             made == [stage |-> "created", order |-> o, link |-> FALSE]
  <2>1. o \in Orders
    BY <1>2, <1>8 DEF Create, At
  <2>2. CASE Done(r)
    BY <1>3, <1>5, <1>8, <2>2 DEF Create
  <2>3. CASE request' = [request EXCEPT ![r] = made] /\ order'[o].status # "NONE"
    <3>1. \A q \in Requests : q # r => request'[q] = request[q]
      BY <2>3 DEF TypeOK
    <3>2. /\ request'[r].stage \in Stages /\ request'[r].order = o
      BY <2>3 DEF TypeOK, Stages
    <3>3. \A q \in Requests :
               \/ request'[q] = request[q]
               \/ /\ request'[q].stage \in Stages
                  /\ request'[q].order \in Orders /\ order'[request'[q].order].status # "NONE"
      BY <2>1, <2>3, <3>1, <3>2
    <3>4. UNCHANGED payment
      BY <1>8 DEF Create
    <3> QED BY <1>3, <3>3, <3>4
  <2>4. ASSUME \/ FindReplay(o)
               \/ order' = [order EXCEPT ![o] = PaidOrder(cart)]
               \/ order' = [order EXCEPT ![o] = FreeOrder(cart)]
        PROVE  order'[o].status # "NONE"
    <3>1. CASE FindReplay(o)
      BY <1>0, <2>1, <3>1 DEF FindReplay, Exists
    <3>2. CASE order' = [order EXCEPT ![o] = PaidOrder(cart)]
      BY <2>1, <3>2 DEF TypeOK, PaidOrder
    <3>3. CASE order' = [order EXCEPT ![o] = FreeOrder(cart)]
      BY <2>1, <3>3 DEF TypeOK, FreeOrder
    <3> QED BY <2>4, <3>1, <3>2, <3>3
  <2>5. \/ Done(r)
        \/ /\ request' = [request EXCEPT ![r] = made]
           /\ \/ FindReplay(o)
              \/ order' = [order EXCEPT ![o] = PaidOrder(cart)]
              \/ order' = [order EXCEPT ![o] = FreeOrder(cart)]
    BY <1>8 DEF Create
  <2> HIDE DEF o, cart, made
  <2> QED BY <2>2, <2>3, <2>4, <2>5
<1>9. ASSUME NEW r \in Requests, Load(r)
      PROVE  Attached'
  <2>1. request[r].stage \in Stages
    BY <1>9 DEF Load, At, Stages
  <2>2. request[r] \in [stage : Stages, order : Orders, link : BOOLEAN]
    BY <2>1, RequestShapes DEF TypeOK
  <2>3. \A q \in Requests : q # r => request'[q] = request[q]
    BY <1>9 DEF Load, TypeOK
  <2>4. request'[r].stage = "loaded" /\ request'[r].order = request[r].order
    BY <1>9, <2>2 DEF Load, TypeOK
  <2>5. UNCHANGED <<payment, order>>
    BY <1>9 DEF Load
  <2>6. order'[request'[r].order].status # "NONE"
    BY <1>1, <2>1, <2>4, <2>5
  <2>7. \A q \in Requests :
          \/ request'[q] = request[q]
          \/ /\ request'[q].stage \in Stages
             /\ request'[q].order \in Orders /\ order'[request'[q].order].status # "NONE"
    BY <2>2, <2>3, <2>4, <2>6 DEF Stages
  <2> QED BY <1>3, <2>5, <2>7
<1>10. ASSUME NEW r \in Requests,
              \/ ClaimInitialization(r) \/ CallProvider(r) \/ FinishInitialization(r)
       PROVE  Attached'
  <2>1. request[r].stage \in Stages
    BY <1>10 DEF ClaimInitialization, CallProvider, FinishInitialization, At, Stages
  <2>2. request[r].order \in Orders /\ order[request[r].order].status # "NONE"
    BY <1>1, <1>2, <2>1
  <2>3. \A p \in Orders : payment'[p] # "none" => payment[p] # "none" \/ order[p].status # "NONE"
    <3>1. CASE UNCHANGED payment \/ payment' = Deliver(request[r].order)
      BY <1>6, <2>2, <3>1
    <3>2. CASE payment' = [payment EXCEPT ![request[r].order] = IF @ = "none" THEN "open" ELSE @]
      BY <2>2, <3>2 DEF TypeOK
    <3> QED BY <1>10, <3>1, <3>2 DEF ClaimInitialization, CallProvider, FinishInitialization
  <2>4. \/ Done(r) \/ \E s \in Stages : Goto(r, s)
    BY <1>10 DEF ClaimInitialization, CallProvider, FinishInitialization, Stages
  <2>5. CASE Done(r)
    BY <1>3, <1>5, <2>3, <2>5
  <2>6. CASE \E s \in Stages : Goto(r, s)
    BY <1>3, <1>4, <2>1, <2>3, <2>6
  <2> QED BY <2>4, <2>5, <2>6
<1>11. ASSUME NEW r \in Requests, InitializationFailed(r) \/ Crash(r)
       PROVE  Attached'
  <2>1. Done(r) /\ UNCHANGED payment
    BY <1>11 DEF InitializationFailed, Crash
  <2> QED BY <1>3, <1>5, <2>1
<1>12. ASSUME NEW o \in Orders, NEW result \in {"paid", "paidOther"}, Pay(o, result)
       PROVE  Attached'
  <2>1. \A p \in Orders : payment'[p] # "none" => payment[p] # "none"
    BY <1>12 DEF Pay, TypeOK
  <2> QED BY <1>3, <1>12, <2>1 DEF Pay
<1>13. CASE UNCHANGED <<payment, request>>
  BY <1>3, <1>13
<1> QED
  BY <1>7, <1>8, <1>9, <1>10, <1>11, <1>12, <1>13
  DEF Next, RequestStep, OrderStep, OrganiserStep, Complete, ConfirmRefund, Cancel,
      MarkTransactionFailed, EditTicket, RemoveTicket, EditEndDate, ExpireHolds, Tick, vars

-----------------------------------------------------------------------------
(* The story of one order. *)
Tells(o) ==
  /\ order[o].status = "SUCCESS" <=> order[o].hold = "CONFIRMED"
  /\ order[o].status = "SUCCESS" <=> o \in jobs
  /\ order[o].status = "SUCCESS" <=> order[o].fulfilled
  /\ \A t \in Tickets :
       IssuedUnits(o, t) = IF order[o].status = "SUCCESS" THEN Units(o, t) ELSE {}
  /\ order[o].status \in {"REFUND_REQUIRED", "REFUNDED"} <=> o \in refunds
  /\ order[o].status \in {"FAILED", "EXPIRED", "REFUND_REQUIRED", "REFUNDED"} =>
       order[o].hold \in {"EXPIRED", "CANCELLED"}
  /\ order[o].status = "PENDING" => order[o].hold = "HELD"

LEMMA TellsAll == (OutcomeConsistent /\ PendingHolds) <=> \A o \in Orders : Tells(o)
BY DEF OutcomeConsistent, PendingHolds, Tells

(* The tickets that one transaction issues. *)
LEMMA IssuedRows ==
  ASSUME TypeOK, Untouched, NEW o \in Orders, NEW cart \in [Tickets -> 0..MaxTickets],
         IssuedNow(o, cart), NEW t \in Tickets
  PROVE  /\ IssuedUnits(o, t)' = {<<o, t, n>> : n \in 1..cart[t]}
         /\ \A p \in Orders : p # o => IssuedUnits(p, t)' = IssuedUnits(p, t)
<1>1. \A u \in issued : u[1] # o
  BY DEF IssuedNow, Untouched
<1>2. issued' = issued \cup {u \in {o} \X Tickets \X (1..MaxTickets) : u[3] <= cart[u[2]]}
  BY DEF IssuedNow
<1>3. cart[t] \in 0..MaxTickets /\ MaxTickets \in Nat
  OBVIOUS
<1>4. {u \in issued' : u[1] = o /\ u[2] = t} = {<<o, t, n>> : n \in 1..cart[t]}
  BY <1>1, <1>2, <1>3
<1>5. \A p \in Orders : p # o =>
        {u \in issued' : u[1] = p /\ u[2] = t} = {u \in issued : u[1] = p /\ u[2] = t}
  BY <1>2
<1> QED BY <1>4, <1>5 DEF IssuedUnits

LEMMA StoryStep ==
  ASSUME TypeOK, Untouched, StoryInv, RowStep
  PROVE  OutcomeConsistent' /\ PendingHolds'
<1> USE DEF admissions
<1>0. \A o \in Orders : Tells(o)
  BY TellsAll DEF StoryInv
<1> SUFFICES ASSUME NEW p \in Orders
             PROVE  Tells(p)'
  BY TellsAll DEF Tells, OutcomeConsistent, PendingHolds
<1>1. Tells(p)
  BY <1>0
(* An order that this step is not about. *)
<1>2. ASSUME order'[p] = order[p], p \in jobs' <=> p \in jobs, p \in refunds' <=> p \in refunds,
             \A t \in Tickets : IssuedUnits(p, t)' = IssuedUnits(p, t)
      PROVE  Tells(p)'
  BY <1>1, <1>2 DEF Tells, Units
<1>3. UNCHANGED issued => \A t \in Tickets : IssuedUnits(p, t)' = IssuedUnits(p, t)
  BY DEF IssuedUnits
<1>4. ASSUME NEW o \in Orders, NEW cart \in Carts, Placed(o, cart)
      PROVE  Tells(p)'
  <2>1. CASE p = o
    <3>1. order'[p] = PaidOrder(cart)
      BY <1>4, <2>1, PlacedRows
    <3>2. order'[p].status = "PENDING" /\ order'[p].hold = "HELD" /\ order'[p].fulfilled = FALSE
      BY <3>1 DEF PaidOrder
    <3>3. order[p].status = "NONE"
      BY <1>4, <2>1 DEF Placed, Exists
    <3>4. UNCHANGED <<jobs, refunds, issued>>
      BY <1>4 DEF Placed
    <3> QED BY <1>1, <1>3, <3>2, <3>3, <3>4 DEF Tells
  <2>2. CASE p # o
    BY <1>2, <1>3, <1>4, <2>2, PlacedRows DEF Placed
  <2> QED BY <2>1, <2>2
<1>5. ASSUME NEW o \in Orders, NEW cart \in Carts, Given(o, cart)
      PROVE  Tells(p)'
  <2>0. cart \in [Tickets -> 0..MaxTickets] /\ IssuedNow(o, cart)
    BY <1>5 DEF Given
  <2>1. CASE p = o
    <3>1. order'[p] = FreeOrder(cart)
      BY <1>5, <2>1, GivenRows
    <3>2. /\ order'[p].status = "SUCCESS" /\ order'[p].hold = "CONFIRMED"
          /\ order'[p].fulfilled = TRUE /\ order'[p].cart = cart
      BY <3>1 DEF FreeOrder
    <3>3. p \notin refunds'
      BY <1>1, <1>5, <2>1 DEF Given, Exists, Tells
    <3>4. p \in jobs'
      BY <2>0, <2>1 DEF IssuedNow
    <3>5. \A t \in Tickets : IssuedUnits(p, t)' = Units(p, t)'
      BY <2>0, <2>1, <3>2, IssuedRows DEF Units
    <3> QED BY <3>2, <3>3, <3>4, <3>5 DEF Tells
  <2>2. CASE p # o
    <3>1. \A t \in Tickets : IssuedUnits(p, t)' = IssuedUnits(p, t)
      BY <2>0, <2>2, IssuedRows
    <3>2. order'[p] = order[p]
      BY <1>5, <2>2, GivenRows
    <3>3. (p \in jobs' <=> p \in jobs) /\ UNCHANGED refunds
      BY <1>5, <2>0, <2>2 DEF Given, IssuedNow
    <3> QED BY <1>2, <3>1, <3>2, <3>3
  <2> QED BY <2>1, <2>2
<1>6. ASSUME NEW o \in Orders, Admitted(o)
      PROVE  Tells(p)'
  <2>0. order[o].cart \in [Tickets -> 0..MaxTickets] /\ IssuedNow(o, order[o].cart)
    BY <1>6 DEF Admitted, TypeOK, OrderType
  <2>1. CASE p = o
    <3>1. /\ order'[p].status = "SUCCESS" /\ order'[p].hold = "CONFIRMED"
          /\ order'[p].fulfilled = TRUE /\ order'[p].cart = order[o].cart
      BY <1>6, <2>1, AdmittedRows
    <3>2. p \notin refunds'
      BY <1>1, <1>6, <2>1 DEF Admitted, Unsettled, Tells
    <3>3. p \in jobs'
      BY <2>0, <2>1 DEF IssuedNow
    <3>4. \A t \in Tickets : IssuedUnits(p, t)' = Units(p, t)'
      BY <2>0, <2>1, <3>1, IssuedRows DEF Units
    <3> QED BY <3>1, <3>2, <3>3, <3>4 DEF Tells
  <2>2. CASE p # o
    <3>1. \A t \in Tickets : IssuedUnits(p, t)' = IssuedUnits(p, t)
      BY <2>0, <2>2, IssuedRows
    <3>2. order'[p] = order[p]
      BY <1>6, <2>2, AdmittedRows
    <3>3. (p \in jobs' <=> p \in jobs) /\ UNCHANGED refunds
      BY <1>6, <2>0, <2>2 DEF Admitted, IssuedNow
    <3> QED BY <1>2, <3>1, <3>2, <3>3
  <2> QED BY <2>1, <2>2
(* Without an admission; its tickets stay none. *)
<1>7. ASSUME UNCHANGED <<jobs, issued>>, order[p].status \notin {"NONE", "SUCCESS"},
             order'[p].status \in {"FAILED", "EXPIRED", "REFUND_REQUIRED", "REFUNDED"},
             order'[p].hold \in {"EXPIRED", "CANCELLED"},
             order'[p].fulfilled = order[p].fulfilled,
             order'[p].status \in {"REFUND_REQUIRED", "REFUNDED"} <=> p \in refunds'
      PROVE  Tells(p)'
  BY <1>1, <1>3, <1>7 DEF Tells, TypeOK, OrderType
<1>8. ASSUME NEW o \in Orders, Owed(o)
      PROVE  Tells(p)'
  <2>1. CASE p = o
    <3>1. Release(order[o]) \in {"EXPIRED", "CANCELLED"}
      BY <1>1, <1>8, <2>1 DEF Owed, Release, Unsettled, Tells
    <3> QED BY <1>7, <1>8, <2>1, <3>1, OwedRows DEF Owed, Unsettled
  <2>2. CASE p # o
    BY <1>2, <1>3, <1>8, <2>2, OwedRows DEF Owed
  <2> QED BY <2>1, <2>2
<1>9. ASSUME NEW o \in Orders, Returned(o)
      PROVE  Tells(p)'
  <2>1. CASE p = o
    BY <1>1, <1>7, <1>9, <2>1, ReturnedRows DEF Returned, Tells
  <2>2. CASE p # o
    BY <1>2, <1>3, <1>9, <2>2, ReturnedRows DEF Returned
  <2> QED BY <2>1, <2>2
<1>10. ASSUME NEW o \in Orders, Cancelled(o)
      PROVE  Tells(p)'
  <2>1. CASE p = o
    BY <1>1, <1>7, <1>10, <2>1, CancelledRows DEF Cancelled, Unsettled, Tells
  <2>2. CASE p # o
    BY <1>2, <1>3, <1>10, <2>2, CancelledRows DEF Cancelled
  <2> QED BY <2>1, <2>2
<1>11. CASE Lapsing
  <2>1. Lapsed(order[p], order'[p]) /\ UNCHANGED <<jobs, issued, refunds>>
    BY <1>11 DEF Lapsing
  <2>2. CASE order'[p].status = order[p].status /\ order'[p].hold = order[p].hold
    BY <1>1, <1>3, <2>1, <2>2 DEF Lapsed, Tells, Units
  <2>3. CASE /\ order[p].status = "PENDING" /\ order'[p].status \in {"FAILED", "EXPIRED"}
             /\ order'[p].hold = "EXPIRED"
    BY <1>1, <1>7, <2>1, <2>3 DEF Lapsed, Tells
  <2> QED BY <2>1, <2>2, <2>3 DEF Lapsed
<1> QED BY <1>4, <1>5, <1>6, <1>8, <1>9, <1>10, <1>11 DEF RowStep

-----------------------------------------------------------------------------
(* Tickets of one type, counted. *)
TypeUnits(t) == {u \in issued : u[2] = t}

LEMMA IssueCounts ==
  ASSUME TypeOK, Untouched, SoldMatchesIssued, NEW o \in Orders,
         NEW cart \in [Tickets -> 0..MaxTickets], IssuedNow(o, cart)
  PROVE  SoldMatchesIssued'
<1> SUFFICES ASSUME NEW t \in Tickets
             PROVE  sold'[t] = Cardinality(TypeUnits(t)')
  BY DEF SoldMatchesIssued, TypeUnits
<1> DEFINE fresh == {<<o, t, n>> : n \in 1..cart[t]}
<1>1. TypeUnits(t)' = TypeUnits(t) \cup fresh
  <2>1. cart[t] \in 0..MaxTickets /\ MaxTickets \in Nat
    OBVIOUS
  <2>2. issued' = issued \cup {u \in {o} \X Tickets \X (1..MaxTickets) : u[3] <= cart[u[2]]}
    BY DEF IssuedNow
  <2> QED BY <2>1, <2>2 DEF TypeUnits
<1>2. TypeUnits(t) \cap fresh = {}
  BY DEF TypeUnits, IssuedNow, Untouched
<1>3. IsFiniteSet(fresh) /\ Cardinality(fresh) = cart[t]
  <2>1. cart[t] \in Nat
    OBVIOUS
  <2>2. \A u : u \in fresh <=> \E n \in 1..cart[t] : u = <<o, t, n>>
    OBVIOUS
  <2> HIDE DEF fresh
  <2> QED BY <2>1, <2>2, RunCardinality
<1>4. IsFiniteSet(TypeUnits(t))
  BY AllUnitsFinite DEF TypeUnits, AllUnits, TypeOK
<1>5. Cardinality(TypeUnits(t)) = sold[t]
  BY DEF SoldMatchesIssued, TypeUnits
<1>6. sold'[t] = sold[t] + cart[t]
  BY DEF IssuedNow
<1> HIDE DEF fresh
<1>7. Cardinality(TypeUnits(t) \cup fresh) = Cardinality(TypeUnits(t)) + Cardinality(fresh)
  BY <1>2, <1>3, <1>4, DisjointSum
<1> QED BY <1>1, <1>3, <1>5, <1>6, <1>7

LEMMA SoldStep ==
  ASSUME TypeOK, Untouched, SoldMatchesIssued, RowStep
  PROVE  SoldMatchesIssued'
<1>1. CASE UNCHANGED admissions
  BY <1>1 DEF SoldMatchesIssued, admissions
<1>2. ASSUME NEW o \in Orders, NEW cart \in Carts, Given(o, cart)
      PROVE  SoldMatchesIssued'
  BY <1>2, IssueCounts DEF Given
<1>3. ASSUME NEW o \in Orders, Admitted(o)
      PROVE  SoldMatchesIssued'
  <2>1. order[o].cart \in [Tickets -> 0..MaxTickets]
    BY DEF TypeOK, OrderType
  <2> QED BY <1>3, <2>1, IssueCounts DEF Admitted
<1> QED BY <1>1, <1>2, <1>3 DEF RowStep, Placed, Owed, Returned, Cancelled, Lapsing, admissions

-----------------------------------------------------------------------------
(* A buyer's second hold is refused while the first is live.                 *)
LEMMA OneHoldStep ==
  ASSUME TypeOK, Untouched, StoryInv, OneActiveHold, [Next]_vars
  PROVE  OneActiveHold'
<1>0. RowStep /\ now' >= now
  <2>1. RowStep /\ (UNCHANGED now \/ now' >= now)
    BY RowSteps
  <2>2. now \in Int
    BY DEF TypeOK
  <2> QED BY <2>1, <2>2
<1> DEFINE Was(p) == order[p].hold = "HELD" /\ order[p].expiresAt > now
           Is(p) == order'[p].hold = "HELD" /\ order'[p].expiresAt > now'
<1>1. \A p, q \in Orders : Was(p) /\ Was(q) /\ p[1] = q[1] => p = q
  BY DEF OneActiveHold, ActiveHold
<1>2. SUFFICES \A p, q \in Orders : Is(p) /\ Is(q) /\ p[1] = q[1] => p = q
  BY DEF OneActiveHold, ActiveHold
<1>3. \A p \in Orders : order[p].expiresAt \in Int /\ now \in Int /\ now' \in Int
  BY TypeStep DEF TypeOK, OrderType
<1>4. ASSUME \A p \in Orders : \/ order'[p] = order[p]
                               \/ order'[p].hold # "HELD"
                               \/ Lapsed(order[p], order'[p])
      PROVE  \A p \in Orders : Is(p) => Was(p)
  BY <1>0, <1>3, <1>4 DEF Lapsed
<1>5. ASSUME NEW o \in Orders, NEW cart \in Carts, Placed(o, cart)
      PROVE  \A p, q \in Orders : Is(p) /\ Is(q) /\ p[1] = q[1] => p = q
  <2>1. \A p \in Orders : p # o => order'[p] = order[p]
    BY <1>5, PlacedRows
  <2>2. \A p \in Orders : p # o /\ Is(p) => Was(p)
    BY <1>0, <1>3, <2>1
  <2>3. \A p \in Orders : p[1] = o[1] => ~ Was(p)
    BY <1>5 DEF Placed, HasActiveCheckout, ActiveHold
  <2> HIDE DEF Was, Is
  <2> QED BY <1>1, <2>2, <2>3
<1>6. ASSUME NEW o \in Orders, NEW cart \in Carts, Given(o, cart)
      PROVE  \A p \in Orders : Is(p) => Was(p)
  <2>1. FreeOrder(cart).hold = "CONFIRMED"
    BY DEF FreeOrder
  <2>2. \A p \in Orders : order'[p] = order[p] \/ order'[p].hold # "HELD"
    BY <1>6, <2>1, GivenRows
  <2> QED BY <1>4, <2>2
<1>7. ASSUME NEW o \in Orders, Admitted(o) \/ Cancelled(o)
      PROVE  \A p \in Orders : Is(p) => Was(p)
  <2>1. \A p \in Orders : order'[p] = order[p] \/ order'[p].hold # "HELD"
    BY <1>7, AdmittedRows, CancelledRows
  <2> QED BY <1>4, <2>1
<1>8. ASSUME NEW o \in Orders, Owed(o)
      PROVE  \A p \in Orders : Is(p) => Was(p)
  <2>1. \A p \in Orders : order'[p] = order[p] \/ order'[p].hold # "HELD"
    BY <1>8, OwedRows DEF Release
  <2> QED BY <1>4, <2>1
<1>9. ASSUME NEW o \in Orders, Returned(o)
      PROVE  \A p \in Orders : Is(p) => Was(p)
  <2>1. order[o].hold # "HELD"
    BY <1>9 DEF Returned, StoryInv, OutcomeConsistent
  <2>2. \A p \in Orders : order'[p] = order[p] \/ order'[p].hold # "HELD"
    BY <1>9, <2>1, ReturnedRows
  <2> QED BY <1>4, <2>2
<1>10. CASE Lapsing
  BY <1>1, <1>4, <1>10 DEF Lapsing
<1> HIDE DEF Was, Is
<1> QED BY <1>0, <1>1, <1>5, <1>6, <1>7, <1>8, <1>9, <1>10 DEF RowStep

-----------------------------------------------------------------------------
(* Steps: deadlines, free tickets and holds. *)
LEMMA DeadlineStep ==
  ASSUME TypeOK, RowStep
  PROVE  DeadlineFixed
<1> SUFFICES ASSUME NEW p \in Orders, Exists(p)
             PROVE  order'[p].expiresAt = order[p].expiresAt /\ order'[p].cart = order[p].cart
  BY DEF DeadlineFixed
<1>1. ASSUME NEW o \in Orders, NEW cart \in Carts, Placed(o, cart) \/ Given(o, cart)
      PROVE  order'[p] = order[p]
  <2>1. p # o
    BY <1>1 DEF Placed, Given
  <2> QED BY <1>1, <2>1, PlacedRows, GivenRows
<1>2. ASSUME NEW o \in Orders, Admitted(o) \/ Owed(o) \/ Returned(o) \/ Cancelled(o)
      PROVE  order'[p].expiresAt = order[p].expiresAt /\ order'[p].cart = order[p].cart
  BY <1>2, AdmittedRows, OwedRows, ReturnedRows, CancelledRows
<1>3. CASE Lapsing
  BY <1>3 DEF Lapsing, Lapsed
<1> QED BY <1>1, <1>2, <1>3 DEF RowStep

LEMMA FreeStep ==
  ASSUME TypeOK, RowStep
  PROVE  FreeIsFree
<1> SUFFICES ASSUME NEW p \in Orders, NEW t \in Tickets, payment[p] = "none",
                    p \in jobs' \ jobs, order'[p].cart[t] > 0
             PROVE  price[t] = 0
  BY DEF FreeIsFree
<1>1. ~ UNCHANGED admissions
  BY DEF admissions
<1>2. ASSUME NEW o \in Orders, NEW cart \in Carts, Given(o, cart)
      PROVE  price[t] = 0
  <2>1. p = o
    BY <1>2 DEF Given, IssuedNow
  <2>2. order'[p] = FreeOrder(cart)
    BY <1>2, <2>1, GivenRows
  <2>3. order'[p].cart = cart
    BY <2>2 DEF FreeOrder
  <2> QED BY <1>2, <2>3 DEF Given
<1>3. ASSUME NEW o \in Orders, Admitted(o)
      PROVE  FALSE
  BY <1>3 DEF Admitted, IssuedNow
<1> QED BY <1>1, <1>2, <1>3 DEF RowStep, Placed, Owed, Returned, Cancelled, Lapsing

(* What a live hold holds is held beside what the others hold. *)
LEMMA OwnHold ==
  ASSUME TypeOK, NEW o \in Orders, ActiveHold(o), NEW t \in Tickets
  PROVE  /\ reservedTicketQuantity(t, {}) = reservedTicketQuantity(t, {o}) + order[o].cart[t]
         /\ reservedTicketQuantity(t, {o}) \in Nat
<1>1. HeldUnits(t, {}) = HeldUnits(t, {o}) \cup Units(o, t)
  BY DEF HeldUnits
<1>2. HeldUnits(t, {o}) \cap Units(o, t) = {}
  BY DEF HeldUnits, Units
<1>3. IsFiniteSet(HeldUnits(t, {o})) /\ Cardinality(HeldUnits(t, {o})) \in Nat
  BY HeldAreUnits, AllUnitsFinite
<1>4. IsFiniteSet(Units(o, t)) /\ Cardinality(Units(o, t)) = order[o].cart[t]
  <2> DEFINE k == order[o].cart[t]
             own == Units(o, t)
  <2>1. k \in Nat
    BY DEF TypeOK, OrderType
  <2>2. \A u : u \in own <=> \E n \in 1..k : u = <<o, t, n>>
    BY DEF Units
  <2> HIDE DEF k, own
  <2>3. IsFiniteSet(own) /\ Cardinality(own) = k
    BY <2>1, <2>2, RunCardinality
  <2> QED BY <2>3 DEF k, own
<1>5. Cardinality(HeldUnits(t, {o}) \cup Units(o, t)) =
        Cardinality(HeldUnits(t, {o})) + Cardinality(Units(o, t))
  BY <1>2, <1>3, <1>4, DisjointSum
<1>6. Cardinality(HeldUnits(t, {})) = Cardinality(HeldUnits(t, {o})) + order[o].cart[t]
  BY <1>1, <1>4, <1>5, Zenon
<1> QED BY <1>3, <1>6 DEF reservedTicketQuantity

LEMMA HoldHasRoom ==
  ASSUME TypeOK, Untouched, StoryInv, NoOversell, NEW o \in Orders, ActiveHold(o), ~ Ended
  PROVE  CapacityFor(o)
<1>1. o \notin jobs
  BY DEF ActiveHold, StoryInv, OutcomeConsistent
<1> SUFFICES ASSUME NEW t \in Tickets
             PROVE  Room(t, {o}, quantityToIssue(o, t))
  BY DEF CapacityFor, Wanted
<1>2. quantityToIssue(o, t) = order[o].cart[t]
  BY <1>1, PlanIsCart
<1>3. /\ sold[t] + reservedTicketQuantity(t, {}) <= quantity[t]
      /\ sold[t] \in Nat /\ quantity[t] \in Nat /\ order[o].cart[t] \in Nat
  BY DEF NoOversell, TypeOK, OrderType
<1>4. quantity[t] - sold[t] - reservedTicketQuantity(t, {o}) >= order[o].cart[t]
  BY <1>3, OwnHold
<1> QED BY <1>2, <1>4 DEF Room

LEMMA HonourStep ==
  ASSUME TypeOK, Untouched, StoryInv, NoOversell, RowStep, NEW p \in Orders,
         ActiveHold(p), payment[p] = "paid", ~ Ended
  PROVE  p \notin refunds' \ refunds
<1>1. ~ MustRefund(p)
  BY HoldHasRoom DEF MustRefund, ActiveHold
<1>2. ASSUME NEW o \in Orders, Owed(o)
      PROVE  p \notin refunds' \ refunds
  BY <1>1, <1>2 DEF Owed
<1> QED BY <1>2 DEF RowStep, Placed, Given, Admitted, Returned, Cancelled, Lapsing

-----------------------------------------------------------------------------
(* One request per order gets to call the provider: the one that turns       *)
(* NOT_STARTED into INITIALIZING, and nothing turns it back.                  *)
Calling(r) == request[r].stage = "calling"
OneCaller ==
  /\ \A o \in Orders : /\ order[o].status = "NONE" => order[o].init = "NOT_STARTED"
                       /\ order[o].init = "NOT_STARTED" => opened[o] = 0
  /\ \A r \in Requests : Calling(r) =>
       opened[request[r].order] = 0 /\ order[request[r].order].init # "NOT_STARTED"
  /\ \A r, q \in Requests : Calling(r) /\ Calling(q) /\ request[r].order = request[q].order => r = q
  /\ OpenedOnce

(* The column paymentInitStatus. *)
Kept(old, new) ==
  IF old.status = "NONE" THEN new = old \/ new.status # "NONE"
  ELSE new.init \in {old.init, "INITIALIZING", "READY", "FAILED"}

LEMMA InitSteps ==
  ASSUME TypeOK, Untouched, StoryInv, [Next]_vars
  PROVE  \A p \in Orders : Kept(order[p], order'[p])
<1> USE DEF clock, catalog, admissions, provider
<1>1. ASSUME NEW o \in Orders, NEW rec, Kept(order[o], rec), order' = [order EXCEPT ![o] = rec]
      PROVE  \A p \in Orders : Kept(order[p], order'[p])
  BY <1>1 DEF Kept, TypeOK
<1>2. ASSUME UNCHANGED order
      PROVE  \A p \in Orders : Kept(order[p], order'[p])
  BY <1>2 DEF Kept
<1>3. ASSUME NEW r \in Requests, Create(r)
      PROVE  \A p \in Orders : Kept(order[p], order'[p])
  <2> DEFINE o == request[r].order
             cart == request[r].cart
  <2>1. o \in Orders
    BY <1>3, RequestShapes DEF Create, At, TypeOK
  <2>2. PaidOrder(cart).status # "NONE" /\ FreeOrder(cart).status # "NONE"
    BY DEF PaidOrder, FreeOrder
  <2>3. \/ UNCHANGED order
        \/ /\ order[o].status = "NONE"
           /\ \/ order' = [order EXCEPT ![o] = PaidOrder(cart)]
              \/ order' = [order EXCEPT ![o] = FreeOrder(cart)]
    BY <1>3 DEF Create, FindReplay, Exists
  <2> HIDE DEF o, cart
  <2> QED BY <1>1, <1>2, <2>1, <2>2, <2>3 DEF Kept
<1>4. ASSUME NEW r \in Requests,
             \/ ClaimInitialization(r) \/ FinishInitialization(r) \/ InitializationFailed(r)
      PROVE  \A p \in Orders : Kept(order[p], order'[p])
  <2> DEFINE o == request[r].order
  <2>1. request[r].stage \in Stages
    BY <1>4 DEF ClaimInitialization, FinishInitialization, InitializationFailed, At, Stages
  <2>2. o \in Orders /\ order[o].status # "NONE" /\ order[o] \in OrderType
    BY <2>1, RequestShapes DEF TypeOK, StoryInv, Attached, Exists
  <2>3. AfterInitializationFailed(o).init \in {"FAILED", order[o].init}
    BY <2>2 DEF AfterInitializationFailed, OrderType
  <2>4. \A i \in InitStatuses : [order[o] EXCEPT !.init = i].init = i
    BY <2>2 DEF OrderType
  <2>5. \/ UNCHANGED order
        \/ order' = [order EXCEPT ![o] = [order[o] EXCEPT !.init = "INITIALIZING"]]
        \/ order' = [order EXCEPT ![o] = [order[o] EXCEPT !.init = "READY"]]
        \/ order' = [order EXCEPT ![o] = AfterInitializationFailed(o)]
    BY <1>4, <2>2 DEF ClaimInitialization, FinishInitialization, InitializationFailed, TypeOK
  <2> HIDE DEF o
  <2> QED BY <1>1, <1>2, <2>2, <2>3, <2>4, <2>5 DEF Kept, InitStatuses
<1>5. ASSUME NEW o \in Orders,
             Complete(o) \/ ConfirmRefund(o) \/ Cancel(o) \/ MarkTransactionFailed(o)
      PROVE  \A p \in Orders : Kept(order[p], order'[p])
  <2>1. order[o].status # "NONE" /\ order[o] \in OrderType
    BY <1>5 DEF Complete, CanComplete, ConfirmRefund, Cancel, Cancellable, MarkTransactionFailed,
       StoryInv, Attached, Exists, TypeOK
  <2>2. \A s, h : /\ [order[o] EXCEPT !.status = s].init = order[o].init
                  /\ [order[o] EXCEPT !.status = s, !.hold = h].init = order[o].init
                  /\ [order[o] EXCEPT !.status = s, !.hold = h, !.fulfilled = TRUE].init =
                       order[o].init
    BY <2>1 DEF OrderType
  <2>3. \E rec : order' = [order EXCEPT ![o] = rec] /\ rec.init = order[o].init
    <3>1. CASE Complete(o)
      <4>1. CASE order' = [order EXCEPT ![o] =
              [@ EXCEPT !.status = "REFUND_REQUIRED", !.hold = Release(order[o])]]
        BY <2>2, <4>1
      <4>2. CASE order' = [order EXCEPT ![o] =
              [@ EXCEPT !.status = "SUCCESS", !.hold = "CONFIRMED", !.fulfilled = TRUE]]
        BY <2>2, <4>2, ZenonT(60)
      <4> QED BY <3>1, <4>1, <4>2 DEF Complete
    <3>2. CASE ConfirmRefund(o)
      <4>1. order' = [order EXCEPT ![o] =
              [order[o] EXCEPT !.status = "REFUNDED"]]
        BY <3>2 DEF ConfirmRefund
      <4> QED BY <2>2, <4>1
    <3>3. CASE Cancel(o)
      <4>1. order' = [order EXCEPT ![o] =
              [order[o] EXCEPT !.status = "EXPIRED", !.hold = "CANCELLED"]]
        BY <3>3 DEF Cancel
      <4> QED BY <2>2, <4>1
    <3>4. CASE MarkTransactionFailed(o)
      <4>1. order' = [order EXCEPT ![o] =
              [order[o] EXCEPT !.status = "FAILED", !.hold = Release(order[o])]]
        BY <3>4 DEF MarkTransactionFailed
      <4> QED BY <2>2, <4>1
    <3> QED BY <1>5, <3>1, <3>2, <3>3, <3>4
  <2> QED BY <1>1, <2>1, <2>3 DEF Kept
<1>6. CASE ExpireHolds
  <2>1. \A p \in Orders : order[p].status = "NONE" => order[p].hold = "NONE"
    BY DEF Untouched
  <2>2. \A p \in Orders : AfterExpiry(p).init = order[p].init
    BY DEF AfterExpiry, TypeOK, OrderType
  <2>3. \A p \in Orders : order[p].hold = "NONE" => AfterExpiry(p) = order[p]
    BY DEF AfterExpiry, Overdue
  <2> QED BY <1>6, <2>1, <2>2, <2>3 DEF ExpireHolds, Kept
<1>7. CASE UNCHANGED order
  BY <1>2, <1>7
<1> QED
  BY <1>3, <1>4, <1>5, <1>6, <1>7
  DEF Next, RequestStep, OrderStep, OrganiserStep, Start, Load, CallProvider, Crash, Pay,
      EditTicket, RemoveTicket, EditEndDate, Tick, vars

LEMMA OneCallerStep ==
  ASSUME TypeOK, Untouched, StoryInv, OneCaller, [Next]_vars
  PROVE  OneCaller'
<1> USE DEF clock, catalog, admissions, provider
<1>1. /\ \A p \in Orders : order'[p].init = "NOT_STARTED" => order[p].init = "NOT_STARTED"
      /\ \A p \in Orders : order'[p].status = "NONE" => order'[p].init = "NOT_STARTED"
  <2>1. \A p \in Orders : order[p].status # "NONE" => order'[p].status # "NONE"
    BY RowSteps, Existing
  <2> QED BY <2>1, InitSteps DEF Kept, OneCaller
<1>2. \A r \in Requests : Calling(r) => request[r].order \in Orders
  BY RequestShapes DEF Calling, TypeOK, Stages
(* Requests that go on call no more than before. *)
<1>3. ASSUME UNCHANGED opened,
             \A r \in Requests : request'[r] = request[r] \/ request'[r].stage # "calling"
      PROVE  OneCaller'
  <2>1. \A r \in Requests : request'[r].stage = "calling" => Calling(r) /\ request'[r] = request[r]
    BY <1>3 DEF Calling
  <2> QED BY <1>1, <1>2, <1>3, <2>1 DEF OneCaller, Calling, OpenedOnce
<1>4. ASSUME NEW r \in Requests, request[r].stage \in Stages, NEW s \in Stages, Goto(r, s)
      PROVE  /\ request'[r].stage = s /\ request'[r].order = request[r].order
             /\ \A q \in Requests : q # r => request'[q] = request[q]
  <2>1. request[r] \in [stage : Stages, order : Orders, link : BOOLEAN]
    BY <1>4, RequestShapes DEF TypeOK
  <2> QED BY <1>4, <2>1 DEF Goto, TypeOK
<1>5. ASSUME NEW r \in Requests, Done(r)
      PROVE  \A q \in Requests : request'[q] = request[q] \/ request'[q].stage # "calling"
  BY <1>5 DEF Done, Idle, TypeOK
<1>6. ASSUME NEW r \in Requests, ClaimInitialization(r)
      PROVE  OneCaller'
  <2>1. CASE Done(r)
    BY <1>3, <1>5, <1>6, <2>1 DEF ClaimInitialization
  <2>2. CASE ~ Done(r)
    <3> DEFINE o == request[r].order
    <3>1. /\ Claimable(o) /\ Goto(r, "calling") /\ UNCHANGED opened
          /\ order' = [order EXCEPT ![o] = [@ EXCEPT !.init = "INITIALIZING"]]
          /\ request[r].stage \in Stages
      BY <1>6, <2>2 DEF ClaimInitialization, At, Stages
    <3>2. o \in Orders /\ order[o] \in OrderType
      BY <3>1, RequestShapes DEF TypeOK
    <3>3. opened[o] = 0 /\ order[o].init = "NOT_STARTED"
      BY <3>1, <3>2 DEF Claimable, OneCaller
    <3>4. order'[o].init # "NOT_STARTED"
      BY <3>1, <3>2 DEF TypeOK, OrderType
    <3>5. \A q \in Requests : Calling(q) => request[q].order # o
      BY <3>3 DEF OneCaller
    <3>6. /\ request'[r].stage = "calling" /\ request'[r].order = o
          /\ \A q \in Requests : q # r => request'[q] = request[q]
      BY <1>4, <3>1 DEF Stages
    <3> HIDE DEF o
    <3> QED BY <1>1, <1>2, <3>1, <3>3, <3>4, <3>5, <3>6 DEF OneCaller, Calling, OpenedOnce
  <2> QED BY <2>1, <2>2
<1>7. ASSUME NEW r \in Requests, CallProvider(r)
      PROVE  OneCaller'
  <2> DEFINE o == request[r].order
  <2>1. /\ Calling(r) /\ request[r].stage \in Stages /\ UNCHANGED order
        /\ opened' = [opened EXCEPT ![o] = @ + 1]
    BY <1>7 DEF CallProvider, At, Calling, Stages
  <2>2. o \in Orders /\ opened[o] = 0 /\ order[o].init # "NOT_STARTED"
    BY <1>2, <2>1 DEF OneCaller
  <2>3. opened'[o] = 1 /\ \A p \in Orders : p # o => opened'[p] = opened[p]
    BY <2>1, <2>2 DEF TypeOK
  <2>4. \A q \in Requests : q # r => request'[q] = request[q]
    BY <1>4, <1>7, <2>1 DEF CallProvider, Stages
  <2>5. request'[r].stage # "calling"
    BY <1>4, <1>7, <2>1 DEF CallProvider, Stages
  <2>6. \A q \in Requests : q # r /\ Calling(q) => request[q].order # o
    BY <2>1 DEF OneCaller
  <2> HIDE DEF o
  <2> QED BY <1>2, <2>1, <2>2, <2>3, <2>4, <2>5, <2>6 DEF OneCaller, Calling, OpenedOnce
<1>8. ASSUME NEW r \in Requests, FinishInitialization(r)
      PROVE  OneCaller'
  <2>1. request[r].stage \in Stages /\ UNCHANGED opened
    BY <1>8 DEF FinishInitialization, At, Stages
  <2>2. CASE Goto(r, "failing")
    BY <1>3, <1>4, <2>1, <2>2 DEF Stages
  <2>3. CASE Done(r)
    BY <1>3, <1>5, <2>1, <2>3
  <2> QED BY <1>8, <2>2, <2>3 DEF FinishInitialization
<1>9. ASSUME NEW r \in Requests, InitializationFailed(r) \/ Crash(r)
      PROVE  OneCaller'
  <2>1. Done(r) /\ UNCHANGED opened
    BY <1>9 DEF InitializationFailed, Crash
  <2> QED BY <1>3, <1>5, <2>1
<1>10. ASSUME NEW r \in Requests, NEW o \in Orders, NEW cart \in Carts, Start(r, o, cart)
       PROVE  OneCaller'
  <2>1. \A q \in Requests : request'[q] = request[q] \/ request'[q].stage # "calling"
    BY <1>10 DEF Start, TypeOK
  <2> QED BY <1>3, <1>10, <2>1 DEF Start
<1>11. ASSUME NEW r \in Requests, Create(r)
       PROVE  OneCaller'
  <2>1. \A q \in Requests : request'[q] = request[q] \/ request'[q].stage # "calling"
    BY <1>11 DEF Create, Done, Idle, TypeOK
  <2> QED BY <1>3, <1>11, <2>1 DEF Create
<1>12. ASSUME NEW r \in Requests, Load(r)
       PROVE  OneCaller'
  <2>1. request[r] \in [stage : Stages, order : Orders, link : BOOLEAN]
    BY <1>12, RequestShapes DEF Load, At, Stages, TypeOK
  <2>2. \A q \in Requests : request'[q] = request[q] \/ request'[q].stage # "calling"
    BY <1>12, <2>1 DEF Load, TypeOK
  <2> QED BY <1>3, <1>12, <2>2 DEF Load
<1>13. CASE UNCHANGED <<request, opened>>
  BY <1>3, <1>13
<1> QED
  BY <1>6, <1>7, <1>8, <1>9, <1>10, <1>11, <1>12, <1>13
  DEF Next, RequestStep, OrderStep, OrganiserStep, Pay, Complete, ConfirmRefund, Cancel,
      MarkTransactionFailed, EditTicket, RemoveTicket, EditEndDate, ExpireHolds, Tick, vars

-----------------------------------------------------------------------------
(***************************************************************************)
(* The refinement.                                                         *)
(***************************************************************************)
(* What became of an order, by its status. *)
StateFacts ==
  \A o \in Orders :
    /\ order[o].status = "NONE" => stateOf(o) = "none"
    /\ order[o].status = "SUCCESS" => stateOf(o) = "admitted"
    /\ order[o].status = "REFUND_REQUIRED" => stateOf(o) = "owed"
    /\ order[o].status = "REFUNDED" => stateOf(o) = "returned"
    /\ order[o].status = "PENDING" =>
         stateOf(o) = IF order[o].expiresAt > now THEN "reserved" ELSE "lapsed"
    /\ order[o].status \in {"FAILED", "EXPIRED"} =>
         stateOf(o) = IF order[o].hold = "CANCELLED" THEN "cancelled" ELSE "lapsed"

LEMMA StateNow ==
  ASSUME TypeOK, OutcomeConsistent, PendingHolds
  PROVE  StateFacts
BY DEF StateFacts, stateOf, ActiveHold, OutcomeConsistent, PendingHolds, TypeOK, OrderType

LEMMA StateNext ==
  ASSUME TypeOK', OutcomeConsistent', PendingHolds'
  PROVE  StateFacts'
BY DEF StateFacts, stateOf, ActiveHold, OutcomeConsistent, PendingHolds, TypeOK, OrderType

(* The module of the sale counts as this one does. *)
LEMMA SameCardinality == ASSUME NEW S PROVE Sale!Cardinality(S) = Cardinality(S)
BY DEF Sale!Cardinality, Cardinality

(* What the sale has promised, in terms of the rows. *)
LEMMA PromisedUnits ==
  ASSUME NEW t \in Tickets, NEW S \in SUBSET Orders, NEW v
  PROVE  v \in Sale!Promised(t, S) <=>
           \E p \in S : /\ stateOf(p) \in {"reserved", "admitted"}
                        /\ \E n \in 1..order[p].cart[t] : v = <<p, n>>
<1>1. \A p \in S : /\ [q \in Orders |-> stateOf(q)][p] = stateOf(p)
                  /\ [q \in Orders |-> order[q].cart][p][t] = order[p].cart[t]
  OBVIOUS
<1>2. v \in Sale!Promised(t, S) <=>
        \E p \in {q \in S : [k \in Orders |-> stateOf(k)][q] \in {"reserved", "admitted"}} :
          v \in {<<p, n>> : n \in 1..[q \in Orders |-> order[q].cart][p][t]}
  BY DEF Sale!Promised
<1> QED BY <1>1, <1>2

(* The orders whose tickets are promised. *)
Counts(p) == order[p].status = "SUCCESS" \/ ActiveHold(p)

(* What the sale has promised is what the tickets and the holds add up to. *)
LEMMA PromisedCount ==
  ASSUME TypeOK, Untouched, OutcomeConsistent, PendingHolds, SoldMatchesIssued,
         NEW t \in Tickets, NEW X \in SUBSET Orders,
         \A o \in X : order[o].status # "SUCCESS"
  PROVE  Cardinality(Sale!Promised(t, Orders \ X)) = sold[t] + reservedTicketQuantity(t, X)
<1> DEFINE P == Sale!Promised(t, Orders \ X)
           T == HeldUnits(t, X) \cup TypeUnits(t)
<1>1. \A p \in Orders : stateOf(p) \in {"reserved", "admitted"} <=> Counts(p)
  <2> SUFFICES ASSUME NEW p \in Orders
               PROVE  stateOf(p) \in {"reserved", "admitted"} <=> Counts(p)
    OBVIOUS
  <2>1. order[p] \in OrderType /\ (order[p].status = "NONE" => order[p].hold = "NONE")
    BY DEF TypeOK, Untouched, NoOrder
  <2> QED BY <2>1 DEF stateOf, Counts, ActiveHold, OutcomeConsistent, PendingHolds, OrderType,
                      Statuses
<1>2. \A v : v \in P <=> \E p \in Orders \ X : \E n \in 1..order[p].cart[t] :
                           Counts(p) /\ v = <<p, n>>
  BY <1>1, PromisedUnits
<1>3. \A u : u \in T <=> \E p \in Orders \ X : \E n \in 1..order[p].cart[t] :
                           Counts(p) /\ u = <<p, t, n>>
  <2>1. ASSUME NEW u
        PROVE  u \in HeldUnits(t, X) <=> \E p \in Orders \ X : \E n \in 1..order[p].cart[t] :
                                           ActiveHold(p) /\ u = <<p, t, n>>
    BY DEF HeldUnits, Units
  <2>2. ASSUME NEW u
        PROVE  u \in TypeUnits(t) <=> \E p \in Orders \ X : \E n \in 1..order[p].cart[t] :
                                        order[p].status = "SUCCESS" /\ u = <<p, t, n>>
    <3>1. \A p \in Orders : order[p].status = "SUCCESS" => IssuedUnits(p, t) = Units(p, t)
      BY DEF OutcomeConsistent
    <3>2. ASSUME u \in TypeUnits(t)
          PROVE  /\ u[1] \in Orders \ X /\ order[u[1]].status = "SUCCESS"
                 /\ u \in Units(u[1], t)
      <4>1. u[1] \in Orders /\ u \in IssuedUnits(u[1], t) /\ u[1] \in jobs
        BY <3>2 DEF TypeUnits, TypeOK, IssuedUnits, Untouched
      <4>2. order[u[1]].status = "SUCCESS"
        BY <4>1 DEF OutcomeConsistent
      <4> QED BY <3>1, <4>1, <4>2
    <3>3. ASSUME NEW p \in Orders, order[p].status = "SUCCESS", u \in Units(p, t)
          PROVE  u \in TypeUnits(t)
      BY <3>1, <3>3 DEF IssuedUnits, TypeUnits
    <3> QED BY <3>2, <3>3 DEF Units
  <2> QED BY <2>1, <2>2 DEF Counts
<1>4. \A u : u \in T <=> \E v \in P : u = <<v[1], t, v[2]>>
  <2> HIDE DEF P, T
  <2>1. ASSUME NEW u \in T
        PROVE  \E v \in P : u = <<v[1], t, v[2]>>
    <3>1. PICK p \in Orders \ X, n \in Int :
                 n \in 1..order[p].cart[t] /\ Counts(p) /\ u = <<p, t, n>>
      BY <1>3
    <3>2. <<p, n>> \in P
      BY <1>2, <3>1
    <3> QED BY <3>1, <3>2
  <2>2. ASSUME NEW v \in P
        PROVE  <<v[1], t, v[2]>> \in T
    BY <1>2, <1>3
  <2> QED BY <2>1, <2>2
<1>5. \A v \in P : v = <<v[1], v[2]>>
  <2> HIDE DEF P
  <2> QED BY <1>2
<1>6. IsFiniteSet(HeldUnits(t, X)) /\ IsFiniteSet(TypeUnits(t))
  BY HeldAreUnits, AllUnitsFinite DEF TypeUnits, AllUnits, TypeOK
<1>7. HeldUnits(t, X) \cap TypeUnits(t) = {}
  BY DEF HeldUnits, Units, TypeUnits, ActiveHold, Untouched, OutcomeConsistent
<1>8. IsFiniteSet(T) /\ Cardinality(T) = Cardinality(HeldUnits(t, X)) + Cardinality(TypeUnits(t))
  BY <1>6, <1>7, DisjointSum
<1>9. Cardinality(TypeUnits(t)) = sold[t]
  BY DEF SoldMatchesIssued, TypeUnits
<1>10. Cardinality(P) = Cardinality(T)
  <2> HIDE DEF P, T
  <2> QED BY <1>4, <1>5, <1>8, TaggedCount
<1>11. sold[t] \in Nat /\ Cardinality(HeldUnits(t, X)) \in Nat
  BY HeldAreUnits, AllUnitsFinite DEF TypeOK
<1> HIDE DEF P, T
<1>12. Cardinality(P) = sold[t] + Cardinality(HeldUnits(t, X))
  BY <1>8, <1>9, <1>10, <1>11
<1> QED BY <1>12 DEF P, reservedTicketQuantity

LEMMA FittingFits ==
  ASSUME TypeOK, Untouched, OutcomeConsistent, PendingHolds, SoldMatchesIssued,
         NEW o \in Orders, order[o].status # "SUCCESS",
         NEW cart \in [Tickets -> 0..MaxTickets], Fitting(o, cart)
  PROVE  Sale!Fits(o, cart)
<1> SUFFICES ASSUME NEW t \in Tickets, cart[t] > 0
             PROVE  Cardinality(Sale!Promised(t, Orders \ {o})) + cart[t] <= quantity[t]
  BY SameCardinality DEF Sale!Fits
<1>1. Cardinality(Sale!Promised(t, Orders \ {o})) = sold[t] + reservedTicketQuantity(t, {o})
  BY PromisedCount
<1>2. quantity[t] - sold[t] - reservedTicketQuantity(t, {o}) >= cart[t]
  BY DEF Fitting, Room
<1>3. /\ quantity[t] \in Nat /\ sold[t] \in Nat /\ cart[t] \in Nat
      /\ reservedTicketQuantity(t, {o}) \in Nat
  BY HeldAreUnits, AllUnitsFinite DEF TypeOK, reservedTicketQuantity
<1> QED BY <1>1, <1>2, <1>3

(* One order's state and cart change, or carts stay as they are. *)
LEMMA StateMoves ==
  ASSUME NEW o \in Orders, NEW s, stateOf(o)' = s,
         \A p \in Orders : p # o => stateOf(p)' = stateOf(p)
  PROVE  [p \in Orders |-> stateOf(p)]' = [[p \in Orders |-> stateOf(p)] EXCEPT ![o] = s]
OBVIOUS

LEMMA CartMoves ==
  ASSUME NEW o \in Orders, NEW c, order'[o].cart = c,
         \A p \in Orders : p # o => order'[p].cart = order[p].cart
  PROVE  [p \in Orders |-> order[p].cart]' = [[p \in Orders |-> order[p].cart] EXCEPT ![o] = c]
OBVIOUS

LEMMA CartsStay ==
  ASSUME \A p \in Orders : order'[p].cart = order[p].cart
  PROVE  [p \in Orders |-> order[p].cart]' = [p \in Orders |-> order[p].cart]
OBVIOUS

LEMMA SameState ==
  ASSUME now' = now, NEW o \in Orders, \A p \in Orders : p # o => order'[p] = order[p]
  PROVE  \A p \in Orders : p # o => stateOf(p)' = stateOf(p)
BY DEF stateOf, ActiveHold

SaleFacts == TypeOK /\ Untouched /\ OutcomeConsistent /\ PendingHolds /\ SoldMatchesIssued

(* create *)
LEMMA OrderSteps ==
  ASSUME SaleFacts, TypeOK', StateFacts', NEW o \in Orders, NEW cart \in Carts,
         Placed(o, cart) \/ Given(o, cart), UNCHANGED <<now, quantity>>
  PROVE  Sale!Next
<1>1. order[o].status = "NONE" /\ Fitting(o, cart)
  BY DEF Placed, Given, Exists
<1>2. [p \in Orders |-> stateOf(p)][o] = "none"
  BY <1>1 DEF stateOf
<1>3. Sale!Fits(o, cart)
  BY <1>1, FittingFits DEF SaleFacts
<1>4. /\ \A p \in Orders : p # o => order'[p] = order[p]
      /\ order'[o].cart = cart
      /\ stateOf(o)' \in {"reserved", "admitted"}
  <2>1. CASE Placed(o, cart)
    <3>1. /\ order'[o] = PaidOrder(cart)
          /\ \A p \in Orders : p # o => order'[p] = order[p]
      BY <2>1, PlacedRows DEF SaleFacts
    <3>2. /\ order'[o].status = "PENDING" /\ order'[o].cart = cart
          /\ order'[o].expiresAt = now + HoldTime
      BY <3>1 DEF PaidOrder
    <3>3. order'[o].expiresAt > now'
      BY <3>2 DEF SaleFacts, TypeOK
    <3>4. stateOf(o)' = "reserved"
      BY <3>2, <3>3 DEF StateFacts
    <3> QED BY <3>1, <3>2, <3>4
  <2>2. CASE Given(o, cart)
    <3>1. /\ order'[o] = FreeOrder(cart)
          /\ \A p \in Orders : p # o => order'[p] = order[p]
      BY <2>2, GivenRows DEF SaleFacts
    <3>2. order'[o].status = "SUCCESS" /\ order'[o].cart = cart
      BY <3>1 DEF FreeOrder
    <3> QED BY <3>1, <3>2 DEF StateFacts
  <2> QED BY <2>1, <2>2
<1> PICK s \in {"reserved", "admitted"} : s = stateOf(o)'
  BY <1>4
<1>5. [p \in Orders |-> stateOf(p)]' = [[p \in Orders |-> stateOf(p)] EXCEPT ![o] = s]
  BY <1>4, SameState, StateMoves
<1>6. [p \in Orders |-> order[p].cart]' = [[p \in Orders |-> order[p].cart] EXCEPT ![o] = cart]
  BY <1>4, CartMoves
<1>7. Sale!Order(o, cart, s)
  BY <1>2, <1>3, <1>5, <1>6 DEF Sale!Order
<1> QED BY <1>7 DEF Sale!Next

(* complete, the refund and the cancellation *)
LEMMA SettleSteps ==
  ASSUME SaleFacts, TypeOK', StateFacts, StateFacts', NEW o \in Orders,
         Admitted(o) \/ Owed(o) \/ Returned(o) \/ Cancelled(o), UNCHANGED <<now, quantity>>
  PROVE  Sale!Next \/ UNCHANGED Sale!vars
<1>1. /\ \A p \in Orders : p # o => order'[p] = order[p]
      /\ order'[o].cart = order[o].cart
  BY AdmittedRows, OwedRows, ReturnedRows, CancelledRows DEF SaleFacts
<1>2. [p \in Orders |-> stateOf(p)]' = [[p \in Orders |-> stateOf(p)] EXCEPT ![o] = stateOf(o)']
  BY <1>1, SameState, StateMoves
<1>3. [p \in Orders |-> order[p].cart]' = [p \in Orders |-> order[p].cart]
  BY <1>1, CartsStay
<1>4. /\ [p \in Orders |-> stateOf(p)][o] = stateOf(o)
      /\ [p \in Orders |-> order[p].cart][o] = order[o].cart
  OBVIOUS
<1>5. order[o].status \in Unsettled => stateOf(o) \in {"reserved", "lapsed", "cancelled"}
  BY DEF stateOf, Unsettled
<1>6. CASE Admitted(o)
  <2>1. stateOf(o) \in {"reserved", "lapsed"} /\ stateOf(o)' = "admitted"
    BY <1>6, AdmittedRows DEF Admitted, stateOf, Unsettled, SaleFacts
  <2>2. order[o].cart \in [Tickets -> 0..MaxTickets] /\ order[o].status # "SUCCESS"
    BY <1>6 DEF SaleFacts, TypeOK, OrderType, Admitted, Unsettled
  <2>3. Sale!Fits(o, order[o].cart)
    BY <1>6, <2>2, FittingFits DEF SaleFacts, Admitted
  <2>4. Sale!Admit(o)
    BY <1>2, <1>3, <1>4, <2>1, <2>3 DEF Sale!Admit
  <2> QED BY <2>4 DEF Sale!Next
<1>7. CASE Owed(o)
  <2>1. stateOf(o)' = "owed"
    BY <1>7, OwedRows DEF stateOf, SaleFacts
  <2>2. Sale!Owe(o)
    BY <1>2, <1>3, <1>4, <1>5, <1>7, <2>1 DEF Sale!Owe, Owed
  <2> QED BY <2>2 DEF Sale!Next
<1>8. CASE Returned(o)
  <2>1. stateOf(o) = "owed" /\ stateOf(o)' = "returned"
    BY <1>8, ReturnedRows DEF stateOf, Returned, SaleFacts
  <2>2. Sale!Return(o)
    BY <1>2, <1>3, <1>4, <2>1 DEF Sale!Return
  <2> QED BY <2>2 DEF Sale!Next
<1>9. CASE Cancelled(o)
  <2>1. stateOf(o)' = "cancelled"
    BY <1>9, CancelledRows DEF stateOf, SaleFacts
  <2>2. CASE stateOf(o) = "cancelled"
    <3>1. [p \in Orders |-> stateOf(p)]' = [p \in Orders |-> stateOf(p)]
      BY <1>2, <2>1, <2>2
    <3> QED BY <1>3, <3>1 DEF Sale!vars
  <2>3. CASE stateOf(o) # "cancelled"
    <3>1. Sale!Cancel(o)
      BY <1>2, <1>3, <1>4, <1>5, <1>9, <2>1, <2>3 DEF Sale!Cancel, Cancelled
    <3> QED BY <3>1 DEF Sale!Next
  <2> QED BY <2>2, <2>3
<1> QED BY <1>6, <1>7, <1>8, <1>9

(* Reservations end: by the rows, or by the clock alone. *)
LEMMA LapseSteps ==
  ASSUME TypeOK, StateFacts, TypeOK', StateFacts', PendingHolds, UNCHANGED quantity,
         \/ Lapsing /\ UNCHANGED now
         \/ UNCHANGED order /\ now' >= now
  PROVE  Sale!Next
<1> DEFINE S == {p \in Orders : stateOf(p) = "reserved" /\ stateOf(p)' = "lapsed"}
<1>1. ASSUME NEW p \in Orders
      PROVE  /\ order'[p].cart = order[p].cart
             /\ \/ stateOf(p)' = stateOf(p)
                \/ stateOf(p) = "reserved" /\ stateOf(p)' = "lapsed"
  <2>0. order'[p].cart = order[p].cart
    BY DEF Lapsing, Lapsed
  <2>1. CASE order'[p].status = order[p].status /\ order'[p].hold = order[p].hold
             /\ order'[p].expiresAt = order[p].expiresAt /\ now' >= now
    <3>1. now \in Int /\ now' \in Int /\ order[p].expiresAt \in Int
      BY DEF TypeOK, OrderType
    <3>2. ActiveHold(p)' => ActiveHold(p)
      BY <2>1, <3>1 DEF ActiveHold
    <3> QED BY <2>0, <2>1, <3>2 DEF stateOf
  <2>2. CASE order[p].status = "PENDING" /\ order'[p].status \in {"FAILED", "EXPIRED"}
             /\ order'[p].hold = "EXPIRED"
    <3>1. stateOf(p)' = "lapsed"
      BY <2>2 DEF StateFacts
    <3> QED BY <2>2, <3>1 DEF StateFacts, Lapsing, Lapsed
  <2> QED BY <2>1, <2>2 DEF Lapsing, Lapsed, TypeOK
<1>2. [p \in Orders |-> order[p].cart]' = [p \in Orders |-> order[p].cart]
  BY <1>1, CartsStay
<1>3. [p \in Orders |-> stateOf(p)]'
        = [p \in Orders |-> IF p \in S THEN "lapsed" ELSE [q \in Orders |-> stateOf(q)][p]]
  BY <1>1
<1>4. Sale!Lapse(S)
  BY <1>2, <1>3 DEF Sale!Lapse
<1> QED BY <1>4 DEF Sale!Next

(* The organiser may not take stock back that is promised. *)
LEMMA RestockSteps ==
  ASSUME SaleFacts, StateFacts, OrganiserStep, UNCHANGED <<now, order>>
  PROVE  Sale!Next \/ UNCHANGED Sale!vars
<1>1. [p \in Orders |-> order[p].cart]' = [p \in Orders |-> order[p].cart]
  OBVIOUS
<1>2. [p \in Orders |-> stateOf(p)]' = [p \in Orders |-> stateOf(p)]
  BY DEF stateOf, ActiveHold
<1>3. ASSUME UNCHANGED quantity
      PROVE  UNCHANGED Sale!vars
  BY <1>1, <1>2, <1>3 DEF Sale!vars
<1>4. ASSUME NEW t \in Tickets, NEW q \in Quantities, NEW p, NEW s, EditTicket(t, q, p, s),
             q # quantity[t]
      PROVE  Sale!Next
  <2>1. q - sold[t] >= reservedTicketQuantity(t, {})
    BY <1>4 DEF EditTicket, assertTicketCapacityEdit
  <2>2. Cardinality(Sale!Promised(t, Orders)) = sold[t] + reservedTicketQuantity(t, {})
    <3>1. Orders \ {} = Orders
      OBVIOUS
    <3> QED BY <3>1, PromisedCount DEF SaleFacts
  <2>3. q \in Nat /\ sold[t] \in Nat /\ reservedTicketQuantity(t, {}) \in Nat
    BY HeldAreUnits, AllUnitsFinite DEF SaleFacts, TypeOK, reservedTicketQuantity
  <2>4. Sale!Cardinality(Sale!Promised(t, Orders)) <= q
    BY <2>1, <2>2, <2>3, SameCardinality
  <2>5. quantity' = [quantity EXCEPT ![t] = q]
    BY <1>4 DEF EditTicket
  <2>6. Sale!Restock(t, q)
    BY <1>1, <1>2, <2>4, <2>5 DEF Sale!Restock
  <2> QED BY <2>6 DEF Sale!Next
<1>5. ASSUME NEW t \in Tickets, NEW q \in Quantities, NEW p, NEW s, EditTicket(t, q, p, s),
             q = quantity[t]
      PROVE  UNCHANGED quantity
  BY <1>5 DEF EditTicket, SaleFacts, TypeOK
<1>6. (\E t \in Tickets : RemoveTicket(t)) \/ (\E e \in EndDates : EditEndDate(e))
        => UNCHANGED quantity
  BY DEF RemoveTicket, EditEndDate, catalog
<1> QED BY <1>3, <1>4, <1>5, <1>6 DEF OrganiserStep

-----------------------------------------------------------------------------
(***************************************************************************)
(* The invariant of the specification, and the theorems.                   *)
(***************************************************************************)
CheckoutInv ==
  /\ SaleInv
  /\ StoryInv
  /\ SoldMatchesIssued
  /\ OneActiveHold
  /\ OneCaller

LEMMA CheckoutInit == Init => CheckoutInv
<1> SUFFICES ASSUME Init PROVE CheckoutInv
  OBVIOUS
<1>1. SaleInv
  BY SaleInit
<1>2. /\ issued = {} /\ jobs = {} /\ refunds = {}
      /\ \A o \in Orders : /\ order[o].status = "NONE" /\ order[o].hold = "NONE"
                          /\ order[o].init = "NOT_STARTED" /\ order[o].fulfilled = FALSE
                          /\ payment[o] = "none" /\ opened[o] = 0
      /\ \A r \in Requests : request[r].stage = "idle"
  BY DEF Init, NoOrder, Idle
<1>3. StoryInv
  BY <1>2 DEF StoryInv, OutcomeConsistent, PendingHolds, Attached, IssuedUnits, Stages
<1>4. SoldMatchesIssued
  <2>1. \A t \in Tickets : {u \in issued : u[2] = t} = {}
    BY <1>2
  <2> QED BY <2>1, FS_EmptySet DEF SoldMatchesIssued, Init
<1>5. OneActiveHold
  BY <1>2 DEF OneActiveHold, ActiveHold
<1>6. OneCaller
  BY <1>2 DEF OneCaller, Calling, OpenedOnce
<1> QED BY <1>1, <1>3, <1>4, <1>5, <1>6 DEF CheckoutInv

LEMMA CheckoutStep == CheckoutInv /\ [Next]_vars => CheckoutInv'
<1> SUFFICES ASSUME CheckoutInv, [Next]_vars PROVE CheckoutInv'
  OBVIOUS
<1>1. /\ SaleInv /\ TypeOK /\ Untouched /\ StoryInv /\ SoldMatchesIssued
      /\ OneActiveHold /\ OneCaller
  BY DEF CheckoutInv, SaleInv
<1>2. RowStep
  BY <1>1, RowSteps
<1>3. SaleInv'
  BY <1>1, SaleKept
<1>4. StoryInv'
  BY <1>1, <1>2, StoryStep, AttachedStep DEF StoryInv
<1>5. SoldMatchesIssued'
  BY <1>1, <1>2, SoldStep
<1>6. OneActiveHold' /\ OneCaller'
  BY <1>1, OneHoldStep, OneCallerStep
<1> QED BY <1>3, <1>4, <1>5, <1>6 DEF CheckoutInv

(* What every action of the specification preserves. *)
THEOREM CheckoutCorrect == Spec => []CheckoutInv
BY CheckoutInit, CheckoutStep, PTL DEF Spec

(* EventTicket.sold counts the tickets issued: complete and create never    *)
(* issue twice, whoever redelivers the collection.                           *)
THEOREM SoldIsIssued == Spec => []SoldMatchesIssued
<1>1. CheckoutInv => SoldMatchesIssued
  BY DEF CheckoutInv
<1> QED BY <1>1, CheckoutCorrect, PTL

(* Status, reservation, job, tickets and refund of an order agree in every  *)
(* state between two transactions.                                          *)
THEOREM OneStory == Spec => []OutcomeConsistent
<1>1. CheckoutInv => OutcomeConsistent
  BY DEF CheckoutInv, StoryInv
<1> QED BY <1>1, CheckoutCorrect, PTL

(* A buyer has one live hold, and the provider is asked once per order, for  *)
(* any number of requests, retries and crashes of create and initiate.       *)
THEOREM RequestsCorrect == Spec => []RequestsSafe
<1>1. CheckoutInv => RequestsSafe
  BY DEF CheckoutInv, OneCaller, RequestsSafe
<1> QED BY <1>1, CheckoutCorrect, PTL

(* No step moves the deadline or the cart of an order, and create gives away *)
(* no ticket that has a price.                                               *)
THEOREM OrdersKept == Spec => RequestsKept
<1>1. CheckoutInv /\ [Next]_vars => [DeadlineFixed /\ FreeIsFree]_vars
  BY RowSteps, DeadlineStep, FreeStep DEF CheckoutInv, SaleInv
<1> QED BY <1>1, CheckoutCorrect, PTL DEF Spec, RequestsKept

(* complete refunds no exact payment while the hold lives and the event has  *)
(* not ended.                                                                *)
THEOREM HoldsHonoured == Spec => HoldHonoured
<1> DEFINE A == \A o \in Orders :
                  ActiveHold(o) /\ payment[o] = "paid" /\ ~ Ended => o \notin refunds' \ refunds
<1>1. CheckoutInv /\ [Next]_vars => [A]_vars
  BY RowSteps, HonourStep DEF CheckoutInv, SaleInv
<1> QED BY <1>1, CheckoutCorrect, PTL DEF Spec, HoldHonoured

LEMMA SaleStarts == Init => Sale!Init
<1> SUFFICES ASSUME Init PROVE Sale!Init
  OBVIOUS
<1>1. /\ [o \in Orders |-> stateOf(o)] = [o \in Orders |-> "none"]
      /\ [o \in Orders |-> order[o].cart] = [o \in Orders |-> [t \in Tickets |-> 0]]
  BY DEF Init, NoOrder, EmptyCart, stateOf
<1> QED BY <1>1 DEF Init, Sale!Init

LEMMA SaleMoves == CheckoutInv /\ CheckoutInv' /\ [Next]_vars => [Sale!Next]_(Sale!vars)
<1> SUFFICES ASSUME CheckoutInv, CheckoutInv', [Next]_vars
             PROVE  Sale!Next \/ UNCHANGED Sale!vars
  OBVIOUS
<1>1. SaleFacts /\ StoryInv /\ TypeOK'
  BY DEF CheckoutInv, SaleInv, StoryInv, SaleFacts
<1>2. StateFacts /\ StateFacts'
  BY StateNow, StateNext DEF CheckoutInv, SaleInv, StoryInv
<1>3. RowStep
  BY <1>1, RowSteps DEF SaleFacts
<1>4. CASE UNCHANGED <<now, quantity>>
  <2>1. now' >= now
    BY <1>1, <1>4 DEF SaleFacts, TypeOK
  <2> QED BY <1>1, <1>2, <1>3, <1>4, <2>1, OrderSteps, SettleSteps, LapseSteps
          DEF RowStep, SaleFacts
<1>5. CASE UNCHANGED <<now, order>> /\ OrganiserStep
  BY <1>1, <1>2, <1>5, RestockSteps
<1>6. CASE UNCHANGED <<quantity, order>> /\ now' >= now
  BY <1>1, <1>2, <1>6, LapseSteps DEF SaleFacts
<1>7. \/ UNCHANGED <<now, quantity>>
      \/ UNCHANGED <<now, order>> /\ OrganiserStep
      \/ UNCHANGED <<quantity, order>> /\ now' >= now
  BY <1>1, RowSteps DEF SaleFacts
<1> QED BY <1>4, <1>5, <1>6, <1>7

(* Every behaviour of the checkout is one of the abstract ticket sale.       *)
THEOREM SaleImplemented == Spec => ImplementsSale
<1>1. Spec => Sale!Init
  BY SaleStarts DEF Spec
<1> QED BY <1>1, SaleMoves, CheckoutCorrect, PTL DEF Spec, ImplementsSale, Sale!Spec
=============================================================================
