------------------------- MODULE RegistrationProofs -------------------------
(***************************************************************************)
(* Registration's theorems, for any number of orders, buyers and scanners  *)
(* and for every capacity, fee and clock.                                  *)
(*                                                                         *)
(* The capacity bound is inductive once the occupants are seen as one set: *)
(* a transaction that admits an order has counted everybody else under the *)
(* event's lock, and no other transaction makes an occupant.  That a live  *)
(* hold is honoured follows from it: the hold itself was counted, so that  *)
(* without it a place is left, provided that an order with a hold has no   *)
(* registration yet (Coherent).                                            *)
(***************************************************************************)
EXTENDS Registration, CountingLemmas

(* The three rows of an order agree. *)
Coherent ==
  /\ \A o \in Orders :
       /\ order[o].hold = "HELD" => order[o].status = "PENDING"
       /\ registration[o] # "none" =>
            order[o].status = "SUCCESS" /\ order[o].hold = "CONFIRMED"
  /\ \A s \in Scanners : \A o \in scan[s] : registration[o] # "none"

RegistrationInv == TypeOK /\ Coherent /\ NoOverbooking

USE RegistrationAssumption

-----------------------------------------------------------------------------
LEMMA TypeInit == Init => TypeOK
BY DEF Init, TypeOK, OrderType, NoOrder

(* What the transactions that write an order do to its row. *)
LEMMA CreateEffect ==
  ASSUME TypeOK, NEW o \in Orders, NEW sponsored \in BOOLEAN, Create(o, sponsored)
  PROVE  \E rec \in OrderType :
           /\ order' = [order EXCEPT ![o] = rec]
           /\ \/ rec.status = "PENDING" /\ rec.hold = "HELD" /\ UNCHANGED registration
              \/ rec.status = "SUCCESS" /\ rec.hold = "CONFIRMED" /\ Admit(o, sponsored)
<1>1. now \in 0..MaxTime /\ now + HoldTime \in 0..MaxTime
  BY DEF Create, TypeOK
<1> DEFINE Row(status, hold, end) ==
      [status |-> status, hold |-> hold, sponsored |-> sponsored, expiresAt |-> end]
<1>2. /\ Row("PENDING", "HELD", now + HoldTime) \in OrderType
      /\ Row("SUCCESS", "CONFIRMED", now) \in OrderType
  BY <1>1 DEF OrderType
<1>3. CASE fee > 0 /\ order' = [order EXCEPT ![o] = Row("PENDING", "HELD", now + HoldTime)]
           /\ UNCHANGED registration
  BY <1>2, <1>3
<1>4. CASE order' = [order EXCEPT ![o] = Row("SUCCESS", "CONFIRMED", now)]
           /\ Admit(o, sponsored)
  BY <1>2, <1>4
<1> QED BY <1>3, <1>4 DEF Create

LEMMA CompleteEffect ==
  ASSUME TypeOK, NEW o \in Orders, Complete(o)
  PROVE  \E rec \in OrderType :
           /\ order' = [order EXCEPT ![o] = rec]
           /\ rec.sponsored = order[o].sponsored
           /\ \/ /\ MustRefund(o) /\ UNCHANGED registration
                 /\ rec.status = "REFUND_REQUIRED"
                 /\ rec.hold = (IF order[o].hold = "HELD" THEN "EXPIRED" ELSE order[o].hold)
              \/ /\ ~ MustRefund(o) /\ Admit(o, order[o].sponsored)
                 /\ rec.status = "SUCCESS" /\ rec.hold = "CONFIRMED"
<1>1. order[o] \in OrderType
  BY DEF TypeOK
<1> DEFINE Row(status, hold) == [order[o] EXCEPT !.status = status, !.hold = hold]
<1>2. Release(order[o]) = (IF order[o].hold = "HELD" THEN "EXPIRED" ELSE order[o].hold)
  BY DEF Release
<1>3. Release(order[o]) \in {"NONE", "HELD", "CONFIRMED", "EXPIRED", "CANCELLED"}
  BY <1>1, <1>2 DEF OrderType
<1>4. /\ Row("REFUND_REQUIRED", Release(order[o])) \in OrderType
      /\ Row("REFUND_REQUIRED", Release(order[o])).sponsored = order[o].sponsored
      /\ Row("REFUND_REQUIRED", Release(order[o])).status = "REFUND_REQUIRED"
      /\ Row("REFUND_REQUIRED", Release(order[o])).hold = Release(order[o])
  BY <1>1, <1>3 DEF OrderType
<1>5. /\ Row("SUCCESS", "CONFIRMED") \in OrderType
      /\ Row("SUCCESS", "CONFIRMED").sponsored = order[o].sponsored
      /\ Row("SUCCESS", "CONFIRMED").status = "SUCCESS"
      /\ Row("SUCCESS", "CONFIRMED").hold = "CONFIRMED"
  BY <1>1 DEF OrderType
<1>6. CASE /\ MustRefund(o) /\ UNCHANGED registration
           /\ order' = [order EXCEPT ![o] = Row("REFUND_REQUIRED", Release(order[o]))]
  BY <1>2, <1>4, <1>6
<1>7. CASE /\ ~ MustRefund(o) /\ Admit(o, order[o].sponsored)
           /\ order' = [order EXCEPT ![o] = Row("SUCCESS", "CONFIRMED")]
  BY <1>5, <1>7
<1> QED BY <1>6, <1>7 DEF Complete

LEMMA TypeStep ==
  ASSUME TypeOK, [Next]_vars
  PROVE  TypeOK'
<1> USE DEF TypeOK, event
<1>1. ASSUME NEW o \in Orders, NEW sponsored \in BOOLEAN, Create(o, sponsored)
      PROVE  TypeOK'
  <2>2. order' \in [Orders -> OrderType]
    BY <1>1, CreateEffect
  <2>3. registration' \in [Orders -> {"none", "active", "used", "cancelled"}]
    BY <1>1 DEF Create, Admit
  <2> QED BY <1>1, <2>2, <2>3 DEF Create
<1>2. ASSUME NEW o \in Orders, NEW result \in {"paid", "paidOther"}, Pay(o, result)
      PROVE  TypeOK'
  BY <1>2 DEF Pay
<1>3. ASSUME NEW o \in Orders, Complete(o)
      PROVE  TypeOK'
  <2>1. order' \in [Orders -> OrderType]
    BY <1>3, CompleteEffect
  <2>2. registration' \in [Orders -> {"none", "active", "used", "cancelled"}]
    BY <1>3 DEF Complete, Admit
  <2> QED BY <1>3, <2>1, <2>2 DEF Complete
<1>4. ASSUME NEW o \in Orders, Cancel(o)
      PROVE  TypeOK'
  BY <1>4, ZenonT(60) DEF Cancel, OrderType
<1>5. ASSUME NEW o \in Orders, CancelRegistration(o)
      PROVE  TypeOK'
  BY <1>5 DEF CancelRegistration
<1>6. ASSUME NEW o \in Orders, NEW s \in Scanners, Validate(s, o)
      PROVE  TypeOK'
  BY <1>6 DEF Validate
<1>7. ASSUME NEW s \in Scanners, MarkRegistrationAsUsed(s)
      PROVE  TypeOK'
  BY <1>7 DEF MarkRegistrationAsUsed
<1>8. ASSUME NEW c \in Capacities \cup {NoLimit}, NEW f \in Fees, EditEvent(c, f)
      PROVE  TypeOK'
  BY <1>8 DEF EditEvent
<1>9. CASE ExpireHolds
  BY <1>9, ZenonT(60) DEF ExpireHolds, AfterExpiry, OrderType
<1>10. CASE Tick
  BY <1>10 DEF Tick
<1>11. CASE UNCHANGED vars
  BY <1>11 DEF vars
<1> QED
  BY <1>1, <1>2, <1>3, <1>4, <1>5, <1>6, <1>7, <1>8, <1>9, <1>10, <1>11 DEF Next

-----------------------------------------------------------------------------
LEMMA CoherentStep ==
  ASSUME TypeOK, Coherent, [Next]_vars
  PROVE  Coherent'
<1> USE DEF event
<1>1. ASSUME NEW o \in Orders, NEW sponsored \in BOOLEAN, Create(o, sponsored)
      PROVE  Coherent'
  <2>1. \A p \in Orders :
          \/ p # o /\ order'[p] = order[p] /\ registration'[p] = registration[p]
          \/ /\ p = o
             /\ \/ /\ order'[p].status = "PENDING" /\ order'[p].hold = "HELD"
                   /\ registration'[p] = registration[p]
                \/ order'[p].status = "SUCCESS" /\ order'[p].hold = "CONFIRMED"
    BY <1>1 DEF Create, Admit, TypeOK
  <2>2. registration[o] = "none"
    BY <1>1 DEF Create, Exists, Coherent
  <2>3. UNCHANGED scan /\ \A p \in Orders : registration[p] # "none" => registration'[p] # "none"
    BY <1>1, <2>2 DEF Create, Admit, TypeOK
  <2> QED BY <2>1, <2>2, <2>3 DEF Coherent, TypeOK
<1>2. ASSUME NEW o \in Orders, Complete(o)
      PROVE  Coherent'
  <2>1. registration[o] = "none"
    BY <1>2 DEF Complete, Coherent
  <2>2. \A p \in Orders :
          \/ p # o /\ order'[p] = order[p] /\ registration'[p] = registration[p]
          \/ /\ p = o
             /\ \/ order'[p].hold # "HELD" /\ registration'[p] = registration[p]
                \/ order'[p].status = "SUCCESS" /\ order'[p].hold = "CONFIRMED"
    BY <1>2, CompleteEffect DEF Admit, TypeOK
  <2>3. UNCHANGED scan /\ \A p \in Orders : registration[p] # "none" => registration'[p] # "none"
    BY <1>2, <2>1 DEF Complete, Admit, TypeOK
  <2> QED BY <2>1, <2>2, <2>3 DEF Coherent, TypeOK
<1>3. ASSUME NEW o \in Orders, Cancel(o)
      PROVE  Coherent'
  <2>1. \A p \in Orders :
          \/ order'[p] = order[p]
          \/ p = o /\ order[p].status # "SUCCESS" /\ order'[p].hold = "CANCELLED"
    BY <1>3 DEF Cancel, TypeOK, OrderType
  <2>2. UNCHANGED <<registration, scan>>
    BY <1>3 DEF Cancel
  <2> QED BY <2>1, <2>2 DEF Coherent, TypeOK
<1>4. ASSUME NEW o \in Orders, CancelRegistration(o)
      PROVE  Coherent'
  <2>1. /\ UNCHANGED <<order, scan>>
        /\ \A p \in Orders : (registration'[p] # "none") = (registration[p] # "none")
    BY <1>4 DEF CancelRegistration, TypeOK
  <2> QED BY <2>1 DEF Coherent, TypeOK
<1>5. ASSUME NEW o \in Orders, NEW s \in Scanners, Validate(s, o)
      PROVE  Coherent'
  <2>1. \A t \in Scanners : scan'[t] = scan[t] \/ scan'[t] = {o}
    BY <1>5 DEF Validate, TypeOK
  <2>2. UNCHANGED <<order, registration>> /\ registration[o] # "none"
    BY <1>5 DEF Validate
  <2> QED BY <2>1, <2>2 DEF Coherent
<1>6. ASSUME NEW s \in Scanners, MarkRegistrationAsUsed(s)
      PROVE  Coherent'
  <2>1. PICK o \in scan[s] :
          /\ registration' = [registration EXCEPT ![o] = "used"]
          /\ scan' = [scan EXCEPT ![s] = {}]
          /\ UNCHANGED order
    BY <1>6 DEF MarkRegistrationAsUsed
  <2>2. o \in Orders /\ registration[o] # "none"
    BY <2>1 DEF Coherent, TypeOK
  <2>3. \A p \in Orders : (registration'[p] # "none") = (registration[p] # "none")
    BY <2>1, <2>2 DEF TypeOK
  <2>4. \A t \in Scanners : scan'[t] \subseteq scan[t] /\ scan[t] \subseteq Orders
    BY <2>1 DEF TypeOK
  <2> QED BY <2>1, <2>3, <2>4 DEF Coherent
<1>7. CASE ExpireHolds
  <2>1. \A p \in Orders :
          \/ order'[p] = order[p]
          \/ order[p].hold = "HELD" /\ order'[p].hold = "EXPIRED"
    BY <1>7 DEF ExpireHolds, AfterExpiry, TypeOK, OrderType
  <2>2. UNCHANGED <<registration, scan>>
    BY <1>7 DEF ExpireHolds
  <2> QED BY <2>1, <2>2 DEF Coherent, TypeOK
<1>8. CASE \/ \E o \in Orders, result \in {"paid", "paidOther"} : Pay(o, result)
           \/ \E c \in Capacities \cup {NoLimit}, f \in Fees : EditEvent(c, f)
           \/ Tick \/ UNCHANGED vars
  BY <1>8 DEF Pay, EditEvent, Tick, vars, Coherent
<1> QED
  BY <1>1, <1>2, <1>3, <1>4, <1>5, <1>6, <1>7, <1>8 DEF Next

-----------------------------------------------------------------------------
(* Counting places. *)
LEMMA OccupantsFinite ==
  ASSUME NEW S
  PROVE  IsFiniteSet(Occupants(S)) /\ registrationOccupancy(S) \in Nat
BY FS_Subset, FS_CardinalityType DEF Occupants, registrationOccupancy

(* A step after which every occupant was one before, or is an order that was *)
(* let in because HasSpace held of it, keeps within the capacity.            *)
LEMMA AdmitWithSpace ==
  ASSUME NoOverbooking, UNCHANGED capacity, TypeOK,
         \/ Occupants({})' \subseteq Occupants({})
         \/ \E o \in Orders : HasSpace(o) /\ Occupants({})' \subseteq Occupants({o}) \cup {o}
  PROVE  NoOverbooking'
<1> SUFFICES ASSUME capacity # NoLimit
             PROVE  Cardinality(Occupants({})') <= capacity
  BY DEF NoOverbooking, registrationOccupancy
<1>0. capacity \in Nat
  BY DEF TypeOK
<1>1. CASE Occupants({})' \subseteq Occupants({})
  BY <1>0, <1>1, OccupantsFinite, SubsetCount DEF NoOverbooking, registrationOccupancy
<1>2. ASSUME NEW o \in Orders, HasSpace(o), Occupants({})' \subseteq Occupants({o}) \cup {o}
      PROVE  Cardinality(Occupants({})') <= capacity
  <2>1. Cardinality(Occupants({o})) < capacity /\ IsFiniteSet(Occupants({o}))
    BY <1>2, OccupantsFinite DEF HasSpace, registrationOccupancy
  <2>2. /\ Cardinality(Occupants({})') <= Cardinality(Occupants({o})) + 1
        /\ Cardinality(Occupants({})') \in Nat /\ Cardinality(Occupants({o})) \in Nat
    BY <1>2, <2>1, OneMoreCount
  <2> QED BY <1>0, <2>1, <2>2
<1> QED BY <1>1, <1>2

(* Steps that change one order only: everybody else is an occupant as before. *)
LEMMA OthersStay ==
  ASSUME NEW o \in Orders, UNCHANGED now,
         \A p \in Orders \ {o} : order'[p] = order[p] /\ registration'[p] = registration[p]
  PROVE  Occupants({})' \subseteq Occupants({o}) \cup {o}
BY DEF Occupants, ActiveHold

LEMMA BookingInit == Init => NoOverbooking
<1> SUFFICES ASSUME Init, capacity # NoLimit
             PROVE  registrationOccupancy({}) <= capacity
  BY DEF NoOverbooking
<1>1. Occupants({}) = {}
  BY DEF Init, Occupants, ActiveHold, NoOrder
<1>2. Cardinality(Occupants({})) = 0
  BY <1>1, FS_EmptySet
<1>3. capacity \in Nat
  BY DEF Init
<1> QED BY <1>2, <1>3 DEF registrationOccupancy

LEMMA BookingStep ==
  ASSUME TypeOK, Coherent, NoOverbooking, [Next]_vars
  PROVE  NoOverbooking'
<1> USE DEF event
<1>1. ASSUME NEW o \in Orders, NEW sponsored \in BOOLEAN, Create(o, sponsored)
      PROVE  NoOverbooking'
  <2>1. /\ UNCHANGED <<now, capacity>> /\ HasSpace(o)
        /\ \A p \in Orders \ {o} : order'[p] = order[p] /\ registration'[p] = registration[p]
    BY <1>1 DEF Create, MayAttend, Admit, TypeOK
  <2> QED BY <2>1, OthersStay, AdmitWithSpace
<1>2. ASSUME NEW o \in Orders, Complete(o)
      PROVE  NoOverbooking'
  <2>1. /\ UNCHANGED <<now, capacity>>
        /\ \A p \in Orders \ {o} : order'[p] = order[p] /\ registration'[p] = registration[p]
    BY <1>2 DEF Complete, Admit, TypeOK
  <2>2. CASE MustRefund(o)
    <3>1. /\ UNCHANGED registration
          /\ order'[o].hold # "HELD" /\ order'[o].sponsored = order[o].sponsored
          /\ order'[o].hold \in {"EXPIRED", order[o].hold}
      BY <1>2, <2>2, CompleteEffect DEF TypeOK
    <3>2. Occupants({})' \subseteq Occupants({})
      BY <2>1, <3>1 DEF Occupants, ActiveHold
    <3> QED BY <2>1, <3>2, AdmitWithSpace
  <2>3. CASE ~ MustRefund(o)
    <3>1. HasSpace(o)
      BY <2>3 DEF MustRefund, MayAttend
    <3> QED BY <2>1, <3>1, OthersStay, AdmitWithSpace
  <2> QED BY <2>2, <2>3
(* Steps that make no occupant. *)
<1>3. ASSUME now' \in Nat, now <= now', UNCHANGED capacity,
             \A p \in Orders : /\ registration'[p] = "active" => registration[p] = "active"
                               /\ \/ order'[p] = order[p]
                                  \/ order'[p].hold \in {"EXPIRED", "CANCELLED"}
      PROVE  NoOverbooking'
  <2>1. \A p \in Orders : order[p].expiresAt \in Nat
    BY DEF TypeOK, OrderType
  <2>2. now \in Nat
    BY DEF TypeOK
  <2>3. Occupants({})' \subseteq Occupants({})
    BY <1>3, <2>1, <2>2 DEF Occupants, ActiveHold
  <2> QED BY <1>3, <2>3, AdmitWithSpace
<1>4. now \in Nat /\ now <= now
  BY DEF TypeOK
<1>5. ASSUME NEW o \in Orders, NEW result \in {"paid", "paidOther"}, Pay(o, result)
      PROVE  NoOverbooking'
  BY <1>3, <1>4, <1>5 DEF Pay
<1>6. ASSUME NEW o \in Orders, Cancel(o)
      PROVE  NoOverbooking'
  BY <1>3, <1>4, <1>6 DEF Cancel, TypeOK, OrderType
<1>7. ASSUME NEW o \in Orders, CancelRegistration(o)
      PROVE  NoOverbooking'
  BY <1>3, <1>4, <1>7 DEF CancelRegistration, TypeOK
<1>8. ASSUME NEW o \in Orders, NEW s \in Scanners, Validate(s, o)
      PROVE  NoOverbooking'
  BY <1>3, <1>4, <1>8 DEF Validate
<1>9. ASSUME NEW s \in Scanners, MarkRegistrationAsUsed(s)
      PROVE  NoOverbooking'
  BY <1>3, <1>4, <1>9 DEF MarkRegistrationAsUsed, TypeOK
<1>10. ASSUME NEW c \in Capacities \cup {NoLimit}, NEW f \in Fees, EditEvent(c, f)
       PROVE  NoOverbooking'
  <2>1. Occupants({})' = Occupants({})
    BY <1>10 DEF EditEvent, Occupants, ActiveHold
  <2> QED BY <1>10, <2>1 DEF EditEvent, NoOverbooking, registrationOccupancy
<1>11. CASE ExpireHolds
  <2>1. \A p \in Orders : order'[p] = order[p] \/ order'[p].hold = "EXPIRED"
    BY <1>11 DEF ExpireHolds, AfterExpiry, TypeOK, OrderType
  <2> QED BY <1>3, <1>4, <1>11, <2>1 DEF ExpireHolds
<1>12. CASE Tick
  BY <1>3, <1>4, <1>12 DEF Tick
<1>13. CASE UNCHANGED vars
  BY <1>3, <1>4, <1>13 DEF vars
<1> QED
  BY <1>1, <1>2, <1>5, <1>6, <1>7, <1>8, <1>9, <1>10, <1>11, <1>12, <1>13 DEF Next

-----------------------------------------------------------------------------
(* Only an order that is not sponsored, of a buyer who is not registered,    *)
(* makes an active registration.                                             *)
LEMMA NotTwiceStep ==
  ASSUME TypeOK, NotTwiceRegistered, [Next]_vars
  PROVE  NotTwiceRegistered'
<1> USE DEF event
<1>1. ASSUME \A o \in Orders : registration'[o] = "active" => registration[o] = "active"
      PROVE  NotTwiceRegistered'
  BY <1>1 DEF NotTwiceRegistered
<1>2. ASSUME NEW o \in Orders, NEW sponsored \in BOOLEAN, Admit(o, sponsored),
             MayAttend(o, sponsored)
      PROVE  NotTwiceRegistered'
  <2>1. CASE sponsored
    BY <1>1, <1>2, <2>1 DEF Admit
  <2>2. CASE ~ sponsored
    <3>1. \A p \in Orders : buyer[p] = buyer[o] => registration[p] # "active"
      BY <1>2, <2>2 DEF MayAttend, IsRegistered
    <3>2. \A p \in Orders : p # o => registration'[p] = registration[p]
      BY <1>2, <2>2 DEF Admit, TypeOK
    <3> QED BY <3>1, <3>2 DEF NotTwiceRegistered
  <2> QED BY <2>1, <2>2
<1>3. ASSUME NEW o \in Orders, NEW sponsored \in BOOLEAN, Create(o, sponsored)
      PROVE  NotTwiceRegistered'
  BY <1>1, <1>2, <1>3 DEF Create
<1>4. ASSUME NEW o \in Orders, Complete(o)
      PROVE  NotTwiceRegistered'
  <2>1. CASE UNCHANGED registration
    BY <1>1, <2>1
  <2>2. CASE ~ MustRefund(o) /\ Admit(o, order[o].sponsored)
    <3>1. order[o].sponsored \in BOOLEAN /\ MayAttend(o, order[o].sponsored)
      BY <2>2 DEF MustRefund, TypeOK, OrderType
    <3> QED BY <1>2, <2>2, <3>1
  <2> QED BY <1>4, <2>1, <2>2 DEF Complete
<1>5. ASSUME NEW o \in Orders, CancelRegistration(o)
      PROVE  NotTwiceRegistered'
  BY <1>1, <1>5 DEF CancelRegistration, TypeOK
<1>6. ASSUME NEW s \in Scanners, MarkRegistrationAsUsed(s)
      PROVE  NotTwiceRegistered'
  BY <1>1, <1>6 DEF MarkRegistrationAsUsed, TypeOK
<1>7. CASE UNCHANGED registration
  BY <1>1, <1>7
<1> QED
  BY <1>3, <1>4, <1>5, <1>6, <1>7
  DEF Next, Pay, Cancel, Validate, EditEvent, ExpireHolds, Tick, vars

-----------------------------------------------------------------------------
(* A live hold was counted: without it a place is left. *)
LEMMA HeldHasSpace ==
  ASSUME TypeOK, Coherent, NoOverbooking, NEW o \in Orders, ActiveHold(o)
  PROVE  HasSpace(o)
<1> SUFFICES ASSUME capacity # NoLimit
             PROVE  Cardinality(Occupants({o})) < capacity
  BY DEF HasSpace, registrationOccupancy
<1>1. o \notin Occupants({o})
  BY DEF Occupants, ActiveHold, Coherent
<1>2. Occupants({}) = Occupants({o}) \cup {o}
  BY DEF Occupants
<1>3. IsFiniteSet(Occupants({o})) /\ Cardinality(Occupants({o})) \in Nat
  BY OccupantsFinite DEF registrationOccupancy
<1>4. Cardinality(Occupants({})) = Cardinality(Occupants({o})) + 1
  <2>1. Cardinality(Occupants({o}) \cup {o}) = Cardinality(Occupants({o})) + 1
    BY <1>1, <1>3, FS_AddElement
  <2> QED BY <1>2, <2>1, Zenon
<1>5. Cardinality(Occupants({})) <= capacity /\ capacity \in Nat
  BY DEF NoOverbooking, registrationOccupancy, TypeOK
<1> QED BY <1>3, <1>4, <1>5

LEMMA HonourStep ==
  ASSUME TypeOK, Coherent, NoOverbooking, [Next]_vars, NEW o \in Orders,
         ActiveHold(o), payment[o] = "paid", ~ Ended,
         order[o].sponsored \/ ~ IsRegistered(buyer[o])
  PROVE  order'[o].status # "REFUND_REQUIRED"
<1> USE DEF event
<1>1. order[o].status = "PENDING" /\ order[o].hold = "HELD"
  BY DEF ActiveHold, Coherent
<1>2. ~ MustRefund(o)
  BY <1>1, HeldHasSpace DEF MustRefund, MayAttend
<1>3. ASSUME NEW p \in Orders, NEW sponsored \in BOOLEAN, Create(p, sponsored)
      PROVE  order'[o].status # "REFUND_REQUIRED"
  BY <1>1, <1>3, CreateEffect DEF TypeOK
<1>4. ASSUME NEW p \in Orders, Complete(p)
      PROVE  order'[o].status # "REFUND_REQUIRED"
  BY <1>1, <1>2, <1>4, CompleteEffect DEF TypeOK
<1>5. ASSUME NEW p \in Orders, Cancel(p)
      PROVE  order'[o].status # "REFUND_REQUIRED"
  BY <1>1, <1>5 DEF Cancel, TypeOK, OrderType
<1>6. CASE ExpireHolds
  BY <1>1, <1>6 DEF ExpireHolds, AfterExpiry, TypeOK, OrderType
<1>7. CASE UNCHANGED order
  BY <1>1, <1>7
<1> QED
  BY <1>3, <1>4, <1>5, <1>6, <1>7
  DEF Next, Pay, CancelRegistration, Validate, MarkRegistrationAsUsed, EditEvent, Tick, vars

-----------------------------------------------------------------------------
LEMMA RegistrationInvariant == Spec => []RegistrationInv
<1>1. Init => Coherent
  BY DEF Init, Coherent, NoOrder
<1>2. Init => RegistrationInv
  BY <1>1, TypeInit, BookingInit DEF RegistrationInv
<1>3. RegistrationInv /\ [Next]_vars => RegistrationInv'
  BY TypeStep, CoherentStep, BookingStep DEF RegistrationInv
<1> QED BY <1>2, <1>3, PTL DEF Spec

(* Checkouts, payments, scans and edits keep every row in its type. *)
THEOREM RegistrationTypes == Spec => []TypeOK
<1>1. RegistrationInv => TypeOK
  BY DEF RegistrationInv
<1> QED BY <1>1, RegistrationInvariant, PTL

(* An event is never overbooked: active registrations, sponsored places and  *)
(* live holds together stay within registrationAttendees, whatever late      *)
(* payments, cancellations, scans and capacity edits come in between.        *)
THEOREM CapacityRespected == Spec => []NoOverbooking
<1>1. RegistrationInv => NoOverbooking
  BY DEF RegistrationInv
<1> QED BY <1>1, RegistrationInvariant, PTL

(* No buyer has two active registrations, also when an expired checkout is   *)
(* paid after a second one was confirmed.                                    *)
THEOREM RegisteredOnce == Spec => []NotTwiceRegistered
<1>1. Init => NotTwiceRegistered
  BY DEF Init, NotTwiceRegistered
<1>2. TypeOK /\ NotTwiceRegistered /\ [Next]_vars => NotTwiceRegistered'
  BY NotTwiceStep
<1> QED BY <1>1, <1>2, RegistrationTypes, PTL DEF Spec

(* An exact payment for a live hold is never turned into a refund, unless    *)
(* the event has ended or the buyer is registered already.                   *)
THEOREM PaidHoldHonoured == Spec => HoldHonoured
<1>1. RegistrationInv /\ [Next]_vars =>
        [\A o \in Orders :
           /\ ActiveHold(o) /\ payment[o] = "paid" /\ ~ Ended
           /\ order[o].sponsored \/ ~ IsRegistered(buyer[o])
           => order'[o].status # "REFUND_REQUIRED"]_vars
  BY HonourStep DEF RegistrationInv
<1> QED BY <1>1, RegistrationInvariant, PTL DEF Spec, HoldHonoured
=============================================================================
