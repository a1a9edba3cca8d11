--------------------------- MODULE VolunteerProofs ---------------------------
(***************************************************************************)
(* For any number of people, roles and date edits: no role is overfilled   *)
(* and no confirmed time is invented.                                      *)
(***************************************************************************)
EXTENDS Volunteer, CountingLemmas

USE VolunteerAssumption

VolunteerInv == TypeOK /\ PlacesBounded /\ NoTimeInvented
Occupants(r) == {u \in Users : Occupies(u, r)}

LEMMA OccupantsCount ==
  ASSUME NEW S \in SUBSET Users
  PROVE  IsFiniteSet(S) /\ Cardinality(S) \in Nat
BY FS_Subset, FS_CardinalityType

LEMMA CapacityType ==
  ASSUME TypeOK, NEW r \in Roles
  PROVE  role[r].capacity \in Nat
<1>1. CASE role[r] = NoRole
  BY <1>1 DEF NoRole
<1>2. CASE role[r] \in RoleType
  <2>1. role[r].capacity \in Capacities
    BY <1>2 DEF RoleType
  <2> QED BY <2>1
<1> QED BY <1>1, <1>2 DEF TypeOK

(* A step that changes only u's row keeps every role within its capacity if   *)
(* u takes no place that was not u's already, or one that was free.           *)
LEMMA OnePlace ==
  ASSUME TypeOK, PlacesBounded, NEW u \in Users, role' = role,
         \A v \in Users \ {u} : volunteer'[v] = volunteer[v],
         \A r \in Roles : Occupies(u, r)' =>
           Occupies(u, r) \/ occupancy(r) < role[r].capacity
  PROVE  PlacesBounded'
<1> SUFFICES ASSUME NEW r \in Roles PROVE occupancy(r)' <= role[r].capacity
  BY DEF PlacesBounded
<1>1. role[r].capacity \in Nat /\ Cardinality(Occupants(r)) <= role[r].capacity
  BY CapacityType DEF PlacesBounded, occupancy, Occupants
<1>2. Occupants(r) \in SUBSET Users /\ Occupants(r)' \in SUBSET Users
  BY DEF Occupants
<1>3. \A v \in Users \ {u} : Occupies(v, r)' <=> Occupies(v, r)
  BY DEF Occupies
<1>4. occupancy(r)' = Cardinality(Occupants(r)')
  BY DEF occupancy, Occupants
<1>5. CASE Occupies(u, r)' /\ ~ Occupies(u, r)
  <2>1. Occupants(r)' \subseteq Occupants(r) \cup {u}
    BY <1>3 DEF Occupants
  <2>2. Cardinality(Occupants(r)) < role[r].capacity
    BY <1>5 DEF occupancy, Occupants
  <2>3. Cardinality(Occupants(r)') <= Cardinality(Occupants(r)) + 1
    BY <1>2, <2>1, OccupantsCount, OneMoreCount
  <2> QED BY <1>1, <1>2, <1>4, <2>2, <2>3, OccupantsCount
<1>6. CASE ~ (Occupies(u, r)' /\ ~ Occupies(u, r))
  <2>1. Occupants(r)' \subseteq Occupants(r)
    BY <1>3, <1>6 DEF Occupants
  <2>2. Cardinality(Occupants(r)') <= Cardinality(Occupants(r))
    BY <1>2, <2>1, OccupantsCount, SubsetCount
  <2> QED BY <1>1, <1>2, <1>4, <2>2, OccupantsCount
<1> QED BY <1>5, <1>6

-----------------------------------------------------------------------------
LEMMA InitOK == Init => VolunteerInv
<1> SUFFICES ASSUME Init PROVE VolunteerInv
  OBVIOUS
<1>1. TypeOK
  BY DEF Init, TypeOK
<1>2. PlacesBounded
  <2> SUFFICES ASSUME NEW r \in Roles PROVE occupancy(r) <= role[r].capacity
    BY DEF PlacesBounded
  <2>1. {u \in Users : Occupies(u, r)} = {}
    BY DEF Init, NoApplication, Occupies, occupiedVolunteerStatuses
  <2> QED BY <1>1, <2>1, CapacityType, FS_EmptySet DEF occupancy
<1>3. NoTimeInvented
  BY DEF Init, NoApplication, NoTimeInvented
<1> QED BY <1>1, <1>2, <1>3 DEF VolunteerInv

(* Edits of a role. *)
LEMMA RoleStep ==
  ASSUME VolunteerInv, NEW r \in Roles, NEW new \in RoleType,
         CreateRole(r, new) \/ UpdateRole(r, new)
  PROVE  VolunteerInv'
<1>1. /\ role' = [role EXCEPT ![r] = new]
      /\ UNCHANGED <<now, event, volunteer>>
  BY DEF CreateRole, UpdateRole
<1>2. TypeOK /\ TypeOK'
  BY <1>1 DEF VolunteerInv, TypeOK
<1>3. \A q \in Roles : occupancy(q)' = occupancy(q)
  BY <1>1 DEF occupancy, Occupies
<1>4. new.capacity \in Nat /\ occupancy(r) \in Nat
  BY OccupantsCount DEF RoleType, occupancy
<1>5. new.capacity >= occupancy(r)
  <2>1. CASE CreateRole(r, new)
    <3>1. occupancy(r) <= 0
      BY <2>1 DEF CreateRole, Exists, NoRole, VolunteerInv, PlacesBounded
    <3> QED BY <1>4, <3>1
  <2>2. CASE UpdateRole(r, new)
    BY <2>2 DEF UpdateRole, CapacityAllows
  <2> QED BY <2>1, <2>2
<1>6. PlacesBounded'
  <2> SUFFICES ASSUME NEW q \in Roles PROVE occupancy(q)' <= role'[q].capacity
    BY DEF PlacesBounded
  <2>1. CASE q = r
    BY <1>1, <1>2, <1>3, <1>4, <1>5, <2>1 DEF TypeOK
  <2>2. CASE q # r
    BY <1>1, <1>2, <1>3, <2>2 DEF TypeOK, VolunteerInv, PlacesBounded
  <2> QED BY <2>1, <2>2
<1>7. NoTimeInvented'
  BY <1>1 DEF VolunteerInv, NoTimeInvented
<1> QED BY <1>2, <1>6, <1>7 DEF VolunteerInv

(* A volunteer's own row: application, review, withdrawal, attendance.        *)
LEMMA ApplyStep ==
  ASSUME VolunteerInv, NEW u \in Users, NEW r \in Roles, Apply(u, r)
  PROVE  VolunteerInv'
<1>1. /\ UNCHANGED <<now, event, role>>
      /\ HasPlace(r) /\ MayApply(u, r)
      /\ TypeOK /\ PlacesBounded /\ NoTimeInvented
  BY DEF Apply, VolunteerInv
<1>2. /\ \A v \in Users \ {u} : volunteer'[v] = volunteer[v]
      /\ volunteer'[u] = IF volunteer[u].status = "NONE"
           THEN [status |-> FirstStatus(r), role |-> r, checkedInAt |-> 0, confirmed |-> 0]
           ELSE [volunteer[u] EXCEPT !.status = FirstStatus(r), !.role = r]
  BY <1>1 DEF Apply, TypeOK
<1>3. FirstStatus(r) \in {"APPLIED", "ACCEPTED"}
  BY DEF FirstStatus
<1>4. /\ volunteer'[u] \in ApplicationType
      /\ volunteer'[u].status = FirstStatus(r) /\ volunteer'[u].role = r
  <2>1. CASE volunteer[u].status = "NONE"
    BY <1>1, <1>2, <1>3, <2>1 DEF ApplicationType, Statuses, TypeOK
  <2>2. CASE volunteer[u].status # "NONE"
    <3>1. volunteer[u] \in ApplicationType
      BY <1>1, <2>2 DEF TypeOK, NoApplication
    <3> QED BY <1>2, <1>3, <2>2, <3>1 DEF ApplicationType, Statuses
  <2> QED BY <2>1, <2>2
<1>5. TypeOK'
  BY <1>1, <1>4 DEF TypeOK, Apply
<1>6. PlacesBounded'
  <2>1. \A q \in Roles : Occupies(u, q)' => Occupies(u, q) \/ occupancy(q) < role[q].capacity
    BY <1>1, <1>4 DEF Occupies, HasPlace
  <2> QED BY <1>1, <1>2, <2>1, OnePlace
<1>7. NoTimeInvented'
  BY <1>1, <1>2, <1>3, <1>4 DEF NoTimeInvented
<1> QED BY <1>5, <1>6, <1>7 DEF VolunteerInv

LEMMA ReviewStep ==
  ASSUME VolunteerInv, NEW u \in Users, NEW status \in {"ACCEPTED", "DECLINED"},
         Review(u, status)
  PROVE  VolunteerInv'
<1>1. /\ UNCHANGED <<now, event, role>>
      /\ volunteer[u] \in ApplicationType
      /\ TypeOK /\ PlacesBounded /\ NoTimeInvented
  BY DEF Review, VolunteerInv, TypeOK, NoApplication
<1>2. /\ \A v \in Users \ {u} : volunteer'[v] = volunteer[v]
      /\ volunteer'[u] = [volunteer[u] EXCEPT !.status = status]
  BY <1>1 DEF Review, TypeOK
<1>3. /\ volunteer'[u] \in ApplicationType
      /\ volunteer'[u].status = status /\ volunteer'[u].role = volunteer[u].role
  BY <1>1, <1>2 DEF ApplicationType, Statuses
<1>4. TypeOK'
  BY <1>1, <1>3 DEF TypeOK, Review
<1>5. PlacesBounded'
  <2>1. \A q \in Roles : Occupies(u, q)' => Occupies(u, q) \/ occupancy(q) < role[q].capacity
    BY <1>3 DEF Occupies, occupiedVolunteerStatuses, Review, HasPlace
  <2> QED BY <1>1, <1>2, <2>1, OnePlace
<1>6. NoTimeInvented'
  BY <1>1, <1>2, <1>3 DEF NoTimeInvented
<1> QED BY <1>4, <1>5, <1>6 DEF VolunteerInv

LEMMA WithdrawStep ==
  ASSUME VolunteerInv, NEW u \in Users, Withdraw(u)
  PROVE  VolunteerInv'
<1>1. /\ UNCHANGED <<now, event, role>>
      /\ volunteer[u] \in ApplicationType
      /\ TypeOK /\ PlacesBounded /\ NoTimeInvented
  BY DEF Withdraw, MayWithdraw, VolunteerInv, TypeOK, NoApplication
<1>2. /\ \A v \in Users \ {u} : volunteer'[v] = volunteer[v]
      /\ volunteer'[u] = [volunteer[u] EXCEPT !.status = "WITHDRAWN"]
  BY <1>1 DEF Withdraw, TypeOK
<1>3. volunteer'[u] \in ApplicationType /\ volunteer'[u].status = "WITHDRAWN"
  BY <1>1, <1>2 DEF ApplicationType, Statuses
<1>4. TypeOK'
  BY <1>1, <1>3 DEF TypeOK, Withdraw
<1>5. PlacesBounded'
  <2>1. \A q \in Roles : ~ Occupies(u, q)'
    BY <1>3 DEF Occupies, occupiedVolunteerStatuses
  <2> QED BY <1>1, <1>2, <2>1, OnePlace
<1>6. NoTimeInvented'
  BY <1>1, <1>2, <1>3 DEF NoTimeInvented
<1> QED BY <1>4, <1>5, <1>6 DEF VolunteerInv

LEMMA CheckInStep ==
  ASSUME VolunteerInv, NEW u \in Users, CheckIn(u)
  PROVE  VolunteerInv'
<1>1. /\ UNCHANGED <<now, event, role>>
      /\ volunteer[u] \in ApplicationType /\ volunteer[u].status = "ACCEPTED"
      /\ TypeOK /\ PlacesBounded /\ NoTimeInvented
  BY DEF CheckIn, VolunteerInv, TypeOK, NoApplication
<1>2. /\ \A v \in Users \ {u} : volunteer'[v] = volunteer[v]
      /\ volunteer'[u] = [volunteer[u] EXCEPT !.status = "CHECKED_IN", !.checkedInAt = now]
  BY <1>1 DEF CheckIn, TypeOK
<1>3. /\ volunteer'[u] \in ApplicationType /\ volunteer'[u].status = "CHECKED_IN"
      /\ volunteer'[u].role = volunteer[u].role
  BY <1>1, <1>2 DEF ApplicationType, Statuses, TypeOK
<1>4. TypeOK'
  BY <1>1, <1>2, <1>3 DEF TypeOK, CheckIn
<1>5. PlacesBounded'
  <2>1. \A q \in Roles : Occupies(u, q)' => Occupies(u, q)
    BY <1>1, <1>3 DEF Occupies, occupiedVolunteerStatuses
  <2> QED BY <1>1, <1>2, <2>1, OnePlace
<1>6. NoTimeInvented'
  BY <1>1, <1>2, <1>3 DEF NoTimeInvented
<1> QED BY <1>4, <1>5, <1>6 DEF VolunteerInv

(* The confirmed time ends at endDate, which has passed: it lies in the past. *)
LEMMA CompleteStep ==
  ASSUME VolunteerInv, NEW u \in Users, NEW minutes \in 1..MaxTime, Complete(u, minutes)
  PROVE  VolunteerInv'
<1>1. /\ UNCHANGED <<now, event, role>>
      /\ volunteer[u] \in ApplicationType /\ volunteer[u].status = "CHECKED_IN"
      /\ TypeOK /\ PlacesBounded /\ NoTimeInvented
  BY DEF Complete, VolunteerInv, TypeOK, NoApplication
<1>2. /\ \A v \in Users \ {u} : volunteer'[v] = volunteer[v]
      /\ volunteer'[u] = [volunteer[u] EXCEPT !.status = "COMPLETED", !.confirmed = minutes]
  BY <1>1 DEF Complete, TypeOK
<1>3. /\ volunteer'[u] \in ApplicationType
      /\ volunteer'[u].role = volunteer[u].role
      /\ volunteer'[u].confirmed = minutes
      /\ volunteer'[u].checkedInAt = volunteer[u].checkedInAt
      /\ volunteer'[u].status = "COMPLETED"
  <2>1. minutes \in 0..MaxTime
    OBVIOUS
  <2> QED BY <1>1, <1>2, <2>1 DEF ApplicationType, Statuses
<1>4. TypeOK'
  BY <1>1, <1>3 DEF TypeOK, Complete
<1>5. PlacesBounded'
  <2>1. \A q \in Roles : Occupies(u, q)' => Occupies(u, q)
    BY <1>1, <1>3 DEF Occupies, occupiedVolunteerStatuses
  <2> QED BY <1>1, <1>2, <2>1, OnePlace
<1>6. NoTimeInvented'
  <2>1. minutes <= now - volunteer[u].checkedInAt
    BY <1>1 DEF Complete, WorkIsDone, TypeOK, ApplicationType
  <2> QED BY <1>1, <1>2, <1>3, <2>1 DEF NoTimeInvented
<1> QED BY <1>4, <1>5, <1>6 DEF VolunteerInv

(* Steps that touch neither a role nor an application. *)
LEMMA DateStep ==
  ASSUME VolunteerInv, now' \in 0..MaxTime, now <= now',
         event' \in [startDate : Dates, endDate : Dates],
         UNCHANGED <<role, volunteer>>
  PROVE  VolunteerInv'
<1>1. TypeOK'
  BY DEF VolunteerInv, TypeOK
<1>2. PlacesBounded'
  BY DEF VolunteerInv, PlacesBounded, occupancy, Occupies
<1>3. NoTimeInvented'
  <2> SUFFICES ASSUME NEW u \in Users, volunteer[u].status = "COMPLETED"
               PROVE  volunteer[u].confirmed <= now' - volunteer[u].checkedInAt
    BY DEF NoTimeInvented
  <2>1. volunteer[u] \in ApplicationType /\ now \in Nat
    BY DEF VolunteerInv, TypeOK, NoApplication
  <2>2. volunteer[u].confirmed <= now - volunteer[u].checkedInAt
    BY DEF VolunteerInv, NoTimeInvented
  <2> QED BY <2>1, <2>2 DEF ApplicationType
<1> QED BY <1>1, <1>2, <1>3 DEF VolunteerInv

-----------------------------------------------------------------------------
LEMMA StepOK == VolunteerInv /\ [Next]_vars => VolunteerInv'
<1> SUFFICES ASSUME VolunteerInv, [Next]_vars PROVE VolunteerInv'
  OBVIOUS
<1>1. ASSUME NEW r \in Roles, NEW new \in RoleType, CreateRole(r, new) \/ UpdateRole(r, new)
      PROVE  VolunteerInv'
  BY <1>1, RoleStep
<1>2. ASSUME NEW u \in Users, NEW r \in Roles, Apply(u, r) PROVE VolunteerInv'
  BY <1>2, ApplyStep
<1>3. ASSUME NEW u \in Users, NEW status \in {"ACCEPTED", "DECLINED"}, Review(u, status)
      PROVE  VolunteerInv'
  BY <1>3, ReviewStep
<1>4. ASSUME NEW u \in Users, Withdraw(u) PROVE VolunteerInv'
  BY <1>4, WithdrawStep
<1>5. ASSUME NEW u \in Users, CheckIn(u) PROVE VolunteerInv'
  BY <1>5, CheckInStep
<1>6. ASSUME NEW u \in Users, NEW minutes \in 1..MaxTime, Complete(u, minutes)
      PROVE  VolunteerInv'
  BY <1>6, CompleteStep
<1>7. now \in 0..MaxTime /\ event \in [startDate : Dates, endDate : Dates]
  BY DEF VolunteerInv, TypeOK
<1>8. ASSUME NEW start \in Dates, NEW end \in Dates, EditDates(start, end)
      PROVE  VolunteerInv'
  BY <1>7, <1>8, DateStep DEF EditDates
<1>9. CASE Tick
  BY <1>7, <1>9, DateStep DEF Tick
<1>10. CASE UNCHANGED vars
  BY <1>7, <1>10, DateStep DEF vars
<1> QED BY <1>1, <1>2, <1>3, <1>4, <1>5, <1>6, <1>8, <1>9, <1>10 DEF Next

LEMMA VolunteerCorrect == Spec => []VolunteerInv
<1> QED BY InitOK, StepOK, PTL DEF Spec

(* Every row of Volunteer keeps its type, whoever applies, reviews or edits.  *)
THEOREM VolunteerTypes == Spec => []TypeOK
<1>1. VolunteerInv => TypeOK
  BY DEF VolunteerInv
<1> QED BY <1>1, VolunteerCorrect, PTL

(* The capacity checks of apply, review and updateRole, made one at a time    *)
(* under the event lock, keep every role within its capacity.                 *)
THEOREM RolesNeverOverfilled == Spec => []PlacesBounded
<1>1. VolunteerInv => PlacesBounded
  BY DEF VolunteerInv
<1> QED BY <1>1, VolunteerCorrect, PTL

(* complete credits only time between the check-in and an end that has        *)
(* passed, whatever the dates are edited to.                                  *)
THEOREM ConfirmedTimePassed == Spec => []NoTimeInvented
<1>1. VolunteerInv => NoTimeInvented
  BY DEF VolunteerInv
<1> QED BY <1>1, VolunteerCorrect, PTL

(* No apply, review, withdrawal or edit takes the attendance, the role or the *)
(* check-in of somebody who has come, also after a postponement.              *)
THEOREM AttendanceIsKept == Spec => AttendanceKept
<1> DEFINE Came(u) == volunteer[u].status \in {"CHECKED_IN", "COMPLETED"}
           Stays(u) == /\ volunteer'[u].status \in {volunteer[u].status, "COMPLETED"}
                       /\ volunteer'[u].role = volunteer[u].role
                       /\ volunteer'[u].checkedInAt = volunteer[u].checkedInAt
           Kept == \A u \in Users : Came(u) => Stays(u)
<1>1. VolunteerInv /\ [Next]_vars => [Kept]_vars
  <2> SUFFICES ASSUME VolunteerInv, Next PROVE Kept
    OBVIOUS
  <2>1. CASE UNCHANGED volunteer
    BY <2>1
  <2>2. ASSUME NEW u \in Users, ~ Came(u), \A v \in Users \ {u} : volunteer'[v] = volunteer[v]
        PROVE  Kept
    BY <2>2
  <2>3. \A u \in Users, r \in Roles : Apply(u, r) =>
          ~ Came(u) /\ \A v \in Users \ {u} : volunteer'[v] = volunteer[v]
    BY DEF Apply, MayApply, VolunteerInv, TypeOK
  <2>4. \A u \in Users, status \in {"ACCEPTED", "DECLINED"} : Review(u, status) =>
          ~ Came(u) /\ \A v \in Users \ {u} : volunteer'[v] = volunteer[v]
    BY DEF Review, VolunteerInv, TypeOK
  <2>5. \A u \in Users : Withdraw(u) \/ CheckIn(u) =>
          ~ Came(u) /\ \A v \in Users \ {u} : volunteer'[v] = volunteer[v]
    BY DEF Withdraw, MayWithdraw, CheckIn, VolunteerInv, TypeOK
  <2>6. ASSUME NEW u \in Users, NEW minutes \in 1..MaxTime, Complete(u, minutes)
        PROVE  Kept
    <3>1. volunteer[u] \in ApplicationType
      BY <2>6 DEF Complete, VolunteerInv, TypeOK, NoApplication
    <3>2. /\ volunteer'[u] =
               [volunteer[u] EXCEPT !.status = "COMPLETED", !.confirmed = minutes]
          /\ \A v \in Users \ {u} : volunteer'[v] = volunteer[v]
      BY <2>6 DEF Complete, VolunteerInv, TypeOK
    <3>3. Stays(u)
      BY <3>1, <3>2 DEF ApplicationType
    <3> QED BY <3>2, <3>3
  <2> HIDE DEF Came, Kept
  <2> QED BY <2>1, <2>2, <2>3, <2>4, <2>5, <2>6
          DEF Next, CreateRole, UpdateRole, EditDates, Tick
<1> QED BY <1>1, VolunteerCorrect, PTL DEF Spec, AttendanceKept
=============================================================================
