------------------------------ MODULE Volunteer ------------------------------
(***************************************************************************)
(* Volunteering at one event: volunteer.service.ts, volunteer.util.ts and  *)
(* the date edits of event.service.ts.                                     *)
(*                                                                         *)
(* Every operation is one transaction under the event lock.  Instants are  *)
(* ticks of the clock and confirmed time is counted in them.               *)
(*                                                                         *)
(* A definition whose comment begins with "Wrong" is not part of the       *)
(* specification: it is the faulty variant of the one that follows it.     *)
(***************************************************************************)
EXTENDS Integers, FiniteSets

CONSTANTS
  Users,       \* people other than the organiser
  Roles,       \* roles the event may come to have
  Capacities,  \* capacities an organiser may give a role
  Dates,       \* startDate and endDate values an organiser may set
  MaxTime      \* bound: the clock stops here

ASSUME VolunteerAssumption ==
  /\ IsFiniteSet(Users)
  /\ Capacities \subseteq Nat /\ Dates \subseteq Nat /\ MaxTime \in Nat

VARIABLES
  now,         \* new Date() of the server
  event,       \* Event.startDate and endDate
  role,        \* VolunteerRole rows, or NoRole
  volunteer    \* the user's EventVolunteer row, or NoApplication

vars == <<now, event, role, volunteer>>

Statuses == {"APPLIED", "ACCEPTED", "DECLINED", "WITHDRAWN", "CHECKED_IN", "COMPLETED"}
NoRole == [capacity |-> 0]
RoleType == [capacity : Capacities, requiresApproval : BOOLEAN, isOpen : BOOLEAN]
NoApplication == [status |-> "NONE"]
ApplicationType ==
  [status : Statuses, role : Roles, checkedInAt : 0..MaxTime, confirmed : 0..MaxTime]

-----------------------------------------------------------------------------
occupiedVolunteerStatuses == {"ACCEPTED", "CHECKED_IN", "COMPLETED"}
Occupies(u, r) ==
  volunteer[u].status \in occupiedVolunteerStatuses /\ volunteer[u].role = r
occupancy(r) == Cardinality({u \in Users : Occupies(u, r)})

Recruiting == now < event.startDate
Exists(r) == role[r] # NoRole
HasPlace(r) == occupancy(r) < role[r].capacity

Init ==
  /\ now = 0
  /\ event \in [startDate : Dates, endDate : Dates]
  /\ role \in [Roles -> RoleType \cup {NoRole}]
  /\ \E r \in Roles : Exists(r)
  /\ volunteer = [u \in Users |-> NoApplication]

-----------------------------------------------------------------------------
CreateRole(r, new) ==
  /\ Recruiting /\ ~ Exists(r)
  /\ role' = [role EXCEPT ![r] = new]
  /\ UNCHANGED <<now, event, volunteer>>

(* Wrong: compares the new capacity with the volunteers who have not come. *)
CapacityCovers(r, capacity) ==
  capacity >= Cardinality({u \in Users : volunteer[u].status = "ACCEPTED"
                                         /\ volunteer[u].role = r})
CapacityAllows(r, capacity) == capacity >= occupancy(r)
UpdateRole(r, new) ==
  /\ Recruiting /\ Exists(r)
  /\ CapacityAllows(r, new.capacity)
  /\ role' = [role EXCEPT ![r] = new]
  /\ UNCHANGED <<now, event, volunteer>>

(* An application that is neither withdrawn nor declined is returned as it    *)
(* is, or refuses one for another role.                                       *)
MayApply(u, r) == volunteer[u].status \in {"NONE", "WITHDRAWN", "DECLINED"}
(* Wrong: writes a word the enumeration does not have. *)
FirstStatusApproved(r) == IF role[r].requiresApproval THEN "APPLIED" ELSE "APPROVED"
FirstStatus(r) == IF role[r].requiresApproval THEN "APPLIED" ELSE "ACCEPTED"
Apply(u, r) ==
  /\ Recruiting /\ Exists(r) /\ role[r].isOpen
  /\ MayApply(u, r)
  /\ HasPlace(r)
  /\ volunteer' = [volunteer EXCEPT ![u] =
       IF @.status = "NONE"
       THEN [status |-> FirstStatus(r), role |-> r, checkedInAt |-> 0, confirmed |-> 0]
       ELSE [@ EXCEPT !.status = FirstStatus(r), !.role = r]]
  /\ UNCHANGED <<now, event, role>>

Review(u, status) ==
  /\ Recruiting
  /\ volunteer[u].status = "APPLIED"
  /\ status = "ACCEPTED" =>
       role[volunteer[u].role].isOpen /\ HasPlace(volunteer[u].role)
  /\ volunteer' = [volunteer EXCEPT ![u].status = status]
  /\ UNCHANGED <<now, event, role>>

(* Wrong: lets a volunteer take back a shift that has begun. *)
MayWithdrawLate(u) == volunteer[u].status \in {"APPLIED", "ACCEPTED", "CHECKED_IN"}
MayWithdraw(u) == volunteer[u].status \in {"APPLIED", "ACCEPTED"}
Withdraw(u) ==
  /\ Recruiting /\ MayWithdraw(u)
  /\ volunteer' = [volunteer EXCEPT ![u].status = "WITHDRAWN"]
  /\ UNCHANGED <<now, event, role>>

CheckIn(u) ==
  /\ event.startDate <= now /\ now < event.endDate
  /\ volunteer[u].status = "ACCEPTED"
  /\ volunteer' = [volunteer EXCEPT ![u].status = "CHECKED_IN", ![u].checkedInAt = now]
  /\ UNCHANGED <<now, event, role>>

(* Wrong: confirms work before it is over. *)
WorkIsDoneAtStart == event.startDate <= now
WorkIsDone == event.endDate <= now
Complete(u, minutes) ==
  /\ WorkIsDone
  /\ volunteer[u].status = "CHECKED_IN"
  /\ minutes \in 1..(event.endDate - volunteer[u].checkedInAt)
  /\ volunteer' = [volunteer EXCEPT ![u].status = "COMPLETED", ![u].confirmed = minutes]
  /\ UNCHANGED <<now, event, role>>

(* The mobile edit checks neither date against the other, nor against now.   *)
EditDates(start, end) ==
  /\ event' = [startDate |-> start, endDate |-> end]
  /\ UNCHANGED <<now, role, volunteer>>

Tick ==
  /\ now < MaxTime
  /\ now' = now + 1
  /\ UNCHANGED <<event, role, volunteer>>

Next ==
  \/ \E r \in Roles, new \in RoleType : CreateRole(r, new) \/ UpdateRole(r, new)
  \/ \E u \in Users :
       \/ \E r \in Roles : Apply(u, r)
       \/ \E status \in {"ACCEPTED", "DECLINED"} : Review(u, status)
       \/ Withdraw(u)
       \/ CheckIn(u)
       \/ \E minutes \in 1..MaxTime : Complete(u, minutes)
  \/ \E start, end \in Dates : EditDates(start, end)
  \/ Tick

Spec == Init /\ [][Next]_vars

-----------------------------------------------------------------------------
(* Every variable keeps its type. *)
TypeOK ==
  /\ now \in 0..MaxTime
  /\ event \in [startDate : Dates, endDate : Dates]
  /\ role \in [Roles -> RoleType \cup {NoRole}]
  /\ volunteer \in [Users -> ApplicationType \cup {NoApplication}]

(* No role has more confirmed volunteers than places, though pending          *)
(* applications reserve none, people reapply to other roles, and a postponed  *)
(* event recruits and edits capacities again after volunteers have come.      *)
PlacesBounded == \A r \in Roles : occupancy(r) <= role[r].capacity

(* "Confirmed hours ... cannot exceed the time from check-in to event end":   *)
(* however the dates are edited around check-in and confirmation, nobody is   *)
(* credited with time that has not passed since the check-in.                 *)
NoTimeInvented ==
  \A u \in Users :
    volunteer[u].status = "COMPLETED" =>
      volunteer[u].confirmed <= now - volunteer[u].checkedInAt

(* Someone who has come to volunteer has come for good: neither a withdrawal, *)
(* a new application nor a review takes the role or the attendance away, also *)
(* when a postponement has reopened recruitment.                              *)
AttendanceKept ==
  [][\A u \in Users :
       volunteer[u].status \in {"CHECKED_IN", "COMPLETED"} =>
         /\ volunteer'[u].status \in {volunteer[u].status, "COMPLETED"}
         /\ volunteer'[u].role = volunteer[u].role
         /\ volunteer'[u].checkedInAt = volunteer[u].checkedInAt]_vars
=============================================================================
