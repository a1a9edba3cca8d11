------------------------------ MODULE FoodBank ------------------------------
(***************************************************************************)
(* Meal passes of one food bank event: food-bank.service.ts,               *)
(* collection-policy.ts, collection-windows.ts, food-bank-settings.ts and  *)
(* the part of event.service.ts that edits a food bank.                    *)
(*                                                                         *)
(* Every operation is one transaction under the event lock.  A manager's   *)
(* stale expectedUpdatedAt only refuses the edit, so managers act on the   *)
(* current row here.  Instants are ticks of the clock; a local day is      *)
(* DayLength ticks.                                                        *)
(*                                                                         *)
(* A definition whose comment begins with "Wrong" is not part of the       *)
(* specification: it is the faulty variant of the one that follows it.     *)
(***************************************************************************)
EXTENDS Integers, FiniteSets

CONSTANTS
  Users,       \* people who may claim a meal, or donate and be granted one
  DayLength,   \* ticks in a local day
  Settings,    \* schedules an organiser may enter
  MaxTime      \* bound: the clock and every schedule end here

SettingsType == [startDate : 0..MaxTime, endDate : 0..MaxTime,
                 totalMeals : Nat, slotCapacity : Nat, slotMinutes : Nat \ {0}]

ASSUME FoodBankAssumption ==
  /\ IsFiniteSet(Users)
  /\ DayLength \in Nat \ {0} /\ MaxTime \in Nat
  /\ Settings \subseteq SettingsType

VARIABLES
  now,     \* clock_timestamp() of the database
  event,   \* startDate, endDate and the three food bank settings of Event
  status,  \* Event.foodBankCollectionStatus
  pass     \* the user's MealPass row, or NoPass

vars == <<now, event, status, pass>>

CollectionStatuses == {"NOT_STARTED", "OPEN", "PAUSED", "CLOSED"}
Passes == [collectionStart : 0..MaxTime, isUsed : BOOLEAN]
NoPass == [isUsed |-> FALSE]

-----------------------------------------------------------------------------
Issued == {u \in Users : pass[u] # NoPass}
Unused == {u \in Issued : ~ pass[u].isUsed}
At(start) == {u \in Issued : pass[u].collectionStart = start}

Windows(e) ==
  {start \in e.startDate..(e.endDate - 1) : (start - e.startDate) % e.slotMinutes = 0}

(* Wrong: forgets the rounding up of the last, shorter window's meals. *)
FitsRoughly(e) ==
  /\ e.slotCapacity \in 1..e.totalMeals
  /\ Windows(e) # {} /\ e.totalMeals - 1 <= Cardinality(Windows(e)) * e.slotCapacity
(* assertFoodBankSettings *)
assertFoodBankSettings(e) ==
  /\ e.slotCapacity \in 1..e.totalMeals
  /\ Windows(e) # {} /\ e.totalMeals <= Cardinality(Windows(e)) * e.slotCapacity

(* The window under way is still offered, those before it are not. *)
Upcoming(start) == start + event.slotMinutes > now
(* Wrong: a window takes one more than its capacity. *)
FreeWindowsPlusOne ==
  {start \in Windows(event) :
     Upcoming(start) /\ Cardinality(At(start)) <= event.slotCapacity}
FreeWindows ==
  {start \in Windows(event) :
     Upcoming(start) /\ Cardinality(At(start)) < event.slotCapacity}
(* Wrong: does not count the total. *)
OffersUnlimited == FreeWindows
(* nextCollectionWindow offers the first free window while meals remain. *)
Offers == IF Cardinality(Issued) < event.totalMeals THEN FreeWindows ELSE {}

Day(instant) == instant \div DayLength
(* collectionAvailability *)
Availability ==
  IF Day(now) < Day(event.startDate) THEN "upcoming"
  ELSE IF Day(now) > Day(event.endDate) THEN "ended"
  ELSE status

-----------------------------------------------------------------------------
Init ==
  /\ now = 0
  /\ event \in {e \in Settings : assertFoodBankSettings(e)}
  /\ status = "NOT_STARTED"
  /\ pass = [u \in Users |-> NoPass]

(* allocate: a claim, or the grant inside a donation's fulfilment; a user    *)
(* who has a pass gets that one.                                             *)
Allocate(u) ==
  /\ pass[u] = NoPass
  /\ now < event.endDate /\ status # "CLOSED"
  /\ \E start \in Offers :
       /\ \A other \in Offers : start <= other
       /\ pass' = [pass EXCEPT ![u] = [collectionStart |-> start, isUsed |-> FALSE]]
  /\ UNCHANGED <<now, event, status>>

(* Wrong: only looks whether the organiser has opened collection. *)
ReadyOnAnyDay(u) == pass[u] # NoPass /\ ~ pass[u].isUsed /\ status = "OPEN"
Ready(u) == pass[u] # NoPass /\ ~ pass[u].isUsed /\ Availability = "OPEN"
Redeem(u) ==
  /\ Ready(u)
  /\ pass' = [pass EXCEPT ![u].isUsed = TRUE]
  /\ UNCHANGED <<now, event, status>>

UpdateCollection(s) ==
  /\ s \in {"OPEN", "PAUSED", "CLOSED"}
  /\ s = "OPEN" => Availability \notin {"upcoming", "ended"}
  /\ s = "PAUSED" => status = "OPEN"
  /\ status' = s
  /\ UNCHANGED <<now, event, pass>>

(* Wrong: leaves the arrival windows where they were. *)
ShiftedNone(shift) == pass
Shifted(shift) ==
  [u \in Users |-> IF u \in Unused
                   THEN [pass[u] EXCEPT !.collectionStart = @ + shift] ELSE pass[u]]
(* Wrong: measures the move from the end of the hours. *)
ShiftFromEnd(start) == start - event.endDate
Shift(start) == start - event.startDate
Reschedule(start) ==
  LET shift == Shift(start)
  IN /\ status # "OPEN"
     /\ Day(start) >= Day(now)
     /\ shift # 0
     /\ event.endDate + shift <= MaxTime     \* bound
     /\ event' = [event EXCEPT !.startDate = start, !.endDate = @ + shift]
     /\ status' = "NOT_STARTED"
     /\ pass' = Shifted(shift)
     /\ UNCHANGED now

(* applyEventUpdate: schedule and settings are locked by the first pass. *)
EditSettings(e) ==
  /\ assertFoodBankSettings(e)
  /\ Issued = {}
  /\ event' = e
  /\ UNCHANGED <<now, status, pass>>

Tick ==
  /\ now < MaxTime
  /\ now' = now + 1
  /\ UNCHANGED <<event, status, pass>>

Next ==
  \/ \E u \in Users : Allocate(u) \/ Redeem(u)
  \/ \E s \in CollectionStatuses : UpdateCollection(s)
  \/ \E start \in 0..MaxTime : Reschedule(start)
  \/ \E e \in Settings : EditSettings(e)
  \/ Tick

Spec == Init /\ [][Next]_vars

-----------------------------------------------------------------------------
(* Every variable keeps its type. *)
TypeOK ==
  /\ now \in 0..MaxTime
  /\ event \in SettingsType
  /\ status \in CollectionStatuses
  /\ pass \in [Users -> Passes \cup {NoPass}]

(* README.md, Food bank events: allocation "caps each window and the total    *)
(* inventory", through any number of reschedules.                             *)
MealsBounded == Cardinality(Issued) <= event.totalMeals

(* So no window is overcrowded; only those still to collect crowd it.         *)
WindowsPaced ==
  \A start \in 0..MaxTime : Cardinality(At(start) \cap Unused) <= event.slotCapacity

(* An uncollected pass always points into the current collection hours, at    *)
(* the beginning of a window.                                                 *)
PassInHours == \A u \in Unused : pass[u].collectionStart \in Windows(event)

(* Collection hours "accommodate all meals": until the first window is over,  *)
(* no meal is left for which there is no window, whatever was collected       *)
(* before a reschedule.                                                       *)
NoMealStranded ==
  Cardinality(Issued) < event.totalMeals /\ now < event.startDate + event.slotMinutes
    => Offers # {}

(* A pass is never lost and, once collected, never changes or is used again;  *)
(* meals are handed out only while collection is open on one of its own days. *)
PassKept ==
  [][\A u \in Issued :
       /\ pass'[u] # NoPass
       /\ pass[u].isUsed => pass'[u] = pass[u]
       /\ pass'[u].isUsed /\ ~ pass[u].isUsed =>
            /\ status = "OPEN"
            /\ Day(now) \in Day(event.startDate)..Day(event.endDate)]_vars
=============================================================================
