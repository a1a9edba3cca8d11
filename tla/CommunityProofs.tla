-------------------------- MODULE CommunityProofs ---------------------------
(***************************************************************************)
(* What people do around events, without the bounds of the runs: the food  *)
(* bank, then the scanners at the door, the rides with their chat, and the *)
(* life of events.                                                         *)
(*                                                                         *)
(* Of the food bank, for any number of users, any schedules and any day    *)
(* length: the meals handed out are bounded, the windows are paced and     *)
(* every pass to be collected lies in the collection hours.                *)
(***************************************************************************)
EXTENDS FoodBank, CountingLemmas, SequenceTheorems

USE FoodBankAssumption

(* What the settings check leaves for ever: there is a window at all, so the  *)
(* hours end after they begin and a reschedule cannot move the end below 0.   *)
HoursExist == event.startDate < event.endDate

(* The inductive invariant.  PassInHours is needed for TypeOK (a shifted pass *)
(* stays on the calendar) and the other two ride along.                       *)
FoodBankInv == TypeOK /\ HoursExist /\ PassInHours /\ MealsBounded /\ WindowsPaced

LEMMA HoursOf ==
  ASSUME NEW e \in Settings, assertFoodBankSettings(e)
  PROVE  e \in SettingsType /\ e.startDate < e.endDate
<1>1. e \in SettingsType
  OBVIOUS
<1>2. PICK start \in e.startDate..(e.endDate - 1) : TRUE
  BY DEF assertFoodBankSettings, Windows
<1> QED BY <1>1, <1>2 DEF SettingsType

(* Sets of users are finite, so counting them is monotonic.                   *)
LEMMA UsersCount ==
  ASSUME NEW S \in SUBSET Users
  PROVE  IsFiniteSet(S) /\ Cardinality(S) \in Nat
BY FS_Subset, FS_CardinalityType

LEMMA CountGrows ==
  ASSUME NEW S \in SUBSET Users, NEW T \in SUBSET Users, S \subseteq T
  PROVE  Cardinality(S) <= Cardinality(T)
BY UsersCount, SubsetCount

LEMMA CountOneMore ==
  ASSUME NEW S \in SUBSET Users, NEW T \in SUBSET Users, NEW u \in Users,
         T \subseteq S \cup {u}
  PROVE  Cardinality(T) <= Cardinality(S) + 1
BY UsersCount, OneMoreCount

-----------------------------------------------------------------------------
LEMMA InitOK == Init => FoodBankInv
<1> SUFFICES ASSUME Init PROVE FoodBankInv
  OBVIOUS
<1>1. event \in SettingsType /\ HoursExist
  BY HoursOf DEF Init, HoursExist
<1>2. Issued = {} /\ Unused = {}
  BY DEF Init, Issued, Unused
<1>3. TypeOK
  BY <1>1 DEF Init, TypeOK, CollectionStatuses
<1>4. MealsBounded
  BY <1>1, <1>2, FS_EmptySet DEF MealsBounded, SettingsType
<1>5. WindowsPaced
  <2>1. \A start : At(start) \cap Unused = {}
    BY <1>2
  <2> QED BY <1>1, <2>1, FS_EmptySet DEF WindowsPaced, SettingsType
<1>6. PassInHours
  BY <1>2 DEF PassInHours
<1> QED BY <1>1, <1>3, <1>4, <1>5, <1>6 DEF FoodBankInv

(* What a pass of the type invariant looks like.                              *)
LEMMA IssuedType ==
  ASSUME TypeOK
  PROVE  /\ Issued \subseteq Users /\ Unused \subseteq Issued
         /\ \A u \in Issued : pass[u] \in Passes
BY DEF TypeOK, Issued, Unused

(* A step that changes no pass and keeps the event keeps the invariant.       *)
LEMMA PassesUntouched ==
  ASSUME FoodBankInv, now' \in 0..MaxTime, status' \in CollectionStatuses,
         UNCHANGED <<event, pass>>
  PROVE  FoodBankInv'
<1>1. Issued' = Issued /\ Unused' = Unused
  BY DEF Issued, Unused
<1>2. \A start : At(start)' = At(start)
  BY <1>1 DEF At
<1>3. TypeOK' /\ HoursExist' /\ MealsBounded'
  BY <1>1 DEF FoodBankInv, TypeOK, HoursExist, MealsBounded
<1>4. PassInHours'
  BY <1>1 DEF FoodBankInv, PassInHours, Windows
<1>5. WindowsPaced'
  BY <1>1, <1>2 DEF FoodBankInv, WindowsPaced
<1> QED BY <1>3, <1>4, <1>5 DEF FoodBankInv

LEMMA AllocateOK ==
  ASSUME FoodBankInv, NEW u \in Users, Allocate(u)
  PROVE  FoodBankInv'
<1>1. PICK start \in Offers :
        pass' = [pass EXCEPT ![u] = [collectionStart |-> start, isUsed |-> FALSE]]
  BY DEF Allocate
<1>2. /\ start \in Windows(event) /\ start \in 0..MaxTime
      /\ Cardinality(Issued) < event.totalMeals
      /\ Cardinality(At(start)) < event.slotCapacity
  <2>1. Cardinality(Issued) < event.totalMeals /\ start \in FreeWindows
    BY <1>1 DEF Offers
  <2>2. event \in SettingsType
    BY DEF FoodBankInv, TypeOK
  <2> QED BY <2>1, <2>2 DEF FreeWindows, Windows, SettingsType
<1>3. TypeOK
  BY DEF FoodBankInv
<1>4. pass'[u] = [collectionStart |-> start, isUsed |-> FALSE] /\ pass'[u] \in Passes
  BY <1>1, <1>2, <1>3 DEF TypeOK, Passes
<1>5. /\ UNCHANGED <<now, event, status>>
      /\ \A v \in Users \ {u} : pass'[v] = pass[v]
  BY <1>1, <1>3 DEF Allocate, TypeOK
<1>6. /\ Issued' \subseteq Issued \cup {u} /\ Unused' \subseteq Unused \cup {u}
      /\ Issued' \subseteq Users
  BY <1>5 DEF Issued, Unused
<1>7. TypeOK' /\ HoursExist'
  BY <1>1, <1>3, <1>4, <1>5 DEF TypeOK, FoodBankInv, HoursExist
<1>8. MealsBounded'
  <2>1. Cardinality(Issued') <= Cardinality(Issued) + 1
    BY <1>3, <1>6, IssuedType, CountOneMore
  <2>2. Cardinality(Issued) \in Nat /\ Cardinality(Issued') \in Nat
    BY <1>3, <1>6, IssuedType, UsersCount
  <2>3. event.totalMeals \in Nat
    BY <1>3 DEF TypeOK, SettingsType
  <2> QED BY <1>2, <1>5, <2>1, <2>2, <2>3 DEF MealsBounded
<1>9. PassInHours'
  BY <1>2, <1>4, <1>5, <1>6 DEF FoodBankInv, PassInHours, Unused, Issued, Windows
<1>10. WindowsPaced'
  <2> SUFFICES ASSUME NEW other \in 0..MaxTime
               PROVE  Cardinality(At(other)' \cap Unused') <= event'.slotCapacity
    BY DEF WindowsPaced
  <2>1. At(other) \subseteq Users /\ At(other)' \subseteq Users
    BY DEF At, Issued
  <2>2. event.slotCapacity \in Nat
    BY <1>3 DEF TypeOK, SettingsType
  <2>3. CASE other = start
    <3>1. At(other)' \subseteq At(other) \cup {u}
      BY <1>5, <1>6 DEF At
    <3>2. At(other)' \cap Unused' \subseteq At(other) \cup {u}
      BY <3>1
    <3>3. Cardinality(At(other)' \cap Unused') <= Cardinality(At(other)) + 1
      <4>1. At(other)' \cap Unused' \in SUBSET Users
        BY <2>1
      <4> QED BY <2>1, <3>2, <4>1, CountOneMore
    <3>4. Cardinality(At(other)) \in Nat /\ Cardinality(At(other)' \cap Unused') \in Nat
      BY <2>1, UsersCount
    <3> QED BY <1>2, <1>5, <2>2, <2>3, <3>3, <3>4
  <2>4. CASE other # start
    <3>1. At(other)' \cap Unused' \subseteq At(other) \cap Unused
      BY <1>4, <1>5, <1>6, <2>4 DEF At, Unused
    <3>2. Cardinality(At(other)' \cap Unused') <= Cardinality(At(other) \cap Unused)
      BY <2>1, <3>1, CountGrows
    <3>3. Cardinality(At(other) \cap Unused) <= event.slotCapacity
      BY DEF FoodBankInv, WindowsPaced
    <3>4. /\ Cardinality(At(other) \cap Unused) \in Nat
          /\ Cardinality(At(other)' \cap Unused') \in Nat
      BY <2>1, UsersCount
    <3> QED BY <1>5, <2>2, <3>2, <3>3, <3>4
  <2> QED BY <2>3, <2>4
<1> QED BY <1>7, <1>8, <1>9, <1>10 DEF FoodBankInv

LEMMA RedeemOK ==
  ASSUME FoodBankInv, NEW u \in Users, Redeem(u)
  PROVE  FoodBankInv'
<1>1. TypeOK /\ u \in Unused
  BY DEF FoodBankInv, Redeem, Ready, Issued, Unused
<1>2. /\ UNCHANGED <<now, event, status>>
      /\ pass' = [pass EXCEPT ![u].isUsed = TRUE]
  BY DEF Redeem
<1>3. /\ pass[u] \in Passes /\ pass'[u] \in Passes
      /\ pass'[u].isUsed /\ pass'[u].collectionStart = pass[u].collectionStart
      /\ \A v \in Users \ {u} : pass'[v] = pass[v]
  BY <1>1, <1>2, IssuedType DEF TypeOK, Passes
<1>4. /\ Issued' \subseteq Issued /\ Unused' \subseteq Unused \ {u}
  BY <1>1, <1>3 DEF Issued, Unused
<1>5. TypeOK' /\ HoursExist'
  BY <1>1, <1>2, <1>3 DEF TypeOK, FoodBankInv, HoursExist
<1>6. MealsBounded'
  <2>1. Cardinality(Issued') <= Cardinality(Issued)
    BY <1>1, <1>4, IssuedType, CountGrows
  <2>2. Issued \in SUBSET Users /\ Issued' \in SUBSET Users
    BY <1>1, <1>4, IssuedType
  <2>3. Cardinality(Issued) \in Nat /\ Cardinality(Issued') \in Nat
    BY <2>2, UsersCount
  <2>4. event.totalMeals \in Nat
    BY <1>1 DEF TypeOK, SettingsType
  <2> QED BY <1>2, <2>1, <2>3, <2>4 DEF FoodBankInv, MealsBounded
<1>7. PassInHours'
  BY <1>2, <1>3, <1>4 DEF FoodBankInv, PassInHours, Unused, Issued, Windows
<1>8. WindowsPaced'
  <2> SUFFICES ASSUME NEW start \in 0..MaxTime
               PROVE  Cardinality(At(start)' \cap Unused') <= event'.slotCapacity
    BY DEF WindowsPaced
  <2>1. At(start)' \cap Unused' \subseteq At(start) \cap Unused
    BY <1>3, <1>4 DEF At, Unused
  <2>2. At(start) \cap Unused \in SUBSET Users
    BY DEF At, Issued
  <2>3. At(start)' \cap Unused' \in SUBSET Users
    BY <2>1, <2>2
  <2>4. Cardinality(At(start)' \cap Unused') <= Cardinality(At(start) \cap Unused)
    BY <2>1, <2>2, <2>3, CountGrows
  <2>5. /\ Cardinality(At(start) \cap Unused) \in Nat
        /\ Cardinality(At(start)' \cap Unused') \in Nat
    BY <2>2, <2>3, UsersCount
  <2>6. event.slotCapacity \in Nat /\ Cardinality(At(start) \cap Unused) <= event.slotCapacity
    BY <1>1 DEF TypeOK, SettingsType, FoodBankInv, WindowsPaced
  <2> QED BY <1>2, <2>4, <2>5, <2>6
<1> QED BY <1>5, <1>6, <1>7, <1>8 DEF FoodBankInv

(* A reschedule moves the hours and every pass still to be collected by the   *)
(* same shift: a window and its passes arrive together.                       *)
LEMMA RescheduleOK ==
  ASSUME FoodBankInv, NEW start \in 0..MaxTime, Reschedule(start)
  PROVE  FoodBankInv'
<1> DEFINE shift == start - event.startDate
<1>1. /\ TypeOK /\ PassInHours /\ HoursExist
      /\ event \in SettingsType /\ shift \in Int
  BY DEF FoodBankInv, TypeOK, SettingsType
<1>2. /\ event.endDate + shift <= MaxTime
      /\ event' = [event EXCEPT !.startDate = start, !.endDate = @ + shift]
      /\ status' = "NOT_STARTED" /\ now' = now
      /\ pass' = Shifted(shift)
  BY DEF Reschedule, Shift
<1>3. /\ event'.startDate = event.startDate + shift
      /\ event'.endDate = event.endDate + shift
      /\ event'.totalMeals = event.totalMeals
      /\ event'.slotCapacity = event.slotCapacity
      /\ event'.slotMinutes = event.slotMinutes
      /\ event' \in SettingsType /\ HoursExist'
  <2>1. /\ event'.startDate = start
        /\ event'.endDate = event.endDate + shift
        /\ event'.totalMeals = event.totalMeals
        /\ event'.slotCapacity = event.slotCapacity
        /\ event'.slotMinutes = event.slotMinutes
    BY <1>1, <1>2 DEF SettingsType
  <2>2. event.startDate \in Nat /\ event.endDate \in Nat /\ event.startDate < event.endDate
    BY <1>1 DEF SettingsType, HoursExist
  <2>3. start + (event.endDate - event.startDate) = event.endDate + shift
    BY <2>2
  <2>4. start < event.endDate + shift /\ event.endDate + shift \in 0..MaxTime
    BY <1>2, <2>2, <2>3
  <2>5. event' = [startDate |-> start, endDate |-> event.endDate + shift,
                  totalMeals |-> event.totalMeals, slotCapacity |-> event.slotCapacity,
                  slotMinutes |-> event.slotMinutes]
    BY <1>1, <1>2 DEF SettingsType
  <2>6. event' \in SettingsType
    BY <1>1, <2>4, <2>5 DEF SettingsType
  <2> QED BY <2>1, <2>2, <2>4, <2>6 DEF HoursExist
<1>4. \A u \in Users \ Unused : pass'[u] = pass[u]
  BY <1>2 DEF Shifted
<1>5. \A u \in Unused : /\ pass'[u] = [pass[u] EXCEPT !.collectionStart = @ + shift]
                        /\ pass[u] \in Passes
  BY <1>1, <1>2, IssuedType DEF Shifted
<1>6. \A u \in Unused :
        /\ pass[u].collectionStart \in event.startDate..(event.endDate - 1)
        /\ (pass[u].collectionStart - event.startDate) % event.slotMinutes = 0
  BY <1>1 DEF PassInHours, Windows
<1>7. \A u \in Unused :
        /\ pass'[u].collectionStart = pass[u].collectionStart + shift
        /\ pass'[u] \in Passes
  <2> SUFFICES ASSUME NEW u \in Unused
               PROVE  /\ pass'[u].collectionStart = pass[u].collectionStart + shift
                      /\ pass'[u] \in Passes
    OBVIOUS
  <2>1. pass[u].collectionStart + shift \in 0..MaxTime
    BY <1>1, <1>2, <1>3, <1>6 DEF SettingsType
  <2> QED BY <1>5, <2>1 DEF Passes
<1>8. Issued' \subseteq Issued /\ Unused' \subseteq Unused
  BY <1>4 DEF Issued, Unused
<1>9. TypeOK'
  <2>1. pass' \in [Users -> Passes \cup {NoPass}]
    <3>1. \A u \in Users : pass'[u] \in Passes \cup {NoPass}
      BY <1>1, <1>4, <1>7 DEF TypeOK
    <3> QED BY <1>2, <3>1 DEF Shifted
  <2> QED BY <1>1, <1>2, <1>3, <2>1 DEF TypeOK, CollectionStatuses
<1>10. MealsBounded'
  <2>1. Issued \in SUBSET Users /\ Issued' \in SUBSET Users
    BY <1>1, <1>8, IssuedType
  <2>2. /\ Cardinality(Issued) \in Nat /\ Cardinality(Issued') \in Nat
        /\ Cardinality(Issued') <= Cardinality(Issued)
    BY <1>8, <2>1, UsersCount, CountGrows
  <2> QED BY <1>1, <1>3, <2>2 DEF FoodBankInv, MealsBounded, SettingsType
<1>11. PassInHours'
  <2> SUFFICES ASSUME NEW u \in Unused' PROVE pass'[u].collectionStart \in Windows(event')
    BY DEF PassInHours, Windows
  <2>1. pass'[u].collectionStart - event'.startDate
          = pass[u].collectionStart - event.startDate
    <3>1. /\ pass'[u].collectionStart = pass[u].collectionStart + shift
          /\ pass[u].collectionStart \in Int
      <4>1. u \in Unused
        BY <1>8
      <4>2. pass[u] \in Passes /\ pass'[u].collectionStart = pass[u].collectionStart + shift
        BY <1>5, <1>7, <4>1
      <4> QED BY <4>2 DEF Passes
    <3>2. event'.startDate = event.startDate + shift /\ event.startDate \in Int
      BY <1>1, <1>3 DEF SettingsType
    <3> QED BY <1>1, <3>1, <3>2
  <2>2. pass'[u].collectionStart \in event'.startDate..(event'.endDate - 1)
    BY <1>1, <1>3, <1>6, <1>7, <1>8 DEF SettingsType
  <2>3. (pass'[u].collectionStart - event'.startDate) % event'.slotMinutes = 0
    BY <1>3, <1>6, <1>8, <2>1
  <2> QED BY <2>2, <2>3 DEF Windows
<1>12. WindowsPaced'
  <2> SUFFICES ASSUME NEW other \in 0..MaxTime
               PROVE  Cardinality(At(other)' \cap Unused') <= event'.slotCapacity
    BY DEF WindowsPaced
  <2> DEFINE before == other - shift
  <2>1. At(other)' \cap Unused' \subseteq At(before) \cap Unused
    <3> SUFFICES ASSUME NEW u \in Unused', u \in At(other)'
                 PROVE  u \in At(before) \cap Unused
      OBVIOUS
    <3>1. u \in Unused /\ u \in Issued /\ pass[u].collectionStart \in Int
      BY <1>1, <1>5, <1>8, IssuedType DEF Passes
    <3>2. pass[u].collectionStart + shift = other
      BY <1>7, <3>1 DEF At
    <3>3. pass[u].collectionStart = before
      BY <1>1, <3>1, <3>2
    <3> QED BY <3>1, <3>3 DEF At
  <2>2. At(before) \cap Unused \in SUBSET Users
    BY DEF At, Issued
  <2>3. /\ Cardinality(At(other)' \cap Unused') \in Nat
        /\ Cardinality(At(before) \cap Unused) \in Nat
        /\ Cardinality(At(other)' \cap Unused') <= Cardinality(At(before) \cap Unused)
    BY <2>1, <2>2, UsersCount, CountGrows
  <2>4. event.slotCapacity \in Nat
    BY <1>1 DEF SettingsType
  <2>5. Cardinality(At(before) \cap Unused) <= event.slotCapacity
    <3>1. CASE before \in 0..MaxTime
      BY <3>1 DEF FoodBankInv, WindowsPaced
    <3>2. CASE before \notin 0..MaxTime
      <4>1. At(before) \cap Unused = {}
        BY <1>5, <3>2, ZenonT(60) DEF At, Passes
      <4> QED BY <2>4, <4>1, FS_EmptySet
    <3> QED BY <3>1, <3>2
  <2> QED BY <1>3, <2>3, <2>4, <2>5
<1> QED BY <1>3, <1>9, <1>10, <1>11, <1>12 DEF FoodBankInv

(* Settings may change only while no pass exists.                             *)
LEMMA EditSettingsOK ==
  ASSUME FoodBankInv, NEW e \in Settings, EditSettings(e)
  PROVE  FoodBankInv'
<1>1. event' = e /\ UNCHANGED <<now, status, pass>> /\ Issued = {}
  BY DEF EditSettings
<1>2. e \in SettingsType /\ e.startDate < e.endDate
  BY HoursOf DEF EditSettings
<1>3. Issued' = {} /\ Unused' = {}
  BY <1>1 DEF Issued, Unused
<1>4. TypeOK' /\ HoursExist'
  BY <1>1, <1>2 DEF FoodBankInv, TypeOK, HoursExist
<1>5. MealsBounded' /\ PassInHours'
  BY <1>1, <1>2, <1>3, FS_EmptySet DEF MealsBounded, PassInHours, SettingsType
<1>6. WindowsPaced'
  <2>1. \A start : At(start)' \cap Unused' = {}
    BY <1>3
  <2> QED BY <1>1, <1>2, <2>1, FS_EmptySet, SMTT(30) DEF WindowsPaced, SettingsType
<1> QED BY <1>4, <1>5, <1>6 DEF FoodBankInv

-----------------------------------------------------------------------------
LEMMA StepOK == FoodBankInv /\ [Next]_vars => FoodBankInv'
<1> SUFFICES ASSUME FoodBankInv, [Next]_vars PROVE FoodBankInv'
  OBVIOUS
<1>1. now \in 0..MaxTime /\ status \in CollectionStatuses
  BY DEF FoodBankInv, TypeOK
<1>2. ASSUME NEW u \in Users, Allocate(u) PROVE FoodBankInv'
  BY <1>2, AllocateOK
<1>3. ASSUME NEW u \in Users, Redeem(u) PROVE FoodBankInv'
  BY <1>3, RedeemOK
<1>4. ASSUME NEW s \in CollectionStatuses, UpdateCollection(s) PROVE FoodBankInv'
  BY <1>1, <1>4, PassesUntouched DEF UpdateCollection
<1>5. ASSUME NEW start \in 0..MaxTime, Reschedule(start) PROVE FoodBankInv'
  BY <1>5, RescheduleOK
<1>6. ASSUME NEW e \in Settings, EditSettings(e) PROVE FoodBankInv'
  BY <1>6, EditSettingsOK
<1>7. CASE Tick
  BY <1>1, <1>7, PassesUntouched DEF Tick
<1>8. CASE UNCHANGED vars
  BY <1>1, <1>8, PassesUntouched DEF vars
<1> QED BY <1>2, <1>3, <1>4, <1>5, <1>6, <1>7, <1>8 DEF Next

LEMMA FoodBankCorrect == Spec => []FoodBankInv
<1> QED BY InitOK, StepOK, PTL DEF Spec

(* Every variable of FoodBank keeps its type; a shifted pass stays on the     *)
(* calendar.                                                                  *)
THEOREM FoodBankTypes == Spec => []TypeOK
<1>1. FoodBankInv => TypeOK
  BY DEF FoodBankInv
<1> QED BY <1>1, FoodBankCorrect, PTL

(* allocate never hands out more meals than the food bank has, through       *)
(* reschedules and edits of the settings.                                    *)
THEOREM MealsNeverExceeded == Spec => []MealsBounded
<1>1. FoodBankInv => MealsBounded
  BY DEF FoodBankInv
<1> QED BY <1>1, FoodBankCorrect, PTL

(* allocate never crowds a window with more people still to collect than it  *)
(* takes, and a reschedule moves them together.                              *)
THEOREM WindowsStayPaced == Spec => []WindowsPaced
<1>1. FoodBankInv => WindowsPaced
  BY DEF FoodBankInv
<1> QED BY <1>1, FoodBankCorrect, PTL

(* A pass that is still to be collected always names a window of the current  *)
(* collection hours: a reschedule moves both by the same shift.               *)
THEOREM PassesFollowHours == Spec => []PassInHours
<1>1. FoodBankInv => PassInHours
  BY DEF FoodBankInv
<1> QED BY <1>1, FoodBankCorrect, PTL

-----------------------------------------------------------------------------
(***************************************************************************)
(* No meal is stranded.  The settings check leaves windows for all meals,  *)
(* and a reschedule keeps their number (MealsFit).  If no window that is   *)
(* still offered were free, every window would be full, and as the windows *)
(* share no pass, there would be a pass for every meal.                    *)
(***************************************************************************)
MealsFit == event.totalMeals <= Cardinality(Windows(event)) * event.slotCapacity

LEMMA WindowsFinite ==
  ASSUME NEW e \in SettingsType
  PROVE  IsFiniteSet(Windows(e)) /\ Cardinality(Windows(e)) \in Nat
<1>1. IsFiniteSet(e.startDate..(e.endDate - 1))
  BY FS_Interval DEF SettingsType
<1> QED BY <1>1, FS_Subset, FS_CardinalityType DEF Windows

LEMMA WindowsMove ==
  ASSUME NEW e \in SettingsType, NEW f \in SettingsType, NEW shift \in Int,
         f.startDate = e.startDate + shift, f.endDate = e.endDate + shift,
         f.slotMinutes = e.slotMinutes
  PROVE  Cardinality(Windows(f)) = Cardinality(Windows(e))
<1> DEFINE move == [start \in Windows(e) |-> start + shift]
<1>1. \A i : i \in Windows(e) <=> i \in e.startDate..(e.endDate - 1)
                                 /\ (i - e.startDate) % e.slotMinutes = 0
  BY DEF Windows
<1>2. \A i : i \in Windows(f) <=> i \in f.startDate..(f.endDate - 1)
                                 /\ (i - f.startDate) % f.slotMinutes = 0
  BY DEF Windows
<1>3. /\ e.startDate \in Int /\ e.endDate \in Int
      /\ f.startDate \in Int /\ f.endDate \in Int
  BY DEF SettingsType
<1>4. ASSUME NEW i \in Windows(e)
      PROVE  i + shift \in Windows(f)
  <2> PICK j : j = i + shift
    OBVIOUS
  <2>1. i \in Int /\ j - f.startDate = i - e.startDate
    BY <1>1, <1>3
  <2>2. j \in f.startDate..(f.endDate - 1)
    BY <1>1, <1>3
  <2>3. (j - f.startDate) % f.slotMinutes = 0
    BY <1>1, <2>1
  <2> QED BY <1>2, <2>2, <2>3
<1>5. ASSUME NEW j \in Windows(f)
      PROVE  j - shift \in Windows(e) /\ j = (j - shift) + shift
  <2>1. j \in Int /\ j - f.startDate = (j - shift) - e.startDate
    BY <1>2, <1>3
  <2>2. j - shift \in e.startDate..(e.endDate - 1)
    BY <1>2, <1>3
  <2>3. ((j - shift) - e.startDate) % e.slotMinutes = 0
    BY <1>2, <2>1
  <2> QED BY <1>1, <2>1, <2>2, <2>3
<1>6. move \in Bijection(Windows(e), Windows(f))
  <2>1. move \in [Windows(e) -> Windows(f)]
    BY <1>4
  <2>2. \A i, j \in Windows(e) : move[i] = move[j] => i = j
    BY <1>1, <1>3
  <2>3. \A j \in Windows(f) : \E i \in Windows(e) : move[i] = j
    <3> SUFFICES ASSUME NEW j \in Windows(f) PROVE \E i \in Windows(e) : move[i] = j
      OBVIOUS
    <3>1. move[j - shift] = j
      BY <1>5
    <3> QED BY <1>5, <3>1
  <2> HIDE DEF move
  <2> QED BY <2>1, <2>2, <2>3, Fun_IsBij
<1> HIDE DEF move
<1>7. ExistsBijection(Windows(e), Windows(f))
  BY <1>6 DEF ExistsBijection
<1> QED BY <1>7, WindowsFinite, FS_Bijection

LEMMA MealsFitStep ==
  ASSUME FoodBankInv, FoodBankInv', MealsFit, [Next]_vars
  PROVE  MealsFit'
<1>1. CASE UNCHANGED event
  BY <1>1 DEF MealsFit
<1>2. ASSUME NEW start \in 0..MaxTime, Reschedule(start)
      PROVE  MealsFit'
  <2> DEFINE shift == start - event.startDate
  <2>1. event \in SettingsType /\ event' \in SettingsType
    BY DEF FoodBankInv, TypeOK
  <2>2. event' = [event EXCEPT !.startDate = start, !.endDate = @ + shift]
    BY <1>2 DEF Reschedule, Shift
  <2>3. /\ event'.startDate = event.startDate + shift
        /\ event'.endDate = event.endDate + shift
        /\ event'.slotMinutes = event.slotMinutes
        /\ event'.totalMeals = event.totalMeals
        /\ event'.slotCapacity = event.slotCapacity
        /\ shift \in Int
    BY <2>1, <2>2 DEF SettingsType
  <2>4. Cardinality(Windows(event')) = Cardinality(Windows(event))
    <3> HIDE DEF shift
    <3> QED BY <2>1, <2>3, WindowsMove
  <2> QED BY <2>3, <2>4 DEF MealsFit, Windows
<1>3. ASSUME NEW e \in Settings, EditSettings(e)
      PROVE  MealsFit'
  <2>1. event' = e /\ assertFoodBankSettings(e)
    BY <1>3 DEF EditSettings
  <2>2. e.totalMeals <= Cardinality(Windows(e)) * e.slotCapacity
    BY <2>1 DEF assertFoodBankSettings
  <2> QED BY <2>1, <2>2 DEF MealsFit, Windows
<1> QED BY <1>1, <1>2, <1>3
        DEF Next, Allocate, Redeem, UpdateCollection, Tick, vars

LEMMA FreeWindowLeft ==
  ASSUME FoodBankInv, MealsFit
  PROVE  NoMealStranded
<1> SUFFICES ASSUME Cardinality(Issued) < event.totalMeals,
                    now < event.startDate + event.slotMinutes, Offers = {}
             PROVE  FALSE
  BY DEF NoMealStranded
<1>1. /\ event \in SettingsType /\ now \in Int
      /\ event.startDate \in Int /\ event.endDate \in Int /\ event.slotMinutes \in Int
      /\ event.totalMeals \in Nat /\ event.slotCapacity \in Nat
      /\ Issued \in SUBSET Users
  BY IssuedType DEF FoodBankInv, TypeOK, SettingsType
<1>2. \A start \in Windows(event) : start \in Int /\ Upcoming(start)
  BY <1>1 DEF Windows, Upcoming
<1> DEFINE held == [start \in Windows(event) |-> At(start)]
<1>3. held \in [Windows(event) -> SUBSET Issued]
  BY DEF At
<1>4. \A v, w \in Windows(event) : v # w => held[v] \cap held[w] = {}
  BY DEF At
<1>5. \A w \in Windows(event) : Cardinality(held[w]) >= event.slotCapacity
  <2> SUFFICES ASSUME NEW w \in Windows(event)
               PROVE  Cardinality(At(w)) >= event.slotCapacity
    OBVIOUS
  <2>1. ~ (Cardinality(At(w)) < event.slotCapacity)
    BY <1>2 DEF Offers, FreeWindows
  <2>2. Cardinality(At(w)) \in Nat
    BY <1>1, UsersCount DEF At
  <2> QED BY <1>1, <2>1, <2>2
<1>6. IsFiniteSet(Issued) /\ Cardinality(Issued) \in Nat
  BY <1>1, UsersCount
<1>7. IsFiniteSet(Windows(event)) /\ Cardinality(Windows(event)) \in Nat
  BY <1>1, WindowsFinite
<1>8. Cardinality(Windows(event)) * event.slotCapacity <= Cardinality(Issued)
  <2> HIDE DEF held
  <2> QED BY <1>1, <1>3, <1>4, <1>5, <1>6, <1>7, BlocksCount
<1>9. Cardinality(Windows(event)) * event.slotCapacity \in Nat
  BY <1>1, <1>7
<1> QED BY <1>1, <1>6, <1>8, <1>9 DEF MealsFit

(* allocate finds a window for every meal until the first window is over,    *)
(* also after the hours were moved.                                          *)
THEOREM NoMealIsStranded == Spec => []NoMealStranded
<1>1. Init => MealsFit
  BY DEF Init, assertFoodBankSettings, MealsFit
<1>2. FoodBankInv /\ FoodBankInv' /\ MealsFit /\ [Next]_vars => MealsFit'
  BY MealsFitStep
<1>3. FoodBankInv /\ MealsFit => NoMealStranded
  BY FreeWindowLeft
<1> QED BY <1>1, <1>2, <1>3, FoodBankCorrect, PTL DEF Spec

(* No step takes a pass back or changes one that was collected, and redeem   *)
(* collects only while collection is open on one of the event's own days.    *)
THEOREM PassesKept == Spec => PassKept
<1> DEFINE Kept ==
      \A u \in Issued :
        /\ pass'[u] # NoPass
        /\ pass[u].isUsed => pass'[u] = pass[u]
        /\ pass'[u].isUsed /\ ~ pass[u].isUsed =>
             /\ status = "OPEN"
             /\ Day(now) \in Day(event.startDate)..Day(event.endDate)
<1>1. FoodBankInv /\ [Next]_vars => [Kept]_vars
  <2> SUFFICES ASSUME FoodBankInv, Next PROVE Kept
    OBVIOUS
  <2>0. /\ TypeOK /\ \A u \in Issued : u \in Users /\ pass[u] \in Passes
        /\ \A p \in Passes : p # NoPass /\ p.isUsed \in BOOLEAN
    BY IssuedType DEF FoodBankInv, Passes, NoPass
  <2>1. CASE UNCHANGED pass
    BY <2>0, <2>1 DEF Issued
  <2>2. ASSUME NEW u \in Users, Allocate(u)
        PROVE  Kept
    BY <2>0, <2>2 DEF Allocate, Issued, TypeOK
  <2>3. ASSUME NEW u \in Users, Redeem(u)
        PROVE  Kept
    <3>1. pass' = [pass EXCEPT ![u].isUsed = TRUE] /\ u \in Issued /\ ~ pass[u].isUsed
      BY <2>3 DEF Redeem, Ready, Issued
    <3>2. status = "OPEN" /\ Day(now) \in Day(event.startDate)..Day(event.endDate)
      <4>1. /\ status = "OPEN"
            /\ ~ (Day(now) < Day(event.startDate)) /\ ~ (Day(now) > Day(event.endDate))
        BY <2>3 DEF Redeem, Ready, Availability
      <4>2. Day(now) \in Int /\ Day(event.startDate) \in Int /\ Day(event.endDate) \in Int
        BY <2>0 DEF Day, TypeOK, SettingsType
      <4> QED BY <4>1, <4>2
    <3>3. /\ pass'[u] = [pass[u] EXCEPT !.isUsed = TRUE]
          /\ \A v \in Users : v # u => pass'[v] = pass[v]
      BY <2>0, <3>1 DEF TypeOK
    <3>4. pass'[u] \in Passes
      BY <2>0, <3>1, <3>3, ZenonT(60) DEF Passes
    <3> QED BY <2>0, <3>1, <3>2, <3>3, <3>4 DEF Issued
  <2>4. ASSUME NEW start \in 0..MaxTime, Reschedule(start)
        PROVE  Kept
    <3>1. pass' = Shifted(Shift(start))
      BY <2>4 DEF Reschedule
    <3> SUFFICES ASSUME NEW u \in Issued
                 PROVE  /\ pass'[u] # NoPass
                        /\ pass[u].isUsed => pass'[u] = pass[u]
                        /\ pass'[u].isUsed = pass[u].isUsed
      OBVIOUS
    <3>2. CASE u \in Unused
      <4>1. pass'[u] = [pass[u] EXCEPT !.collectionStart = @ + Shift(start)]
        BY <2>0, <3>1, <3>2 DEF Shifted
      <4>2. pass'[u].isUsed = pass[u].isUsed /\ DOMAIN pass'[u] = DOMAIN pass[u]
        BY <2>0, <4>1 DEF Passes
      <4>3. DOMAIN pass[u] # DOMAIN NoPass
        BY <2>0 DEF Passes, NoPass
      <4> QED BY <3>2, <4>2, <4>3 DEF Unused
    <3>3. CASE u \notin Unused
      BY <2>0, <3>1, <3>3 DEF Shifted
    <3> QED BY <3>2, <3>3
  <2>5. ASSUME NEW e \in Settings, EditSettings(e)
        PROVE  Kept
    BY <2>5 DEF EditSettings
  <2> QED BY <2>1, <2>2, <2>3, <2>4, <2>5 DEF Next, UpdateCollection, Tick
<1> QED BY <1>1, FoodBankCorrect, PTL DEF Spec, PassKept

-----------------------------------------------------------------------------
(***************************************************************************)
(* The door, for any staff, items and devices that scan at once.           *)
(***************************************************************************)
CONSTANTS
  Owners, Tickets, Registrations, Owner, Devices, None, MaxBulk  \* as in Scanner

VARIABLES item, ended, permission, trusted, admitted, log, work  \* as in Scanner

Door == INSTANCE Scanner

DoorAssumption ==
  /\ IsFiniteSet(Devices) /\ IsFiniteSet(Tickets) /\ IsFiniteSet(Registrations)
  /\ Tickets \cap Registrations = {}

(* A device's call in flight. *)
Scanning == {"scan", "check", "mark", "log"}
ScanTask ==
  [op : Scanning, user : Users, codes : Seq(Door!Items), mark : BOOLEAN,
   found : Door!ItemType \cup {None}, done : Seq(Door!Items)]
Granting ==
  [op : {"grant", "revoke", "update", "remove"}, pair : Door!Pairs,
   found : Door!Expiries \cup {None}, expires : Door!Expiries]
Verifying == [op : {"verify"}, ticket : Tickets]
TaskType == {Door!Idle} \cup ScanTask \cup Granting \cup Verifying

DoorTypes ==
  /\ item \in [Door!Items -> Door!ItemType] /\ ended \subseteq Owners
  /\ permission \in [Door!Pairs -> Door!PermissionType \cup {None}]
  /\ trusted \in [Devices -> SUBSET Owners]
  /\ admitted \in [Door!Items \X Users -> Nat] /\ log \in [Door!Items \X Users -> Nat]
  /\ work \in [Devices -> TaskType]

Used(i) == item[i].used /\ item[i].status = "used"

(* What a call that remembers w may rely on: the items it has admitted are   *)
(* used, each listed once, and the one it is about to mark is none of them.  *)
Pending(w) == w.op = "mark" \/ (w.op = "check" /\ ~ w.found.used)
ScanOk(w) ==
  w.op \in Scanning =>
    /\ \A k \in DOMAIN w.done : item[w.done[k]].used
    /\ \A j, k \in DOMAIN w.done : w.done[j] = w.done[k] => j = k
    /\ w.op = "check" => w.found \in Door!ItemType
    /\ w.op # "scan" => w.codes # <<>>
    /\ Pending(w) \/ w.op = "log" => \A k \in DOMAIN w.done : w.done[k] # Head(w.codes)
    /\ w.op = "log" => Used(Head(w.codes))
UpdateOk(w) == w.op = "update" => w.found \in Door!Expiries

Remembered == \A d \in Devices : ScanOk(work[d]) /\ UpdateOk(work[d])
AdmittedIsUsed == \A x \in Door!Items \X Users : admitted[x] > 0 => Used(x[1])

(* What a device that has read an item may decide on is in its history.      *)
Permits(o, u) == <<o, u>> \in Door!Pairs /\ permission[<<o, u>>] \in Door!InForce
Watched ==
  \A d \in Devices, o \in Owners :
    work[d].op = "check" /\ Permits(o, work[d].user) => o \in trusted[d]

(* Who is about to mark an item, and who is about to log that it has: a      *)
(* device admits an item at most once, and logs what it has admitted.        *)
Marks(w, i, u) == Pending(w) /\ Head(w.codes) = i /\ w.user = u
Logs(w, i, u) == w.op = "log" /\ Head(w.codes) = i /\ w.user = u
Marking(i, u) == {d \in Devices : Marks(work[d], i, u)}
Logging(i, u) == {d \in Devices : Logs(work[d], i, u)}
Counted ==
  \A i \in Door!Items, u \in Users :
    /\ admitted[<<i, u>>] + Cardinality(Marking(i, u)) <= Cardinality(Devices)
    /\ log[<<i, u>>] + Cardinality(Logging(i, u)) <= admitted[<<i, u>>]

DoorInv ==
  /\ DoorTypes /\ Remembered /\ AdmittedIsUsed /\ Counted
  /\ Watched /\ Door!AdmittedByStaff

-----------------------------------------------------------------------------
LEMMA TaskKinds ==
  ASSUME DoorTypes, NEW d \in Devices
  PROVE  /\ work[d] \in TaskType
         /\ work[d].op \in Scanning => work[d] \in ScanTask
         /\ work[d].op \in {"grant", "revoke", "update", "remove"} => work[d] \in Granting
         /\ work[d].op = "verify" => work[d] \in Verifying
<1>1. work[d] \in TaskType
  BY DEF DoorTypes
<1> QED
  BY <1>1 DEF TaskType, ScanTask, Granting, Verifying, Scanning, Door!Idle

(* Used items stay used. *)
LEMMA ItemsStay ==
  ASSUME DoorInv, [Door!Next]_(Door!vars)
  PROVE  /\ item' \in [Door!Items -> Door!ItemType]
         /\ \A i \in Door!Items : item[i].used => item'[i].used
         /\ \A i \in Door!Items : Used(i) => Used(i)'
<1>0. item \in [Door!Items -> Door!ItemType]
  BY DEF DoorInv, DoorTypes
<1>1. CASE item' = item
  BY <1>0, <1>1 DEF Used
<1>2. ASSUME NEW d \in Devices, Door!markAsUsed(d)
      PROVE  \E i \in Door!Items, u \in Users : item' = [item EXCEPT ![i] = Door!UsedBy(u)]
  <2>1. work[d] \in ScanTask /\ work[d].codes # <<>>
    BY <1>2, TaskKinds DEF DoorInv, Remembered, ScanOk, Door!markAsUsed, Scanning
  <2>2. Head(work[d].codes) \in Door!Items /\ work[d].user \in Users
    BY <2>1 DEF ScanTask
  <2> QED BY <1>2, <2>2 DEF Door!markAsUsed
<1>3. ASSUME NEW i \in Door!Items, NEW u \in Users, item' = [item EXCEPT ![i] = Door!UsedBy(u)]
      PROVE  /\ item' \in [Door!Items -> Door!ItemType]
             /\ \A j \in Door!Items : item[j].used => item'[j].used
             /\ \A j \in Door!Items : Used(j) => Used(j)'
  <2>r. PICK row : row = Door!UsedBy(u)
    OBVIOUS
  <2>1. row \in Door!ItemType /\ row.used /\ row.status = "used"
    BY <2>r DEF Door!UsedBy, Door!ItemType
  <2> QED BY <1>0, <1>3, <2>1, <2>r DEF Used
<1>4. ASSUME NEW d \in Devices, Door!VerifyWrite(d)
      PROVE  /\ item' \in [Door!Items -> Door!ItemType]
             /\ \A j \in Door!Items : item[j].used => item'[j].used
             /\ \A j \in Door!Items : Used(j) => Used(j)'
  <2>i. PICK i \in Door!Items : i = work[d].ticket
    BY <1>4, TaskKinds DEF DoorInv, Door!VerifyWrite, Verifying, Door!Items
  <2>o. PICK old \in Door!ItemType : old = item[i]
    BY <1>0
  <2>r. PICK row : row = [old EXCEPT !.used = TRUE, !.status = "used"]
    OBVIOUS
  <2>1. row \in Door!ItemType /\ row.used /\ row.status = "used"
    BY <2>r DEF Door!ItemType
  <2>2. item' = [item EXCEPT ![i] = row]
    BY <1>0, <1>4, <2>i, <2>o, <2>r DEF Door!VerifyWrite, Door!ItemType
  <2> QED BY <1>0, <2>1, <2>2 DEF Used
<1>5. CASE \E d \in Devices : Door!VerifyWrite(d)
  BY <1>4, <1>5
<1>6. CASE \E d \in Devices : Door!markAsUsed(d)
  BY <1>2, <1>3, <1>6
<1>7. \/ item' = item \/ \E d \in Devices : Door!VerifyWrite(d) \/ Door!markAsUsed(d)
  BY DEF Door!Next, Door!vars, Door!PermissionRead, Door!grantPermission, Door!revokePermission,
     Door!updatePermission, Door!removePermission, Door!Write, Door!Find, Door!Refuse,
     Door!Validate, Door!Admit, Door!LogScan, Door!Answer, Door!Abandon, Door!VerifyRead,
     Door!scan, Door!EventEnds, Door!Lapse
<1> QED BY <1>1, <1>5, <1>6, <1>7

(* A row is changed by the five operations on permissions only, and stays a row. *)
LEMMA PermissionsStep ==
  ASSUME DoorAssumption, DoorInv, [Door!Next]_(Door!vars)
  PROVE  permission' \in [Door!Pairs -> Door!PermissionType \cup {None}]
<1> DEFINE Goal == permission' \in [Door!Pairs -> Door!PermissionType \cup {None}]
<1>0. permission \in [Door!Pairs -> Door!PermissionType \cup {None}]
  BY DEF DoorInv, DoorTypes
<1>1. ASSUME permission' = permission
      PROVE  Goal
  BY <1>0, <1>1
<1>2. ASSUME NEW x \in Door!Pairs, NEW row \in Door!PermissionType \cup {None},
             permission' = [permission EXCEPT ![x] = row]
      PROVE  Goal
  BY <1>0, <1>2
<1>3. ASSUME NEW x \in Door!Pairs, permission[x] # None
      PROVE  /\ \A e \in Door!Expiries, active, deleted \in BOOLEAN :
                  [permission[x] EXCEPT !.active = active, !.expires = e] \in Door!PermissionType
             /\ [permission[x] EXCEPT !.active = FALSE, !.deleted = TRUE] \in Door!PermissionType
             /\ [permission[x] EXCEPT !.expires = "past"] \in Door!PermissionType
  <2>1. permission[x] \in Door!PermissionType
    BY <1>0, <1>3
  <2> QED BY <2>1 DEF Door!PermissionType, Door!Expiries
<1>4. ASSUME NEW d \in Devices, Door!grantPermission(d)
      PROVE  Goal
  <2>1. work[d] \in Granting
    BY <1>4, TaskKinds DEF DoorInv, Door!grantPermission
  <2>2. work[d].pair \in Door!Pairs /\ work[d].expires \in Door!Expiries
    BY <2>1 DEF Granting
  <2>3. [active |-> TRUE, deleted |-> FALSE, expires |-> work[d].expires] \in Door!PermissionType
    BY <2>2 DEF Door!PermissionType
  <2> HIDE DEF Goal
  <2> QED BY <1>2, <1>4, <2>2, <2>3 DEF Door!grantPermission, Door!Write
<1>5. ASSUME NEW d \in Devices, Door!revokePermission(d)
      PROVE  Goal
  <2>1. work[d] \in Granting
    BY <1>5, TaskKinds DEF DoorInv, Door!revokePermission
  <2>2. work[d].pair \in Door!Pairs
    BY <2>1 DEF Granting
  <2> HIDE DEF Goal
  <2> QED BY <1>2, <1>3, <1>5, <2>2 DEF Door!revokePermission, Door!Write
<1>6. ASSUME NEW d \in Devices, NEW active \in BOOLEAN, Door!updatePermission(d, active)
      PROVE  Goal
  <2>1. work[d] \in Granting /\ work[d].found \in Door!Expiries
    BY <1>6, TaskKinds DEF DoorInv, Door!updatePermission, Remembered, UpdateOk
  <2>2. work[d].pair \in Door!Pairs /\ work[d].expires \in Door!Expiries
    BY <2>1 DEF Granting
  <2>e. PICK e \in Door!Expiries :
          e = IF work[d].expires = "never" THEN work[d].found ELSE work[d].expires
    BY <2>1, <2>2
  <2>3. /\ permission[work[d].pair] # None
        /\ permission' = [permission EXCEPT ![work[d].pair] =
                            [permission[work[d].pair] EXCEPT !.active = active, !.expires = e]]
    BY <1>6, <2>e DEF Door!updatePermission, Door!Write
  <2> HIDE DEF Goal
  <2> QED BY <1>2, <1>3, <2>2, <2>3
<1>7. ASSUME NEW d \in Devices, Door!removePermission(d)
      PROVE  Goal
  <2>1. work[d] \in Granting
    BY <1>7, TaskKinds DEF DoorInv, Door!removePermission
  <2>2. work[d].pair \in Door!Pairs
    BY <2>1 DEF Granting
  <2> HIDE DEF Goal
  <2> QED BY <1>2, <1>7, <2>2 DEF Door!removePermission, Door!Write
<1>8. ASSUME NEW x \in Door!Pairs, Door!Lapse(x)
      PROVE  Goal
  <2>r. PICK row : row = [permission[x] EXCEPT !.expires = "past"]
    OBVIOUS
  <2>1. row \in Door!PermissionType /\ permission' = [permission EXCEPT ![x] = row]
    BY <1>0, <1>3, <1>8, <2>r DEF Door!Lapse
  <2> HIDE DEF Goal
  <2> QED BY <1>2, <2>1
<1>9. \/ permission' = permission
      \/ \E d \in Devices : \/ Door!grantPermission(d) \/ Door!revokePermission(d)
                            \/ Door!removePermission(d)
                            \/ \E active \in BOOLEAN : Door!updatePermission(d, active)
      \/ \E x \in Door!Pairs : Door!Lapse(x)
  BY DEF Door!Next, Door!vars, Door!PermissionRead, Door!Find, Door!Refuse, Door!VerifyWrite,
     Door!Validate, Door!Admit, Door!LogScan, Door!Answer, Door!Abandon, Door!VerifyRead,
     Door!scan, Door!EventEnds, Door!markAsUsed
<1> HIDE DEF Goal
<1>10. Goal
  BY <1>1, <1>4, <1>5, <1>6, <1>7, <1>8, <1>9
<1> QED BY <1>10 DEF Goal

(* Whoever decides to mark an item has, at some moment since it read it,     *)
(* been allowed to: permissions that come into force while it decides are    *)
(* noted, and those that end are kept.                                       *)
LEMMA TrustStep ==
  ASSUME DoorAssumption, DoorInv, [Door!Next]_(Door!vars)
  PROVE  trusted' \in [Devices -> SUBSET Owners] /\ Watched' /\ Door!AdmittedByStaff'
<1> DEFINE Goal == trusted' \in [Devices -> SUBSET Owners] /\ Watched' /\ Door!AdmittedByStaff'
           Staff(w, t) == LET o == Owner[Head(w.codes)] IN w.user = o \/ o \in t
           Decided == {"mark", "log"}
<1>0. /\ trusted \in [Devices -> SUBSET Owners] /\ work \in [Devices -> TaskType]
      /\ permission \in [Door!Pairs -> Door!PermissionType \cup {None}]
      /\ \A e \in Devices : work[e].op \in Decided => Staff(work[e], trusted[e])
      /\ \A e \in Devices, o \in Owners :
           work[e].op = "check" /\ Permits(o, work[e].user) => o \in trusted[e]
  BY DEF DoorInv, DoorTypes, Watched, Door!AdmittedByStaff
(* What a step must do for each device. *)
<1>1. ASSUME trusted' \in [Devices -> SUBSET Owners],
             \A e \in Devices : work'[e].op \in Decided => Staff(work'[e], trusted'[e]),
             \A e \in Devices, o \in Owners :
               /\ work'[e].op = "check"
               /\ <<o, work'[e].user>> \in Door!Pairs
               /\ permission'[<<o, work'[e].user>>] \in Door!InForce
               => o \in trusted'[e]
      PROVE  Goal
  BY <1>1 DEF Watched, Permits, Door!AdmittedByStaff
<1> HIDE DEF Goal, Staff
(* The device is not scanning, or is on to its next code; the history of     *)
(* the others is kept.                                                       *)
<1>2. ASSUME NEW d \in Devices, NEW w, work' = [work EXCEPT ![d] = w], permission' = permission,
             w.op \notin Decided \cup {"check"}, NEW t \in SUBSET Owners,
             trusted' = [trusted EXCEPT ![d] = t]
      PROVE  Goal
  <2>1. /\ trusted' \in [Devices -> SUBSET Owners]
        /\ \A e \in Devices : e # d => work'[e] = work[e] /\ trusted'[e] = trusted[e]
        /\ work'[d] = w
    BY <1>0, <1>2
  <2> QED BY <1>0, <1>1, <1>2, <2>1 DEF Permits
<1>3. ASSUME NEW d \in Devices, NEW w, work' = [work EXCEPT ![d] = w], permission' = permission,
             w.op \notin Decided \cup {"check"}, trusted' = trusted
      PROVE  Goal
  <2>1. trusted' = [trusted EXCEPT ![d] = trusted[d]] /\ trusted[d] \in SUBSET Owners
    BY <1>0, <1>3
  <2> QED BY <1>2, <1>3, <2>1
<1>4. ASSUME NEW d \in Devices, Door!Trusting(permission'), work' = [work EXCEPT ![d] = Door!Idle]
      PROVE  Goal
  <2>1. /\ trusted' \in [Devices -> SUBSET Owners]
        /\ \A e \in Devices : trusted[e] \subseteq trusted'[e]
        /\ \A e \in Devices, o \in Owners :
             /\ work[e].op = "check"
             /\ <<o, work[e].user>> \in Door!Pairs
             /\ permission'[<<o, work[e].user>>] \in Door!InForce
             => o \in trusted'[e]
    BY <1>0, <1>4 DEF Door!Trusting, Door!Trusts
  <2>2. /\ \A e \in Devices : e # d => work'[e] = work[e]
        /\ work'[d].op = "idle"
    BY <1>0, <1>4 DEF Door!Idle
  <2>3. \A e \in Devices : work'[e].op \in Decided => Staff(work'[e], trusted'[e])
    BY <1>0, <2>1, <2>2 DEF Staff
  <2> QED BY <1>1, <2>1, <2>2, <2>3
<1>5. ASSUME NEW d \in Devices, Door!Find(d)
      PROVE  Goal
  <2>w. PICK w : w = [work[d] EXCEPT !.op = "check", !.found = item[Head(work[d].codes)]]
    OBVIOUS
  <2>t. PICK t : t = Door!Trusts(permission, work[d].user)
    OBVIOUS
  <2>1. work[d] \in ScanTask
    BY <1>5, TaskKinds DEF DoorInv, Door!Find, Scanning
  <2>2. w.op = "check" /\ w.user = work[d].user
    BY <2>1, <2>w DEF ScanTask
  <2>3. /\ t \in SUBSET Owners
        /\ \A o \in Owners : <<o, w.user>> \in Door!Pairs /\ permission[<<o, w.user>>] \in Door!InForce => o \in t
    BY <2>t, <2>2 DEF Door!Trusts
  <2>4. work' = [work EXCEPT ![d] = w] /\ trusted' = [trusted EXCEPT ![d] = t] /\ permission' = permission
    BY <1>5, <2>w, <2>t DEF Door!Find, Door!Becomes
  <2>5. /\ trusted' \in [Devices -> SUBSET Owners] /\ trusted'[d] = t
        /\ \A e \in Devices : e # d => work'[e] = work[e] /\ trusted'[e] = trusted[e]
        /\ work'[d] = w
    BY <1>0, <2>3, <2>4
  <2>6. \A e \in Devices : work'[e].op \in Decided => Staff(work'[e], trusted'[e])
    BY <1>0, <2>2, <2>5
  <2> QED BY <1>0, <1>1, <2>2, <2>3, <2>4, <2>5, <2>6 DEF Permits
<1>6. ASSUME NEW d \in Devices, NEW w, work' = [work EXCEPT ![d] = w], permission' = permission,
             w.op \in Decided, Staff(w, trusted[d]), trusted' = trusted
      PROVE  Goal
  <2>1. /\ \A e \in Devices : e # d => work'[e] = work[e]
        /\ work'[d] = w
    BY <1>0, <1>6
  <2>2. \A e \in Devices : work'[e].op \in Decided => Staff(work'[e], trusted'[e])
    BY <1>0, <1>6, <2>1
  <2> QED BY <1>0, <1>1, <1>6, <2>1, <2>2 DEF Permits
<1>7. ASSUME NEW d \in Devices, Door!Admit(d)
      PROVE  Goal
  <2>w. PICK w : w = [work[d] EXCEPT !.op = "mark"]
    OBVIOUS
  <2>1. work[d] \in ScanTask /\ work[d].op = "check"
    BY <1>7, TaskKinds DEF DoorInv, Door!Admit, Scanning
  <2>2. w.op \in Decided /\ w.user = work[d].user /\ w.codes = work[d].codes
    BY <2>1, <2>w DEF ScanTask
  <2>o. PICK o : o = Owner[Head(work[d].codes)]
    OBVIOUS
  <2>3. \/ w.user = o
        \/ /\ <<o, w.user>> \in Door!Pairs /\ permission[<<o, w.user>>] # None
           /\ permission[<<o, w.user>>].active /\ permission[<<o, w.user>>].expires # "past"
    BY <1>7, <2>o, <2>2 DEF Door!Admit, Door!canMarkAsUsed
  <2>4. ASSUME <<o, w.user>> \in Door!Pairs, permission[<<o, w.user>>] # None,
               permission[<<o, w.user>>].active, permission[<<o, w.user>>].expires # "past"
        PROVE  o \in trusted[d]
    <3>1. o \in Owners
      BY <2>4 DEF Door!Pairs
    <3>r. PICK row \in Door!PermissionType : row = permission[<<o, w.user>>]
      BY <1>0, <2>4
    <3>2. row \in Door!InForce
      BY <2>4, <3>r DEF Door!PermissionType, Door!InForce, Door!Expiries
    <3> QED BY <1>0, <2>1, <2>2, <2>4, <3>1, <3>r, <3>2 DEF Permits
  <2>5. Staff(w, trusted[d])
    BY <2>2, <2>3, <2>4, <2>o DEF Staff
  <2>6. work' = [work EXCEPT ![d] = w] /\ permission' = permission /\ trusted' = trusted
    BY <1>7, <2>w DEF Door!Admit, Door!Becomes
  <2> QED BY <1>6, <2>2, <2>5, <2>6
<1>8. ASSUME NEW d \in Devices, Door!markAsUsed(d)
      PROVE  Goal
  <2>w. PICK w : w = [work[d] EXCEPT !.op = "log"]
    OBVIOUS
  <2>1. work[d] \in ScanTask /\ work[d].op = "mark"
    BY <1>8, TaskKinds DEF DoorInv, Door!markAsUsed, Scanning
  <2>2. w.op \in Decided /\ w.user = work[d].user /\ w.codes = work[d].codes
    BY <2>1, <2>w DEF ScanTask
  <2>3. Staff(w, trusted[d])
    BY <1>0, <2>1, <2>2 DEF Staff
  <2>4. work' = [work EXCEPT ![d] = w] /\ permission' = permission /\ trusted' = trusted
    BY <1>8, <2>w DEF Door!markAsUsed, Door!Becomes
  <2> QED BY <1>6, <2>2, <2>3, <2>4
<1>9. ASSUME NEW d \in Devices, NEW done, Door!Return(d, done), work[d].op \in Scanning,
             permission' = permission
      PROVE  Goal
  <2>w. PICK w : w = [work[d] EXCEPT !.op = "scan", !.codes = Tail(@), !.found = None, !.done = done]
    OBVIOUS
  <2>1. w.op = "scan"
    BY <1>9, <2>w, TaskKinds DEF DoorInv, ScanTask
  <2>2. work' = [work EXCEPT ![d] = w] /\ trusted' = [trusted EXCEPT ![d] = {}]
    BY <1>9, <2>w DEF Door!Return, Door!Becomes
  <2> QED BY <1>2, <1>9, <2>1, <2>2
<1>10. ASSUME NEW x \in Door!Pairs, Door!Lapse(x)
       PROVE  Goal
  <2>1. work' = work /\ trusted' = trusted
    BY <1>10 DEF Door!Lapse
  <2>2. \A y \in Door!Pairs : permission'[y] \in Door!InForce => permission[y] \in Door!InForce
    <3>r. PICK row : row = [permission[x] EXCEPT !.expires = "past"]
      OBVIOUS
    <3>1. /\ permission' = [permission EXCEPT ![x] = row]
          /\ permission[x] \in Door!PermissionType
      BY <1>0, <1>10, <3>r DEF Door!Lapse
    <3>2. row.expires = "past"
      BY <3>1, <3>r DEF Door!PermissionType
    <3>3. row \notin Door!InForce
      BY <3>2 DEF Door!InForce
    <3> QED BY <1>0, <3>1, <3>3
  <2> QED BY <1>0, <1>1, <2>1, <2>2 DEF Permits
<1>11. ASSUME work' = work, trusted' = trusted, permission' = permission
       PROVE  Goal
  BY <1>0, <1>1, <1>11 DEF Permits
<1>12. ASSUME NEW d \in Devices,
              \/ Door!grantPermission(d) \/ Door!revokePermission(d) \/ Door!removePermission(d)
              \/ \E active \in BOOLEAN : Door!updatePermission(d, active)
       PROVE  Goal
  <2>1. Door!Trusting(permission') /\ work' = [work EXCEPT ![d] = Door!Idle]
    BY <1>12 DEF Door!grantPermission, Door!revokePermission, Door!removePermission,
       Door!updatePermission, Door!Write, Door!Becomes
  <2> QED BY <1>4, <2>1
<1>13. ASSUME NEW d \in Devices, Door!Refuse(d) \/ Door!Validate(d) \/ Door!LogScan(d)
       PROVE  Goal
  <2>1. /\ \E done : Door!Return(d, done)
        /\ work[d].op \in Scanning /\ permission' = permission
    BY <1>13 DEF Door!Refuse, Door!Validate, Door!LogScan, Scanning
  <2> QED BY <1>9, <2>1
<1>14. ASSUME NEW d \in Devices, Door!Answer(d) \/ Door!VerifyWrite(d) \/ Door!Abandon(d)
       PROVE  Goal
  <2>1. /\ work' = [work EXCEPT ![d] = Door!Idle] /\ permission' = permission
        /\ trusted' = trusted \/ trusted' = [trusted EXCEPT ![d] = {}]
    BY <1>14 DEF Door!Answer, Door!VerifyWrite, Door!Abandon, Door!Becomes
  <2>2. Door!Idle.op \notin Decided \cup {"check"}
    BY DEF Door!Idle
  <2> QED BY <1>2, <1>3, <2>1, <2>2
<1>15. ASSUME NEW d \in Devices, NEW x \in Door!Pairs, NEW e, NEW op \in {"grant", "update", "revoke", "remove"},
              Door!PermissionRead(d, x, op, e)
       PROVE  Goal
  <2>w. PICK w : w = [op |-> op, pair |-> x, found |-> Door!Found(permission[x]), expires |-> e]
    OBVIOUS
  <2>1. w.op \notin Decided \cup {"check"}
    BY <2>w
  <2>2. work' = [work EXCEPT ![d] = w] /\ permission' = permission /\ trusted' = trusted
    BY <1>15, <2>w DEF Door!PermissionRead, Door!Becomes
  <2> QED BY <1>3, <2>1, <2>2
<1>16. ASSUME NEW d \in Devices, NEW t \in Tickets, Door!VerifyRead(d, t)
       PROVE  Goal
  <2>w. PICK w : w = [op |-> "verify", ticket |-> t]
    OBVIOUS
  <2>1. w.op \notin Decided \cup {"check"}
    BY <2>w
  <2>2. work' = [work EXCEPT ![d] = w] /\ permission' = permission /\ trusted' = trusted
    BY <1>16, <2>w DEF Door!VerifyRead, Door!Becomes
  <2> QED BY <1>3, <2>1, <2>2
<1>17. ASSUME NEW d \in Devices, NEW u, NEW codes, NEW mark, Door!scan(d, u, codes, mark)
       PROVE  Goal
  <2>w. PICK w : w = [op |-> "scan", user |-> u, codes |-> codes, mark |-> mark,
                      found |-> None, done |-> <<>>]
    OBVIOUS
  <2>1. w.op \notin Decided \cup {"check"}
    BY <2>w
  <2>2. work' = [work EXCEPT ![d] = w] /\ permission' = permission /\ trusted' = trusted
    BY <1>17, <2>w DEF Door!scan, Door!Becomes
  <2> QED BY <1>3, <2>1, <2>2
<1>18. ASSUME NEW o \in Owners, Door!EventEnds(o)
       PROVE  Goal
  BY <1>11, <1>18 DEF Door!EventEnds
<1>g. SUFFICES Goal
  BY DEF Goal
<1>19. CASE UNCHANGED Door!vars
  BY <1>11, <1>19 DEF Door!vars
<1>20. CASE Door!Next
  <2>1. CASE \/ \E d \in Devices, x \in Door!Pairs, expires \in {"never", "later"} :
                  \E op \in {"grant", "update"} : Door!PermissionRead(d, x, op, expires)
             \/ \E d \in Devices, x \in Door!Pairs, op \in {"revoke", "remove"} :
                  Door!PermissionRead(d, x, op, "never")
    BY <1>15, <2>1
  <2>2. CASE \E d \in Devices :
               \/ Door!grantPermission(d) \/ Door!revokePermission(d) \/ Door!removePermission(d)
               \/ \E active \in BOOLEAN : Door!updatePermission(d, active)
    BY <1>12, <2>2
  <2>3. CASE \E d \in Devices : \/ Door!Find(d) \/ Door!Refuse(d) \/ Door!Validate(d) \/ Door!Admit(d)
                                \/ Door!markAsUsed(d) \/ Door!LogScan(d)
    BY <1>5, <1>7, <1>8, <1>13, <2>3
  <2>4. CASE \E d \in Devices : Door!Answer(d) \/ Door!VerifyWrite(d) \/ Door!Abandon(d)
    BY <1>14, <2>4
  <2>5. CASE \/ \E d \in Devices, t \in Tickets : Door!VerifyRead(d, t)
             \/ \E d \in Devices, u \in Users, codes \in Door!Bulks, mark \in BOOLEAN :
                  Door!scan(d, u, codes, mark)
    BY <1>16, <1>17, <2>5
  <2>6. CASE (\E o \in Owners : Door!EventEnds(o)) \/ (\E x \in Door!Pairs : Door!Lapse(x))
    BY <1>10, <1>18, <2>6
  <2> QED BY <1>20, <2>1, <2>2, <2>3, <2>4, <2>5, <2>6 DEF Door!Next
<1> QED BY <1>19, <1>20

(* What a device remembers after its step, and what the step adds to the     *)
(* admissions and to the log.                                                *)
Remembers(d, w) ==
  /\ d \in Devices /\ w \in TaskType
  /\ work' = [work EXCEPT ![d] = w]
  /\ ScanOk(w)' /\ UpdateOk(w)
(* The device is no closer to marking or logging an item than it was. *)
Quiet(d, w) ==
  /\ admitted' = admitted /\ log' = log
  /\ \A i \in Door!Items, u \in Users :
       (Marks(w, i, u) => Marks(work[d], i, u)) /\ (Logs(w, i, u) => Logs(work[d], i, u))
(* It has found an item unused. *)
Finds(d, w) ==
  /\ admitted' = admitted /\ log' = log
  /\ w.op = "check" /\ ~ item[Head(w.codes)].used
(* It marks the item it was about to mark, and is to log it. *)
Admits(d, w, i, u) ==
  /\ i \in Door!Items /\ u \in Users /\ Marks(work[d], i, u) /\ Used(i)'
  /\ ~ Pending(w)
  /\ admitted' = [admitted EXCEPT ![<<i, u>>] = admitted[<<i, u>>] + 1] /\ log' = log
  /\ \A j \in Door!Items, v \in Users : Logs(w, j, v) => j = i /\ v = u
(* It logs the item, or fails to. *)
Records(d, w, i, u) ==
  /\ i \in Door!Items /\ u \in Users /\ Logs(work[d], i, u)
  /\ ~ Pending(w) /\ w.op # "log"
  /\ admitted' = admitted
  /\ log' = log \/ log' = [log EXCEPT ![<<i, u>>] = log[<<i, u>>] + 1]

LEMMA TasksWritten ==
  ASSUME DoorAssumption, DoorInv, [Door!Next]_(Door!vars)
  PROVE  \/ work' = work /\ admitted' = admitted /\ log' = log
         \/ \E d, w : Remembers(d, w) /\ (Quiet(d, w) \/ Finds(d, w))
         \/ \E d, w, i, u : Remembers(d, w) /\ (Admits(d, w, i, u) \/ Records(d, w, i, u))
<1> DEFINE QuietStep == \E d, w : Remembers(d, w) /\ Quiet(d, w)
<1>1. ASSUME NEW d \in Devices, NEW w \in TaskType, work' = [work EXCEPT ![d] = w],
             w.op \notin Scanning, UpdateOk(w), admitted' = admitted, log' = log
      PROVE  QuietStep
  <2>1. ScanOk(w)'
    BY <1>1 DEF ScanOk
  <2>2. Quiet(d, w)
    BY <1>1 DEF Quiet, Marks, Logs, Pending, Scanning
  <2> QED BY <1>1, <2>1, <2>2 DEF Remembers
<1>2. ASSUME NEW d \in Devices, work' = [work EXCEPT ![d] = Door!Idle], admitted' = admitted, log' = log
      PROVE  QuietStep
  <2>1. Door!Idle \in TaskType /\ Door!Idle.op \notin Scanning /\ UpdateOk(Door!Idle)
    BY DEF Door!Idle, TaskType, Scanning, UpdateOk
  <2> QED BY <1>1, <1>2, <2>1
<1>3. ASSUME NEW d \in Devices, NEW x \in Door!Pairs, NEW op \in {"grant", "update", "revoke", "remove"},
             NEW e \in {"never", "later"}, Door!PermissionRead(d, x, op, e)
      PROVE  QuietStep
  <2>w. PICK w : w = [op |-> op, pair |-> x, found |-> Door!Found(permission[x]), expires |-> e]
    OBVIOUS
  <2>1. /\ Door!Found(permission[x]) \in Door!Expiries \cup {None}
        /\ permission[x] # None => Door!Found(permission[x]) \in Door!Expiries
    BY DEF DoorInv, DoorTypes, Door!Found, Door!PermissionType
  <2>2. w \in Granting /\ w.op \notin Scanning
    BY <2>1, <2>w DEF Granting, Door!Expiries, Scanning
  <2>3. UpdateOk(w)
    BY <1>3, <2>1, <2>w DEF UpdateOk, Door!PermissionRead
  <2>4. work' = [work EXCEPT ![d] = w] /\ admitted' = admitted /\ log' = log
    BY <1>3, <2>w DEF Door!PermissionRead, Door!Becomes
  <2>5. w \in TaskType
    BY <2>2 DEF TaskType
  <2> QED BY <1>1, <2>2, <2>3, <2>4, <2>5
<1>4. ASSUME NEW d \in Devices,
             \/ Door!grantPermission(d) \/ Door!revokePermission(d) \/ Door!removePermission(d)
             \/ \E active \in BOOLEAN : Door!updatePermission(d, active)
             \/ Door!Answer(d) \/ Door!VerifyWrite(d) \/ Door!Abandon(d)
      PROVE  QuietStep
  <2>1. work' = [work EXCEPT ![d] = Door!Idle] /\ admitted' = admitted /\ log' = log
    BY <1>4 DEF Door!grantPermission, Door!revokePermission, Door!removePermission,
       Door!updatePermission, Door!Write, Door!Answer, Door!VerifyWrite, Door!Abandon, Door!Becomes
  <2> QED BY <1>2, <2>1
<1>5. ASSUME NEW d \in Devices, NEW t \in Tickets, Door!VerifyRead(d, t)
      PROVE  QuietStep
  <2>w. PICK w : w = [op |-> "verify", ticket |-> t]
    OBVIOUS
  <2>1. w \in TaskType /\ w.op \notin Scanning /\ UpdateOk(w)
    BY <2>w DEF TaskType, Verifying, Scanning, UpdateOk
  <2>2. work' = [work EXCEPT ![d] = w] /\ admitted' = admitted /\ log' = log
    BY <1>5, <2>w DEF Door!VerifyRead, Door!Becomes
  <2> QED BY <1>1, <2>1, <2>2
<1>6. ASSUME NEW d \in Devices, NEW u \in Users, NEW codes \in Door!Bulks, NEW mark \in BOOLEAN,
             Door!scan(d, u, codes, mark)
      PROVE  QuietStep
  <2>w. PICK w : w = [op |-> "scan", user |-> u, codes |-> codes, mark |-> mark,
                      found |-> None, done |-> <<>>]
    OBVIOUS
  <2>1. codes \in Seq(Door!Items)
    BY SeqDef DEF Door!Bulks
  <2>2. w \in TaskType
    BY <2>1, <2>w DEF TaskType, ScanTask, Scanning
  <2>3. work' = [work EXCEPT ![d] = w] /\ admitted' = admitted /\ log' = log
    BY <1>6, <2>w DEF Door!scan, Door!Becomes
  <2>4. ScanOk(w)' /\ UpdateOk(w)
    BY <2>w DEF ScanOk, Pending, UpdateOk
  <2>5. Quiet(d, w)
    BY <2>3, <2>w DEF Quiet, Marks, Logs, Pending
  <2> QED BY <2>2, <2>3, <2>4, <2>5 DEF Remembers
(* The steps of a scan, from what the device remembers. *)
<1>7. ASSUME NEW d \in Devices, work[d].op \in Scanning, work[d].op # "scan" \/ work[d].codes # <<>>
      PROVE  /\ work[d] \in ScanTask /\ ScanOk(work[d])
             /\ Head(work[d].codes) \in Door!Items /\ work[d].user \in Users
             /\ Tail(work[d].codes) \in Seq(Door!Items)
  <2>1. work[d] \in ScanTask /\ ScanOk(work[d])
    BY <1>7, TaskKinds DEF DoorInv, Remembered
  <2>2. work[d].codes \in Seq(Door!Items) /\ work[d].codes # <<>>
    BY <1>7, <2>1 DEF ScanTask, ScanOk, Scanning
  <2> QED BY <2>1, <2>2 DEF ScanTask
<1>8. ASSUME NEW d \in Devices, Door!Find(d)
      PROVE  \E w : Remembers(d, w) /\ (Quiet(d, w) \/ Finds(d, w))
  <2>o. PICK old : old = work[d]
    OBVIOUS
  <2>1. /\ old \in ScanTask /\ ScanOk(old) /\ Head(old.codes) \in Door!Items
        /\ old.op = "scan" /\ old.codes # <<>>
    BY <1>7, <1>8, <2>o DEF Door!Find, Scanning
  <2>f. PICK found \in Door!ItemType : found = item[Head(old.codes)]
    BY <2>1 DEF DoorInv, DoorTypes
  <2>w. PICK w : w = [old EXCEPT !.op = "check", !.found = found]
    OBVIOUS
  <2>2. /\ w \in ScanTask /\ w.op = "check" /\ w.found = found /\ w.codes = old.codes
        /\ w.done = old.done
    BY <2>1, <2>w DEF ScanTask, Scanning
  <2>3. /\ work' = [work EXCEPT ![d] = w] /\ admitted' = admitted /\ log' = log /\ item' = item
    BY <1>8, <2>o, <2>f, <2>w DEF Door!Find, Door!Becomes
  <2>4. ScanOk(w)' /\ UpdateOk(w)
    BY <2>1, <2>2, <2>3, <2>f DEF ScanOk, Pending, UpdateOk, Scanning
  <2>5. w \in TaskType
    BY <2>2 DEF TaskType
  <2>6. Quiet(d, w) \/ Finds(d, w)
    BY <2>2, <2>3, <2>f DEF Quiet, Finds, Marks, Logs, Pending
  <2> QED BY <2>3, <2>4, <2>5, <2>6 DEF Remembers
(* On to the next code, with what is done. *)
<1>9. ASSUME NEW d \in Devices, Door!Refuse(d) \/ Door!Validate(d)
      PROVE  QuietStep
  <2>o. PICK old : old = work[d]
    OBVIOUS
  <2>1. /\ old \in ScanTask /\ ScanOk(old) /\ Tail(old.codes) \in Seq(Door!Items)
        /\ old.op = "check"
    BY <1>7, <1>9, <2>o DEF Door!Refuse, Door!Validate, Scanning
  <2>w. PICK w : w = [old EXCEPT !.op = "scan", !.codes = Tail(old.codes), !.found = None,
                                 !.done = old.done]
    OBVIOUS
  <2>2. w \in ScanTask /\ w.op = "scan" /\ w.done = old.done
    BY <2>1, <2>w DEF ScanTask, Scanning
  <2>3. /\ work' = [work EXCEPT ![d] = w] /\ admitted' = admitted /\ log' = log /\ item' = item
    BY <1>9, <2>1, <2>o, <2>w DEF Door!Refuse, Door!Validate, Door!Return, Door!Becomes, ScanTask
  <2>4. ScanOk(w)' /\ UpdateOk(w)
    BY <2>1, <2>2, <2>3 DEF ScanOk, Pending, UpdateOk, Scanning
  <2>5. w \in TaskType
    BY <2>2 DEF TaskType
  <2>6. Quiet(d, w)
    BY <2>2, <2>3 DEF Quiet, Marks, Logs, Pending
  <2> QED BY <2>3, <2>4, <2>5, <2>6 DEF Remembers
<1>10. ASSUME NEW d \in Devices, Door!Admit(d)
       PROVE  QuietStep
  <2>o. PICK old : old = work[d]
    OBVIOUS
  <2>1. /\ old \in ScanTask /\ ScanOk(old) /\ old.op = "check"
        /\ ~ old.found.used
    BY <1>7, <1>10, <2>o DEF Door!Admit, Door!checkValidity, Scanning
  <2>w. PICK w : w = [old EXCEPT !.op = "mark"]
    OBVIOUS
  <2>3. /\ w \in ScanTask /\ w.op = "mark" /\ w.done = old.done /\ w.codes = old.codes
        /\ w.user = old.user
    BY <2>1, <2>w DEF ScanTask, Scanning
  <2>4. /\ work' = [work EXCEPT ![d] = w] /\ admitted' = admitted /\ log' = log
        /\ item' = item
    BY <1>10, <2>o, <2>w DEF Door!Admit, Door!Becomes
  <2>5. ScanOk(w)' /\ UpdateOk(w)
    BY <2>1, <2>3, <2>4 DEF ScanOk, Pending, UpdateOk, Scanning
  <2>6. w \in TaskType
    BY <2>3 DEF TaskType
  <2>7. Quiet(d, w)
    BY <2>1, <2>3, <2>4, <2>o DEF Quiet, Marks, Logs, Pending
  <2> QED BY <2>4, <2>5, <2>6, <2>7 DEF Remembers
<1>11. ASSUME NEW d \in Devices, Door!markAsUsed(d)
       PROVE  \E w, i, u : Remembers(d, w) /\ Admits(d, w, i, u)
  <2>o. PICK old : old = work[d]
    OBVIOUS
  <2>1. /\ old \in ScanTask /\ ScanOk(old) /\ old.op = "mark" /\ old.codes # <<>>
        /\ Head(old.codes) \in Door!Items /\ old.user \in Users
    BY <1>7, <1>11, <2>o DEF Door!markAsUsed, ScanOk, Scanning
  <2>i. PICK i \in Door!Items : i = Head(old.codes)
    BY <2>1
  <2>u. PICK u \in Users : u = old.user
    BY <2>1
  <2>w. PICK w : w = [old EXCEPT !.op = "log"]
    OBVIOUS
  <2>2. /\ w \in ScanTask /\ w.op = "log" /\ w.done = old.done /\ w.codes = old.codes
        /\ w.user = old.user
    BY <2>1, <2>w DEF ScanTask, Scanning
  <2>3. /\ work' = [work EXCEPT ![d] = w] /\ log' = log
        /\ admitted' = [admitted EXCEPT ![<<i, u>>] = admitted[<<i, u>>] + 1]
        /\ item' = [item EXCEPT ![i] = Door!UsedBy(u)]
    BY <1>11, <2>o, <2>i, <2>u, <2>w DEF Door!markAsUsed, Door!Becomes
  <2>4. Used(i)'
    BY <2>3 DEF Used, Door!UsedBy, DoorInv, DoorTypes
  <2>5. \A k \in DOMAIN w.done : item'[w.done[k]].used
    BY <2>1, <2>2, ItemsStay DEF ScanOk, ScanTask
  <2>6. ScanOk(w)' /\ UpdateOk(w)
    BY <2>1, <2>2, <2>4, <2>5, <2>i DEF ScanOk, Pending, UpdateOk, Scanning
  <2>7. w \in TaskType
    BY <2>2 DEF TaskType
  <2>8. Admits(d, w, i, u)
    BY <2>1, <2>2, <2>3, <2>4, <2>i, <2>u, <2>o DEF Admits, Marks, Logs, Pending, ScanOk, Scanning
  <2> QED BY <2>3, <2>6, <2>7, <2>8 DEF Remembers
<1>12. ASSUME NEW d \in Devices, Door!LogScan(d)
       PROVE  \E w, i, u : Remembers(d, w) /\ Records(d, w, i, u)
  <2>o. PICK old : old = work[d]
    OBVIOUS
  <2>1. /\ old \in ScanTask /\ ScanOk(old) /\ old.op = "log" /\ Tail(old.codes) \in Seq(Door!Items)
        /\ Head(old.codes) \in Door!Items /\ old.user \in Users
    BY <1>7, <1>12, <2>o DEF Door!LogScan, Scanning
  <2>i. PICK i \in Door!Items : i = Head(old.codes)
    BY <2>1
  <2>u. PICK u \in Users : u = old.user
    BY <2>1
  <2>e. PICK done : done = Append(old.done, i)
    OBVIOUS
  <2>2. /\ old.done \in Seq(Door!Items) /\ done \in Seq(Door!Items)
        /\ \A k \in DOMAIN done : done[k] = IF k \in DOMAIN old.done THEN old.done[k] ELSE i
        /\ \A j, k \in DOMAIN done : j \notin DOMAIN old.done /\ k \notin DOMAIN old.done => j = k
    BY <2>1, <2>e DEF ScanTask
  <2>w. PICK w : w = [old EXCEPT !.op = "scan", !.codes = Tail(old.codes), !.found = None,
                                 !.done = done]
    OBVIOUS
  <2>3. w \in ScanTask /\ w.op = "scan" /\ w.done = done
    BY <2>1, <2>2, <2>w DEF ScanTask, Scanning
  <2>4. /\ work' = [work EXCEPT ![d] = w] /\ admitted' = admitted /\ item' = item
        /\ log' = log \/ log' = [log EXCEPT ![<<i, u>>] = log[<<i, u>>] + 1]
    BY <1>12, <2>1, <2>o, <2>i, <2>u, <2>e, <2>w DEF Door!LogScan, Door!Return, Door!Becomes, ScanTask
  <2>5. /\ \A k \in DOMAIN old.done : item[old.done[k]].used /\ old.done[k] # i
        /\ \A j, k \in DOMAIN old.done : old.done[j] = old.done[k] => j = k
        /\ item[i].used
    BY <2>1, <2>i DEF ScanOk, Scanning, Used
  <2>6. ScanOk(w)' /\ UpdateOk(w)
    BY <2>2, <2>3, <2>4, <2>5 DEF ScanOk, Pending, UpdateOk
  <2>7. w \in TaskType
    BY <2>3 DEF TaskType
  <2>8. Records(d, w, i, u)
    BY <2>1, <2>3, <2>4, <2>i, <2>u, <2>o DEF Records, Logs, Pending
  <2> QED BY <2>4, <2>6, <2>7, <2>8 DEF Remembers
<1> HIDE DEF QuietStep
<1>13. \/ QuietStep
       \/ work' = work /\ admitted' = admitted /\ log' = log
       \/ \E d \in Devices : Door!Find(d) \/ Door!markAsUsed(d) \/ Door!LogScan(d)
  <2>1. CASE UNCHANGED Door!vars
    BY <2>1 DEF Door!vars
  <2>2. CASE (\E o \in Owners : Door!EventEnds(o)) \/ (\E x \in Door!Pairs : Door!Lapse(x))
    BY <2>2 DEF Door!EventEnds, Door!Lapse
  <2>3. CASE \E d \in Devices, x \in Door!Pairs, expires \in {"never", "later"} :
               \E op \in {"grant", "update"} : Door!PermissionRead(d, x, op, expires)
    BY <1>3, <2>3
  <2>4. CASE \E d \in Devices, x \in Door!Pairs, op \in {"revoke", "remove"} :
               Door!PermissionRead(d, x, op, "never")
    BY <1>3, <2>4
  <2>5. CASE \E d \in Devices : Door!Refuse(d) \/ Door!Validate(d) \/ Door!Admit(d)
    BY <1>9, <1>10, <2>5
  <2>6. CASE \E d \in Devices : \/ Door!grantPermission(d) \/ Door!revokePermission(d)
                                \/ Door!removePermission(d) \/ Door!Answer(d)
                                \/ Door!VerifyWrite(d) \/ Door!Abandon(d)
    BY <1>4, <2>6
  <2>7. CASE \E d \in Devices, active \in BOOLEAN : Door!updatePermission(d, active)
    BY <1>4, <2>7
  <2>8. CASE \E d \in Devices, t \in Tickets : Door!VerifyRead(d, t)
    BY <1>5, <2>8
  <2>9. CASE \E d \in Devices, u \in Users, codes \in Door!Bulks, mark \in BOOLEAN :
               Door!scan(d, u, codes, mark)
    BY <1>6, <2>9
  <2>10. CASE \E d \in Devices : Door!Find(d) \/ Door!markAsUsed(d) \/ Door!LogScan(d)
    BY <2>10
  <2> QED
    BY <2>1, <2>2, <2>3, <2>4, <2>5, <2>6, <2>7, <2>8, <2>9, <2>10 DEF Door!Next
<1> QED BY <1>8, <1>11, <1>12, <1>13 DEF QuietStep

LEMMA DoorTypesStep ==
  ASSUME DoorAssumption, DoorInv, [Door!Next]_(Door!vars)
  PROVE  DoorTypes'
<1>0. /\ admitted \in [Door!Items \X Users -> Nat] /\ log \in [Door!Items \X Users -> Nat]
      /\ work \in [Devices -> TaskType] /\ ended \subseteq Owners
  BY DEF DoorInv, DoorTypes
<1>1. /\ admitted' \in [Door!Items \X Users -> Nat] /\ log' \in [Door!Items \X Users -> Nat]
      /\ work' \in [Devices -> TaskType]
  <2>1. ASSUME NEW d, NEW w, Remembers(d, w)
        PROVE  work' \in [Devices -> TaskType]
    BY <1>0, <2>1 DEF Remembers
  <2>2. ASSUME NEW f \in [Door!Items \X Users -> Nat], NEW i \in Door!Items, NEW u \in Users
        PROVE  [f EXCEPT ![<<i, u>>] = f[<<i, u>>] + 1] \in [Door!Items \X Users -> Nat]
    BY <2>2
  <2>3. ASSUME NEW d, NEW w, NEW i, NEW u, Admits(d, w, i, u) \/ Records(d, w, i, u)
        PROVE  admitted' \in [Door!Items \X Users -> Nat] /\ log' \in [Door!Items \X Users -> Nat]
    <3>1. CASE Admits(d, w, i, u)
      BY <1>0, <2>2, <3>1, SMTT(30) DEF Admits
    <3>2. CASE Records(d, w, i, u)
      BY <1>0, <2>2, <3>2, SMTT(30) DEF Records
    <3> QED BY <2>3, <3>1, <3>2
  <2>4. ASSUME NEW d, NEW w, Quiet(d, w) \/ Finds(d, w)
        PROVE  admitted' \in [Door!Items \X Users -> Nat] /\ log' \in [Door!Items \X Users -> Nat]
    BY <1>0, <2>4 DEF Quiet, Finds
  <2> QED BY <1>0, <2>1, <2>3, <2>4, TasksWritten
<1>2. ended' \subseteq Owners
  <2>1. \/ ended' = ended \/ \E o \in Owners : ended' = ended \cup {o}
    BY DEF Door!Next, Door!vars, Door!PermissionRead, Door!grantPermission, Door!revokePermission,
       Door!updatePermission, Door!removePermission, Door!Write, Door!Find, Door!Refuse,
       Door!Validate, Door!Admit, Door!LogScan, Door!Answer, Door!Abandon, Door!VerifyRead,
       Door!VerifyWrite, Door!scan, Door!EventEnds, Door!Lapse, Door!markAsUsed
  <2> QED BY <1>0, <2>1
<1> QED BY <1>1, <1>2, ItemsStay, PermissionsStep, TrustStep DEF DoorTypes

LEMMA RememberedStep ==
  ASSUME DoorAssumption, DoorInv, [Door!Next]_(Door!vars)
  PROVE  Remembered'
<1>1. ASSUME NEW w, ScanOk(w), w \in TaskType
      PROVE  ScanOk(w)'
  <2>1. CASE w.op \notin Scanning
    BY <2>1 DEF ScanOk
  <2>2. CASE w.op \in Scanning
    <3>1. w \in ScanTask
      BY <1>1, <2>2 DEF TaskType, ScanTask, Granting, Verifying, Scanning, Door!Idle
    <3>2. /\ \A k \in DOMAIN w.done : w.done[k] \in Door!Items
          /\ w.codes # <<>> => Head(w.codes) \in Door!Items
      BY <3>1 DEF ScanTask
    <3>5. \A k \in DOMAIN w.done : item'[w.done[k]].used
      BY <1>1, <2>2, <3>2, ItemsStay DEF ScanOk
    <3>h. PICK i : i = Head(w.codes)
      OBVIOUS
    <3>6. w.op = "log" => Used(i)'
      <4>1. w.op = "log" => i \in Door!Items /\ Used(i)
        BY <1>1, <2>2, <3>2, <3>h DEF ScanOk
      <4> QED BY <4>1, ItemsStay
    <3> QED BY <1>1, <2>2, <3>5, <3>6, <3>h DEF ScanOk, Pending, Used
  <2> QED BY <2>1, <2>2
<1>2. ASSUME NEW e \in Devices
      PROVE  ScanOk(work[e]) /\ UpdateOk(work[e]) /\ work[e] \in TaskType
  BY DEF DoorInv, DoorTypes, Remembered
<1>3. ASSUME NEW e \in Devices
      PROVE  \E w : w = work'[e] /\ ScanOk(w)' /\ UpdateOk(w)
  <2>o. PICK old : old = work[e]
    OBVIOUS
  <2>1. ScanOk(old)' /\ UpdateOk(old)
    BY <1>1, <1>2, <2>o
  <2>2. CASE work' = work
    BY <2>1, <2>2, <2>o
  <2>3. ASSUME NEW d, NEW w, Remembers(d, w)
        PROVE  \E v : v = work'[e] /\ ScanOk(v)' /\ UpdateOk(v)
    <3>1. work'[e] = IF e = d THEN w ELSE old
      BY <2>3, <2>o DEF Remembers, DoorInv, DoorTypes
    <3> QED BY <2>1, <2>3, <3>1 DEF Remembers
  <2> QED BY <2>2, <2>3, TasksWritten
<1>4. ASSUME NEW e \in Devices
      PROVE  ScanOk(work[e])' /\ UpdateOk(work[e])'
  <2>w. PICK w : w = work'[e] /\ ScanOk(w)' /\ UpdateOk(w)
    BY <1>3
  <2>1. ScanOk(work[e])'
    BY <2>w DEF ScanOk, Pending, Used
  <2>2. UpdateOk(work[e])'
    BY <2>w DEF UpdateOk
  <2> QED BY <2>1, <2>2
<1> QED BY <1>4 DEF Remembered

LEMMA AdmittedStep ==
  ASSUME DoorAssumption, DoorInv, [Door!Next]_(Door!vars)
  PROVE  AdmittedIsUsed'
<1> SUFFICES ASSUME NEW i \in Door!Items, NEW u \in Users, admitted'[<<i, u>>] > 0
             PROVE  Used(i)'
  BY DEF AdmittedIsUsed, Used
<1>1. CASE admitted[<<i, u>>] > 0
  BY <1>1, ItemsStay DEF DoorInv, AdmittedIsUsed
<1>2. CASE ~ (admitted[<<i, u>>] > 0)
  <2>1. ASSUME NEW d, NEW w, NEW j, NEW v, Admits(d, w, j, v)
        PROVE  Used(i)'
    <3>1. i = j /\ u = v
      BY <1>2, <2>1 DEF Admits, DoorInv, DoorTypes
    <3> QED BY <2>1, <3>1 DEF Admits
  <2>2. admitted' # admitted
    BY <1>2
  <2> QED BY <2>1, <2>2, TasksWritten DEF Quiet, Finds, Records
<1> QED BY <1>1, <1>2

LEMMA CountedStep ==
  ASSUME DoorAssumption, DoorInv, [Door!Next]_(Door!vars)
  PROVE  Counted'
<1> SUFFICES ASSUME NEW i \in Door!Items, NEW u \in Users
             PROVE  /\ admitted'[<<i, u>>] + Cardinality(Marking(i, u)') <= Cardinality(Devices)
                    /\ log'[<<i, u>>] + Cardinality(Logging(i, u)') <= admitted'[<<i, u>>]
  BY DEF Counted
<1>m. PICK m, l, mm, ll : /\ m = Marking(i, u) /\ l = Logging(i, u)
                         /\ mm = Marking(i, u)' /\ ll = Logging(i, u)'
  OBVIOUS
<1>n. PICK a, g, aa, gg : /\ a = admitted[<<i, u>>] /\ g = log[<<i, u>>]
                         /\ aa = admitted'[<<i, u>>] /\ gg = log'[<<i, u>>]
  OBVIOUS
<1>0. /\ IsFiniteSet(Devices) /\ Cardinality(Devices) \in Nat
      /\ {m, l, mm, ll} \subseteq SUBSET Devices
      /\ a \in Nat /\ g \in Nat /\ aa \in Nat /\ gg \in Nat
      /\ a + Cardinality(m) <= Cardinality(Devices) /\ g + Cardinality(l) <= a
  <2>1. IsFiniteSet(Devices) /\ Cardinality(Devices) \in Nat
    BY FS_CardinalityType DEF DoorAssumption
  <2>2. {m, l, mm, ll} \subseteq SUBSET Devices
    BY <1>m DEF Marking, Logging
  <2>3. DoorTypes'
    BY DoorTypesStep
  <2>4. a \in Nat /\ g \in Nat /\ aa \in Nat /\ gg \in Nat
    BY <1>n, <2>3 DEF DoorInv, DoorTypes
  <2> QED BY <1>m, <1>n, <2>1, <2>2, <2>4 DEF DoorInv, Counted
<1>c. \A S \in SUBSET Devices : /\ IsFiniteSet(S) /\ Cardinality(S) \in Nat
                                /\ Cardinality(S) <= Cardinality(Devices)
                                /\ \A T \in SUBSET S : Cardinality(T) <= Cardinality(S)
  BY <1>0, SubsetCount
<1>g. SUFFICES aa + Cardinality(mm) <= Cardinality(Devices) /\ gg + Cardinality(ll) <= aa
  BY <1>m, <1>n
<1>1. ASSUME mm \subseteq m, ll \subseteq l, aa = a, gg = g
      PROVE  aa + Cardinality(mm) <= Cardinality(Devices) /\ gg + Cardinality(ll) <= aa
  <2>1. Cardinality(mm) <= Cardinality(m) /\ Cardinality(ll) <= Cardinality(l)
    BY <1>0, <1>1, <1>c
  <2> QED BY <1>0, <1>1, <1>c, <2>1
<1>2. ASSUME NEW d, NEW w, Remembers(d, w)
      PROVE  /\ d \in Devices
             /\ \A e \in Devices : e # d => (e \in mm <=> e \in m) /\ (e \in ll <=> e \in l)
             /\ d \in mm <=> Marks(w, i, u)
             /\ d \in ll <=> Logs(w, i, u)
             /\ d \in m <=> Marks(work[d], i, u)
             /\ d \in l <=> Logs(work[d], i, u)
  <2>1. d \in Devices /\ \A e \in Devices : work'[e] = IF e = d THEN w ELSE work[e]
    BY <1>2 DEF Remembers, DoorInv, DoorTypes
  <2>2. mm = {e \in Devices : Marks(work'[e], i, u)} /\ ll = {e \in Devices : Logs(work'[e], i, u)}
    BY <1>m DEF Marking, Logging, Marks, Logs, Pending
  <2> QED BY <1>m, <2>1, <2>2 DEF Marking, Logging
<1>3. CASE work' = work /\ admitted' = admitted /\ log' = log
  <2>1. mm = m /\ ll = l /\ aa = a /\ gg = g
    BY <1>3, <1>m, <1>n DEF Marking, Logging, Marks, Logs, Pending
  <2> QED BY <1>1, <2>1
<1>4. ASSUME NEW d, NEW w, Remembers(d, w), Quiet(d, w)
      PROVE  aa + Cardinality(mm) <= Cardinality(Devices) /\ gg + Cardinality(ll) <= aa
  <2>1. mm \subseteq m /\ ll \subseteq l
    BY <1>0, <1>2, <1>4 DEF Quiet
  <2>2. aa = a /\ gg = g
    BY <1>4, <1>n DEF Quiet
  <2> QED BY <1>1, <2>1, <2>2
<1>5. ASSUME NEW d, NEW w, Remembers(d, w), Finds(d, w)
      PROVE  aa + Cardinality(mm) <= Cardinality(Devices) /\ gg + Cardinality(ll) <= aa
  <2>1. aa = a /\ gg = g
    BY <1>5, <1>n DEF Finds
  <2>2. ~ Logs(w, i, u)
    BY <1>5 DEF Finds, Logs
  <2>3. ll \subseteq l
    BY <1>0, <1>2, <1>5, <2>2
  <2>4. CASE i = Head(w.codes)
    <3>1. ~ (a > 0)
      BY <1>5, <1>n, <2>4 DEF Finds, DoorInv, AdmittedIsUsed, Used
    <3> QED BY <1>0, <1>1, <1>c, <2>1, <2>3, <3>1
  <2>5. CASE i # Head(w.codes)
    <3>1. mm \subseteq m
      BY <1>0, <1>2, <1>5, <2>5 DEF Marks
    <3> QED BY <1>1, <2>1, <2>3, <3>1
  <2> QED BY <2>4, <2>5
<1>6. ASSUME NEW d, NEW w, NEW j, NEW v, Remembers(d, w), Admits(d, w, j, v)
      PROVE  aa + Cardinality(mm) <= Cardinality(Devices) /\ gg + Cardinality(ll) <= aa
  <2>0. ~ Marks(w, i, u) /\ gg = g
    BY <1>6, <1>n DEF Admits, Marks
  <2>1. CASE j = i /\ v = u
    <3>1. aa = a + 1
      BY <1>6, <1>n, <2>1 DEF Admits, DoorInv, DoorTypes
    <3>2. d \in m /\ mm \subseteq m \ {d} /\ ll \subseteq l \cup {d}
      BY <1>0, <1>2, <1>6, <2>0, <2>1 DEF Admits
    <3>3. Cardinality(m \ {d}) = Cardinality(m) - 1 /\ m \ {d} \in SUBSET Devices
      BY <1>0, <1>c, <3>2, FS_RemoveElement
    <3>4. Cardinality(mm) <= Cardinality(m) - 1
      BY <1>c, <3>2, <3>3
    <3>5. Cardinality(ll) <= Cardinality(l) + 1
      BY <1>0, <1>c, <3>2, OneMoreCount
    <3> QED BY <1>0, <1>c, <2>0, <3>1, <3>4, <3>5
  <2>2. CASE ~ (j = i /\ v = u)
    <3>1. aa = a
      BY <1>6, <1>n, <2>2 DEF Admits, DoorInv, DoorTypes
    <3>2. mm \subseteq m /\ ll \subseteq l
      BY <1>0, <1>2, <1>6, <2>0, <2>2 DEF Admits
    <3> QED BY <1>1, <2>0, <3>1, <3>2
  <2> QED BY <2>1, <2>2
<1>7. ASSUME NEW d, NEW w, NEW j, NEW v, Remembers(d, w), Records(d, w, j, v)
      PROVE  aa + Cardinality(mm) <= Cardinality(Devices) /\ gg + Cardinality(ll) <= aa
  <2>0. ~ Marks(w, i, u) /\ ~ Logs(w, i, u) /\ aa = a
    BY <1>7, <1>n DEF Records, Marks, Logs
  <2>1. mm \subseteq m /\ ll \subseteq l
    BY <1>0, <1>2, <1>7, <2>0
  <2>2. CASE gg = g
    BY <1>1, <2>0, <2>1, <2>2
  <2>3. CASE gg # g
    <3>1. j = i /\ v = u /\ gg = g + 1
      BY <1>7, <1>n, <2>3 DEF Records, DoorInv, DoorTypes
    <3>2. d \in l /\ ll \subseteq l \ {d}
      BY <1>0, <1>2, <1>7, <2>0, <2>1, <3>1 DEF Records
    <3>3. Cardinality(l \ {d}) = Cardinality(l) - 1 /\ l \ {d} \in SUBSET Devices
      BY <1>0, <1>c, <3>2, FS_RemoveElement
    <3>4. Cardinality(ll) <= Cardinality(l) - 1 /\ Cardinality(mm) <= Cardinality(m)
      BY <1>0, <1>c, <2>1, <3>2, <3>3
    <3> QED BY <1>0, <1>c, <2>0, <3>1, <3>4
  <2> QED BY <2>2, <2>3
<1> QED BY <1>3, <1>4, <1>5, <1>6, <1>7, TasksWritten

LEMMA DoorInit ==
  ASSUME DoorAssumption, Door!Init
  PROVE  DoorInv
<1>1. DoorTypes
  BY DEF Door!Init, DoorTypes, Door!ItemType, TaskType
<1>2. /\ \A d \in Devices : work[d] = Door!Idle
      /\ \A x \in Door!Items \X Users : admitted[x] = 0 /\ log[x] = 0
  BY DEF Door!Init
<1>3. Remembered
  BY <1>2 DEF Remembered, ScanOk, UpdateOk, Door!Idle, Scanning
<1>4. \A i \in Door!Items, u \in Users : Marking(i, u) = {} /\ Logging(i, u) = {}
  BY <1>2 DEF Marking, Logging, Marks, Logs, Pending, Door!Idle
<1>5. Cardinality({}) = 0 /\ Cardinality(Devices) \in Nat
  BY FS_EmptySet, FS_CardinalityType DEF DoorAssumption
<1>6. Counted
  BY <1>2, <1>4, <1>5 DEF Counted
<1>7. Watched /\ Door!AdmittedByStaff
  BY <1>2 DEF Watched, Door!AdmittedByStaff, Door!Idle
<1> QED BY <1>1, <1>2, <1>3, <1>6, <1>7 DEF DoorInv, AdmittedIsUsed

LEMMA DoorInvariant == DoorAssumption /\ Door!Spec => []DoorInv
<1>1. CASE DoorAssumption
  <2>1. Door!Init => DoorInv
    BY <1>1, DoorInit
  <2>2. DoorInv /\ [Door!Next]_(Door!vars) => DoorInv'
    BY <1>1, DoorTypesStep, RememberedStep, TrustStep, AdmittedStep, CountedStep DEF DoorInv
  <2> QED BY <2>1, <2>2, PTL DEF Door!Spec
<1> QED BY <1>1

(* Every variable of Scanner keeps its type: no item is admitted more often  *)
(* than there are devices.                                                   *)
THEOREM DoorTyped == DoorAssumption /\ Door!Spec => []Door!TypeOK
<1>1. CASE DoorAssumption
  <2>1. DoorInv => Door!TypeOK
    <3> SUFFICES ASSUME DoorInv PROVE Door!TypeOK
      OBVIOUS
    <3>c. PICK n : n = Door!Cardinality(Devices) /\ n = Cardinality(Devices)
      BY DEF Door!Cardinality, Cardinality
    <3>1. n \in Nat /\ IsFiniteSet(Devices)
      BY <1>1, <3>c, FS_CardinalityType DEF DoorAssumption
    <3>2. \A i \in Door!Items, u \in Users :
            Cardinality(Marking(i, u)) \in Nat /\ Cardinality(Logging(i, u)) \in Nat
      <4>1. \A i \in Door!Items, u \in Users : Marking(i, u) \subseteq Devices /\ Logging(i, u) \subseteq Devices
        BY DEF Marking, Logging
      <4> QED BY <3>1, <4>1, SubsetCount
    <3>3. \A x \in Door!Items \X Users : admitted[x] \in 0..n /\ log[x] \in 0..n
      <4> SUFFICES ASSUME NEW i \in Door!Items, NEW u \in Users
                   PROVE  admitted[<<i, u>>] \in 0..n /\ log[<<i, u>>] \in 0..n
        OBVIOUS
      <4>1. admitted[<<i, u>>] \in Nat /\ log[<<i, u>>] \in Nat
        BY DEF DoorInv, DoorTypes
      <4>2. /\ admitted[<<i, u>>] + Cardinality(Marking(i, u)) <= n
            /\ log[<<i, u>>] + Cardinality(Logging(i, u)) <= admitted[<<i, u>>]
        BY <3>c DEF DoorInv, Counted
      <4> QED BY <3>1, <3>2, <4>1, <4>2
    <3>4. admitted \in [Door!Items \X Users -> 0..n] /\ log \in [Door!Items \X Users -> 0..n]
      BY <3>3 DEF DoorInv, DoorTypes
    <3> QED BY <3>4, <3>c DEF DoorInv, DoorTypes, Door!TypeOK
  <2> QED BY <2>1, DoorInvariant, PTL
<1> QED BY <1>1

(* A bulk scan that lists a code twice admits the item once, whatever other  *)
(* devices scan meanwhile.                                                   *)
THEOREM BulkScansAdmitOnce == DoorAssumption /\ Door!Spec => []Door!BulkAdmitsOnce
<1>1. DoorInv => Door!BulkAdmitsOnce
  BY DEF DoorInv, Remembered, ScanOk, Scanning, Door!BulkAdmitsOnce
<1> QED BY <1>1, DoorInvariant, PTL

(* Whoever marks an item organises its event, or held its organiser's        *)
(* permission at some moment since the item was read, however granting,      *)
(* revoking, expiry and the scans of other codes overlap.                    *)
THEOREM StaffAdmit == DoorAssumption /\ Door!Spec => []Door!AdmittedByStaff
<1>1. DoorInv => Door!AdmittedByStaff
  BY DEF DoorInv
<1> QED BY <1>1, DoorInvariant, PTL

(* Each row of the scan log is of an admission, and each scanner's rows of   *)
(* an item are no more than the admissions: what the statistics add up.      *)
LogsAreAdmissions ==
  \A i \in Door!Items, u \in Users :
    /\ log[<<i, u>>] <= admitted[<<i, u>>]
    /\ log[<<i, u>>] > 0 => Used(i)
THEOREM ScansLogged == DoorAssumption /\ Door!Spec => []LogsAreAdmissions
<1>1. CASE DoorAssumption
  <2>1. DoorInv => LogsAreAdmissions
    <3> SUFFICES ASSUME DoorInv, NEW i \in Door!Items, NEW u \in Users
                 PROVE  /\ log[<<i, u>>] <= admitted[<<i, u>>]
                        /\ log[<<i, u>>] > 0 => Used(i)
      BY DEF LogsAreAdmissions
    <3>1. Logging(i, u) \subseteq Devices
      BY DEF Logging
    <3>2. Cardinality(Logging(i, u)) \in Nat
      BY <1>1, <3>1, SubsetCount DEF DoorAssumption
    <3>3. /\ admitted[<<i, u>>] \in Nat /\ log[<<i, u>>] \in Nat
          /\ log[<<i, u>>] + Cardinality(Logging(i, u)) <= admitted[<<i, u>>]
          /\ admitted[<<i, u>>] > 0 => Used(i)
      BY DEF DoorInv, DoorTypes, Counted, AdmittedIsUsed
    <3> QED BY <3>2, <3>3
  <2> QED BY <2>1, DoorInvariant, PTL
<1> QED BY <1>1

(* The statistics: the sums are Total's, over finite tables of naturals.     *)
LEMMA SumIsTotal ==
  ASSUME NEW f, NEW S PROVE Door!SumFunctionOnSet(f, S) = Total(f, S)
BY DEF Door!SumFunctionOnSet, Door!FoldFunctionOnSet, Door!MapThenFoldSet, Total, AddsUp, One

(* Each row of the scan log is of an admission, and each scanner's rows of   *)
(* an item are no more than the admissions: so are their sums.               *)
THEOREM StatisticsAddUp == DoorAssumption /\ Door!Spec => []Door!StatisticsAreAdmissions
<1>1. CASE DoorAssumption
  <2>1. DoorInv /\ LogsAreAdmissions => Door!StatisticsAreAdmissions
    <3> SUFFICES ASSUME DoorInv, LogsAreAdmissions, NEW u \in Users
                 PROVE  /\ \A i \in Door!Items :
                             log[<<i, u>>] > 0 => item[i].used /\ item[i].status = "used"
                        /\ Door!getScannerStats(u).ticketsMarkedUsed
                             + Door!getScannerStats(u).registrationsMarkedUsed
                           <= Door!SumFunctionOnSet([i \in Door!Items |-> admitted[<<i, u>>]],
                                                    Door!Items)
      BY DEF Door!StatisticsAreAdmissions
    <3>1. \A i \in Door!Items : log[<<i, u>>] > 0 => item[i].used /\ item[i].status = "used"
      BY DEF LogsAreAdmissions, Used
    <3> DEFINE f == [i \in Door!Items |-> log[<<i, u>>]]
               h == [i \in Door!Items |-> admitted[<<i, u>>]]
    <3>2. f \in [Door!Items -> Nat] /\ h \in [Door!Items -> Nat]
      BY DEF DoorInv, DoorTypes
    <3>3. \A i \in Door!Items : f[i] <= h[i]
      BY DEF LogsAreAdmissions
    <3>4. /\ Door!Items = Tickets \cup Registrations /\ IsFiniteSet(Door!Items)
          /\ IsFiniteSet(Tickets) /\ IsFiniteSet(Registrations)
          /\ Tickets \cap Registrations = {}
          /\ Tickets \in SUBSET Door!Items /\ Registrations \in SUBSET Door!Items
      BY <1>1, FS_Subset, FS_Union DEF DoorAssumption, Door!Items
    <3>5. /\ Door!getScannerStats(u).ticketsMarkedUsed = Total(f, Tickets)
          /\ Door!getScannerStats(u).registrationsMarkedUsed = Total(f, Registrations)
      BY SumIsTotal DEF Door!getScannerStats, Door!MarkedUsed
    <3>6. Door!SumFunctionOnSet(h, Door!Items) = Total(h, Door!Items)
      BY SumIsTotal
    <3> HIDE DEF f, h
    <3>7. Total(f, Tickets \cup Registrations) = Total(f, Tickets) + Total(f, Registrations)
      BY <3>2, <3>4, TotalOfUnion
    <3>8. Total(f, Door!Items) <= Total(h, Door!Items)
      BY <3>2, <3>3, <3>4, TotalGrows
    <3> QED BY <3>1, <3>4, <3>5, <3>6, <3>7, <3>8 DEF h
  <2> QED BY <2>1, DoorInvariant, ScansLogged, PTL
<1> QED BY <1>1

(* What the run checks of the door, for any staff, items and devices.        *)
THEOREM DoorCorrect == DoorAssumption /\ Door!Spec => []Door!ScannerSafe
BY DoorTyped, BulkScansAdmitOnce, StaffAdmit, StatisticsAddUp, PTL DEF Door!ScannerSafe

-----------------------------------------------------------------------------
(***************************************************************************)
(* Rides and their chat, for any people, devices, rides and keys.  No      *)
(* operation holds a lock on a ride, so the invariant says what the call   *)
(* of a device may still rely on when it writes.                           *)
(***************************************************************************)
CONSTANTS
  Holder,  \* the user signed in on each device
  Rides, Events, StartDay, Times, NoEvent, NoRide, Seats, Keys, Contents,
  MaxRows, MaxMessages, MaxPending  \* as in Carpool

VARIABLES ride, request, message, receipt, accepted  \* as in Carpool

Chat == INSTANCE Carpool WITH Owner <- Holder

ChatAssumption ==
  /\ Holder \in [Devices -> Users]
  /\ Seats \in Nat /\ MaxRows \in Nat /\ MaxMessages \in Nat

ChatTypes ==
  /\ ride \in [Rides -> Chat!RideType \cup {Chat!Unborn}]
  /\ request \in Seq(Chat!RequestType) /\ Len(request) <= MaxRows
  /\ message \in Seq(Chat!MessageType) /\ Len(message) <= MaxMessages
  /\ receipt \subseteq Chat!MessageType
  /\ accepted \subseteq Users \X Rides
  /\ work = [d \in Devices |-> work[d]]

(* Who may ever have written in a ride's chat: its driver, whoever was let in. *)
Member(u, r) == ride[r] # Chat!Unborn /\ (ride[r].driver = u \/ <<u, r>> \in accepted)

(* A call writes to a ride that exists and to rows that were requested; it    *)
(* ends a membership that had begun, and sends for a member.                  *)
Writes(w, u) ==
  /\ w.op = "create" =>
       w.event \in Events \cup {NoEvent} /\ w.time \in Times
  /\ w.op = "update" => w.ride \in Rides /\ ride[w.ride] # Chat!Unborn /\ w.time \in Times
  /\ w.op \in {"request", "switch", "switched"} => w.ride \in Rides
  /\ w.op = "decide" =>
       w.row \in DOMAIN request /\ w.status \in {"ACCEPTED", "DECLINED", "LEFT", "REMOVED"}
  /\ w.op = "decide" /\ w.status \in {"LEFT", "REMOVED"} =>
       <<request[w.row].user, request[w.row].ride>> \in accepted
  /\ w.op = "send" =>
       w.ride \in Rides /\ w.key \in Keys /\ w.content \in Contents /\ Member(u, w.ride)
CallsWrite == \A d \in Devices : Writes(work[d], Holder[d])

(* Whoever is or was in a ride was accepted.                                  *)
Acceptances ==
  \A i \in DOMAIN request : request[i].status \in {"ACCEPTED", "REMOVED", "LEFT"} =>
    <<request[i].user, request[i].ride>> \in accepted

(* The advisory lock is held by one send at a time, and what it is sending    *)
(* is not saved yet.                                                          *)
OneSend ==
  \A d, f \in Devices :
    /\ work[d].op = "send" /\ work[f].op = "send" /\ Holder[d] = Holder[f]
    /\ work[d].ride = work[f].ride /\ work[d].key = work[f].key
    => d = f
Unsent ==
  \A d \in Devices : \A i \in DOMAIN message :
    ~ /\ work[d].op = "send"
      /\ message[i].sender = Holder[d]
      /\ message[i].ride = work[d].ride /\ message[i].key = work[d].key

Spoken == \A i \in DOMAIN message : Member(message[i].sender, message[i].ride)

ChatInv ==
  /\ ChatTypes /\ CallsWrite /\ Acceptances /\ OneSend /\ Unsent
  /\ Spoken /\ Chat!OneMessagePerKey

(* What no step takes back: rides, their drivers, requests, acceptances.      *)
ChatGrows ==
  /\ \A r \in Rides : ride[r] # Chat!Unborn =>
       ride'[r] # Chat!Unborn /\ ride'[r].driver = ride[r].driver
  /\ \A i \in DOMAIN request :
       /\ i \in DOMAIN request'
       /\ request'[i].user = request[i].user /\ request'[i].ride = request[i].ride
  /\ accepted \subseteq accepted'

LEMMA Born == ASSUME NEW x \in Chat!RideType PROVE x # Chat!Unborn
<1>1. "event" \in DOMAIN x
  BY DEF Chat!RideType
<1>2. "event" \notin DOMAIN Chat!Unborn
  BY DEF Chat!Unborn
<1> QED BY <1>1, <1>2

(* Rows get a new status and keep the rest. *)
Statuses == {"PENDING", "ACCEPTED", "DECLINED", "CANCELLED", "LEFT", "REMOVED", "DELETED"}
Restamp(rows, hit, s) ==
  [i \in DOMAIN rows |-> IF i \in hit THEN [rows[i] EXCEPT !.status = s] ELSE rows[i]]
LEMMA Restamped ==
  ASSUME NEW rows \in Seq(Chat!RequestType), NEW hit, NEW s \in Statuses
  PROVE  /\ Restamp(rows, hit, s) \in Seq(Chat!RequestType)
         /\ Len(Restamp(rows, hit, s)) = Len(rows)
         /\ DOMAIN Restamp(rows, hit, s) = DOMAIN rows
         /\ \A i \in DOMAIN rows :
              /\ Restamp(rows, hit, s)[i].user = rows[i].user
              /\ Restamp(rows, hit, s)[i].ride = rows[i].ride
              /\ Restamp(rows, hit, s)[i].status = IF i \in hit THEN s ELSE rows[i].status
<1>n. PICK new : new = Restamp(rows, hit, s)
  OBVIOUS
<1>0. new = [i \in DOMAIN rows |-> IF i \in hit THEN [rows[i] EXCEPT !.status = s] ELSE rows[i]]
  BY <1>n DEF Restamp
<1>1. /\ Len(rows) \in Nat /\ DOMAIN rows = 1..Len(rows)
      /\ \A i \in DOMAIN rows : rows[i] \in Chat!RequestType
  OBVIOUS
<1>2. \A i \in DOMAIN rows :
        /\ new[i] \in Chat!RequestType
        /\ new[i].user = rows[i].user /\ new[i].ride = rows[i].ride
        /\ new[i].status = IF i \in hit THEN s ELSE rows[i].status
  <2> SUFFICES ASSUME NEW i \in DOMAIN rows
               PROVE  /\ new[i] \in Chat!RequestType
                      /\ new[i].user = rows[i].user /\ new[i].ride = rows[i].ride
                      /\ new[i].status = IF i \in hit THEN s ELSE rows[i].status
    OBVIOUS
  <2>1. CASE i \in hit
    BY <1>0, <1>1, <2>1 DEF Statuses, Chat!RequestType
  <2>2. CASE i \notin hit
    BY <1>0, <1>1, <2>2
  <2> QED BY <2>1, <2>2
<1>3. new \in [1..Len(rows) -> Chat!RequestType]
  BY <1>0, <1>1, <1>2
<1>4. new \in Seq(Chat!RequestType) /\ Len(new) = Len(rows) /\ DOMAIN new = DOMAIN rows
  BY <1>1, <1>3
<1> QED BY <1>2, <1>4, <1>n

(* A call is taken up or dropped: what the others rely on stays.              *)
LEMMA ChatKept ==
  ASSUME ChatInv, ChatTypes', ChatGrows, Acceptances', message' = message, receipt' = receipt,
         \/ work' = work
         \/ \E d \in Devices : \E w :
              work' = [work EXCEPT ![d] = w] /\ w.op # "send" /\ Writes(w, Holder[d])'
  PROVE  ChatInv'
<1>1. /\ ChatTypes /\ CallsWrite /\ OneSend /\ Unsent /\ Spoken /\ Chat!OneMessagePerKey
      /\ work = [d \in Devices |-> work[d]]
      /\ \A i \in DOMAIN message : message[i] \in Chat!MessageType
  BY DEF ChatInv, ChatTypes
<1>2. \A u, r : r \in Rides /\ Member(u, r) => Member(u, r)'
  BY DEF ChatGrows, Member
<1>3. \A w, u : Writes(w, u) => Writes(w, u)'
  <2> SUFFICES ASSUME NEW w, NEW u, Writes(w, u)
               PROVE  Writes(w, u)'
    OBVIOUS
  <2>1. w.op = "send" => Member(u, w.ride)'
    BY <1>2 DEF Writes
  <2> QED BY <2>1 DEF Writes, ChatGrows
<1>4. Spoken'
  BY <1>1, <1>2 DEF Spoken, Chat!MessageType
<1>5. Chat!OneMessagePerKey'
  BY <1>1 DEF Chat!OneMessagePerKey
<1>6. \A d \in Devices : \/ work'[d] = work[d]
                         \/ \E w : work'[d] = w /\ w.op # "send" /\ Writes(w, Holder[d])'
  BY <1>1
<1>7. CallsWrite'
  <2> SUFFICES ASSUME NEW d \in Devices
               PROVE  Writes(work[d], Holder[d])'
    BY DEF CallsWrite
  <2>1. PICK w : w = work'[d]
    OBVIOUS
  <2>2. Writes(w, Holder[d])'
    BY <1>1, <1>3, <1>6, <2>1 DEF CallsWrite
  <2> QED BY <2>1, <2>2 DEF Writes
<1>8. OneSend' /\ Unsent'
  BY <1>1, <1>6 DEF OneSend, Unsent
<1> QED BY <1>4, <1>5, <1>7, <1>8 DEF ChatInv

LEMMA ChatQuiet ==
  ASSUME ChatInv, ride' = ride, request' = request, message' = message, receipt' = receipt,
         accepted' = accepted,
         NEW d \in Devices, NEW w, work' = [work EXCEPT ![d] = w], w.op # "send",
         Writes(w, Holder[d])
  PROVE  ChatInv'
<1>1. ChatTypes'
  BY DEF ChatInv, ChatTypes
<1>2. ChatGrows /\ Acceptances'
  BY DEF ChatInv, ChatGrows, Acceptances
<1>3. Writes(w, Holder[d])'
  BY DEF Writes, Member
<1> QED BY <1>1, <1>2, <1>3, ChatKept

(* The reads, and the calls that fail.                                        *)
LEMMA ReadsKept ==
  ASSUME ChatAssumption, ChatInv, NEW d \in Devices,
         \/ \E e \in Events \cup {NoEvent}, t \in Times : Chat!CreateRead(d, e, t)
         \/ \E r \in Rides, t \in Times : Chat!UpdateRead(d, r, t)
         \/ \E r \in Rides : Chat!RequestRead(d, r)
         \/ Chat!Abandon(d)
  PROVE  ChatInv'
<1>1. ASSUME NEW e \in Events \cup {NoEvent}, NEW t \in Times, Chat!CreateRead(d, e, t)
      PROVE  ChatInv'
  <2>w. PICK w : /\ w = [op |-> "create", event |-> e, time |-> t, stage |-> "time",
                         rows |-> {i \in DOMAIN request :
                                     /\ Chat!Live(i) /\ request[i].user = Holder[d]
                                     /\ Chat!Clashes(request[i].ride, e, t)}]
                 /\ work' = [work EXCEPT ![d] = w]
    BY <1>1 DEF Chat!CreateRead
  <2>1. w.op = "create" /\ w.event = e /\ w.time = t
    BY <2>w
  <2>2. w.op # "send" /\ Writes(w, Holder[d])
    BY <2>1 DEF Writes
  <2> QED BY <1>1, <2>w, <2>2, ChatQuiet DEF Chat!CreateRead
<1>2. ASSUME NEW r \in Rides, NEW t \in Times, Chat!UpdateRead(d, r, t)
      PROVE  ChatInv'
  <2>w. PICK w : /\ w = [op |-> "update", ride |-> r, time |-> t]
                 /\ work' = [work EXCEPT ![d] = w]
    BY <1>2 DEF Chat!UpdateRead
  <2>1. w.op # "send" /\ Writes(w, Holder[d])
    BY <1>2, <2>w DEF Writes, Chat!UpdateRead, Chat!Active, Chat!Exists
  <2> QED BY <1>2, <2>w, <2>1, ChatQuiet DEF Chat!UpdateRead
<1>3. ASSUME NEW r \in Rides, Chat!RequestRead(d, r)
      PROVE  ChatInv'
  <2>w. PICK w : w = [op |-> "request", ride |-> r] /\ work' = [work EXCEPT ![d] = w]
    BY <1>3 DEF Chat!RequestRead
  <2>1. w.op # "send" /\ Writes(w, Holder[d])
    BY <2>w DEF Writes
  <2> QED BY <1>3, <2>w, <2>1, ChatQuiet DEF Chat!RequestRead
<1>4. ASSUME Chat!Abandon(d)
      PROVE  ChatInv'
  <2>w. PICK w : w = Chat!Idle /\ work' = [work EXCEPT ![d] = w]
    BY <1>4 DEF Chat!Abandon
  <2>1. w.op # "send" /\ Writes(w, Holder[d])
    BY <2>w DEF Writes, Chat!Idle
  <2> QED BY <1>4, <2>w, <2>1, ChatQuiet DEF Chat!Abandon
<1> QED BY <1>1, <1>2, <1>3, <1>4

(* The driver, or the passenger, has looked at the row.                       *)
LEMMA DecidesKept ==
  ASSUME ChatAssumption, ChatInv, NEW d \in Devices, NEW i \in DOMAIN request,
         \/ \E action \in {"ACCEPTED", "DECLINED"} : Chat!respondToRequest(d, i, action)
         \/ Chat!leaveRide(d, i) \/ Chat!removePassenger(d, i)
  PROVE  ChatInv'
<1>1. PICK choice \in {"ACCEPTED", "DECLINED", "LEFT", "REMOVED"} :
        /\ Chat!Decide(d, i, choice)
        /\ choice \in {"LEFT", "REMOVED"} => request[i].status = "ACCEPTED"
  BY DEF Chat!respondToRequest, Chat!leaveRide, Chat!removePassenger
<1>w. PICK w : w = [op |-> "decide", row |-> i, status |-> choice] /\ work' = [work EXCEPT ![d] = w]
  BY <1>1 DEF Chat!Decide
<1>2. w.op = "decide" /\ w.row = i /\ w.status = choice
  BY <1>w
<1>3. choice \in {"LEFT", "REMOVED"} => <<request[i].user, request[i].ride>> \in accepted
  BY <1>1 DEF ChatInv, Acceptances
<1>4. w.op # "send" /\ Writes(w, Holder[d])
  BY <1>2, <1>3 DEF Writes
<1> QED BY <1>1, <1>w, <1>4, ChatQuiet DEF Chat!Decide

(* The rows found are cancelled one by one; the ride is born.                 *)
LEMMA CreateCancelKept ==
  ASSUME ChatAssumption, ChatInv, NEW d \in Devices, NEW i \in DOMAIN request,
         Chat!CreateCancel(d, i)
  PROVE  ChatInv'
<1>0. /\ ride' = ride /\ message' = message /\ receipt' = receipt /\ accepted' = accepted
      /\ request' = [request EXCEPT ![i].status = "CANCELLED"]
      /\ work[d].op = "create"
  BY DEF Chat!CreateCancel
<1>o. PICK old : old = work[d]
  OBVIOUS
<1>w. PICK w : w = [old EXCEPT !.rows = @ \ {i}]
  OBVIOUS
<1>1. work' = [work EXCEPT ![d] = w]
  BY <1>o, <1>w DEF Chat!CreateCancel, ChatInv, ChatTypes
<1>2. request \in Seq(Chat!RequestType) /\ Len(request) <= MaxRows
  BY DEF ChatInv, ChatTypes
<1>3. PICK new : new = Restamp(request, {i}, "CANCELLED")
  OBVIOUS
<1>4. request' = new
  <2>1. request = [j \in DOMAIN request |-> request[j]]
    BY <1>2
  <2> QED BY <1>0, <1>3, <2>1 DEF Restamp
<1>s. "CANCELLED" \in Statuses
  BY DEF Statuses
<1>5. /\ new \in Seq(Chat!RequestType) /\ Len(new) = Len(request) /\ DOMAIN new = DOMAIN request
      /\ \A j \in DOMAIN request :
           /\ new[j].user = request[j].user /\ new[j].ride = request[j].ride
           /\ new[j].status = IF j \in {i} THEN "CANCELLED" ELSE request[j].status
  BY <1>2, <1>3, <1>s, Restamped
<1>6. ChatGrows /\ Acceptances'
  BY <1>0, <1>4, <1>5 DEF ChatGrows, ChatInv, Acceptances
<1>7. Writes(old, Holder[d]) /\ old.op = "create"
  BY <1>0, <1>o DEF ChatInv, CallsWrite
<1>8. w.op = old.op /\ w.event = old.event /\ w.time = old.time
  BY <1>w
<1>9. w.op # "send" /\ Writes(w, Holder[d])'
  BY <1>7, <1>8 DEF Writes
<1>10. ChatTypes'
  BY <1>0, <1>1, <1>2, <1>4, <1>5 DEF ChatInv, ChatTypes
<1> QED BY <1>0, <1>1, <1>6, <1>9, <1>10, ChatKept

LEMMA CreateNextKept ==
  ASSUME ChatAssumption, ChatInv, NEW d \in Devices, Chat!CreateNext(d)
  PROVE  ChatInv'
<1>o. PICK old : old = work[d]
  OBVIOUS
<1>1. PICK rows : work' = [work EXCEPT ![d].stage = "event", ![d].rows = rows]
  BY DEF Chat!CreateNext
<1>w. PICK w : w = [old EXCEPT !.stage = "event", !.rows = rows]
  OBVIOUS
<1>2. work' = [work EXCEPT ![d] = w]
  BY <1>1, <1>o, <1>w DEF ChatInv, ChatTypes
<1>3. old.op = "create" /\ Writes(old, Holder[d])
  BY <1>o DEF Chat!CreateNext, ChatInv, CallsWrite
<1>4. w.op = old.op /\ w.event = old.event /\ w.time = old.time
  BY <1>w
<1>5. w.op # "send" /\ Writes(w, Holder[d])
  BY <1>3, <1>4 DEF Writes
<1> QED BY <1>2, <1>5, ChatQuiet DEF Chat!CreateNext

LEMMA CreateInsertKept ==
  ASSUME ChatAssumption, ChatInv, NEW d \in Devices, Chat!CreateInsert(d)
  PROVE  ChatInv'
<1>1. PICK r \in Rides :
        /\ ~ Chat!Exists(r)
        /\ ride' = [ride EXCEPT ![r] =
             [driver |-> Holder[d], event |-> work[d].event, time |-> work[d].time,
              open |-> TRUE, deleted |-> FALSE]]
  BY DEF Chat!CreateInsert
<1>2. PICK e, t : e = work[d].event /\ t = work[d].time
  OBVIOUS
<1>3. e \in Events \cup {NoEvent} /\ t \in Times /\ Holder[d] \in Users
  BY <1>2 DEF Chat!CreateInsert, ChatInv, CallsWrite, Writes, ChatAssumption
<1>4. PICK x : x = [driver |-> Holder[d], event |-> e, time |-> t, open |-> TRUE, deleted |-> FALSE]
  OBVIOUS
<1>5. x \in Chat!RideType
  BY <1>3, <1>4 DEF Chat!RideType
<1>6. ride' = [ride EXCEPT ![r] = x]
  BY <1>1, <1>2, <1>4
<1>7. /\ ride' \in [Rides -> Chat!RideType \cup {Chat!Unborn}]
      /\ \A s \in Rides : ride[s] # Chat!Unborn => ride'[s] = ride[s]
  BY <1>1, <1>5, <1>6 DEF ChatInv, ChatTypes, Chat!Exists
<1>8. work' = [work EXCEPT ![d] = Chat!Idle]
  BY DEF Chat!CreateInsert
<1>9. ChatTypes' /\ ChatGrows /\ Acceptances'
  BY <1>7, <1>8 DEF Chat!CreateInsert, ChatInv, ChatTypes, ChatGrows, Acceptances
<1>10. Chat!Idle.op # "send" /\ Writes(Chat!Idle, Holder[d])'
  BY DEF Writes, Chat!Idle
<1> QED BY <1>8, <1>9, <1>10, ChatKept DEF Chat!CreateInsert

(* A ride that exists is edited: its time, whether it is open or deleted.     *)
LEMMA RideStays ==
  ASSUME ChatInv, NEW r \in Rides, ride[r] # Chat!Unborn, NEW x \in Chat!RideType,
         x.driver = ride[r].driver, ride' = [ride EXCEPT ![r] = x],
         request' = request, accepted' = accepted
  PROVE  /\ ride' \in [Rides -> Chat!RideType \cup {Chat!Unborn}]
         /\ ChatGrows /\ Acceptances'
<1>1. ride \in [Rides -> Chat!RideType \cup {Chat!Unborn}]
  BY DEF ChatInv, ChatTypes
<1>2. ride' \in [Rides -> Chat!RideType \cup {Chat!Unborn}]
  BY <1>1
<1>3. \A s \in Rides : ride'[s] = IF s = r THEN x ELSE ride[s]
  BY <1>1
<1>4. x # Chat!Unborn
  BY Born
<1>5. ChatGrows
  BY <1>3, <1>4 DEF ChatGrows
<1>6. Acceptances'
  BY DEF ChatInv, Acceptances
<1> QED BY <1>2, <1>5, <1>6

LEMMA UpdateWriteKept ==
  ASSUME ChatAssumption, ChatInv, NEW d \in Devices, Chat!UpdateWrite(d)
  PROVE  ChatInv'
<1>1. PICK r \in Rides, t \in Times : /\ r = work[d].ride /\ t = work[d].time
                                      /\ ride[r] # Chat!Unborn
  BY DEF Chat!UpdateWrite, ChatInv, CallsWrite, Writes
<1>x. PICK x : x = ride[r]
  OBVIOUS
<1>2. x \in Chat!RideType
  BY <1>1, <1>x DEF ChatInv, ChatTypes
<1>3. PICK new : new = [x EXCEPT !.time = t]
  OBVIOUS
<1>4. new \in Chat!RideType /\ new.driver = x.driver
  BY <1>2, <1>3 DEF Chat!RideType
<1>5. ride' = [ride EXCEPT ![r] = new]
  BY <1>1, <1>3, <1>x DEF Chat!UpdateWrite, ChatInv, ChatTypes
<1>6. ride' \in [Rides -> Chat!RideType \cup {Chat!Unborn}] /\ ChatGrows /\ Acceptances'
  BY <1>1, <1>4, <1>5, <1>x, RideStays DEF Chat!UpdateWrite
<1>7. work' = [work EXCEPT ![d] = Chat!Idle]
  BY DEF Chat!UpdateWrite
<1>8. ChatTypes'
  BY <1>6, <1>7 DEF Chat!UpdateWrite, ChatInv, ChatTypes
<1>9. Chat!Idle.op # "send" /\ Writes(Chat!Idle, Holder[d])'
  BY DEF Writes, Chat!Idle
<1> QED BY <1>6, <1>7, <1>8, <1>9, ChatKept DEF Chat!UpdateWrite

LEMMA SwitchCancelKept ==
  ASSUME ChatAssumption, ChatInv, NEW d \in Devices, NEW c \in Rides, NEW r \in Rides,
         Chat!SwitchCancel(d, c, r)
  PROVE  ChatInv'
<1>x. PICK x : x = ride[c]
  OBVIOUS
<1>1. ride[c] # Chat!Unborn
  BY DEF Chat!SwitchCancel, Chat!Active, Chat!Exists
<1>2. x \in Chat!RideType
  BY <1>1, <1>x DEF ChatInv, ChatTypes
<1>b. PICK yes \in BOOLEAN : yes = TRUE
  OBVIOUS
<1>3. PICK new : new = [x EXCEPT !.deleted = yes]
  OBVIOUS
<1>4. new \in Chat!RideType /\ new.driver = x.driver
  BY <1>2, <1>3 DEF Chat!RideType
<1>5. ride' = [ride EXCEPT ![c] = new]
  BY <1>3, <1>b, <1>x DEF Chat!SwitchCancel, ChatInv, ChatTypes
<1>6. ride' \in [Rides -> Chat!RideType \cup {Chat!Unborn}] /\ ChatGrows /\ Acceptances'
  BY <1>1, <1>4, <1>5, <1>x, RideStays DEF Chat!SwitchCancel
<1>w. PICK w : /\ w = [op |-> "switch", ride |-> r, from |-> c,
                       notify |-> {i \in DOMAIN request : Chat!Live(i) /\ request[i].ride = c}]
               /\ work' = [work EXCEPT ![d] = w]
  BY DEF Chat!SwitchCancel
<1>7. w.op = "switch" /\ w.ride = r
  BY <1>w
<1>8. ChatTypes'
  BY <1>6, <1>w DEF Chat!SwitchCancel, ChatInv, ChatTypes
<1>9. w.op # "send" /\ Writes(w, Holder[d])'
  BY <1>7 DEF Writes
<1> QED BY <1>6, <1>w, <1>8, <1>9, ChatKept DEF Chat!SwitchCancel

(* Time passes; the end of an event is moved.                                 *)
LEMMA ExpiryKept ==
  ASSUME ChatAssumption, ChatInv,
         \/ \E r \in Rides : Chat!Expire(r)
         \/ \E e \in Events, later \in BOOLEAN : Chat!updateCarpoolExpiryForEvent(e, later)
  PROVE  ChatInv'
<1>0. ride \in [Rides -> Chat!RideType \cup {Chat!Unborn}]
  BY DEF ChatInv, ChatTypes
<1>1. PICK hit \in SUBSET Rides, b \in BOOLEAN :
        ride' = [r \in Rides |-> IF Chat!Exists(r) /\ r \in hit THEN [ride[r] EXCEPT !.open = b]
                                 ELSE ride[r]]
  <2>1. ASSUME NEW r \in Rides, Chat!Expire(r)
        PROVE  \E hit \in SUBSET Rides, b \in BOOLEAN :
          ride' = [s \in Rides |-> IF Chat!Exists(s) /\ s \in hit THEN [ride[s] EXCEPT !.open = b]
                                   ELSE ride[s]]
    <3>1. ride' = [s \in Rides |-> IF Chat!Exists(s) /\ s \in {r} THEN [ride[s] EXCEPT !.open = FALSE]
                                   ELSE ride[s]]
      BY <1>0, <2>1 DEF Chat!Expire
    <3>2. {r} \in SUBSET Rides /\ FALSE \in BOOLEAN
      OBVIOUS
    <3> QED BY <3>1, <3>2
  <2>2. ASSUME NEW e \in Events, NEW later \in BOOLEAN, Chat!updateCarpoolExpiryForEvent(e, later)
        PROVE  \E hit \in SUBSET Rides, b \in BOOLEAN :
          ride' = [s \in Rides |-> IF Chat!Exists(s) /\ s \in hit THEN [ride[s] EXCEPT !.open = b]
                                   ELSE ride[s]]
    <3>1. ride' = [s \in Rides |-> IF Chat!Exists(s) /\ s \in {q \in Rides : ride[q].event = e}
                                   THEN [ride[s] EXCEPT !.open = later] ELSE ride[s]]
      BY <2>2 DEF Chat!updateCarpoolExpiryForEvent
    <3> QED BY <3>1
  <2> QED BY <2>1, <2>2
<1>2. \A r \in Rides : /\ ride'[r] \in Chat!RideType \cup {Chat!Unborn}
                       /\ ride[r] # Chat!Unborn =>
                            ride'[r] # Chat!Unborn /\ ride'[r].driver = ride[r].driver
  <2> SUFFICES ASSUME NEW r \in Rides
               PROVE  /\ ride'[r] \in Chat!RideType \cup {Chat!Unborn}
                      /\ ride[r] # Chat!Unborn =>
                           ride'[r] # Chat!Unborn /\ ride'[r].driver = ride[r].driver
    OBVIOUS
  <2>x. PICK x : x = ride[r]
    OBVIOUS
  <2>1. ride'[r] = IF Chat!Exists(r) /\ r \in hit THEN [x EXCEPT !.open = b] ELSE x
    BY <1>1, <2>x
  <2>2. CASE x \in Chat!RideType
    <3>1. [x EXCEPT !.open = b] \in Chat!RideType /\ [x EXCEPT !.open = b].driver = x.driver
      BY <2>2 DEF Chat!RideType
    <3> QED BY <2>1, <2>2, <2>x, <3>1, Born
  <2>3. CASE x = Chat!Unborn
    BY <2>1, <2>3, <2>x DEF Chat!Exists
  <2> QED BY <1>0, <2>2, <2>3, <2>x
<1>3. /\ request' = request /\ message' = message /\ receipt' = receipt
      /\ accepted' = accepted /\ work' = work
  BY DEF Chat!Expire, Chat!updateCarpoolExpiryForEvent
<1>4. ride' \in [Rides -> Chat!RideType \cup {Chat!Unborn}]
  BY <1>1, <1>2
<1>5. ChatTypes'
  BY <1>3, <1>4 DEF ChatInv, ChatTypes
<1>6. ChatGrows /\ Acceptances'
  BY <1>2, <1>3 DEF ChatInv, ChatGrows, Acceptances
<1> QED BY <1>3, <1>5, <1>6, ChatKept

LEMMA RequestInsertKept ==
  ASSUME ChatAssumption, ChatInv, NEW d \in Devices, Chat!RequestInsert(d)
  PROVE  ChatInv'
<1>1. PICK r \in Rides : r = work[d].ride
  BY DEF Chat!RequestInsert, ChatInv, CallsWrite, Writes
<1>2. PICK row : row = [user |-> Holder[d], ride |-> r, status |-> "PENDING"]
  OBVIOUS
<1>3. row \in Chat!RequestType /\ row.status = "PENDING"
  BY <1>2 DEF Chat!RequestType, ChatAssumption
<1>4. /\ request \in Seq(Chat!RequestType) /\ Len(request) < MaxRows /\ MaxRows \in Nat
      /\ request' = Append(request, row)
  BY <1>1, <1>2 DEF Chat!RequestInsert, ChatInv, ChatTypes, ChatAssumption
<1>5. /\ request' \in Seq(Chat!RequestType) /\ Len(request') <= MaxRows
      /\ DOMAIN request' = 1..(Len(request) + 1) /\ DOMAIN request = 1..Len(request)
      /\ Len(request) \in Nat
      /\ \A i \in DOMAIN request : request'[i] = request[i]
      /\ request'[Len(request) + 1] = row
  BY <1>3, <1>4
<1>6. work' = [work EXCEPT ![d] = Chat!Idle]
  BY DEF Chat!RequestInsert
<1>7. ChatTypes' /\ ChatGrows
  <2>1. ChatTypes'
    BY <1>5, <1>6 DEF Chat!RequestInsert, ChatInv, ChatTypes
  <2>2. \A i \in DOMAIN request : i \in DOMAIN request' /\ request'[i] = request[i]
    BY <1>5
  <2> QED BY <2>1, <2>2 DEF Chat!RequestInsert, ChatGrows
<1>8. Acceptances'
  <2>1. \A i \in DOMAIN request' : i \in DOMAIN request \/ i = Len(request) + 1
    BY <1>5
  <2>2. Acceptances /\ accepted' = accepted
    BY DEF ChatInv, Chat!RequestInsert
  <2> QED BY <1>3, <1>5, <2>1, <2>2 DEF Acceptances
<1>9. Chat!Idle.op # "send" /\ Writes(Chat!Idle, Holder[d])'
  BY DEF Writes, Chat!Idle
<1> QED BY <1>6, <1>7, <1>8, <1>9, ChatKept DEF Chat!RequestInsert

LEMMA SwitchPurgeKept ==
  ASSUME ChatAssumption, ChatInv, NEW d \in Devices, Chat!SwitchPurge(d)
  PROVE  ChatInv'
<1>1. PICK hit : hit = {i \in DOMAIN request : /\ work[d].notify # {}
                                               /\ request[i].ride = work[d].from
                                               /\ request[i].status = "PENDING"}
  OBVIOUS
<1>2. request \in Seq(Chat!RequestType) /\ Len(request) <= MaxRows
  BY DEF ChatInv, ChatTypes
<1>3. PICK new : new = Restamp(request, hit, "DELETED")
  OBVIOUS
<1>4. request' = new
  BY <1>1, <1>3 DEF Chat!SwitchPurge, Restamp
<1>s. "DELETED" \in Statuses
  BY DEF Statuses
<1>5. /\ new \in Seq(Chat!RequestType) /\ Len(new) = Len(request) /\ DOMAIN new = DOMAIN request
      /\ \A i \in DOMAIN request :
           /\ new[i].user = request[i].user /\ new[i].ride = request[i].ride
           /\ new[i].status = IF i \in hit THEN "DELETED" ELSE request[i].status
  BY <1>2, <1>3, <1>s, Restamped
<1>6. /\ ride' = ride /\ accepted' = accepted /\ message' = message /\ receipt' = receipt
  BY DEF Chat!SwitchPurge
<1>7. ChatGrows /\ Acceptances'
  BY <1>4, <1>5, <1>6 DEF ChatGrows, ChatInv, Acceptances
<1>r. PICK r \in Rides : r = work[d].ride
  BY DEF Chat!SwitchPurge, ChatInv, CallsWrite, Writes
<1>w. PICK w : w = [op |-> "switched", ride |-> r] /\ work' = [work EXCEPT ![d] = w]
  BY <1>r DEF Chat!SwitchPurge
<1>8. w.op # "send" /\ Writes(w, Holder[d])'
  BY <1>w DEF Writes
<1>9. ChatTypes'
  BY <1>2, <1>4, <1>5, <1>6, <1>w DEF ChatInv, ChatTypes
<1> QED BY <1>6, <1>7, <1>8, <1>9, <1>w, ChatKept

LEMMA DecideWriteKept ==
  ASSUME ChatAssumption, ChatInv, NEW d \in Devices, Chat!DecideWrite(d)
  PROVE  ChatInv'
<1>0. /\ work[d].op = "decide" /\ Writes(work[d], Holder[d])
      /\ ride' = ride /\ message' = message /\ receipt' = receipt
      /\ work' = [work EXCEPT ![d] = Chat!Idle]
  BY DEF Chat!DecideWrite, ChatInv, CallsWrite
<1>1. PICK row \in DOMAIN request, s \in {"ACCEPTED", "DECLINED", "LEFT", "REMOVED"} :
        /\ row = work[d].row /\ s = work[d].status
        /\ s \in {"LEFT", "REMOVED"} => <<request[row].user, request[row].ride>> \in accepted
  BY <1>0 DEF Writes
<1>2. request \in Seq(Chat!RequestType) /\ Len(request) <= MaxRows
  BY DEF ChatInv, ChatTypes
<1>3. PICK new : new = Restamp(request, {row}, s)
  OBVIOUS
<1>4. request' = new
  <2>1. request' = [request EXCEPT ![row].status = s]
    BY <1>1 DEF Chat!DecideWrite
  <2>2. request = [i \in DOMAIN request |-> request[i]]
    BY <1>2
  <2> QED BY <1>3, <2>1, <2>2 DEF Restamp
<1>s. s \in Statuses
  BY DEF Statuses
<1>5. /\ new \in Seq(Chat!RequestType) /\ Len(new) = Len(request) /\ DOMAIN new = DOMAIN request
      /\ \A i \in DOMAIN request :
           /\ new[i].user = request[i].user /\ new[i].ride = request[i].ride
           /\ new[i].status = IF i \in {row} THEN s ELSE request[i].status
  BY <1>2, <1>3, <1>s, Restamped
<1>6. accepted' = IF s = "ACCEPTED"
                  THEN accepted \cup {<<request[row].user, request[row].ride>>} ELSE accepted
  BY <1>1 DEF Chat!DecideWrite
<1>7. ChatGrows
  BY <1>0, <1>4, <1>5, <1>6 DEF ChatGrows
<1>8. Acceptances'
  BY <1>1, <1>4, <1>5, <1>6, SMTT(30) DEF ChatInv, Acceptances
<1>9. accepted' \subseteq Users \X Rides
  <2>1. request[row] \in Chat!RequestType /\ accepted \subseteq Users \X Rides
    BY <1>2 DEF ChatInv, ChatTypes
  <2>2. request[row].user \in Users /\ request[row].ride \in Rides
    BY <2>1 DEF Chat!RequestType
  <2> QED BY <1>6, <2>1, <2>2
<1>10. ChatTypes'
  BY <1>0, <1>2, <1>4, <1>5, <1>9 DEF ChatInv, ChatTypes
<1>11. Chat!Idle.op # "send" /\ Writes(Chat!Idle, Holder[d])'
  BY DEF Writes, Chat!Idle
<1> QED BY <1>0, <1>7, <1>8, <1>10, <1>11, ChatKept

(* A member takes the lock for a key that names no message.                   *)
LEMMA SendReadKept ==
  ASSUME ChatAssumption, ChatInv, NEW d \in Devices, NEW r \in Rides, NEW k \in Keys,
         NEW c \in Contents, Chat!SendRead(d, r, k, c)
  PROVE  ChatInv'
<1>w. PICK w : /\ w = [op |-> "send", ride |-> r, key |-> k, content |-> c]
               /\ work' = [work EXCEPT ![d] = w]
  BY DEF Chat!SendRead
<1>1. w.op = "send" /\ w.ride = r /\ w.key = k /\ w.content = c
  BY <1>w
<1>2. /\ ride' = ride /\ request' = request /\ message' = message
      /\ receipt' = receipt /\ accepted' = accepted
  BY DEF Chat!SendRead
<1>3. \A f \in Devices : work'[f] = IF f = d THEN w ELSE work[f]
  BY <1>w DEF ChatInv, ChatTypes
<1>4. Member(Holder[d], r)
  <2>1. Chat!Exists(r) /\ Chat!isParticipant(Holder[d], r)
    BY DEF Chat!SendRead, Chat!MaySend
  <2>2. ASSUME NEW i \in Chat!AcceptedRows(r), request[i].user = Holder[d]
        PROVE  <<Holder[d], r>> \in accepted
    BY <2>2 DEF Chat!AcceptedRows, ChatInv, Acceptances
  <2> QED BY <2>1, <2>2 DEF Member, Chat!Exists, Chat!isParticipant
<1>5. Writes(w, Holder[d])
  BY <1>1, <1>4 DEF Writes
<1>6. CallsWrite'
  <2> SUFFICES ASSUME NEW f \in Devices
               PROVE  Writes(work[f], Holder[f])'
    BY DEF CallsWrite
  <2>1. Writes(work'[f], Holder[f])
    BY <1>3, <1>5 DEF ChatInv, CallsWrite
  <2> QED BY <1>2, <2>1 DEF Writes, Member
<1>7. OneSend'
  <2>1. \A f \in Devices : f # d =>
          ~ (work[f].op = "send" /\ Holder[f] = Holder[d] /\ work[f].ride = r /\ work[f].key = k)
    BY DEF Chat!SendRead, Chat!LockFree
  <2> QED BY <1>1, <1>3, <2>1 DEF ChatInv, OneSend
<1>8. Unsent'
  <2>1. \A i \in DOMAIN message :
          ~ (message[i].sender = Holder[d] /\ message[i].ride = r /\ message[i].key = k)
    BY DEF Chat!SendRead, Chat!Sent
  <2> QED BY <1>1, <1>2, <1>3, <2>1 DEF ChatInv, Unsent
<1>9. ChatTypes' /\ Acceptances' /\ Spoken' /\ Chat!OneMessagePerKey'
  BY <1>2, <1>w DEF ChatInv, ChatTypes, Acceptances, Spoken, Member, Chat!OneMessagePerKey
<1> QED BY <1>6, <1>7, <1>8, <1>9 DEF ChatInv

(* The message is saved, and its sender told or not.                          *)
LEMMA SendCommitKept ==
  ASSUME ChatAssumption, ChatInv, NEW d \in Devices, Chat!SendCommit(d)
  PROVE  ChatInv'
<1>1. PICK u \in Users, r \in Rides, k \in Keys, c \in Contents :
        /\ u = Holder[d] /\ r = work[d].ride /\ k = work[d].key /\ c = work[d].content
        /\ work[d].op = "send" /\ Member(u, r)
  BY DEF Chat!SendCommit, ChatInv, CallsWrite, Writes, ChatAssumption
<1>m. PICK m : m = [sender |-> u, ride |-> r, key |-> k, content |-> c]
  OBVIOUS
<1>2. /\ m \in Chat!MessageType
      /\ m.sender = u /\ m.ride = r /\ m.key = k /\ m.content = c
  BY <1>m DEF Chat!MessageType
<1>3. /\ ride' = ride /\ request' = request /\ accepted' = accepted
      /\ message' = Append(message, m) /\ Len(message) < MaxMessages
      /\ (receipt' = receipt \cup {m} \/ receipt' = receipt)
      /\ work' = [work EXCEPT ![d] = Chat!Idle]
  BY <1>1, <1>m DEF Chat!SendCommit
<1>4. /\ message \in Seq(Chat!MessageType) /\ MaxMessages \in Nat
      /\ \A i \in DOMAIN message : message[i] \in Chat!MessageType
  BY DEF ChatInv, ChatTypes, ChatAssumption
<1>5. /\ message' \in Seq(Chat!MessageType) /\ Len(message') <= MaxMessages
      /\ \A i \in DOMAIN message : i \in DOMAIN message' /\ message'[i] = message[i]
      /\ Len(message) + 1 \in DOMAIN message' /\ message'[Len(message) + 1] = m
      /\ \A i \in DOMAIN message' : i \in DOMAIN message \/ i = Len(message) + 1
  BY <1>2, <1>3, <1>4
<1>6. \A f \in Devices : work'[f] = IF f = d THEN Chat!Idle ELSE work[f]
  BY <1>3 DEF ChatInv, ChatTypes
<1>i. Chat!Idle.op = "idle"
  BY DEF Chat!Idle
<1>7. ChatTypes'
  BY <1>2, <1>3, <1>5 DEF ChatInv, ChatTypes
<1>8. CallsWrite'
  <2> SUFFICES ASSUME NEW f \in Devices
               PROVE  Writes(work[f], Holder[f])'
    BY DEF CallsWrite
  <2>1. Writes(Chat!Idle, Holder[f])
    BY <1>i DEF Writes
  <2>2. Writes(work'[f], Holder[f])
    BY <1>6, <2>1 DEF ChatInv, CallsWrite
  <2> QED BY <1>3, <2>2 DEF Writes, Member
<1>9. Acceptances'
  BY <1>3 DEF ChatInv, Acceptances
<1>10. OneSend'
  BY <1>6, <1>i DEF ChatInv, OneSend
<1>11. Unsent'
  <2> SUFFICES ASSUME NEW f \in Devices, NEW i \in DOMAIN message', work'[f].op = "send",
                      message'[i].sender = Holder[f],
                      message'[i].ride = work'[f].ride, message'[i].key = work'[f].key
               PROVE  FALSE
    BY DEF Unsent
  <2>1. f # d /\ work'[f] = work[f]
    BY <1>6, <1>i
  <2>2. CASE i \in DOMAIN message
    BY <1>5, <2>1, <2>2 DEF ChatInv, Unsent
  <2>3. CASE i = Len(message) + 1
    BY <1>1, <1>2, <1>5, <2>1, <2>3 DEF ChatInv, OneSend
  <2> QED BY <1>5, <2>2, <2>3
<1>12. Spoken'
  <2> SUFFICES ASSUME NEW i \in DOMAIN message'
               PROVE  Member(message'[i].sender, message'[i].ride)
    BY <1>3 DEF Spoken, Member
  <2>1. CASE i \in DOMAIN message
    BY <1>5, <2>1 DEF ChatInv, Spoken
  <2>2. CASE i = Len(message) + 1
    BY <1>1, <1>2, <1>5, <2>2
  <2> QED BY <1>5, <2>1, <2>2
<1>13. Chat!OneMessagePerKey'
  <2>1. \A i \in DOMAIN message :
          ~ (message[i].sender = u /\ message[i].ride = r /\ message[i].key = k)
    BY <1>1 DEF ChatInv, Unsent
  <2>2. ASSUME NEW i \in DOMAIN message', NEW j \in DOMAIN message',
               message'[i].sender = message'[j].sender,
               message'[i].ride = message'[j].ride, message'[i].key = message'[j].key
        PROVE  i = j
    <3>1. CASE i \in DOMAIN message /\ j \in DOMAIN message
      BY <1>5, <2>2, <3>1 DEF ChatInv, Chat!OneMessagePerKey
    <3>2. CASE i \in DOMAIN message /\ j = Len(message) + 1
      BY <1>2, <1>5, <2>1, <2>2, <3>2
    <3>3. CASE i = Len(message) + 1 /\ j \in DOMAIN message
      BY <1>2, <1>5, <2>1, <2>2, <3>3
    <3>4. CASE i = Len(message) + 1 /\ j = Len(message) + 1
      BY <3>4
    <3> QED BY <1>5, <3>1, <3>2, <3>3, <3>4
  <2>3. \A x \in receipt' : \E i \in DOMAIN message' : message'[i] = x
    <3>1. \A x \in receipt : \E i \in DOMAIN message' : message'[i] = x
      BY <1>5 DEF ChatInv, Chat!OneMessagePerKey
    <3> QED BY <1>3, <1>5, <3>1
  <2> QED BY <2>2, <2>3 DEF Chat!OneMessagePerKey
<1> QED BY <1>7, <1>8, <1>9, <1>10, <1>11, <1>12, <1>13 DEF ChatInv

(* A retry is answered with what was saved.                                   *)
LEMMA SendAgainKept ==
  ASSUME ChatAssumption, ChatInv, NEW d \in Devices, NEW r \in Rides, NEW k \in Keys,
         NEW c \in Contents, Chat!SendAgain(d, r, k, c)
  PROVE  ChatInv'
<1>m. PICK m : m = [sender |-> Holder[d], ride |-> r, key |-> k, content |-> c]
  OBVIOUS
<1>1. /\ ride' = ride /\ request' = request /\ message' = message /\ accepted' = accepted
      /\ work' = work /\ receipt' = receipt \cup {m}
  BY <1>m DEF Chat!SendAgain
<1>2. PICK i \in DOMAIN message : /\ message[i].sender = Holder[d] /\ message[i].ride = r
                                  /\ message[i].key = k /\ message[i].content = c
  BY DEF Chat!SendAgain, Chat!Sent, Chat!Confirms
<1>3. message[i] \in Chat!MessageType
  BY DEF ChatInv, ChatTypes
<1>4. message[i] = m
  BY <1>2, <1>3, <1>m DEF Chat!MessageType
<1>5. ChatTypes'
  BY <1>1, <1>3, <1>4 DEF ChatInv, ChatTypes
<1>6. Chat!OneMessagePerKey'
  BY <1>1, <1>4 DEF ChatInv, Chat!OneMessagePerKey
<1>7. CallsWrite' /\ Acceptances' /\ OneSend' /\ Unsent' /\ Spoken'
  BY <1>1 DEF ChatInv, CallsWrite, Writes, Acceptances, OneSend, Unsent, Spoken, Member
<1> QED BY <1>5, <1>6, <1>7 DEF ChatInv

LEMMA ChatInit == ChatAssumption /\ Chat!Init => ChatInv
<1> SUFFICES ASSUME ChatAssumption, Chat!Init
             PROVE  ChatInv
  OBVIOUS
<1>1. ChatTypes
  BY DEF Chat!Init, ChatTypes, ChatAssumption
<1>2. \A d \in Devices : work[d].op = "idle"
  BY DEF Chat!Init, Chat!Idle
<1>3. CallsWrite /\ OneSend
  BY <1>2 DEF CallsWrite, Writes, OneSend
<1>4. DOMAIN message = {} /\ DOMAIN request = {} /\ receipt = {}
  BY DEF Chat!Init
<1>5. Acceptances /\ Unsent /\ Spoken /\ Chat!OneMessagePerKey
  BY <1>4 DEF Acceptances, Unsent, Spoken, Chat!OneMessagePerKey
<1> QED BY <1>1, <1>3, <1>5 DEF ChatInv

LEMMA ChatStep ==
  ASSUME ChatAssumption, ChatInv, [Chat!Next]_(Chat!vars)
  PROVE  ChatInv'
<1>1. CASE UNCHANGED Chat!vars
  BY <1>1 DEF Chat!vars, ChatInv, ChatTypes, CallsWrite, Writes, Acceptances, OneSend, Unsent,
              Spoken, Member, Chat!OneMessagePerKey
<1>2. ASSUME NEW d \in Devices, NEW r \in Rides, Chat!Remove(d, r)
      PROVE  ChatInv'
  BY <1>1, <1>2 DEF Chat!Remove
<1>3. ASSUME NEW d \in Devices,
             \/ \E e \in Events \cup {NoEvent}, t \in Times : Chat!CreateRead(d, e, t)
             \/ Chat!CreateNext(d) \/ Chat!CreateInsert(d)
      PROVE  ChatInv'
  BY <1>3, ReadsKept, CreateNextKept, CreateInsertKept
<1>4. ASSUME NEW d \in Devices, NEW r \in Rides,
             \/ \E t \in Times : Chat!UpdateRead(d, r, t)
             \/ Chat!RequestRead(d, r)
             \/ \E c \in Rides : Chat!SwitchCancel(d, c, r)
      PROVE  ChatInv'
  BY <1>4, ReadsKept, SwitchCancelKept
<1>5. ASSUME NEW d \in Devices, NEW r \in Rides, NEW k \in Keys, NEW c \in Contents,
             Chat!SendRead(d, r, k, c) \/ Chat!SendAgain(d, r, k, c)
      PROVE  ChatInv'
  BY <1>5, SendReadKept, SendAgainKept
<1>6. ASSUME NEW d \in Devices,
             \/ Chat!UpdateWrite(d) \/ Chat!RequestInsert(d) \/ Chat!SwitchPurge(d)
             \/ Chat!DecideWrite(d) \/ Chat!SendCommit(d) \/ Chat!Abandon(d)
      PROVE  ChatInv'
  BY <1>6, UpdateWriteKept, RequestInsertKept, SwitchPurgeKept, DecideWriteKept, SendCommitKept,
     ReadsKept
<1>7. ASSUME NEW d \in Devices, NEW i \in DOMAIN request,
             \/ \E action \in {"ACCEPTED", "DECLINED"} : Chat!respondToRequest(d, i, action)
             \/ Chat!leaveRide(d, i) \/ Chat!removePassenger(d, i)
             \/ Chat!CreateCancel(d, i)
      PROVE  ChatInv'
  BY <1>7, DecidesKept, CreateCancelKept
<1> QED BY <1>1, <1>2, <1>3, <1>4, <1>5, <1>6, <1>7, ExpiryKept DEF Chat!Next

LEMMA ChatInvariant == ChatAssumption /\ Chat!Spec => []ChatInv
<1>1. CASE ChatAssumption
  <2>1. Chat!Init => ChatInv
    BY <1>1, ChatInit
  <2>2. ChatInv /\ [Chat!Next]_(Chat!vars) => ChatInv'
    BY <1>1, ChatStep
  <2> QED BY <2>1, <2>2, PTL DEF Chat!Spec
<1> QED BY <1>1

(* Every variable of the rides and their chat keeps its type.                 *)
THEOREM ChatTyped == ChatAssumption /\ Chat!Spec => []Chat!TypeOK
<1>1. ChatInv => Chat!TypeOK
  BY DEF ChatInv, ChatTypes, Chat!TypeOK
<1> QED BY <1>1, ChatInvariant, PTL

(* However many devices a sender has and however often each retries, a key    *)
(* names one message of a ride, and every receipt names what is saved.        *)
THEOREM KeysNameOneMessage == ChatAssumption /\ Chat!Spec => []Chat!OneMessagePerKey
<1>1. ChatInv => Chat!OneMessagePerKey
  BY DEF ChatInv
<1> QED BY <1>1, ChatInvariant, PTL

(* Whoever has written in a ride's chat drives the ride or was accepted into  *)
(* it by its driver, though the membership is read before the message is      *)
(* saved and changes without a lock.                                          *)
THEOREM MembersSpeak == ChatAssumption /\ Chat!Spec => []Chat!OnlyMembersSpeak
<1>1. ChatInv => Chat!OnlyMembersSpeak
  BY DEF ChatInv, Spoken, Member, Chat!OnlyMembersSpeak
<1> QED BY <1>1, ChatInvariant, PTL

(* Whoever was removed from a ride, or left it, had been accepted into it,    *)
(* though the status writes race.                                             *)
THEOREM RemovalFollowsAcceptance == ChatAssumption /\ Chat!Spec => []Chat!RemovedWasAccepted
<1>1. ChatInv => Chat!RemovedWasAccepted
  BY DEF ChatInv, Acceptances, Chat!RemovedWasAccepted
<1> QED BY <1>1, ChatInvariant, PTL

(* Carpool's count is the library's.                                          *)
LEMMA CountsAgree == ASSUME NEW S PROVE Chat!Cardinality(S) = Cardinality(S)
BY DEF Chat!Cardinality, Cardinality

(* However requests, answers, removals and cancellations overwrite each other,*)
(* whoever is let into a ride's chat, or is shown the ride in the tray, drives*)
(* it or was accepted into it by its driver.                                  *)
THEOREM ChatAdmitsMembers == ChatAssumption /\ Chat!Spec => []Chat!ViewsAdmitMembers
<1>1. ChatInv => Chat!ViewsAdmitMembers
  <2> SUFFICES ASSUME ChatInv, NEW u \in Users, NEW r \in Rides,
                      \/ Chat!getCarpoolChatAccess(u, r) \/ Chat!validateCarpoolAccess(u, r)
                      \/ Chat!MaySend(u, r) \/ r \in Chat!getConversationTray(u)
               PROVE  ride[r].driver = u \/ <<u, r>> \in accepted
    BY Zenon DEF Chat!ViewsAdmitMembers
  <2>1. ASSUME NEW i \in Chat!AcceptedRows(r), request[i].user = u
        PROVE  <<u, r>> \in accepted
    BY <2>1 DEF ChatInv, Acceptances, Chat!AcceptedRows
  <2>2. ASSUME Chat!Cardinality({i \in Chat!AcceptedRows(r) : request[i].user = u}) > 0
        PROVE  \E i \in Chat!AcceptedRows(r) : request[i].user = u
    <3> SUFFICES ASSUME {i \in Chat!AcceptedRows(r) : request[i].user = u} = {}
                 PROVE  FALSE
      OBVIOUS
    <3> QED BY <2>2, FS_EmptySet, CountsAgree
  <2>3. ride[r].driver = u \/ \E i \in Chat!AcceptedRows(r) : request[i].user = u
    BY <2>2, Zenon DEF Chat!getCarpoolChatAccess, Chat!isCarpoolMember, Chat!validateCarpoolAccess,
       Chat!MaySend, Chat!isParticipant, Chat!getConversationTray
  <2> QED BY <2>1, <2>3
<1> QED BY <1>1, ChatInvariant, PTL

-----------------------------------------------------------------------------
(***************************************************************************)
(* The life of event rows, for any events, edits in flight and servers:    *)
(* their pictures, uploaded and deleted behind the edits, and the mails to *)
(* their supporters.                                                       *)
(***************************************************************************)
CONSTANTS
  Supporters, Calls, Servers, Repeats,
  Retries, MaxFiles, MaxVersion, MaxNight  \* as in Events

VARIABLES
  night, happening, files, stored, donated, late, mail, unseen, task  \* as in Events

Life == INSTANCE Events WITH event <- happening, work <- task

LifeAssumption ==
  /\ None \notin Nat /\ Repeats \subseteq {"NONE", "DAILY"}
  /\ MaxFiles \in Nat /\ MaxVersion \in Nat /\ MaxNight \in Nat

Images == 1..MaxFiles \cup {None}
EventRow ==
  [version : 0..MaxVersion, end : 0..MaxNight + 1, repeat : {"NONE", "DAILY"},
   image : Images, processing : BOOLEAN, mapSent : BOOLEAN, shared : BOOLEAN]
Workers == Calls \cup Servers
Listed(e) == e \in Events /\ happening[e] # None

(* What a request, an upload or a job has read.                               *)
Uploads == {"upload", "stored", "saved"}
Read(w) ==
  /\ w.op \in {"shown", "edit", "map", "mark"} \cup Uploads => w.event \in Events
  /\ w.op = "edit" => w.loaded \in EventRow /\ w.file \in BOOLEAN
  /\ w.op \in Uploads => w.old \in Images
  /\ w.op \in {"stored", "saved"} => w.file \in 1..stored
  /\ w.op = "saved" => w.old # None
  /\ w.op = "stored" => w = [op |-> "stored", event |-> w.event, old |-> w.old,
                             attempt |-> w.attempt, file |-> w.file]
  /\ w.op = "map" => w = [op |-> "map", event |-> w.event]
  /\ w.op = "copy" => w = [op |-> "copy", rows |-> w.rows]
  /\ w.op = "copy" =>
       /\ DOMAIN w.rows \subseteq Events
       /\ \A e \in DOMAIN w.rows : w.rows[e] \in EventRow /\ w.rows[e].end <= MaxNight

LifeTypes ==
  /\ night \in 0..MaxNight /\ stored \in 0..MaxFiles /\ files \subseteq 1..stored
  /\ happening \in [Events -> EventRow \cup {None}]
  /\ late \subseteq donated /\ donated \subseteq Life!Pairs
  /\ mail \in [Life!Pairs -> 0..1] /\ unseen \in BOOLEAN
  /\ task = [c \in Workers |-> task[c]]
  /\ \A c \in Workers : Read(task[c])

(* A picture that some work took from the row of e and will write or delete. *)
Holds(w, e, f) ==
  \/ w.op = "edit" /\ w.event = e /\ w.loaded.image = f
  \/ w.op \in Uploads /\ w.event = e /\ w.old = f
  \/ w.op = "copy" /\ e \in DOMAIN w.rows /\ w.rows[e].image = f

(* Only stored pictures are named; a picture that is stored but in no row yet *)
(* is known to its upload alone.                                              *)
Known ==
  /\ \A e \in Events : Listed(e) => happening[e].image \in 1..stored \cup {None}
  /\ \A c \in Workers, e \in Events : \A f : Holds(task[c], e, f) => f \in 1..stored \cup {None}
Fresh ==
  \A c \in Workers : task[c].op = "stored" =>
    /\ task[c].file \in files
    /\ \A e \in Events : Listed(e) => happening[e].image # task[c].file
    /\ \A b \in Workers, e \in Events : ~ Holds(task[b], e, task[c].file)
    /\ \A b \in Workers : task[b].op = "stored" /\ task[b].file = task[c].file => b = c

(* Whatever names the picture of another row has been copied from it; and the *)
(* picture an upload may delete is in no row but shared ones.                 *)
RowsApart ==
  \A d, e \in Events :
    Listed(d) /\ Listed(e) /\ d # e /\ happening[d].image = happening[e].image =>
      happening[d].image = None \/ happening[d].shared
HoldsApart ==
  \A c \in Workers, d, e \in Events :
    Listed(d) /\ d # e /\ Holds(task[c], e, happening[d].image) =>
      happening[d].image = None \/ happening[d].shared
Replaced ==
  \A c \in Workers, d \in Events :
    task[c].op = "saved" /\ Listed(d) /\ happening[d].image = task[c].old => happening[d].shared

Pictures == Known /\ Fresh /\ RowsApart /\ HoldsApart /\ Replaced /\ Life!ImageExists

(* Once all the mails are queued, whoever is not late has one.                *)
Marked ==
  \A s \in Servers : task[s].op = "mark" =>
    \A p \in donated \ late : p[1] = task[s].event => mail[p] = 1
Mails == Marked /\ Life!SupportersAreMailed

LifeInv == LifeTypes /\ Pictures /\ Mails /\ ~ unseen

-----------------------------------------------------------------------------
(* Steps that bring no picture into a row and delete none.                    *)
LEMMA PicturesKept ==
  ASSUME LifeAssumption, LifeTypes, Pictures, files' = files, stored' = stored,
         \A e \in Events : Listed(e)' =>
           \/ happening'[e].image = None
           \/ /\ Listed(e) /\ happening'[e].image = happening[e].image
              /\ happening[e].shared => happening'[e].shared,
         \A c \in Workers : task'[c].op \in {"stored", "saved"} => task'[c] = task[c],
         \A c \in Workers, e \in Events : \A f : Holds(task'[c], e, f) =>
           \/ f = None
           \/ Listed(e) /\ happening[e].image = f
           \/ \E b \in Workers : Holds(task[b], e, f)
  PROVE  Pictures'
<1>1. \A c \in Workers : /\ Read(task[c])
                         /\ task[c].op = "stored" => task[c].file \in 1..stored /\ task[c].file # None
  BY DEF LifeTypes, Read, LifeAssumption
<1>2. Known'
  <2>1. \A e \in Events : Listed(e)' => happening'[e].image \in 1..stored \cup {None}
    BY DEF Pictures, Known
  <2>2. \A c \in Workers, e \in Events : \A f : Holds(task'[c], e, f) => f \in 1..stored \cup {None}
    BY DEF Pictures, Known
  <2> QED BY <2>1, <2>2 DEF Known, Holds
<1>3. Fresh'
  <2> SUFFICES ASSUME NEW c \in Workers, task'[c].op = "stored"
               PROVE  /\ task'[c].file \in files'
                      /\ \A e \in Events : Listed(e)' => happening'[e].image # task'[c].file
                      /\ \A b \in Workers, e \in Events : ~ Holds(task'[b], e, task'[c].file)
                      /\ \A b \in Workers : task'[b].op = "stored" /\ task'[b].file = task'[c].file
                           => b = c
    BY DEF Fresh, Holds
  <2>f. PICK f : f = task[c].file
    OBVIOUS
  <2>1. task'[c] = task[c] /\ f # None /\ task[c].op = "stored"
    BY <1>1, <2>f
  <2>2. /\ f \in files
        /\ \A e \in Events : Listed(e) => happening[e].image # f
        /\ \A b \in Workers, e \in Events : ~ Holds(task[b], e, f)
        /\ \A b \in Workers : task[b].op = "stored" /\ task[b].file = f => b = c
    BY <2>1, <2>f DEF Pictures, Fresh
  <2>3. \A e \in Events : Listed(e)' => happening'[e].image # f
    BY <2>1, <2>2
  <2>4. \A b \in Workers, e \in Events : ~ Holds(task'[b], e, f)
    BY <2>1, <2>2
  <2>5. \A b \in Workers : task'[b].op = "stored" /\ task'[b].file = f => b = c
    BY <2>2
  <2> QED BY <2>1, <2>2, <2>3, <2>4, <2>5, <2>f
<1>4. \A e \in Events : Listed(e)' /\ happening'[e].image # None =>
        /\ Listed(e) /\ happening'[e].image = happening[e].image
        /\ happening[e].shared => happening'[e].shared
  OBVIOUS
<1>5. RowsApart'
  BY <1>4 DEF Pictures, RowsApart
<1>6. HoldsApart'
  <2> SUFFICES ASSUME NEW c \in Workers, NEW d \in Events, NEW e \in Events, Listed(d)', d # e,
                      Holds(task'[c], e, happening'[d].image), happening'[d].image # None
               PROVE  happening'[d].shared
    BY DEF HoldsApart, Holds
  <2>f. PICK f : f = happening[d].image
    OBVIOUS
  <2>1. Listed(d) /\ happening'[d].image = f /\ f # None /\ (happening[d].shared => happening'[d].shared)
    BY <1>4, <2>f
  <2>2. \/ Listed(e) /\ happening[e].image = f
        \/ \E b \in Workers : Holds(task[b], e, f)
    BY <2>1
  <2> QED BY <2>1, <2>2, <2>f DEF Pictures, RowsApart, HoldsApart
<1>7. Replaced'
  <2> SUFFICES ASSUME NEW c \in Workers, NEW d \in Events, task'[c].op = "saved", Listed(d)',
                      happening'[d].image = task'[c].old
               PROVE  happening'[d].shared
    BY DEF Replaced
  <2>1. task'[c] = task[c] /\ task[c].old # None
    BY <1>1 DEF Read
  <2> QED BY <1>4, <2>1 DEF Pictures, Replaced
<1>8. Life!ImageExists'
  BY <1>4 DEF Pictures, Life!ImageExists, Life!Rows, Listed
<1> QED BY <1>2, <1>3, <1>5, <1>6, <1>7, <1>8 DEF Pictures

LEMMA TasksRead ==
  ASSUME LifeTypes, stored' \in Nat, stored <= stored',
         NEW c \in Workers, NEW w, task' = [task EXCEPT ![c] = w], Read(w)'
  PROVE  /\ task' = [b \in Workers |-> task'[b]]
         /\ \A b \in Workers : task'[b] = IF b = c THEN w ELSE task[b]
         /\ \A b \in Workers : Read(task[b])'
<1>1. task = [b \in Workers |-> task[b]] /\ \A b \in Workers : Read(task[b])
  BY DEF LifeTypes
<1>2. \A b \in Workers : task'[b] = IF b = c THEN w ELSE task[b]
  BY <1>1
<1>3. \A x : Read(x) => Read(x)'
  <2>1. stored \in Nat /\ 1..stored \subseteq 1..stored'
    BY DEF LifeTypes
  <2> QED BY <2>1 DEF Read
<1>4. ASSUME NEW b \in Workers PROVE Read(task[b])'
  <2>1. PICK x : x = task'[b]
    OBVIOUS
  <2>2. Read(x)'
    BY <1>1, <1>2, <1>3, <2>1
  <2> QED BY <2>1, <2>2 DEF Read
<1> QED BY <1>1, <1>2, <1>4

(* The mails stay settled while nothing is given, queued or marked.           *)
LEMMA MailsKept ==
  ASSUME LifeTypes, Mails, donated' = donated, late' = late, mail' = mail,
         \A e \in Events : Listed(e)' /\ happening'[e].mapSent => Listed(e) /\ happening[e].mapSent,
         \A s \in Servers : task'[s].op = "mark" => task'[s] = task[s]
  PROVE  Mails'
<1>1. \A p \in donated : p[1] \in Events
  BY DEF LifeTypes, Life!Pairs
<1>2. Marked'
  BY DEF Mails, Marked
<1>3. Life!SupportersAreMailed'
  BY <1>1 DEF Mails, Life!SupportersAreMailed, Listed
<1> QED BY <1>2, <1>3 DEF Mails

(* A request or a job reads, or gives up.                                     *)
LEMMA LifeQuiet ==
  ASSUME LifeAssumption, LifeInv, NEW c \in Workers, NEW w, task' = [task EXCEPT ![c] = w],
         Read(w), w.op \notin {"stored", "saved", "mark"},
         \A e \in Events : \A f : Holds(w, e, f) =>
           \/ f = None
           \/ Listed(e) /\ happening[e].image = f
           \/ Holds(task[c], e, f),
         night' = night, happening' = happening, files' = files, stored' = stored,
         donated' = donated, late' = late, mail' = mail, unseen' = unseen
  PROVE  LifeInv'
<1>1. LifeTypes /\ Pictures /\ Mails /\ ~ unseen
  BY DEF LifeInv
<1>2. stored' \in Nat /\ stored <= stored' /\ Read(w)'
  BY <1>1 DEF LifeTypes, Read
<1>3. /\ task' = [b \in Workers |-> task'[b]]
      /\ \A b \in Workers : task'[b] = IF b = c THEN w ELSE task[b]
      /\ \A b \in Workers : Read(task[b])'
  BY <1>1, <1>2, TasksRead
<1>4. LifeTypes'
  BY <1>1, <1>3 DEF LifeTypes
<1>5. \A e \in Events : Listed(e)' <=> Listed(e)
  BY DEF Listed
<1>6. Pictures'
  <2>1. \A e \in Events : Listed(e)' =>
           \/ happening'[e].image = None
           \/ /\ Listed(e) /\ happening'[e].image = happening[e].image
              /\ happening[e].shared => happening'[e].shared
    BY <1>5
  <2>2. \A b \in Workers : task'[b].op \in {"stored", "saved"} => task'[b] = task[b]
    BY <1>3
  <2>3. \A b \in Workers, e \in Events : \A f : Holds(task'[b], e, f) =>
           \/ f = None
           \/ Listed(e) /\ happening[e].image = f
           \/ \E a \in Workers : Holds(task[a], e, f)
    BY <1>3
  <2> QED BY <1>1, <2>1, <2>2, <2>3, PicturesKept
<1>7. Mails'
  <2>1. \A s \in Servers : task'[s].op = "mark" => task'[s] = task[s]
    BY <1>3 DEF Workers
  <2> QED BY <1>1, <1>5, <2>1, MailsKept
<1> QED BY <1>1, <1>4, <1>6, <1>7 DEF LifeInv

LEMMA LifeReads ==
  ASSUME LifeAssumption, LifeInv,
         \/ \E c \in Calls, e \in Events : Life!ShowEvent(c, e)
         \/ \E c \in Calls, e \in Events, file \in BOOLEAN : Life!update(c, e, file)
         \/ \E c \in Calls : Life!updateForDashboard(c)
         \/ \E s \in Servers, e \in Events : Life!sendImpactMapEmails(s, e)
         \/ \E s \in Servers : Life!ReadRecurring(s)
         \/ \E c \in Workers : Life!Abandon(c)
  PROVE  LifeInv'
<1>0. /\ night \in 0..MaxNight
      /\ \A e \in Events : Listed(e) => happening[e] \in EventRow
      /\ \A c \in Workers : Read(task[c])
  BY DEF LifeInv, LifeTypes, Listed
<1>1. ASSUME NEW c \in Calls, NEW e \in Events, Life!ShowEvent(c, e)
      PROVE  LifeInv'
  <2>w. PICK w : w = [op |-> "shown", event |-> e, version |-> happening[e].version]
    OBVIOUS
  <2>1. w.op = "shown" /\ w.event = e
    BY <2>w
  <2>2. Read(w) /\ (\A d, f : ~ Holds(w, d, f)) /\ w.op \notin {"stored", "saved", "mark"}
    BY <2>1 DEF Read, Holds, Uploads
  <2> QED BY <1>1, <2>w, <2>2, LifeQuiet DEF Life!ShowEvent, Workers
<1>2. ASSUME NEW c \in Calls, NEW e \in Events, NEW file \in BOOLEAN, NEW expected,
             Life!loadEventForUpdate(c, e, expected, file)
      PROVE  LifeInv'
  <2>w. PICK w : w = [op |-> "edit", event |-> e, expected |-> expected, loaded |-> happening[e],
                      file |-> file]
    OBVIOUS
  <2>1. /\ w.op = "edit" /\ w.event = e /\ w.loaded = happening[e] /\ w.file = file
        /\ Listed(e)
    BY <1>2, <2>w DEF Life!loadEventForUpdate, Listed
  <2>2. Read(w) /\ w.op \notin {"stored", "saved", "mark"}
    BY <1>0, <2>1 DEF Read, Uploads
  <2>3. \A d \in Events : \A f : Holds(w, d, f) => Listed(d) /\ happening[d].image = f
    BY <2>1 DEF Holds, Uploads
  <2>4. /\ c \in Workers /\ task' = [task EXCEPT ![c] = w]
        /\ night' = night /\ happening' = happening /\ files' = files /\ stored' = stored
        /\ donated' = donated /\ late' = late /\ mail' = mail /\ unseen' = unseen
    BY <1>2, <2>w DEF Life!loadEventForUpdate, Workers
  <2> QED BY <2>2, <2>3, <2>4, LifeQuiet
<1>3. ASSUME NEW c \in Calls, Life!updateForDashboard(c)
      PROVE  LifeInv'
  <2>1. task[c].event \in Events /\ FALSE \in BOOLEAN
    BY <1>0, <1>3 DEF Life!updateForDashboard, Read, Workers
  <2>e. PICK e \in Events : e = task[c].event
    BY <2>1
  <2>2. Life!loadEventForUpdate(c, e, task[c].version, FALSE)
    BY <1>3, <2>e DEF Life!updateForDashboard
  <2> QED BY <1>2, <2>1, <2>2
<1>4. ASSUME NEW s \in Servers, NEW e \in Events, Life!sendImpactMapEmails(s, e)
      PROVE  LifeInv'
  <2>w. PICK w : w = [op |-> "map", event |-> e]
    OBVIOUS
  <2>1. w.op = "map" /\ w.event = e /\ w = [op |-> "map", event |-> w.event]
    BY <2>w
  <2>2. Read(w) /\ (\A d, f : ~ Holds(w, d, f)) /\ w.op \notin {"stored", "saved", "mark"}
    BY <2>1 DEF Read, Holds, Uploads
  <2> QED BY <1>4, <2>w, <2>2, LifeQuiet DEF Life!sendImpactMapEmails, Workers
<1>5. ASSUME NEW s \in Servers, Life!ReadRecurring(s)
      PROVE  LifeInv'
  <2>d. PICK due : due = {e \in Life!Rows : happening[e].repeat # "NONE" /\ Life!Ended(happening[e])}
    OBVIOUS
  <2>w. PICK w : w = [op |-> "copy", rows |-> [e \in due |-> happening[e]]]
    OBVIOUS
  <2>1. /\ w.op = "copy" /\ DOMAIN w.rows = due
        /\ \A e \in due : w.rows[e] = happening[e]
    BY <2>w
  <2>2. due \subseteq Events /\ \A e \in due : Listed(e) /\ happening[e].end <= night
    BY <2>d DEF Life!Rows, Life!Ended, Listed
  <2>3. \A e \in due : happening[e].end <= MaxNight
    <3>1. \A e \in due : happening[e].end \in 0..MaxNight + 1
      BY <1>0, <2>2 DEF EventRow
    <3> QED BY <1>0, <2>2, <3>1 DEF LifeAssumption
  <2>s. w = [op |-> "copy", rows |-> w.rows]
    BY <2>w
  <2>4. Read(w) /\ w.op \notin {"stored", "saved", "mark"}
    BY <1>0, <2>1, <2>2, <2>3, <2>s DEF Read, Uploads
  <2>5. \A d \in Events : \A f : Holds(w, d, f) => Listed(d) /\ happening[d].image = f
    BY <2>1, <2>2 DEF Holds, Uploads
  <2>6. task' = [task EXCEPT ![s] = w]
    BY <1>5, <2>d, <2>w DEF Life!ReadRecurring
  <2> QED BY <1>5, <2>4, <2>5, <2>6, LifeQuiet DEF Life!ReadRecurring, Workers
<1>6. ASSUME NEW c \in Workers, Life!Abandon(c)
      PROVE  LifeInv'
  <2>w. PICK w : w = Life!Idle
    OBVIOUS
  <2>1. w.op = "idle"
    BY <2>w DEF Life!Idle
  <2>2. Read(w) /\ (\A d, f : ~ Holds(w, d, f)) /\ w.op \notin {"stored", "saved", "mark"}
    BY <2>1 DEF Read, Holds, Uploads
  <2> QED BY <1>6, <2>w, <2>2, LifeQuiet DEF Life!Abandon
<1> QED BY <1>1, <1>2, <1>3, <1>4, <1>5, <1>6 DEF Life!update

(* A row is written that brings no new picture.                               *)
LEMMA LifeRow ==
  ASSUME LifeAssumption, LifeInv, NEW e \in Events, NEW x \in EventRow \cup {None},
         happening' = [happening EXCEPT ![e] = x],
         x # None => \/ x.image = None
                     \/ /\ Listed(e) /\ x.image = happening[e].image
                        /\ happening[e].shared => x.shared,
         task' = [b \in Workers |-> task'[b]],
         \A b \in Workers :
           \/ task'[b] = task[b]
           \/ /\ Read(task'[b]) /\ task'[b].op \notin {"stored", "saved", "mark"}
              /\ \A d \in Events : \A f : Holds(task'[b], d, f) =>
                   \/ f = None
                   \/ Listed(d) /\ happening[d].image = f
                   \/ Holds(task[b], d, f),
         night' = night, files' = files, stored' = stored,
         donated' = donated, late' = late, mail' = mail, unseen' = unseen
  PROVE  /\ LifeTypes' /\ Pictures'
         /\ (x # None /\ x.mapSent => Listed(e) /\ happening[e].mapSent) => LifeInv'
<1>1. LifeTypes /\ Pictures /\ Mails /\ ~ unseen
  BY DEF LifeInv
<1>2. \A d \in Events : happening'[d] = IF d = e THEN x ELSE happening[d]
  BY <1>1 DEF LifeTypes
<1>3. \A b \in Workers : Read(task[b])'
  <2> SUFFICES ASSUME NEW b \in Workers PROVE Read(task[b])'
    OBVIOUS
  <2>1. PICK y : y = task'[b]
    OBVIOUS
  <2>2. Read(y)
    BY <1>1, <2>1 DEF LifeTypes
  <2> QED BY <2>1, <2>2 DEF Read
<1>4. LifeTypes'
  <2>1. happening' \in [Events -> EventRow \cup {None}]
    BY <1>1 DEF LifeTypes
  <2> QED BY <1>1, <1>3, <2>1 DEF LifeTypes
<1>5. Pictures'
  <2>1. \A d \in Events : Listed(d)' =>
           \/ happening'[d].image = None
           \/ /\ Listed(d) /\ happening'[d].image = happening[d].image
              /\ happening[d].shared => happening'[d].shared
    BY <1>2 DEF Listed
  <2>2. \A b \in Workers : task'[b].op \in {"stored", "saved"} => task'[b] = task[b]
    OBVIOUS
  <2>3. \A b \in Workers, d \in Events : \A f : Holds(task'[b], d, f) =>
           \/ f = None
           \/ Listed(d) /\ happening[d].image = f
           \/ \E a \in Workers : Holds(task[a], d, f)
    OBVIOUS
  <2> QED BY <1>1, <2>1, <2>2, <2>3, PicturesKept
<1>6. ASSUME x # None /\ x.mapSent => Listed(e) /\ happening[e].mapSent
      PROVE  LifeInv'
  <2>1. \A d \in Events : Listed(d)' /\ happening'[d].mapSent => Listed(d) /\ happening[d].mapSent
    BY <1>2, <1>6 DEF Listed
  <2>2. \A s \in Servers : task'[s].op = "mark" => task'[s] = task[s]
    BY DEF Workers
  <2>3. Mails'
    BY <1>1, <2>1, <2>2, MailsKept
  <2> QED BY <1>1, <1>4, <1>5, <2>3 DEF LifeInv
<1> QED BY <1>4, <1>5, <1>6

LEMMA LifeCreate ==
  ASSUME LifeAssumption, LifeInv, NEW c \in Calls, NEW e \in Events, NEW repeat \in Repeats,
         NEW file \in BOOLEAN, Life!create(c, e, repeat, file)
  PROVE  LifeInv'
<1>1. LifeTypes /\ happening[e] = None /\ c \in Workers
  BY DEF LifeInv, Life!create, Workers
<1>b. PICK no \in BOOLEAN : no = FALSE
  OBVIOUS
<1>x. PICK x : x = [version |-> 0, end |-> night, repeat |-> repeat, image |-> None,
                    processing |-> file, mapSent |-> no, shared |-> no]
  OBVIOUS
<1>2. x \in EventRow /\ x.image = None /\ x.mapSent = FALSE
  <2>1. /\ 0 \in 0..MaxVersion /\ night \in 0..MaxNight + 1 /\ repeat \in {"NONE", "DAILY"}
        /\ None \in Images
    BY <1>1 DEF LifeTypes, LifeAssumption, Images
  <2> QED BY <2>1, <1>x, <1>b DEF EventRow
<1>w. PICK w : w = IF file THEN Life!Upload(e, None) ELSE Life!Idle
  OBVIOUS
<1>3. /\ Read(w) /\ w.op \notin {"stored", "saved", "mark"}
      /\ \A d, f : Holds(w, d, f) => f = None
  BY <1>w DEF Read, Holds, Uploads, Life!Upload, Life!Idle, Images
<1>4. /\ happening' = [happening EXCEPT ![e] = x] /\ task' = [task EXCEPT ![c] = w]
      /\ night' = night /\ files' = files /\ stored' = stored
      /\ donated' = donated /\ late' = late /\ mail' = mail /\ unseen' = unseen
  BY <1>w, <1>x, <1>b DEF Life!create
<1>5. /\ task' = [b \in Workers |-> task'[b]]
      /\ \A b \in Workers : task'[b] = IF b = c THEN w ELSE task[b]
  BY <1>1, <1>4 DEF LifeTypes
<1> QED BY <1>2, <1>3, <1>4, <1>5, LifeRow

(* The edit names the version its user was shown, and the row still has it.   *)
LEMMA LifeUpdate ==
  ASSUME LifeAssumption, LifeInv, NEW c \in Calls, NEW end \in 0..MaxNight,
         Life!applyEventUpdate(c, end)
  PROVE  LifeInv'
<1>o. PICK old : old = task[c]
  OBVIOUS
<1>1. /\ LifeTypes /\ c \in Workers /\ Read(old) /\ old.op = "edit"
      /\ ~ unseen
  BY <1>o DEF LifeInv, LifeTypes, Life!applyEventUpdate, Workers
<1>e. PICK e \in Events : e = old.event
  BY <1>1 DEF Read
<1>r. PICK row : row = happening[e]
  OBVIOUS
<1>2. /\ row \in EventRow /\ Listed(e) /\ row.version < MaxVersion
      /\ old.loaded \in EventRow /\ old.file \in BOOLEAN
  BY <1>1, <1>e, <1>o, <1>r DEF Life!applyEventUpdate, LifeTypes, Listed, Read
<1>p. PICK busy \in BOOLEAN : busy = (row.processing \/ old.file)
  OBVIOUS
<1>x. PICK x : x = [row EXCEPT !.version = row.version + 1, !.end = end, !.processing = busy]
  OBVIOUS
<1>3. x \in EventRow /\ x.image = row.image /\ x.shared = row.shared /\ x.mapSent = row.mapSent
  <2>1. row.version + 1 \in 0..MaxVersion /\ end \in 0..MaxNight + 1
    BY <1>2 DEF EventRow, LifeAssumption
  <2> QED BY <1>2, <1>x, <2>1 DEF EventRow
<1>4. happening' = [happening EXCEPT ![e] = x]
  BY <1>e, <1>o, <1>p, <1>r, <1>x DEF Life!applyEventUpdate
<1>w. PICK w : w = IF old.file THEN Life!Upload(e, old.loaded.image) ELSE Life!Idle
  OBVIOUS
<1>5. task' = [task EXCEPT ![c] = w]
  BY <1>e, <1>o, <1>w DEF Life!applyEventUpdate
<1>6. Read(w) /\ w.op \notin {"stored", "saved", "mark"}
  <2>1. old.loaded.image \in Images
    BY <1>2 DEF EventRow
  <2> QED BY <1>w, <2>1 DEF Read, Uploads, Life!Upload, Life!Idle
<1>7. \A d \in Events : \A f : Holds(w, d, f) => Holds(task[c], d, f)
  BY <1>1, <1>e, <1>o, <1>w DEF Holds, Uploads, Life!Upload, Life!Idle
<1>8. unseen' = unseen
  BY <1>1, <1>e, <1>o, <1>r DEF Life!applyEventUpdate, Life!AsShown, LifeTypes
<1>9. /\ task' = [b \in Workers |-> task'[b]]
      /\ \A b \in Workers : task'[b] = IF b = c THEN w ELSE task[b]
  BY <1>1, <1>5 DEF LifeTypes
<1>10. /\ night' = night /\ files' = files /\ stored' = stored
       /\ donated' = donated /\ late' = late /\ mail' = mail
  BY DEF Life!applyEventUpdate
<1> QED BY <1>2, <1>3, <1>4, <1>6, <1>7, <1>8, <1>9, <1>10, <1>r, LifeRow

LEMMA LifeRemove ==
  ASSUME LifeAssumption, LifeInv, NEW e \in Events, Life!remove(e)
  PROVE  LifeInv'
<1>1. task' = [b \in Workers |-> task'[b]]
  BY DEF LifeInv, LifeTypes, Life!remove
<1>2. None \in EventRow \cup {None}
  OBVIOUS
<1> QED BY <1>1, <1>2, LifeRow DEF Life!remove

(* An attempt to upload ends: another begins, or the row says it is over.     *)
LEMMA LifeRetry ==
  ASSUME LifeAssumption, LifeInv, NEW c \in Calls, Life!RetryUpload(c)
  PROVE  LifeInv'
<1>o. PICK old : old = task[c]
  OBVIOUS
<1>1. LifeTypes /\ c \in Workers /\ Read(old) /\ old.op \in Uploads
  BY <1>o DEF LifeInv, LifeTypes, Life!RetryUpload, Workers, Uploads
<1>e. PICK e \in Events : e = old.event
  BY <1>1 DEF Read
<1>2. /\ night' = night /\ files' = files /\ stored' = stored
      /\ donated' = donated /\ late' = late /\ mail' = mail /\ unseen' = unseen
  BY DEF Life!RetryUpload
<1>i. /\ Life!Idle.op = "idle" /\ Read(Life!Idle) /\ \A d, f : ~ Holds(Life!Idle, d, f)
  BY DEF Life!Idle, Read, Holds, Uploads
<1>3. CASE happening' = happening
           /\ task' = [task EXCEPT ![c] =
                [Life!Upload(old.event, old.old) EXCEPT !.attempt = old.attempt + 1]]
  <2>w. PICK w : w = [Life!Upload(old.event, old.old) EXCEPT !.attempt = old.attempt + 1]
    OBVIOUS
  <2>1. w.op = "upload" /\ w.event = old.event /\ w.old = old.old
    BY <2>w DEF Life!Upload
  <2>2. Read(w) /\ w.op \notin {"stored", "saved", "mark"}
    BY <1>1, <2>1 DEF Read, Uploads
  <2>3. \A d \in Events : \A f : Holds(w, d, f) => Holds(task[c], d, f)
    BY <1>1, <1>o, <2>1 DEF Holds, Uploads
  <2> QED BY <1>1, <1>2, <1>3, <2>w, <2>2, <2>3, LifeQuiet
<1>4. CASE task' = [task EXCEPT ![c] = Life!Idle] /\ happening' = happening
  BY <1>1, <1>2, <1>4, <1>i, LifeQuiet
<1>5. CASE /\ task' = [task EXCEPT ![c] = Life!Idle] /\ Listed(e)
           /\ happening' = [happening EXCEPT ![e].processing = FALSE]
  <2>b. PICK no \in BOOLEAN : no = FALSE
    OBVIOUS
  <2>r. PICK row : row = happening[e]
    OBVIOUS
  <2>1. row \in EventRow
    BY <1>1, <1>5, <2>r DEF LifeTypes, Listed
  <2>x. PICK x : x = [row EXCEPT !.processing = no]
    OBVIOUS
  <2>2. x \in EventRow /\ x.image = row.image /\ x.shared = row.shared /\ x.mapSent = row.mapSent
    BY <2>1, <2>x DEF EventRow
  <2>3. happening' = [happening EXCEPT ![e] = x]
    BY <1>5, <2>b, <2>r, <2>x
  <2>4. /\ task' = [b \in Workers |-> task'[b]]
        /\ \A b \in Workers : task'[b] = IF b = c THEN Life!Idle ELSE task[b]
    BY <1>1, <1>5 DEF LifeTypes
  <2> QED BY <1>2, <1>5, <1>i, <2>2, <2>3, <2>4, <2>r, LifeRow
<1>6. \/ happening' = happening
         /\ task' = [task EXCEPT ![c] =
              [Life!Upload(old.event, old.old) EXCEPT !.attempt = old.attempt + 1]]
      \/ /\ task' = [task EXCEPT ![c] = Life!Idle]
         /\ \/ happening' = happening
            \/ Listed(e) /\ happening' = [happening EXCEPT ![e].processing = FALSE]
  BY <1>e, <1>o DEF Life!RetryUpload, Listed
<1> QED BY <1>3, <1>4, <1>5, <1>6

LEMMA LifeMark ==
  ASSUME LifeAssumption, LifeInv, NEW s \in Servers, Life!markImpactMapSent(s)
  PROVE  LifeInv'
<1>o. PICK old : old = task[s]
  OBVIOUS
<1>1. LifeTypes /\ s \in Workers /\ Read(old) /\ old.op = "mark" /\ Mails /\ ~ unseen
  BY <1>o DEF LifeInv, LifeTypes, Life!markImpactMapSent, Workers
<1>e. PICK e \in Events : e = old.event
  BY <1>1 DEF Read
<1>2. /\ night' = night /\ files' = files /\ stored' = stored
      /\ donated' = donated /\ late' = late /\ mail' = mail /\ unseen' = unseen
      /\ task' = [task EXCEPT ![s] = Life!Idle]
  BY DEF Life!markImpactMapSent
<1>i. /\ Life!Idle.op = "idle" /\ Read(Life!Idle) /\ \A d, f : ~ Holds(Life!Idle, d, f)
  BY DEF Life!Idle, Read, Holds, Uploads
<1>3. CASE happening' = happening
  BY <1>1, <1>2, <1>3, <1>i, LifeQuiet
<1>4. CASE Listed(e) /\ happening' = [happening EXCEPT ![e].mapSent = TRUE]
  <2>b. PICK yes \in BOOLEAN : yes = TRUE
    OBVIOUS
  <2>r. PICK row : row = happening[e]
    OBVIOUS
  <2>1. row \in EventRow
    BY <1>1, <1>4, <2>r DEF LifeTypes, Listed
  <2>x. PICK x : x = [row EXCEPT !.mapSent = yes]
    OBVIOUS
  <2>2. x \in EventRow /\ x.image = row.image /\ x.shared = row.shared
    BY <2>1, <2>x DEF EventRow
  <2>3. happening' = [happening EXCEPT ![e] = x]
    BY <1>4, <2>b, <2>r, <2>x
  <2>4. /\ task' = [b \in Workers |-> task'[b]]
        /\ \A b \in Workers : task'[b] = IF b = s THEN Life!Idle ELSE task[b]
    BY <1>1, <1>2 DEF LifeTypes
  <2>5. LifeTypes' /\ Pictures'
    BY <1>2, <1>4, <1>i, <2>2, <2>3, <2>4, <2>r, LifeRow
  <2>6. Marked'
    BY <1>1, <1>2, <1>i, <2>4 DEF Mails, Marked, Workers
  <2>7. \A d \in Events : d # e => happening'[d] = happening[d]
    BY <1>1, <2>3 DEF LifeTypes
  <2>8. \A p \in donated : p[1] \in Events
    BY <1>1 DEF LifeTypes, Life!Pairs
  <2>9. Life!SupportersAreMailed'
    BY <1>1, <1>2, <1>e, <1>o, <2>7, <2>8 DEF Mails, Marked, Life!SupportersAreMailed
  <2> QED BY <1>1, <1>2, <2>5, <2>6, <2>9 DEF LifeInv, Mails
<1>5. happening' = happening \/ (Listed(e) /\ happening' = [happening EXCEPT ![e].mapSent = TRUE])
  BY <1>e, <1>o DEF Life!markImpactMapSent, Listed
<1> QED BY <1>3, <1>4, <1>5

(* Someone gives, once the mails have begun too late to get one.              *)
LEMMA LifeDonate ==
  ASSUME LifeAssumption, LifeInv, NEW e \in Events, NEW u \in Supporters, Life!Donate(e, u)
  PROVE  LifeInv'
<1>1. LifeTypes /\ Pictures /\ Mails /\ ~ unseen
  BY DEF LifeInv
<1>2. /\ night' = night /\ happening' = happening /\ files' = files /\ stored' = stored
      /\ mail' = mail /\ unseen' = unseen /\ task' = task
      /\ donated' = donated \cup {<<e, u>>}
  BY DEF Life!Donate
<1>p. PICK p : p = <<e, u>>
  OBVIOUS
<1>3. p \in Life!Pairs /\ p[1] = e
  BY <1>p DEF Life!Pairs
<1>4. LifeTypes'
  <2>1. \A b \in Workers : Read(task[b])'
    BY <1>1, <1>2 DEF LifeTypes, Read
  <2>2. late' \subseteq donated' /\ donated' \subseteq Life!Pairs
    BY <1>1, <1>2, <1>3, <1>p DEF LifeTypes, Life!Donate
  <2> QED BY <1>1, <1>2, <2>1, <2>2 DEF LifeTypes
<1>5. Pictures'
  BY <1>1, <1>2 DEF Pictures, Known, Fresh, RowsApart, HoldsApart, Replaced, Life!ImageExists,
                    Life!Rows, Listed, Holds
<1>6. \/ late' = late \cup {p}
      \/ /\ late' = late /\ ~ happening[e].mapSent
         /\ \A s \in Servers : ~ (task[s].op = "mark" /\ task[s].event = e)
  BY <1>p DEF Life!Donate, Life!MailsBegun
<1>7. \A q \in donated' \ late' : \/ q \in donated \ late
                                  \/ /\ q = p /\ ~ happening[e].mapSent
                                     /\ \A s \in Servers : ~ (task[s].op = "mark" /\ task[s].event = e)
  BY <1>2, <1>6, <1>p
<1>8. Mails'
  BY <1>1, <1>2, <1>3, <1>7 DEF Mails, Marked, Life!SupportersAreMailed
<1> QED BY <1>1, <1>2, <1>4, <1>5, <1>8 DEF LifeInv

(* All of an event's supporters are in the queue before it is marked.         *)
LEMMA LifeProcess ==
  ASSUME LifeAssumption, LifeInv, NEW s \in Servers, Life!processEvent(s)
  PROVE  LifeInv'
<1>o. PICK old : old = task[s]
  OBVIOUS
<1>1. LifeTypes /\ Pictures /\ s \in Workers /\ Read(old) /\ old.op = "map" /\ Mails /\ ~ unseen
  BY <1>o DEF LifeInv, LifeTypes, Life!processEvent, Workers
<1>e. PICK e \in Events : e = old.event
  BY <1>1 DEF Read
<1>2. /\ night' = night /\ happening' = happening /\ files' = files /\ stored' = stored
      /\ donated' = donated /\ late' = late /\ unseen' = unseen
  BY DEF Life!processEvent
<1>3. PICK queued \in SUBSET Life!Donors(e) :
        /\ mail' = [p \in Life!Pairs |->
             IF p[1] = e /\ p[2] \in queued /\ mail[p] = 0 THEN 1 ELSE mail[p]]
        /\ task' = [task EXCEPT ![s] = IF Life!AllQueued(queued, Life!Donors(e))
                                       THEN [old EXCEPT !.op = "mark"] ELSE Life!Idle]
  BY <1>e, <1>o DEF Life!processEvent
<1>4. PICK w : /\ task' = [task EXCEPT ![s] = w]
               /\ \/ w.op = "mark" /\ w.event = e /\ queued = Life!Donors(e)
                  \/ w.op = "idle"
  <2>1. CASE Life!AllQueued(queued, Life!Donors(e))
    <3>w. PICK w : w = [old EXCEPT !.op = "mark"]
      OBVIOUS
    <3>1. w.event = e /\ w.op = "mark"
      <4>1. old = [op |-> "map", event |-> e]
        BY <1>1, <1>e DEF Read
      <4> QED BY <4>1, <3>w
    <3> QED BY <1>3, <2>1, <3>w, <3>1 DEF Life!AllQueued
  <2>2. CASE ~ Life!AllQueued(queued, Life!Donors(e))
    <3>1. Life!Idle.op = "idle"
      BY DEF Life!Idle
    <3> QED BY <1>3, <2>2, <3>1
  <2> QED BY <2>1, <2>2
<1>5. /\ task' = [b \in Workers |-> task'[b]]
      /\ \A b \in Workers : task'[b] = IF b = s THEN w ELSE task[b]
  BY <1>1, <1>4 DEF LifeTypes
<1>6. Read(w) /\ \A d, f : ~ Holds(w, d, f)
  BY <1>4 DEF Read, Holds, Uploads
<1>7. LifeTypes'
  <2>1. \A b \in Workers : Read(task[b])'
    <3>1. \A y : Read(y) => Read(y)'
      BY <1>2 DEF Read
    <3>2. ASSUME NEW b \in Workers PROVE Read(task[b])'
      <4>1. PICK y : y = task'[b]
        OBVIOUS
      <4>2. Read(y)'
        BY <1>1, <1>5, <1>6, <3>1, <4>1 DEF LifeTypes
      <4> QED BY <4>1, <4>2 DEF Read
    <3> QED BY <3>2
  <2>2. mail' \in [Life!Pairs -> 0..1]
    BY <1>1, <1>3 DEF LifeTypes
  <2> QED BY <1>1, <1>2, <1>5, <2>1, <2>2 DEF LifeTypes
<1>8. Pictures'
  <2>1. \A d \in Events : Listed(d)' => Listed(d) /\ happening'[d] = happening[d]
    BY <1>2 DEF Listed
  <2>2. \A b \in Workers : task'[b].op \in {"stored", "saved"} => task'[b] = task[b]
    BY <1>4, <1>5
  <2>3. \A b \in Workers, d \in Events : \A f : Holds(task'[b], d, f) =>
           \E a \in Workers : Holds(task[a], d, f)
    BY <1>5, <1>6
  <2> QED BY <1>1, <1>2, <2>1, <2>2, <2>3, PicturesKept
<1>9. \A p \in donated : p \in Life!Pairs /\ p[1] \in Events
  BY <1>1 DEF LifeTypes, Life!Pairs
<1>10. \A p \in donated : mail[p] = 1 => mail'[p] = 1
  BY <1>3, <1>9
<1>11. Marked'
  <2> SUFFICES ASSUME NEW b \in Servers, task'[b].op = "mark", NEW p \in donated \ late,
                      p[1] = task'[b].event
               PROVE  mail'[p] = 1
    BY <1>2 DEF Marked
  <2>1. CASE b # s
    BY <1>1, <1>5, <1>10, <2>1 DEF Mails, Marked, Workers
  <2>2. CASE b = s
    <3>1. p[1] = e /\ queued = Life!Donors(e)
      BY <1>4, <1>5, <2>2 DEF Workers
    <3>2. p[2] \in queued
      BY <3>1 DEF Life!Donors
    <3>3. mail[p] \in 0..1 /\ p \in Life!Pairs
      BY <1>1, <1>9 DEF LifeTypes
    <3> QED BY <1>3, <3>1, <3>2, <3>3
  <2> QED BY <2>1, <2>2
<1>12. Life!SupportersAreMailed'
  BY <1>1, <1>2, <1>10 DEF Mails, Life!SupportersAreMailed
<1> QED BY <1>1, <1>2, <1>7, <1>8, <1>11, <1>12 DEF LifeInv, Mails

LEMMA LifeTick ==
  ASSUME LifeAssumption, LifeInv, Life!Tick
  PROVE  LifeInv'
<1>1. night' \in 0..MaxNight
  BY DEF LifeInv, LifeTypes, LifeAssumption, Life!Tick
<1>2. /\ happening' = happening /\ files' = files /\ stored' = stored /\ task' = task
      /\ donated' = donated /\ late' = late /\ mail' = mail /\ unseen' = unseen
  BY DEF Life!Tick
<1>3. LifeTypes'
  BY <1>1, <1>2 DEF LifeInv, LifeTypes, Read
<1>4. Pictures'
  BY <1>2 DEF LifeInv, Pictures, Known, Fresh, RowsApart, HoldsApart, Replaced,
              Life!ImageExists, Life!Rows, Listed, Holds
<1>5. Mails'
  BY <1>2 DEF LifeInv, Mails, Marked, Life!SupportersAreMailed
<1> QED BY <1>2, <1>3, <1>4, <1>5 DEF LifeInv

(* A file gets a number that no row and no work has.                          *)
LEMMA LifeStore ==
  ASSUME LifeAssumption, LifeInv, NEW c \in Calls, Life!StoreFile(c)
  PROVE  LifeInv'
<1>o. PICK old : old = task[c]
  OBVIOUS
<1>1. /\ LifeTypes /\ Pictures /\ Mails /\ ~ unseen
      /\ c \in Workers /\ Read(old) /\ old.op = "upload"
  BY <1>o DEF LifeInv, LifeTypes, Life!StoreFile, Workers
<1>n. PICK n \in Nat : n = stored + 1
  BY <1>1 DEF LifeTypes
<1>2. /\ stored \in Nat /\ n > stored /\ n \in 1..MaxFiles /\ n # None
      /\ stored' = n /\ stored' \in Nat /\ stored <= stored' /\ files' = files \cup {n}
  BY <1>1, <1>n DEF LifeTypes, LifeAssumption, Life!StoreFile
<1>w. PICK w : w = [op |-> "stored", event |-> old.event, old |-> old.old,
                    attempt |-> old.attempt, file |-> n]
  OBVIOUS
<1>3. /\ w.op = "stored" /\ w.event = old.event /\ w.old = old.old /\ w.file = n
      /\ w = [op |-> "stored", event |-> w.event, old |-> w.old,
              attempt |-> w.attempt, file |-> w.file]
  BY <1>w
<1>4. task' = [task EXCEPT ![c] = w]
  BY <1>n, <1>o, <1>w DEF Life!StoreFile
<1>5. /\ night' = night /\ happening' = happening /\ donated' = donated
      /\ late' = late /\ mail' = mail /\ unseen' = unseen
  BY DEF Life!StoreFile
<1>6. Read(w)'
  <2>1. \A x : x = w => Read(x)'
    BY <1>1, <1>2, <1>3 DEF Read, Uploads
  <2> QED BY <2>1
<1>7. /\ task' = [b \in Workers |-> task'[b]]
      /\ \A b \in Workers : task'[b] = IF b = c THEN w ELSE task[b]
      /\ \A b \in Workers : Read(task[b])'
  BY <1>1, <1>2, <1>4, <1>6, TasksRead
<1>8. LifeTypes'
  BY <1>1, <1>2, <1>5, <1>7 DEF LifeTypes
<1>9. \A b \in Workers, e \in Events : \A f : Holds(task'[b], e, f) => Holds(task[b], e, f)
  BY <1>1, <1>3, <1>7, <1>o DEF Holds, Uploads
<1>10. /\ \A e \in Events : Listed(e) => happening[e].image # n
       /\ \A b \in Workers, e \in Events : ~ Holds(task[b], e, n)
       /\ \A b \in Workers : task[b].op = "stored" => task[b].file # n
  <2>1. n \notin 1..stored \cup {None}
    BY <1>2
  <2>2. \A b \in Workers : task[b].op = "stored" => task[b].file \in 1..stored
    BY <1>1 DEF LifeTypes, Read
  <2> QED BY <1>1, <2>1, <2>2 DEF Pictures, Known
<1>11. Known'
  <2>1. 1..stored \subseteq 1..stored'
    BY <1>2
  <2>2. \A e \in Events : Listed(e)' => happening'[e].image \in 1..stored' \cup {None}
    BY <1>1, <1>5, <2>1 DEF Pictures, Known, Listed
  <2>3. \A b \in Workers, e \in Events : \A f : Holds(task'[b], e, f) => f \in 1..stored' \cup {None}
    BY <1>1, <1>9, <2>1 DEF Pictures, Known
  <2> QED BY <2>2, <2>3 DEF Known, Holds
<1>12. Fresh'
  <2> SUFFICES ASSUME NEW a \in Workers, task'[a].op = "stored"
               PROVE  /\ task'[a].file \in files'
                      /\ \A e \in Events : Listed(e)' => happening'[e].image # task'[a].file
                      /\ \A b \in Workers, e \in Events : ~ Holds(task'[b], e, task'[a].file)
                      /\ \A b \in Workers : task'[b].op = "stored" /\ task'[b].file = task'[a].file
                           => b = a
    BY DEF Fresh, Holds
  <2>f. PICK f : f = task'[a].file
    OBVIOUS
  <2>1. CASE a = c
    <3>1. f = n
      BY <1>3, <1>7, <2>1, <2>f
    <3>2. \A b \in Workers : task'[b].op = "stored" /\ task'[b].file = f => b = a
      BY <1>7, <1>10, <2>1, <3>1
    <3> QED BY <1>2, <1>5, <1>9, <1>10, <2>f, <3>1, <3>2 DEF Listed
  <2>2. CASE a # c
    <3>1. task[a].op = "stored" /\ task[a].file = f /\ f # n
      BY <1>7, <1>10, <2>2, <2>f
    <3>2. /\ f \in files
          /\ \A e \in Events : Listed(e) => happening[e].image # f
          /\ \A b \in Workers, e \in Events : ~ Holds(task[b], e, f)
          /\ \A b \in Workers : task[b].op = "stored" /\ task[b].file = f => b = a
      BY <1>1, <3>1 DEF Pictures, Fresh
    <3>3. \A b \in Workers : task'[b].op = "stored" /\ task'[b].file = f => b = a
      BY <1>3, <1>7, <3>1, <3>2
    <3> QED BY <1>2, <1>5, <1>9, <2>f, <3>2, <3>3 DEF Listed
  <2> QED BY <2>1, <2>2
<1>13. RowsApart' /\ HoldsApart'
  <2>1. RowsApart'
    BY <1>1, <1>5 DEF Pictures, RowsApart, Listed
  <2>2. \A b \in Workers, d, e \in Events :
          Listed(d) /\ d # e /\ Holds(task'[b], e, happening[d].image) =>
            happening[d].image = None \/ happening[d].shared
    BY <1>1, <1>9 DEF Pictures, HoldsApart
  <2>3. HoldsApart'
    BY <1>5, <2>2 DEF HoldsApart, Holds, Listed
  <2> QED BY <2>1, <2>3
<1>14. Replaced'
  BY <1>1, <1>3, <1>5, <1>7 DEF Pictures, Replaced, Listed
<1>15. Life!ImageExists'
  BY <1>1, <1>2, <1>5 DEF Pictures, Life!ImageExists, Life!Rows
<1>16. Mails'
  <2>1. \A s \in Servers : task'[s].op = "mark" => task'[s] = task[s]
    BY <1>3, <1>7 DEF Workers
  <2>2. \A e \in Events : Listed(e)' /\ happening'[e].mapSent => Listed(e) /\ happening[e].mapSent
    BY <1>5 DEF Listed
  <2> QED BY <1>1, <1>5, <2>1, <2>2, MailsKept
<1> QED BY <1>1, <1>5, <1>8, <1>11, <1>12, <1>13, <1>14, <1>15, <1>16 DEF LifeInv, Pictures

(* The old picture goes when no unshared row has it.                          *)
LEMMA LifeDelete ==
  ASSUME LifeAssumption, LifeInv, NEW c \in Calls, Life!DeleteOld(c)
  PROVE  LifeInv'
<1>o. PICK old : old = task[c].old
  OBVIOUS
<1>1. /\ LifeTypes /\ Pictures /\ Mails /\ ~ unseen /\ Read(task[c])
      /\ c \in Workers /\ task[c].op = "saved"
  BY DEF LifeInv, LifeTypes, Life!DeleteOld, Life!OnceSaved, Workers
<1>2. /\ files' = files \ {old} /\ task' = [task EXCEPT ![c] = Life!Idle]
      /\ night' = night /\ happening' = happening /\ stored' = stored /\ donated' = donated
      /\ late' = late /\ mail' = mail /\ unseen' = unseen
  BY <1>o DEF Life!DeleteOld
<1>3. /\ Life!Idle.op = "idle" /\ Read(Life!Idle) /\ \A d, f : ~ Holds(Life!Idle, d, f)
  BY DEF Life!Idle, Read, Holds, Uploads
<1>4. Read(Life!Idle)' /\ stored' \in Nat /\ stored <= stored'
  BY <1>1, <1>2 DEF Read, Life!Idle, Uploads, LifeTypes
<1>5. /\ task' = [b \in Workers |-> task'[b]]
      /\ \A b \in Workers : task'[b] = IF b = c THEN Life!Idle ELSE task[b]
      /\ \A b \in Workers : Read(task[b])'
  BY <1>1, <1>2, <1>4, TasksRead
<1>6. LifeTypes'
  BY <1>1, <1>2, <1>5 DEF LifeTypes
<1>7. \A b \in Workers : task'[b].op \in {"stored", "saved"} => b # c /\ task'[b] = task[b]
  BY <1>3, <1>5
<1>8. \A b \in Workers, e \in Events : \A f : Holds(task'[b], e, f) => Holds(task[b], e, f)
  BY <1>3, <1>5
<1>9. task[c].event \in Events /\ Holds(task[c], task[c].event, old)
  BY <1>1, <1>o DEF Read, Holds, Uploads
<1>10. Known'
  <2>1. \A b \in Workers, e \in Events : \A f : Holds(task'[b], e, f) => f \in 1..stored \cup {None}
    BY <1>1, <1>8 DEF Pictures, Known
  <2>2. \A e \in Events : Listed(e)' => happening'[e].image \in 1..stored \cup {None}
    BY <1>1, <1>2 DEF Pictures, Known, Listed
  <2> QED BY <1>2, <2>1, <2>2 DEF Known, Holds
<1>11. Fresh'
  <2> SUFFICES ASSUME NEW a \in Workers, task'[a].op = "stored"
               PROVE  /\ task'[a].file \in files'
                      /\ \A e \in Events : Listed(e)' => happening'[e].image # task'[a].file
                      /\ \A b \in Workers, e \in Events : ~ Holds(task'[b], e, task'[a].file)
                      /\ \A b \in Workers : task'[b].op = "stored" /\ task'[b].file = task'[a].file
                           => b = a
    BY DEF Fresh, Holds
  <2>f. PICK f : f = task'[a].file
    OBVIOUS
  <2>1. task[a].op = "stored" /\ task[a].file = f
    BY <1>7, <2>f
  <2>2. /\ f \in files
        /\ \A e \in Events : Listed(e) => happening[e].image # f
        /\ \A b \in Workers, e \in Events : ~ Holds(task[b], e, f)
        /\ \A b \in Workers : task[b].op = "stored" /\ task[b].file = f => b = a
    BY <1>1, <2>1 DEF Pictures, Fresh
  <2>3. f # old
    BY <1>1, <1>9, <2>2
  <2>4. \A b \in Workers : task'[b].op = "stored" /\ task'[b].file = f => b = a
    BY <1>7, <2>2
  <2> QED BY <1>2, <1>8, <2>2, <2>3, <2>4, <2>f DEF Listed
<1>12. RowsApart'
  BY <1>1, <1>2 DEF Pictures, RowsApart, Listed
<1>13. HoldsApart'
  <2>1. \A b \in Workers, d, e \in Events :
          Listed(d) /\ d # e /\ Holds(task'[b], e, happening[d].image) =>
            happening[d].image = None \/ happening[d].shared
    BY <1>1, <1>8 DEF Pictures, HoldsApart
  <2> QED BY <1>2, <2>1 DEF HoldsApart, Holds, Listed
<1>14. Replaced'
  BY <1>1, <1>2, <1>7 DEF Pictures, Replaced, Listed
<1>15. Life!ImageExists'
  <2>1. \A d \in Events : Listed(d) /\ happening[d].image = old => happening[d].shared
    BY <1>1, <1>o DEF Pictures, Replaced
  <2> QED BY <1>1, <1>2, <2>1 DEF Pictures, Life!ImageExists, Life!Rows, Listed
<1>16. Mails'
  <2>1. \A s \in Servers : task'[s].op = "mark" => task'[s] = task[s]
    BY <1>3, <1>5 DEF Workers
  <2>2. \A e \in Events : Listed(e)' /\ happening'[e].mapSent => Listed(e) /\ happening[e].mapSent
    BY <1>2 DEF Listed
  <2> QED BY <1>1, <1>2, <2>1, <2>2, MailsKept
<1> QED BY <1>1, <1>2, <1>6, <1>10, <1>11, <1>12, <1>13, <1>14, <1>15, <1>16 DEF LifeInv, Pictures

(* The row takes a picture that nothing else names.                           *)
LEMMA LifeSave ==
  ASSUME LifeAssumption, LifeInv, NEW c \in Calls, Life!SaveImage(c)
  PROVE  LifeInv'
<1>o. PICK old : old = task[c]
  OBVIOUS
<1>1. /\ LifeTypes /\ Pictures /\ Mails /\ ~ unseen
      /\ c \in Workers /\ Read(old) /\ old.op = "stored"
  BY <1>o DEF LifeInv, LifeTypes, Life!SaveImage, Workers
<1>e. PICK e \in Events : e = old.event
  BY <1>1 DEF Read, Uploads
<1>r. PICK row : row = happening[e]
  OBVIOUS
<1>g. old.file \in 1..stored
  BY <1>1, Zenon DEF Read
<1>f. PICK f \in 1..stored : f = old.file
  BY <1>g
<1>2. row \in EventRow /\ Listed(e) /\ row.version < MaxVersion
  BY <1>1, <1>e, <1>o, <1>r DEF Life!SaveImage, LifeTypes, Listed
<1>b. PICK no \in BOOLEAN : no = FALSE
  OBVIOUS
<1>x. PICK x : x = [row EXCEPT !.image = f, !.processing = no, !.version = row.version + 1]
  OBVIOUS
<1>3. /\ x \in EventRow /\ x.image = f /\ x.shared = row.shared
      /\ x.mapSent = row.mapSent
  <2>1. row.version + 1 \in 0..MaxVersion /\ f \in Images
    BY <1>1, <1>2 DEF EventRow, LifeAssumption, LifeTypes, Images
  <2> QED BY <1>2, <1>x, <2>1 DEF EventRow
<1>4. happening' = [happening EXCEPT ![e] = x]
  BY <1>b, <1>e, <1>f, <1>o, <1>r, <1>x DEF Life!SaveImage
<1>5. \A d \in Events : happening'[d] = IF d = e THEN x ELSE happening[d]
  BY <1>1, <1>4 DEF LifeTypes
<1>w. PICK w : w = IF old.old = None THEN Life!Idle ELSE [old EXCEPT !.op = "saved"]
  OBVIOUS
<1>6. \/ w = Life!Idle /\ w.op = "idle"
      \/ /\ w.op = "saved" /\ w.event = e /\ w.old = old.old /\ w.file = f /\ w.old # None
  <2>1. old = [op |-> "stored", event |-> old.event, old |-> old.old,
               attempt |-> old.attempt, file |-> old.file]
    BY <1>1 DEF Read
  <2> QED BY <1>e, <1>f, <1>w, <2>1 DEF Life!Idle
<1>7. task' = [task EXCEPT ![c] = w]
  BY <1>o, <1>w DEF Life!SaveImage
<1>8. /\ night' = night /\ files' = files /\ stored' = stored /\ donated' = donated
      /\ late' = late /\ mail' = mail /\ unseen' = unseen
  BY DEF Life!SaveImage
<1>9. Read(w)' /\ stored' \in Nat /\ stored <= stored'
  <2>1. \A y : y = w => Read(y)'
    BY <1>1, <1>6, <1>8 DEF Read, Uploads
  <2> QED BY <1>1, <1>8, <2>1 DEF LifeTypes
<1>10. /\ task' = [b \in Workers |-> task'[b]]
       /\ \A b \in Workers : task'[b] = IF b = c THEN w ELSE task[b]
       /\ \A b \in Workers : Read(task[b])'
  BY <1>1, <1>7, <1>9, TasksRead
<1>11. LifeTypes'
  BY <1>1, <1>3, <1>4, <1>8, <1>10 DEF LifeTypes
<1>12. \A b \in Workers, d \in Events : \A g : Holds(task'[b], d, g) => Holds(task[b], d, g)
  BY <1>1, <1>6, <1>10, <1>e, <1>o DEF Holds, Uploads, Life!Idle
<1>13. /\ f \in files /\ f # None
       /\ \A d \in Events : Listed(d) => happening[d].image # f
       /\ \A b \in Workers, d \in Events : ~ Holds(task[b], d, f)
       /\ \A b \in Workers : task[b].op = "stored" /\ task[b].file = f => b = c
  BY <1>1, <1>f, <1>o DEF Pictures, Fresh, LifeTypes, LifeAssumption
<1>14. \A b \in Workers : task'[b].op = "stored" =>
         task[b].op = "stored" /\ b # c /\ task'[b] = task[b] /\ task[b].file # f
  BY <1>6, <1>10, <1>13
<1>15. \A d \in Events : d # e => (Listed(d)' <=> Listed(d)) /\ happening'[d] = happening[d]
  BY <1>5 DEF Listed
<1>16. happening'[e].image = f
  BY <1>3, <1>5
<1>17. Known'
  <2>1. \A d \in Events : Listed(d)' => happening'[d].image \in 1..stored \cup {None}
    BY <1>1, <1>15, <1>16 DEF Pictures, Known
  <2>2. \A b \in Workers, d \in Events : \A g : Holds(task'[b], d, g) => g \in 1..stored \cup {None}
    BY <1>1, <1>12 DEF Pictures, Known
  <2> QED BY <1>8, <2>1, <2>2 DEF Known, Holds
<1>18. Fresh'
  <2> SUFFICES ASSUME NEW a \in Workers, task'[a].op = "stored"
               PROVE  /\ task'[a].file \in files'
                      /\ \A d \in Events : Listed(d)' => happening'[d].image # task'[a].file
                      /\ \A b \in Workers, d \in Events : ~ Holds(task'[b], d, task'[a].file)
                      /\ \A b \in Workers : task'[b].op = "stored" /\ task'[b].file = task'[a].file
                           => b = a
    BY DEF Fresh, Holds
  <2>g. PICK g : g = task'[a].file
    OBVIOUS
  <2>1. task[a].op = "stored" /\ task[a].file = g /\ g # f
    BY <1>14, <2>g
  <2>2. /\ g \in files
        /\ \A d \in Events : Listed(d) => happening[d].image # g
        /\ \A b \in Workers, d \in Events : ~ Holds(task[b], d, g)
        /\ \A b \in Workers : task[b].op = "stored" /\ task[b].file = g => b = a
    BY <1>1, <2>1 DEF Pictures, Fresh
  <2>3. \A d \in Events : Listed(d)' => happening'[d].image # g
    BY <1>15, <1>16, <2>1, <2>2
  <2>4. \A b \in Workers : task'[b].op = "stored" /\ task'[b].file = g => b = a
    BY <1>14, <2>2
  <2> QED BY <1>8, <1>12, <2>2, <2>3, <2>4, <2>g
<1>19. RowsApart'
  <2> SUFFICES ASSUME NEW d \in Events, NEW a \in Events, Listed(d)', Listed(a)', d # a,
                      happening'[d].image = happening'[a].image
               PROVE  happening'[d].image = None \/ happening'[d].shared
    BY DEF RowsApart
  <2>1. d # e /\ a # e
    BY <1>13, <1>15, <1>16
  <2> QED BY <1>1, <1>15, <2>1 DEF Pictures, RowsApart
<1>20. HoldsApart'
  <2>1. \A b \in Workers, d, a \in Events :
          Listed(d)' /\ d # a /\ Holds(task'[b], a, happening'[d].image) =>
            happening'[d].image = None \/ happening'[d].shared
    <3> SUFFICES ASSUME NEW b \in Workers, NEW d \in Events, NEW a \in Events, Listed(d)', d # a,
                        Holds(task'[b], a, happening'[d].image)
                 PROVE  happening'[d].image = None \/ happening'[d].shared
      OBVIOUS
    <3>g. PICK g : g = happening'[d].image
      OBVIOUS
    <3>1. Holds(task[b], a, g)
      BY <1>12, <3>g
    <3>2. d # e
      BY <1>13, <1>16, <3>1, <3>g
    <3> QED BY <1>1, <1>15, <3>1, <3>2, <3>g DEF Pictures, HoldsApart
  <2> QED BY <2>1 DEF HoldsApart, Holds
<1>21. Replaced'
  <2> SUFFICES ASSUME NEW b \in Workers, NEW d \in Events, task'[b].op = "saved", Listed(d)',
                      happening'[d].image = task'[b].old
               PROVE  happening'[d].shared
    BY DEF Replaced
  <2>g. PICK g : g = task'[b].old
    OBVIOUS
  <2>1. CASE b = c
    <3>1. w.op = "saved" /\ g = old.old /\ g # None
      BY <1>6, <1>10, <2>1, <2>g DEF Life!Idle
    <3>2. Holds(task[c], e, g)
      BY <1>1, <1>e, <1>o, <3>1 DEF Holds, Uploads
    <3>3. d # e
      BY <1>1, <1>13, <1>16, <2>g, <3>2
    <3> QED BY <1>1, <1>15, <2>g, <3>1, <3>2, <3>3 DEF Pictures, HoldsApart
  <2>2. CASE b # c
    <3>1. task[b].op = "saved" /\ task[b].old = g /\ task[b].event \in Events
      BY <1>1, <1>10, <2>2, <2>g DEF LifeTypes, Read, Uploads
    <3>2. Holds(task[b], task[b].event, g)
      BY <3>1 DEF Holds, Uploads
    <3>3. d # e
      BY <1>13, <1>16, <2>g, <3>1, <3>2
    <3> QED BY <1>1, <1>15, <2>g, <3>1, <3>3 DEF Pictures, Replaced
  <2> QED BY <2>1, <2>2
<1>22. Life!ImageExists'
  <2>1. \A d \in Events : Listed(d)' =>
          happening'[d].image = None \/ happening'[d].shared \/ happening'[d].image \in files'
    BY <1>1, <1>8, <1>13, <1>15, <1>16 DEF Pictures, Life!ImageExists, Life!Rows, Listed
  <2> QED BY <2>1 DEF Life!ImageExists, Life!Rows, Listed
<1>23. Mails'
  <2>1. \A s \in Servers : task'[s].op = "mark" => task'[s] = task[s]
    BY <1>6, <1>10 DEF Workers
  <2>2. \A d \in Events : Listed(d)' /\ happening'[d].mapSent => Listed(d) /\ happening[d].mapSent
    BY <1>2, <1>3, <1>5, <1>r, <1>15
  <2> QED BY <1>1, <1>8, <2>1, <2>2, MailsKept
<1> QED BY <1>1, <1>8, <1>11, <1>17, <1>18, <1>19, <1>20, <1>21, <1>22, <1>23
        DEF LifeInv, Pictures

(* A copy shares its picture with the row it was made from, and both say so.  *)
LEMMA LifeCopy ==
  ASSUME LifeAssumption, LifeInv, NEW s \in Servers, NEW e \in Events, NEW copy \in Events,
         Life!CopyRecurring(s, e, copy)
  PROVE  LifeInv'
<1>o. PICK old : old = task[s]
  OBVIOUS
<1>1. /\ LifeTypes /\ Pictures /\ Mails /\ ~ unseen
      /\ s \in Workers /\ Read(old) /\ old.op = "copy" /\ e \in DOMAIN old.rows
      /\ happening[copy] = None /\ copy # e
  BY <1>o DEF LifeInv, LifeTypes, Life!CopyRecurring, Workers
<1>r. PICK row : row = old.rows[e]
  OBVIOUS
<1>2. /\ row \in EventRow /\ row.end <= MaxNight
      /\ old = [op |-> "copy", rows |-> old.rows] /\ DOMAIN old.rows \subseteq Events
      /\ \A d \in DOMAIN old.rows : old.rows[d] \in EventRow /\ old.rows[d].end <= MaxNight
  BY <1>1, <1>r DEF Read
<1>b. PICK no, yes \in BOOLEAN : no = FALSE /\ yes = TRUE
  OBVIOUS
<1>x. PICK x : x = [row EXCEPT !.version = 0, !.end = row.end + 1, !.mapSent = no, !.shared = yes]
  OBVIOUS
<1>3. x \in EventRow /\ x.image = row.image /\ x.shared /\ ~ x.mapSent
  <2>1. 0 \in 0..MaxVersion /\ row.end + 1 \in 0..MaxNight + 1
    BY <1>2 DEF EventRow, LifeAssumption
  <2> QED BY <1>2, <1>b, <1>x, <2>1 DEF EventRow
<1>y. PICK y : y = IF happening[e] # None THEN [happening[e] EXCEPT !.shared = yes] ELSE None
  OBVIOUS
<1>4. /\ y \in EventRow \cup {None} /\ (y # None => Listed(e))
      /\ y # None => /\ y.image = happening[e].image /\ y.shared
                     /\ y.mapSent = happening[e].mapSent
  <2>h. PICK h : h = happening[e]
    OBVIOUS
  <2>1. CASE h # None
    <3>1. h \in EventRow
      BY <1>1, <2>1, <2>h DEF LifeTypes
    <3>2. y = [h EXCEPT !.shared = yes]
      BY <1>y, <2>1, <2>h
    <3> QED BY <1>b, <2>1, <2>h, <3>1, <3>2 DEF EventRow, Listed
  <2>2. CASE h = None
    BY <1>y, <2>2, <2>h
  <2> QED BY <2>1, <2>2
<1>5. happening' = [d \in Events |-> IF d = copy THEN x ELSE IF d = e THEN y ELSE happening[d]]
  <2>1. happening' = [d \in Events |->
          IF d = copy THEN x
          ELSE IF d = e /\ happening[e] # None THEN [happening[e] EXCEPT !.shared = yes]
          ELSE happening[d]]
    BY <1>b, <1>o, <1>r, <1>x DEF Life!CopyRecurring
  <2> QED BY <1>y, <2>1
<1>6. /\ happening'[copy] = x /\ happening'[e] = y
      /\ \A d \in Events : d \notin {copy, e} => happening'[d] = happening[d]
  BY <1>1, <1>5
<1>w. PICK w : w = IF DOMAIN old.rows = {e} THEN Life!Idle
                   ELSE [old EXCEPT !.rows = [d \in DOMAIN old.rows \ {e} |-> old.rows[d]]]
  OBVIOUS
<1>7. \/ w = Life!Idle /\ w.op = "idle"
      \/ /\ w.op = "copy" /\ w = [op |-> "copy", rows |-> w.rows]
         /\ DOMAIN w.rows \subseteq DOMAIN old.rows
         /\ \A d \in DOMAIN w.rows : w.rows[d] = old.rows[d]
  <2>1. PICK rest : rest = [d \in DOMAIN old.rows \ {e} |-> old.rows[d]]
    OBVIOUS
  <2>2. w = Life!Idle \/ w = [op |-> "copy", rows |-> rest]
    BY <1>2, <1>w, <2>1
  <2> QED BY <2>1, <2>2 DEF Life!Idle
<1>8. task' = [task EXCEPT ![s] = w]
  BY <1>o, <1>w DEF Life!CopyRecurring
<1>9. /\ night' = night /\ files' = files /\ stored' = stored /\ donated' = donated
      /\ late' = late /\ mail' = mail /\ unseen' = unseen
  BY DEF Life!CopyRecurring
<1>10. Read(w)' /\ stored' \in Nat /\ stored <= stored'
  <2>1. \A v : v = w => Read(v)'
    BY <1>2, <1>7, <1>9 DEF Read, Uploads
  <2> QED BY <1>1, <1>9, <2>1 DEF LifeTypes
<1>11. /\ task' = [b \in Workers |-> task'[b]]
       /\ \A b \in Workers : task'[b] = IF b = s THEN w ELSE task[b]
       /\ \A b \in Workers : Read(task[b])'
  BY <1>1, <1>8, <1>10, TasksRead
<1>12. LifeTypes'
  <2>1. happening' \in [Events -> EventRow \cup {None}]
    BY <1>1, <1>3, <1>4, <1>5 DEF LifeTypes
  <2> QED BY <1>1, <1>9, <1>11, <2>1 DEF LifeTypes
<1>13. \A b \in Workers, d \in Events : \A g : Holds(task'[b], d, g) => Holds(task[b], d, g)
  BY <1>1, <1>7, <1>11, <1>o DEF Holds, Uploads, Life!Idle
<1>14. \A b \in Workers : task'[b].op \in {"stored", "saved", "mark"} => task'[b] = task[b]
  BY <1>7, <1>11
<1>15. Holds(task[s], e, x.image)
  BY <1>1, <1>3, <1>o, <1>r DEF Holds
<1>16. \A d \in Events : Listed(d)' =>
         \/ d = copy /\ happening'[d].shared /\ happening'[d].image = x.image
         \/ /\ d # copy /\ Listed(d) /\ happening'[d].image = happening[d].image
            /\ (d = e \/ happening[d].shared => happening'[d].shared)
            /\ (happening'[d].mapSent => happening[d].mapSent)
  BY <1>3, <1>4, <1>6 DEF Listed
<1>17. Known'
  <2>1. \A d \in Events : Listed(d)' => happening'[d].image \in 1..stored \cup {None}
    BY <1>1, <1>15, <1>16 DEF Pictures, Known
  <2>2. \A b \in Workers, d \in Events : \A g : Holds(task'[b], d, g) => g \in 1..stored \cup {None}
    BY <1>1, <1>13 DEF Pictures, Known
  <2> QED BY <1>9, <2>1, <2>2 DEF Known, Holds
<1>18. Fresh'
  <2> SUFFICES ASSUME NEW a \in Workers, task'[a].op = "stored"
               PROVE  /\ task'[a].file \in files'
                      /\ \A d \in Events : Listed(d)' => happening'[d].image # task'[a].file
                      /\ \A b \in Workers, d \in Events : ~ Holds(task'[b], d, task'[a].file)
                      /\ \A b \in Workers : task'[b].op = "stored" /\ task'[b].file = task'[a].file
                           => b = a
    BY DEF Fresh, Holds
  <2>g. PICK g : g = task'[a].file
    OBVIOUS
  <2>1. task[a].op = "stored" /\ task[a].file = g
    BY <1>14, <2>g
  <2>2. /\ g \in files
        /\ \A d \in Events : Listed(d) => happening[d].image # g
        /\ \A b \in Workers, d \in Events : ~ Holds(task[b], d, g)
        /\ \A b \in Workers : task[b].op = "stored" /\ task[b].file = g => b = a
    BY <1>1, <2>1 DEF Pictures, Fresh
  <2>3. \A d \in Events : Listed(d)' => happening'[d].image # g
    BY <1>1, <1>15, <1>16, <2>2
  <2>4. \A b \in Workers : task'[b].op = "stored" /\ task'[b].file = g => b = a
    BY <1>14, <2>2
  <2> QED BY <1>9, <1>13, <2>2, <2>3, <2>4, <2>g
<1>19. \A d \in Events : Listed(d)' /\ d # copy /\ happening'[d].image = x.image =>
         happening'[d].image = None \/ happening'[d].shared
  BY <1>1, <1>15, <1>16 DEF Pictures, HoldsApart
<1>20. RowsApart'
  <2> SUFFICES ASSUME NEW d \in Events, NEW a \in Events, Listed(d)', Listed(a)', d # a,
                      happening'[d].image = happening'[a].image
               PROVE  happening'[d].image = None \/ happening'[d].shared
    BY DEF RowsApart
  <2>1. CASE d = copy \/ a = copy
    BY <1>16, <1>19, <2>1
  <2>2. CASE d # copy /\ a # copy
    BY <1>1, <1>16, <2>2 DEF Pictures, RowsApart
  <2> QED BY <2>1, <2>2
<1>21. HoldsApart'
  <2>1. \A b \in Workers, d, a \in Events :
          Listed(d)' /\ d # a /\ Holds(task'[b], a, happening'[d].image) =>
            happening'[d].image = None \/ happening'[d].shared
    BY <1>1, <1>13, <1>16 DEF Pictures, HoldsApart
  <2> QED BY <2>1 DEF HoldsApart, Holds
<1>22. Replaced'
  BY <1>1, <1>14, <1>16 DEF Pictures, Replaced
<1>23. Life!ImageExists'
  <2>1. \A d \in Events : Listed(d)' =>
          happening'[d].image = None \/ happening'[d].shared \/ happening'[d].image \in files'
    BY <1>1, <1>9, <1>16 DEF Pictures, Life!ImageExists, Life!Rows, Listed
  <2> QED BY <2>1 DEF Life!ImageExists, Life!Rows, Listed
<1>24. Mails'
  <2>1. \A b \in Servers : task'[b].op = "mark" => task'[b] = task[b]
    BY <1>14 DEF Workers
  <2>2. \A d \in Events : Listed(d)' /\ happening'[d].mapSent => Listed(d) /\ happening[d].mapSent
    BY <1>1, <1>3, <1>6, <1>16
  <2> QED BY <1>1, <1>9, <2>1, <2>2, MailsKept
<1> QED BY <1>1, <1>9, <1>12, <1>17, <1>18, <1>20, <1>21, <1>22, <1>23, <1>24
        DEF LifeInv, Pictures

LEMMA LifeInit ==
  ASSUME LifeAssumption, Life!Init
  PROVE  LifeInv
<1>1. \A e \in Events : ~ Listed(e)
  BY DEF Life!Init, Listed
<1>2. /\ task = [c \in Workers |-> Life!Idle]
      /\ Life!Idle.op = "idle" /\ Read(Life!Idle) /\ \A d, f : ~ Holds(Life!Idle, d, f)
  BY DEF Life!Init, Life!Idle, Workers, Read, Holds, Uploads
<1>3. LifeTypes
  <2>1. night \in 0..MaxNight /\ stored \in 0..MaxFiles /\ files \subseteq 1..stored
    BY DEF Life!Init, LifeAssumption
  <2>2. happening \in [Events -> EventRow \cup {None}] /\ unseen \in BOOLEAN
    BY DEF Life!Init
  <2>3. late \subseteq donated /\ donated \subseteq Life!Pairs /\ mail \in [Life!Pairs -> 0..1]
    BY DEF Life!Init
  <2>4. task = [c \in Workers |-> task[c]] /\ \A c \in Workers : Read(task[c])
    BY <1>2
  <2> QED BY <2>1, <2>2, <2>3, <2>4 DEF LifeTypes
<1>4. Pictures
  BY <1>1, <1>2 DEF Pictures, Known, Fresh, RowsApart, HoldsApart, Replaced,
                    Life!ImageExists, Life!Rows, Listed
<1>5. Mails /\ ~ unseen
  BY <1>2 DEF Life!Init, Mails, Marked, Life!SupportersAreMailed, Workers
<1> QED BY <1>3, <1>4, <1>5 DEF LifeInv

LEMMA LifeStep ==
  ASSUME LifeAssumption, LifeInv, [Life!Next]_Life!vars
  PROVE  LifeInv'
<1>1. ASSUME NEW e \in Events, Life!remove(e) PROVE LifeInv'
  BY <1>1, LifeRemove
<1>2. ASSUME NEW e \in Events, NEW u \in Supporters, Life!Donate(e, u) PROVE LifeInv'
  BY <1>2, LifeDonate
<1>3. ASSUME NEW e \in Events, NEW s \in Servers, NEW copy \in Events,
             Life!CopyRecurring(s, e, copy)
      PROVE  LifeInv'
  BY <1>3, LifeCopy
<1>4. ASSUME NEW e \in Events, NEW c \in Calls, NEW repeat \in Repeats, NEW file \in BOOLEAN,
             Life!create(c, e, repeat, file)
      PROVE  LifeInv'
  BY <1>4, LifeCreate
<1>5. ASSUME \/ \E c \in Calls, e \in Events : Life!ShowEvent(c, e)
             \/ \E c \in Calls, e \in Events, file \in BOOLEAN : Life!update(c, e, file)
             \/ \E c \in Calls : Life!updateForDashboard(c)
             \/ \E s \in Servers, e \in Events : Life!sendImpactMapEmails(s, e)
             \/ \E s \in Servers : Life!ReadRecurring(s)
             \/ \E c \in Workers : Life!Abandon(c)
      PROVE  LifeInv'
  BY <1>5, LifeReads
<1>6. ASSUME NEW c \in Calls, NEW end \in 0..MaxNight, Life!applyEventUpdate(c, end)
      PROVE  LifeInv'
  BY <1>6, LifeUpdate
<1>7. ASSUME NEW c \in Calls,
             Life!StoreFile(c) \/ Life!SaveImage(c) \/ Life!DeleteOld(c) \/ Life!RetryUpload(c)
      PROVE  LifeInv'
  BY <1>7, LifeStore, LifeSave, LifeDelete, LifeRetry
<1>8. ASSUME NEW s \in Servers, Life!processEvent(s) \/ Life!markImpactMapSent(s) PROVE LifeInv'
  BY <1>8, LifeProcess, LifeMark
<1>9. CASE Life!Tick
  BY <1>9, LifeTick
<1>10. CASE UNCHANGED Life!vars
  <2>1. /\ night' = night /\ happening' = happening /\ files' = files /\ stored' = stored
        /\ donated' = donated /\ late' = late /\ mail' = mail /\ unseen' = unseen /\ task' = task
    BY <1>10 DEF Life!vars
  <2>2. LifeTypes'
    BY <2>1 DEF LifeInv, LifeTypes, Read
  <2>3. Pictures'
    BY <2>1 DEF LifeInv, Pictures, Known, Fresh, RowsApart, HoldsApart, Replaced,
                Life!ImageExists, Life!Rows, Listed, Holds
  <2>4. Mails'
    BY <2>1 DEF LifeInv, Mails, Marked, Life!SupportersAreMailed
  <2> QED BY <2>1, <2>2, <2>3, <2>4 DEF LifeInv
<1> QED BY <1>1, <1>2, <1>3, <1>4, <1>5, <1>6, <1>7, <1>8, <1>9, <1>10
        DEF Life!Next, Workers

LEMMA LifeInvariant == LifeAssumption /\ Life!Spec => []LifeInv
<1>1. CASE LifeAssumption
  <2>1. Life!Init => LifeInv
    BY <1>1, LifeInit
  <2>2. LifeInv /\ [Life!Next]_Life!vars => LifeInv'
    BY <1>1, LifeStep
  <2> QED BY <2>1, <2>2, PTL DEF Life!Spec
<1> QED BY <1>1

(* The tables of the event service keep their types, the history of the mail  *)
(* queue included: event.entity.ts, and a job name the queue takes once.      *)
THEOREM LifeTyped == LifeAssumption /\ Life!Spec => []Life!TypeOK
<1>1. CASE LifeAssumption
  <2>1. LifeInv => Life!TypeOK
    BY DEF LifeInv, LifeTypes, Life!TypeOK, Life!Rows, EventRow, Images
  <2> QED BY <2>1, LifeInvariant, PTL
<1> QED BY <1>1

(* uploadImageInBackground deletes a picture only once nothing but nightly    *)
(* copies and their originals can name it, for any number of edits of a row   *)
(* that overlap, fail half way, begin again or are cut short.                 *)
THEOREM PicturesExist == LifeAssumption /\ Life!Spec => []Life!ImageExists
<1>1. LifeInv => Life!ImageExists
  BY DEF LifeInv, Pictures
<1> QED BY <1>1, LifeInvariant, PTL

(* A dashboard edit that waited for the event's lock replaces nothing its     *)
(* user was not shown.                                                        *)
THEOREM EditsMatchWhatWasShown == LifeAssumption /\ Life!Spec => []Life!EditsWhatWasShown
<1>1. LifeInv => Life!EditsWhatWasShown
  BY DEF LifeInv, Life!EditsWhatWasShown
<1> QED BY <1>1, LifeInvariant, PTL

(* processEvent marks an event only when the queue has a mail for everyone    *)
(* who gave in time, for any number of servers that work on it at once.       *)
THEOREM SupportersMailed == LifeAssumption /\ Life!Spec => []Life!SupportersAreMailed
<1>1. LifeInv => Life!SupportersAreMailed
  BY DEF LifeInv, Mails
<1> QED BY <1>1, LifeInvariant, PTL

(* All that the runs check of rides and their chat.                           *)
THEOREM CarpoolCorrect == ChatAssumption /\ Chat!Spec => []Chat!CarpoolSafe
BY ChatTyped, KeysNameOneMessage, MembersSpeak, RemovalFollowsAcceptance, ChatAdmitsMembers, PTL
   DEF Chat!CarpoolSafe

(* All that the runs check of the life of events.                             *)
THEOREM EventsCorrect == LifeAssumption /\ Life!Spec => []Life!EventsSafe
BY LifeTyped, PicturesExist, EditsMatchWhatWasShown, SupportersMailed, PTL DEF Life!EventsSafe
=============================================================================
