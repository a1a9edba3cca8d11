------------------------------ MODULE Badges ------------------------------
(***************************************************************************)
(* Achievements of one user: badge.service.ts, badge-progress.ts and the   *)
(* catalogue they evaluate.                                                *)
(*                                                                         *)
(* Every reading of the badges is a transaction that locks the user's row, *)
(* reads the activity statement by statement, each of which sees what is   *)
(* committed when it runs, and then writes the awards.  The activity       *)
(* itself (check-ins, confirmed work, reports, gifts and their refunds)    *)
(* changes without that lock, in between.  A day stands for an instant;    *)
(* names, icons and the words of the guidance are left out.                *)
(*                                                                         *)
(* A definition whose comment begins with "Wrong" is not part of the       *)
(* specification: it is the faulty variant of the one that follows it.     *)
(***************************************************************************)
EXTENDS Integers, FiniteSets, FiniteSetsExt

CONSTANTS
  Calls,         \* requests in flight
  None,
  BADGE_CATALOG, \* badge: its metric, its target, and is it about giving
  Records,       \* what may be recorded: source, event, amount, a number
  EndDay,        \* the day each event ends
  Month,         \* the calendar month of each day, in Africa/Lagos
  MaxDay         \* bound: days

VARIABLES
  today,
  record,    \* the day of each record; 0: there is none
  badge,     \* the rows of UserBadge
  lost,      \* history: not earned when last read, and not qualified for since
  choice,    \* history: the visibility the user last asked for
  work       \* the readings in flight

vars == <<today, record, badge, lost, choice, work>>

Badge == DOMAIN BADGE_CATALOG
Days == 1..MaxDay
Statements == <<{"ticket"}, {"registration"}, {"volunteer", "confirmed"}, {"guest"}, {"report"},
                {"gift"}>>
Idle == [op |-> "idle"]

Init ==
  /\ today = 1 /\ record = [r \in Records |-> 0]
  /\ badge = [b \in Badge |-> None] /\ lost = Badge
  /\ choice = [b \in Badge |-> None]
  /\ work = [c \in Calls |-> Idle]

-----------------------------------------------------------------------------
(* activity: the contributions to a metric on day `now', from the days of    *)
(* the records.  Several records of one event are one attendance.            *)
Found(seen, now, sources) == {r \in Records : r.source \in sources /\ seen[r] \in 1..now}
Each(seen, amount) == {[of |-> r, at |-> seen[r], amount |-> amount[r]] : r \in DOMAIN amount}
OnePer(seen, key) ==
  {[of |-> k, at |-> Min({seen[r] : r \in {q \in DOMAIN key : key[q] = k}}), amount |-> 1] :
     k \in {key[r] : r \in DOMAIN key}}

activity(seen, now, metric) ==
  LET Of(sources) == Found(seen, now, sources)
      Ended(found) == {r \in found : EndDay[r.event] <= now}
      Ones(found) == [r \in found |-> 1]
      Events(found) == [r \in found |-> r.event] IN
  CASE metric = "attendance" ->
         OnePer(seen, Events(Of({"ticket", "registration", "volunteer"})))
    [] metric = "volunteerEvents" -> Each(seen, Ones(Ended(Of({"confirmed"}))))
    [] metric = "volunteerMinutes" -> Each(seen, [r \in Ended(Of({"confirmed"})) |-> r.amount])
    [] metric = "hostedEvents" ->
         {[of |-> e, at |-> EndDay[e], amount |-> 1] :
            e \in {r.event : r \in Ended(Of({"guest"}))}}
    [] metric = "impactReports" -> Each(seen, Ones(Ended(Of({"report"}))))
    [] metric = "donations" -> Each(seen, Ones(Of({"gift"})))
    [] metric = "donatedEvents" -> OnePer(seen, Events(Of({"gift"})))
    [] metric = "donationMonths" -> OnePer(seen, [r \in Of({"gift"}) |-> Month[seen[r]]])

(* badgeProgress: the day the running total reached the target, or 0.        *)
badgeProgress(b, seen, now) ==
  LET counted == activity(seen, now, BADGE_CATALOG[b].metric)
      Total(d) == MapThenSumSet(LAMBDA a : a.amount, {a \in counted : a.at <= d})
      reached == {d \in 1..now : Total(d) >= BADGE_CATALOG[b].target} IN
  IF reached = {} THEN 0 ELSE Min(reached)

Qualified(records, now) == {b \in Badge : badgeProgress(b, records, now) # 0}

-----------------------------------------------------------------------------
(* The activity is recorded by other components, and edited or undone.       *)
Becomes(records, day) ==
  LET earned == Qualified(records, day) IN
  /\ record' = records /\ today' = day
  /\ lost' = lost \ earned
  /\ work' = [c \in Calls |-> IF work[c] = Idle THEN Idle
                              ELSE [work[c] EXCEPT !.never = @ \ earned]]
  /\ UNCHANGED <<badge, choice>>

\* Work is confirmed, and a report published, once the event has ended; a
\* report that is edited is published again.
RecordActivity(r) ==
  /\ record[r] = 0 \/ (r.source = "report" /\ record[r] # today)
  /\ r.source \in {"confirmed", "report"} => EndDay[r.event] <= today
  /\ Becomes([record EXCEPT ![r] = today], today)

\* A ticket or a registration that was used stays used.
RemoveActivity(r) ==
  /\ record[r] # 0 /\ r.source \notin {"ticket", "registration"}
  /\ Becomes([record EXCEPT ![r] = 0], today)

Tick == today < MaxDay /\ Becomes(record, today + 1)

-----------------------------------------------------------------------------
(* Wrong: the user's row is read and not locked. *)
RowExists(c) == TRUE
RowIsFree(c) == \A d \in Calls : work[d] = Idle

lockUser(c, asked) ==
  /\ work[c] = Idle /\ RowIsFree(c)
  /\ work' = [work EXCEPT ![c] =
       [op |-> "reading", asked |-> asked, now |-> today,
        never |-> Badge \ Qualified(record, today),
        seen |-> [r \in Records |-> 0], left |-> {r.source : r \in Records}]]
  /\ UNCHANGED <<today, record, badge, lost, choice>>

getMine(c) == lockUser(c, None)
setVisibility(c, b, isPublic) == lockUser(c, <<b, isPublic>>)

(* The next statement that there may be records for.                         *)
ReadActivity(c) ==
  LET left == work[c].left
      next == Min({i \in DOMAIN Statements : Statements[i] \cap left # {}}) IN
  /\ work[c].op = "reading" /\ left # {}
  /\ work' = [work EXCEPT
       ![c].left = @ \ Statements[next],
       ![c].seen = [r \in Records |-> IF r.source \in Statements[next] THEN record[r] ELSE @[r]]]
  /\ UNCHANGED <<today, record, badge, lost, choice>>

\* The donations read before are looked up as payments, and the rows read.
ReadTransactions(c) ==
  LET settled == [r \in Records |->
        IF r.source # "gift" \/ record[r] # 0 THEN work[c].seen[r] ELSE 0] IN
  /\ work[c].op = "reading" /\ work[c].left = {}
  /\ work' = [work EXCEPT ![c] =
       [op |-> "read", asked |-> @.asked, never |-> @.never, saved |-> badge,
        earned |-> [b \in Badge |-> badgeProgress(b, settled, @.now)]]]
  /\ UNCHANGED <<today, record, badge, lost, choice>>

(* An award that is kept keeps its date; one that is lost keeps its row.     *)
EarnedAt(c, b) ==
  LET saved == work[c].saved[b]  at == work[c].earned[b] IN
  IF at # 0 /\ saved # None /\ saved.earnedAt # 0 THEN saved.earnedAt ELSE at

(* Wrong: an award that is earned again starts as a new one does. *)
UpsertAnew(row, b, at) ==
  IF at # 0 THEN [earnedAt |-> at, isPublic |-> ~ BADGE_CATALOG[b].giving]
  ELSE IF row = None THEN None ELSE [row EXCEPT !.earnedAt = 0]
Upsert(row, b, at) ==
  IF row # None THEN [row EXCEPT !.earnedAt = at]
  ELSE IF at = 0 THEN None
  ELSE [earnedAt |-> at, isPublic |-> ~ BADGE_CATALOG[b].giving]

reconcile(c) == [b \in Badge |-> Upsert(badge[b], b, EarnedAt(c, b))]

\* Refusing to show a badge that is not earned undoes the transaction.
CommitAwards(c) ==
  LET asked == work[c].asked
      refused == asked # None /\ EarnedAt(c, asked[1]) = 0 IN
  /\ work[c].op = "read"
  /\ IF refused THEN UNCHANGED <<badge, lost, choice>>
     ELSE /\ lost' = lost \cup work[c].never
          /\ IF asked = None THEN badge' = reconcile(c) /\ UNCHANGED choice
             ELSE /\ badge' = [reconcile(c) EXCEPT ![asked[1]].isPublic = asked[2]]
                  /\ choice' = [choice EXCEPT ![asked[1]] = asked[2]]
  /\ work' = [work EXCEPT ![c] = Idle]
  /\ UNCHANGED <<today, record>>

Abandon(c) ==
  /\ work[c] # Idle
  /\ work' = [work EXCEPT ![c] = Idle]
  /\ UNCHANGED <<today, record, badge, lost, choice>>

Next ==
  \/ \E r \in Records : RecordActivity(r) \/ RemoveActivity(r)
  \/ Tick
  \/ \E c \in Calls :
       \/ getMine(c)
       \/ \E b \in Badge, isPublic \in BOOLEAN : setVisibility(c, b, isPublic)
       \/ ReadActivity(c) \/ ReadTransactions(c) \/ CommitAwards(c) \/ Abandon(c)

Spec == Init /\ [][Next]_vars

-----------------------------------------------------------------------------
(* Every variable keeps its type. *)
TypeOK ==
  /\ today \in Days /\ record \in [Records -> 0..MaxDay]
  /\ \A b \in Badge :
       badge[b] \in [earnedAt : 0..MaxDay, isPublic : BOOLEAN] \cup {None}
  /\ lost \subseteq Badge /\ choice \in [Badge -> BOOLEAN \cup {None}]
  /\ DOMAIN work = Calls

(* "Evaluate from source records so refunds, unpublishing and deleted         *)
(* activity cannot leave stale awards": once a reading that began after an    *)
(* achievement was lost has ended, no other reading, however early it read    *)
(* the activity, brings the award back until it is earned again.              *)
NoStaleAward == \A b \in lost : badge[b] = None \/ badge[b].earnedAt = 0

(* "Giving badges start private" and "saved visibility preferences are        *)
(* retained if a badge is earned again": whether a badge shows is what its    *)
(* owner last asked for, through losses, refusals and concurrent readings.    *)
PrivacyIsChosen ==
  \A b \in Badge : badge[b] # None =>
    badge[b].isPublic = IF choice[b] = None THEN ~ BADGE_CATALOG[b].giving ELSE choice[b]

(* Badges are not awarded on activity that is gone; their privacy is chosen.   *)
BadgesSafe == TypeOK /\ NoStaleAward /\ PrivacyIsChosen
=============================================================================
