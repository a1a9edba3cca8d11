---------------------------- MODULE InterestMap ----------------------------
(***************************************************************************)
(* The interest map of one user: user-preference.service.ts, the surveys   *)
(* of event-feedback.service.ts and the weights of interest-profile.ts.    *)
(*                                                                         *)
(* A step of a transaction is one or more of its statements; what it       *)
(* wrote is seen by others when it commits.  Weights are in twentieths and *)
(* every signal has its full strength: neither the half-life of 30 days    *)
(* nor the limits of 200 signals and 180 days are modelled.  City and help *)
(* modes only order recommendations and are left out.                      *)
(*                                                                         *)
(* A definition whose comment begins with "Wrong" is not part of the       *)
(* specification: it is the faulty variant of the one that follows it.     *)
(***************************************************************************)
EXTENDS Integers, FiniteSets, FiniteSetsExt

CONSTANTS
  Events,
  eventTopics,   \* the topics of each event
  EndDay,        \* the day each event ends; it is over from then on
  Offers,        \* what the user can do at each event: a subset of Activities
  Kinds,         \* kinds of signal the clients send
  Calls,         \* transactions in flight
  None,
  Window,        \* days after an event in which its survey is offered
  MaxDay,        \* bound: days
  MaxMaps        \* bound: rows of UserPreference, one at a time

VARIABLES
  today,
  map,         \* the row of UserPreference
  signal,      \* rows of InterestSignal: event and kind
  feedback,    \* row of EventFeedback for each event
  activity,    \* bookings, volunteer applications and donations
  told,        \* history: weight each survey's answers reported as changed
  answered,    \* history: events whose survey was ever answered
  forgotten,   \* history: what existed when the last reset began
  work

vars == <<today, map, signal, feedback, activity, told, answered, forgotten, work>>

Topics == UNION {eventTopics[e] : e \in Events}
Ratings == {"LOVED", "OKAY", "NOT_FOR_ME"}
Activities == {"ATTEND", "VOLUNTEER", "DONATE"}
Statuses == [ATTEND |-> {"active", "used"}, DONATE |-> {"completed"},
             VOLUNTEER |-> {"APPLIED", "CHECKED_IN"}]
Idle == [op |-> "idle"]
NoActivity == [status |-> "none", at |-> 0]

Init ==
  /\ today = 1 /\ map = None /\ signal = {}
  /\ feedback = [e \in Events |-> None]
  /\ activity = [e \in Events |-> [k \in Activities |-> NoActivity]]
  /\ told = [e \in Events |-> 0] /\ answered = {} /\ forgotten = {}
  /\ work = [c \in Calls |-> Idle]

-----------------------------------------------------------------------------
(* What the map is learned from, as pairs of kind and event.                 *)
Answered(e) == feedback[e] # None /\ feedback[e].rating # None

Existing ==
  signal \cup {<<"ANSWER", e>> : e \in {d \in Events : Answered(d)}}
         \cup {<<k, e>> \in Activities \X Events : activity[e][k].status # "none"}

(* rankingProfile looks for donations whose status is active.                *)
Counted == [ATTEND |-> {"active"}, DONATE |-> {"active"},
            VOLUNTEER |-> {"APPLIED", "CHECKED_IN"}]

(* Wrong: the cutoff is not applied to bookings and donations. *)
Ever(a) == a.at > 0
AfterCutoff(a) == a.at > map.since

Learned(k, e) ==
  LET a == activity[e][k] IN map.learning /\ a.status \in Counted[k] /\ AfterCutoff(a)

\* An answer replaces everything else that was learned from its event.
rankingProfile ==
  IF map = None THEN {}
  ELSE {<<k, e>> \in Existing :
          IF Answered(e) THEN k = "ANSWER"
          ELSE IF k \in Activities THEN Learned(k, e)
          ELSE map.learning \/ k = "LIKE"}

SIGNAL_STRENGTH ==
  [LIKE |-> 30, VIEW |-> 3, ATTEND |-> 40, VOLUNTEER |-> 40, DONATE |-> 40,
   LOVED |-> 40, OKAY |-> 10, NOT_FOR_ME |-> -30, MORE_LIKE_THIS |-> 20]

AnswerStrength(f) ==
  IF f = None \/ f.rating = None THEN 0
  ELSE SIGNAL_STRENGTH[f.rating] + (IF f.more THEN SIGNAL_STRENGTH["MORE_LIKE_THIS"] ELSE 0)

Strength(source) ==
  IF source[1] = "ANSWER" THEN AnswerStrength(feedback[source[2]])
  ELSE SIGNAL_STRENGTH[source[1]]

(* Wrong: dislikes count in full. *)
Unbounded(sum) == sum
Bounded(sum) == IF sum > 60 THEN 60 ELSE IF sum < -40 THEN -40 ELSE sum

interestWeight(t) ==
  LET sum == MapThenSumSet(Strength, {s \in rankingProfile : t \in eventTopics[s[2]]})
      weight == (IF t \in map.interests THEN 100 ELSE 0) + Bounded(sum) IN
  IF weight > 0 THEN weight ELSE 0

-----------------------------------------------------------------------------
(* eligibleEvents: over for no longer than the window and no earlier than    *)
(* the last reset, and the user checked in.                                  *)
(* Wrong: a reset does not move the surveys' cutoff. *)
EndedLately(e) == EndDay[e] \in today - Window + 1 .. today
EndedSince(e) == EndDay[e] \in today - Window + 1 .. today /\ EndDay[e] > map.since

eligible(e) ==
  /\ EndedSince(e)
  /\ activity[e]["ATTEND"].status = "used" \/ activity[e]["VOLUNTEER"].status = "CHECKED_IN"

pending(e) ==
  /\ map # None /\ eligible(e)
  /\ feedback[e] = None \/ (feedback[e].rating = None /\ feedback[e].deferred <= today)

(* Wrong: the map's row is read and not locked. *)
RowExists == map # None
RowIsFree == map # None /\ \A c \in Calls : work[c].op \notin {"answer", "defer"}

Deleted(c) == IF work[c].op = "reset" THEN work[c].deleted ELSE {}
Unlocked(source) == \A c \in Calls : source \notin Deleted(c)

\* A source that is made anew is not one that an earlier reset has seen.
Renew(next, made) ==
  /\ forgotten' = forgotten \ (made \ Existing)
  /\ work' = [c \in Calls |->
       IF next[c].op = "reset" THEN [next[c] EXCEPT !.known = @ \ (made \ Existing)] ELSE next[c]]

-----------------------------------------------------------------------------
NewMap(interests, learning) ==
  [id |-> IF map = None THEN 1 ELSE map.id + 1,
   interests |-> interests, learning |-> learning, since |-> today]

updatePreferences(interests, learning, liked) ==
  LET made == {<<"LIKE", e>> : e \in liked} IN
  /\ map # None => RowIsFree
  /\ \A s \in made : Unlocked(s)
  /\ map' = IF map = None THEN NewMap(interests, learning)
            ELSE [map EXCEPT !.interests = interests, !.learning = learning]
  /\ signal' = signal \cup made /\ Renew(work, made)
  /\ UNCHANGED <<today, feedback, activity, told, answered>>

\* recordSignal: the map is read without a lock; views count while learning.
recordSignal(c, kind, e) ==
  /\ work[c] = Idle /\ map # None /\ (map.learning \/ kind = "LIKE")
  /\ work' = [work EXCEPT ![c] = [op |-> "signal", id |-> map.id, made |-> <<kind, e>>]]
  /\ UNCHANGED <<today, map, signal, feedback, activity, told, answered, forgotten>>

\* The new row refers to the map's row, which must still be there.
WriteSignal(c) ==
  LET made == work[c].made IN
  /\ work[c].op = "signal" /\ RowIsFree /\ map.id = work[c].id /\ Unlocked(made)
  /\ signal' = signal \cup {made}
  /\ Renew([work EXCEPT ![c] = Idle], {made})
  /\ UNCHANGED <<today, map, feedback, activity, told, answered>>

-----------------------------------------------------------------------------
(* resetLearning: signals and answers are deleted by two statements, and     *)
(* the map's row is only locked by the third.                                *)
resetLearning(c) ==
  /\ work[c] = Idle /\ map # None
  /\ work' = [work EXCEPT ![c] =
       [op |-> "reset", id |-> map.id, known |-> Existing, deleted |-> {}, step |-> 1]]
  /\ UNCHANGED <<today, map, signal, feedback, activity, told, answered, forgotten>>

DeleteSignals(c) ==
  /\ work[c].op = "reset" /\ work[c].step = 1
  /\ work' = [work EXCEPT ![c].deleted = IF map.id = work[c].id THEN signal ELSE {}, ![c].step = 2]
  /\ UNCHANGED <<today, map, signal, feedback, activity, told, answered, forgotten>>

DeleteAnswers(c) ==
  LET rows == {<<"SURVEY", e>> : e \in {d \in Events : feedback[d] # None}} IN
  /\ work[c].op = "reset" /\ work[c].step = 2
  /\ work' = [work EXCEPT ![c].deleted = IF map.id = work[c].id THEN @ \cup rows ELSE @, ![c].step = 3]
  /\ UNCHANGED <<today, map, signal, feedback, activity, told, answered, forgotten>>

AdvanceCutoff(c) ==
  LET same == map.id = work[c].id
      gone == {e \in Events : same /\ <<"SURVEY", e>> \in work[c].deleted} IN
  /\ work[c].op = "reset" /\ work[c].step = 3 /\ RowIsFree
  /\ map' = [map EXCEPT !.since = today]
  /\ signal' = IF same THEN signal \ work[c].deleted ELSE signal
  /\ feedback' = [e \in Events |-> IF e \in gone THEN None ELSE feedback[e]]
  /\ told' = [e \in Events |-> IF e \in gone THEN 0 ELSE told[e]]
  /\ forgotten' = forgotten \cup work[c].known
  /\ work' = [work EXCEPT ![c] = Idle]
  /\ UNCHANGED <<today, activity, answered>>

\* The rows that refer to the map go with it; a new and empty map remains.
deleteMap ==
  /\ map # None => RowIsFree /\ map.id < MaxMaps
  /\ map' = NewMap({}, FALSE)
  /\ signal' = {} /\ feedback' = [e \in Events |-> None] /\ told' = [e \in Events |-> 0]
  /\ forgotten' = Existing
  /\ UNCHANGED <<today, activity, answered, work>>

-----------------------------------------------------------------------------
(* save and defer lock the map's row, look whether the survey is offered,    *)
(* and read what was answered before.                                        *)
context(c, op, e) ==
  /\ work[c] = Idle /\ RowIsFree /\ eligible(e)
  /\ work' = [work EXCEPT ![c] = [op |-> op, id |-> map.id, event |-> e, before |-> feedback[e]]]
  /\ UNCHANGED <<today, map, signal, feedback, activity, told, answered, forgotten>>

save(c, rating, more) ==
  LET e == work[c].event
      row == [rating |-> rating, more |-> more, deferred |-> 0] IN
  /\ work[c].op = "answer" /\ map.id = work[c].id /\ Unlocked(<<"SURVEY", e>>)
  /\ rating = "NOT_FOR_ME" => ~ more
  /\ feedback' = [feedback EXCEPT ![e] = row]
  /\ told' = [told EXCEPT ![e] = @ + AnswerStrength(row) - AnswerStrength(work[c].before)]
  /\ answered' = answered \cup {e}
  /\ Renew([work EXCEPT ![c] = Idle], {<<"ANSWER", e>>})
  /\ UNCHANGED <<today, map, signal, activity>>

defer(c) ==
  LET e == work[c].event IN
  /\ work[c].op = "defer" /\ map.id = work[c].id /\ Unlocked(<<"SURVEY", e>>)
  /\ work[c].before # None => work[c].before.rating = None
  /\ feedback' = [feedback EXCEPT ![e] =
       IF @ = None THEN [rating |-> None, more |-> FALSE, deferred |-> today + 1]
       ELSE [@ EXCEPT !.deferred = today + 1]]
  /\ work' = [work EXCEPT ![c] = Idle]
  /\ UNCHANGED <<today, map, signal, activity, told, answered, forgotten>>

-----------------------------------------------------------------------------
(* External: the user books, applies and donates, and is checked in.         *)
Take(e, k, status) ==
  /\ k \in Offers[e] /\ today < EndDay[e] /\ activity[e][k] = NoActivity
  /\ activity' = [activity EXCEPT ![e][k] = [status |-> status, at |-> today]]
  /\ UNCHANGED <<today, map, signal, feedback, told, answered, forgotten, work>>

CheckIn(e, k, from, status) ==
  /\ today < EndDay[e] /\ activity[e][k].status = from
  /\ activity' = [activity EXCEPT ![e][k].status = status]
  /\ UNCHANGED <<today, map, signal, feedback, told, answered, forgotten, work>>

Tick ==
  /\ today < MaxDay /\ today' = today + 1
  /\ UNCHANGED <<map, signal, feedback, activity, told, answered, forgotten, work>>

\* A statement fails, two transactions wait for each other, or a process stops.
Abandon(c) ==
  /\ work[c] # Idle /\ work' = [work EXCEPT ![c] = Idle]
  /\ UNCHANGED <<today, map, signal, feedback, activity, told, answered, forgotten>>

Next ==
  \/ \E interests \in SUBSET Topics, learning \in BOOLEAN,
       liked \in {{}} \cup (IF "LIKE" \in Kinds THEN SUBSET Events ELSE {}) :
       updatePreferences(interests, learning, liked)
  \/ deleteMap \/ Tick
  \/ \E e \in Events :
       \/ Take(e, "ATTEND", "active") \/ CheckIn(e, "ATTEND", "active", "used")
       \/ Take(e, "VOLUNTEER", "APPLIED") \/ CheckIn(e, "VOLUNTEER", "APPLIED", "CHECKED_IN")
       \/ Take(e, "DONATE", "completed")
       \/ \E c \in Calls :
            \/ \E kind \in Kinds : recordSignal(c, kind, e)
            \/ context(c, "answer", e) \/ context(c, "defer", e)
  \/ \E c \in Calls :
       \/ WriteSignal(c) \/ resetLearning(c) \/ DeleteSignals(c) \/ DeleteAnswers(c)
       \/ AdvanceCutoff(c) \/ defer(c) \/ Abandon(c)
       \/ \E rating \in Ratings, more \in BOOLEAN : save(c, rating, more)

Spec == Init /\ [][Next]_vars

-----------------------------------------------------------------------------
(* Every variable keeps its type. *)
TypeOK ==
  /\ today \in 1..MaxDay
  /\ map # None => map \in [id : 1..MaxMaps, interests : SUBSET Topics, learning : BOOLEAN,
                            since : 1..MaxDay]
  /\ signal \subseteq Kinds \X Events
  /\ \A e \in Events : feedback[e] # None => feedback[e] \in
       [rating : Ratings \cup {None}, more : BOOLEAN, deferred : 0..MaxDay + 1]
  /\ \A e \in Events, k \in Activities : activity[e][k] \in
       [status : Statuses[k] \cup {"none"}, at : 0..MaxDay]
  /\ told \in [Events -> Int] /\ answered \subseteq Events

(* "Serialize answers for one map so retries cannot add the same signal       *)
(* twice": the changes reported by all the answers to a survey, retried,      *)
(* changed or overlapping, add up to the one answer that is kept.             *)
ChangesAddUp == \A e \in Events : told[e] = AnswerStrength(feedback[e])

(* A survey that has been answered is not one for later: "Not now" pressed    *)
(* while the answer is on its way is refused.                                 *)
AnswerEndsDeferral == \A e \in Events : Answered(e) => feedback[e].deferred = 0

(* "Map reset clears survey learning and advances the cutoff": nothing that   *)
(* existed when a reset began is learned from after it ended, whatever is     *)
(* recorded, answered, deleted or switched on meanwhile and later.            *)
ResetForgets == rankingProfile \cap forgotten = {}

(* "Answered events are not prompted again", even when a reset or a deletion  *)
(* has removed the answer.                                                    *)
NotAskedAgain == \A e \in answered : ~ pending(e)

(* "Chosen interests retain a minimum weight of 3", however many events of    *)
(* the topic were not for the user.                                           *)
ChosenKeepTheirPlace ==
  map # None => \A t \in map.interests : interestWeight(t) >= 60

(* The map follows what its user did, answered and forgot.                     *)
InterestsSafe ==
  /\ TypeOK /\ ChangesAddUp /\ AnswerEndsDeferral /\ ResetForgets
  /\ NotAskedAgain /\ ChosenKeepTheirPlace
=============================================================================
