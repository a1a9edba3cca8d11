-------------------------------- MODULE Feed --------------------------------
(***************************************************************************)
(* The activity feed of one event (feed.service.ts).  Every completed      *)
(* ticket checkout, registration or donation calls it once, after the      *)
(* rows it reports are committed (feed-integration.service.ts); calls of   *)
(* different workers overlap, and everything they share is in Redis keys   *)
(* and feed rows, with no transaction around them.                         *)
(*                                                                         *)
(* A feed row is a position of "feed": rows are ordered by creation.  An   *)
(* activity list is its length, and entries leave it as they grow older    *)
(* (Age).  The keys that reserve a milestone or a frenzy expire on their   *)
(* own (ForgetMilestone, ForgetMerged, ForgetFrenzy).  Titles, actions and *)
(* metadata are left out, and so are the notifications a published row     *)
(* causes (see Notifications).                                             *)
(***************************************************************************)
EXTENDS Integers, FiniteSets, Sequences, SequencesExt, FiniteSetsExt

CONSTANTS Calls,        \* completed checkouts, each reporting itself
          Kinds,        \* subset of {"TICKET", "REGISTRATION", "DONATION"}
          Goal,         \* [Kinds -> Nat], what is for sale or asked for, 0 when none
          Thresholds,   \* [Kinds -> SUBSET Nat]: counts, or percents of a donation
          Frenzy,       \* [intensity -> how many activities start that frenzy]
          Strength,     \* [intensity -> Nat], the higher the stronger
          Gain,         \* how much a call may add to the total of its kind
          Readers,      \* users who read the feed page by page
          Limit,        \* rows of a page
          MaxForgets    \* bound: keys that expire

SoldOut == 0            \* the identifier "SOLD_OUT"; the others are thresholds
Intensities == DOMAIN Frenzy
NoFrenzy == "NONE"      \* no threshold was reached

VARIABLES
    feed,       \* the rows of the event's feed, oldest first
    total,      \* tickets sold, active registrations, naira donated
    recent,     \* the lengths of the activity lists in Redis
    lock,       \* the live frenzy lock key exists
    signed,     \* frenzies with a reservation key
    merged,     \* the list of milestones already created
    reserved,   \* milestones with a reservation key of their own
    almost,     \* the reservation of "almost sold out"
    work,       \* what each call has read and where it is
    reader,     \* what each reader has on screen
    hidden,     \* hidden feed rows of each reader
    lapsed,     \* history: how often a milestone's own key expired
    overran     \* history: a frenzy lock ran out under its holder

redis == <<recent, lock, signed, merged, reserved, almost>>
view == <<reader, hidden>>
history == <<lapsed, overran>>
vars == <<feed, total, redis, work, view, history>>

Steps == {"new", "frenzy", "locked", "live", "history", "unlock", "save", "count", "almost",
          "milestone", "reserve", "merge", "publish", "activity", "done"}

Row == [type : {"CURRENT_FRENZY", "FRENZY", "ALMOST", "MILESTONE", "ACTIVITY"},
        kind : Kinds, of : Nat, pinned : BOOLEAN]

Idle == [step |-> "new", kind |-> CHOOSE k \in Kinds : TRUE, lists |-> [i \in Intensities |-> 0],
         strongest |-> NoFrenzy, current |-> 0, fresh |-> FALSE, count |-> 0,
         listed |-> {}, milestone |-> SoldOut]

Unread == [joined |-> FALSE, shown |-> {}, cursor |-> 0, more |-> FALSE,
           due |-> {}, whole |-> TRUE]

TypeOK ==
    /\ feed \in Seq(Row)
    /\ total \in [Kinds -> Nat]
    /\ recent \in [Kinds -> [Intensities -> Nat]]
    /\ lock \in BOOLEAN /\ almost \in BOOLEAN /\ overran \in BOOLEAN
    /\ signed \subseteq Kinds \X Intensities
    /\ merged \in [Kinds -> SUBSET Nat] /\ reserved \in [Kinds -> SUBSET Nat]
    /\ \A c \in Calls : work[c].step \in Steps /\ work[c].kind \in Kinds
    /\ hidden \in [Readers -> SUBSET DOMAIN feed]
    /\ \A u \in Readers : reader[u].shown \subseteq DOMAIN feed

Init ==
    /\ feed = <<>>
    /\ total = [k \in Kinds |-> 0]
    /\ recent = [k \in Kinds |-> [i \in Intensities |-> 0]]
    /\ lock = FALSE /\ almost = FALSE /\ overran = FALSE
    /\ signed = {}
    /\ merged = [k \in Kinds |-> {}] /\ reserved = [k \in Kinds |-> {}]
    /\ work = [c \in Calls |-> Idle]
    /\ reader = [u \in Readers |-> Unread] /\ hidden = [u \in Readers |-> {}]
    /\ lapsed = [k \in Kinds |-> [m \in Thresholds[k] \cup {SoldOut} |-> 0]]

Rows(P(_)) == {i \in DOMAIN feed : P(feed[i])}
createFeed(row) == feed' = Append(feed, row)
Go(c, step) == work' = [work EXCEPT ![c].step = step]

-----------------------------------------------------------------------------
(* trackActivityForFrenzy and the live frenzy row.                          *)

(* A checkout of kind k has committed; its call reads the activity lists,   *)
(* adds itself and picks the strongest frenzy that the lists now amount to. *)
Track(c, k, gain) ==
    /\ work[c].step = "new"
    /\ total' = [total EXCEPT ![k] = @ + gain]
    /\ LET lists == [i \in Intensities |-> recent[k][i] + 1]
           triggered == {i \in Intensities : lists[i] >= Frenzy[i]}
           strongest == IF triggered = {} THEN NoFrenzy
                        ELSE CHOOSE i \in triggered : \A j \in triggered : Strength[i] >= Strength[j]
       IN  work' = [work EXCEPT ![c] = [Idle EXCEPT !.kind = k, !.lists = lists, !.strongest = strongest,
                                           !.step = IF strongest = NoFrenzy THEN "save" ELSE "frenzy"]]
    /\ UNCHANGED <<feed, redis, view, history>>

(* Wrong: the frenzy row is refreshed without asking for the lock. *)
NobodyAsks == TRUE

(* SET frenzy:<event>:current:lock 1 EX 10 NX. *)
LockIsFree == ~lock

(* Another request is refreshing the live row: this one skips it. *)
FrenzySkip(c) ==
    /\ work[c].step = "frenzy"
    /\ ~LockIsFree
    /\ Go(c, "save")
    /\ UNCHANGED <<feed, total, redis, view, history>>

FrenzyLock(c) ==
    /\ work[c].step = "frenzy"
    /\ LockIsFree
    /\ lock' = TRUE
    /\ Go(c, "locked")
    /\ UNCHANGED <<feed, total, recent, signed, merged, reserved, almost, view, history>>

(* The latest pinned frenzy row is looked up and the signature reserved     *)
(* with SET NX, together.  A refreshed row counts as the latest.            *)
FrenzyRead(c) ==
    /\ work[c].step = "locked"
    /\ LET live == Rows(LAMBDA r : r.type = "CURRENT_FRENZY" /\ r.pinned)
           sign == <<work[c].kind, work[c].strongest>>
       IN  /\ \E current \in IF live = {} THEN {0} ELSE live :
                 work' = [work EXCEPT ![c].step = "live", ![c].current = current, ![c].fresh = sign \notin signed]
           /\ signed' = signed \cup {sign}
    /\ UNCHANGED <<feed, total, recent, lock, merged, reserved, almost, view, history>>

(* The row found is refreshed and every other one unpinned; without one a   *)
(* row is created.                                                          *)
FrenzyWrite(c) ==
    /\ work[c].step = "live"
    /\ IF work[c].current # 0
       THEN feed' = [i \in DOMAIN feed |->
                       IF i = work[c].current
                       THEN [feed[i] EXCEPT !.kind = work[c].kind, !.of = Strength[work[c].strongest], !.pinned = TRUE]
                       ELSE IF feed[i].type = "CURRENT_FRENZY" THEN [feed[i] EXCEPT !.pinned = FALSE]
                       ELSE feed[i]]
       ELSE createFeed([type |-> "CURRENT_FRENZY", kind |-> work[c].kind,
                        of |-> Strength[work[c].strongest], pinned |-> TRUE])
    /\ Go(c, IF work[c].fresh THEN "history" ELSE "unlock")
    /\ UNCHANGED <<total, redis, view, history>>

(* A frenzy nobody had reserved leaves a row that stays. *)
FrenzyHistory(c) ==
    /\ work[c].step = "history"
    /\ createFeed([type |-> "FRENZY", kind |-> work[c].kind, of |-> Strength[work[c].strongest], pinned |-> FALSE])
    /\ Go(c, "unlock")
    /\ UNCHANGED <<total, redis, view, history>>

(* finally: DEL of the lock key, whoever holds it by now. *)
FrenzyUnlock(c) ==
    /\ work[c].step = "unlock"
    /\ lock' = FALSE
    /\ Go(c, "save")
    /\ UNCHANGED <<feed, total, recent, signed, merged, reserved, almost, view, history>>

(* The lists are written back as they were read, the triggered ones empty.  *)
SaveLists(c) ==
    /\ work[c].step = "save"
    /\ recent' = [recent EXCEPT ![work[c].kind] =
                    [i \in Intensities |-> IF work[c].lists[i] >= Frenzy[i] THEN 0 ELSE work[c].lists[i]]]
    /\ Go(c, "count")
    /\ UNCHANGED <<feed, total, lock, signed, merged, reserved, almost, view, history>>

(* The 10 seconds of the lock are over; its holder may still be working.    *)
LockExpires ==
    /\ lock
    /\ lock' = FALSE
    /\ overran' = (overran \/ \E c \in Calls : work[c].step \in {"locked", "live", "history", "unlock"})
    /\ UNCHANGED <<feed, total, recent, signed, merged, reserved, almost, work, view, lapsed>>

(* Entries of a list grow older than its timeframe. *)
Age(k, i) ==
    /\ recent[k][i] > 0
    /\ recent' = [recent EXCEPT ![k][i] = @ - 1]
    /\ UNCHANGED <<feed, total, lock, signed, merged, reserved, almost, work, view, history>>

-----------------------------------------------------------------------------
(* Milestones.                                                              *)

(* The sums the feed is about are read once, and used to the end. *)
Counted(c, next) == work' = [work EXCEPT ![c].count = total[work[c].kind], ![c].step = next]

generateTicketPurchaseBatchFeed(c) ==
    /\ work[c].step = "count" /\ work[c].kind = "TICKET"
    /\ Counted(c, "almost")
    /\ UNCHANGED <<feed, total, redis, view, history>>

(* A donation without a target has no milestones. *)
generateDonationFeed(c) ==
    /\ work[c].step = "count" /\ work[c].kind = "DONATION"
    /\ Counted(c, IF Goal["DONATION"] = 0 THEN "activity" ELSE "milestone")
    /\ UNCHANGED <<feed, total, redis, view, history>>

generateRegistrationFeed(c) ==
    /\ work[c].step = "count" /\ work[c].kind = "REGISTRATION"
    /\ Counted(c, "milestone")
    /\ UNCHANGED <<feed, total, redis, view, history>>

(* From 90% to 95% of the tickets, once for as long as its key lives. *)
AlmostSoldOut(c) ==
    /\ work[c].step = "almost"
    /\ LET sold == 100 * work[c].count
           near == Goal["TICKET"] > 0 /\ sold >= 90 * Goal["TICKET"] /\ sold < 95 * Goal["TICKET"]
       IN  IF near /\ ~almost
           THEN /\ almost' = TRUE
                /\ createFeed([type |-> "ALMOST", kind |-> "TICKET", of |-> SoldOut, pinned |-> TRUE])
           ELSE UNCHANGED <<almost, feed>>
    /\ Go(c, "milestone")
    /\ UNCHANGED <<total, recent, lock, signed, merged, reserved, view, history>>

(* The milestones a count has reached, the sold out one apart. *)
Reached(k, count) ==
    IF k = "DONATION" THEN {m \in Thresholds[k] : 100 * count >= m * Goal[k]}
    ELSE {m \in Thresholds[k] : count >= m}

IsSoldOut(k, count) == k # "DONATION" /\ Goal[k] > 0 /\ count > 0 /\ 100 * count >= 95 * Goal[k]

(* generateProgressMilestoneFeed, up to the reservation: the highest        *)
(* milestone reached and not listed, sold out before the others.            *)
MilestoneRead(c) ==
    /\ work[c].step = "milestone"
    /\ LET k == work[c].kind
           open == Reached(k, work[c].count) \ merged[k]
       IN  IF IsSoldOut(k, work[c].count) /\ SoldOut \notin merged[k]
           THEN work' = [work EXCEPT ![c].step = "reserve", ![c].listed = merged[k], ![c].milestone = SoldOut]
           ELSE IF open # {}
           THEN work' = [work EXCEPT ![c].step = "reserve", ![c].listed = merged[k], ![c].milestone = Max(open)]
           ELSE Go(c, "activity")
    /\ UNCHANGED <<feed, total, redis, view, history>>

(* Wrong: the milestone's own key is not looked at. *)
NotListed(k, m) == m \notin merged[k]

(* SET milestones:<event>:<kind>:<milestone> NX. *)
Reservable(k, m) == m \notin reserved[k]

(* reserveMilestoneFeed, the key of the milestone itself. *)
Reserve(c) ==
    /\ work[c].step = "reserve"
    /\ LET k == work[c].kind
           m == work[c].milestone
       IN  IF Reservable(k, m)
           THEN /\ reserved' = [reserved EXCEPT ![k] = @ \cup {m}]
                /\ Go(c, "merge")
           ELSE /\ Go(c, "activity")
                /\ UNCHANGED reserved
    /\ UNCHANGED <<feed, total, recent, lock, signed, merged, almost, view, history>>

(* reserveMilestoneFeed, the list: what was read and what was reached then. *)
Merge(c) ==
    /\ work[c].step = "merge"
    /\ LET k == work[c].kind
       IN  merged' = [merged EXCEPT ![k] = work[c].listed \cup Reached(k, work[c].count) \cup {work[c].milestone}]
    /\ Go(c, "publish")
    /\ UNCHANGED <<feed, total, recent, lock, signed, reserved, almost, view, history>>

(* The milestone's row, pinned; a donation from 50% on replaces the pinned  *)
(* row of its own type first.                                               *)
Publish(c) ==
    /\ work[c].step = "publish"
    /\ LET k == work[c].kind
           m == work[c].milestone
           mine(r) == k = "DONATION" /\ m >= 50 /\ r.type = "MILESTONE" /\ r.kind = k /\ r.of = m
           rest == [i \in DOMAIN feed |-> [feed[i] EXCEPT !.pinned = @ /\ ~mine(feed[i])]]
       IN  feed' = Append(rest, [type |-> "MILESTONE", kind |-> k, of |-> m, pinned |-> TRUE])
    /\ Go(c, "activity")
    /\ UNCHANGED <<total, redis, view, history>>

(* The purchase, registration or donation itself. *)
Activity(c) ==
    /\ work[c].step = "activity"
    /\ createFeed([type |-> "ACTIVITY", kind |-> work[c].kind, of |-> SoldOut, pinned |-> FALSE])
    /\ work' = [work EXCEPT ![c] = [Idle EXCEPT !.step = "done"]]
    /\ UNCHANGED <<total, redis, view, history>>

(* The process stops, or a call of Redis or the database throws: the rest   *)
(* of the feed of this checkout is never written.  What throws while the    *)
(* lock is held still runs the finally.                                     *)
Abandon(c) ==
    /\ work[c].step \notin {"new", "done"}
    /\ work' = [work EXCEPT ![c] = [Idle EXCEPT !.step = "done"]]
    /\ \/ UNCHANGED lock
       \/ work[c].step \in {"locked", "live", "history"} /\ lock' = FALSE
    /\ UNCHANGED <<feed, total, recent, signed, merged, reserved, almost, view, history>>

(* Keys run out: the milestone keys and their list after 7 days, the        *)
(* signature of a frenzy after twice its timeframe.                         *)
Forgets == FoldFunction(+, 0, [k \in Kinds |-> FoldFunction(+, 0, lapsed[k])])

ForgetMilestone(k, m) ==
    /\ m \in reserved[k]
    /\ Forgets < MaxForgets
    /\ reserved' = [reserved EXCEPT ![k] = @ \ {m}]
    /\ lapsed' = [lapsed EXCEPT ![k][m] = @ + 1]
    /\ UNCHANGED <<feed, total, recent, lock, signed, merged, almost, work, view, overran>>

ForgetMerged(k) ==
    /\ merged[k] # {}
    /\ MaxForgets > 0
    /\ merged' = [merged EXCEPT ![k] = {}]
    /\ UNCHANGED <<feed, total, recent, lock, signed, reserved, almost, work, view, history>>

ForgetFrenzy(sign) ==
    /\ sign \in signed
    /\ MaxForgets > 0
    /\ signed' = signed \ {sign}
    /\ UNCHANGED <<feed, total, recent, lock, merged, reserved, almost, work, view, history>>

-----------------------------------------------------------------------------
(* Reading the feed page by page.                                           *)

(* The rows a list of feeds may show: the pinned ones first, the regular    *)
(* ones behind the cursor.                                                  *)
Pinned(u) == {i \in DOMAIN feed : feed[i].pinned /\ feed[i].type # "ACTIVITY"} \ hidden[u]
Regular(u) == {i \in DOMAIN feed : ~feed[i].pinned \/ feed[i].type = "ACTIVITY"} \ hidden[u]

Newest(rows, n) == {i \in rows : Cardinality({j \in rows : j > i}) < n}

(* Wrong: the page starts behind the cursor and skips one more row. *)
SkipTwice(u, cursor) == LET left == {i \in Regular(u) : i < cursor} IN left \ Newest(left, 1)

(* cursor: { id }, skip: 1.  The cursor's row is skipped when the list has  *)
(* it; when it does not (it is pinned, or hidden since), the row after it   *)
(* is skipped instead.                                                      *)
Behind(u, cursor) == LET left == {i \in Regular(u) : i <= cursor} IN left \ Newest(left, 1)

(* joinEventFeed: a first page, without a cursor. *)
joinEventFeed(u) ==
    /\ ~reader[u].joined
    /\ LET room == IF Cardinality(Pinned(u)) > Limit THEN 0 ELSE Limit - Cardinality(Pinned(u))
           rows == Newest(Regular(u), room)
           page == Pinned(u) \cup rows
       IN  reader' = [reader EXCEPT ![u] =
                        [joined |-> TRUE, shown |-> page, more |-> Cardinality(page) = Limit,
                         cursor |-> IF rows # {} THEN Min(rows) ELSE IF page # {} THEN Min(page) ELSE 0,
                         due |-> Regular(u),
                         whole |-> rows # {} \/ Cardinality(Pinned(u)) < Limit]]
    /\ UNCHANGED <<feed, total, redis, work, hidden, history>>

(* loadMoreFeeds from the last row on screen, while there is more. *)
loadMoreFeeds(u) ==
    /\ reader[u].joined /\ reader[u].more
    /\ LET page == Newest(Behind(u, reader[u].cursor), Limit)
       IN  reader' = [reader EXCEPT ![u].shown = @ \cup page,
                                    ![u].more = (Cardinality(page) = Limit),
                                    ![u].cursor = IF page = {} THEN @ ELSE Min(page),
                                    ![u].whole = @ /\ reader[u].cursor \in Regular(u)]
    /\ UNCHANGED <<feed, total, redis, work, hidden, history>>

hideFeed(u, i) ==
    /\ i \in reader[u].shown \ hidden[u]
    /\ hidden' = [hidden EXCEPT ![u] = @ \cup {i}]
    /\ UNCHANGED <<feed, total, redis, work, reader, history>>

Next ==
    \/ \E c \in Calls :
          \/ \E k \in Kinds, gain \in Gain : Track(c, k, gain)
          \/ FrenzySkip(c) \/ FrenzyLock(c) \/ FrenzyRead(c) \/ FrenzyWrite(c)
          \/ FrenzyHistory(c) \/ FrenzyUnlock(c) \/ SaveLists(c)
          \/ generateTicketPurchaseBatchFeed(c) \/ generateDonationFeed(c)
          \/ generateRegistrationFeed(c) \/ AlmostSoldOut(c) \/ MilestoneRead(c) \/ Reserve(c) \/ Merge(c)
          \/ Publish(c) \/ Activity(c) \/ Abandon(c)
    \/ LockExpires
    \/ \E k \in Kinds :
          \/ \E i \in Intensities : Age(k, i) \/ ForgetFrenzy(<<k, i>>)
          \/ \E m \in Thresholds[k] \cup {SoldOut} : ForgetMilestone(k, m)
          \/ ForgetMerged(k)
    \/ \E u \in Readers :
          \/ joinEventFeed(u) \/ loadMoreFeeds(u)
          \/ \E i \in DOMAIN feed : hideFeed(u, i)

Spec == Init /\ [][Next]_vars

-----------------------------------------------------------------------------

Milestones(k, m) == Rows(LAMBDA r : r.type = "MILESTONE" /\ r.kind = k /\ r.of = m)

(* However many calls reach a milestone at once, it is published once for   *)
(* each time its reservation was free ("Check if we've already created      *)
(* milestones for this event").                                             *)
MilestoneOnce ==
    \A k \in Kinds : \A m \in Thresholds[k] \cup {SoldOut} :
        Cardinality(Milestones(k, m)) <= 1 + lapsed[k][m]

(* Unless a lock ran out under its holder, the event has one live frenzy    *)
(* row, which is what the lock is for ("another request is already updating *)
(* the live frenzy feed").                                                  *)
OneCurrentFrenzy ==
    ~overran => Cardinality(Rows(LAMBDA r : r.type = "CURRENT_FRENZY" /\ r.pinned)) <= 1

(* A reader who has paged to the end, each time from a row of the list, has *)
(* seen every regular row that was there at first and is not hidden, however*)
(* the feed grew and was re-pinned meanwhile.                               *)
ReaderMissesNothing ==
    \A u \in Readers :
        reader[u].joined /\ ~reader[u].more /\ reader[u].whole
            => reader[u].due \cap Regular(u) \subseteq reader[u].shown

(* A milestone and a frenzy are published once and a reader misses nothing.    *)
FeedSafe == TypeOK /\ MilestoneOnce /\ OneCurrentFrenzy /\ ReaderMissesNothing
=============================================================================
