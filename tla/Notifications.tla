--------------------------- MODULE Notifications ----------------------------
(***************************************************************************)
(* Notifications of users (notification.service.ts) and the devices they   *)
(* are pushed to (backgroundnotification.service.ts).  The rows are in the *)
(* database; the number of unread ones is kept a second time in Redis, and *)
(* so are the push tokens of each user, as one JSON list under one key.    *)
(* Nothing holds the two together, and a list is changed by reading it     *)
(* whole and writing it whole.                                             *)
(*                                                                         *)
(* The push itself, the socket messages and the texts are left out.        *)
(***************************************************************************)
EXTENDS Integers, FiniteSets, Sequences, SequencesExt

CONSTANTS Users, Calls, Tokens,
          Nobody,       \* no user: a sweep that ends without adding the token
          MaxRows       \* bound: notifications of a user

Missing == -1           \* the counter's key is not in Redis

VARIABLES
    rows,       \* notifications of each user, oldest first: read or not
    count,      \* notification:unread:<user>
    tokens,     \* fcm_tokens:<user>
    work,       \* what each call has read and where it is
    mixed,      \* history: users whose counter two calls changed at once,
                \* or whose counter a call left behind
    tangled,    \* history: token lists were changed by two calls at once,
                \* or left half changed
    holder      \* history: who registered a token last, Nobody after a removal

counters == <<rows, count, mixed>>
devices == <<tokens, tangled, holder>>
vars == <<counters, devices, work>>

Idle == [step |-> "idle", users |-> {}, sum |-> 0, token |-> Nobody,
         for |-> Nobody, at |-> Nobody, list |-> {}]

Unread(u) == Cardinality({i \in DOMAIN rows[u] : ~rows[u][i]})

TypeOK ==
    /\ \A u \in Users : Len(rows[u]) <= MaxRows
    /\ count \in [Users -> Int]
    /\ tokens \in [Users -> SUBSET Tokens]
    /\ \A c \in Calls : work[c].step \in {"idle", "incr", "sync", "set", "zero", "sweep", "strip", "add", "remove"}
    /\ holder \in [Tokens -> Users \cup {Nobody}]

Init ==
    /\ rows = [u \in Users |-> <<>>]
    /\ count = [u \in Users |-> Missing]
    /\ tokens = [u \in Users |-> {}]
    /\ work = [c \in Calls |-> Idle]
    /\ mixed = {} /\ tangled = FALSE
    /\ holder = [t \in Tokens |-> Nobody]

Counting(c) == work[c].step \in {"incr", "sync", "set", "zero"}
Listing(c) == work[c].step \in {"sweep", "strip", "add", "remove"}

(* Users of R whose counter some call, at one of these steps, is about to   *)
(* change.  Two calls that only raise a counter do not disturb each other.  *)
Contended(R, steps) == UNION {work[c].users : c \in {d \in Calls : work[d].step \in steps}} \cap R
Setting == {"sync", "set", "zero"}

-----------------------------------------------------------------------------
(* Rows and the counter of unread ones.                                     *)

(* storeNotification, for every recipient; when one of the rows fails the   *)
(* others are there, and the counters are never raised.                     *)
storeNotification(c, R, all) ==
    /\ work[c].step = "idle"
    /\ \A u \in R : Len(rows[u]) < MaxRows
    /\ rows' = [u \in Users |-> IF u \in R THEN Append(rows[u], FALSE) ELSE rows[u]]
    /\ work' = [work EXCEPT ![c] = IF all THEN [Idle EXCEPT !.step = "incr", !.users = R] ELSE Idle]
    /\ mixed' = mixed \cup Contended(R, Setting) \cup (IF all THEN {} ELSE R)
    /\ UNCHANGED <<count, devices>>

(* Wrong: a counter that is there is left as it is. *)
FirstOnly(n) == IF n = Missing THEN 1 ELSE n

(* INCR, which makes a missing key 1. *)
Raised(n) == IF n = Missing THEN 1 ELSE n + 1

(* publishNotifications: the counters, before anything is sent. *)
publishNotifications(c) ==
    /\ work[c].step = "incr"
    /\ \E u \in work[c].users :
          /\ count' = [count EXCEPT ![u] = Raised(@)]
          /\ work' = [work EXCEPT ![c] = IF work[c].users = {u} THEN Idle ELSE [@ EXCEPT !.users = @ \ {u}]]
    /\ UNCHANGED <<rows, mixed, devices>>

(* markAsRead of a row of the user's own; one that is read already changes  *)
(* nothing.                                                                 *)
markAsRead(c, u, i) ==
    /\ work[c].step = "idle"
    /\ i \in DOMAIN rows[u] /\ ~rows[u][i]
    /\ rows' = [rows EXCEPT ![u][i] = TRUE]
    /\ work' = [work EXCEPT ![c] = [Idle EXCEPT !.step = "sync", !.users = {u}]]
    /\ mixed' = mixed \cup Contended({u}, Setting \cup {"incr"})
    /\ UNCHANGED <<count, devices>>

(* getUnreadCount without a usable counter: it is made from the rows. *)
getUnreadCount(c, u) ==
    /\ work[c].step = "idle"
    /\ count[u] < 0
    /\ work' = [work EXCEPT ![c] = [Idle EXCEPT !.step = "sync", !.users = {u}]]
    /\ mixed' = mixed \cup Contended({u}, Setting \cup {"incr"})
    /\ UNCHANGED <<rows, count, devices>>

(* syncUnreadCount counts the rows, then sets the key. *)
SyncRead(c) ==
    /\ work[c].step = "sync"
    /\ \E u \in work[c].users : work' = [work EXCEPT ![c].step = "set", ![c].sum = Unread(u)]
    /\ UNCHANGED <<counters, devices>>

SyncWrite(c) ==
    /\ work[c].step = "set"
    /\ \E u \in work[c].users : count' = [count EXCEPT ![u] = work[c].sum]
    /\ work' = [work EXCEPT ![c] = Idle]
    /\ UNCHANGED <<rows, mixed, devices>>

(* markAllAsRead: the rows, then zero. *)
markAllAsRead(c, u) ==
    /\ work[c].step = "idle"
    /\ rows[u] # <<>>
    /\ rows' = [rows EXCEPT ![u] = [i \in DOMAIN @ |-> TRUE]]
    /\ work' = [work EXCEPT ![c] = [Idle EXCEPT !.step = "zero", !.users = {u}]]
    /\ mixed' = mixed \cup Contended({u}, Setting \cup {"incr"})
    /\ UNCHANGED <<count, devices>>

Zero(c) ==
    /\ work[c].step = "zero"
    /\ \E u \in work[c].users : count' = [count EXCEPT ![u] = 0]
    /\ work' = [work EXCEPT ![c] = Idle]
    /\ UNCHANGED <<rows, mixed, devices>>

-----------------------------------------------------------------------------
(* Push tokens.                                                             *)

(* The keys that exist are listed once; a list that was emptied keeps its   *)
(* key and is read in vain.                                                 *)
Keys == {u \in Users : tokens[u] # {}}

(* Wrong: a token is only looked for under the user who registers it. *)
OwnKey(u) == Keys \cap {u}

(* removeTokenByTokenValue looks under every key. *)
EveryKey(u) == Keys

StartSweep(c, t, u) ==
    /\ work[c].step = "idle"
    /\ work' = [work EXCEPT ![c] = [Idle EXCEPT !.step = "sweep", !.users = EveryKey(u), !.token = t, !.for = u]]
    /\ tangled' = (tangled \/ \E d \in Calls : Listing(d))

(* registerToken of a token that Expo or Firebase knows. *)
registerToken(c, u, t) ==
    /\ StartSweep(c, t, u)
    /\ holder' = [holder EXCEPT ![t] = u]
    /\ UNCHANGED <<tokens, counters>>

(* handleExpoReceipts: Expo says the token of a push is no longer valid. *)
handleExpoReceipts(c, t) ==
    /\ \E u \in Users : t \in tokens[u]
    /\ StartSweep(c, t, Nobody)
    /\ holder' = [holder EXCEPT ![t] = Nobody]
    /\ UNCHANGED <<tokens, counters>>

(* cleanupExpiredTokens, once a day: no token of its own, but the old ones  *)
(* of every list.                                                           *)
cleanupExpiredTokens(c) ==
    /\ Keys # {}
    /\ StartSweep(c, Nobody, Nobody)
    /\ UNCHANGED <<tokens, holder, counters>>

CleanRead(c) ==
    /\ work[c].step = "sweep" /\ work[c].token = Nobody
    /\ \E u \in work[c].users : \E old \in SUBSET tokens[u] :
          /\ work' = [work EXCEPT ![c] =
                        IF old # {} THEN [@ EXCEPT !.step = "strip", !.at = u, !.list = tokens[u] \ old, !.users = @ \ {u}]
                        ELSE [@ EXCEPT !.users = @ \ {u}]]
          /\ holder' = [t \in Tokens |-> IF t \in old /\ holder[t] = u THEN Nobody ELSE holder[t]]
    /\ UNCHANGED <<tokens, tangled, counters>>

(* One key after the other: the list is read, and written without the token *)
(* when it has it.                                                          *)
SweepRead(c) ==
    /\ work[c].step = "sweep" /\ work[c].token # Nobody
    /\ \E u \in work[c].users :
          work' = [work EXCEPT ![c] =
                     IF work[c].token \in tokens[u]
                     THEN [@ EXCEPT !.step = "strip", !.at = u, !.list = tokens[u] \ {work[c].token}, !.users = @ \ {u}]
                     ELSE [@ EXCEPT !.users = @ \ {u}]]
    /\ UNCHANGED <<counters, devices>>

SweepWrite(c) ==
    /\ work[c].step = "strip"
    /\ tokens' = [tokens EXCEPT ![work[c].at] = work[c].list]
    /\ work' = [work EXCEPT ![c].step = "sweep"]
    /\ UNCHANGED <<counters, tangled, holder>>

(* addUserToken, once every key was looked at. *)
AddRead(c) ==
    /\ work[c].step = "sweep" /\ work[c].users = {}
    /\ work' = [work EXCEPT ![c] = IF work[c].for = Nobody THEN Idle
                                   ELSE [@ EXCEPT !.step = "add", !.list = tokens[work[c].for]]]
    /\ UNCHANGED <<counters, devices>>

AddWrite(c) ==
    /\ work[c].step = "add"
    /\ tokens' = [tokens EXCEPT ![work[c].for] = work[c].list \cup {work[c].token}]
    /\ work' = [work EXCEPT ![c] = Idle]
    /\ UNCHANGED <<counters, tangled, holder>>

(* removeToken, from the user's own list only. *)
RemoveRead(c, u, t) ==
    /\ work[c].step = "idle"
    /\ work' = [work EXCEPT ![c] = [Idle EXCEPT !.step = "remove", !.for = u, !.list = tokens[u] \ {t}]]
    /\ tangled' = (tangled \/ \E d \in Calls : Listing(d))
    /\ holder' = IF holder[t] = u THEN [holder EXCEPT ![t] = Nobody] ELSE holder
    /\ UNCHANGED <<tokens, counters>>

RemoveWrite(c) ==
    /\ work[c].step = "remove"
    /\ tokens' = [tokens EXCEPT ![work[c].for] = work[c].list]
    /\ work' = [work EXCEPT ![c] = Idle]
    /\ UNCHANGED <<counters, tangled, holder>>

(* The key of a user's list runs out (TOKEN_TTL). *)
ListExpires(u) ==
    /\ tokens[u] # {}
    /\ tokens' = [tokens EXCEPT ![u] = {}]
    /\ holder' = [t \in Tokens |-> IF t \in tokens[u] /\ holder[t] = u THEN Nobody ELSE holder[t]]
    /\ tangled' = (tangled \/ \E c \in Calls : Listing(c))
    /\ UNCHANGED <<counters, work>>

(* A statement fails, or the server stops. *)
Abandon(c) ==
    /\ work[c].step # "idle"
    /\ mixed' = IF Counting(c) THEN mixed \cup work[c].users ELSE mixed
    /\ tangled' = (tangled \/ Listing(c))
    /\ work' = [work EXCEPT ![c] = Idle]
    /\ UNCHANGED <<rows, count, tokens, holder>>

Next ==
    \/ \E u \in Users : ListExpires(u)
    \/ \E c \in Calls :
       \/ \E R \in SUBSET Users \ {{}}, all \in BOOLEAN : storeNotification(c, R, all)
       \/ publishNotifications(c) \/ SyncRead(c) \/ SyncWrite(c) \/ Zero(c)
       \/ \E u \in Users :
             \/ getUnreadCount(c, u) \/ markAllAsRead(c, u)
             \/ \E i \in DOMAIN rows[u] : markAsRead(c, u, i)
             \/ \E t \in Tokens : registerToken(c, u, t) \/ RemoveRead(c, u, t)
       \/ cleanupExpiredTokens(c) \/ CleanRead(c)
       \/ \E t \in Tokens : handleExpoReceipts(c, t)
       \/ SweepRead(c) \/ SweepWrite(c) \/ AddRead(c) \/ AddWrite(c) \/ RemoveWrite(c)
       \/ Abandon(c)

Spec == Init /\ [][Next]_vars

-----------------------------------------------------------------------------

(* Where the counter and the rows part, two calls changed them at once or   *)
(* one was cut short: on their own, in whatever order, storing, reading and *)
(* reading all leave the counter equal to the unread rows.                  *)
CounterIsExact ==
    \A u \in Users \ mixed :
        ~(\E c \in Calls : Counting(c) /\ u \in work[c].users) /\ count[u] # Missing
            => count[u] = Unread(u)

(* "reassigns a push token to the latest logged-in user" (spec of the       *)
(* service): unless two calls changed token lists at once or one was cut    *)
(* short, a token is in the list of who registered it last and in no other. *)
TokenFollowsLogin ==
    ~tangled /\ ~(\E c \in Calls : Listing(c))
        => \A u \in Users, t \in Tokens : t \in tokens[u] <=> holder[t] = u

(* The unread counter counts, and a phone is notified for who signed in on it. *)
NotificationsSafe == TypeOK /\ CounterIsExact /\ TokenFollowsLogin
=============================================================================
