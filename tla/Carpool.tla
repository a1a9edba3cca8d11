------------------------------ MODULE Carpool ------------------------------
(***************************************************************************)
(* Shared rides and their chat: carpool.service.ts, the chat of            *)
(* message.service.ts and message.gateway.ts, and base.gateway.ts.         *)
(*                                                                         *)
(* No operation on a ride holds a lock: each one reads, awaits and writes, *)
(* so it is a Read action that leaves what it has read in `work` and one   *)
(* or more write actions; what a handler reads before its first write it   *)
(* reads in one step.  A device has one call in flight; a person may have  *)
(* several devices.  Positions, prices, texts and icons of a ride are left *)
(* out, and its expiry is the flag `open`, which time clears and a new end *)
(* of the event may set again.  Push and tray updates are lost or          *)
(* delivered outside the model.                                            *)
(*                                                                         *)
(* A definition whose comment begins with "Wrong" is not part of the       *)
(* specification: it is the faulty variant of the one that follows it.     *)
(***************************************************************************)
EXTENDS Integers, FiniteSets, Sequences

CONSTANTS
  Users, Devices,
  Owner,        \* the user signed in on each device
  Rides,        \* identities carpools may get
  Events, StartDay,  \* events, and the day each one starts
  Times,        \* departure times
  NoEvent, NoRide,
  Seats,        \* availableSeats: always the column's default
  Keys, Contents,
  MaxRows,      \* bound: rows of CarpoolPassenger
  MaxMessages,  \* bound: rows of Message
  MaxPending    \* pending requests one person may make in a day

VARIABLES
  ride,      \* Carpool rows
  request,   \* CarpoolPassenger rows, by the order they were requested in
  message,   \* Message rows, by createdAt
  receipt,   \* sends acknowledged with { ok: true, message }
  accepted,  \* history: who has ever been accepted into which ride
  work       \* the call in flight on each device

vars == <<ride, request, message, receipt, accepted, work>>

RideType == [driver : Users, event : Events \cup {NoEvent}, time : Times,
             open : BOOLEAN, deleted : BOOLEAN]
Unborn == [driver |-> NoRide]
RequestType ==
  [user : Users, ride : Rides,
   status : {"PENDING", "ACCEPTED", "DECLINED", "CANCELLED", "LEFT", "REMOVED", "DELETED"}]
MessageType == [sender : Users, ride : Rides, key : Keys, content : Contents]

Idle == [op |-> "idle"]
Rows == 1..MaxRows
Live(i) == i \in DOMAIN request /\ request[i].status \in {"PENDING", "ACCEPTED"}
Exists(r) == ride[r] # Unborn
Active(r) == Exists(r) /\ ~ ride[r].deleted

Init ==
  /\ ride = [r \in Rides |-> Unborn]
  /\ request = <<>> /\ message = <<>>
  /\ receipt = {} /\ accepted = {}
  /\ work = [d \in Devices |-> Idle]

-----------------------------------------------------------------------------
(* Two departures clash at one time of one day, or with no event at all.     *)
SameDay(e, f) ==
  \/ e = NoEvent /\ f = NoEvent
  \/ e # NoEvent /\ f # NoEvent /\ StartDay[e] = StartDay[f]
Clashes(r, e, t) == Active(r) /\ ride[r].time = t /\ SameDay(ride[r].event, e)
DrivesFor(u, e) == \E r \in Rides : Active(r) /\ ride[r].driver = u /\ ride[r].event = e

CreateRead(d, e, t) ==
  LET u == Owner[d] IN
  /\ work[d] = Idle
  /\ \E r \in Rides : ~ Exists(r)
  /\ e # NoEvent => ~ DrivesFor(u, e)
  /\ ~ \E r \in Rides : Clashes(r, e, t) /\ ride[r].driver = u
  /\ work' = [work EXCEPT ![d] =
       [op |-> "create", event |-> e, time |-> t, stage |-> "time",
        rows |-> {i \in DOMAIN request : Live(i) /\ request[i].user = u
                                         /\ Clashes(request[i].ride, e, t)}]]
  /\ UNCHANGED <<ride, request, message, receipt, accepted>>

(* The rows found are cancelled one by one, whatever they have become in the *)
(* meantime; one that was deleted fails the call, as Abandon does, with the  *)
(* rows before it cancelled.                                                 *)
CreateCancel(d, i) ==
  /\ work[d].op = "create" /\ i \in work[d].rows /\ request[i].status # "DELETED"
  /\ request' = [request EXCEPT ![i].status = "CANCELLED"]
  /\ work' = [work EXCEPT ![d].rows = @ \ {i}]
  /\ UNCHANGED <<ride, message, receipt, accepted>>

CreateNext(d) ==
  /\ work[d].op = "create" /\ work[d].stage = "time" /\ work[d].rows = {}
  /\ work' = [work EXCEPT ![d].stage = "event", ![d].rows =
       {i \in DOMAIN request : /\ Live(i) /\ request[i].user = Owner[d]
                               /\ work[d].event # NoEvent
                               /\ Active(request[i].ride)
                               /\ ride[request[i].ride].event = work[d].event}]
  /\ UNCHANGED <<ride, request, message, receipt, accepted>>

CreateInsert(d) ==
  /\ work[d].op = "create" /\ work[d].stage = "event" /\ work[d].rows = {}
  /\ \E r \in Rides :
       /\ ~ Exists(r)
       /\ ride' = [ride EXCEPT ![r] =
            [driver |-> Owner[d], event |-> work[d].event, time |-> work[d].time,
             open |-> TRUE, deleted |-> FALSE]]
  /\ work' = [work EXCEPT ![d] = Idle]
  /\ UNCHANGED <<request, message, receipt, accepted>>

-----------------------------------------------------------------------------
(* A change of pickup, destination, time or note also posts to the chat,     *)
(* under a key of its own, so the post is not kept here.                     *)
UpdateRead(d, r, t) ==
  /\ work[d] = Idle
  /\ Active(r) /\ ride[r].open /\ ride[r].driver = Owner[d]
  /\ t # ride[r].time
  /\ ~ \E s \in Rides \ {r} : Clashes(s, ride[r].event, t) /\ ride[s].driver = Owner[d]
  /\ work' = [work EXCEPT ![d] = [op |-> "update", ride |-> r, time |-> t]]
  /\ UNCHANGED <<ride, request, message, receipt, accepted>>

UpdateWrite(d) ==
  /\ work[d].op = "update"
  /\ ride' = [ride EXCEPT ![work[d].ride].time = work[d].time]
  /\ work' = [work EXCEPT ![d] = Idle]
  /\ UNCHANGED <<request, message, receipt, accepted>>

(* The update of `isDeleted` is built and never awaited, so it is not sent.   *)
Remove(d, r) ==
  /\ work[d] = Idle /\ Active(r) /\ ride[r].driver = Owner[d]
  /\ UNCHANGED vars

-----------------------------------------------------------------------------
AcceptedRows(r) == {i \in DOMAIN request : request[i].ride = r /\ request[i].status = "ACCEPTED"}
StartOfRequest(d, r) ==
  \/ work[d] = Idle
  \/ work[d].op = "switched" /\ work[d].ride = r

RequestRead(d, r) ==
  LET u == Owner[d] IN
  /\ StartOfRequest(d, r)
  /\ Active(r)
  /\ ride[r].event # NoEvent => ~ DrivesFor(u, ride[r].event)
  /\ Cardinality(AcceptedRows(r)) < Seats
  /\ ~ \E i \in DOMAIN request :
         /\ request[i].user = u /\ request[i].ride = r
         /\ request[i].status \in {"ACCEPTED", "REMOVED", "PENDING"}
  /\ \E today \in SUBSET {i \in DOMAIN request :   \* those made since midnight
                          request[i].user = u /\ request[i].status = "PENDING"} :
       Cardinality(today) < MaxPending
  /\ work' = [work EXCEPT ![d] = [op |-> "request", ride |-> r]]
  /\ UNCHANGED <<ride, request, message, receipt, accepted>>

RequestInsert(d) ==
  /\ work[d].op = "request" /\ Len(request) < MaxRows
  /\ request' = Append(request,
       [user |-> Owner[d], ride |-> work[d].ride, status |-> "PENDING"])
  /\ work' = [work EXCEPT ![d] = Idle]
  /\ UNCHANGED <<ride, message, receipt, accepted>>

(* requestRideAfterCancel: give up the own ride c, then ask for r.            *)
SwitchCancel(d, c, r) ==
  /\ work[d] = Idle /\ c # r
  /\ Active(c) /\ ride[c].driver = Owner[d]
  /\ ride' = [ride EXCEPT ![c].deleted = TRUE]
  /\ work' = [work EXCEPT ![d] =
       [op |-> "switch", ride |-> r, from |-> c,
        notify |-> {i \in DOMAIN request : Live(i) /\ request[i].ride = c}]]
  /\ UNCHANGED <<request, message, receipt, accepted>>

SwitchPurge(d) ==
  /\ work[d].op = "switch"
  /\ request' = [i \in DOMAIN request |->
       IF /\ work[d].notify # {}
          /\ request[i].ride = work[d].from /\ request[i].status = "PENDING"
       THEN [request[i] EXCEPT !.status = "DELETED"] ELSE request[i]]
  /\ work' = [work EXCEPT ![d] = [op |-> "switched", ride |-> work[d].ride]]
  /\ UNCHANGED <<ride, message, receipt, accepted>>

-----------------------------------------------------------------------------
(* Each of the three overwrites the status it has read, by the row's id.      *)
Decide(d, i, status) ==
  /\ work[d] = Idle
  /\ work' = [work EXCEPT ![d] = [op |-> "decide", row |-> i, status |-> status]]
  /\ UNCHANGED <<ride, request, message, receipt, accepted>>

respondToRequest(d, i, action) ==
  /\ request[i].status = "PENDING"
  /\ ride[request[i].ride].driver = Owner[d]
  /\ Seats > 0
  /\ Decide(d, i, action)

leaveRide(d, i) ==
  /\ request[i].user = Owner[d] /\ request[i].status = "ACCEPTED"
  /\ Decide(d, i, "LEFT")

removePassenger(d, i) ==
  /\ ride[request[i].ride].driver = Owner[d]
  /\ request[i].status = "ACCEPTED"
  /\ Decide(d, i, "REMOVED")

DecideWrite(d) ==
  /\ work[d].op = "decide" /\ request[work[d].row].status # "DELETED"
  /\ request' = [request EXCEPT ![work[d].row].status = work[d].status]
  /\ accepted' = IF work[d].status = "ACCEPTED"
                 THEN accepted \cup {<<request[work[d].row].user, request[work[d].row].ride>>}
                 ELSE accepted
  /\ work' = [work EXCEPT ![d] = Idle]
  /\ UNCHANGED <<ride, message, receipt>>

-----------------------------------------------------------------------------
(* Whom the places that guard a ride's chat, or list it, let in: each of     *)
(* them tests deletion, expiry and membership for itself.  The tray drops a  *)
(* ride twelve hours after it expired, which is left out.                    *)
isCarpoolMember(u, r) ==
  \/ ride[r].driver = u
  \/ \E i \in AcceptedRows(r) : request[i].user = u
getCarpoolChatAccess(u, r) == Active(r) /\ ride[r].open /\ isCarpoolMember(u, r)
validateCarpoolAccess(u, r) ==
  /\ Exists(r) /\ ride[r].open
  /\ \/ ride[r].driver = u
     \/ Cardinality({i \in AcceptedRows(r) : request[i].user = u}) > 0
getConversationTray(u) ==
  {r \in Rides : /\ Exists(r)
                 /\ ride[r].driver = u \/ \E i \in AcceptedRows(r) : request[i].user = u}

(* Wrong: takes every request for a place in the car. *)
isParticipantByRequest(u, r) ==
  ride[r].driver = u \/ \E i \in DOMAIN request : request[i].user = u /\ request[i].ride = r
isParticipant(u, r) ==
  ride[r].driver = u \/ \E i \in AcceptedRows(r) : request[i].user = u
MaySend(u, r) == Exists(r) /\ ride[r].open /\ isParticipant(u, r)

Sent(u, r, k) == {i \in DOMAIN message : message[i].sender = u /\ message[i].ride = r
                                           /\ message[i].key = k}
(* Wrong: asks for no lock. *)
NoLock(u, r, k) == TRUE
LockFree(u, r, k) ==
  ~ \E d \in Devices : /\ work[d].op = "send" /\ Owner[d] = u
                       /\ work[d].ride = r /\ work[d].key = k

(* createMessage up to its insert: the lock of this sender, ride and key is   *)
(* held from here to the end of the transaction.                              *)
SendRead(d, r, k, c) ==
  LET u == Owner[d] IN
  /\ work[d] = Idle /\ LockFree(u, r, k)
  /\ Sent(u, r, k) = {} /\ MaySend(u, r)
  /\ work' = [work EXCEPT ![d] = [op |-> "send", ride |-> r, key |-> k, content |-> c]]
  /\ UNCHANGED <<ride, request, message, receipt, accepted>>

SendCommit(d) ==
  LET m == [sender |-> Owner[d], ride |-> work[d].ride,
            key |-> work[d].key, content |-> work[d].content] IN
  /\ work[d].op = "send" /\ Len(message) < MaxMessages
  /\ message' = Append(message, m)
  /\ \/ receipt' = receipt \cup {m}
     \/ receipt' = receipt       \* the answer, or the server, is lost
  /\ work' = [work EXCEPT ![d] = Idle]
  /\ UNCHANGED <<ride, request, accepted>>

(* Wrong: confirms a retry whose text differs from what is saved. *)
ConfirmsAny(saved, c) == TRUE
Confirms(saved, c) == saved.content = c
(* A retry of a saved message (the oldest of its key) is confirmed, whatever  *)
(* the ride has become.                                                       *)
SendAgain(d, r, k, c) ==
  LET u == Owner[d] IN
  /\ work[d] = Idle /\ LockFree(u, r, k)
  /\ \E i \in Sent(u, r, k) : Confirms(message[i], c) /\ \A j \in Sent(u, r, k) : i <= j
  /\ receipt' = receipt \cup {[sender |-> u, ride |-> r, key |-> k, content |-> c]}
  /\ UNCHANGED <<ride, request, message, accepted, work>>

-----------------------------------------------------------------------------
Expire(r) ==
  /\ Exists(r) /\ ride[r].open
  /\ ride' = [ride EXCEPT ![r].open = FALSE]
  /\ UNCHANGED <<request, message, receipt, accepted, work>>

(* The end of an event was moved, back or forth.                              *)
updateCarpoolExpiryForEvent(e, later) ==
  /\ ride' = [r \in Rides |->
       IF Exists(r) /\ ride[r].event = e THEN [ride[r] EXCEPT !.open = later] ELSE ride[r]]
  /\ UNCHANGED <<request, message, receipt, accepted, work>>

(* A call that fails, or a server that stops, between a read and a write.     *)
Abandon(d) ==
  /\ work[d] # Idle
  /\ work' = [work EXCEPT ![d] = Idle]
  /\ UNCHANGED <<ride, request, message, receipt, accepted>>

Next ==
  \/ \E d \in Devices :
       \/ \E e \in Events \cup {NoEvent}, t \in Times : CreateRead(d, e, t)
       \/ CreateNext(d) \/ CreateInsert(d)
       \/ \E r \in Rides :
            \/ \E t \in Times : UpdateRead(d, r, t)
            \/ Remove(d, r)
            \/ RequestRead(d, r)
            \/ \E c \in Rides : SwitchCancel(d, c, r)
            \/ \E k \in Keys, c \in Contents : SendRead(d, r, k, c) \/ SendAgain(d, r, k, c)
       \/ UpdateWrite(d) \/ RequestInsert(d) \/ SwitchPurge(d)
       \/ \E i \in DOMAIN request :
            \/ CreateCancel(d, i)
            \/ \E action \in {"ACCEPTED", "DECLINED"} : respondToRequest(d, i, action)
            \/ leaveRide(d, i)
            \/ removePassenger(d, i)
       \/ DecideWrite(d) \/ SendCommit(d) \/ Abandon(d)
  \/ \E r \in Rides : Expire(r)
  \/ \E e \in Events, later \in BOOLEAN : updateCarpoolExpiryForEvent(e, later)

Spec == Init /\ [][Next]_vars

-----------------------------------------------------------------------------
(* Every variable keeps its type. *)
TypeOK ==
  /\ ride \in [Rides -> RideType \cup {Unborn}]
  /\ Len(request) <= MaxRows /\ \A i \in DOMAIN request : request[i] \in RequestType
  /\ Len(message) <= MaxMessages /\ \A i \in DOMAIN message : message[i] \in MessageType
  /\ receipt \subseteq MessageType
  /\ accepted \subseteq Users \X Rides
  /\ DOMAIN work = Devices

(* "simultaneous retries save one row" and "a reused key cannot change        *)
(* content": one sender's key names one message of one ride, from however     *)
(* many devices and however late it is retried, and every receipt names what  *)
(* is saved.                                                                  *)
OneMessagePerKey ==
  /\ \A i, j \in DOMAIN message :
       /\ message[i].sender = message[j].sender /\ message[i].ride = message[j].ride
       /\ message[i].key = message[j].key
       => i = j
  /\ \A m \in receipt : \E i \in DOMAIN message : message[i] = m

(* "New sends still require ... accepted membership": whoever has written in  *)
(* a ride's chat drives it or was accepted into it by its driver, though      *)
(* membership is read before the message is saved and changes without a lock. *)
OnlyMembersSpeak ==
  \A i \in DOMAIN message :
    \/ ride[message[i].ride].driver = message[i].sender
    \/ <<message[i].sender, message[i].ride>> \in accepted

(* "Only an accepted passenger can be removed": a removed rider was accepted  *)
(* first, though status writes race and a removal may land on a row that has  *)
(* changed since it was read.                                                 *)
RemovedWasAccepted ==
  \A i \in DOMAIN request :
    request[i].status \in {"REMOVED", "LEFT"} => <<request[i].user, request[i].ride>> \in accepted

(* Whoever chat-access says can chat, the room lets in, a send is taken from  *)
(* or sees the ride in the tray drives it or was accepted into it by its      *)
(* driver: however requests, answers, removals and cancellations overwrite    *)
(* each other, no row comes to count as a place in the car that the driver    *)
(* never gave.                                                                *)
ViewsAdmitMembers ==
  \A u \in Users, r \in Rides :
    \/ getCarpoolChatAccess(u, r) \/ validateCarpoolAccess(u, r)
    \/ MaySend(u, r) \/ r \in getConversationTray(u)
    => ride[r].driver = u \/ <<u, r>> \in accepted

(* A retried message is stored once, only members of a ride speak in its      *)
(* chat, only accepted passengers are removed, and only they are let in.      *)
CarpoolSafe ==
  /\ TypeOK /\ OneMessagePerKey /\ OnlyMembersSpeak
  /\ RemovedWasAccepted /\ ViewsAdmitMembers
=============================================================================
