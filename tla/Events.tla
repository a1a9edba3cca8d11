------------------------------ MODULE Events ------------------------------
(***************************************************************************)
(* The life of event rows in event.service.ts, with the picture that is    *)
(* uploaded after the row is saved, the nightly copies of                  *)
(* recurring-event.service.ts and the impact mails of                      *)
(* donation-impact-map.service.ts.                                         *)
(*                                                                         *)
(* The clock is a count of nights; an event is over on the night of its    *)
(* end and its impact mails are due the night after.  What an edit writes  *)
(* besides the end is the row's version, standing for updatedAt; tickets,  *)
(* places and meals are edited in the modules about them.  A picture and   *)
(* its thumbnail are one file.                                             *)
(*                                                                         *)
(* A definition whose comment begins with "Wrong" is not part of the       *)
(* specification: it is the faulty variant of the one that follows it.     *)
(***************************************************************************)
EXTENDS Integers, FiniteSets

CONSTANTS
  Events,        \* ids of event rows
  Supporters,    \* users who donate
  Calls,         \* requests in flight, with the uploads they leave behind
  Servers,       \* processes that run the nightly and hourly jobs
  None,
  Repeats,       \* what creators choose: NONE, DAILY
  Retries,       \* attempts to upload a picture
  MaxFiles,      \* bound: files ever stored
  MaxVersion,    \* bound: writes of a row
  MaxNight       \* bound: nights

VARIABLES
  night,
  event,      \* the rows
  files,      \* files in storage, by number
  stored,     \* how many were ever stored
  donated,    \* completed donations: event and supporter
  late,       \* history: those made when the event's mails were already due
  mail,       \* history: how many jobs the mail queue took for each of them
  unseen,     \* history: a dashboard edit replaced what its user had not seen
  work

vars == <<night, event, files, stored, donated, late, mail, unseen, work>>

Idle == [op |-> "idle"]
Rows == {e \in Events : event[e] # None}
Pairs == Events \X Supporters

Init ==
  /\ night = 0 /\ event = [e \in Events |-> None]
  /\ files = {} /\ stored = 0
  /\ donated = {} /\ late = {} /\ mail = [p \in Pairs |-> 0] /\ unseen = FALSE
  /\ work = [c \in Calls \cup Servers |-> Idle]

Ended(row) == row.end <= night
MailsDue(row) == row.end < night

-----------------------------------------------------------------------------
Upload(e, old) == [op |-> "upload", event |-> e, old |-> old, attempt |-> 1]

\* The row is saved first; the picture follows in the background.
create(c, e, repeat, file) ==
  /\ work[c] = Idle /\ event[e] = None
  /\ event' = [event EXCEPT ![e] =
       [version |-> 0, end |-> night, repeat |-> repeat, image |-> None,
        processing |-> file, mapSent |-> FALSE, shared |-> FALSE]]
  /\ work' = [work EXCEPT ![c] = IF file THEN Upload(e, None) ELSE Idle]
  /\ UNCHANGED <<night, files, stored, donated, late, mail, unseen>>

\* Staff open an event in the dashboard; the edit names the version shown.
ShowEvent(c, e) ==
  /\ work[c] = Idle /\ event[e] # None
  /\ work' = [work EXCEPT ![c] = [op |-> "shown", event |-> e, version |-> event[e].version]]
  /\ UNCHANGED <<night, event, files, stored, donated, late, mail, unseen>>

loadEventForUpdate(c, e, expected, file) ==
  /\ event[e] # None
  /\ work' = [work EXCEPT ![c] =
       [op |-> "edit", event |-> e, expected |-> expected, loaded |-> event[e], file |-> file]]
  /\ UNCHANGED <<night, event, files, stored, donated, late, mail, unseen>>

update(c, e, file) == work[c] = Idle /\ loadEventForUpdate(c, e, None, file)
updateForDashboard(c) ==
  work[c].op = "shown" /\ loadEventForUpdate(c, work[c].event, work[c].version, FALSE)

(* Wrong: compares with the row loaded before the event was locked. *)
AsLoaded(w, row) == w.expected # None => w.expected = w.loaded.version
AsShown(w, row) == w.expected # None => w.expected = row.version

applyEventUpdate(c, end) ==
  LET w == work[c]  e == w.event  row == event[e] IN
  /\ w.op = "edit" /\ row # None /\ row.version < MaxVersion
  /\ AsShown(w, row)
  /\ event' = [event EXCEPT ![e].version = @ + 1, ![e].end = end,
                            ![e].processing = @ \/ w.file]
  /\ unseen' = (unseen \/ (w.expected # None /\ w.expected # row.version))
  /\ work' = [work EXCEPT ![c] = IF w.file THEN Upload(e, w.loaded.image) ELSE Idle]
  /\ UNCHANGED <<night, files, stored, donated, late, mail>>

\* Donations keep the row: their reference to it is not cascaded.
remove(e) ==
  /\ event[e] # None /\ \A p \in donated : p[1] # e
  /\ event' = [event EXCEPT ![e] = None]
  /\ UNCHANGED <<night, files, stored, donated, late, mail, unseen, work>>

-----------------------------------------------------------------------------
(* uploadImageInBackground: every step of an attempt may fail, and the next  *)
(* attempt begins again with a new file.                                     *)
StoreFile(c) ==
  /\ work[c].op = "upload" /\ stored < MaxFiles
  /\ stored' = stored + 1 /\ files' = files \cup {stored + 1}
  /\ work' = [work EXCEPT ![c] = [op |-> "stored", event |-> @.event, old |-> @.old,
                                  attempt |-> @.attempt, file |-> stored + 1]]
  /\ UNCHANGED <<night, event, donated, late, mail, unseen>>

SaveImage(c) ==
  LET e == work[c].event IN
  /\ work[c].op = "stored" /\ event[e] # None /\ event[e].version < MaxVersion
  /\ event' = [event EXCEPT ![e].image = work[c].file, ![e].processing = FALSE,
                            ![e].version = @ + 1]
  /\ work' = [work EXCEPT ![c] = IF @.old = None THEN Idle ELSE [@ EXCEPT !.op = "saved"]]
  /\ UNCHANGED <<night, files, stored, donated, late, mail, unseen>>

(* Wrong: the old picture goes as soon as the new one is stored. *)
OnceStored(w) == w.op \in {"stored", "saved"} /\ w.old # None
OnceSaved(w) == w.op = "saved"

DeleteOld(c) ==
  /\ OnceSaved(work[c]) /\ work[c].old \in files
  /\ files' = files \ {work[c].old}
  /\ work' = [work EXCEPT ![c] = Idle]
  /\ UNCHANGED <<night, event, stored, donated, late, mail, unseen>>

RetryUpload(c) ==
  LET w == work[c] IN
  /\ w.op \in {"upload", "stored", "saved"}
  /\ \/ /\ w.attempt < Retries
        /\ work' = [work EXCEPT ![c] = [Upload(w.event, w.old) EXCEPT !.attempt = w.attempt + 1]]
        /\ UNCHANGED event
     \/ /\ w.attempt = Retries
        /\ work' = [work EXCEPT ![c] = Idle]
        /\ \/ event[w.event] = None /\ UNCHANGED event
           \/ /\ event[w.event] # None /\ event[w.event].version < MaxVersion
              /\ event' = [event EXCEPT ![w.event].processing = FALSE, ![w.event].version = @ + 1]
  /\ UNCHANGED <<night, files, stored, donated, late, mail, unseen>>

-----------------------------------------------------------------------------
(* handleRecurringEvents: whatever ended is copied a day later, every night, *)
(* from the rows as they were read; endRepeat is not consulted.              *)
ReadRecurring(s) ==
  LET due == {e \in Rows : event[e].repeat # "NONE" /\ Ended(event[e])} IN
  /\ work[s] = Idle /\ due # {}
  /\ work' = [work EXCEPT ![s] = [op |-> "copy", rows |-> [e \in due |-> event[e]]]]
  /\ UNCHANGED <<night, event, files, stored, donated, late, mail, unseen>>

CopyRecurring(s, e, copy) ==
  LET rows == work[s].rows IN
  /\ work[s].op = "copy" /\ e \in DOMAIN rows /\ event[copy] = None /\ copy # e
  /\ event' = [d \in Events |->
       IF d = copy THEN [rows[e] EXCEPT !.version = 0, !.end = @ + 1, !.mapSent = FALSE,
                                        !.shared = TRUE]
       ELSE IF d = e /\ event[e] # None THEN [event[e] EXCEPT !.shared = TRUE]
       ELSE event[d]]
  /\ work' = [work EXCEPT ![s] =
       IF DOMAIN rows = {e} THEN Idle
       ELSE [@ EXCEPT !.rows = [d \in DOMAIN rows \ {e} |-> rows[d]]]]
  /\ UNCHANGED <<night, files, stored, donated, late, mail, unseen>>

-----------------------------------------------------------------------------
MailsBegun(e) ==
  \/ MailsDue(event[e]) \/ event[e].mapSent
  \/ \E s \in Servers : work[s].op \in {"map", "mark"} /\ work[s].event = e

Donate(e, u) ==
  /\ event[e] # None /\ <<e, u>> \notin donated
  /\ donated' = donated \cup {<<e, u>>}
  /\ late' = IF MailsBegun(e) THEN late \cup {<<e, u>>} ELSE late
  /\ UNCHANGED <<night, event, files, stored, mail, unseen, work>>

Donors(e) == {p[2] : p \in {q \in donated : q[1] = e}}

sendImpactMapEmails(s, e) ==
  /\ work[s] = Idle /\ event[e] # None
  /\ MailsDue(event[e]) /\ ~ event[e].mapSent /\ Donors(e) # {}
  /\ work' = [work EXCEPT ![s] = [op |-> "map", event |-> e]]
  /\ UNCHANGED <<night, event, files, stored, donated, late, mail, unseen>>

(* Wrong: any job that was queued is enough. *)
SomeQueued(queued, supporters) == queued # {}
AllQueued(queued, supporters) == queued = supporters

(* Each supporter's job is named for event and supporter, and the queue      *)
(* takes a name once.  Some of the additions may fail, or all be skipped     *)
(* while the mail is switched off: then the event stays due.                 *)
processEvent(s) ==
  LET e == work[s].event  supporters == Donors(e) IN
  /\ work[s].op = "map"
  /\ \E queued \in SUBSET supporters :
       /\ mail' = [p \in Pairs |-> IF p[1] = e /\ p[2] \in queued /\ mail[p] = 0 THEN 1 ELSE mail[p]]
       /\ work' = [work EXCEPT ![s] = IF AllQueued(queued, supporters) THEN [@ EXCEPT !.op = "mark"]
                                      ELSE Idle]
  /\ UNCHANGED <<night, event, files, stored, donated, late, unseen>>

markImpactMapSent(s) ==
  LET e == work[s].event IN
  /\ work[s].op = "mark"
  /\ \/ event[e] = None /\ UNCHANGED event
     \/ /\ event[e] # None /\ event[e].version < MaxVersion
        /\ event' = [event EXCEPT ![e].mapSent = TRUE, ![e].version = @ + 1]
  /\ work' = [work EXCEPT ![s] = Idle]
  /\ UNCHANGED <<night, files, stored, donated, late, mail, unseen>>

-----------------------------------------------------------------------------
Tick ==
  /\ night < MaxNight
  /\ night' = night + 1
  /\ UNCHANGED <<event, files, stored, donated, late, mail, unseen, work>>

Abandon(c) ==
  /\ work[c] # Idle
  /\ work' = [work EXCEPT ![c] = Idle]
  /\ UNCHANGED <<night, event, files, stored, donated, late, mail, unseen>>

Next ==
  \/ \E e \in Events :
       \/ remove(e)
       \/ \E u \in Supporters : Donate(e, u)
       \/ \E s \in Servers : sendImpactMapEmails(s, e)
       \/ \E s \in Servers, copy \in Events : CopyRecurring(s, e, copy)
       \/ \E c \in Calls :
            \/ \E repeat \in Repeats, file \in BOOLEAN : create(c, e, repeat, file)
            \/ ShowEvent(c, e)
            \/ \E file \in BOOLEAN : update(c, e, file)
  \/ \E c \in Calls :
       \/ updateForDashboard(c) \/ (\E end \in 0..MaxNight : applyEventUpdate(c, end))
       \/ StoreFile(c) \/ SaveImage(c) \/ DeleteOld(c) \/ RetryUpload(c)
  \/ \E s \in Servers : ReadRecurring(s) \/ processEvent(s) \/ markImpactMapSent(s)
  \/ \E c \in Calls \cup Servers : Abandon(c)
  \/ Tick

Spec == Init /\ [][Next]_vars

-----------------------------------------------------------------------------
(* Every variable keeps its type. *)
TypeOK ==
  /\ night \in 0..MaxNight /\ stored \in 0..MaxFiles /\ files \subseteq 1..stored
  /\ \A e \in Rows : event[e] \in
       [version : 0..MaxVersion, end : 0..MaxNight + 1, repeat : {"NONE", "DAILY"},
        image : 1..MaxFiles \cup {None}, processing : BOOLEAN, mapSent : BOOLEAN,
        shared : BOOLEAN]
  /\ late \subseteq donated /\ donated \subseteq Pairs
  /\ mail \in [Pairs -> 0..1] /\ unseen \in BOOLEAN

(* The picture of an event is in storage, though edits of one event upload    *)
(* and delete in any order, fail half way and start again; except that a      *)
(* nightly copy shares its picture with the event it was made from, and the   *)
(* next edit of either deletes it for both.                                   *)
ImageExists ==
  \A e \in Rows : event[e].image = None \/ event[e].shared \/ event[e].image \in files

(* "This event changed. Refresh it before saving.": a dashboard edit never    *)
(* replaces a change its user was not shown, made by the creator or by a      *)
(* finished upload while the edit waited for the event's lock.                *)
EditsWhatWasShown == ~ unseen

(* When an event is marked, everyone whose donation was completed before its  *)
(* mails fell due has been sent for, whichever runs failed, overlapped or     *)
(* were cut short.                                                            *)
SupportersAreMailed ==
  \A p \in donated \ late :
    event[p[1]] # None /\ event[p[1]].mapSent => mail[p] = 1

(* The picture of an event exists, a dashboard edit replaces what its user    *)
(* was shown, and who donated in time is mailed the impact report.            *)
EventsSafe == TypeOK /\ ImageExists /\ EditsWhatWasShown /\ SupportersAreMailed
=============================================================================
