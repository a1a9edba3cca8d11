------------------------------ MODULE Scanner -------------------------------
(***************************************************************************)
(* The door: scans of tickets and registrations in scanner.service.ts, and *)
(* the permissions organisers give to scanners in                          *)
(* scanner-permissions.service.ts.  Meal passes are FoodBank's.            *)
(*                                                                         *)
(* A scan reads the item, then the permission, decides on what it has read,*)
(* marks the item by id and writes the log, each statement on its own; a   *)
(* bulk scan does that for one code after another.  A device is one call.  *)
(* verifyTicket of ticket.service.ts marks a ticket too, without a log.     *)
(* Names, places, times and the log's rows of other scans are left out.    *)
(*                                                                         *)
(* A definition whose comment begins with "Wrong" is not part of the       *)
(* specification: it is the faulty variant of the one that follows it.     *)
(***************************************************************************)
EXTENDS Integers, FiniteSets, Sequences, Functions

CONSTANTS
  Users, Owners, \* who scans, and who organises events
  Tickets, Registrations,
  Owner,         \* the organiser whose event an item is for
  Devices,
  None,
  MaxBulk        \* bound: codes in one bulk scan

Items == Tickets \cup Registrations

VARIABLES
  item,        \* Ticket and Registration rows
  ended,       \* organisers whose event has ended
  permission,  \* ScannerPermission rows, by owner and scanner
  trusted,     \* history: owners whose permission each check may rest on
  admitted,    \* history: how often who marked which item as used
  log,         \* how many ScanLog rows say so
  work         \* the call in flight on each device

vars == <<item, ended, permission, trusted, admitted, log, work>>

Expiries == {"never", "later", "past"}
PermissionType == [active : BOOLEAN, deleted : BOOLEAN, expires : Expiries]
ItemType == [used : BOOLEAN, status : {"active", "used"}, by : Users \cup {None}]
Pairs == {x \in Owners \X Users : x[1] # x[2]}
Idle == [op |-> "idle"]

Init ==
  /\ item = [i \in Items |-> [used |-> FALSE, status |-> "active", by |-> None]]
  /\ ended = {} /\ trusted = [d \in Devices |-> {}]
  /\ admitted = [x \in Items \X Users |-> 0] /\ log = [x \in Items \X Users |-> 0]
  /\ permission = [x \in Pairs |-> None]
  /\ work = [d \in Devices |-> Idle]

Becomes(d, w) == work' = [work EXCEPT ![d] = w]

-----------------------------------------------------------------------------
(* Whose permission a user holds; and the history of it, for a device that   *)
(* has read an item and is yet to decide on it.                              *)
InForce == [active : {TRUE}, deleted : BOOLEAN, expires : {"never", "later"}]
Trusts(rows, u) == {o \in Owners : <<o, u>> \in Pairs /\ rows[<<o, u>>] \in InForce}
Trusting(rows) ==
  trusted' = [d \in Devices |-> IF work[d].op = "check"
                THEN trusted[d] \cup Trusts(rows, work[d].user) ELSE trusted[d]]

(* Permissions: read, then written by id.  Granting brings back a row that   *)
(* was revoked; an update keeps the expiry it read unless it is given one.   *)
Found(row) == IF row = None THEN None ELSE row.expires
PermissionRead(d, x, op, expires) ==
  /\ work[d] = Idle
  /\ op # "grant" => permission[x] # None
  /\ Becomes(d, [op |-> op, pair |-> x, found |-> Found(permission[x]), expires |-> expires])
  /\ UNCHANGED <<item, ended, permission, trusted, admitted, log>>

Write(d, row) ==
  /\ permission' = [permission EXCEPT ![work[d].pair] = row]
  /\ Trusting(permission')
  /\ Becomes(d, Idle)
  /\ UNCHANGED <<item, ended, admitted, log>>

grantPermission(d) ==
  LET w == work[d] IN
  /\ w.op = "grant" /\ (w.found = None <=> permission[w.pair] = None)
  /\ Write(d, [active |-> TRUE, deleted |-> FALSE, expires |-> w.expires])
revokePermission(d) ==
  LET w == work[d] IN
  /\ w.op = "revoke" /\ permission[w.pair] # None
  /\ Write(d, [permission[w.pair] EXCEPT !.active = FALSE, !.deleted = TRUE])
updatePermission(d, active) ==
  LET w == work[d] IN
  /\ w.op = "update" /\ permission[w.pair] # None
  /\ Write(d, [permission[w.pair] EXCEPT !.active = active,
                 !.expires = IF w.expires = "never" THEN w.found ELSE w.expires])
removePermission(d) ==
  LET w == work[d] IN
  /\ w.op = "remove" /\ permission[w.pair] # None
  /\ Write(d, None)

(* Wrong: an inactive permission counts too.                                 *)
AnyPermission(u, o) == TRUE
canMarkAsUsed(u, o) ==
  u = o \/ (<<o, u>> \in Pairs /\ permission[<<o, u>>] # None
            /\ permission[<<o, u>>].active /\ permission[<<o, u>>].expires # "past")

-----------------------------------------------------------------------------
(* Scans.  codes: what is still to be scanned; done: what this call admitted.*)
scan(d, u, codes, mark) ==
  /\ work[d] = Idle
  /\ Becomes(d, [op |-> "scan", user |-> u, codes |-> codes, mark |-> mark,
                 found |-> None, done |-> <<>>])
  /\ UNCHANGED <<item, ended, permission, trusted, admitted, log>>

Find(d) ==
  LET w == work[d] IN
  /\ w.op = "scan" /\ w.codes # <<>>
  /\ Becomes(d, [w EXCEPT !.op = "check", !.found = item[Head(w.codes)]])
  /\ trusted' = [trusted EXCEPT ![d] = Trusts(permission, w.user)]
  /\ UNCHANGED <<item, ended, permission, admitted, log>>

checkValidity(row, o) == ~ row.used /\ row.status = "active" /\ o \notin ended

Return(d, done) ==
  LET w == work[d] IN
  /\ Becomes(d, [w EXCEPT !.op = "scan", !.codes = Tail(@), !.found = None, !.done = done])
  /\ trusted' = [trusted EXCEPT ![d] = {}]

Refuse(d) ==
  LET w == work[d]
      o == Owner[Head(w.codes)] IN
  /\ w.op = "check"
  /\ (w.mark /\ ~ canMarkAsUsed(w.user, o)) \/ ~ checkValidity(w.found, o)
  /\ Return(d, w.done)
  /\ UNCHANGED <<item, ended, permission, admitted, log>>

Validate(d) ==
  LET w == work[d] IN
  /\ w.op = "check" /\ ~ w.mark /\ checkValidity(w.found, Owner[Head(w.codes)])
  /\ Return(d, w.done)
  /\ UNCHANGED <<item, ended, permission, admitted, log>>

Admit(d) ==
  LET w == work[d]
      o == Owner[Head(w.codes)] IN
  /\ w.op = "check" /\ w.mark /\ canMarkAsUsed(w.user, o) /\ checkValidity(w.found, o)
  /\ Becomes(d, [w EXCEPT !.op = "mark"])
  /\ UNCHANGED <<item, ended, permission, trusted, admitted, log>>

(* Wrong: only the time and the scanner are written.                         *)
StillUnused(u) == [used |-> FALSE, status |-> "active", by |-> u]
UsedBy(u) == [used |-> TRUE, status |-> "used", by |-> u]
markAsUsed(d) ==
  LET w == work[d] IN
  /\ w.op = "mark"
  /\ item' = [item EXCEPT ![Head(w.codes)] = UsedBy(w.user)]
  /\ admitted' = [admitted EXCEPT ![<<Head(w.codes), w.user>>] = @ + 1]
  /\ Becomes(d, [w EXCEPT !.op = "log"])
  /\ UNCHANGED <<ended, permission, trusted, log>>

LogScan(d) ==
  LET w == work[d] IN
  /\ w.op = "log"
  /\ log' \in {log, [log EXCEPT ![<<Head(w.codes), w.user>>] = @ + 1]}   \* a failure is ignored
  /\ Return(d, Append(w.done, Head(w.codes)))
  /\ UNCHANGED <<item, ended, permission, admitted>>

Answer(d) ==
  /\ work[d].op = "scan" /\ work[d].codes = <<>>
  /\ Becomes(d, Idle)
  /\ UNCHANGED <<item, ended, permission, trusted, admitted, log>>

(* The scanner's statistics, counted in the log.                             *)
MarkedUsed(u, items) == SumFunctionOnSet([i \in Items |-> log[<<i, u>>]], items)
getScannerStats(u) ==
  [ticketsMarkedUsed |-> MarkedUsed(u, Tickets),
   registrationsMarkedUsed |-> MarkedUsed(u, Registrations)]

(* verifyTicket reads a ticket and marks it by id; the event, the caller's   *)
(* permission and the log play no part.                                      *)
VerifyRead(d, t) ==
  /\ work[d] = Idle /\ ~ item[t].used
  /\ Becomes(d, [op |-> "verify", ticket |-> t])
  /\ UNCHANGED <<item, ended, permission, trusted, admitted, log>>
VerifyWrite(d) ==
  /\ work[d].op = "verify"
  /\ item' = [item EXCEPT ![work[d].ticket].used = TRUE, ![work[d].ticket].status = "used"]
  /\ Becomes(d, Idle)
  /\ UNCHANGED <<ended, permission, trusted, admitted, log>>

(* The event ends, a permission runs out, a call stops half-way. *)
EventEnds(o) ==
  /\ o \notin ended /\ ended' = ended \cup {o}
  /\ UNCHANGED <<item, permission, trusted, admitted, log, work>>
Lapse(x) ==
  /\ permission[x] # None /\ permission[x].expires = "later"
  /\ permission' = [permission EXCEPT ![x].expires = "past"]
  /\ UNCHANGED <<item, ended, trusted, admitted, log, work>>
Abandon(d) ==
  /\ work[d] # Idle /\ Becomes(d, Idle)
  /\ trusted' = [trusted EXCEPT ![d] = {}]
  /\ UNCHANGED <<item, ended, permission, admitted, log>>

Bulks == UNION {[1..n -> Items] : n \in 1..MaxBulk}
Next ==
  \/ \E d \in Devices, x \in Pairs, expires \in {"never", "later"} :
       \E op \in {"grant", "update"} : PermissionRead(d, x, op, expires)
  \/ \E d \in Devices, x \in Pairs, op \in {"revoke", "remove"} : PermissionRead(d, x, op, "never")
  \/ \E d \in Devices : \/ grantPermission(d) \/ revokePermission(d) \/ removePermission(d)
                        \/ Find(d) \/ Refuse(d) \/ Validate(d) \/ Admit(d) \/ markAsUsed(d)
                        \/ LogScan(d) \/ Answer(d) \/ VerifyWrite(d) \/ Abandon(d)
  \/ \E d \in Devices, t \in Tickets : VerifyRead(d, t)
  \/ \E d \in Devices, active \in BOOLEAN : updatePermission(d, active)
  \/ \E d \in Devices, u \in Users, codes \in Bulks, mark \in BOOLEAN : scan(d, u, codes, mark)
  \/ \E o \in Owners : EventEnds(o)
  \/ \E x \in Pairs : Lapse(x)

Spec == Init /\ [][Next]_vars

-----------------------------------------------------------------------------
TypeOK ==
  /\ item \in [Items -> ItemType] /\ ended \subseteq Owners
  /\ permission \in [Pairs -> PermissionType \cup {None}]
  /\ trusted \in [Devices -> SUBSET Owners]
  /\ {admitted, log} \subseteq [Items \X Users -> 0..Cardinality(Devices)]

(* A bulk scan admits an item once, although it lists its code twice and     *)
(* other devices scan the same items: what it has marked it finds used.      *)
BulkAdmitsOnce ==
  \A d \in Devices : work[d] # Idle /\ work[d].op \in {"scan", "check", "mark", "log"} =>
    \A i, j \in DOMAIN work[d].done : work[d].done[i] = work[d].done[j] => i = j

(* Whoever marks an item organises its event, or held its organiser's         *)
(* permission at some time after the item was read: one that was revoked,     *)
(* removed or lapsed before, while the call was scanning other codes, or one  *)
(* for another organiser, is no use.                                          *)
AdmittedByStaff ==
  \A d \in Devices : work[d].op \in {"mark", "log"} =>
    LET o == Owner[Head(work[d].codes)] IN work[d].user = o \/ o \in trusted[d]

(* The statistics never count more admissions than a scanner made, although  *)
(* two devices may admit one item and a log may fail; what they count has    *)
(* been marked as used for good.                                             *)
StatisticsAreAdmissions ==
  \A u \in Users :
    /\ \A i \in Items : log[<<i, u>>] > 0 => item[i].used /\ item[i].status = "used"
    /\ getScannerStats(u).ticketsMarkedUsed + getScannerStats(u).registrationsMarkedUsed
         <= SumFunctionOnSet([i \in Items |-> admitted[<<i, u>>]], Items)

(* Items are admitted once by a bulk scan, by staff, and counted as such.      *)
ScannerSafe ==
  TypeOK /\ BulkAdmitsOnce /\ AdmittedByStaff /\ StatisticsAreAdmissions
=============================================================================
