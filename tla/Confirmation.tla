---------------------------- MODULE Confirmation ----------------------------
(***************************************************************************)
(* Delivery of what a confirmed checkout causes: a feed entry, the         *)
(* organiser's notification and the buyer's email (checkout.worker.ts,     *)
(* ticket.service.ts, registration.service.ts), and the mail queue behind  *)
(* the email (mail.service.ts, mail.processor.ts).  A job is written by    *)
(* the transaction that confirms the checkout; every server runs a worker  *)
(* every ten seconds, which claims jobs one by one under a lease of two    *)
(* minutes and may stop anywhere.                                          *)
(*                                                                         *)
(* A ticket order has one email per ticket; here one stands for them.      *)
(* Times are whether a job is due and whether a lease is over.             *)
(***************************************************************************)
EXTENDS Integers, FiniteSets, Sequences, Functions

CONSTANTS Jobs,         \* confirmed checkouts
          Kind,         \* [Jobs -> {"TICKET", "REGISTRATION", "SPONSORED"}]
          Addressed,    \* jobs whose buyer has an address the mail settings let through
          Workers,      \* one for each server process
          None,         \* no job
          MaxAttempts,  \* bound: claims of a job
          MaxStalls     \* bound: mail jobs a dead processor hands back

VARIABLES
    job,        \* the rows of checkoutFulfillmentJob
    work,       \* what each worker has in hand
    fed,        \* feed entries of each job
    noticed,    \* notifications of each job
    mail,       \* the mail job of each job: none, waiting, done or failed
    sent,       \* emails the provider accepted
    stalls,     \* history: mail jobs handed back
    overrun     \* history: jobs whose lease ended under their worker

vars == <<job, work, fed, noticed, mail, sent, stalls, overrun>>
outbox == <<fed, noticed, mail>>
provider == <<sent, stalls>>

NoJob == [status |-> "NONE", attempts |-> 0, lease |-> "none", due |-> FALSE]
Resting == [step |-> "idle", todo |-> [j \in {} |-> NoJob], at |-> None, next |-> 1]

(* In what order each kind of checkout is announced. *)
notifyPurchase == <<"feed", "notice", "mail">>
notifyRegistration == <<"notice", "feed", "mail">>
recordSponsoredRegistration == <<"notice", "feed">>
Parts(j) ==
    CASE Kind[j] = "TICKET"       -> notifyPurchase
      [] Kind[j] = "REGISTRATION" -> notifyRegistration
      [] Kind[j] = "SPONSORED"    -> recordSponsoredRegistration

(* The mail settings, asked before a mail is queued and again before it is  *)
(* sent, and the buyer's address.                                           *)
explainFeatureState(j) == j \in Addressed

TypeOK ==
    /\ job \in [Jobs -> [status : {"NONE", "PENDING", "PROCESSING", "COMPLETED"}, attempts : 0..MaxAttempts,
                         lease : {"none", "live", "over"}, due : BOOLEAN]]
    /\ \A w \in Workers : work[w].step \in {"idle", "next", "deliver", "failed"} /\ work[w].at \in Jobs \cup {None}
    /\ fed \in [Jobs -> 0..MaxAttempts] /\ noticed \in [Jobs -> 0..MaxAttempts]
    /\ mail \in [Jobs -> {"none", "waiting", "done", "failed"}]
    /\ sent \in [Jobs -> Nat] /\ stalls \in [Jobs -> 0..MaxStalls]
    /\ overrun \subseteq Jobs

Init ==
    /\ job = [j \in Jobs |-> NoJob]
    /\ work = [w \in Workers |-> Resting]
    /\ fed = [j \in Jobs |-> 0] /\ noticed = [j \in Jobs |-> 0]
    /\ mail = [j \in Jobs |-> "none"]
    /\ sent = [j \in Jobs |-> 0] /\ stalls = [j \in Jobs |-> 0]
    /\ overrun = {}

(* confirm: the job is written with the admission it announces. *)
Confirm(j) ==
    /\ job[j].status = "NONE"
    /\ job' = [job EXCEPT ![j].status = "PENDING", ![j].due = TRUE]
    /\ UNCHANGED <<work, outbox, provider, overrun>>

(* Wrong: a job that a stopped worker left is not looked for. *)
StillPending(j) == job[j].due /\ job[j].status = "PENDING"

Open(j) ==
    /\ job[j].due
    /\ \/ job[j].status = "PENDING"
       \/ job[j].status = "PROCESSING" /\ job[j].lease = "over"

(* The worker's round starts with one look at the jobs that are open. *)
deliverConfirmations(w) ==
    /\ work[w].step = "idle"
    /\ \E j \in Jobs : Open(j)
    /\ work' = [work EXCEPT ![w] = [Resting EXCEPT !.step = "next", !.todo = [j \in {i \in Jobs : Open(i)} |-> job[j]]]]
    /\ UNCHANGED <<job, outbox, provider, overrun>>

(* Wrong: the claim asks only that the job is still open. *)
StillOpen(seen, now) == seen.status = now.status

(* The claim's where: status and attempts as they were when looked at. *)
Unclaimed(seen, now) == seen.status = now.status /\ seen.attempts = now.attempts

Claim(w, j) ==
    /\ work[w].step = "next" /\ j \in DOMAIN work[w].todo
    /\ job[j].attempts < MaxAttempts
    /\ LET rest == Restrict(work[w].todo, DOMAIN work[w].todo \ {j})
       IN  IF Unclaimed(work[w].todo[j], job[j])
           THEN /\ job' = [job EXCEPT ![j].status = "PROCESSING", ![j].attempts = @ + 1, ![j].lease = "live"]
                /\ work' = [work EXCEPT ![w] = [step |-> "deliver", todo |-> rest, at |-> j, next |-> 1]]
           ELSE /\ work' = [work EXCEPT ![w].todo = rest]
                /\ UNCHANGED job
    /\ UNCHANGED <<outbox, provider, overrun>>

RoundEnds(w) ==
    /\ work[w].step = "next" /\ DOMAIN work[w].todo = {}
    /\ work' = [work EXCEPT ![w] = Resting]
    /\ UNCHANGED <<job, outbox, provider, overrun>>

(* Under the deterministic id of the ticket or registration: the queue      *)
(* ignores an id it already holds.  Without an address, or with the feature *)
(* switched off, nothing is queued and nothing fails.                       *)
queueMail(j) ==
    IF explainFeatureState(j) /\ mail[j] = "none" THEN mail' = [mail EXCEPT ![j] = "waiting"] ELSE UNCHANGED mail

(* The next part of the announcement. *)
Announce(w) ==
    /\ work[w].step = "deliver"
    /\ LET j == work[w].at
       IN  /\ work[w].next <= Len(Parts(j))
           /\ LET part == Parts(j)[work[w].next]
              IN  /\ fed' = IF part = "feed" THEN [fed EXCEPT ![j] = @ + 1] ELSE fed
                  /\ noticed' = IF part = "notice" THEN [noticed EXCEPT ![j] = @ + 1] ELSE noticed
                  /\ IF part = "mail" THEN queueMail(j) ELSE UNCHANGED mail
    /\ work' = [work EXCEPT ![w].next = @ + 1]
    /\ UNCHANGED <<job, provider, overrun>>

(* Wrong: the job is completed as soon as its first part is out. *)
SomethingOut(w) == work[w].next > 1

Announced(w) == work[w].next > Len(Parts(work[w].at))

Complete(w) ==
    /\ work[w].step = "deliver"
    /\ Announced(w)
    /\ job' = [job EXCEPT ![work[w].at].status = "COMPLETED", ![work[w].at].lease = "none"]
    /\ work' = [work EXCEPT ![w].step = "next", ![w].at = None]
    /\ UNCHANGED <<outbox, provider, overrun>>

(* A part, or the update that completes the job, throws. *)
Throws(w) ==
    /\ work[w].step = "deliver"
    /\ work' = [work EXCEPT ![w].step = "failed"]
    /\ UNCHANGED <<job, outbox, provider, overrun>>

(* catch: back to PENDING, to be tried again later.  Nothing is asked of    *)
(* the row, which another worker may have completed by now.                 *)
Requeue(w) ==
    /\ work[w].step = "failed"
    /\ job' = [job EXCEPT ![work[w].at].status = "PENDING", ![work[w].at].lease = "none", ![work[w].at].due = FALSE]
    /\ work' = [work EXCEPT ![w].step = "next", ![w].at = None]
    /\ UNCHANGED <<outbox, provider, overrun>>

(* The server stops, or the catch itself throws and ends the round.  A stop *)
(* between two jobs leaves nothing behind.                                  *)
Crash(w) ==
    /\ work[w].at # None
    /\ work' = [work EXCEPT ![w] = Resting]
    /\ UNCHANGED <<job, outbox, provider, overrun>>

NextAttempt(j) ==
    /\ job[j].status = "PENDING" /\ ~job[j].due
    /\ job' = [job EXCEPT ![j].due = TRUE]
    /\ UNCHANGED <<work, outbox, provider, overrun>>

LeaseEnds(j) ==
    /\ job[j].lease = "live"
    /\ job' = [job EXCEPT ![j].lease = "over"]
    /\ overrun' = IF \E w \in Workers : work[w].at = j THEN overrun \cup {j} ELSE overrun
    /\ UNCHANGED <<work, outbox, provider>>

-----------------------------------------------------------------------------
(* The mail queue: a job is tried once.                                     *)

(* process: the provider accepts the mail. *)
Sends(j) ==
    /\ mail[j] = "waiting"
    /\ sent' = [sent EXCEPT ![j] = @ + 1]
    /\ mail' = [mail EXCEPT ![j] = "done"]
    /\ UNCHANGED <<job, work, fed, noticed, stalls, overrun>>

(* process throws: the provider refuses, or cannot be reached.  The queue   *)
(* was given no attempts to spare.                                          *)
Refuses(j) ==
    /\ mail[j] = "waiting"
    /\ mail' = [mail EXCEPT ![j] = "failed"]
    /\ UNCHANGED <<job, work, fed, noticed, provider, overrun>>

(* The settings switched the feature off after the mail was queued. *)
Skips(j) ==
    /\ mail[j] = "waiting"
    /\ mail' = [mail EXCEPT ![j] = "done"]
    /\ UNCHANGED <<job, work, fed, noticed, provider, overrun>>

(* The processor dies after the provider accepted: the queue hands the mail *)
(* to another processor.                                                    *)
HandsBack(j) ==
    /\ mail[j] = "waiting" /\ stalls[j] < MaxStalls
    /\ sent' = [sent EXCEPT ![j] = @ + 1]
    /\ stalls' = [stalls EXCEPT ![j] = @ + 1]
    /\ UNCHANGED <<job, work, outbox, overrun>>

Work(w) ==
    \/ deliverConfirmations(w) \/ (\E j \in Jobs : Claim(w, j)) \/ RoundEnds(w)
    \/ Announce(w) \/ Complete(w) \/ Requeue(w)

Next ==
    \/ \E j \in Jobs :
          \/ Confirm(j) \/ NextAttempt(j) \/ LeaseEnds(j)
          \/ Sends(j) \/ Refuses(j) \/ Skips(j) \/ HandsBack(j)
    \/ \E w \in Workers : Work(w) \/ Throws(w) \/ Crash(w)

Spec == Init /\ [][Next]_vars

(* The interval keeps calling the worker, and time passes; what throws or   *)
(* stops need not.                                                          *)
FairSpec ==
    /\ Spec
    /\ \A w \in Workers : WF_vars(Work(w))
    /\ \A j \in Jobs : WF_vars(NextAttempt(j)) /\ WF_vars(LeaseEnds(j))

-----------------------------------------------------------------------------

(* "feed/notification delivery remains at least once" (README.md): a        *)
(* completed job has reached the feed, the organiser and the mail queue,    *)
(* whatever failed or was tried twice before.                               *)
CompletedIsDelivered ==
    \A j \in Jobs : job[j].status = "COMPLETED" =>
        /\ fed[j] > 0 /\ noticed[j] > 0
        /\ explainFeatureState(j) /\ Kind[j] # "SPONSORED" => mail[j] # "none"

(* A job nobody outlived the lease of is in one worker's hands at a time,   *)
(* and in nobody's once it is completed.                                    *)
OneDeliverer ==
    \A j \in Jobs \ overrun :
        LET holders == {w \in Workers : work[w].at = j}
        IN  Cardinality(holders) <= (IF job[j].status = "PROCESSING" THEN 1 ELSE 0)

(* "Email queue jobs have deterministic IDs" (README.md): however often a   *)
(* job is delivered, its buyer gets one email, and one more for each time   *)
(* a processor died on it.                                                  *)
MailedOnce == \A j \in Jobs : sent[j] <= 1 + stalls[j]

(* A completed job was delivered, no two workers have one job under a live    *)
(* lease, and nobody gets two emails that no processor died on.               *)
ConfirmationsSafe == TypeOK /\ CompletedIsDelivered /\ OneDeliverer /\ MailedOnce

(* No confirmation is forgotten: whichever worker stops, throws or is too   *)
(* slow, a job is completed in the end (or the bound on its claims is met). *)
Resolves(j) ==
    job[j].status = "PENDING" ~> job[j].status = "COMPLETED" \/ job[j].attempts = MaxAttempts
=============================================================================
