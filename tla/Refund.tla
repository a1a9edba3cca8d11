------------------------------- MODULE Refund -------------------------------
(***************************************************************************)
(* The refund of one collected payment: checkout.worker.ts, processRefunds *)
(* and manual; the operator's confirmation in                              *)
(* transaction-reference.service.ts; and, external, Paystack's refunds.    *)
(*                                                                         *)
(* Every server process runs a worker loop.  A loop reads due rows,        *)
(* claims one by compare-and-set, talks to the provider and writes what it *)
(* learnt; each of these is an action, because each is awaited on its own. *)
(* Rows of different transactions never touch, so one row is modelled.     *)
(* Timers are not counted: nextAttemptAt may pass at any time after it was *)
(* set, and so may the lease, except that a holder which is still at work  *)
(* outlives it only when Stalls says so.                                   *)
(*                                                                         *)
(* A definition whose comment begins with "Wrong" is not part of the       *)
(* specification: it is the faulty variant of the one that follows it.     *)
(***************************************************************************)
EXTENDS Integers, FiniteSets

CONSTANTS
  Workers,     \* server processes
  RefundIds,   \* refunds the provider may come to know for the payment
  Stalls,      \* may a worker take longer than its 120 second lease?
  MaxAttempts, \* bound: claims of the row
  MaxCrashes   \* bound: how often a process stops

ASSUME RefundAssumption ==
  /\ IsFiniteSet(Workers) /\ IsFiniteSet(RefundIds)
  /\ Stalls \in BOOLEAN
  /\ MaxAttempts \in Nat /\ MaxCrashes \in Nat

VARIABLES
  automatic,    \* paymentProvider is PAYSTACK and providerTransactionId is known
  transaction,  \* TransactionReference.status
  refund,       \* the CheckoutRefund row
  worker,       \* control state of each worker
  operator,     \* has an administrator's confirmation read the row?
  provider,     \* external: the provider's refunds of this payment
  posts,        \* how often a refund was POSTed
  crashes

rows == <<transaction, refund>>
vars == <<automatic, rows, worker, operator, provider, posts, crashes>>

RefundStatuses == {"REQUESTED", "PROCESSING", "MANUAL_REQUIRED", "REFUNDED"}
Due == {"REQUESTED", "PROCESSING", "MANUAL_REQUIRED"}
Leases == {"none", "held", "expired"}
Found == {"pending", "processed", "failed"}
Stages == {"idle", "read", "claimed", "listed", "posting", "recording", "failing"}
Idle == [stage |-> "idle", attempts |-> 0, status |-> "REQUESTED", found |-> "none"]

Init ==
  /\ automatic \in BOOLEAN
  /\ transaction = "REFUND_REQUIRED"
  /\ refund = [status |-> "REQUESTED", attempts |-> 0, lease |-> "none", due |-> TRUE]
  /\ worker = [w \in Workers |-> Idle]
  /\ operator = "idle"
  /\ provider = [i \in RefundIds |-> "none"]
  /\ posts = 0 /\ crashes = 0

-----------------------------------------------------------------------------
At(w, stage) == worker[w].stage = stage
Goto(w, stage) == worker' = [worker EXCEPT ![w].stage = stage]
Learn(w, stage, found) ==
  worker' = [worker EXCEPT ![w].stage = stage, ![w].found = found]
Rest(w) == worker' = [worker EXCEPT ![w] = Idle]
Known == {provider[i] : i \in RefundIds} \ {"none"}
(* The provider takes a new refund. *)
Accept(status) ==
  \E i \in RefundIds :
    provider[i] = "none" /\ provider' = [provider EXCEPT ![i] = status]

(* Wrong: a lease that ran out still keeps others away. *)
NeverLeased == refund.lease = "none"
Unleased == refund.lease # "held"
(* findMany: the due row, unless another worker's lease is running. *)
Read(w) ==
  /\ At(w, "idle")
  /\ refund.status \in Due /\ refund.due /\ Unleased
  /\ worker' = [worker EXCEPT ![w] =
       [stage |-> "read", attempts |-> refund.attempts, status |-> refund.status,
        found |-> "none"]]
  /\ UNCHANGED <<automatic, rows, operator, provider, posts, crashes>>

(* Wrong: claims whatever the row has become since it was read. *)
StillAlways(w) == TRUE
StillAsRead(w) ==
  refund.attempts = worker[w].attempts /\ refund.status = worker[w].status
(* updateMany: attempts and status must be those that were read. *)
Claim(w) ==
  /\ At(w, "read")
  /\ \/ /\ StillAsRead(w)
        /\ refund.attempts < MaxAttempts      \* bound
        /\ refund' = [refund EXCEPT !.attempts = @ + 1, !.lease = "held", !.due = FALSE]
        /\ Goto(w, IF automatic THEN "claimed" ELSE "failing")
     \/ ~ StillAsRead(w) /\ Rest(w) /\ UNCHANGED refund
  /\ UNCHANGED <<automatic, transaction, operator, provider, posts, crashes>>

(* Wrong: submits again when an earlier attempt found nothing. *)
MayPostAgain(w) == TRUE
(* attempts was 0 when the row was read: no earlier claim can have posted.   *)
MayPost(w) == worker[w].attempts = 0
(* listRefunds, and what the code decides from it. *)
List(w) ==
  /\ At(w, "claimed")
  /\ \/ \E s \in Known : Learn(w, "recording", s)
     \/ Known = {} /\ MayPost(w) /\ Goto(w, "listed")
     \/ Known = {} /\ ~ MayPost(w) /\ Goto(w, "failing")
     \/ Goto(w, "failing")        \* the call fails
  /\ UNCHANGED <<automatic, rows, operator, provider, posts, crashes>>

(* Before the POST the row is marked PROCESSING, whatever it says by then.   *)
MarkProcessing(w) ==
  /\ At(w, "listed")
  /\ refund' = [refund EXCEPT !.status = "PROCESSING"]
  /\ Goto(w, "posting")
  /\ UNCHANGED <<automatic, transaction, operator, provider, posts, crashes>>

(* createRefund: answered, refused, or timed out after it was accepted. *)
Post(w) ==
  /\ At(w, "posting")
  /\ posts' = posts + 1
  /\ \/ \E s \in {"pending", "processed"} : Accept(s) /\ Learn(w, "recording", s)
     \/ Accept("pending") /\ Goto(w, "failing")
     \/ Goto(w, "failing") /\ UNCHANGED provider
  /\ UNCHANGED <<automatic, rows, operator, crashes>>

(* Wrong: takes the provider's acceptance for completion. *)
CompletedWhenAccepted(w) == worker[w].found \in {"pending", "processed"}
Completed(w) == worker[w].found = "processed"
(* Writes what the provider said; a refund still under way is written as     *)
(* PROCESSING without looking at the row again.                              *)
Record(w) ==
  /\ At(w, "recording")
  /\ \/ /\ Completed(w)
        /\ refund' = [refund EXCEPT !.status = "REFUNDED", !.lease = "none"]
        /\ transaction' = "REFUNDED"
        /\ Rest(w)
     \/ /\ ~ Completed(w) /\ worker[w].found = "pending"
        /\ refund' = [refund EXCEPT !.status = "PROCESSING", !.lease = "none"]
        /\ Rest(w)
        /\ UNCHANGED transaction
     \/ worker[w].found = "failed" /\ Goto(w, "failing") /\ UNCHANGED rows
  /\ UNCHANGED <<automatic, operator, provider, posts, crashes>>

(* Wrong: writes a status the refund's enumeration does not have. *)
GiveUp ==
  IF refund.status # "REFUNDED"
  THEN [refund EXCEPT !.status = "FAILED", !.lease = "none", !.due = FALSE]
  ELSE refund
GiveToOperator ==
  IF refund.status # "REFUNDED"
  THEN [refund EXCEPT !.status = "MANUAL_REQUIRED", !.lease = "none", !.due = FALSE]
  ELSE refund
(* manual: an error, a refusal or a provider without a refund interface. *)
Manual(w) ==
  /\ At(w, "failing")
  /\ refund' = GiveToOperator
  /\ Rest(w)
  /\ UNCHANGED <<automatic, transaction, operator, provider, posts, crashes>>

Crash(w) ==
  /\ ~ At(w, "idle") /\ crashes < MaxCrashes
  /\ crashes' = crashes + 1
  /\ Rest(w)
  /\ UNCHANGED <<automatic, rows, operator, provider, posts>>

-----------------------------------------------------------------------------
(* nextAttemptAt and leaseExpiresAt pass. *)
Holders == {w \in Workers : worker[w].stage \notin {"idle", "read"}}
BecomeDue ==
  /\ ~ refund.due
  /\ refund' = [refund EXCEPT !.due = TRUE]
  /\ UNCHANGED <<automatic, transaction, worker, operator, provider, posts, crashes>>
ExpireLease ==
  /\ refund.lease = "held"
  /\ Stalls \/ Holders = {}
  /\ refund' = [refund EXCEPT !.lease = "expired"]
  /\ UNCHANGED <<automatic, transaction, worker, operator, provider, posts, crashes>>

(* External: the provider completes or fails a refund it has accepted. *)
Settle(i, outcome) ==
  /\ provider[i] = "pending"
  /\ provider' = [provider EXCEPT ![i] = outcome]
  /\ UNCHANGED <<automatic, rows, worker, operator, posts, crashes>>

(* External: an administrator sees the row in the queue, looks at the        *)
(* provider and refunds there by hand if no refund is under way.             *)
RefundByHand ==
  /\ refund.status = "MANUAL_REQUIRED"
  /\ Known \subseteq {"failed"}
  /\ Accept("pending")
  /\ UNCHANGED <<automatic, rows, worker, operator, posts, crashes>>

(* confirmManualRefund reads the row, then updates it without a lock; the    *)
(* administrator calls it once the provider has completed the refund.        *)
ConfirmRead ==
  /\ operator = "idle"
  /\ refund.status = "MANUAL_REQUIRED" /\ "processed" \in Known
  /\ operator' = "confirming"
  /\ UNCHANGED <<automatic, rows, worker, provider, posts, crashes>>
ConfirmWrite ==
  /\ operator = "confirming"
  /\ refund' = [refund EXCEPT !.status = "REFUNDED"]
  /\ transaction' = "REFUNDED"
  /\ operator' = "idle"
  /\ UNCHANGED <<automatic, worker, provider, posts, crashes>>

-----------------------------------------------------------------------------
Work(w) ==
  \/ Read(w) \/ Claim(w) \/ List(w) \/ MarkProcessing(w) \/ Post(w)
  \/ Record(w) \/ Manual(w)
Answer == \E i \in RefundIds, outcome \in {"processed", "failed"} : Settle(i, outcome)

Next ==
  \/ \E w \in Workers : Work(w) \/ Crash(w)
  \/ BecomeDue \/ ExpireLease
  \/ Answer \/ RefundByHand
  \/ ConfirmRead \/ ConfirmWrite

Spec == Init /\ [][Next]_vars

(* The interval keeps calling the worker, time passes and the provider       *)
(* decides; administrators and crashes owe nothing.                          *)
FairSpec ==
  /\ Spec
  /\ \A w \in Workers : WF_vars(Work(w))
  /\ WF_vars(BecomeDue) /\ WF_vars(ExpireLease) /\ WF_vars(Answer)

-----------------------------------------------------------------------------
(* Every variable keeps its type. *)
TypeOK ==
  /\ automatic \in BOOLEAN
  /\ transaction \in {"REFUND_REQUIRED", "REFUNDED"}
  /\ refund \in [status : RefundStatuses, attempts : 0..MaxAttempts, lease : Leases,
                 due : BOOLEAN]
  /\ worker \in [Workers -> [stage : Stages, attempts : 0..MaxAttempts,
                             status : RefundStatuses, found : Found \cup {"none"}]]
  /\ operator \in {"idle", "confirming"}
  /\ provider \in [RefundIds -> Found \cup {"none"}]
  /\ posts \in Nat
  /\ crashes \in 0..MaxCrashes

(* README.md:299, "Paystack refunds are submitted once": however claims,      *)
(* crashes and timeouts fall, at most one POST is sent for a payment.         *)
PostedOnce == posts <= 1

(* The buyer is paid back once: the worker's POST and the administrator's     *)
(* refund by hand never both reach the provider.                              *)
RefundedOnce == Cardinality({i \in RefundIds : provider[i] \in {"pending", "processed"}}) <= 1

(* "REFUNDED means provider completion was confirmed": the order is shown     *)
(* refunded only when the provider has completed a refund of it.              *)
RefundedMeansProcessed == transaction = "REFUNDED" => "processed" \in Known

(* One POST, one refund, and REFUNDED only when the provider has completed    *)
(* it, whatever claims, crashes and timeouts fall together.                   *)
RefundsExact == PostedOnce /\ RefundedOnce /\ RefundedMeansProcessed

(* No refund is forgotten: whoever stops in the middle, it reaches the buyer  *)
(* or an administrator (or the bound on attempts).                            *)
RefundResolves ==
  refund.status \in {"REQUESTED", "PROCESSING"}
    ~> refund.status \in {"REFUNDED", "MANUAL_REQUIRED"} \/ refund.attempts = MaxAttempts

(* README.md:299: "`REFUNDED` means provider completion was confirmed, rather *)
(* than merely queued" - so a confirmed refund does not become queued again.  *)
RefundedIsFinal == [][refund.status = "REFUNDED" => refund'.status = "REFUNDED"]_vars
=============================================================================
