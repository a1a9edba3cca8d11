------------------------------ MODULE MCWorker ------------------------------
(* The two loops of the checkout worker for TLC.  They share no state, so   *)
(* each behaviour follows one of them: `part` says which, and the variables *)
(* of the other one keep their first values.                                *)
EXTENDS Worker, TLC

CONSTANTS j1, j2, j3

VARIABLE part

(* A ticket order with an address, a sponsored registration, and a          *)
(* registration with an address.                                            *)
KindOf == j1 :> "TICKET" @@ j2 :> "SPONSORED" @@ j3 :> "REGISTRATION"

WorkerInit ==
  /\ Init /\ Delivery!Init
  /\ part \in {"refunds", "one job", "two jobs"}
  /\ part # "refunds" => automatic

(* In the part "two jobs" each job is claimed once.                         *)
ClaimedOnce == \A j \in Jobs : job'[j].attempts <= 1

Loop(p, A) == part = p /\ A /\ UNCHANGED part
Refunds(A) == Loop("refunds", A) /\ UNCHANGED confirmation
OneJob(A) == Loop("one job", A) /\ UNCHANGED vars
TwoJobs(A) == Loop("two jobs", A) /\ ClaimedOnce /\ UNCHANGED vars

WorkerNext ==
  \/ \E w \in Workers :
       \/ Refunds(Read(w)) \/ Refunds(Claim(w)) \/ Refunds(List(w)) \/ Refunds(MarkProcessing(w))
       \/ Refunds(Post(w)) \/ Refunds(Record(w)) \/ Refunds(Manual(w)) \/ Refunds(Crash(w))
       \/ OneJob(Delivery!Work(w)) \/ OneJob(Delivery!Throws(w)) \/ OneJob(Delivery!Crash(w))
       \/ TwoJobs(Delivery!Work(w)) \/ TwoJobs(Delivery!Throws(w)) \/ TwoJobs(Delivery!Crash(w))
  \/ Refunds(BecomeDue) \/ Refunds(ExpireLease) \/ Refunds(Answer) \/ Refunds(RefundByHand)
  \/ Refunds(ConfirmRead) \/ Refunds(ConfirmWrite)
  \/ OneJob(Delivery!Confirm(j3)) \/ \E j \in {j1, j2} : TwoJobs(Delivery!Confirm(j))
  \/ \E j \in Jobs :
       \/ OneJob(Delivery!NextAttempt(j)) \/ OneJob(Delivery!LeaseEnds(j))
       \/ OneJob(Delivery!Sends(j)) \/ OneJob(Delivery!Refuses(j))
       \/ OneJob(Delivery!Skips(j)) \/ OneJob(Delivery!HandsBack(j))
       \/ TwoJobs(Delivery!NextAttempt(j)) \/ TwoJobs(Delivery!LeaseEnds(j))
       \/ TwoJobs(Delivery!Sends(j)) \/ TwoJobs(Delivery!Refuses(j))
       \/ TwoJobs(Delivery!Skips(j)) \/ TwoJobs(Delivery!HandsBack(j))

all == <<part, vars, confirmation>>

WorkerSpec ==
  /\ WorkerInit /\ [][WorkerNext]_all
  /\ \A w \in Workers : WF_all(Refunds(Work(w))) /\ WF_all(OneJob(Delivery!Work(w)))
  /\ WF_all(Refunds(BecomeDue)) /\ WF_all(Refunds(ExpireLease)) /\ WF_all(Refunds(Answer))
  /\ WF_all(OneJob(Delivery!NextAttempt(j3))) /\ WF_all(OneJob(Delivery!LeaseEnds(j3)))

(* No refund is forgotten. *)
RefundsResolve == part = "refunds" => RefundResolves

(* No confirmation is forgotten. *)
ConfirmationsResolve == part = "one job" => Delivery!Resolves(j3)
=============================================================================
