----------------------------- MODULE Settlement -----------------------------
(***************************************************************************)
(* What becomes of the collected payments of one creator:                  *)
(* wallet.service.ts (reconciliation, createSettlement, completeSettlement *)
(* and the handlers that change the payout profile), the risk review and   *)
(* the completion of a payment in transaction-reference.service.ts.        *)
(*                                                                         *)
(* Reconciliation runs outside a transaction: it reads rows, decides, and  *)
(* writes by id, statement after statement, so other requests come in      *)
(* between.  Each of its statements is an action; a loop over rows that    *)
(* were read together writes them in one step.  Only the risk review runs  *)
(* it inside its own transaction, and there it is one step.                *)
(*                                                                         *)
(* "HOLD" stands for REVIEW, HOLD and BLOCKED; a "PENDING" payment also for *)
(* AWAITING_TRANSFER and EXPIRED, "REFUND_REQUIRED" also for REFUNDED; a   *)
(* "PENDING" settlement also for PROCESSING, a "FAILED" one for CANCELLED. *)
(*                                                                         *)
(* A definition whose comment begins with "Wrong" is not part of the       *)
(* specification: it is the faulty variant of the one that follows it.     *)
(***************************************************************************)
EXTENDS Integers, FiniteSets

CONSTANTS
  Count,      \* payments of the creator, numbered by createdAt
  Donations,  \* those that are donations; the others have a checkout
  payable,    \* creatorPayable of each
  Cap,        \* BASIC_KYC_SETTLEMENT_CAP_KOBO
  Profiles,   \* payout profiles that KYC and its reviews produce
  Requests,   \* requests in flight
  Batches     \* settlement records that may be created

Payments == 1..Count
Tiers == {"NONE", "BASIC", "FULL"}
ProfileType == [active : BOOLEAN, tier : Tiers]

ASSUME SettlementAssumption ==
  /\ Count \in Nat
  /\ Donations \subseteq Payments
  /\ payable \in [Payments -> Nat \ {0}]
  /\ Cap \in Nat
  /\ Profiles \subseteq ProfileType
  /\ IsFiniteSet(Batches)

VARIABLES
  profile,     \* CreatorSettlementProfile: is it ACTIVE, and the approved tier
  payment,     \* TransactionReference: status, risk and settlement
  batch,       \* SettlementRecord.status, or "none"
  allocation,  \* the settlement a payment is allocated to, at most one, or Free
  request      \* control state of each request

vars == <<profile, payment, batch, allocation, request>>

Holds == {"NOT_READY", "HELD_KYC", "HELD_RISK"}
Settlements == Holds \cup {"READY", "PROCESSING", "SETTLED", "FAILED"}
PaymentType ==
  [status : {"PENDING", "SUCCESS", "FAILED", "REFUND_REQUIRED"},
   risk : {"CLEAR", "HOLD"}, settlement : Settlements]
Outcomes == {"PENDING", "SUCCESS", "FAILED"}
Free == "free"

Keep == "keep"
KeepAll == [p \in Payments |-> Keep]
Stages == {"idle", "read", "backfill", "check", "reset", "hold", "release",
           "aggregate", "list", "apply", "park", "claim", "collect"}
(* A request reconciles for itself, or to settle: it then checks first. *)
Works == {"refresh", "check", "settle"}
Idle == [stage |-> "idle", work |-> "refresh", active |-> FALSE, committed |-> 0,
         todo |-> KeepAll]

-----------------------------------------------------------------------------
(***************************************************************************)
(* The statements of reconciliation, as functions of the rows.             *)
(***************************************************************************)
Paid(pay) == {p \in Payments : pay[p].status = "SUCCESS"}
Clear(pay) == {p \in Payments : pay[p].risk = "CLEAR"}
In(pay, S) == {p \in Payments : pay[p].settlement \in S}
Owed(S) ==
  LET owed[n \in 0..Count] ==
        IF n = 0 THEN 0 ELSE IF n \in S THEN owed[n - 1] + payable[n] ELSE owed[n - 1]
  IN owed[Count]
Sums == {0} \cup {Owed(S) : S \in SUBSET Payments}
RequestType ==
  [stage : Stages, work : Works, active : BOOLEAN, committed : Sums,
   todo : [Payments -> Settlements \cup {Keep}]]

(* updateMany over the rows in S. *)
Put(pay, S, settlement) ==
  [p \in Payments |-> IF p \in S THEN [pay[p] EXCEPT !.settlement = settlement]
                      ELSE pay[p]]
(* One update by id for each row that is to change, whatever it is by now. *)
Write(pay, todo) ==
  [p \in Payments |-> IF todo[p] = Keep THEN pay[p]
                      ELSE [pay[p] EXCEPT !.settlement = todo[p]]]
(* A row is written only if the value it was read with differs. *)
Changes(pay, next) ==
  [p \in Payments |->
     IF p \in DOMAIN next /\ next[p] # pay[p].settlement THEN next[p] ELSE Keep]

Inferred(rec, prof) ==
  IF prof.active /\ prof.tier = "FULL" /\ rec.risk = "CLEAR" THEN "READY"
  ELSE IF prof.active /\ rec.risk # "CLEAR" THEN "HELD_RISK"
  ELSE "HELD_KYC"
backfillCreatorTransactions(pay, prof) ==
  Changes(pay, [p \in Paid(pay) \cap In(pay, {"NOT_READY", "HELD_KYC"}) |->
                  Inferred(pay[p], prof)])

resetUnsuccessfulSettlementStatuses(pay) ==
  Put(pay, In(pay, {"READY", "HELD_KYC", "HELD_RISK"}) \ Paid(pay), "NOT_READY")

HoldForRisk(pay) ==
  Put(pay, (Paid(pay) \cap In(pay, {"HELD_KYC", "READY", "NOT_READY"})) \ Clear(pay),
      "HELD_RISK")
(* Wrong: forgets the payments whose risk was held before KYC was approved. *)
ReleaseKycHolds(pay) ==
  Put(pay, Paid(pay) \cap In(pay, {"HELD_KYC", "NOT_READY"}) \cap Clear(pay), "READY")
Release(pay) == Put(pay, Paid(pay) \cap In(pay, Holds) \cap Clear(pay), "READY")
Park(pay) == Put(pay, Paid(pay) \cap In(pay, {"READY", "HELD_RISK"}), "HELD_KYC")

Committed(pay) == Owed(Paid(pay) \cap In(pay, {"PROCESSING", "SETTLED"}))
(* applyBasicKycSettlementCap: oldest first, skipping what does not fit.  What  *)
(* the first n payments leave committed:                                      *)
Spent(list, committed) ==
  LET spent[n \in 0..Count] ==
        IF n = 0 THEN committed
        ELSE IF n \in list /\ spent[n - 1] + payable[n] <= Cap THEN spent[n - 1] + payable[n]
        ELSE spent[n - 1]
  IN spent
Fits(list, committed) ==
  LET spent == Spent(list, committed) IN {p \in list : spent[p - 1] + payable[p] <= Cap}
Capped(pay, committed) ==
  LET list == Paid(pay) \cap Clear(pay) \cap In(pay, Holds \cup {"READY"})
      fits == Fits(list, committed)
  IN Changes(pay, [p \in list |-> IF p \in fits THEN "READY" ELSE "HELD_KYC"])

(* syncCreatorSettlementStatus with nothing in between. *)
Reconciled(pay, prof) ==
  LET ours == resetUnsuccessfulSettlementStatuses(
                Write(pay, backfillCreatorTransactions(pay, prof)))
      held == HoldForRisk(ours)
  IN CASE prof.active /\ prof.tier = "FULL" -> Release(held)
       [] prof.active /\ prof.tier = "BASIC" -> Write(held, Capped(held, Committed(held)))
       [] prof.active /\ prof.tier = "NONE" -> Park(held)
       [] OTHER -> Park(ours)

(* resolveSettlementStatus *)
Resolved(prof, risk) ==
  IF ~ prof.active THEN "HELD_KYC" ELSE IF risk = "CLEAR" THEN "READY" ELSE "HELD_RISK"

-----------------------------------------------------------------------------
(* assessRisk: what is held for its risk, or clear, or waits for the payout    *)
(* profile and is then held for both.                                         *)
Opened(prof) ==
  LET pending(risk, settlement) ==
        [status |-> "PENDING", risk |-> risk, settlement |-> settlement]
  IN {pending("HOLD", "HELD_RISK"),
      IF prof.active THEN pending("CLEAR", "READY") ELSE pending("HOLD", "HELD_KYC")}

Init ==
  /\ profile \in Profiles
  /\ payment \in [Payments -> Opened(profile)]
  /\ batch = [b \in Batches |-> "none"]
  /\ allocation = [p \in Payments |-> Free]
  /\ request = [r \in Requests |-> Idle]

At(r, stage) == request[r].stage = stage
Goto(r, stage) == request' = [request EXCEPT ![r].stage = stage]
(* The end of reconciliation: the answer, or the claim of createSettlement. *)
Finish(r) ==
  request' = [request EXCEPT ![r] =
    IF @.work = "settle" THEN [Idle EXCEPT !.stage = "claim"] ELSE Idle]

(* The caller of reconciliation passes on the status that it read or wrote. *)
Begin(r, work, active) ==
  request' = [request EXCEPT ![r] = [Idle EXCEPT !.stage = "read", !.work = work,
                                                 !.active = active]]
(* The wallet, a preview or a queue is opened. *)
Refresh(r) ==
  /\ At(r, "idle")
  /\ Begin(r, "refresh", profile.active)
  /\ UNCHANGED <<profile, payment, batch, allocation>>
(* A KYC step or a review writes the profile and reconciles afterwards. *)
UpdateProfile(r, prof) ==
  /\ At(r, "idle")
  /\ profile' = prof
  /\ Begin(r, "refresh", prof.active)
  /\ UNCHANGED <<payment, batch, allocation>>
(* createSettlement backfills, checks the profile, and then reconciles; so     *)
(* does getTransactionHistory, which claims nothing in the end (Refuse).      *)
CreateSettlement(r) ==
  /\ At(r, "idle")
  /\ Begin(r, "check", FALSE)
  /\ UNCHANGED <<profile, payment, batch, allocation>>
Check(r) ==
  /\ At(r, "check")
  /\ IF profile.active THEN Begin(r, "settle", TRUE)
     ELSE request' = [request EXCEPT ![r] = Idle]
  /\ UNCHANGED <<profile, payment, batch, allocation>>

AfterBackfill(r) == IF request[r].work = "check" THEN "check" ELSE "reset"
(* Backfill reads the profile and the payments, and writes if it must. *)
Read(r) ==
  LET todo == backfillCreatorTransactions(payment, profile)
  IN /\ At(r, "read")
     /\ request' = [request EXCEPT
          ![r].stage = IF todo = KeepAll THEN AfterBackfill(r) ELSE "backfill",
          ![r].todo = todo]
     /\ UNCHANGED <<profile, payment, batch, allocation>>
Backfill(r) ==
  /\ At(r, "backfill")
  /\ payment' = Write(payment, request[r].todo)
  /\ request' = [request EXCEPT ![r].stage = AfterBackfill(r), ![r].todo = KeepAll]
  /\ UNCHANGED <<profile, batch, allocation>>
Reset(r) ==
  /\ At(r, "reset")
  /\ payment' = resetUnsuccessfulSettlementStatuses(payment)
  /\ request' = [request EXCEPT ![r].stage = IF request[r].active THEN "hold" ELSE "park",
                                ![r].active = FALSE]
  /\ UNCHANGED <<profile, batch, allocation>>
(* The tier is read again here, the status of the profile is not. *)
Hold(r) ==
  /\ At(r, "hold")
  /\ payment' = HoldForRisk(payment)
  /\ Goto(r, CASE profile.tier = "FULL" -> "release"
               [] profile.tier = "BASIC" -> "aggregate"
               [] profile.tier = "NONE" -> "park")
  /\ UNCHANGED <<profile, batch, allocation>>
ReleaseHolds(r) ==
  /\ At(r, "release")
  /\ payment' = Release(payment)
  /\ Finish(r)
  /\ UNCHANGED <<profile, batch, allocation>>
ParkAll(r) ==
  /\ At(r, "park")
  /\ payment' = Park(payment)
  /\ Finish(r)
  /\ UNCHANGED <<profile, batch, allocation>>

(* applyBasicKycSettlementCap: the sum, then the list, then the writes. *)
Aggregate(r) ==
  /\ At(r, "aggregate")
  /\ request' = [request EXCEPT ![r].stage = "list", ![r].committed = Committed(payment)]
  /\ UNCHANGED <<profile, payment, batch, allocation>>
ListClear(r) ==
  LET todo == Capped(payment, request[r].committed)
  IN /\ At(r, "list")
     /\ IF todo = KeepAll THEN Finish(r)
        ELSE request' = [request EXCEPT ![r].stage = "apply", ![r].committed = 0,
                                        ![r].todo = todo]
     /\ UNCHANGED <<profile, payment, batch, allocation>>
ApplyCap(r) ==
  /\ At(r, "apply")
  /\ payment' = Write(payment, request[r].todo)
  /\ Finish(r)
  /\ UNCHANGED <<profile, batch, allocation>>

-----------------------------------------------------------------------------
(***************************************************************************)
(* Settlements.                                                            *)
(***************************************************************************)
(* loadReadySettlementTransactions; the claim tests the same again. *)
Eligible ==
  {p \in Paid(payment) \cap Clear(payment) \cap In(payment, {"READY"}) :
     allocation[p] = Free}
(* The transaction of createSettlement; a stale preview only refuses. *)
Claim(r, b, S) ==
  /\ At(r, "claim")
  /\ batch[b] = "none"
  /\ S # {} /\ S \subseteq Eligible
  /\ payment' = Put(payment, S, "PROCESSING")
  /\ allocation' = [p \in Payments |-> IF p \in S THEN b ELSE allocation[p]]
  /\ batch' = [batch EXCEPT ![b] = "PENDING"]
  /\ request' = [request EXCEPT ![r] = Idle]
  /\ UNCHANGED profile
Refuse(r) ==
  /\ At(r, "claim")
  /\ request' = [request EXCEPT ![r] = Idle]
  /\ UNCHANGED <<profile, payment, batch, allocation>>

Allocated(b) == {p \in Payments : allocation[p] = b}
(* Wrong: writes the record's own status into its payments. *)
AfterOutcomeAsRecorded(status) == status
AfterOutcome(status) ==
  CASE status = "SUCCESS" -> "SETTLED"
    [] status = "FAILED" -> "READY"
    [] status = "PENDING" -> "PROCESSING"
(* completeSettlement: the record is compared and set; its payments are not. *)
RecordOutcome(b, status) ==
  /\ batch[b] \notin {"none", "SUCCESS"}
  /\ batch' = [batch EXCEPT ![b] = status]
  /\ payment' = Put(payment, Allocated(b), AfterOutcome(status))
  /\ UNCHANGED <<profile, allocation, request>>

-----------------------------------------------------------------------------
(***************************************************************************)
(* Payments: completed, failed and reviewed.                               *)
(***************************************************************************)
Settled == {"SUCCESS", "REFUND_REQUIRED"}
(* completeCollectedTransaction reads the payment and the profile first. *)
Deliver(r, p) ==
  /\ At(r, "idle")
  /\ payment[p].status \notin IF p \in Donations THEN Settled \cup {"FAILED"} ELSE Settled
  /\ request' = [request EXCEPT ![r] =
       [Idle EXCEPT !.stage = "collect",
                    !.todo = [KeepAll EXCEPT ![p] = Resolved(profile, payment[p].risk)]]]
  /\ UNCHANGED <<profile, payment, batch, allocation>>

(* A donation is written as it was read; a checkout looks again, under the   *)
(* event lock, and may owe the money back.                                   *)
Donated(p, settlement) ==
  payment' = [payment EXCEPT ![p].status = "SUCCESS", ![p].settlement = settlement]
CheckedOut(p, settlement) ==
  \/ /\ payment[p].status \notin Settled
     /\ payment' = [payment EXCEPT
          ![p].status = "SUCCESS",
          ![p].settlement = IF payment[p].risk = "CLEAR" THEN settlement ELSE "HELD_RISK"]
  \/ /\ payment[p].status \notin Settled
     /\ payment' = [payment EXCEPT ![p].status = "REFUND_REQUIRED", ![p].settlement = "FAILED"]
  \/ payment[p].status \in Settled /\ UNCHANGED payment
Collect(r) ==
  /\ At(r, "collect")
  /\ \E p \in Payments :
       /\ request[r].todo[p] # Keep
       /\ IF p \in Donations THEN Donated(p, request[r].todo[p])
          ELSE CheckedOut(p, request[r].todo[p])
  /\ request' = [request EXCEPT ![r] = Idle]
  /\ UNCHANGED <<profile, batch, allocation>>

(* Wrong: believes a late report of failure. *)
FailableAlways(p) == payment[p].status # "REFUND_REQUIRED"
Failable(p) == payment[p].status = "PENDING"
MarkTransactionFailed(p) ==
  /\ Failable(p)
  /\ payment' = [payment EXCEPT ![p].status = "FAILED", ![p].settlement = "FAILED"]
  /\ UNCHANGED <<profile, batch, allocation, request>>

Locked == {"PROCESSING", "SETTLED", "FAILED"}
(* The decision and reconciliation commit together. *)
ReviewTransactionRisk(p, risk) ==
  LET settlement == IF payment[p].status = "SUCCESS" THEN Resolved(profile, risk)
                    ELSE "NOT_READY"
  IN /\ payment[p].status \in {"SUCCESS", "PENDING"}
     /\ payment[p].settlement \notin Locked
     /\ payment' = Reconciled([payment EXCEPT ![p].risk = risk, ![p].settlement = settlement],
                              profile)
     /\ UNCHANGED <<profile, batch, allocation, request>>

-----------------------------------------------------------------------------
Next ==
  \/ \E r \in Requests :
       \/ Refresh(r) \/ CreateSettlement(r) \/ Check(r)
       \/ \E prof \in Profiles : UpdateProfile(r, prof)
       \/ Read(r) \/ Backfill(r) \/ Reset(r) \/ Hold(r) \/ ReleaseHolds(r) \/ ParkAll(r)
       \/ Aggregate(r) \/ ListClear(r) \/ ApplyCap(r)
       \/ \E b \in Batches, S \in SUBSET Payments : Claim(r, b, S)
       \/ Refuse(r)
       \/ \E p \in Payments : Deliver(r, p)
       \/ Collect(r)
  \/ \E b \in Batches, status \in Outcomes : RecordOutcome(b, status)
  \/ \E p \in Payments :
       \/ MarkTransactionFailed(p)
       \/ \E risk \in {"CLEAR", "HOLD"} : ReviewTransactionRisk(p, risk)

Spec == Init /\ [][Next]_vars

-----------------------------------------------------------------------------
(* Every variable keeps its type. *)
TypeOK ==
  /\ profile \in ProfileType
  /\ payment \in [Payments -> PaymentType]
  /\ batch \in [Batches -> Outcomes \cup {"none"}]
  /\ allocation \in [Payments -> Batches \cup {Free}]
  /\ request \in [Requests -> RequestType]

(* docs/operations-dashboard.md:32, "Unpaid/failed/expired/refunded records    *)
(* cannot contribute to readiness or allocations": what is in a settlement    *)
(* was paid and stays paid, whatever is delivered or reported late.           *)
AllocatedIsPaid == \A p \in Payments : allocation[p] # Free => payment[p].status = "SUCCESS"

(* docs/operations-dashboard.md:32, "releases cleared payments from either KYC *)
(* or risk hold once the creator is eligible, regardless of the order in      *)
(* which the holds were cleared": from every state that requests reach in     *)
(* between one another's statements, an undisturbed reconciliation makes      *)
(* ready exactly the payments that may be settled, leaves nothing ready       *)
(* beyond the Basic cap nor held below it, and is done at once.               *)
ReconcileSettles ==
  LET q == Reconciled(payment, profile)
      open == Paid(q) \ In(q, Locked)
      ready == open \cap In(q, {"READY"})
      entitled == IF profile.active /\ profile.tier # "NONE" THEN open \cap Clear(q) ELSE {}
  IN /\ q \in [Payments -> PaymentType] /\ Reconciled(q, profile) = q
     /\ ready \subseteq entitled
     /\ profile.tier = "FULL" => ready = entitled
     /\ profile.tier = "BASIC" =>
          /\ ready = {} \/ Committed(q) + Owed(ready) <= Cap
          /\ \A p \in entitled \ ready : Committed(q) + Owed(ready) + payable[p] > Cap
     /\ In(q, {"READY"}) \subseteq Paid(q)

(* docs/operations-dashboard.md:17: "payments already in settlement            *)
(* processing are locked" against risk review.                                *)
InSettlement == {p \in Payments : allocation[p] # Free
                                  /\ batch[allocation[p]] = "PENDING"}
ReservedIsLocked ==
  [][\A p \in InSettlement : payment'[p].risk = payment[p].risk]_vars
=============================================================================
