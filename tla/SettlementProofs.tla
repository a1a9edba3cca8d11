-------------------------- MODULE SettlementProofs --------------------------
(***************************************************************************)
(* Settlement: every variable keeps its type, and what is in a settlement  *)
(* was paid.  Reconciliation only ever writes the settlement column, so    *)
(* the lemmas say what each of its statements leaves alone.  At the end,   *)
(* what an undisturbed reconciliation leaves: every payment as it is due.  *)
(***************************************************************************)
EXTENDS Settlement, CountingLemmas

SettlementInv == TypeOK /\ AllocatedIsPaid

PaymentRows == [Payments -> PaymentType]
Todos == [Payments -> Settlements \cup {Keep}]

-----------------------------------------------------------------------------
(* after has the statuses of before. *)
SameStatus(before, after) == \A p \in Payments : after[p].status = before[p].status

(* An update of the settlement column keeps types and statuses. *)
LEMMA PutKeeps ==
  ASSUME NEW pay \in PaymentRows, NEW S, NEW settlement \in Settlements
  PROVE  Put(pay, S, settlement) \in PaymentRows /\ SameStatus(pay, Put(pay, S, settlement))
<1>1. \A p \in Payments : pay[p] \in PaymentType
  BY DEF PaymentRows
<1>2. \A p \in Payments :
        /\ [pay[p] EXCEPT !.settlement = settlement] \in PaymentType
        /\ [pay[p] EXCEPT !.settlement = settlement].status = pay[p].status
  BY <1>1 DEF PaymentType
<1> QED
  BY <1>1, <1>2 DEF Put, SameStatus, PaymentRows

(* The same for the updates by id. *)
LEMMA WriteKeeps ==
  ASSUME NEW pay \in PaymentRows, NEW todo \in Todos
  PROVE  Write(pay, todo) \in PaymentRows /\ SameStatus(pay, Write(pay, todo))
<1>1. \A p \in Payments : pay[p] \in PaymentType
  BY DEF PaymentRows
<1>2. \A p \in Payments : todo[p] # Keep => todo[p] \in Settlements
  BY DEF Todos
<1>3. \A p \in Payments : todo[p] # Keep =>
        /\ [pay[p] EXCEPT !.settlement = todo[p]] \in PaymentType
        /\ [pay[p] EXCEPT !.settlement = todo[p]].status = pay[p].status
  BY <1>1, <1>2 DEF PaymentType
<1> QED
  BY <1>1, <1>3 DEF Write, SameStatus, PaymentRows

LEMMA BackfillTodo ==
  ASSUME NEW pay, NEW prof
  PROVE  backfillCreatorTransactions(pay, prof) \in Todos
BY DEF backfillCreatorTransactions, Changes, Inferred, Todos, Settlements, Holds

LEMMA CappedTodo ==
  ASSUME NEW pay, NEW committed
  PROVE  Capped(pay, committed) \in Todos
BY DEF Capped, Changes, Todos, Settlements, Holds

(* A whole reconciliation keeps types and statuses. *)
LEMMA ReconciledKeeps ==
  ASSUME NEW pay \in PaymentRows, NEW prof \in ProfileType
  PROVE  Reconciled(pay, prof) \in PaymentRows /\ SameStatus(pay, Reconciled(pay, prof))
<1> DEFINE filled == Write(pay, backfillCreatorTransactions(pay, prof))
           ours == resetUnsuccessfulSettlementStatuses(filled)
           held == HoldForRisk(ours)
<1>1. filled \in PaymentRows /\ SameStatus(pay, filled)
  BY BackfillTodo, WriteKeeps
<1>2. ours \in PaymentRows /\ SameStatus(filled, ours)
  BY <1>1, PutKeeps DEF resetUnsuccessfulSettlementStatuses, Settlements, Holds
<1>3. held \in PaymentRows /\ SameStatus(ours, held)
  BY <1>2, PutKeeps DEF HoldForRisk, Settlements, Holds
<1>4. /\ Release(held) \in PaymentRows /\ SameStatus(held, Release(held))
      /\ Park(held) \in PaymentRows /\ SameStatus(held, Park(held))
      /\ Park(ours) \in PaymentRows /\ SameStatus(ours, Park(ours))
  BY <1>2, <1>3, PutKeeps DEF Release, Park, Settlements, Holds
<1>5. /\ Write(held, Capped(held, Committed(held))) \in PaymentRows
      /\ SameStatus(held, Write(held, Capped(held, Committed(held))))
  BY <1>3, CappedTodo, WriteKeeps
<1>6. \/ Reconciled(pay, prof) = Release(held)
      \/ Reconciled(pay, prof) = Write(held, Capped(held, Committed(held)))
      \/ Reconciled(pay, prof) = Park(held)
      \/ Reconciled(pay, prof) = Park(ours)
  BY DEF Reconciled, ProfileType, Tiers
<1> HIDE DEF filled, ours, held
<1> QED
  BY <1>1, <1>2, <1>3, <1>4, <1>5, <1>6 DEF SameStatus

(* A step that writes settlements only, and types what it changes.  *)
LEMMA SettlementStep ==
  ASSUME SettlementInv,
         payment' \in PaymentRows, SameStatus(payment, payment'),
         profile' \in ProfileType, UNCHANGED allocation,
         batch' \in [Batches -> Outcomes \cup {"none"}],
         request' \in [Requests -> RequestType]
  PROVE  SettlementInv'
BY DEF SettlementInv, TypeOK, AllocatedIsPaid, SameStatus, PaymentRows

(* A step of a request that reads. *)
LEMMA ReadingStep ==
  ASSUME SettlementInv, UNCHANGED <<payment, batch, allocation>>,
         profile' \in ProfileType, request' \in [Requests -> RequestType]
  PROVE  SettlementInv'
BY DEF SettlementInv, TypeOK, AllocatedIsPaid

(* A step of a request that writes settlements. *)
LEMMA WritingStep ==
  ASSUME SettlementInv, UNCHANGED <<profile, batch, allocation>>,
         payment' \in PaymentRows, SameStatus(payment, payment'),
         request' \in [Requests -> RequestType]
  PROVE  SettlementInv'
BY SettlementStep DEF SettlementInv, TypeOK

-----------------------------------------------------------------------------
LEMMA IdleType == Idle \in RequestType
BY DEF Idle, RequestType, Stages, Works, KeepAll, Sums

LEMMA InitOK == Init => SettlementInv
<1> SUFFICES ASSUME Init PROVE SettlementInv
  OBVIOUS
<1> USE SettlementAssumption
<1>1. profile \in ProfileType
  BY DEF Init
<1>2. payment \in PaymentRows
  BY DEF Init, Opened, Resolved, PaymentRows, PaymentType, Settlements, Holds
<1>3. request \in [Requests -> RequestType]
  BY IdleType DEF Init
<1> QED
  BY <1>1, <1>2, <1>3 DEF Init, SettlementInv, TypeOK, AllocatedIsPaid, PaymentRows, Outcomes

(* What a request may become: idle, at another stage, or begun. *)
LEMMA RequestTypes ==
  ASSUME TypeOK, NEW r \in Requests
  PROVE  /\ request[r] \in RequestType
         /\ request \in [Requests -> RequestType]
         /\ \A next \in RequestType :
              [request EXCEPT ![r] = next] \in [Requests -> RequestType]
BY DEF TypeOK

LEMMA GotoType ==
  ASSUME TypeOK, NEW r \in Requests, NEW stage \in Stages, Goto(r, stage)
  PROVE  request' \in [Requests -> RequestType]
<1>1. [request[r] EXCEPT !.stage = stage] \in RequestType
  BY RequestTypes DEF RequestType
<1> QED
  BY <1>1, RequestTypes DEF Goto

LEMMA FinishType ==
  ASSUME TypeOK, NEW r \in Requests, Finish(r)
  PROVE  request' \in [Requests -> RequestType]
<1>1. [Idle EXCEPT !.stage = "claim"] \in RequestType
  BY IdleType DEF RequestType, Stages
<1> QED
  BY <1>1, IdleType, RequestTypes DEF Finish

LEMMA BeginType ==
  ASSUME TypeOK, NEW r \in Requests, NEW work \in Works, NEW active \in BOOLEAN,
         Begin(r, work, active)
  PROVE  request' \in [Requests -> RequestType]
<1>1. [Idle EXCEPT !.stage = "read", !.work = work, !.active = active] \in RequestType
  BY IdleType DEF RequestType, Stages
<1> QED
  BY <1>1, RequestTypes DEF Begin
-----------------------------------------------------------------------------
(* The steps of reconciliation. *)
LEMMA BeginOK ==
  ASSUME SettlementInv, SettlementAssumption, NEW r \in Requests,
         \/ Refresh(r) \/ CreateSettlement(r) \/ Check(r)
         \/ \E prof \in Profiles : UpdateProfile(r, prof)
  PROVE  SettlementInv'
<1>1. /\ profile \in ProfileType /\ profile.active \in BOOLEAN
      /\ \A prof \in Profiles : prof \in ProfileType /\ prof.active \in BOOLEAN
  BY DEF SettlementInv, TypeOK, ProfileType, SettlementAssumption
<1>2. profile' \in ProfileType
  BY <1>1 DEF Refresh, CreateSettlement, Check, UpdateProfile
<1>3. request' \in [Requests -> RequestType]
  BY <1>1, BeginType, IdleType, RequestTypes
     DEF Refresh, CreateSettlement, Check, UpdateProfile, Works, SettlementInv
<1>4. UNCHANGED <<payment, batch, allocation>>
  BY DEF Refresh, CreateSettlement, Check, UpdateProfile
<1> QED
  BY <1>2, <1>3, <1>4, ReadingStep

LEMMA ReadOK ==
  ASSUME SettlementInv, NEW r \in Requests, Read(r)
  PROVE  SettlementInv'
<1> DEFINE todo == backfillCreatorTransactions(payment, profile)
           stage == IF todo = KeepAll THEN AfterBackfill(r) ELSE "backfill"
<1>1. todo \in Todos /\ stage \in Stages
  BY BackfillTodo DEF AfterBackfill, Stages
<1>2. request' = [request EXCEPT ![r] = [request[r] EXCEPT !.stage = stage, !.todo = todo]]
  BY RequestTypes DEF Read, SettlementInv
<1> HIDE DEF todo, stage
<1>3. [request[r] EXCEPT !.stage = stage, !.todo = todo] \in RequestType
  BY <1>1, RequestTypes DEF RequestType, Todos, SettlementInv
<1>4. request' \in [Requests -> RequestType]
  BY <1>2, <1>3, RequestTypes DEF SettlementInv
<1> QED
  BY <1>4, ReadingStep DEF Read, SettlementInv, TypeOK

LEMMA BackfillOK ==
  ASSUME SettlementInv, NEW r \in Requests, Backfill(r)
  PROVE  SettlementInv'
<1>1. request[r].todo \in Todos /\ payment \in PaymentRows
  BY RequestTypes DEF RequestType, Todos, PaymentRows, SettlementInv, TypeOK
<1>2. payment' \in PaymentRows /\ SameStatus(payment, payment')
  BY <1>1, WriteKeeps DEF Backfill
<1>3. [request[r] EXCEPT !.stage = AfterBackfill(r), !.todo = KeepAll] \in RequestType
  BY RequestTypes DEF RequestType, SettlementInv, AfterBackfill, Stages, KeepAll
<1>4. request' \in [Requests -> RequestType]
  BY <1>3, RequestTypes DEF Backfill, SettlementInv
<1> QED
  BY <1>2, <1>4, WritingStep DEF Backfill

LEMMA ResetOK ==
  ASSUME SettlementInv, NEW r \in Requests, Reset(r)
  PROVE  SettlementInv'
<1>1. payment' \in PaymentRows /\ SameStatus(payment, payment')
  BY PutKeeps DEF Reset, resetUnsuccessfulSettlementStatuses, Settlements, Holds,
                  SettlementInv, TypeOK, PaymentRows
<1>2. [request[r] EXCEPT !.stage = IF request[r].active THEN "hold" ELSE "park",
                         !.active = FALSE] \in RequestType
  BY RequestTypes, ZenonT(60) DEF RequestType, SettlementInv, Stages
<1>3. request' \in [Requests -> RequestType]
  BY <1>2, RequestTypes DEF Reset, SettlementInv
<1> QED
  BY <1>1, <1>3, WritingStep DEF Reset

LEMMA HoldOK ==
  ASSUME SettlementInv, NEW r \in Requests, Hold(r)
  PROVE  SettlementInv'
<1> DEFINE next == CASE profile.tier = "FULL" -> "release"
                     [] profile.tier = "BASIC" -> "aggregate"
                     [] profile.tier = "NONE" -> "park"
<1>1. payment' \in PaymentRows /\ SameStatus(payment, payment')
  BY PutKeeps DEF Hold, HoldForRisk, Settlements, Holds, SettlementInv, TypeOK, PaymentRows
<1>2. next \in Stages
  BY DEF SettlementInv, TypeOK, ProfileType, Tiers, Stages
<1>3. Goto(r, next)
  BY DEF Hold
<1> HIDE DEF next
<1>4. request' \in [Requests -> RequestType]
  BY <1>2, <1>3, GotoType DEF SettlementInv
<1> QED
  BY <1>1, <1>4, WritingStep DEF Hold

LEMMA ReleaseHoldsOK ==
  ASSUME SettlementInv, NEW r \in Requests, ReleaseHolds(r) \/ ParkAll(r)
  PROVE  SettlementInv'
<1>1. payment' \in PaymentRows /\ SameStatus(payment, payment')
  BY PutKeeps DEF ReleaseHolds, ParkAll, Release, Park, Settlements, Holds,
                  SettlementInv, TypeOK, PaymentRows
<1>2. request' \in [Requests -> RequestType]
  BY FinishType DEF ReleaseHolds, ParkAll, SettlementInv
<1> QED
  BY <1>1, <1>2, WritingStep DEF ReleaseHolds, ParkAll

LEMMA AggregateOK ==
  ASSUME SettlementInv, NEW r \in Requests, Aggregate(r)
  PROVE  SettlementInv'
<1>1. Committed(payment) \in Sums
  BY DEF Committed, Sums, Paid, In
<1>2. [request[r] EXCEPT !.stage = "list", !.committed = Committed(payment)] \in RequestType
  BY <1>1, RequestTypes DEF RequestType, SettlementInv, Stages
<1>3. request' \in [Requests -> RequestType]
  BY <1>2, RequestTypes DEF Aggregate, SettlementInv
<1> QED
  BY <1>3, ReadingStep DEF Aggregate, SettlementInv, TypeOK

LEMMA ListClearOK ==
  ASSUME SettlementInv, NEW r \in Requests, ListClear(r)
  PROVE  SettlementInv'
<1> DEFINE todo == Capped(payment, request[r].committed)
<1>1. todo \in Todos
  BY CappedTodo
<1>2. \/ Finish(r)
      \/ request' = [request EXCEPT ![r] =
           [request[r] EXCEPT !.stage = "apply", !.committed = 0, !.todo = todo]]
  BY RequestTypes DEF ListClear, SettlementInv
<1> HIDE DEF todo
<1>3. [request[r] EXCEPT !.stage = "apply", !.committed = 0, !.todo = todo] \in RequestType
  BY <1>1, RequestTypes DEF RequestType, Todos, SettlementInv, Stages, Sums
<1>4. request' \in [Requests -> RequestType]
  BY <1>2, <1>3, FinishType, RequestTypes DEF SettlementInv
<1> QED
  BY <1>4, ReadingStep DEF ListClear, SettlementInv, TypeOK

LEMMA ApplyCapOK ==
  ASSUME SettlementInv, NEW r \in Requests, ApplyCap(r)
  PROVE  SettlementInv'
<1>1. request[r].todo \in Todos /\ payment \in PaymentRows
  BY RequestTypes DEF RequestType, Todos, PaymentRows, SettlementInv, TypeOK
<1>2. payment' \in PaymentRows /\ SameStatus(payment, payment')
  BY <1>1, WriteKeeps DEF ApplyCap
<1>3. request' \in [Requests -> RequestType]
  BY FinishType DEF ApplyCap, SettlementInv
<1> QED
  BY <1>2, <1>3, WritingStep DEF ApplyCap

-----------------------------------------------------------------------------
(* A claim takes eligible payments, and those are paid. *)
LEMMA ClaimOK ==
  ASSUME SettlementInv, NEW r \in Requests, NEW b \in Batches,
         NEW S \in SUBSET Payments, Claim(r, b, S)
  PROVE  SettlementInv'
<1>1. payment' \in PaymentRows /\ SameStatus(payment, payment')
  BY PutKeeps DEF Claim, Settlements, SettlementInv, TypeOK, PaymentRows
<1>2. TypeOK'
  BY <1>1, IdleType, RequestTypes
     DEF Claim, SettlementInv, TypeOK, PaymentRows, Outcomes
<1>3. AllocatedIsPaid'
  BY <1>1 DEF Claim, SettlementInv, AllocatedIsPaid, SameStatus, Eligible, Paid
<1> QED
  BY <1>2, <1>3 DEF SettlementInv

LEMMA RefuseOK ==
  ASSUME SettlementInv, NEW r \in Requests, Refuse(r)
  PROVE  SettlementInv'
BY IdleType, RequestTypes, ReadingStep DEF Refuse, SettlementInv, TypeOK

LEMMA RecordOutcomeOK ==
  ASSUME SettlementInv, NEW b \in Batches, NEW status \in Outcomes, RecordOutcome(b, status)
  PROVE  SettlementInv'
<1>1. AfterOutcome(status) \in Settlements
  BY DEF AfterOutcome, Outcomes, Settlements
<1>2. payment' \in PaymentRows /\ SameStatus(payment, payment')
  BY <1>1, PutKeeps DEF RecordOutcome, SettlementInv, TypeOK, PaymentRows
<1>3. batch' \in [Batches -> Outcomes \cup {"none"}]
  BY DEF RecordOutcome, SettlementInv, TypeOK
<1> QED
  BY <1>2, <1>3, SettlementStep DEF RecordOutcome, SettlementInv, TypeOK

-----------------------------------------------------------------------------
(* Payments. *)
LEMMA DeliverOK ==
  ASSUME SettlementInv, NEW r \in Requests, NEW p \in Payments, Deliver(r, p)
  PROVE  SettlementInv'
<1>1. Resolved(profile, payment[p].risk) \in Settlements
  BY DEF Resolved, Settlements, Holds
<1>2. [KeepAll EXCEPT ![p] = Resolved(profile, payment[p].risk)] \in Todos
  BY <1>1 DEF KeepAll, Todos
<1>3. [Idle EXCEPT !.stage = "collect",
                   !.todo = [KeepAll EXCEPT ![p] = Resolved(profile, payment[p].risk)]]
        \in RequestType
  BY <1>2, IdleType DEF RequestType, Todos, Stages
<1>4. request' \in [Requests -> RequestType]
  BY <1>3, RequestTypes DEF Deliver, SettlementInv
<1> QED
  BY <1>4, ReadingStep DEF Deliver, SettlementInv, TypeOK

(* A delivery makes a payment paid, unless it was in no settlement. *)
LEMMA CollectOK ==
  ASSUME SettlementInv, NEW r \in Requests, Collect(r)
  PROVE  SettlementInv'
<1>1. PICK p \in Payments :
        /\ request[r].todo[p] # Keep
        /\ Donated(p, request[r].todo[p]) \/ CheckedOut(p, request[r].todo[p])
  BY DEF Collect
<1>2. request[r].todo[p] \in Settlements
  BY <1>1, RequestTypes DEF RequestType, SettlementInv
<1>3. payment' \in PaymentRows
  BY <1>1, <1>2 DEF Donated, CheckedOut, SettlementInv, TypeOK, PaymentRows, PaymentType,
                    Settlements, Holds
<1>4. \A q \in Payments :
        payment[q].status = "SUCCESS" => payment'[q].status = "SUCCESS"
  BY <1>1 DEF Donated, CheckedOut, SettlementInv, TypeOK, PaymentRows, PaymentType, Settled
<1>5. request' \in [Requests -> RequestType]
  BY IdleType, RequestTypes DEF Collect, SettlementInv
<1> QED
  BY <1>3, <1>4, <1>5 DEF Collect, SettlementInv, TypeOK, AllocatedIsPaid, PaymentRows

LEMMA MarkTransactionFailedOK ==
  ASSUME SettlementInv, NEW p \in Payments, MarkTransactionFailed(p)
  PROVE  SettlementInv'
<1>1. payment' \in PaymentRows
  BY ZenonT(60) DEF MarkTransactionFailed, SettlementInv, TypeOK, PaymentRows, PaymentType, Settlements
<1>2. \A q \in Payments :
        payment[q].status = "SUCCESS" => payment'[q].status = "SUCCESS"
  BY DEF MarkTransactionFailed, Failable, SettlementInv, TypeOK, PaymentRows, PaymentType
<1> QED
  BY <1>1, <1>2 DEF MarkTransactionFailed, SettlementInv, TypeOK, AllocatedIsPaid, PaymentRows

LEMMA ReviewTransactionRiskOK ==
  ASSUME SettlementInv, NEW p \in Payments, NEW risk \in {"CLEAR", "HOLD"},
         ReviewTransactionRisk(p, risk)
  PROVE  SettlementInv'
<1> DEFINE settlement == IF payment[p].status = "SUCCESS" THEN Resolved(profile, risk)
                         ELSE "NOT_READY"
           reviewed == [payment EXCEPT ![p].risk = risk, ![p].settlement = settlement]
<1>1. settlement \in Settlements
  BY DEF Resolved, Settlements, Holds
<1>2. payment' = Reconciled(reviewed, profile)
  BY DEF ReviewTransactionRisk
<1> HIDE DEF settlement
<1>3. reviewed \in PaymentRows /\ SameStatus(payment, reviewed)
  BY <1>1, ZenonT(60) DEF SettlementInv, TypeOK, PaymentRows, PaymentType, SameStatus
<1> HIDE DEF reviewed
<1>4. payment' \in PaymentRows /\ SameStatus(reviewed, payment')
  BY <1>2, <1>3, ReconciledKeeps DEF SettlementInv, TypeOK
<1>5. SameStatus(payment, payment')
  BY <1>3, <1>4 DEF SameStatus
<1> QED
  BY <1>4, <1>5, SettlementStep DEF ReviewTransactionRisk, SettlementInv, TypeOK

-----------------------------------------------------------------------------
LEMMA StepOK == SettlementInv /\ [Next]_vars => SettlementInv'
<1> SUFFICES ASSUME SettlementInv, [Next]_vars PROVE SettlementInv'
  OBVIOUS
<1>1. CASE UNCHANGED vars
  BY <1>1 DEF vars, SettlementInv, TypeOK, AllocatedIsPaid
<1>2. CASE Next
  <2>1. ASSUME NEW r \in Requests,
               \/ Refresh(r) \/ CreateSettlement(r) \/ Check(r)
               \/ \E prof \in Profiles : UpdateProfile(r, prof)
               \/ Read(r) \/ Backfill(r) \/ Reset(r) \/ Hold(r) \/ ReleaseHolds(r) \/ ParkAll(r)
               \/ Aggregate(r) \/ ListClear(r) \/ ApplyCap(r)
        PROVE  SettlementInv'
    BY <2>1, SettlementAssumption, BeginOK, ReadOK, BackfillOK, ResetOK, HoldOK,
       ReleaseHoldsOK, AggregateOK, ListClearOK, ApplyCapOK
  <2>2. ASSUME NEW r \in Requests,
               \/ \E b \in Batches, S \in SUBSET Payments : Claim(r, b, S)
               \/ Refuse(r)
               \/ \E p \in Payments : Deliver(r, p)
               \/ Collect(r)
        PROVE  SettlementInv'
    BY <2>2, ClaimOK, RefuseOK, DeliverOK, CollectOK
  <2>3. ASSUME \/ \E b \in Batches, status \in Outcomes : RecordOutcome(b, status)
               \/ \E p \in Payments :
                    \/ MarkTransactionFailed(p)
                    \/ \E risk \in {"CLEAR", "HOLD"} : ReviewTransactionRisk(p, risk)
        PROVE  SettlementInv'
    BY <2>3, RecordOutcomeOK, MarkTransactionFailedOK, ReviewTransactionRiskOK
  <2> QED
    BY <1>2, <2>1, <2>2, <2>3 DEF Next
<1> QED
  BY <1>1, <1>2

LEMMA InvariantHolds == Spec => []SettlementInv
BY InitOK, StepOK, PTL DEF Spec

(* Every variable keeps its type: no request, however its statements fall     *)
(* between those of others, writes a row that is not a payment.               *)
THEOREM SettlementTypes == Spec => []TypeOK
<1>1. SettlementInv => TypeOK
  BY DEF SettlementInv
<1> QED
  BY <1>1, InvariantHolds, PTL

(* Whatever is allocated to a settlement was paid for and stays paid, for any *)
(* number of payments, requests and settlements.                              *)
THEOREM AllocatedWasPaid == Spec => []AllocatedIsPaid
<1>1. SettlementInv => AllocatedIsPaid
  BY DEF SettlementInv
<1> QED
  BY <1>1, InvariantHolds, PTL

-----------------------------------------------------------------------------
(***************************************************************************)
(* What reconciliation comes to.  The running totals first: each satisfies *)
(* its own equation, and what is spent is what was committed and what fits. *)
(***************************************************************************)
AfterSpending(list, n, before) ==
  IF n \in list /\ before + payable[n] <= Cap THEN before + payable[n] ELSE before

LEMMA SpentEquation ==
  ASSUME NEW list, NEW c \in Nat
  PROVE  /\ Spent(list, c) \in [0..Count -> Nat]
         /\ Spent(list, c)[0] = c
         /\ \A n \in 1..Count : Spent(list, c)[n] = AfterSpending(list, n, Spent(list, c)[n - 1])
<1> USE SettlementAssumption DEF Payments
<1> DEFINE step == [n \in 1..Count |-> [before \in Nat |-> AfterSpending(list, n, before)]]
           Row(h, n) == IF n = 0 THEN c
                        ELSE IF n \in list /\ h[n - 1] + payable[n] <= Cap
                             THEN h[n - 1] + payable[n]
                        ELSE h[n - 1]
           spent == Spent(list, c)
<1>1. step \in [1..Count -> [Nat -> Nat]]
  BY DEF AfterSpending
<1>2. PICK f : Iterates(f, Count, c, step)
  BY <1>1, Iterate
<1>3. f \in [0..Count -> Nat] /\ f[0] = c /\ \A n \in 1..Count : f[n] = step[n][f[n - 1]]
  BY <1>2 DEF Iterates
<1>4. ASSUME NEW n \in 1..Count PROVE f[n] = Row(f, n)
  <2>0. n - 1 \in 0..Count
    OBVIOUS
  <2>1. f[n] = step[n][f[n - 1]] /\ f[n - 1] \in Nat
    BY <1>3, <2>0
  <2>2. n # 0
    OBVIOUS
  <2> QED
    BY <2>1, <2>2 DEF AfterSpending
<1>5. f = [n \in 0..Count |-> Row(f, n)]
  <2>1. \A n \in 0..Count : f[n] = Row(f, n)
    BY <1>3, <1>4
  <2> QED
    BY <1>3, <2>1
<1>6. spent = CHOOSE h : h = [n \in 0..Count |-> Row(h, n)]
  BY DEF Spent
<1>7. spent = [n \in 0..Count |-> Row(spent, n)]
  BY <1>5, <1>6
<1> DEFINE bad == {n \in 0..Count : spent[n] \notin Nat}
<1>8. bad = {}
  <2>1. 0 \notin bad
    BY <1>7
  <2>2. \A n \in 1..Count : n - 1 \notin bad => n \notin bad
    BY <1>7, SMTT(30)
  <2>3. bad \in SUBSET (0..Count)
    OBVIOUS
  <2> HIDE DEF bad
  <2> QED
    BY <2>1, <2>2, <2>3, NoFailure
<1> HIDE DEF spent
<1>9. spent \in [0..Count -> Nat]
  <2>1. \A n \in 0..Count : spent[n] \in Nat
    BY <1>8
  <2> QED
    BY <1>7, <2>1
<1>10. spent[0] = c /\ \A n \in 1..Count : spent[n] = AfterSpending(list, n, spent[n - 1])
  BY <1>7 DEF AfterSpending
<1> QED
  BY <1>9, <1>10 DEF spent

(* The sum behind Owed. *)
OwedUpTo(S) ==
  LET owed[n \in 0..Count] ==
        IF n = 0 THEN 0 ELSE IF n \in S THEN owed[n - 1] + payable[n] ELSE owed[n - 1]
  IN owed

LEMMA OwedEquation ==
  ASSUME NEW S
  PROVE  /\ OwedUpTo(S) \in [0..Count -> Nat]
         /\ OwedUpTo(S)[0] = 0
         /\ \A n \in 1..Count :
              OwedUpTo(S)[n] = OwedUpTo(S)[n - 1] + (IF n \in S THEN payable[n] ELSE 0)
         /\ Owed(S) = OwedUpTo(S)[Count]
<1> USE SettlementAssumption DEF Payments
<1> DEFINE Plus(n, before) == IF n \in S THEN before + payable[n] ELSE before
           step == [n \in 1..Count |-> [before \in Nat |-> Plus(n, before)]]
           Row(h, n) == IF n = 0 THEN 0
                        ELSE IF n \in S THEN h[n - 1] + payable[n] ELSE h[n - 1]
           owed == OwedUpTo(S)
<1>1. step \in [1..Count -> [Nat -> Nat]]
  OBVIOUS
<1>2. PICK f : Iterates(f, Count, 0, step)
  BY <1>1, Iterate
<1>3. f \in [0..Count -> Nat] /\ f[0] = 0 /\ \A n \in 1..Count : f[n] = step[n][f[n - 1]]
  BY <1>2 DEF Iterates
<1>4. ASSUME NEW n \in 1..Count PROVE f[n] = Row(f, n)
  <2>0. n - 1 \in 0..Count
    OBVIOUS
  <2>1. f[n] = step[n][f[n - 1]] /\ f[n - 1] \in Nat
    BY <1>3, <2>0
  <2>2. n # 0
    OBVIOUS
  <2> QED
    BY <2>1, <2>2
<1>5. f = [n \in 0..Count |-> Row(f, n)]
  <2>1. \A n \in 0..Count : f[n] = Row(f, n)
    BY <1>3, <1>4
  <2> QED
    BY <1>3, <2>1
<1>6. owed = CHOOSE h : h = [n \in 0..Count |-> Row(h, n)]
  BY DEF OwedUpTo
<1>7. owed = [n \in 0..Count |-> Row(owed, n)]
  BY <1>5, <1>6
<1> DEFINE bad == {n \in 0..Count : owed[n] \notin Nat}
<1>8. bad = {}
  <2>1. 0 \notin bad
    BY <1>7
  <2>2. \A n \in 1..Count : n - 1 \notin bad => n \notin bad
    BY <1>7, SMTT(30)
  <2>3. bad \in SUBSET (0..Count)
    OBVIOUS
  <2> HIDE DEF bad
  <2> QED
    BY <2>1, <2>2, <2>3, NoFailure
<1>9. \A n \in 0..Count : owed[n] \in Nat
  BY <1>8
<1>10. Owed(S) = owed[Count]
  BY DEF Owed, OwedUpTo
<1> HIDE DEF owed
<1>11. \A n \in 1..Count : owed[n] = owed[n - 1] + (IF n \in S THEN payable[n] ELSE 0)
  BY <1>7, <1>9
<1> QED
  BY <1>7, <1>9, <1>10, <1>11 DEF owed

(* What is spent in the end is what was committed and the sum of what fits,    *)
(* within the cap unless nothing fits; and what does not fit exceeds it.      *)
LEMMA CapIsFilled ==
  ASSUME NEW list \in SUBSET Payments, NEW c \in Nat
  PROVE  /\ Fits(list, c) = {} \/ c + Owed(Fits(list, c)) <= Cap
         /\ \A p \in list \ Fits(list, c) : c + Owed(Fits(list, c)) + payable[p] > Cap
<1> USE SettlementAssumption DEF Payments
<1> DEFINE F == Fits(list, c)
           spent == Spent(list, c)
           owed == OwedUpTo(F)
<1>1. /\ spent \in [0..Count -> Nat] /\ spent[0] = c
      /\ \A n \in 1..Count : spent[n] = AfterSpending(list, n, spent[n - 1])
  BY SpentEquation
<1>2. F = {p \in list : spent[p - 1] + payable[p] <= Cap}
  BY DEF Fits
<1>3. /\ owed \in [0..Count -> Nat] /\ owed[0] = 0
      /\ \A n \in 1..Count : owed[n] = owed[n - 1] + (IF n \in F THEN payable[n] ELSE 0)
      /\ Owed(F) = owed[Count]
  BY OwedEquation
<1> HIDE DEF F, spent, owed
<1>4. ASSUME NEW n \in 1..Count
      PROVE  /\ n - 1 \in 0..Count /\ spent[n - 1] \in Nat /\ owed[n - 1] \in Nat
             /\ spent[n] \in Nat /\ owed[n] \in Nat /\ payable[n] \in Nat
             /\ n \in F => spent[n] = spent[n - 1] + payable[n] /\ spent[n] <= Cap
             /\ n \notin F => spent[n] = spent[n - 1]
  <2>1. n - 1 \in 0..Count /\ n \in 0..Count /\ spent[n] = AfterSpending(list, n, spent[n - 1])
    BY <1>1
  <2>2. /\ spent[n - 1] \in Nat /\ owed[n - 1] \in Nat
        /\ spent[n] \in Nat /\ owed[n] \in Nat /\ payable[n] \in Nat
    BY <2>1, <1>1, <1>3
  <2> QED
    BY <2>1, <2>2, <1>2 DEF AfterSpending
<1>5. \A n \in 0..Count : spent[n] = c + owed[n]
  <2> DEFINE bad == {n \in 0..Count : spent[n] # c + owed[n]}
  <2>1. 0 \notin bad
    BY <1>1, <1>3
  <2>2. ASSUME NEW n \in 1..Count, n - 1 \notin bad PROVE n \notin bad
    <3>1. n - 1 \in 0..Count /\ spent[n - 1] = c + owed[n - 1]
      BY <2>2, <1>4
    <3>2. owed[n - 1] \in Nat /\ payable[n] \in Nat
      BY <1>4
    <3>3. CASE n \in F
      <4>1. owed[n] = owed[n - 1] + payable[n] /\ spent[n] = spent[n - 1] + payable[n]
        BY <3>3, <1>3, <1>4
      <4>2. spent[n] = c + owed[n]
        BY <3>1, <3>2, <4>1
      <4> QED
        BY <4>2
    <3>4. CASE n \notin F
      <4>1. owed[n] = owed[n - 1] /\ spent[n] = spent[n - 1]
        BY <3>2, <3>4, <1>3, <1>4
      <4>2. spent[n] = c + owed[n]
        BY <3>1, <4>1
      <4> QED
        BY <4>2
    <3> QED
      BY <3>3, <3>4
  <2>3. bad \in SUBSET (0..Count)
    OBVIOUS
  <2>4. bad = {}
    <3> HIDE DEF bad
    <3> QED
      BY <2>1, <2>2, <2>3, NoFailure
  <2> QED
    BY <2>4
<1>6. \A n \in 0..Count : (\E p \in F : p <= n) => spent[n] <= Cap
  <2> DEFINE bad == {n \in 0..Count : (\E p \in F : p <= n) /\ ~ (spent[n] <= Cap)}
  <2>1. 0 \notin bad
    BY <1>2
  <2>2. ASSUME NEW n \in 1..Count, n - 1 \notin bad PROVE n \notin bad
    <3>1. CASE n \in F
      BY <3>1, <1>4
    <3>2. CASE n \notin F
      <4>1. \A p \in F : p <= n => p <= n - 1
        BY <3>2, <1>2
      <4> QED
        BY <4>1, <3>2, <2>2, <1>4
    <3> QED
      BY <3>1, <3>2
  <2>3. bad \in SUBSET (0..Count)
    OBVIOUS
  <2>4. bad = {}
    <3> HIDE DEF bad
    <3> QED
      BY <2>1, <2>2, <2>3, NoFailure
  <2> QED
    BY <2>4
<1>7. ASSUME NEW p \in 1..Count PROVE spent[p - 1] <= spent[Count]
  <2> DEFINE bad == {n \in 0..Count : p - 1 <= n /\ ~ (spent[p - 1] <= spent[n])}
  <2>0. p - 1 \in 0..Count /\ spent[p - 1] \in Nat
    BY <1>4
  <2>1. 0 \notin bad
    BY <2>0
  <2>2. ASSUME NEW n \in 1..Count, n - 1 \notin bad PROVE n \notin bad
    <3>1. CASE p - 1 = n
      BY <3>1, <2>0
    <3>2. CASE p - 1 # n
      <4>1. spent[n - 1] <= spent[n]
        BY <1>4, SMTT(30)
      <4>2. p - 1 <= n => spent[p - 1] <= spent[n - 1]
        BY <2>2, <3>2, <1>4
      <4> QED
        BY <4>1, <4>2, <2>0, <1>4
    <3> QED
      BY <3>1, <3>2
  <2>3. bad \in SUBSET (0..Count)
    OBVIOUS
  <2>4. bad = {}
    <3> HIDE DEF bad
    <3> QED
      BY <2>1, <2>2, <2>3, NoFailure
  <2> QED
    BY <2>4
<1>8. spent[Count] = c + Owed(F) /\ spent[Count] \in Nat
  BY <1>1, <1>3, <1>5
<1>9. F = {} \/ c + Owed(F) <= Cap
  <2>1. \A p \in F : p <= Count
    BY <1>2
  <2> QED
    BY <1>6, <1>8, <2>1
<1>10. ASSUME NEW p \in list \ F PROVE c + Owed(F) + payable[p] > Cap
  <2>1. spent[p - 1] \in Nat /\ payable[p] \in Nat /\ spent[p - 1] <= spent[Count]
    BY <1>4, <1>7
  <2>2. ~ (spent[p - 1] + payable[p] <= Cap)
    BY <1>2
  <2> QED
    BY <2>1, <2>2, <1>8
<1> QED
  BY <1>9, <1>10 DEF F

-----------------------------------------------------------------------------
(***************************************************************************)
(* The rows that an undisturbed reconciliation leaves, in closed form.     *)
(***************************************************************************)
Entitled(pay) == Paid(pay) \cap Clear(pay) \cap In(pay, Holds \cup {"READY"})
Due(pay, prof, p) ==
  IF pay[p].settlement \in Locked THEN pay[p].settlement
  ELSE IF pay[p].status # "SUCCESS" THEN "NOT_READY"
  ELSE IF ~ prof.active \/ prof.tier = "NONE" THEN "HELD_KYC"
  ELSE IF pay[p].risk # "CLEAR" THEN "HELD_RISK"
  ELSE IF prof.tier = "FULL" \/ p \in Fits(Entitled(pay), Committed(pay)) THEN "READY"
  ELSE "HELD_KYC"

(* after has the rows of before but for the settlement column. *)
SameFacts(before, after) ==
  \A p \in Payments : after[p].status = before[p].status /\ after[p].risk = before[p].risk

LEMMA PutAt ==
  ASSUME NEW pay \in PaymentRows, NEW S, NEW settlement \in Settlements
  PROVE  /\ Put(pay, S, settlement) \in PaymentRows
         /\ SameFacts(pay, Put(pay, S, settlement))
         /\ \A p \in Payments : Put(pay, S, settlement)[p].settlement
                                  = IF p \in S THEN settlement ELSE pay[p].settlement
<1>1. \A p \in Payments : pay[p] \in PaymentType
  BY DEF PaymentRows
<1>2. \A p \in Payments :
        /\ [pay[p] EXCEPT !.settlement = settlement].settlement = settlement
        /\ [pay[p] EXCEPT !.settlement = settlement].status = pay[p].status
        /\ [pay[p] EXCEPT !.settlement = settlement].risk = pay[p].risk
  BY <1>1 DEF PaymentType
<1> QED
  BY <1>1, <1>2, PutKeeps DEF Put, SameFacts

LEMMA WriteAt ==
  ASSUME NEW pay \in PaymentRows, NEW todo \in Todos
  PROVE  /\ Write(pay, todo) \in PaymentRows
         /\ SameFacts(pay, Write(pay, todo))
         /\ \A p \in Payments : Write(pay, todo)[p].settlement
                                  = IF todo[p] = Keep THEN pay[p].settlement ELSE todo[p]
<1>1. \A p \in Payments : pay[p] \in PaymentType
  BY DEF PaymentRows
<1>2. \A p \in Payments :
        /\ [pay[p] EXCEPT !.settlement = todo[p]].settlement = todo[p]
        /\ [pay[p] EXCEPT !.settlement = todo[p]].status = pay[p].status
        /\ [pay[p] EXCEPT !.settlement = todo[p]].risk = pay[p].risk
  BY <1>1 DEF PaymentType
<1> QED
  BY <1>1, <1>2, WriteKeeps DEF Write, SameFacts

(* Writing the changes towards next sets what next is defined for. *)
LEMMA ChangesAt ==
  ASSUME NEW pay \in PaymentRows, NEW next, Changes(pay, next) \in Todos,
         \A p \in Payments : p \in DOMAIN next => next[p] \in Settlements
  PROVE  /\ Write(pay, Changes(pay, next)) \in PaymentRows
         /\ SameFacts(pay, Write(pay, Changes(pay, next)))
         /\ \A p \in Payments : Write(pay, Changes(pay, next))[p].settlement
                                  = IF p \in DOMAIN next THEN next[p] ELSE pay[p].settlement
<1> DEFINE todo == Changes(pay, next)
<1>1. \A p \in Payments :
        todo[p] = IF p \in DOMAIN next /\ next[p] # pay[p].settlement THEN next[p] ELSE Keep
  BY DEF Changes
<1>2. \A s \in Settlements : s # Keep
  BY DEF Settlements, Holds, Keep
<1> HIDE DEF todo
<1>3. todo \in Todos
  BY DEF todo
<1>4. \A p \in Payments : Write(pay, todo)[p].settlement
                            = IF todo[p] = Keep THEN pay[p].settlement ELSE todo[p]
  BY <1>3, WriteAt
<1>5. \A p \in Payments : Write(pay, todo)[p].settlement
                            = IF p \in DOMAIN next THEN next[p] ELSE pay[p].settlement
  BY <1>1, <1>2, <1>4
<1> QED
  BY <1>3, <1>5, WriteAt DEF todo

LEMMA RowsEqual ==
  ASSUME NEW a \in PaymentRows, NEW b \in PaymentRows, SameFacts(a, b),
         \A p \in Payments : b[p].settlement = a[p].settlement
  PROVE  a = b
<1>1. \A p \in Payments : a[p] \in PaymentType /\ b[p] \in PaymentType
  BY DEF PaymentRows
<1>2. \A p \in Payments : a[p] = b[p]
  BY <1>1 DEF PaymentType, SameFacts
<1> QED
  BY <1>2 DEF PaymentRows

(* The statements before the tier is looked at. *)
LEMMA OursAt ==
  ASSUME NEW pay \in PaymentRows, NEW prof \in ProfileType,
         NEW ours, ours = resetUnsuccessfulSettlementStatuses(
                            Write(pay, backfillCreatorTransactions(pay, prof)))
  PROVE  /\ ours \in PaymentRows
         /\ SameFacts(pay, ours)
         /\ \A p \in Payments :
              /\ pay[p].settlement \in Locked => ours[p].settlement = pay[p].settlement
              /\ pay[p].settlement \notin Locked =>
                   IF pay[p].status = "SUCCESS"
                   THEN ours[p].settlement \in {"READY", "HELD_KYC", "HELD_RISK"}
                   ELSE ours[p].settlement = "NOT_READY"
<1> DEFINE next == [p \in Paid(pay) \cap In(pay, {"NOT_READY", "HELD_KYC"}) |->
                      Inferred(pay[p], prof)]
           filled == Write(pay, Changes(pay, next))
           ineligible == In(filled, {"READY", "HELD_KYC", "HELD_RISK"}) \ Paid(filled)
<1>1. \A p \in Payments : pay[p] \in PaymentType
  BY DEF PaymentRows
<1>2. \A p \in Payments : p \in DOMAIN next => next[p] \in {"READY", "HELD_KYC", "HELD_RISK"}
  BY DEF Inferred
<1>3. backfillCreatorTransactions(pay, prof) = Changes(pay, next)
  BY DEF backfillCreatorTransactions
<1>4. DOMAIN next = Paid(pay) \cap In(pay, {"NOT_READY", "HELD_KYC"})
  OBVIOUS
<1> HIDE DEF next
<1>5. /\ filled \in PaymentRows /\ SameFacts(pay, filled)
      /\ \A p \in Payments : filled[p].settlement
                               = IF p \in DOMAIN next THEN next[p] ELSE pay[p].settlement
  BY <1>2, <1>3, BackfillTodo, ChangesAt DEF Settlements, Holds
<1>6. ours = Put(filled, ineligible, "NOT_READY")
  BY <1>3 DEF resetUnsuccessfulSettlementStatuses
<1> HIDE DEF filled
<1>7. "NOT_READY" \in Settlements
  BY DEF Settlements, Holds
<1>8. /\ ours \in PaymentRows /\ SameFacts(filled, ours)
      /\ \A p \in Payments : ours[p].settlement
                               = IF p \in ineligible THEN "NOT_READY" ELSE filled[p].settlement
  BY <1>5, <1>6, <1>7, PutAt
<1>9. SameFacts(pay, ours)
  BY <1>5, <1>8 DEF SameFacts
<1>10. \A p \in Payments :
         /\ p \in DOMAIN next <=> /\ pay[p].status = "SUCCESS"
                                  /\ pay[p].settlement \in {"NOT_READY", "HELD_KYC"}
         /\ p \in ineligible <=> /\ filled[p].settlement \in {"READY", "HELD_KYC", "HELD_RISK"}
                                 /\ pay[p].status # "SUCCESS"
  BY <1>4, <1>5 DEF Paid, In, SameFacts
<1> HIDE DEF ineligible
<1>11. ASSUME NEW p \in Payments
       PROVE  /\ pay[p].settlement \in Locked => ours[p].settlement = pay[p].settlement
              /\ pay[p].settlement \notin Locked =>
                   IF pay[p].status = "SUCCESS"
                   THEN ours[p].settlement \in {"READY", "HELD_KYC", "HELD_RISK"}
                   ELSE ours[p].settlement = "NOT_READY"
  <2>1. pay[p].settlement \in Settlements
    BY <1>1 DEF PaymentType
  <2>2. CASE pay[p].status = "SUCCESS"
    BY <2>1, <2>2, <1>2, <1>5, <1>8, <1>10 DEF Locked, Settlements, Holds
  <2>3. CASE pay[p].status # "SUCCESS"
    BY <2>1, <2>3, <1>5, <1>8, <1>10 DEF Locked, Settlements, Holds
  <2> QED
    BY <2>2, <2>3
<1> QED
  BY <1>8, <1>9, <1>11

LEMMA HeldAt ==
  ASSUME NEW pay \in PaymentRows, NEW ours \in PaymentRows, SameFacts(pay, ours),
         \A p \in Payments :
              /\ pay[p].settlement \in Locked => ours[p].settlement = pay[p].settlement
              /\ pay[p].settlement \notin Locked =>
                   IF pay[p].status = "SUCCESS"
                   THEN ours[p].settlement \in {"READY", "HELD_KYC", "HELD_RISK"}
                   ELSE ours[p].settlement = "NOT_READY"
  PROVE  /\ HoldForRisk(ours) \in PaymentRows
         /\ SameFacts(pay, HoldForRisk(ours))
         /\ \A p \in Payments :
              LET settlement == HoldForRisk(ours)[p].settlement
              IN IF pay[p].settlement \in Locked THEN settlement = pay[p].settlement
                 ELSE IF pay[p].status # "SUCCESS" THEN settlement = "NOT_READY"
                 ELSE IF pay[p].risk # "CLEAR" THEN settlement = "HELD_RISK"
                 ELSE settlement \in {"READY", "HELD_KYC", "HELD_RISK"}
<1> DEFINE risky == (Paid(ours) \cap In(ours, {"HELD_KYC", "READY", "NOT_READY"})) \ Clear(ours)
           held == Put(ours, risky, "HELD_RISK")
<1>1. HoldForRisk(ours) = held
  BY DEF HoldForRisk
<1>2. "HELD_RISK" \in Settlements
  BY DEF Settlements, Holds
<1>3. \A p \in Payments : p \in risky <=>
        /\ pay[p].status = "SUCCESS" /\ pay[p].risk # "CLEAR"
        /\ ours[p].settlement \in {"HELD_KYC", "READY", "NOT_READY"}
  BY DEF Paid, Clear, In, SameFacts
<1> HIDE DEF risky
<1>4. /\ held \in PaymentRows /\ SameFacts(ours, held)
      /\ \A p \in Payments : held[p].settlement
                               = IF p \in risky THEN "HELD_RISK" ELSE ours[p].settlement
  BY <1>2, PutAt
<1> HIDE DEF held
<1>5. SameFacts(pay, held)
  BY <1>4 DEF SameFacts
<1>6. ASSUME NEW p \in Payments
      PROVE  IF pay[p].settlement \in Locked THEN held[p].settlement = pay[p].settlement
             ELSE IF pay[p].status # "SUCCESS" THEN held[p].settlement = "NOT_READY"
             ELSE IF pay[p].risk # "CLEAR" THEN held[p].settlement = "HELD_RISK"
             ELSE held[p].settlement \in {"READY", "HELD_KYC", "HELD_RISK"}
  BY <1>3, <1>4 DEF Locked
<1> QED
  BY <1>1, <1>4, <1>5, <1>6

(* Only the facts, and the rows that are locked in a settlement, decide who is *)
(* entitled and what is committed.                                            *)
LEMMA SameClaims ==
  ASSUME NEW pay \in PaymentRows, NEW after \in PaymentRows, SameFacts(pay, after),
         \A p \in Payments :
           IF pay[p].settlement \in Locked THEN after[p].settlement = pay[p].settlement
           ELSE after[p].settlement \notin Locked
  PROVE  Entitled(after) = Entitled(pay) /\ Committed(after) = Committed(pay)
<1>1. \A p \in Payments : pay[p].settlement \in Settlements /\ after[p].settlement \in Settlements
  BY DEF PaymentRows, PaymentType
<1>2. \A p \in Payments :
        /\ pay[p].settlement \in Holds \cup {"READY"} <=> pay[p].settlement \notin Locked
        /\ after[p].settlement \in Holds \cup {"READY"} <=> after[p].settlement \notin Locked
  BY <1>1 DEF Settlements, Holds, Locked
<1>3. Paid(after) = Paid(pay) /\ Clear(after) = Clear(pay)
  BY DEF Paid, Clear, SameFacts
<1>4. In(after, Holds \cup {"READY"}) = In(pay, Holds \cup {"READY"})
  BY <1>2 DEF In
<1>5. In(after, {"PROCESSING", "SETTLED"}) = In(pay, {"PROCESSING", "SETTLED"})
  BY DEF In, Locked
<1> QED
  BY <1>3, <1>4, <1>5 DEF Entitled, Committed

(* Reconciliation gives every payment its due.                                *)
LEMMA ReconciledAt ==
  ASSUME NEW pay \in PaymentRows, NEW prof \in ProfileType
  PROVE  /\ Reconciled(pay, prof) \in PaymentRows
         /\ SameFacts(pay, Reconciled(pay, prof))
         /\ \A p \in Payments : Reconciled(pay, prof)[p].settlement = Due(pay, prof, p)
<1> DEFINE ours == resetUnsuccessfulSettlementStatuses(
                     Write(pay, backfillCreatorTransactions(pay, prof)))
           held == HoldForRisk(ours)
           Cap1 == Write(held, Capped(held, Committed(held)))
           Given(q) == /\ q \in PaymentRows /\ SameFacts(pay, q)
                       /\ \A p \in Payments : q[p].settlement = Due(pay, prof, p)
<1>1. /\ ours \in PaymentRows /\ SameFacts(pay, ours)
      /\ \A p \in Payments :
              /\ pay[p].settlement \in Locked => ours[p].settlement = pay[p].settlement
              /\ pay[p].settlement \notin Locked =>
                   IF pay[p].status = "SUCCESS"
                   THEN ours[p].settlement \in {"READY", "HELD_KYC", "HELD_RISK"}
                   ELSE ours[p].settlement = "NOT_READY"
  BY OursAt
<1>2. Reconciled(pay, prof) =
        IF prof.active /\ prof.tier = "FULL" THEN Release(held)
        ELSE IF prof.active /\ prof.tier = "BASIC" THEN Cap1
        ELSE IF prof.active THEN Park(held) ELSE Park(ours)
  BY DEF Reconciled, ProfileType, Tiers
<1>3. prof.active \in BOOLEAN /\ prof.tier \in Tiers
  BY DEF ProfileType
<1> HIDE DEF ours
<1>4. /\ held \in PaymentRows /\ SameFacts(pay, held)
      /\ \A p \in Payments :
           IF pay[p].settlement \in Locked THEN held[p].settlement = pay[p].settlement
           ELSE IF pay[p].status # "SUCCESS" THEN held[p].settlement = "NOT_READY"
           ELSE IF pay[p].risk # "CLEAR" THEN held[p].settlement = "HELD_RISK"
           ELSE held[p].settlement \in {"READY", "HELD_KYC", "HELD_RISK"}
  BY <1>1, HeldAt
<1> HIDE DEF held
<1>5. {"READY", "HELD_KYC"} \subseteq Settlements
  BY DEF Settlements, Holds
<1>6. CASE prof.active /\ prof.tier = "FULL"
  <2> DEFINE S == Paid(held) \cap In(held, Holds) \cap Clear(held)
  <2>1. Release(held) = Put(held, S, "READY")
    BY DEF Release
  <2>2. \A p \in Payments : p \in S <=>
          pay[p].status = "SUCCESS" /\ pay[p].risk = "CLEAR" /\ held[p].settlement \in Holds
    BY <1>4 DEF Paid, Clear, In, SameFacts
  <2> HIDE DEF S
  <2>3. /\ Release(held) \in PaymentRows /\ SameFacts(held, Release(held))
        /\ \A p \in Payments : Release(held)[p].settlement
                                 = IF p \in S THEN "READY" ELSE held[p].settlement
    BY <1>4, <1>5, <2>1, PutAt
  <2>4. \A p \in Payments : Release(held)[p].settlement = Due(pay, prof, p)
    BY <1>4, <1>6, <2>2, <2>3 DEF Due, Locked, Holds
  <2> QED
    BY <1>2, <1>4, <1>6, <2>3, <2>4 DEF SameFacts
<1>7. CASE prof.active /\ prof.tier = "BASIC"
  <2> DEFINE F == Fits(Entitled(pay), Committed(pay))
             next == [p \in Entitled(pay) |-> IF p \in F THEN "READY" ELSE "HELD_KYC"]
  <2>1. Entitled(held) = Entitled(pay) /\ Committed(held) = Committed(pay)
    BY <1>4, SameClaims DEF Locked
  <2>2. Capped(held, Committed(held)) = Changes(held, next)
    BY <2>1 DEF Capped, Entitled
  <2>3. DOMAIN next = Entitled(pay)
    OBVIOUS
  <2>4. \A p \in Payments : p \in DOMAIN next =>
          next[p] = IF p \in F THEN "READY" ELSE "HELD_KYC"
    OBVIOUS
  <2> HIDE DEF next, F
  <2>5. /\ Cap1 \in PaymentRows /\ SameFacts(held, Cap1)
        /\ \A p \in Payments : Cap1[p].settlement
                                 = IF p \in DOMAIN next THEN next[p] ELSE held[p].settlement
    BY <1>4, <1>5, <2>2, <2>4, CappedTodo, ChangesAt
  <2>6. \A p \in Payments : p \in Entitled(pay) <=>
          pay[p].status = "SUCCESS" /\ pay[p].risk = "CLEAR" /\ pay[p].settlement \notin Locked
    <3>1. \A p \in Payments : pay[p].settlement \in Settlements
      BY DEF PaymentRows, PaymentType
    <3> QED
      BY <3>1 DEF Entitled, Paid, Clear, In, Settlements, Holds, Locked
  <2> HIDE DEF Cap1
  <2>7. ASSUME NEW p \in Payments PROVE Cap1[p].settlement = Due(pay, prof, p)
    <3>1. CASE p \in Entitled(pay)
      BY <1>7, <2>3, <2>4, <2>5, <2>6, <3>1 DEF Due, F
    <3>2. CASE p \notin Entitled(pay)
      BY <1>4, <1>7, <2>3, <2>5, <2>6, <3>2 DEF Due
    <3> QED
      BY <3>1, <3>2
  <2>8. SameFacts(pay, Cap1)
    BY <1>4, <2>5 DEF SameFacts
  <2> QED
    BY <1>2, <1>7, <2>5, <2>7, <2>8
<1>8. CASE ~ prof.active \/ prof.tier = "NONE"
  <2>1. PICK base \in {ours, held} : Reconciled(pay, prof) = Park(base)
    BY <1>2, <1>3, <1>8 DEF Tiers
  <2>2. /\ base \in PaymentRows /\ SameFacts(pay, base)
        /\ \A p \in Payments :
             IF pay[p].settlement \in Locked THEN base[p].settlement = pay[p].settlement
             ELSE IF pay[p].status # "SUCCESS" THEN base[p].settlement = "NOT_READY"
             ELSE base[p].settlement \in {"READY", "HELD_KYC", "HELD_RISK"}
    BY <1>1, <1>4
  <2> DEFINE S == Paid(base) \cap In(base, {"READY", "HELD_RISK"})
  <2>3. Park(base) = Put(base, S, "HELD_KYC")
    BY DEF Park
  <2>4. \A p \in Payments : p \in S <=>
          pay[p].status = "SUCCESS" /\ base[p].settlement \in {"READY", "HELD_RISK"}
    BY <2>2 DEF Paid, In, SameFacts
  <2> HIDE DEF S
  <2>5. /\ Park(base) \in PaymentRows /\ SameFacts(base, Park(base))
        /\ \A p \in Payments : Park(base)[p].settlement
                                 = IF p \in S THEN "HELD_KYC" ELSE base[p].settlement
    BY <1>5, <2>2, <2>3, PutAt
  <2>6. \A p \in Payments : Park(base)[p].settlement = Due(pay, prof, p)
    BY <1>8, <2>2, <2>4, <2>5 DEF Due, Locked
  <2> QED
    BY <2>1, <2>2, <2>5, <2>6 DEF SameFacts
<1> QED
  BY <1>3, <1>6, <1>7, <1>8 DEF Tiers

LEMMA ReconciliationSettles ==
  ASSUME TypeOK
  PROVE  ReconcileSettles
<1> DEFINE q == Reconciled(payment, profile)
           again == Reconciled(q, profile)
           open == Paid(q) \ In(q, Locked)
           ready == open \cap In(q, {"READY"})
           entitled == IF profile.active /\ profile.tier # "NONE" THEN open \cap Clear(q) ELSE {}
           list == Entitled(payment)
           F == Fits(list, Committed(payment))
<1>1. payment \in PaymentRows /\ profile \in ProfileType
  BY DEF TypeOK, PaymentRows
<1>2. /\ q \in PaymentRows /\ SameFacts(payment, q)
      /\ \A p \in Payments : q[p].settlement = Due(payment, profile, p)
  BY <1>1, ReconciledAt
<1>3. profile.active \in BOOLEAN /\ profile.tier \in Tiers
  BY <1>1 DEF ProfileType
<1> HIDE DEF q
<1>4. \A p \in Payments :
        IF payment[p].settlement \in Locked THEN q[p].settlement = payment[p].settlement
        ELSE q[p].settlement \notin Locked
  BY <1>2 DEF Due, Locked
<1>5. Entitled(q) = list /\ Committed(q) = Committed(payment)
  BY <1>1, <1>2, <1>4, SameClaims
<1>6. again = q
  <2>1. /\ again \in PaymentRows /\ SameFacts(q, again)
        /\ \A p \in Payments : again[p].settlement = Due(q, profile, p)
    BY <1>1, <1>2, ReconciledAt
  <2>2. \A p \in Payments : Due(q, profile, p) = Due(payment, profile, p)
    BY <1>2, <1>4, <1>5 DEF Due, SameFacts
  <2> HIDE DEF again
  <2> QED
    BY <1>2, <2>1, <2>2, RowsEqual
<1>7. \A p \in Payments : payment[p].settlement \in Settlements
  BY <1>1 DEF PaymentRows, PaymentType
<1>8. \A p \in Payments :
        /\ p \in open <=> payment[p].status = "SUCCESS" /\ payment[p].settlement \notin Locked
        /\ p \in open \cap Clear(q) <=> p \in list
        /\ p \in ready <=> p \in open /\ Due(payment, profile, p) = "READY"
  <2>1. \A p \in Payments :
          p \in open <=> payment[p].status = "SUCCESS" /\ payment[p].settlement \notin Locked
    BY <1>2, <1>4 DEF Paid, In, SameFacts
  <2>2. \A p \in Payments : p \in list <=>
          /\ payment[p].status = "SUCCESS" /\ payment[p].risk = "CLEAR"
          /\ payment[p].settlement \notin Locked
    BY <1>7 DEF Entitled, Paid, Clear, In, Settlements, Holds, Locked
  <2>3. \A p \in Payments : p \in Clear(q) <=> payment[p].risk = "CLEAR"
    BY <1>2 DEF Clear, SameFacts
  <2>4. \A p \in Payments : p \in In(q, {"READY"}) <=> Due(payment, profile, p) = "READY"
    BY <1>2 DEF In
  <2> HIDE DEF open, list
  <2> QED
    BY <2>1, <2>2, <2>3, <2>4
<1>9. open \subseteq Payments /\ list \subseteq Payments /\ ready \subseteq Payments
  BY DEF Paid, Entitled
<1>10. \A p \in Payments : p \in list <=> p \in open /\ payment[p].risk = "CLEAR"
  BY <1>2, <1>8 DEF Clear, SameFacts
<1> HIDE DEF open, list, ready, F
<1>11. ready \subseteq entitled
  BY <1>3, <1>8, <1>9, <1>10 DEF Due
<1>12. profile.tier = "FULL" => ready = entitled
  BY <1>3, <1>8, <1>9, <1>10 DEF Due
<1>13. ASSUME profile.tier = "BASIC"
       PROVE  /\ ready = {} \/ Committed(q) + Owed(ready) <= Cap
              /\ \A p \in entitled \ ready : Committed(q) + Owed(ready) + payable[p] > Cap
  <2>1. CASE ~ profile.active
    BY <1>8, <1>9, <1>13, <2>1 DEF Due
  <2>2. CASE profile.active
    <3>1. entitled = list
      BY <1>8, <1>9, <1>13, <2>2
    <3>2. ready = F
      <4>1. F \subseteq list
        BY DEF F, Fits
      <4>2. \A p \in list : p \in ready <=> p \in F
        BY <1>8, <1>9, <1>10, <1>13, <2>2 DEF Due, list, F
      <4> QED
        BY <1>9, <1>11, <3>1, <4>1, <4>2
    <3>3. Committed(payment) \in Nat
      BY OwedEquation, SettlementAssumption DEF Committed
    <3>4. /\ F = {} \/ Committed(payment) + Owed(F) <= Cap
          /\ \A p \in list \ F : Committed(payment) + Owed(F) + payable[p] > Cap
      BY <1>9, <3>3, CapIsFilled DEF F
    <3> QED
      BY <1>5, <3>1, <3>2, <3>4
  <2> QED
    BY <2>1, <2>2
<1>14. In(q, {"READY"}) \subseteq Paid(q)
  BY <1>2, <1>7 DEF Due, In, Paid, Locked, SameFacts
<1> QED
  BY <1>2, <1>6, <1>11, <1>12, <1>13, <1>14 DEF ReconcileSettles, q, again, open, ready, PaymentRows

(* Whatever holds, reviews, deliveries and half-done reconciliations have left *)
(* of the payments of a creator, however many there are and whatever the cap, *)
(* a reconciliation that is not disturbed makes ready all that may be settled *)
(* and nothing else, fills the Basic cap without exceeding it, oldest first,  *)
(* and has nothing left to do.                                                *)
THEOREM ReconciliationIsComplete == Spec => []ReconcileSettles
<1>1. TypeOK => ReconcileSettles
  BY ReconciliationSettles
<1> QED
  BY <1>1, SettlementTypes, PTL
=============================================================================
