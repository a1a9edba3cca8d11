---------------------------- MODULE WorkerProofs ----------------------------
(***************************************************************************)
(* Theorems of the checkout worker's two loops.                            *)
(*                                                                         *)
(* Refund: types, one POST, one refund at the provider, and REFUNDED only  *)
(* after the provider has completed one, for any number of workers, claims *)
(* and crashes.  The argument is about who may POST.  A worker POSTs only  *)
(* if it claimed a row it had read with no attempts; the claim counts the  *)
(* attempt, so nobody else ever will (OneAttempt).  That the administrator *)
(* does not refund by hand meanwhile needs the lease: the worker that      *)
(* claimed is alone with the row until it rests, unless workers outlive    *)
(* their leases (AloneWithRow, which is why RefundedOnce is proved for     *)
(* ~ Stalls).                                                              *)
(*                                                                         *)
(* Confirmation: a completed job was delivered, one worker has a job in    *)
(* hand, nobody is mailed twice and no part is told twice in one claim,    *)
(* for any number of jobs, workers and claims.                              *)
(***************************************************************************)
EXTENDS Worker, CountingLemmas, Sequences, FiniteSetTheorems, TLAPS

(* w holds the one claim after which a refund may be POSTed. *)
MayYetPost(w) ==
  worker[w].stage \in {"claimed", "listed", "posting"} /\ worker[w].attempts = 0

(* The row says how far the refund has come; who has read it has not read    *)
(* more attempts than there are.                                             *)
OneAttempt ==
  /\ refund.attempts = 0 =>
       /\ posts = 0 /\ refund.status = "REQUESTED" /\ Known = {} /\ operator = "idle"
       /\ \A w \in Workers : worker[w].stage \in {"idle", "read"}
  /\ \A w \in Workers :
       /\ worker[w].attempts <= refund.attempts
       /\ worker[w].stage \in {"listed", "posting"} => MayYetPost(w)
       /\ MayYetPost(w) => posts = 0
  /\ \A w, v \in Workers : MayYetPost(w) /\ MayYetPost(v) => w = v
  /\ posts <= 1

(* Whoever is about to write REFUNDED has seen the provider complete it.     *)
SeenProcessed ==
  /\ operator = "confirming" => "processed" \in Known
  /\ \A w \in Workers : worker[w].found = "processed" => "processed" \in Known
  /\ RefundedMeansProcessed

(* A worker past its claim has the lease and the row for itself. *)
AloneWithRow ==
  /\ \A w \in Holders : refund.lease = "held"
  /\ \A w, v \in Holders : w = v
  /\ \A w \in Workers :
       worker[w].stage = "read" /\ worker[w].attempts = refund.attempts => Unleased

(* At most one refund of the payment is under way or done. *)
OneRefund ==
  \A i, j \in RefundIds :
    {provider[i], provider[j]} \subseteq {"pending", "processed"} => i = j

NothingKnown ==
  \A w \in Workers : MayYetPost(w) => Known = {} /\ refund.status \in {"REQUESTED", "PROCESSING"}

RefundInv == TypeOK /\ OneAttempt /\ SeenProcessed
LeaseInv == RefundInv /\ AloneWithRow /\ NothingKnown /\ OneRefund

USE RefundAssumption

-----------------------------------------------------------------------------
(* Types. *)
LEMMA TypeInit == Init => TypeOK
BY DEF Init, TypeOK, Idle, RefundStatuses, Leases, Stages, Found

WorkerType ==
  [stage : Stages, attempts : 0..MaxAttempts, status : RefundStatuses,
   found : Found \cup {"none"}]

LEMMA WorkerMoves ==
  ASSUME NEW w \in Workers, worker \in [Workers -> WorkerType]
  PROVE  /\ Rest(w) => worker' \in [Workers -> WorkerType]
         /\ \A s \in Stages : Goto(w, s) => worker' \in [Workers -> WorkerType]
BY DEF Rest, Goto, Idle, WorkerType, Stages, RefundStatuses

LEMMA TypeStep ==
  ASSUME TypeOK, [Next]_vars
  PROVE  TypeOK'
<1> USE DEF TypeOK, rows
<1>1. ASSUME NEW w \in Workers, Read(w)
      PROVE  TypeOK'
  BY <1>1 DEF Read, Stages
<1>2. ASSUME NEW w \in Workers, Claim(w)
      PROVE  TypeOK'
  <2>1. worker' \in [Workers -> WorkerType]
    BY <1>2, WorkerMoves DEF Claim, Stages, WorkerType
  <2>2. refund' \in [status : RefundStatuses, attempts : 0..MaxAttempts, lease : Leases,
                     due : BOOLEAN]
    <3>1. CASE refund.attempts < MaxAttempts
      <4>1. refund.attempts + 1 \in 0..MaxAttempts
        BY <3>1
      <4>2. [refund EXCEPT !.attempts = @ + 1, !.lease = "held", !.due = FALSE]
              \in [status : RefundStatuses, attempts : 0..MaxAttempts, lease : Leases,
                   due : BOOLEAN]
        BY <4>1 DEF Leases
      <4> QED BY <1>2, <4>2 DEF Claim
    <3>2. CASE ~ (refund.attempts < MaxAttempts)
      BY <1>2, <3>2 DEF Claim
    <3> QED BY <3>1, <3>2
  <2> QED BY <1>2, <2>1, <2>2 DEF Claim, WorkerType
<1>3. ASSUME NEW w \in Workers, List(w)
      PROVE  TypeOK'
  BY <1>3 DEF List, Learn, Goto, Known, Stages
<1>4. ASSUME NEW w \in Workers, MarkProcessing(w)
      PROVE  TypeOK'
  BY <1>4 DEF MarkProcessing, Goto, Stages, RefundStatuses
<1>5. ASSUME NEW w \in Workers, Post(w)
      PROVE  TypeOK'
  BY <1>5 DEF Post, Accept, Learn, Goto, Stages, Found
<1>6. ASSUME NEW w \in Workers, Record(w)
      PROVE  TypeOK'
  <2>1. worker' \in [Workers -> WorkerType]
    BY <1>6, WorkerMoves DEF Record, Stages, WorkerType
  <2>2. /\ refund' \in [status : RefundStatuses, attempts : 0..MaxAttempts, lease : Leases,
                        due : BOOLEAN]
        /\ transaction' \in {"REFUND_REQUIRED", "REFUNDED"}
    BY <1>6 DEF Record, Leases, RefundStatuses
  <2> QED BY <1>6, <2>1, <2>2 DEF Record, WorkerType
<1>7. ASSUME NEW w \in Workers, Manual(w)
      PROVE  TypeOK'
  <2>1. worker' \in [Workers -> WorkerType]
    BY <1>7, WorkerMoves DEF Manual, WorkerType
  <2>2. GiveToOperator \in [status : RefundStatuses, attempts : 0..MaxAttempts, lease : Leases,
                           due : BOOLEAN]
    BY DEF GiveToOperator, Leases, RefundStatuses
  <2> QED BY <1>7, <2>1, <2>2 DEF Manual, WorkerType
<1>8. ASSUME NEW w \in Workers, Crash(w)
      PROVE  TypeOK'
  BY <1>8 DEF Crash, Rest, Idle, Stages, RefundStatuses
<1>9. CASE BecomeDue \/ ExpireLease
  BY <1>9 DEF BecomeDue, ExpireLease, Leases
<1>10. CASE Answer \/ RefundByHand
  BY <1>10 DEF Answer, Settle, RefundByHand, Accept, Found
<1>11. CASE ConfirmRead \/ ConfirmWrite
  BY <1>11 DEF ConfirmRead, ConfirmWrite, RefundStatuses
<1>12. CASE UNCHANGED vars
  BY <1>12 DEF vars
<1> QED
  BY <1>1, <1>2, <1>3, <1>4, <1>5, <1>6, <1>7, <1>8, <1>9, <1>10, <1>11, <1>12
  DEF Next, Work

-----------------------------------------------------------------------------
(* What the provider knows only grows, and what it has done stays done. *)
LEMMA KnownSteps ==
  ASSUME TypeOK, [Next]_vars
  PROVE  "processed" \in Known => "processed" \in Known'
<1> USE DEF TypeOK, Known, Found
<1>1. CASE UNCHANGED provider
  BY <1>1
<1>2. ASSUME NEW i \in RefundIds, NEW s \in {"pending", "processed", "failed"},
             provider[i] \in {"none", "pending"}, provider' = [provider EXCEPT ![i] = s]
      PROVE  "processed" \in Known => "processed" \in Known'
  <2> SUFFICES ASSUME NEW j \in RefundIds, provider[j] = "processed"
               PROVE  "processed" \in Known'
    OBVIOUS
  <2>1. j # i /\ provider'[j] = "processed"
    BY <1>2
  <2> QED BY <2>1
<1>3. \/ UNCHANGED provider
      \/ \E i \in RefundIds, s \in {"pending", "processed", "failed"} :
           provider[i] \in {"none", "pending"} /\ provider' = [provider EXCEPT ![i] = s]
  <2>1. CASE \E w \in Workers : Post(w)
    BY <2>1 DEF Post, Accept
  <2>2. CASE Answer
    BY <2>2 DEF Answer, Settle
  <2>3. CASE RefundByHand
    BY <2>3 DEF RefundByHand, Accept
  <2> QED
    BY <2>1, <2>2, <2>3 DEF Next, Work, Read, Claim, List, MarkProcessing, Record, Manual,
       Crash, BecomeDue, ExpireLease, ConfirmRead, ConfirmWrite, vars
<1> HIDE DEF TypeOK, Known, Found
<1> QED BY <1>1, <1>2, <1>3

-----------------------------------------------------------------------------
LEMMA AttemptInit == Init => OneAttempt
BY DEF Init, OneAttempt, Idle, Known, MayYetPost

LEMMA AttemptStep ==
  ASSUME TypeOK, OneAttempt, [Next]_vars
  PROVE  OneAttempt'
<1> USE DEF rows
(* Steps that do not touch what OneAttempt speaks of, but for a worker that  *)
(* rests or turns to a stage from which it will not POST.                    *)
<1>1. ASSUME UNCHANGED <<posts, operator>>,
             refund'.attempts = refund.attempts,
             refund.attempts = 0 => refund'.status = refund.status /\ Known' = Known,
             NEW w \in Workers,
             \/ UNCHANGED worker
             \/ Rest(w)
             \/ /\ worker[w].stage \notin {"idle", "read"}
                /\ \/ Goto(w, "failing")
                   \/ \E f \in Found : Learn(w, "recording", f)
      PROVE  OneAttempt'
  <2>1. \A v \in Workers :
          \/ worker'[v] = worker[v]
          \/ worker'[v].stage = "idle" /\ worker'[v].attempts = 0
          \/ /\ worker[v].stage \notin {"idle", "read"}
             /\ worker'[v].stage \in {"recording", "failing"}
             /\ worker'[v].attempts = worker[v].attempts
    BY <1>1 DEF TypeOK, Rest, Goto, Learn, Idle
  <2>2. refund.attempts \in Nat
    BY DEF TypeOK
  <2> QED BY <1>1, <2>1, <2>2 DEF OneAttempt, MayYetPost
<1>2. ASSUME NEW w \in Workers, Read(w)
      PROVE  OneAttempt'
  <2>1. \A v \in Workers :
          \/ v # w /\ worker'[v] = worker[v]
          \/ v = w /\ worker'[v].stage = "read" /\ worker'[v].attempts = refund.attempts
    BY <1>2 DEF Read, TypeOK
  <2>2. UNCHANGED <<refund, provider, operator, posts>> /\ refund.attempts \in Nat
    BY <1>2 DEF Read, TypeOK
  <2> QED BY <2>1, <2>2 DEF OneAttempt, MayYetPost, Known
<1>3. ASSUME NEW w \in Workers, Claim(w)
      PROVE  OneAttempt'
  <2>1. CASE UNCHANGED refund /\ Rest(w)
    BY <1>1, <1>3, <2>1 DEF Claim, Known
  <2>2. CASE ~ (UNCHANGED refund /\ Rest(w))
    <3>1. /\ worker[w].attempts = refund.attempts /\ worker[w].stage = "read"
          /\ refund'.attempts = refund.attempts + 1
          /\ \/ Goto(w, "claimed") \/ Goto(w, "failing")
          /\ UNCHANGED <<operator, posts>>
      BY <1>3, <2>2 DEF Claim, At, StillAsRead, TypeOK
    <3>2. \A v \in Workers :
            \/ v # w /\ worker'[v] = worker[v]
            \/ v = w /\ worker'[v].stage \in {"claimed", "failing"}
                     /\ worker'[v].attempts = refund.attempts
      BY <3>1 DEF Goto, TypeOK
    <3>3. refund.attempts \in Nat /\ \A v \in Workers : worker[v].attempts \in Nat
      BY DEF TypeOK
    <3>4. MayYetPost(w)' => /\ posts = 0
                            /\ \A v \in Workers : v # w => ~ MayYetPost(v)
      BY <3>1, <3>2 DEF OneAttempt, MayYetPost
    <3> QED BY <3>1, <3>2, <3>3, <3>4 DEF OneAttempt, MayYetPost
  <2> QED BY <2>1, <2>2
<1>4. ASSUME NEW w \in Workers, List(w)
      PROVE  OneAttempt'
  <2>1. CASE Goto(w, "listed") /\ MayPost(w)
    <3>1. \A v \in Workers :
            \/ worker'[v] = worker[v]
            \/ /\ worker[v].stage = "claimed" /\ worker'[v].stage = "listed"
               /\ worker[v].attempts = 0 /\ worker'[v].attempts = 0
      BY <1>4, <2>1 DEF List, At, Goto, MayPost, TypeOK
    <3>2. UNCHANGED <<refund, provider, operator, posts>>
      BY <1>4 DEF List
    <3> QED BY <3>1, <3>2 DEF OneAttempt, MayYetPost, Known
  <2>2. CASE \/ Goto(w, "failing")
             \/ \E f \in Known : Learn(w, "recording", f)
    <3>1. Known \subseteq Found
      BY DEF TypeOK, Known
    <3> QED BY <1>1, <1>4, <2>2, <3>1 DEF List, At, Known
  <2> QED BY <1>4, <2>1, <2>2 DEF List
<1>5. ASSUME NEW w \in Workers, MarkProcessing(w)
      PROVE  OneAttempt'
  <2>1. \A v \in Workers :
          \/ worker'[v] = worker[v]
          \/ /\ worker[v].stage = "listed" /\ worker'[v].stage = "posting"
             /\ worker'[v].attempts = worker[v].attempts
    BY <1>5 DEF MarkProcessing, At, Goto, TypeOK
  <2>2. /\ UNCHANGED <<provider, operator, posts>>
        /\ refund'.attempts = refund.attempts
        /\ refund.attempts # 0
    BY <1>5 DEF MarkProcessing, At, OneAttempt, TypeOK
  <2> QED BY <2>1, <2>2 DEF OneAttempt, MayYetPost, Known
<1>6. ASSUME NEW w \in Workers, Post(w)
      PROVE  OneAttempt'
  <2>1. posts = 0 /\ MayYetPost(w) /\ refund.attempts # 0
    BY <1>6 DEF Post, At, OneAttempt
  <2>2. posts' = 1 /\ UNCHANGED <<refund, operator>>
    BY <1>6, <2>1 DEF Post
  <2>3. \A v \in Workers :
          \/ v # w /\ worker'[v] = worker[v]
          \/ v = w /\ worker'[v].stage \in {"recording", "failing"}
                   /\ worker'[v].attempts = worker[v].attempts
    BY <1>6 DEF Post, Learn, Goto, TypeOK
  <2> QED BY <2>1, <2>2, <2>3 DEF OneAttempt, MayYetPost
<1>7. ASSUME NEW w \in Workers, Record(w)
      PROVE  OneAttempt'
  <2>1. refund.attempts # 0
    BY <1>7 DEF Record, At, OneAttempt
  <2>2. refund'.attempts = refund.attempts
    BY <1>7 DEF Record, TypeOK
  <2> QED BY <1>1, <1>7, <2>1, <2>2 DEF Record, At
<1>8. ASSUME NEW w \in Workers, Manual(w)
      PROVE  OneAttempt'
  <2>1. refund.attempts # 0
    BY <1>8 DEF Manual, At, OneAttempt
  <2>2. refund'.attempts = refund.attempts
    BY <1>8 DEF Manual, GiveToOperator, TypeOK
  <2> QED BY <1>1, <1>8, <2>1, <2>2 DEF Manual
<1>9. ASSUME NEW w \in Workers, Crash(w)
      PROVE  OneAttempt'
  BY <1>1, <1>9 DEF Crash, Known
<1>10. CASE BecomeDue \/ ExpireLease
  <2>1. /\ UNCHANGED <<worker, provider, operator, posts>>
        /\ refund'.attempts = refund.attempts /\ refund'.status = refund.status
    BY <1>10 DEF BecomeDue, ExpireLease, TypeOK
  <2> QED BY <2>1 DEF OneAttempt, MayYetPost, Known
<1>11. CASE Answer \/ RefundByHand
  <2>1. refund.attempts # 0
    BY <1>11 DEF Answer, Settle, RefundByHand, OneAttempt, Known
  <2>2. UNCHANGED <<refund, worker, operator, posts>>
    BY <1>11 DEF Answer, Settle, RefundByHand
  <2> QED BY <2>1, <2>2 DEF OneAttempt, MayYetPost
<1>12. CASE ConfirmRead \/ ConfirmWrite
  <2>1. refund.attempts # 0
    BY <1>12 DEF ConfirmRead, ConfirmWrite, OneAttempt
  <2>2. UNCHANGED <<worker, posts>> /\ refund'.attempts = refund.attempts
    BY <1>12 DEF ConfirmRead, ConfirmWrite, TypeOK
  <2> QED BY <2>1, <2>2 DEF OneAttempt, MayYetPost
<1>13. CASE UNCHANGED vars
  BY <1>13 DEF vars, OneAttempt, MayYetPost, Known
<1> QED
  BY <1>2, <1>3, <1>4, <1>5, <1>6, <1>7, <1>8, <1>9, <1>10, <1>11, <1>12, <1>13
  DEF Next, Work

-----------------------------------------------------------------------------
LEMMA SeenInit == Init => SeenProcessed
BY DEF Init, SeenProcessed, RefundedMeansProcessed, Idle

LEMMA SeenStep ==
  ASSUME TypeOK, SeenProcessed, [Next]_vars
  PROVE  SeenProcessed'
<1> USE DEF rows
<1>0. "processed" \in Known => "processed" \in Known'
  BY KnownSteps
(* It is enough that whatever newly says "processed" has been seen. *)
<1>1. ASSUME operator' = "confirming" => operator = "confirming" \/ "processed" \in Known',
             transaction' = "REFUNDED" => transaction = "REFUNDED" \/ "processed" \in Known',
             \A w \in Workers :
               worker'[w].found = "processed" =>
                 worker[w].found = "processed" \/ "processed" \in Known'
      PROVE  SeenProcessed'
  BY <1>0, <1>1 DEF SeenProcessed, RefundedMeansProcessed
<1>2. ASSUME NEW w \in Workers, NEW s \in Stages, Rest(w) \/ Goto(w, s) \/ UNCHANGED worker
      PROVE  \A v \in Workers : worker'[v].found = "processed" => worker[v].found = "processed"
  BY <1>2 DEF Rest, Goto, Idle, TypeOK
<1>3. ASSUME NEW w \in Workers, Read(w)
      PROVE  SeenProcessed'
  <2>1. \A v \in Workers : worker'[v].found = "processed" => worker[v].found = "processed"
    BY <1>3 DEF Read, TypeOK
  <2> QED BY <1>1, <1>3, <2>1 DEF Read
<1>4. ASSUME NEW w \in Workers, Claim(w)
      PROVE  SeenProcessed'
  BY <1>1, <1>2, <1>4 DEF Claim, Stages
<1>5. ASSUME NEW w \in Workers, List(w)
      PROVE  SeenProcessed'
  <2>1. CASE Goto(w, "listed") \/ Goto(w, "failing")
    BY <1>1, <1>2, <1>5, <2>1 DEF List, Stages
  <2>2. CASE \E f \in Known : Learn(w, "recording", f)
    <3>1. Known' = Known
      BY <1>5 DEF List, Known
    <3>2. \A v \in Workers :
            worker'[v].found = "processed" => worker[v].found = "processed" \/ "processed" \in Known
      BY <2>2 DEF Learn, TypeOK
    <3> QED BY <1>1, <1>5, <3>1, <3>2 DEF List
  <2> QED BY <1>5, <2>1, <2>2 DEF List
<1>6. ASSUME NEW w \in Workers, MarkProcessing(w)
      PROVE  SeenProcessed'
  BY <1>1, <1>2, <1>6 DEF MarkProcessing, Stages
<1>7. ASSUME NEW w \in Workers, Post(w)
      PROVE  SeenProcessed'
  <2>1. CASE Goto(w, "failing")
    BY <1>1, <1>2, <1>7, <2>1 DEF Post, Stages
  <2>2. ASSUME NEW s \in {"pending", "processed"}, Accept(s), Learn(w, "recording", s)
        PROVE  SeenProcessed'
    <3>1. s \in Known'
      BY <2>2 DEF Accept, Known, TypeOK
    <3>2. \A v \in Workers :
            worker'[v].found = "processed" => worker[v].found = "processed" \/ "processed" = s
      BY <2>2 DEF Learn, TypeOK
    <3> QED BY <1>1, <1>7, <3>1, <3>2 DEF Post
  <2> QED BY <1>7, <2>1, <2>2 DEF Post
<1>8. ASSUME NEW w \in Workers, Record(w)
      PROVE  SeenProcessed'
  <2>1. worker[w].found = "processed" => "processed" \in Known'
    BY <1>0 DEF SeenProcessed
  <2> QED BY <1>1, <1>2, <1>8, <2>1 DEF Record, Completed, Stages
<1>9. ASSUME NEW w \in Workers, Manual(w) \/ Crash(w)
      PROVE  SeenProcessed'
  BY <1>1, <1>2, <1>9 DEF Manual, Crash, Stages
<1>10. CASE BecomeDue \/ ExpireLease
  BY <1>1, <1>10 DEF BecomeDue, ExpireLease
<1>11. CASE Answer \/ RefundByHand
  BY <1>1, <1>11 DEF Answer, Settle, RefundByHand
<1>12. CASE ConfirmRead
  BY <1>0, <1>1, <1>12 DEF ConfirmRead
<1>13. CASE ConfirmWrite
  <2>1. "processed" \in Known'
    BY <1>0, <1>13 DEF ConfirmWrite, SeenProcessed
  <2> QED BY <1>1, <1>13, <2>1 DEF ConfirmWrite
<1>14. CASE UNCHANGED vars
  BY <1>1, <1>14 DEF vars
<1> QED
  BY <1>3, <1>4, <1>5, <1>6, <1>7, <1>8, <1>9, <1>10, <1>11, <1>12, <1>13, <1>14
  DEF Next, Work

-----------------------------------------------------------------------------
(* The lease: nobody else works on the row of a worker past its claim. *)
LEMMA LeaseInit == Init => AloneWithRow /\ NothingKnown /\ OneRefund
BY DEF Init, AloneWithRow, NothingKnown, OneRefund, Holders, Idle, Unleased, MayYetPost

LEMMA AloneStep ==
  ASSUME ~ Stalls, TypeOK, OneAttempt, AloneWithRow, [Next]_vars
  PROVE  AloneWithRow'
<1> USE DEF rows
(* A worker that rests or goes on with a row that keeps its lease. *)
<1>1. ASSUME NEW w \in Workers, w \in Holders, refund'.lease = refund.lease,
             refund'.attempts = refund.attempts,
             \A v \in Workers : v # w => worker'[v] = worker[v],
             worker'[w].stage # "read"
      PROVE  AloneWithRow'
  BY <1>1 DEF AloneWithRow, Holders, Unleased
(* A worker that rests and gives the lease back. *)
<1>2. ASSUME NEW w \in Workers, w \in Holders, refund'.lease \in {"none", refund.lease},
             refund'.attempts = refund.attempts, Rest(w)
      PROVE  AloneWithRow'
  <2>1. \A v \in Workers : worker'[v] = IF v = w THEN Idle ELSE worker[v]
    BY <1>2 DEF Rest, TypeOK
  <2>2. Holders' = {}
    BY <1>2, <2>1 DEF AloneWithRow, Holders, Idle
  <2> QED BY <1>2, <2>1, <2>2 DEF AloneWithRow, Unleased, Idle
<1>3. ASSUME NEW w \in Workers, Read(w)
      PROVE  AloneWithRow'
  <2>1. \A v \in Workers :
          \/ worker'[v] = worker[v]
          \/ v = w /\ worker'[v].stage = "read"
    BY <1>3 DEF Read, TypeOK
  <2>2. UNCHANGED refund /\ Unleased
    BY <1>3 DEF Read
  <2> QED BY <1>3, <2>1, <2>2 DEF AloneWithRow, Holders, Unleased
<1>4. ASSUME NEW w \in Workers, Claim(w)
      PROVE  AloneWithRow'
  <2>1. CASE UNCHANGED refund /\ Rest(w)
    BY <1>4, <2>1 DEF Claim, Rest, Idle, AloneWithRow, Holders, Unleased, TypeOK
  <2>2. CASE ~ (UNCHANGED refund /\ Rest(w))
    <3>1. /\ worker[w].attempts = refund.attempts /\ worker[w].stage = "read"
          /\ refund'.attempts = refund.attempts + 1
          /\ refund'.lease = "held"
          /\ Goto(w, "claimed") \/ Goto(w, "failing")
      BY <1>4, <2>2 DEF Claim, At, StillAsRead, TypeOK
    <3>2. Holders = {}
      BY <3>1 DEF AloneWithRow, Unleased, Holders
    <3>3. \A v \in Workers : v # w => worker'[v] = worker[v]
      BY <3>1 DEF Goto, TypeOK
    <3>4. worker'[w].stage # "read"
      BY <3>1 DEF Goto, TypeOK
    <3>5. \A v \in Workers : worker[v].attempts < refund'.attempts
      BY <3>1 DEF OneAttempt, TypeOK
    <3>6. Holders' \subseteq {w}
      BY <3>2, <3>3 DEF Holders
    <3>7. \A v \in Workers : worker'[v].stage = "read" => worker'[v].attempts # refund'.attempts
      <4> SUFFICES ASSUME NEW v \in Workers, worker'[v].stage = "read"
                   PROVE  worker'[v].attempts # refund'.attempts
        OBVIOUS
      <4>1. worker'[v] = worker[v] /\ worker[v].attempts < refund'.attempts
        BY <3>3, <3>4, <3>5
      <4>2. worker[v].attempts \in Nat
        BY DEF TypeOK
      <4> QED BY <4>1, <4>2
    <3> QED BY <3>1, <3>6, <3>7 DEF AloneWithRow
  <2> QED BY <2>1, <2>2
<1>5. ASSUME NEW w \in Workers, List(w) \/ MarkProcessing(w) \/ Post(w)
      PROVE  AloneWithRow'
  <2>1. w \in Holders
    BY <1>5 DEF List, MarkProcessing, Post, At, Holders
  <2>2. refund'.lease = refund.lease /\ refund'.attempts = refund.attempts
    BY <1>5 DEF List, MarkProcessing, Post, TypeOK
  <2>3. /\ \A v \in Workers : v # w => worker'[v] = worker[v]
        /\ worker'[w].stage # "read"
    BY <1>5 DEF List, MarkProcessing, Post, Goto, Learn, TypeOK
  <2> QED BY <1>1, <2>1, <2>2, <2>3
<1>6. ASSUME NEW w \in Workers, Record(w)
      PROVE  AloneWithRow'
  <2>1. w \in Holders
    BY <1>6 DEF Record, At, Holders
  <2>2. CASE Rest(w)
    <3>1. refund'.lease \in {"none", refund.lease} /\ refund'.attempts = refund.attempts
      BY <1>6 DEF Record, TypeOK
    <3> QED BY <1>2, <2>1, <2>2, <3>1
  <2>3. CASE UNCHANGED refund /\ Goto(w, "failing")
    <3>1. /\ \A v \in Workers : v # w => worker'[v] = worker[v]
          /\ worker'[w].stage # "read"
      BY <2>3 DEF Goto, TypeOK
    <3> QED BY <1>1, <2>1, <2>3, <3>1
  <2> QED BY <1>6, <2>2, <2>3 DEF Record
<1>7. ASSUME NEW w \in Workers, Manual(w)
      PROVE  AloneWithRow'
  <2>1. w \in Holders
    BY <1>7 DEF Manual, At, Holders
  <2>2. refund'.lease \in {"none", refund.lease} /\ refund'.attempts = refund.attempts
    BY <1>7 DEF Manual, GiveToOperator, TypeOK
  <2> QED BY <1>2, <1>7, <2>1, <2>2 DEF Manual
<1>8. ASSUME NEW w \in Workers, Crash(w)
      PROVE  AloneWithRow'
  BY <1>8 DEF Crash, Rest, Idle, AloneWithRow, Holders, Unleased, TypeOK
<1>9. CASE BecomeDue
  <2>1. UNCHANGED worker /\ refund'.lease = refund.lease /\ refund'.attempts = refund.attempts
    BY <1>9 DEF BecomeDue, TypeOK
  <2> QED BY <2>1 DEF AloneWithRow, Holders, Unleased
<1>10. CASE ExpireLease
  <2>1. /\ UNCHANGED worker /\ Holders = {}
        /\ refund'.lease = "expired" /\ refund'.attempts = refund.attempts
    BY <1>10 DEF ExpireLease, TypeOK
  <2> QED BY <2>1 DEF AloneWithRow, Holders, Unleased
<1>11. CASE Answer \/ RefundByHand \/ ConfirmRead
  <2>1. UNCHANGED <<worker, refund>>
    BY <1>11 DEF Answer, Settle, RefundByHand, ConfirmRead
  <2> QED BY <2>1 DEF AloneWithRow, Holders, Unleased
<1>12. CASE ConfirmWrite
  <2>1. UNCHANGED worker /\ refund'.lease = refund.lease /\ refund'.attempts = refund.attempts
    BY <1>12 DEF ConfirmWrite, TypeOK
  <2> QED BY <2>1 DEF AloneWithRow, Holders, Unleased
<1>13. CASE UNCHANGED vars
  BY <1>13 DEF vars, AloneWithRow, Holders, Unleased
<1> QED
  BY <1>3, <1>4, <1>5, <1>6, <1>7, <1>8, <1>9, <1>10, <1>11, <1>12, <1>13
  DEF Next, Work

-----------------------------------------------------------------------------
(* One refund: the worker POSTs only while the provider knows of none, and   *)
(* the administrator refunds only what no worker is about to POST.           *)
LEMMA NothingKnownStep ==
  ASSUME ~ Stalls, TypeOK, OneAttempt, SeenProcessed, AloneWithRow, NothingKnown, [Next]_vars
  PROVE  NothingKnown'
<1> USE DEF rows
(* A worker that may yet POST after the step could before, and nothing it    *)
(* relies on has changed.                                                    *)
<1>1. ASSUME \A w \in Workers : MayYetPost(w)' => MayYetPost(w),
             \A w \in Workers : MayYetPost(w) /\ MayYetPost(w)' =>
               Known' = Known /\ refund'.status \in {refund.status, "PROCESSING"}
      PROVE  NothingKnown'
  BY <1>1 DEF NothingKnown
(* Another worker past its claim does not exist. *)
<1>2. ASSUME NEW w \in Workers, w \in Holders, ~ MayYetPost(w)',
             \A v \in Workers : v # w => worker'[v] = worker[v]
      PROVE  NothingKnown'
  <2>1. \A v \in Workers : MayYetPost(v)' => v # w /\ MayYetPost(v)
    BY <1>2 DEF MayYetPost
  <2>2. \A v \in Workers : MayYetPost(v) => v \in Holders
    BY DEF MayYetPost, Holders
  <2>3. \A v \in Workers : ~ MayYetPost(v)'
    BY <1>2, <2>1, <2>2 DEF AloneWithRow
  <2> QED BY <2>3 DEF NothingKnown
<1>3. ASSUME NEW w \in Workers, Read(w)
      PROVE  NothingKnown'
  <2>1. \A v \in Workers : worker'[v] = worker[v] \/ worker'[v].stage = "read"
    BY <1>3 DEF Read, TypeOK
  <2>2. UNCHANGED <<refund, provider>>
    BY <1>3 DEF Read
  <2> QED BY <1>1, <2>1, <2>2 DEF MayYetPost, Known
<1>4. ASSUME NEW w \in Workers, Claim(w)
      PROVE  NothingKnown'
  <2>1. CASE UNCHANGED refund /\ Rest(w)
    <3>1. \A v \in Workers : worker'[v] = worker[v] \/ worker'[v].stage = "idle"
      BY <2>1 DEF Rest, Idle, TypeOK
    <3> QED BY <1>1, <1>4, <2>1, <3>1 DEF Claim, MayYetPost, Known
  <2>2. CASE ~ (UNCHANGED refund /\ Rest(w))
    <3>1. /\ worker[w].attempts = refund.attempts /\ worker[w].stage = "read"
          /\ refund'.status = refund.status /\ UNCHANGED provider
          /\ Goto(w, "claimed") \/ Goto(w, "failing")
      BY <1>4, <2>2 DEF Claim, At, StillAsRead, TypeOK
    <3>2. /\ \A v \in Workers : v # w => worker'[v] = worker[v]
          /\ worker'[w].attempts = refund.attempts
      BY <3>1 DEF Goto, TypeOK
    <3>3. MayYetPost(w)' => Known = {} /\ refund.status = "REQUESTED"
      BY <3>2 DEF MayYetPost, OneAttempt
    <3>4. Known' = Known
      BY <3>1 DEF Known
    <3>5. \A v \in Workers : v # w /\ MayYetPost(v)' => MayYetPost(v)
      BY <3>2 DEF MayYetPost
    <3> QED BY <3>1, <3>3, <3>4, <3>5 DEF NothingKnown
  <2> QED BY <2>1, <2>2
<1>5. ASSUME NEW w \in Workers, List(w) \/ MarkProcessing(w)
      PROVE  NothingKnown'
  <2>1. \A v \in Workers :
          \/ worker'[v] = worker[v]
          \/ /\ worker[v].stage \in {"claimed", "listed"}
             /\ worker'[v].attempts = worker[v].attempts
    BY <1>5 DEF List, MarkProcessing, At, Goto, Learn, TypeOK
  <2>2. UNCHANGED provider /\ refund'.status \in {refund.status, "PROCESSING"}
    BY <1>5 DEF List, MarkProcessing, TypeOK
  <2> QED BY <1>1, <2>1, <2>2 DEF MayYetPost, Known
<1>6. ASSUME NEW w \in Workers, Post(w) \/ Record(w) \/ Manual(w)
      PROVE  NothingKnown'
  <2>1. w \in Holders
    BY <1>6 DEF Post, Record, Manual, At, Holders
  <2>2. /\ \A v \in Workers : v # w => worker'[v] = worker[v]
        /\ worker'[w].stage \in {"idle", "recording", "failing"}
    BY <1>6 DEF Post, Record, Manual, Rest, Idle, Goto, Learn, TypeOK
  <2> QED BY <1>2, <2>1, <2>2 DEF MayYetPost
<1>7. ASSUME NEW w \in Workers, Crash(w)
      PROVE  NothingKnown'
  <2>1. \A v \in Workers : worker'[v] = worker[v] \/ worker'[v].stage = "idle"
    BY <1>7 DEF Crash, Rest, Idle, TypeOK
  <2> QED BY <1>1, <1>7, <2>1 DEF Crash, MayYetPost, Known
<1>8. CASE BecomeDue \/ ExpireLease
  <2>1. UNCHANGED <<worker, provider>> /\ refund'.status = refund.status
    BY <1>8 DEF BecomeDue, ExpireLease, TypeOK
  <2> QED BY <1>1, <2>1 DEF MayYetPost, Known
<1>9. CASE Answer \/ RefundByHand
  <2>1. Known # {} \/ refund.status = "MANUAL_REQUIRED"
    BY <1>9 DEF Answer, Settle, RefundByHand, Known
  <2>2. \A w \in Workers : ~ MayYetPost(w)
    BY <2>1 DEF NothingKnown
  <2>3. UNCHANGED worker
    BY <1>9 DEF Answer, Settle, RefundByHand
  <2> QED BY <1>1, <2>2, <2>3 DEF MayYetPost
<1>10. CASE ConfirmRead
  <2>1. UNCHANGED <<worker, provider, refund>>
    BY <1>10 DEF ConfirmRead
  <2> QED BY <1>1, <2>1 DEF MayYetPost, Known
<1>11. CASE ConfirmWrite
  <2>1. \A w \in Workers : ~ MayYetPost(w)
    BY <1>11 DEF ConfirmWrite, SeenProcessed, NothingKnown
  <2>2. UNCHANGED worker
    BY <1>11 DEF ConfirmWrite
  <2> QED BY <1>1, <2>1, <2>2 DEF MayYetPost
<1>12. CASE UNCHANGED vars
  BY <1>1, <1>12 DEF vars, MayYetPost, Known
<1> QED
  BY <1>3, <1>4, <1>5, <1>6, <1>7, <1>8, <1>9, <1>10, <1>11, <1>12
  DEF Next, Work

LEMMA OneRefundStep ==
  ASSUME TypeOK, OneAttempt, NothingKnown, OneRefund, [Next]_vars
  PROVE  OneRefund'
<1> USE DEF rows
<1>1. CASE UNCHANGED provider
  BY <1>1 DEF OneRefund
<1>2. ASSUME Known \subseteq {"failed"}, NEW s \in {"pending", "processed"}, Accept(s)
      PROVE  OneRefund'
  <2>1. PICK i \in RefundIds : provider' = [provider EXCEPT ![i] = s]
    BY <1>2 DEF Accept
  <2>2. \A j \in RefundIds : provider[j] \notin {"pending", "processed"}
    BY <1>2 DEF Known
  <2>3. \A j \in RefundIds : j # i => provider'[j] = provider[j]
    BY <2>1 DEF TypeOK
  <2> QED BY <2>2, <2>3 DEF OneRefund
<1>3. ASSUME NEW w \in Workers, Post(w)
      PROVE  OneRefund'
  <2>1. Known = {}
    BY <1>3 DEF Post, At, OneAttempt, NothingKnown
  <2> QED BY <1>1, <1>2, <1>3, <2>1 DEF Post
<1>4. CASE RefundByHand
  BY <1>2, <1>4 DEF RefundByHand
<1>5. ASSUME NEW i \in RefundIds, NEW outcome \in {"processed", "failed"}, Settle(i, outcome)
      PROVE  OneRefund'
  <2>1. \A j \in RefundIds : provider'[j] \in {"pending", "processed"} =>
          provider[j] \in {"pending", "processed"}
    BY <1>5 DEF Settle, TypeOK
  <2> QED BY <2>1 DEF OneRefund
<1> QED
  BY <1>1, <1>3, <1>4, <1>5 DEF Next, Work, Answer, Read, Claim, List, MarkProcessing, Record,
     Manual, Crash, BecomeDue, ExpireLease, ConfirmRead, ConfirmWrite, vars

LEMMA OneRefundMeans == ASSUME OneRefund PROVE RefundedOnce
<1> DEFINE Live == {i \in RefundIds : provider[i] \in {"pending", "processed"}}
<1>1. CASE Live = {}
  <2>1. Cardinality(Live) = 0
    BY <1>1, FS_EmptySet
  <2> QED BY <2>1 DEF RefundedOnce
<1>2. CASE Live # {}
  <2>1. PICK i \in Live : TRUE
    BY <1>2
  <2>2. \A j \in Live : j = i
    BY DEF OneRefund
  <2>3. Live = {i}
    BY <2>2
  <2>4. Cardinality(Live) = 1
    BY <2>3, FS_Singleton
  <2> QED BY <2>4 DEF RefundedOnce
<1> QED BY <1>1, <1>2

-----------------------------------------------------------------------------
LEMMA RefundInvariant == Spec => []RefundInv
<1>1. Init => RefundInv
  BY TypeInit, AttemptInit, SeenInit DEF RefundInv
<1>2. RefundInv /\ [Next]_vars => RefundInv'
  BY TypeStep, AttemptStep, SeenStep DEF RefundInv
<1> QED BY <1>1, <1>2, PTL DEF Spec

(* Whatever the workers, the provider and the administrator do, the refund   *)
(* row, the workers and the provider keep their types.                       *)
THEOREM RefundTypes == Spec => []TypeOK
<1>1. RefundInv => TypeOK
  BY DEF RefundInv
<1> QED BY <1>1, RefundInvariant, PTL

(* processRefunds sends at most one POST for a payment, even if workers      *)
(* outlive their leases and crash between any two awaits.                    *)
THEOREM PostedAtMostOnce == Spec => []PostedOnce
<1>1. RefundInv => PostedOnce
  BY DEF RefundInv, OneAttempt, PostedOnce
<1> QED BY <1>1, RefundInvariant, PTL

(* The order says REFUNDED only after the provider has completed a refund,   *)
(* whether the worker or confirmManualRefund wrote it.                       *)
THEOREM RefundedIsProcessed == Spec => []RefundedMeansProcessed
<1>1. RefundInv => RefundedMeansProcessed
  BY DEF RefundInv, SeenProcessed
<1> QED BY <1>1, RefundInvariant, PTL

(* When no worker outlives its lease, the worker's POST and the              *)
(* administrator's refund by hand never both reach the provider.             *)
THEOREM RefundedExactly == ~ Stalls /\ Spec => []RefundsExact
<1>1. Init => LeaseInv
  BY TypeInit, AttemptInit, SeenInit, LeaseInit DEF LeaseInv, RefundInv
<1>2. ~ Stalls /\ LeaseInv /\ [Next]_vars => LeaseInv'
  BY TypeStep, AttemptStep, SeenStep, AloneStep, NothingKnownStep, OneRefundStep
  DEF LeaseInv, RefundInv
<1>3. LeaseInv => RefundsExact
  BY OneRefundMeans
  DEF LeaseInv, RefundInv, OneAttempt, SeenProcessed, RefundsExact, PostedOnce
<1>4. CASE ~ Stalls
  BY <1>1, <1>2, <1>3, <1>4, PTL DEF Spec
<1> QED BY <1>4

-----------------------------------------------------------------------------
(* The confirmations. *)
JobType ==
  [status : {"NONE", "PENDING", "PROCESSING", "COMPLETED"}, attempts : Nat,
   lease : {"none", "live", "over"}, due : BOOLEAN]
Lists == UNION {[S -> JobType] : S \in SUBSET Jobs}
HandType ==
  [step : {"idle", "next", "deliver", "failed"}, todo : Lists, at : Jobs \cup {None},
   next : Nat \ {0}]

DeliveryTypes ==
  /\ job \in [Jobs -> JobType]
  /\ work \in [Workers -> HandType]
  /\ fed \in [Jobs -> Nat] /\ noticed \in [Jobs -> Nat]
  /\ mail \in [Jobs -> {"none", "waiting", "done", "failed"}]
  /\ sent \in [Jobs -> Nat] /\ stalls \in [Jobs -> Nat]
  /\ overrun \subseteq Jobs

(* A part of j's announcement is out. *)
Out(part, j) ==
  /\ part = "feed" => fed[j] > 0
  /\ part = "notice" => noticed[j] > 0
  /\ part = "mail" /\ j \in Addressed => mail[j] # "none"

(* What is behind the worker's next part is out, and all of a completed job. *)
PartsAreOut ==
  /\ \A w \in Workers : work[w].step = "deliver" =>
       \A i \in DOMAIN Delivery!Parts(work[w].at) :
         i < work[w].next => Out(Delivery!Parts(work[w].at)[i], work[w].at)
  /\ \A j \in Jobs : job[j].status = "COMPLETED" =>
       \A i \in DOMAIN Delivery!Parts(j) : Out(Delivery!Parts(j)[i], j)

(* Who has a job in hand, within its lease, has it alone.                    *)
InHand(w) == work[w].at \in Jobs \ overrun
HoldersAlone ==
  /\ \A w \in Workers : work[w].at # None <=> work[w].step \in {"deliver", "failed"}
  /\ \A w \in Workers : InHand(w) =>
       job[work[w].at].status = "PROCESSING" /\ job[work[w].at].lease = "live"
  /\ \A v, w \in Workers : InHand(w) /\ work[v].at = work[w].at => v = w

(* A row that was seen under way has since been claimed, or its lease is     *)
(* over: attempts tell one claim from the next.                              *)
SeenEarlier ==
  \A w \in Workers : \A j \in DOMAIN work[w].todo :
    /\ work[w].todo[j].attempts <= job[j].attempts
    /\ /\ work[w].todo[j].attempts = job[j].attempts
       /\ work[w].todo[j].status = "PROCESSING" /\ job[j].status = "PROCESSING"
       => job[j].lease = "over"
    /\ work[w].todo[j].status \in {"PENDING", "PROCESSING"}

(* A mail that has not left the queue was sent as often as it was handed     *)
(* back.                                                                     *)
MailsCounted ==
  \A j \in Jobs :
    /\ sent[j] <= 1 + stalls[j]
    /\ mail[j] \in {"none", "waiting"} => sent[j] <= stalls[j]

LEMMA IsList ==
  ASSUME NEW S \in SUBSET Jobs, NEW f \in [S -> JobType]
  PROVE  f \in Lists
BY DEF Lists

LEMMA ListFacts ==
  ASSUME NEW f \in Lists
  PROVE  /\ DOMAIN f \subseteq Jobs
         /\ \A j \in DOMAIN f : f[j] \in JobType
         /\ \A j \in DOMAIN f :
              LET rest == Delivery!Restrict(f, DOMAIN f \ {j})
              IN  /\ rest \in Lists
                  /\ DOMAIN rest = DOMAIN f \ {j}
                  /\ \A i \in DOMAIN rest : rest[i] = f[i]
<1>1. PICK S \in SUBSET Jobs : f \in [S -> JobType]
  BY DEF Lists
<1>2. DOMAIN f = S /\ \A j \in DOMAIN f : f[j] \in JobType
  BY <1>1
<1>3. ASSUME NEW j \in DOMAIN f
      PROVE  /\ Delivery!Restrict(f, DOMAIN f \ {j}) \in [S \ {j} -> JobType]
             /\ \A i \in S \ {j} : Delivery!Restrict(f, DOMAIN f \ {j})[i] = f[i]
  BY <1>2 DEF Delivery!Restrict
<1>4. ASSUME NEW j \in DOMAIN f
      PROVE  Delivery!Restrict(f, DOMAIN f \ {j}) \in Lists
  <2>1. S \ {j} \in SUBSET Jobs
    OBVIOUS
  <2> QED BY <1>3, <2>1, IsList
<1> QED BY <1>1, <1>2, <1>3, <1>4

LEMMA DeliveryTypeInit ==
  ASSUME Delivery!Init
  PROVE  DeliveryTypes
<1>1. [j \in {} |-> Delivery!NoJob] \in Lists
  <2>1. [j \in {} |-> Delivery!NoJob] \in [{} -> JobType]
    OBVIOUS
  <2> QED BY <2>1, IsList
<1> QED BY <1>1 DEF Delivery!Init, DeliveryTypes, JobType, HandType, Delivery!NoJob, Delivery!Resting

LEMMA DeliveryTypeStep ==
  ASSUME DeliveryTypes, HoldersAlone, [Delivery!Next]_(Delivery!vars)
  PROVE  DeliveryTypes'
<1> USE DEF Delivery!outbox, Delivery!provider
<1>1. ASSUME NEW j \in Jobs, Delivery!Confirm(j) \/ Delivery!NextAttempt(j)
      PROVE  DeliveryTypes'
  <2>1. job[j] \in JobType
    BY DEF DeliveryTypes
  <2>2. /\ [job[j] EXCEPT !.status = "PENDING", !.due = TRUE] \in JobType
        /\ [job[j] EXCEPT !.due = TRUE] \in JobType
    BY <2>1 DEF JobType
  <2>3. \/ job' = [job EXCEPT ![j] = [job[j] EXCEPT !.status = "PENDING", !.due = TRUE]]
        \/ job' = [job EXCEPT ![j] = [job[j] EXCEPT !.due = TRUE]]
    BY <1>1, <2>1 DEF Delivery!Confirm, Delivery!NextAttempt, DeliveryTypes, JobType
  <2> QED BY <1>1, <2>2, <2>3 DEF Delivery!Confirm, Delivery!NextAttempt, DeliveryTypes
<1>2. ASSUME NEW j \in Jobs, Delivery!LeaseEnds(j)
      PROVE  DeliveryTypes'
  <2>1. [job[j] EXCEPT !.lease = "over"] \in JobType
    BY DEF DeliveryTypes, JobType
  <2> QED BY <1>2, <2>1 DEF Delivery!LeaseEnds, DeliveryTypes
<1>3. ASSUME NEW j \in Jobs,
             Delivery!Sends(j) \/ Delivery!Refuses(j) \/ Delivery!Skips(j) \/ Delivery!HandsBack(j)
      PROVE  DeliveryTypes'
  BY <1>3 DEF Delivery!Sends, Delivery!Refuses, Delivery!Skips, Delivery!HandsBack, DeliveryTypes
<1>4. Delivery!Resting \in HandType
  <2>1. [j \in {} |-> Delivery!NoJob] \in [{} -> JobType]
    OBVIOUS
  <2>2. [j \in {} |-> Delivery!NoJob] \in Lists
    BY <2>1, IsList
  <2> QED BY <2>2 DEF Delivery!Resting, HandType
<1>5. ASSUME NEW w \in Workers, Delivery!deliverConfirmations(w)
      PROVE  DeliveryTypes'
  <2> DEFINE open == {j \in Jobs : Delivery!Open(j)}
             seen == [j \in open |-> job[j]]
  <2>1. open \in SUBSET Jobs /\ seen \in [open -> JobType]
    BY DEF DeliveryTypes
  <2> HIDE DEF open
  <2>2. seen \in Lists
    BY <2>1, IsList
  <2> HIDE DEF seen
  <2>3. [Delivery!Resting EXCEPT !.step = "next", !.todo = seen] \in HandType
    BY <1>4, <2>2 DEF HandType
  <2>4. work' = [work EXCEPT ![w] = [Delivery!Resting EXCEPT !.step = "next", !.todo = seen]]
    BY <1>5 DEF Delivery!deliverConfirmations, open, seen
  <2> QED BY <1>5, <2>3, <2>4 DEF Delivery!deliverConfirmations, DeliveryTypes
<1>6. ASSUME NEW w \in Workers, NEW j \in Jobs, Delivery!Claim(w, j)
      PROVE  DeliveryTypes'
  <2> DEFINE rest == Delivery!Restrict(work[w].todo, DOMAIN work[w].todo \ {j})
  <2>1. rest \in Lists /\ work[w] \in HandType
    BY <1>6, ListFacts DEF Delivery!Claim, DeliveryTypes, HandType
  <2>2. /\ [step |-> "deliver", todo |-> rest, at |-> j, next |-> 1] \in HandType
        /\ [work[w] EXCEPT !.todo = rest] \in HandType
    BY <2>1 DEF HandType
  <2>3. [job[j] EXCEPT !.status = "PROCESSING", !.attempts = @ + 1, !.lease = "live"] \in JobType
    <3>1. job[j] \in JobType
      BY DEF DeliveryTypes
    <3>2. job[j].attempts + 1 \in Nat
      BY <3>1 DEF JobType
    <3> QED BY <3>1, <3>2 DEF JobType
  <2>4. \/ /\ job' = [job EXCEPT ![j] =
                [job[j] EXCEPT !.status = "PROCESSING", !.attempts = @ + 1, !.lease = "live"]]
           /\ work' = [work EXCEPT ![w] = [step |-> "deliver", todo |-> rest, at |-> j, next |-> 1]]
        \/ /\ work' = [work EXCEPT ![w] = [work[w] EXCEPT !.todo = rest]]
           /\ job' = job
    BY <1>6 DEF Delivery!Claim, DeliveryTypes, JobType
  <2> HIDE DEF rest
  <2> QED BY <1>6, <2>2, <2>3, <2>4 DEF Delivery!Claim, DeliveryTypes
<1>7. ASSUME NEW w \in Workers, Delivery!RoundEnds(w) \/ Delivery!Crash(w)
      PROVE  DeliveryTypes'
  BY <1>4, <1>7 DEF Delivery!RoundEnds, Delivery!Crash, DeliveryTypes
<1>8. ASSUME NEW w \in Workers, Delivery!Announce(w)
      PROVE  DeliveryTypes'
  <2>1. [work[w] EXCEPT !.next = @ + 1] \in HandType
    BY DEF DeliveryTypes, HandType
  <2>2. fed' \in [Jobs -> Nat] /\ noticed' \in [Jobs -> Nat]
    <3>1. \A i \in Jobs : fed[i] + 1 \in Nat /\ noticed[i] + 1 \in Nat
      BY DEF DeliveryTypes
    <3>2. /\ fed' = fed \/ fed' = [fed EXCEPT ![work[w].at] = fed[work[w].at] + 1]
          /\ noticed' = noticed \/ noticed' = [noticed EXCEPT ![work[w].at] = noticed[work[w].at] + 1]
      BY <1>8 DEF Delivery!Announce
    <3> QED BY <3>1, <3>2 DEF DeliveryTypes
  <2>3. mail' \in [Jobs -> {"none", "waiting", "done", "failed"}]
    BY <1>8 DEF Delivery!Announce, Delivery!queueMail, DeliveryTypes
  <2>4. work' \in [Workers -> HandType]
    BY <1>8, <2>1 DEF Delivery!Announce, DeliveryTypes
  <2> QED BY <1>8, <2>2, <2>3, <2>4 DEF Delivery!Announce, DeliveryTypes
<1>9. ASSUME NEW w \in Workers, Delivery!Complete(w) \/ Delivery!Requeue(w)
      PROVE  DeliveryTypes'
  <2>1. [work[w] EXCEPT !.step = "next", !.at = None] \in HandType
    BY DEF DeliveryTypes, HandType
  <2>2. work[w].at \in Jobs
    BY <1>9 DEF Delivery!Complete, Delivery!Requeue, HoldersAlone, DeliveryTypes, HandType
  <2>3. job[work[w].at] \in JobType
    BY <2>2 DEF DeliveryTypes
  <2>4. /\ [job[work[w].at] EXCEPT !.status = "COMPLETED", !.lease = "none"] \in JobType
        /\ [job[work[w].at] EXCEPT !.status = "PENDING", !.lease = "none", !.due = FALSE] \in JobType
    BY <2>3 DEF JobType
  <2>5. \/ job' = [job EXCEPT ![work[w].at] =
              [job[work[w].at] EXCEPT !.status = "COMPLETED", !.lease = "none"]]
        \/ job' = [job EXCEPT ![work[w].at] =
              [job[work[w].at] EXCEPT !.status = "PENDING", !.lease = "none", !.due = FALSE]]
    BY <1>9, <2>2, <2>3 DEF Delivery!Complete, Delivery!Requeue, DeliveryTypes, JobType
  <2>6. job' \in [Jobs -> JobType]
    BY <2>2, <2>4, <2>5 DEF DeliveryTypes
  <2>7. work' \in [Workers -> HandType]
    BY <1>9, <2>1 DEF Delivery!Complete, Delivery!Requeue, DeliveryTypes
  <2> QED BY <1>9, <2>6, <2>7 DEF Delivery!Complete, Delivery!Requeue, DeliveryTypes
<1>10. ASSUME NEW w \in Workers, Delivery!Throws(w)
       PROVE  DeliveryTypes'
  <2>1. [work[w] EXCEPT !.step = "failed"] \in HandType
    BY DEF DeliveryTypes, HandType
  <2> QED BY <1>10, <2>1 DEF Delivery!Throws, DeliveryTypes
<1>11. CASE UNCHANGED Delivery!vars
  BY <1>11 DEF Delivery!vars, DeliveryTypes
<1> QED
  BY <1>1, <1>2, <1>3, <1>5, <1>6, <1>7, <1>8, <1>9, <1>10, <1>11 DEF Delivery!Next, Delivery!Work

-----------------------------------------------------------------------------
(* One worker has a job in hand. *)
LEMMA HoldersInit ==
  ASSUME None \notin Jobs, Delivery!Init
  PROVE  HoldersAlone /\ SeenEarlier
<1>1. \A w \in Workers : work[w] = Delivery!Resting
  BY DEF Delivery!Init
<1> QED BY <1>1 DEF Delivery!Resting, HoldersAlone, SeenEarlier, InHand

LEMMA HoldersStep ==
  ASSUME None \notin Jobs, DeliveryTypes, HoldersAlone, SeenEarlier,
         [Delivery!Next]_(Delivery!vars)
  PROVE  HoldersAlone'
<1> USE DEF InHand
<1>1. ASSUME NEW j \in Jobs, Delivery!Confirm(j) \/ Delivery!NextAttempt(j)
      PROVE  HoldersAlone'
  BY <1>1 DEF Delivery!Confirm, Delivery!NextAttempt, HoldersAlone, DeliveryTypes, JobType
<1>2. ASSUME NEW j \in Jobs, Delivery!LeaseEnds(j)
      PROVE  HoldersAlone'
  BY <1>2 DEF Delivery!LeaseEnds, HoldersAlone, DeliveryTypes, JobType
<1>3. ASSUME NEW w \in Workers, NEW j \in Jobs, Delivery!Claim(w, j)
      PROVE  HoldersAlone'
  <2>1. CASE job' = job
    <3>1. \/ /\ Delivery!Unclaimed(work[w].todo[j], job[j])
             /\ job' = [job EXCEPT ![j].status = "PROCESSING", ![j].attempts = @ + 1, ![j].lease = "live"]
          \/ \A v \in Workers : work'[v].at = work[v].at /\ work'[v].step = work[v].step
      BY <1>3, SMTT(30) DEF Delivery!Claim, DeliveryTypes, HandType
    <3>2. job[j] \in JobType
      BY DEF DeliveryTypes
    <3>3. \A v \in Workers : work'[v].at = work[v].at /\ work'[v].step = work[v].step
      BY <2>1, <3>1, <3>2 DEF DeliveryTypes, JobType
    <3> QED BY <1>3, <2>1, <3>3 DEF Delivery!Claim, HoldersAlone
  <2>2. CASE job' # job
    <3> DEFINE rest == Delivery!Restrict(work[w].todo, DOMAIN work[w].todo \ {j})
    <3>1. /\ Delivery!Unclaimed(work[w].todo[j], job[j]) /\ j \in DOMAIN work[w].todo
          /\ job' = [job EXCEPT ![j].status = "PROCESSING", ![j].attempts = @ + 1, ![j].lease = "live"]
          /\ work' = [work EXCEPT ![w] = [step |-> "deliver", todo |-> rest, at |-> j, next |-> 1]]
          /\ work[w].step = "next" /\ overrun' = overrun
      BY <1>3, <2>2 DEF Delivery!Claim
    <3> HIDE DEF rest
    <3>2. work'[w].step = "deliver" /\ work'[w].at = j
      BY <3>1 DEF DeliveryTypes
    <3>3. \A v \in Workers : v # w => work'[v] = work[v]
      BY <3>1 DEF DeliveryTypes
    <3>4. job'[j].status = "PROCESSING" /\ job'[j].lease = "live"
      BY <3>1 DEF DeliveryTypes, JobType
    <3>5. \A i \in Jobs : i # j => job'[i] = job[i]
      BY <3>1 DEF DeliveryTypes
    <3>6. ASSUME NEW v \in Workers, work[v].at = j, j \notin overrun
          PROVE  FALSE
      <4>1. job[j].status = "PROCESSING" /\ job[j].lease = "live"
        BY <3>6 DEF HoldersAlone
      <4> QED BY <3>1, <4>1 DEF SeenEarlier, Delivery!Unclaimed
    <3>7. \A v \in Workers : work'[v].at # None <=> work'[v].step \in {"deliver", "failed"}
      BY <3>2, <3>3 DEF HoldersAlone
    <3>8. ASSUME NEW v \in Workers, work'[v].at \in Jobs \ overrun
          PROVE  job'[work'[v].at].status = "PROCESSING" /\ job'[work'[v].at].lease = "live"
      BY <3>2, <3>3, <3>4, <3>5, <3>8 DEF HoldersAlone
    <3>9. ASSUME NEW u \in Workers, NEW v \in Workers, work'[v].at \in Jobs \ overrun,
                 work'[u].at = work'[v].at
          PROVE  u = v
      BY <3>2, <3>3, <3>6, <3>9 DEF HoldersAlone
    <3> QED BY <3>1, <3>7, <3>8, <3>9 DEF HoldersAlone
  <2> QED BY <2>1, <2>2
<1>4. ASSUME NEW w \in Workers,
             Delivery!deliverConfirmations(w) \/ Delivery!RoundEnds(w) \/ Delivery!Crash(w)
      PROVE  HoldersAlone'
  <2>1. work'[w].at = None /\ work'[w].step \in {"idle", "next"}
    <3>1. CASE Delivery!deliverConfirmations(w)
      <4>1. PICK seen : work' = [work EXCEPT ![w] = [Delivery!Resting EXCEPT !.step = "next", !.todo = seen]]
        BY <3>1 DEF Delivery!deliverConfirmations
      <4> QED BY <4>1 DEF Delivery!Resting, DeliveryTypes
    <3>2. CASE Delivery!RoundEnds(w) \/ Delivery!Crash(w)
      BY <3>2 DEF Delivery!RoundEnds, Delivery!Crash, Delivery!Resting, DeliveryTypes
    <3> QED BY <1>4, <3>1, <3>2
  <2>2. (\A v \in Workers : v # w => work'[v] = work[v]) /\ job' = job /\ overrun' = overrun
    BY <1>4 DEF Delivery!deliverConfirmations, Delivery!RoundEnds, Delivery!Crash, DeliveryTypes
  <2> QED BY <2>1, <2>2 DEF HoldersAlone
<1>5. ASSUME NEW w \in Workers, Delivery!Announce(w) \/ Delivery!Throws(w)
      PROVE  HoldersAlone'
  <2>1. work'[w].at = work[w].at /\ work'[w].step \in {"deliver", "failed"}
        /\ work[w].step = "deliver"
    BY <1>5 DEF Delivery!Announce, Delivery!Throws, DeliveryTypes, HandType
  <2>2. (\A v \in Workers : v # w => work'[v] = work[v]) /\ job' = job /\ overrun' = overrun
    BY <1>5 DEF Delivery!Announce, Delivery!Throws, DeliveryTypes
  <2> QED BY <2>1, <2>2 DEF HoldersAlone
<1>6. ASSUME NEW w \in Workers, Delivery!Complete(w) \/ Delivery!Requeue(w)
      PROVE  HoldersAlone'
  <2>1. work'[w].at = None /\ work'[w].step = "next" /\ work[w].at \in Jobs
    BY <1>6 DEF Delivery!Complete, Delivery!Requeue, DeliveryTypes, HandType, HoldersAlone
  <2>2. (\A v \in Workers : v # w => work'[v] = work[v]) /\ overrun' = overrun
    BY <1>6 DEF Delivery!Complete, Delivery!Requeue, DeliveryTypes
  <2>3. \A i \in Jobs : i # work[w].at => job'[i] = job[i]
    BY <1>6 DEF Delivery!Complete, Delivery!Requeue, DeliveryTypes
  <2> QED BY <2>1, <2>2, <2>3 DEF HoldersAlone
<1>7. CASE job' = job /\ work' = work /\ overrun' = overrun
  BY <1>7 DEF HoldersAlone
<1> QED
  BY <1>1, <1>2, <1>3, <1>4, <1>5, <1>6, <1>7
  DEF Delivery!Next, Delivery!Work, Delivery!vars, Delivery!Sends, Delivery!Refuses,
      Delivery!Skips, Delivery!HandsBack, Delivery!outbox

(* How a row moves on, as far as who looked at it earlier can tell.          *)
MovesOn(row, new) ==
  /\ row.attempts <= new.attempts
  /\ new.attempts = row.attempts /\ new.status = "PROCESSING" =>
       row.status = "PROCESSING" /\ (row.lease = "over" => new.lease = "over")

LEMMA RowsMoveOn ==
  ASSUME DeliveryTypes, [Delivery!Next]_(Delivery!vars), NEW i \in Jobs
  PROVE  MovesOn(job[i], job'[i])
<1>1. job[i] \in JobType
  BY DEF DeliveryTypes
<1>2. ASSUME NEW j \in Jobs, Delivery!Confirm(j) \/ Delivery!NextAttempt(j)
      PROVE  \/ job'[i] = job[i]
             \/ /\ job[i].status \in {"NONE", "PENDING"}
                /\ job'[i] = [job[i] EXCEPT !.status = "PENDING", !.due = TRUE]
             \/ job'[i] = [job[i] EXCEPT !.due = TRUE]
  BY <1>1, <1>2 DEF Delivery!Confirm, Delivery!NextAttempt, DeliveryTypes
<1>3. ASSUME NEW j \in Jobs, Delivery!LeaseEnds(j)
      PROVE  job'[i] = job[i] \/ job'[i] = [job[i] EXCEPT !.lease = "over"]
  BY <1>1, <1>3 DEF Delivery!LeaseEnds, DeliveryTypes
<1>4. ASSUME NEW w \in Workers, NEW j \in Jobs, Delivery!Claim(w, j)
      PROVE  \/ job'[i] = job[i]
             \/ job'[i] = [job[i] EXCEPT !.status = "PROCESSING", !.attempts = @ + 1, !.lease = "live"]
  <2>1. job[j] \in JobType
    BY DEF DeliveryTypes
  <2>2. \/ job' = job
        \/ job' = [job EXCEPT ![j] =
             [job[j] EXCEPT !.status = "PROCESSING", !.attempts = @ + 1, !.lease = "live"]]
    BY <1>4, <2>1 DEF Delivery!Claim, DeliveryTypes, JobType
  <2>3. CASE i = j
    BY <2>2, <2>3 DEF DeliveryTypes
  <2>4. CASE i # j
    BY <2>2, <2>4 DEF DeliveryTypes
  <2> QED BY <2>3, <2>4
<1>5. ASSUME NEW w \in Workers, Delivery!Complete(w) \/ Delivery!Requeue(w)
      PROVE  \/ job'[i] = job[i]
             \/ job'[i] = [job[i] EXCEPT !.status = "COMPLETED", !.lease = "none"]
             \/ job'[i] = [job[i] EXCEPT !.status = "PENDING", !.lease = "none", !.due = FALSE]
  <2>1. CASE i = work[w].at
    BY <1>1, <1>5, <2>1 DEF Delivery!Complete, Delivery!Requeue, DeliveryTypes, JobType
  <2>2. CASE i # work[w].at
    BY <1>5, <2>2 DEF Delivery!Complete, Delivery!Requeue, DeliveryTypes
  <2> QED BY <2>1, <2>2
<1>6. \/ job' = job
      \/ \E j \in Jobs : Delivery!Confirm(j) \/ Delivery!NextAttempt(j)
      \/ \E j \in Jobs : Delivery!LeaseEnds(j)
      \/ \E w \in Workers : \E j \in Jobs : Delivery!Claim(w, j)
      \/ \E w \in Workers : Delivery!Complete(w) \/ Delivery!Requeue(w)
  BY DEF Delivery!Next, Delivery!Work, Delivery!vars, Delivery!Sends, Delivery!Refuses,
         Delivery!Skips, Delivery!HandsBack, Delivery!deliverConfirmations,
         Delivery!RoundEnds, Delivery!Announce, Delivery!Throws, Delivery!Crash
<1>7. \/ job'[i] = job[i]
      \/ /\ job[i].status \in {"NONE", "PENDING"}
         /\ job'[i] = [job[i] EXCEPT !.status = "PENDING", !.due = TRUE]
      \/ job'[i] = [job[i] EXCEPT !.due = TRUE]
      \/ job'[i] = [job[i] EXCEPT !.lease = "over"]
      \/ job'[i] = [job[i] EXCEPT !.status = "PROCESSING", !.attempts = @ + 1, !.lease = "live"]
      \/ job'[i] = [job[i] EXCEPT !.status = "COMPLETED", !.lease = "none"]
      \/ job'[i] = [job[i] EXCEPT !.status = "PENDING", !.lease = "none", !.due = FALSE]
  BY <1>2, <1>3, <1>4, <1>5, <1>6
<1>8. job[i].attempts \in Nat /\ job[i].attempts + 1 # job[i].attempts
  BY <1>1 DEF JobType
<1>9. CASE job'[i] = [job[i] EXCEPT !.status = "PROCESSING", !.attempts = @ + 1, !.lease = "live"]
  BY <1>1, <1>8, <1>9 DEF MovesOn, JobType
<1>10. CASE job'[i] = [job[i] EXCEPT !.lease = "over"]
  <2>1. /\ job'[i].attempts = job[i].attempts /\ job'[i].status = job[i].status
        /\ job'[i].lease = "over"
    BY <1>1, <1>10 DEF JobType
  <2> QED BY <1>8, <2>1 DEF MovesOn
<1>11. CASE \/ job'[i] = [job[i] EXCEPT !.status = "COMPLETED", !.lease = "none"]
            \/ job'[i] = [job[i] EXCEPT !.status = "PENDING", !.lease = "none", !.due = FALSE]
            \/ job'[i] = [job[i] EXCEPT !.status = "PENDING", !.due = TRUE]
  <2>1. CASE job'[i] = [job[i] EXCEPT !.status = "COMPLETED", !.lease = "none"]
    <3>1. job'[i].attempts = job[i].attempts /\ job'[i].status = "COMPLETED"
      BY <1>1, <2>1 DEF JobType
    <3> QED BY <1>8, <3>1 DEF MovesOn
  <2>2. CASE job'[i] = [job[i] EXCEPT !.status = "PENDING", !.lease = "none", !.due = FALSE]
    <3>1. job'[i].attempts = job[i].attempts /\ job'[i].status = "PENDING"
      BY <1>1, <2>2 DEF JobType
    <3> QED BY <1>8, <3>1 DEF MovesOn
  <2>3. CASE job'[i] = [job[i] EXCEPT !.status = "PENDING", !.due = TRUE]
    <3>1. job'[i].attempts = job[i].attempts /\ job'[i].status = "PENDING"
      BY <1>1, <2>3 DEF JobType
    <3> QED BY <1>8, <3>1 DEF MovesOn
  <2> QED BY <1>11, <2>1, <2>2, <2>3
<1>12. CASE job'[i] = job[i] \/ job'[i] = [job[i] EXCEPT !.due = TRUE]
  <2>1. /\ job'[i].attempts = job[i].attempts /\ job'[i].status = job[i].status
        /\ job'[i].lease = job[i].lease
    BY <1>1, <1>12 DEF JobType
  <2> QED BY <1>8, <2>1 DEF MovesOn
<1> QED BY <1>7, <1>9, <1>10, <1>11, <1>12

Earlier(seen, row) ==
  /\ seen.attempts <= row.attempts
  /\ /\ seen.attempts = row.attempts
     /\ seen.status = "PROCESSING" /\ row.status = "PROCESSING"
     => row.lease = "over"
  /\ seen.status \in {"PENDING", "PROCESSING"}

LEMMA EarlierStays ==
  ASSUME NEW seen \in JobType, NEW row \in JobType, NEW new \in JobType,
         Earlier(seen, row), MovesOn(row, new)
  PROVE  Earlier(seen, new)
BY DEF Earlier, MovesOn, JobType

LEMMA SeenEarlierStep ==
  ASSUME None \notin Jobs, DeliveryTypes, HoldersAlone, SeenEarlier,
         [Delivery!Next]_(Delivery!vars)
  PROVE  SeenEarlier'
<1>1. DeliveryTypes'
  BY DeliveryTypeStep
<1>2. ASSUME NEW w \in Workers, NEW j \in DOMAIN work[w].todo
      PROVE  j \in Jobs /\ Earlier(work[w].todo[j], job'[j])
  <2>1. work[w].todo \in Lists
    BY DEF DeliveryTypes, HandType
  <2>2. j \in Jobs /\ work[w].todo[j] \in JobType
    BY <2>1, ListFacts
  <2>3. job[j] \in JobType /\ job'[j] \in JobType
    BY <1>1, <2>2 DEF DeliveryTypes
  <2>4. Earlier(work[w].todo[j], job[j])
    BY DEF SeenEarlier, Earlier
  <2> QED BY <2>2, <2>3, <2>4, RowsMoveOn, EarlierStays
<1>3. SUFFICES ASSUME NEW w \in Workers, NEW j \in DOMAIN work'[w].todo
               PROVE  Earlier(work'[w].todo[j], job'[j])
  BY DEF SeenEarlier, Earlier
<1>4. CASE j \in DOMAIN work[w].todo /\ work'[w].todo[j] = work[w].todo[j]
  BY <1>2, <1>4
<1>5. ASSUME NEW v \in Workers, Delivery!deliverConfirmations(v), v = w
      PROVE  Earlier(work'[w].todo[j], job'[j])
  <2> DEFINE open == {i \in Jobs : Delivery!Open(i)}
             seen == [i \in open |-> job[i]]
  <2>1. work'[w].todo = seen /\ job' = job
    BY <1>5 DEF Delivery!deliverConfirmations, Delivery!Resting, DeliveryTypes
  <2>2. j \in Jobs /\ Delivery!Open(j) /\ work'[w].todo[j] = job[j]
    BY <1>3, <2>1
  <2>3. job[j] \in JobType
    BY <2>2 DEF DeliveryTypes
  <2> QED BY <2>1, <2>2, <2>3 DEF Delivery!Open, Earlier, JobType
<1>6. ASSUME NEW v \in Workers, NEW i \in Jobs, Delivery!Claim(v, i), v = w
      PROVE  j \in DOMAIN work[w].todo /\ work'[w].todo[j] = work[w].todo[j]
  <2>1. work[w].todo \in Lists
    BY DEF DeliveryTypes, HandType
  <2>2. work'[w].todo = Delivery!Restrict(work[w].todo, DOMAIN work[w].todo \ {i})
        /\ i \in DOMAIN work[w].todo
    BY <1>6 DEF Delivery!Claim, DeliveryTypes, HandType
  <2> QED BY <1>3, <2>1, <2>2, ListFacts
<1>7. ASSUME NEW v \in Workers, Delivery!RoundEnds(v) \/ Delivery!Crash(v), v = w
      PROVE  FALSE
  BY <1>3, <1>7 DEF Delivery!RoundEnds, Delivery!Crash, Delivery!Resting, DeliveryTypes
<1>8. ASSUME NEW v \in Workers,
             \/ Delivery!Announce(v) \/ Delivery!Complete(v)
             \/ Delivery!Requeue(v) \/ Delivery!Throws(v)
      PROVE  work'[w].todo = work[w].todo
  <2>1. work[w] \in HandType /\ work[v] \in HandType
    BY DEF DeliveryTypes
  <2>2. \/ work' = [work EXCEPT ![v] = [work[v] EXCEPT !.next = @ + 1]]
        \/ work' = [work EXCEPT ![v] = [work[v] EXCEPT !.step = "next", !.at = None]]
        \/ work' = [work EXCEPT ![v] = [work[v] EXCEPT !.step = "failed"]]
    BY <1>8, <2>1 DEF Delivery!Announce, Delivery!Complete, Delivery!Requeue, Delivery!Throws,
                      DeliveryTypes, HandType
  <2>3. CASE v = w
    <3>1. \/ work'[w] = [work[w] EXCEPT !.next = @ + 1]
          \/ work'[w] = [work[w] EXCEPT !.step = "next", !.at = None]
          \/ work'[w] = [work[w] EXCEPT !.step = "failed"]
      BY <2>2, <2>3 DEF DeliveryTypes
    <3> QED BY <2>1, <3>1 DEF HandType
  <2>4. CASE v # w
    BY <2>2, <2>4 DEF DeliveryTypes
  <2> QED BY <2>3, <2>4
<1>9. ASSUME NEW v \in Workers, v # w, Delivery!Work(v) \/ Delivery!Throws(v) \/ Delivery!Crash(v)
      PROVE  work'[w] = work[w]
  BY <1>9 DEF Delivery!Work, Delivery!Throws, Delivery!Crash, Delivery!deliverConfirmations,
              Delivery!Claim, Delivery!RoundEnds, Delivery!Announce, Delivery!Complete,
              Delivery!Requeue, DeliveryTypes
<1>10. CASE work' = work
  BY <1>3, <1>4, <1>10
<1>11. ASSUME NEW v \in Workers, Delivery!Work(v) \/ Delivery!Throws(v) \/ Delivery!Crash(v)
       PROVE  Earlier(work'[w].todo[j], job'[j])
  <2>1. CASE v # w
    BY <1>3, <1>4, <1>9, <1>11, <2>1
  <2>2. CASE v = w
    BY <1>3, <1>4, <1>5, <1>6, <1>7, <1>8, <1>11, <2>2 DEF Delivery!Work
  <2> QED BY <2>1, <2>2
<1> QED
  BY <1>10, <1>11
  DEF Delivery!Next, Delivery!vars, Delivery!Confirm, Delivery!NextAttempt, Delivery!LeaseEnds,
      Delivery!Sends, Delivery!Refuses, Delivery!Skips, Delivery!HandsBack

-----------------------------------------------------------------------------
(* What is announced stays announced, and a completed job is all announced. *)
LEMMA PartsFacts ==
  ASSUME Kind \in [Jobs -> {"TICKET", "REGISTRATION", "SPONSORED"}], NEW j \in Jobs
  PROVE  /\ Delivery!Parts(j) \in Seq({"feed", "notice", "mail"})
         /\ \E i \in DOMAIN Delivery!Parts(j) : Delivery!Parts(j)[i] = "feed"
         /\ \E i \in DOMAIN Delivery!Parts(j) : Delivery!Parts(j)[i] = "notice"
         /\ Kind[j] # "SPONSORED" =>
              \E i \in DOMAIN Delivery!Parts(j) : Delivery!Parts(j)[i] = "mail"
<1> USE DEF Delivery!notifyPurchase, Delivery!notifyRegistration, Delivery!recordSponsoredRegistration
<1>1. CASE Kind[j] = "TICKET"
  <2>1. Delivery!Parts(j) = <<"feed", "notice", "mail">>
    BY <1>1 DEF Delivery!Parts
  <2> QED BY <2>1
<1>2. CASE Kind[j] = "REGISTRATION"
  <2>1. Delivery!Parts(j) = <<"notice", "feed", "mail">>
    BY <1>2 DEF Delivery!Parts
  <2> QED BY <2>1
<1>3. CASE Kind[j] = "SPONSORED"
  <2>1. Delivery!Parts(j) = <<"notice", "feed">>
    BY <1>3 DEF Delivery!Parts
  <2> QED BY <1>3, <2>1
<1> QED BY <1>1, <1>2, <1>3

LEMMA OutStays ==
  ASSUME DeliveryTypes, HoldersAlone, [Delivery!Next]_(Delivery!vars),
         NEW j \in Jobs, NEW part, Out(part, j)
  PROVE  Out(part, j)'
<1>1. ASSUME NEW w \in Workers, Delivery!Announce(w)
      PROVE  Out(part, j)'
  <2>1. fed'[j] >= fed[j]
    <3>1. fed' = fed \/ fed' = [fed EXCEPT ![work[w].at] = fed[work[w].at] + 1]
      BY <1>1 DEF Delivery!Announce
    <3> QED BY <3>1 DEF DeliveryTypes
  <2>2. noticed'[j] >= noticed[j]
    <3>1. noticed' = noticed \/ noticed' = [noticed EXCEPT ![work[w].at] = noticed[work[w].at] + 1]
      BY <1>1 DEF Delivery!Announce
    <3> QED BY <3>1 DEF DeliveryTypes
  <2>3. mail[j] # "none" => mail'[j] # "none"
    BY <1>1 DEF Delivery!Announce, Delivery!queueMail, DeliveryTypes
  <2>4. fed[j] \in Nat /\ fed'[j] \in Nat /\ noticed[j] \in Nat /\ noticed'[j] \in Nat
    BY DeliveryTypeStep DEF DeliveryTypes
  <2> QED BY <2>1, <2>2, <2>3, <2>4 DEF Out
<1>2. ASSUME NEW i \in Jobs, Delivery!Sends(i) \/ Delivery!Refuses(i) \/ Delivery!Skips(i)
      PROVE  Out(part, j)'
  BY <1>2 DEF Delivery!Sends, Delivery!Refuses, Delivery!Skips, Out, DeliveryTypes
<1>3. CASE fed' = fed /\ noticed' = noticed /\ mail' = mail
  BY <1>3 DEF Out
<1> QED
  BY <1>1, <1>2, <1>3
  DEF Delivery!Next, Delivery!Work, Delivery!vars, Delivery!outbox, Delivery!Confirm,
      Delivery!NextAttempt, Delivery!LeaseEnds, Delivery!HandsBack,
      Delivery!deliverConfirmations, Delivery!Claim, Delivery!RoundEnds, Delivery!Complete,
      Delivery!Requeue, Delivery!Throws, Delivery!Crash

LEMMA PartsInit ==
  ASSUME Delivery!Init
  PROVE  PartsAreOut
<1>1. /\ \A w \in Workers : work[w].step = "idle"
      /\ \A j \in Jobs : job[j].status = "NONE"
  BY DEF Delivery!Init, Delivery!Resting, Delivery!NoJob
<1> QED BY <1>1 DEF PartsAreOut

(* How a hand comes to be delivering: as before, by a claim, or further on.   *)
TakesUp(w, j) ==
  /\ work'[w].next = 1 /\ work'[w].at = j /\ job'[j].attempts = job[j].attempts + 1
  /\ \A v \in Workers : v # w => work'[v] = work[v]
  /\ fed' = fed /\ noticed' = noticed

LEMMA HandsChange ==
  ASSUME DeliveryTypes, [Delivery!Next]_(Delivery!vars),
         NEW w \in Workers, work'[w].step = "deliver"
  PROVE  \/ work'[w] = work[w]
         \/ \E j \in Jobs : TakesUp(w, j)
         \/ Delivery!Announce(w)
<1>1. ASSUME NEW v \in Workers, NEW j \in Jobs, Delivery!Claim(v, j)
      PROVE  work'[w] = work[w] \/ TakesUp(w, j)
  <2>1. job[j] \in JobType /\ work[w] \in HandType
    BY DEF DeliveryTypes
  <2>2. fed' = fed /\ noticed' = noticed
    BY <1>1 DEF Delivery!Claim, Delivery!outbox
  <2>3. PICK rest :
          \/ /\ work' = [work EXCEPT ![v] = [step |-> "deliver", todo |-> rest, at |-> j, next |-> 1]]
             /\ job' = [job EXCEPT ![j] =
                  [job[j] EXCEPT !.status = "PROCESSING", !.attempts = @ + 1, !.lease = "live"]]
          \/ work' = [work EXCEPT ![v] = [work[v] EXCEPT !.todo = rest]] /\ work[v].step = "next"
    BY <1>1, <2>1 DEF Delivery!Claim, DeliveryTypes, JobType
  <2>4. CASE v = w
    <3>1. CASE /\ work' = [work EXCEPT ![v] = [step |-> "deliver", todo |-> rest, at |-> j, next |-> 1]]
               /\ job' = [job EXCEPT ![j] =
                    [job[j] EXCEPT !.status = "PROCESSING", !.attempts = @ + 1, !.lease = "live"]]
      <4>1. work'[w].next = 1 /\ work'[w].at = j /\ \A u \in Workers : u # w => work'[u] = work[u]
        BY <2>4, <3>1 DEF DeliveryTypes
      <4>2. job'[j].attempts = job[j].attempts + 1
        BY <2>1, <3>1 DEF DeliveryTypes, JobType
      <4> QED BY <2>2, <4>1, <4>2 DEF TakesUp
    <3>2. CASE /\ work' = [work EXCEPT ![v] = [work[v] EXCEPT !.todo = rest]]
               /\ work[v].step = "next"
      <4>1. work'[w].step = "next"
        BY <2>1, <2>4, <3>2 DEF DeliveryTypes, HandType
      <4> QED BY <4>1
    <3> QED BY <2>3, <3>1, <3>2
  <2>5. CASE v # w
    <3>1. \E hand : work' = [work EXCEPT ![v] = hand]
      BY <2>3
    <3>2. PICK hand : work' = [work EXCEPT ![v] = hand]
      BY <3>1
    <3> QED BY <2>5, <3>2 DEF DeliveryTypes
  <2> QED BY <2>4, <2>5
<1>2. ASSUME NEW v \in Workers, Delivery!Announce(v)
      PROVE  v = w \/ work'[w] = work[w]
  BY <1>2 DEF Delivery!Announce, DeliveryTypes
<1>3. ASSUME NEW v \in Workers, Delivery!deliverConfirmations(v)
      PROVE  work'[w] = work[w]
  <2>1. PICK seen : work' = [work EXCEPT ![v] = [Delivery!Resting EXCEPT !.step = "next", !.todo = seen]]
    BY <1>3 DEF Delivery!deliverConfirmations
  <2> QED BY <2>1 DEF Delivery!Resting, DeliveryTypes
<1>4. ASSUME NEW v \in Workers, Delivery!RoundEnds(v) \/ Delivery!Crash(v)
      PROVE  work'[w] = work[w]
  BY <1>4 DEF Delivery!RoundEnds, Delivery!Crash, Delivery!Resting, DeliveryTypes
<1>5. ASSUME NEW v \in Workers,
             Delivery!Complete(v) \/ Delivery!Requeue(v) \/ Delivery!Throws(v)
      PROVE  work'[w] = work[w]
  BY <1>5 DEF Delivery!Complete, Delivery!Requeue, Delivery!Throws, DeliveryTypes, HandType
<1>6. CASE work' = work
  BY <1>6
<1> QED
  BY <1>1, <1>2, <1>3, <1>4, <1>5, <1>6
  DEF Delivery!Next, Delivery!Work, Delivery!vars, Delivery!Confirm, Delivery!NextAttempt,
      Delivery!LeaseEnds, Delivery!Sends, Delivery!Refuses, Delivery!Skips, Delivery!HandsBack

LEMMA PartsStep ==
  ASSUME Kind \in [Jobs -> {"TICKET", "REGISTRATION", "SPONSORED"}],
         DeliveryTypes, HoldersAlone, PartsAreOut, [Delivery!Next]_(Delivery!vars)
  PROVE  PartsAreOut'
<1>1. ASSUME NEW k \in Jobs, NEW i \in DOMAIN Delivery!Parts(k), Out(Delivery!Parts(k)[i], k)
      PROVE  Out(Delivery!Parts(k)[i], k)'
  <2>1. PICK part : part = Delivery!Parts(k)[i]
    OBVIOUS
  <2>2. Out(part, k)'
    BY <1>1, <2>1, OutStays
  <2> QED BY <2>1, <2>2
<1>2. \A k \in Jobs : DOMAIN Delivery!Parts(k) = 1..Len(Delivery!Parts(k))
                      /\ Len(Delivery!Parts(k)) \in Nat
  BY PartsFacts
<1>3. ASSUME NEW w \in Workers, work'[w].step = "deliver"
      PROVE  \/ work'[w] = work[w]
             \/ work'[w].next = 1 /\ work'[w].at \in Jobs
             \/ Delivery!Announce(w)
  BY <1>3, HandsChange DEF TakesUp
<1>4. ASSUME NEW w \in Workers, work'[w].step = "deliver", NEW k, k = work'[w].at,
             NEW i \in DOMAIN Delivery!Parts(k), i < work'[w].next
      PROVE  Out(Delivery!Parts(k)[i], k)'
  <2>1. CASE work'[w] = work[w]
    <3>1. k \in Jobs /\ Out(Delivery!Parts(k)[i], k)
      BY <1>4, <2>1 DEF PartsAreOut, DeliveryTypes, HandType, HoldersAlone
    <3> QED BY <1>1, <3>1
  <2>2. CASE work'[w].next = 1 /\ work'[w].at \in Jobs
    BY <1>2, <1>4, <2>2
  <2>3. CASE Delivery!Announce(w)
    <3>1. /\ work'[w].at = work[w].at /\ work'[w].next = work[w].next + 1
          /\ work[w].next \in Nat /\ work[w].step = "deliver"
      BY <2>3 DEF Delivery!Announce, DeliveryTypes, HandType
    <3>2. k \in Jobs /\ k = work[w].at
      BY <1>4, <3>1 DEF HoldersAlone, DeliveryTypes, HandType
    <3>3. i < work[w].next \/ i = work[w].next
      BY <1>2, <1>4, <3>1, <3>2
    <3>4. CASE i < work[w].next
      <4>1. Out(Delivery!Parts(k)[i], k)
        BY <1>4, <3>1, <3>2, <3>4 DEF PartsAreOut
      <4> QED BY <1>1, <3>2, <4>1
    <3>5. CASE i = work[w].next
      <4>1. PICK part : part = Delivery!Parts(k)[i]
        OBVIOUS
      <4>2. /\ fed' = IF part = "feed" THEN [fed EXCEPT ![k] = @ + 1] ELSE fed
            /\ noticed' = IF part = "notice" THEN [noticed EXCEPT ![k] = @ + 1] ELSE noticed
            /\ IF part = "mail" THEN Delivery!queueMail(k) ELSE UNCHANGED mail
        BY <2>3, <3>2, <3>5, <4>1 DEF Delivery!Announce
      <4>3. part = "feed" => fed'[k] > 0
        BY <3>2, <4>2 DEF DeliveryTypes
      <4>4. part = "notice" => noticed'[k] > 0
        BY <3>2, <4>2 DEF DeliveryTypes
      <4>5. part = "mail" /\ k \in Addressed => mail'[k] # "none"
        BY <3>2, <4>2 DEF Delivery!queueMail, Delivery!explainFeatureState, DeliveryTypes
      <4>6. Out(part, k)'
        BY <4>3, <4>4, <4>5 DEF Out
      <4> QED BY <4>1, <4>6
    <3> QED BY <3>3, <3>4, <3>5
  <2> QED BY <1>3, <1>4, <2>1, <2>2, <2>3
<1>5. ASSUME NEW k \in Jobs, job'[k].status = "COMPLETED", NEW i \in DOMAIN Delivery!Parts(k)
      PROVE  Out(Delivery!Parts(k)[i], k)'
  <2>1. CASE job[k].status = "COMPLETED"
    <3>1. Out(Delivery!Parts(k)[i], k)
      BY <2>1 DEF PartsAreOut
    <3> QED BY <1>1, <3>1
  <2>2. ASSUME NEW w \in Workers, Delivery!Complete(w), work[w].at = k
        PROVE  Out(Delivery!Parts(k)[i], k)'
    <3>1. i < work[w].next
      BY <1>2, <2>2 DEF Delivery!Complete, Delivery!Announced, DeliveryTypes, HandType
    <3>2. Out(Delivery!Parts(k)[i], k)
      BY <2>2, <3>1 DEF PartsAreOut, Delivery!Complete
    <3> QED BY <1>1, <3>2
  <2>3. CASE job[k].status # "COMPLETED"
    <3>1. job[k] \in JobType
      BY DEF DeliveryTypes
    <3>2. ASSUME NEW w \in Workers, Delivery!Complete(w)
          PROVE  work[w].at = k
      BY <1>5, <2>3, <3>2 DEF Delivery!Complete, DeliveryTypes, JobType
    <3>3. ASSUME NEW w \in Workers, Delivery!Requeue(w)
          PROVE  FALSE
      BY <1>5, <2>3, <3>1, <3>3 DEF Delivery!Requeue, DeliveryTypes, JobType
    <3>4. ASSUME NEW w \in Workers, NEW j \in Jobs, Delivery!Claim(w, j)
          PROVE  FALSE
      BY <1>5, <2>3, <3>1, <3>4, SMTT(30) DEF Delivery!Claim, DeliveryTypes, JobType
    <3>5. ASSUME NEW j \in Jobs,
                 Delivery!Confirm(j) \/ Delivery!NextAttempt(j) \/ Delivery!LeaseEnds(j)
          PROVE  FALSE
      <4>1. CASE Delivery!Confirm(j)
        BY <1>5, <2>3, <3>1, <4>1 DEF Delivery!Confirm, DeliveryTypes, JobType
      <4>2. CASE Delivery!NextAttempt(j)
        BY <1>5, <2>3, <3>1, <4>2 DEF Delivery!NextAttempt, DeliveryTypes, JobType
      <4>3. CASE Delivery!LeaseEnds(j)
        BY <1>5, <2>3, <3>1, <4>3 DEF Delivery!LeaseEnds, DeliveryTypes, JobType
      <4> QED BY <3>5, <4>1, <4>2, <4>3
    <3>6. job' # job
      BY <1>5, <2>3
    <3> QED
      BY <2>2, <3>2, <3>3, <3>4, <3>5, <3>6
      DEF Delivery!Next, Delivery!Work, Delivery!vars, Delivery!Sends, Delivery!Refuses,
          Delivery!Skips, Delivery!HandsBack, Delivery!deliverConfirmations,
          Delivery!RoundEnds, Delivery!Announce, Delivery!Throws, Delivery!Crash
  <2> QED BY <2>1, <2>3
<1> QED BY <1>4, <1>5 DEF PartsAreOut

-----------------------------------------------------------------------------
(* Mails. *)
LEMMA MailsInit ==
  ASSUME Delivery!Init
  PROVE  MailsCounted
BY DEF Delivery!Init, MailsCounted

LEMMA MailsStep ==
  ASSUME DeliveryTypes, MailsCounted, [Delivery!Next]_(Delivery!vars)
  PROVE  MailsCounted'
<1>1. ASSUME NEW j \in Jobs,
             Delivery!Sends(j) \/ Delivery!Refuses(j) \/ Delivery!Skips(j) \/ Delivery!HandsBack(j)
      PROVE  MailsCounted'
  <2>1. SUFFICES ASSUME NEW i \in Jobs
                 PROVE  /\ sent'[i] <= 1 + stalls'[i]
                        /\ mail'[i] \in {"none", "waiting"} => sent'[i] <= stalls'[i]
    BY DEF MailsCounted
  <2>2. sent[i] \in Nat /\ stalls[i] \in Nat
    BY DEF DeliveryTypes
  <2>3. CASE i # j
    BY <1>1, <2>3
    DEF Delivery!Sends, Delivery!Refuses, Delivery!Skips, Delivery!HandsBack, MailsCounted,
        Delivery!provider, Delivery!outbox, DeliveryTypes
  <2>4. CASE i = j
    <3>1. mail[j] = "waiting" /\ sent[j] <= stalls[j]
      BY <1>1 DEF Delivery!Sends, Delivery!Refuses, Delivery!Skips, Delivery!HandsBack, MailsCounted
    <3>2. \/ sent'[j] = sent[j] + 1 /\ stalls'[j] = stalls[j] /\ mail'[j] = "done"
          \/ sent'[j] = sent[j] /\ stalls'[j] = stalls[j] /\ mail'[j] \in {"done", "failed"}
          \/ sent'[j] = sent[j] + 1 /\ stalls'[j] = stalls[j] + 1
      BY <1>1 DEF Delivery!Sends, Delivery!Refuses, Delivery!Skips, Delivery!HandsBack,
                  Delivery!provider, Delivery!outbox, DeliveryTypes
    <3> QED BY <2>2, <2>4, <3>1, <3>2
  <2> QED BY <2>3, <2>4
<1>2. ASSUME NEW w \in Workers, Delivery!Announce(w)
      PROVE  MailsCounted'
  <2>1. sent' = sent /\ stalls' = stalls
    BY <1>2 DEF Delivery!Announce, Delivery!provider
  <2>2. \A i \in Jobs : mail'[i] = mail[i] \/ mail[i] = "none"
    BY <1>2 DEF Delivery!Announce, Delivery!queueMail, DeliveryTypes
  <2> QED BY <2>1, <2>2 DEF MailsCounted
<1>3. CASE mail' = mail /\ sent' = sent /\ stalls' = stalls
  BY <1>3 DEF MailsCounted
<1> QED
  BY <1>1, <1>2, <1>3
  DEF Delivery!Next, Delivery!Work, Delivery!vars, Delivery!outbox, Delivery!provider,
      Delivery!Confirm, Delivery!NextAttempt, Delivery!LeaseEnds, Delivery!deliverConfirmations,
      Delivery!Claim, Delivery!RoundEnds, Delivery!Complete, Delivery!Requeue, Delivery!Throws,
      Delivery!Crash

-----------------------------------------------------------------------------
(* However often a confirmation is delivered, retried or left by a stopped   *)
(* worker, its buyer is sent one email, and one more for each time a         *)
(* processor died on it.                                                     *)
THEOREM MailsSentOnce ==
  None \notin Jobs /\ Delivery!Spec => []Delivery!MailedOnce
<1> DEFINE Inv == DeliveryTypes /\ HoldersAlone /\ SeenEarlier /\ MailsCounted
<1>1. CASE None \notin Jobs
  <2>1. Delivery!Init => Inv
    BY <1>1, DeliveryTypeInit, HoldersInit, MailsInit
  <2>2. Inv /\ [Delivery!Next]_(Delivery!vars) => Inv'
    BY <1>1, DeliveryTypeStep, HoldersStep, SeenEarlierStep, MailsStep
  <2>3. Inv => Delivery!MailedOnce
    BY DEF MailsCounted, Delivery!MailedOnce
  <2> QED BY <2>1, <2>2, <2>3, PTL DEF Delivery!Spec
<1> QED BY <1>1

(* Workers of several servers never deliver one confirmation together, and   *)
(* none delivers a completed one, unless a worker outlives its lease.        *)
THEOREM DeliveredByOne ==
  None \notin Jobs /\ Delivery!Spec => []Delivery!OneDeliverer
<1> DEFINE Inv == DeliveryTypes /\ HoldersAlone /\ SeenEarlier
<1>1. CASE None \notin Jobs
  <2>1. Delivery!Init => Inv
    BY <1>1, DeliveryTypeInit, HoldersInit
  <2>2. Inv /\ [Delivery!Next]_(Delivery!vars) => Inv'
    BY <1>1, DeliveryTypeStep, HoldersStep, SeenEarlierStep
  <2>3. ASSUME Inv, NEW j \in Jobs \ overrun
        PROVE  LET holders == {w \in Workers : work[w].at = j}
               IN  Delivery!Cardinality(holders) <= (IF job[j].status = "PROCESSING" THEN 1 ELSE 0)
    <3> DEFINE holders == {w \in Workers : work[w].at = j}
    <3>1. Delivery!Cardinality(holders) = Cardinality(holders)
      BY DEF Delivery!Cardinality, Cardinality
    <3>2. CASE holders = {}
      <4>1. Delivery!Cardinality(holders) = 0
        BY <3>1, <3>2, FS_EmptySet
      <4> HIDE DEF holders
      <4>2. Delivery!Cardinality(holders) <= 0 /\ Delivery!Cardinality(holders) <= 1
        BY <4>1
      <4> QED BY <4>2 DEF holders
    <3>3. CASE holders # {}
      <4>1. PICK w \in Workers : work[w].at = j
        BY <3>3
      <4>2. holders = {w}
        BY <2>3, <4>1 DEF HoldersAlone, InHand
      <4>3. Delivery!Cardinality(holders) = 1
        BY <3>1, <4>2, FS_Singleton
      <4>4. job[j].status = "PROCESSING"
        BY <2>3, <4>1 DEF HoldersAlone, InHand
      <4> HIDE DEF holders
      <4>5. Delivery!Cardinality(holders) <= 1
        BY <4>3
      <4> QED BY <4>4, <4>5 DEF holders
    <3> QED BY <3>2, <3>3
  <2>4. Inv => Delivery!OneDeliverer
    BY <2>3 DEF Delivery!OneDeliverer
  <2> QED BY <2>1, <2>2, <2>4, PTL DEF Delivery!Spec
<1> QED BY <1>1

(* A confirmation is completed only when the feed, the organiser and the     *)
(* mail queue have it, whatever failed or was tried twice before.            *)
THEOREM CompletedWasDelivered ==
  /\ None \notin Jobs /\ Kind \in [Jobs -> {"TICKET", "REGISTRATION", "SPONSORED"}]
  /\ Delivery!Spec
  => []Delivery!CompletedIsDelivered
<1> DEFINE Inv == DeliveryTypes /\ HoldersAlone /\ SeenEarlier /\ PartsAreOut
<1>1. CASE /\ None \notin Jobs
           /\ Kind \in [Jobs -> {"TICKET", "REGISTRATION", "SPONSORED"}]
  <2>1. Delivery!Init => Inv
    BY <1>1, DeliveryTypeInit, HoldersInit, PartsInit
  <2>2. Inv /\ [Delivery!Next]_(Delivery!vars) => Inv'
    BY <1>1, DeliveryTypeStep, HoldersStep, SeenEarlierStep, PartsStep
  <2>3. ASSUME Inv, NEW j \in Jobs, job[j].status = "COMPLETED"
        PROVE  /\ fed[j] > 0 /\ noticed[j] > 0
               /\ j \in Addressed /\ Kind[j] # "SPONSORED" => mail[j] # "none"
    <3>1. \A i \in DOMAIN Delivery!Parts(j) : Out(Delivery!Parts(j)[i], j)
      BY <2>3 DEF PartsAreOut
    <3>2. Out("feed", j) /\ Out("notice", j) /\ (Kind[j] # "SPONSORED" => Out("mail", j))
      BY <1>1, <3>1, PartsFacts
    <3> QED BY <3>2 DEF Out
  <2>4. Inv => Delivery!CompletedIsDelivered
    BY <2>3 DEF Delivery!CompletedIsDelivered, Delivery!explainFeatureState
  <2> QED BY <2>1, <2>2, <2>4, PTL DEF Delivery!Spec
<1> QED BY <1>1

-----------------------------------------------------------------------------
(* Each claim puts a part out once at most: what is out and what the workers *)
(* at the job have still to put out is covered by its claims.                *)
Owes(part, j) ==
  {w \in Workers : /\ work[w].step = "deliver" /\ work[w].at = j
                   /\ \E i \in DOMAIN Delivery!Parts(j) :
                        i >= work[w].next /\ Delivery!Parts(j)[i] = part}
Covered(part, j, n) == n + Cardinality(Owes(part, j)) <= job[j].attempts
ClaimsCounted ==
  \A j \in Jobs : /\ Covered("feed", j, fed[j]) /\ Covered("notice", j, noticed[j])
                  /\ job[j].attempts <= MaxClaims /\ stalls[j] <= MaxStalls

LEMMA PartsOnce ==
  ASSUME Kind \in [Jobs -> {"TICKET", "REGISTRATION", "SPONSORED"}], NEW j \in Jobs
  PROVE  \A i, k \in DOMAIN Delivery!Parts(j) :
           i \in Int /\ (Delivery!Parts(j)[i] = Delivery!Parts(j)[k] => i = k)
<1> USE DEF Delivery!notifyPurchase, Delivery!notifyRegistration, Delivery!recordSponsoredRegistration
<1>1. CASE Kind[j] = "TICKET"
  <2>1. Delivery!Parts(j) = <<"feed", "notice", "mail">>
    BY <1>1 DEF Delivery!Parts
  <2> QED BY <2>1
<1>2. CASE Kind[j] = "REGISTRATION"
  <2>1. Delivery!Parts(j) = <<"notice", "feed", "mail">>
    BY <1>2 DEF Delivery!Parts
  <2> QED BY <2>1
<1>3. CASE Kind[j] = "SPONSORED"
  <2>1. Delivery!Parts(j) = <<"notice", "feed">>
    BY <1>3 DEF Delivery!Parts
  <2> QED BY <1>3, <2>1
<1> QED BY <1>1, <1>2, <1>3

LEMMA PartCounted ==
  ASSUME IsFiniteSet(Workers), Kind \in [Jobs -> {"TICKET", "REGISTRATION", "SPONSORED"}],
         DeliveryTypes, HoldersAlone, [Delivery!Next]_(Delivery!vars),
         NEW part, NEW j \in Jobs, NEW n \in Nat, NEW m \in Nat,
         Covered(part, j, n),
         \/ m = n
         \/ /\ m = n + 1
            /\ \E w \in Workers : /\ Delivery!Announce(w) /\ work[w].at = j
                                  /\ Delivery!Parts(j)[work[w].next] = part
                                  /\ work[w].next \in DOMAIN Delivery!Parts(j),
         \A w \in Workers : TakesUp(w, j) => m = n
  PROVE  Covered(part, j, m)'
<1>o. PICK old : old = Owes(part, j)
  OBVIOUS
<1>n. PICK new : new = Owes(part, j)'
  OBVIOUS
<1>1. /\ \A w : w \in old <=> /\ w \in Workers /\ work[w].step = "deliver" /\ work[w].at = j
                             /\ \E i \in DOMAIN Delivery!Parts(j) :
                                  i >= work[w].next /\ Delivery!Parts(j)[i] = part
      /\ \A w : w \in new <=> /\ w \in Workers /\ work'[w].step = "deliver" /\ work'[w].at = j
                             /\ \E i \in DOMAIN Delivery!Parts(j) :
                                  i >= work'[w].next /\ Delivery!Parts(j)[i] = part
  BY <1>o, <1>n DEF Owes, Delivery!Parts
<1>2. /\ job[j].attempts \in Nat /\ job'[j].attempts \in Nat
      /\ job[j].attempts <= job'[j].attempts
  <2>1. DeliveryTypes'
    BY DeliveryTypeStep
  <2>2. job[j] \in JobType /\ job'[j] \in JobType
    BY <2>1 DEF DeliveryTypes
  <2>3. MovesOn(job[j], job'[j])
    BY RowsMoveOn
  <2> QED BY <2>2, <2>3 DEF MovesOn, JobType
<1>a. PICK before \in Nat, after \in Nat : before = job[j].attempts /\ after = job'[j].attempts
  BY <1>2
<1>3. IsFiniteSet(old) /\ old \subseteq Workers /\ new \subseteq Workers
  BY <1>1, FS_Subset
<1>c. PICK size \in Nat : size = Cardinality(old)
  BY <1>3, FS_CardinalityType
<1>4. n + size <= before /\ before <= after
  BY <1>2, <1>a, <1>c, <1>o DEF Covered
<1>5. ASSUME NEW w \in new, ~ \E i \in Jobs : TakesUp(w, i)
      PROVE  w \in old
  <2>1. w \in Workers /\ work'[w].step = "deliver"
    BY <1>1
  <2>2. work'[w] = work[w] \/ Delivery!Announce(w)
    BY <1>5, <2>1, HandsChange
  <2>3. CASE work'[w] = work[w]
    BY <1>1, <2>3
  <2>4. CASE Delivery!Announce(w)
    <3>1. work[w] \in HandType
      BY <2>1 DEF DeliveryTypes
    <3>2. /\ work'[w].at = work[w].at /\ work'[w].next = work[w].next + 1
          /\ work[w].step = "deliver" /\ work[w].next \in Nat
      BY <2>1, <2>4, <3>1 DEF Delivery!Announce, DeliveryTypes, HandType
    <3>3. PICK i \in DOMAIN Delivery!Parts(j) :
            i >= work'[w].next /\ Delivery!Parts(j)[i] = part
      BY <1>1
    <3>4. i >= work[w].next
      BY <3>2, <3>3, PartsOnce
    <3> QED BY <1>1, <2>1, <3>2, <3>3, <3>4
  <2> QED BY <2>2, <2>3, <2>4
<1>6. CASE \E w \in Workers : TakesUp(w, j)
  <2>1. PICK w \in Workers : TakesUp(w, j)
    BY <1>6
  <2>2. new \subseteq old \cup {w}
    BY <1>1, <2>1 DEF TakesUp
  <2>3. Cardinality(new) \in Nat /\ Cardinality(new) <= size + 1
    BY <1>3, <1>c, <2>2, OneMoreCount
  <2>4. m = n /\ after = before + 1
    BY <1>a, <2>1 DEF TakesUp
  <2>5. m + Cardinality(new) <= after
    BY <1>4, <2>3, <2>4
  <2> QED BY <1>a, <1>n, <2>5 DEF Covered
<1>7. CASE ~ \E w \in Workers : TakesUp(w, j)
  <2>1. ASSUME NEW w \in new, NEW i \in Jobs, TakesUp(w, i)
        PROVE  FALSE
    BY <1>1, <1>7, <2>1 DEF TakesUp
  <2>2. new \subseteq old
    BY <1>5, <2>1
  <2>3. Cardinality(new) \in Nat /\ Cardinality(new) <= size
    BY <1>3, <1>c, <2>2, SubsetCount
  <2>4. CASE m = n
    <3>1. m + Cardinality(new) <= after
      BY <1>4, <2>3, <2>4
    <3> QED BY <1>a, <1>n, <3>1 DEF Covered
  <2>5. CASE /\ m = n + 1
             /\ \E w \in Workers : /\ Delivery!Announce(w) /\ work[w].at = j
                                   /\ Delivery!Parts(j)[work[w].next] = part
                                   /\ work[w].next \in DOMAIN Delivery!Parts(j)
    <3>1. PICK w \in Workers : /\ Delivery!Announce(w) /\ work[w].at = j
                               /\ Delivery!Parts(j)[work[w].next] = part
                               /\ work[w].next \in DOMAIN Delivery!Parts(j)
      BY <2>5
    <3>2. work[w] \in HandType
      BY DEF DeliveryTypes
    <3>3. /\ work'[w].next = work[w].next + 1 /\ work[w].step = "deliver"
          /\ work[w].next \in Nat
      BY <3>1, <3>2 DEF Delivery!Announce, DeliveryTypes, HandType
    <3>4. w \in old
      BY <1>1, <3>1, <3>3
    <3>5. w \notin new
      BY <1>1, <3>1, <3>3, PartsOnce
    <3>6. new \subseteq old \ {w}
      BY <2>2, <3>5
    <3>7. IsFiniteSet(old \ {w}) /\ Cardinality(old \ {w}) = size - 1
      BY <1>3, <1>c, <3>4, FS_RemoveElement
    <3>8. Cardinality(new) <= size - 1
      BY <3>6, <3>7, SubsetCount
    <3>9. m + Cardinality(new) <= after
      BY <1>4, <2>3, <2>5, <3>8
    <3> QED BY <1>a, <1>n, <3>9 DEF Covered
  <2> QED BY <2>4, <2>5
<1> QED BY <1>6, <1>7

LEMMA ClaimsInit ==
  ASSUME MaxClaims \in Nat, MaxStalls \in Nat, Delivery!Init
  PROVE  ClaimsCounted
<1> SUFFICES ASSUME NEW j \in Jobs
             PROVE  /\ Covered("feed", j, fed[j]) /\ Covered("notice", j, noticed[j])
                    /\ job[j].attempts <= MaxClaims /\ stalls[j] <= MaxStalls
  BY DEF ClaimsCounted
<1>1. /\ job[j].attempts = 0 /\ fed[j] = 0 /\ noticed[j] = 0 /\ stalls[j] = 0
      /\ \A w \in Workers : work[w].step = "idle"
  BY DEF Delivery!Init, Delivery!NoJob, Delivery!Resting
<1>2. \A part : Owes(part, j) = {}
  BY <1>1 DEF Owes
<1>3. Cardinality({}) = 0
  BY FS_EmptySet
<1>4. Covered("feed", j, fed[j]) /\ Covered("notice", j, noticed[j])
  BY <1>1, <1>2, <1>3 DEF Covered
<1> QED BY <1>1, <1>4

LEMMA BoundsStep ==
  ASSUME DeliveryTypes, [Delivery!Next]_(Delivery!vars), MaxClaims \in Nat, MaxStalls \in Nat,
         NEW j \in Jobs, job[j].attempts <= MaxClaims, stalls[j] <= MaxStalls
  PROVE  job'[j].attempts <= MaxClaims /\ stalls'[j] <= MaxStalls
<1>1. job[j] \in JobType /\ stalls[j] \in Nat
  BY DEF DeliveryTypes
<1>2. job'[j].attempts <= MaxClaims
  <2>1. ASSUME NEW w \in Workers, NEW i \in Jobs, Delivery!Claim(w, i)
        PROVE  job'[j].attempts <= MaxClaims
    <3>1. job[i] \in JobType
      BY DEF DeliveryTypes
    <3>2. \/ job' = job
          \/ job' = [job EXCEPT ![i] =
               [job[i] EXCEPT !.status = "PROCESSING", !.attempts = @ + 1, !.lease = "live"]]
      BY <2>1, <3>1 DEF Delivery!Claim, DeliveryTypes, JobType
    <3>3. job[i].attempts < MaxClaims
      BY <2>1 DEF Delivery!Claim
    <3>4. CASE job'[j] = [job[i] EXCEPT !.status = "PROCESSING", !.attempts = @ + 1, !.lease = "live"]
      BY <3>1, <3>3, <3>4 DEF JobType
    <3>5. job'[j] = job[j] \/ job'[j] = [job[i] EXCEPT !.status = "PROCESSING", !.attempts = @ + 1, !.lease = "live"]
      BY <3>2 DEF DeliveryTypes
    <3> QED BY <3>4, <3>5
  <2>2. ASSUME NEW i \in Jobs,
               Delivery!Confirm(i) \/ Delivery!NextAttempt(i) \/ Delivery!LeaseEnds(i)
        PROVE  job'[j].attempts = job[j].attempts
    <3>1. CASE Delivery!Confirm(i)
      BY <1>1, <3>1 DEF Delivery!Confirm, DeliveryTypes, JobType
    <3>2. CASE Delivery!NextAttempt(i)
      BY <1>1, <3>2 DEF Delivery!NextAttempt, DeliveryTypes, JobType
    <3>3. CASE Delivery!LeaseEnds(i)
      BY <1>1, <3>3 DEF Delivery!LeaseEnds, DeliveryTypes, JobType
    <3> QED BY <2>2, <3>1, <3>2, <3>3
  <2>3. ASSUME NEW w \in Workers, Delivery!Complete(w) \/ Delivery!Requeue(w)
        PROVE  job'[j].attempts = job[j].attempts
    <3>1. CASE j = work[w].at
      BY <1>1, <2>3, <3>1 DEF Delivery!Complete, Delivery!Requeue, DeliveryTypes, JobType
    <3>2. CASE j # work[w].at
      BY <2>3, <3>2 DEF Delivery!Complete, Delivery!Requeue, DeliveryTypes
    <3> QED BY <3>1, <3>2
  <2>4. CASE job' = job
    BY <2>4
  <2> QED
    BY <2>1, <2>2, <2>3, <2>4
    DEF Delivery!Next, Delivery!Work, Delivery!vars, Delivery!Sends, Delivery!Refuses,
        Delivery!Skips, Delivery!HandsBack, Delivery!deliverConfirmations,
        Delivery!RoundEnds, Delivery!Announce, Delivery!Throws, Delivery!Crash
<1>3. stalls'[j] <= MaxStalls
  <2>1. ASSUME NEW i \in Jobs, Delivery!HandsBack(i)
        PROVE  stalls'[j] <= MaxStalls
    BY <1>1, <2>1 DEF Delivery!HandsBack, DeliveryTypes
  <2>2. CASE stalls' = stalls
    BY <2>2
  <2> QED
    BY <2>1, <2>2
    DEF Delivery!Next, Delivery!Work, Delivery!vars, Delivery!provider, Delivery!Confirm,
        Delivery!NextAttempt, Delivery!LeaseEnds, Delivery!Sends, Delivery!Refuses,
        Delivery!Skips, Delivery!deliverConfirmations, Delivery!Claim, Delivery!RoundEnds,
        Delivery!Announce, Delivery!Complete, Delivery!Requeue, Delivery!Throws, Delivery!Crash
<1> QED BY <1>2, <1>3

LEMMA ClaimsStep ==
  ASSUME IsFiniteSet(Workers), Kind \in [Jobs -> {"TICKET", "REGISTRATION", "SPONSORED"}],
         MaxClaims \in Nat, MaxStalls \in Nat, DeliveryTypes, HoldersAlone, ClaimsCounted,
         [Delivery!Next]_(Delivery!vars)
  PROVE  ClaimsCounted'
<1> SUFFICES ASSUME NEW j \in Jobs
             PROVE  /\ Covered("feed", j, fed[j])' /\ Covered("notice", j, noticed[j])'
                    /\ job'[j].attempts <= MaxClaims /\ stalls'[j] <= MaxStalls
  BY DEF ClaimsCounted
<1>f. PICK n \in Nat, m \in Nat : n = fed[j] /\ m = fed'[j]
  BY DeliveryTypeStep DEF DeliveryTypes
<1>g. PICK k \in Nat, l \in Nat : k = noticed[j] /\ l = noticed'[j]
  BY DeliveryTypeStep DEF DeliveryTypes
<1>1. /\ Covered("feed", j, n) /\ Covered("notice", j, k)
      /\ job[j].attempts <= MaxClaims /\ stalls[j] <= MaxStalls
  BY <1>f, <1>g DEF ClaimsCounted
<1>2. ASSUME NEW w \in Workers, Delivery!Announce(w)
      PROVE  /\ m = n \/ (m = n + 1 /\ work[w].at = j /\ Delivery!Parts(j)[work[w].next] = "feed")
             /\ l = k \/ (l = k + 1 /\ work[w].at = j /\ Delivery!Parts(j)[work[w].next] = "notice")
             /\ work[w].at = j => work[w].next \in DOMAIN Delivery!Parts(j)
  <2>1. /\ fed' = fed \/ (/\ fed' = [fed EXCEPT ![work[w].at] = fed[work[w].at] + 1]
                          /\ Delivery!Parts(work[w].at)[work[w].next] = "feed")
        /\ noticed' = noticed \/ (/\ noticed' = [noticed EXCEPT ![work[w].at] = noticed[work[w].at] + 1]
                                  /\ Delivery!Parts(work[w].at)[work[w].next] = "notice")
    BY <1>2 DEF Delivery!Announce
  <2>2. m = n \/ (m = n + 1 /\ work[w].at = j /\ Delivery!Parts(j)[work[w].next] = "feed")
    BY <1>f, <2>1 DEF DeliveryTypes
  <2>3. l = k \/ (l = k + 1 /\ work[w].at = j /\ Delivery!Parts(j)[work[w].next] = "notice")
    BY <1>g, <2>1 DEF DeliveryTypes
  <2>4. ASSUME work[w].at = j
        PROVE  work[w].next \in DOMAIN Delivery!Parts(j)
    <3>1. work[w].next \in Nat \ {0} /\ work[w].next <= Len(Delivery!Parts(j))
      BY <1>2, <2>4 DEF Delivery!Announce, DeliveryTypes, HandType
    <3>2. Delivery!Parts(j) \in Seq({"feed", "notice", "mail"})
      BY PartsFacts
    <3> QED BY <3>1, <3>2
  <2> QED BY <2>2, <2>3, <2>4
<1>3. (\E w \in Workers : Delivery!Announce(w)) \/ (fed' = fed /\ noticed' = noticed)
  BY DEF Delivery!Next, Delivery!Work, Delivery!vars, Delivery!outbox, Delivery!Confirm,
         Delivery!NextAttempt, Delivery!LeaseEnds, Delivery!Sends, Delivery!Refuses,
         Delivery!Skips, Delivery!HandsBack, Delivery!deliverConfirmations, Delivery!Claim,
         Delivery!RoundEnds, Delivery!Complete, Delivery!Requeue, Delivery!Throws, Delivery!Crash
<1>4. /\ \/ m = n
         \/ /\ m = n + 1
            /\ \E w \in Workers : /\ Delivery!Announce(w) /\ work[w].at = j
                                  /\ Delivery!Parts(j)[work[w].next] = "feed"
                                  /\ work[w].next \in DOMAIN Delivery!Parts(j)
      /\ \/ l = k
         \/ /\ l = k + 1
            /\ \E w \in Workers : /\ Delivery!Announce(w) /\ work[w].at = j
                                  /\ Delivery!Parts(j)[work[w].next] = "notice"
                                  /\ work[w].next \in DOMAIN Delivery!Parts(j)
  <2>1. CASE fed' = fed /\ noticed' = noticed
    BY <1>f, <1>g, <2>1
  <2>2. CASE \E w \in Workers : Delivery!Announce(w)
    BY <1>2, <2>2
  <2> QED BY <1>3, <2>1, <2>2
<1>5. \A w \in Workers : TakesUp(w, j) => m = n /\ l = k
  BY <1>f, <1>g DEF TakesUp
<1>6. Covered("feed", j, m)' /\ Covered("notice", j, l)'
  BY <1>1, <1>4, <1>5, PartCounted
<1>7. job'[j].attempts <= MaxClaims /\ stalls'[j] <= MaxStalls
  BY <1>1, BoundsStep
<1>8. Covered("feed", j, fed[j])' /\ Covered("notice", j, noticed[j])'
  BY <1>f, <1>g, <1>6 DEF Covered, Owes
<1> QED BY <1>7, <1>8

(* There is work of the three kinds, for finitely many servers.               *)
DeliveryAssumption ==
  /\ IsFiniteSet(Workers) /\ None \notin Jobs
  /\ Kind \in [Jobs -> {"TICKET", "REGISTRATION", "SPONSORED"}]
  /\ MaxClaims \in Nat /\ MaxStalls \in Nat

(* Every variable of the confirmations keeps its type.  That a job is put     *)
(* into the feed and before the organiser once per claim at most is part of   *)
(* it: no worker announces a part twice in one round.                         *)
THEOREM DeliveryTyped == DeliveryAssumption /\ Delivery!Spec => []Delivery!TypeOK
<1> DEFINE Inv == DeliveryTypes /\ HoldersAlone /\ SeenEarlier /\ ClaimsCounted
<1>1. CASE DeliveryAssumption
  <2> USE <1>1 DEF DeliveryAssumption
  <2>1. Delivery!Init => Inv
    BY DeliveryTypeInit, HoldersInit, ClaimsInit
  <2>2. Inv /\ [Delivery!Next]_(Delivery!vars) => Inv'
    BY DeliveryTypeStep, HoldersStep, SeenEarlierStep, ClaimsStep
  <2>3. ASSUME Inv
        PROVE  Delivery!TypeOK
    <3>1. ASSUME NEW j \in Jobs
          PROVE  /\ job[j].attempts \in 0..MaxClaims /\ stalls[j] \in 0..MaxStalls
                 /\ fed[j] \in 0..MaxClaims /\ noticed[j] \in 0..MaxClaims
      <4>1. /\ job[j] \in JobType /\ fed[j] \in Nat /\ noticed[j] \in Nat /\ stalls[j] \in Nat
            /\ job[j].attempts <= MaxClaims /\ stalls[j] <= MaxStalls
            /\ fed[j] + Cardinality(Owes("feed", j)) <= job[j].attempts
            /\ noticed[j] + Cardinality(Owes("notice", j)) <= job[j].attempts
        BY <2>3 DEF DeliveryTypes, ClaimsCounted, Covered
      <4>2. Cardinality(Owes("feed", j)) \in Nat /\ Cardinality(Owes("notice", j)) \in Nat
        <5>1. Owes("feed", j) \subseteq Workers /\ Owes("notice", j) \subseteq Workers
          BY DEF Owes
        <5> QED BY <5>1, SubsetCount
      <4> QED BY <4>1, <4>2 DEF JobType
    <3>2. job \in [Jobs -> [status : {"NONE", "PENDING", "PROCESSING", "COMPLETED"},
                            attempts : 0..MaxClaims,
                            lease : {"none", "live", "over"}, due : BOOLEAN]]
      BY <2>3, <3>1 DEF DeliveryTypes, JobType
    <3>3. fed \in [Jobs -> 0..MaxClaims] /\ noticed \in [Jobs -> 0..MaxClaims]
          /\ stalls \in [Jobs -> 0..MaxStalls]
      BY <2>3, <3>1 DEF DeliveryTypes
    <3> QED BY <2>3, <3>2, <3>3 DEF DeliveryTypes, HandType, Delivery!TypeOK
  <2>4. Inv => Delivery!TypeOK
    BY <2>3
  <2> QED BY <2>1, <2>2, <2>4, PTL DEF Delivery!Spec
<1> QED BY <1>1

(* All that the runs check of the confirmations, for any number of jobs,      *)
(* workers and claims.                                                        *)
THEOREM ConfirmationsCorrect ==
  DeliveryAssumption /\ Delivery!Spec => []ConfirmationsSafe
BY DeliveryTyped, CompletedWasDelivered, DeliveredByOne, MailsSentOnce, PTL
   DEF DeliveryAssumption, Delivery!ConfirmationsSafe, ConfirmationsSafe
=============================================================================
