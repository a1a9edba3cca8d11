--------------------------- MODULE PeopleProofs -----------------------------
(***************************************************************************)
(* Who people are to the system, and what they give: the theorems about    *)
(* Donations, Dashboard, Kyc and Accounts, in this order.  Donations is    *)
(* extended; the others are instances, over variables declared with them.  *)
(*                                                                         *)
(* Donations: one donation per payment, processed events are    *)
(* settled, and a key names one request, for any number of donors,         *)
(* payments, keys, requests and redeliveries.                              *)
(*                                                                         *)
(* A call acts on what it has read, so the invariant says what a call in   *)
(* flight may rely on (CallsRelyOn): nothing it has seen of a payment can  *)
(* be taken back.  Money that was collected stays collected, a payment     *)
(* that is settled stays settled, and a payment's request never changes.   *)
(***************************************************************************)
EXTENDS Donations, FiniteSetTheorems, SequenceTheorems, TLAPS

Plans == {"collect", "donate", "tell", "record", "processed"}
Settled == {"SUCCESS", "FAILED"}
Initiating ==
  [op : {"initiate"}, donor : Donors, key : Keys \cup {NoKey}, amount : Amounts,
   channel : Channels, provider : Providers]
Looking == [op : {"webhook", "fail"}, payment : Payments]
Completing == [op : Plans, payment : Payments, event : SUBSET EventKeys]
WorkType == {Idle} \cup Initiating \cup Looking \cup Completing
ReplyType == [donor : Donors, key : Keys \cup {NoKey}, amount : Amounts, payment : Payments]

(* Types, without the bound on deliveries that only the inbox has.           *)
RowTypes ==
  /\ accepting \in BOOLEAN
  /\ payment \in [Payments -> PaymentType \cup {Unborn}]
  /\ bank \in [Payments -> {"unpaid", "failed"} \cup Collected]
  /\ donation \in Seq(DonationType)
  /\ inbox \in [EventKeys -> [attempts : Int, processed : BOOLEAN]]
  /\ told \in [Payments -> Nat]
  /\ reply \subseteq ReplyType
  /\ work \in [Calls -> WorkType]

(* What a call that remembers w may rely on.                                 *)
ReliesOn(w) ==
  /\ w.op = "initiate" => (w.channel = "WEB" <=> w.key # NoKey)
  /\ w.op \in Plans \cup {"webhook", "fail"} => Exists(w.payment)
  /\ w.op \in Plans =>
       /\ bank[w.payment] \in Collected
       /\ \A k \in w.event : k[1] = w.payment
  /\ w.op = "processed" => payment[w.payment].status \in Settled
  /\ w.op \in {"tell", "record"} => Given(w.payment) # {}
CallsRelyOn == \A c \in Calls : ReliesOn(work[c])

(* Donations of different payments, all of money the provider holds.         *)
DonationsDiffer ==
  /\ \A i, j \in DOMAIN donation : donation[i].payment = donation[j].payment => i = j
  /\ \A i \in DOMAIN donation : bank[donation[i].payment] \in Collected

(* Only the call that has created a donation tells of it.                    *)
ToldOnce ==
  /\ \A p \in Payments : told[p] # 0 => told[p] = 1 /\ Given(p) # {}
  /\ \A c \in Calls : work[c].op = "tell" =>
       /\ told[work[c].payment] = 0
       /\ \A d \in Calls :
            work[d].op = "tell" /\ work[d].payment = work[c].payment => c = d

(* A key of a donor is of one payment, and answers repeat its request.       *)
Answered(r) ==
  /\ r.key # NoKey /\ Exists(r.payment)
  /\ payment[r.payment].donor = r.donor
  /\ payment[r.payment].key = r.key
  /\ payment[r.payment].amount = r.amount
OneKeyEach ==
  \A p, q \in Payments :
    /\ Exists(p) /\ Exists(q)
    /\ payment[p].donor = payment[q].donor /\ payment[p].key = payment[q].key
    /\ payment[p].key # NoKey
    => p = q
KeysDiffer == OneKeyEach /\ \A r \in reply : Answered(r)

DonationInv ==
  RowTypes /\ CallsRelyOn /\ DonationsDiffer /\ ToldOnce /\ ProcessedIsSettled /\ KeysDiffer

-----------------------------------------------------------------------------
(* Types. *)
LEMMA KindsOfWork ==
  ASSUME NEW w \in WorkType
  PROVE  /\ w = Idle => w.op = "idle"
         /\ w.op = "initiate" => w \in Initiating
         /\ w.op \in {"webhook", "fail"} => w \in Looking
         /\ w.op \in Plans => w \in Completing
         /\ w.op \in {"idle", "initiate", "webhook", "fail"} \cup Plans
BY DEF WorkType, Idle, Initiating, Looking, Completing, Plans

LEMMA PutType ==
  ASSUME NEW c \in Calls, NEW w \in WorkType, work \in [Calls -> WorkType], Put(c, w)
  PROVE  work' \in [Calls -> WorkType]
BY DEF Put

LEMMA FinishType ==
  ASSUME NEW c \in Calls, work \in [Calls -> WorkType], Finish(c)
  PROVE  work' \in [Calls -> WorkType]
BY PutType DEF Finish, WorkType

LEMMA RegisterType ==
  ASSUME NEW k \in EventKeys, Register(k),
         inbox \in [EventKeys -> [attempts : Int, processed : BOOLEAN]]
  PROVE  /\ inbox' \in [EventKeys -> [attempts : Int, processed : BOOLEAN]]
         /\ \A e \in EventKeys : inbox'[e].processed = inbox[e].processed
BY DEF Register

LEMMA TypeInit == Init => RowTypes
<1> SUFFICES ASSUME Init PROVE RowTypes
  OBVIOUS
<1>1. donation \in Seq(DonationType)
  BY DEF Init
<1> QED BY <1>1 DEF Init, RowTypes, Collected, WorkType, Unborn

LEMMA TypeStep ==
  ASSUME RowTypes, CallsRelyOn, [Next]_vars
  PROVE  RowTypes'
<1> DEFINE Inboxes == [EventKeys -> [attempts : Int, processed : BOOLEAN]]
<1>1. ASSUME NEW c \in Calls, NEW u \in Donors, NEW k \in Keys \cup {NoKey}, NEW a \in Amounts,
             NEW ch \in Channels, NEW pr \in Providers, InitiateRead(c, u, k, a, ch, pr)
      PROVE  RowTypes'
  <2>1. CASE \E p \in Replayed(u, k) : Answer(c, u, k, a, p)
    <3>1. PICK p \in Replayed(u, k) : Answer(c, u, k, a, p)
      BY <2>1
    <3>2. p \in Payments
      BY DEF Replayed
    <3>3. [donor |-> u, key |-> k, amount |-> a, payment |-> p] \in ReplyType
      BY <3>2 DEF ReplyType
    <3>4. work' \in [Calls -> WorkType]
      BY <3>1, FinishType DEF Answer, RowTypes
    <3> QED BY <1>1, <3>1, <3>3, <3>4 DEF InitiateRead, Answer, RowTypes
  <2>2. CASE /\ Put(c, [op |-> "initiate", donor |-> u, key |-> k, amount |-> a,
                        channel |-> ch, provider |-> pr])
             /\ UNCHANGED reply
    <3>1. [op |-> "initiate", donor |-> u, key |-> k, amount |-> a,
           channel |-> ch, provider |-> pr] \in WorkType
      BY DEF WorkType, Initiating
    <3>2. work' \in [Calls -> WorkType]
      BY <2>2, <3>1, PutType DEF RowTypes
    <3> QED BY <1>1, <2>2, <3>2 DEF InitiateRead, RowTypes
  <2> QED BY <1>1, <2>1, <2>2 DEF InitiateRead
<1>2. ASSUME NEW c \in Calls, InitiateCreate(c)
      PROVE  RowTypes'
  <2>1. work[c] \in Initiating
    BY <1>2, KindsOfWork DEF InitiateCreate, RowTypes
  <2>2. work' \in [Calls -> WorkType]
    BY <1>2, FinishType DEF InitiateCreate, RowTypes, Answer
  <2>3. \A p \in Payments :
          [donor |-> work[c].donor, key |-> work[c].key, amount |-> work[c].amount,
           payment |-> p] \in ReplyType
    BY <2>1 DEF ReplyType, Initiating
  <2>4. reply' \subseteq ReplyType
    BY <1>2, <2>3 DEF InitiateCreate, Answer, RowTypes, Replayed
  <2>5. payment' \in [Payments -> PaymentType \cup {Unborn}]
    <3>1. [donor |-> work[c].donor, key |-> work[c].key, amount |-> work[c].amount,
           channel |-> work[c].channel, provider |-> work[c].provider, link |-> FALSE,
           status |-> IF work[c].provider = "ALAT_TRANSFER" THEN "AWAITING_TRANSFER"
                      ELSE "PENDING"] \in PaymentType
      BY <2>1 DEF PaymentType, Initiating, Open
    <3> QED BY <1>2, <3>1 DEF InitiateCreate, RowTypes
  <2> QED BY <1>2, <2>2, <2>4, <2>5 DEF InitiateCreate, RowTypes
<1>3. ASSUME NEW p \in Payments, Initialized(p)
      PROVE  RowTypes'
  <2>1. payment[p] \in PaymentType
    BY <1>3 DEF Initialized, Exists, RowTypes
  <2>2. [payment[p] EXCEPT !.link = TRUE] \in PaymentType
    BY <2>1 DEF PaymentType
  <2> QED BY <1>3, <2>2 DEF Initialized, RowTypes
<1>4. ASSUME NEW p \in Payments, Pay(p) \/ Decline(p)
      PROVE  RowTypes'
  BY <1>4 DEF Pay, Decline, RowTypes, Collected
<1>5. ASSUME NEW c \in Calls, NEW p \in Payments, WebhookRead(c, p)
      PROVE  RowTypes'
  <2>1. [op |-> "webhook", payment |-> p] \in WorkType
    BY DEF WorkType, Looking
  <2>2. work' \in [Calls -> WorkType]
    BY <1>5, <2>1, PutType DEF WebhookRead, RowTypes
  <2>3. inbox' \in Inboxes
    <3>1. CASE ProcessAll(p)
      BY <3>1 DEF ProcessAll, RowTypes
    <3>2. CASE UNCHANGED inbox
      BY <3>2 DEF RowTypes
    <3> QED BY <1>5, <3>1, <3>2 DEF WebhookRead
  <2> QED BY <1>5, <2>2, <2>3 DEF WebhookRead, RowTypes
<1>6. ASSUME NEW c \in Calls, VerifyPayment(c)
      PROVE  RowTypes'
  <2>1. work[c].payment \in Payments
    BY <1>6, KindsOfWork DEF VerifyPayment, RowTypes, Looking
  <2> DEFINE k == <<work[c].payment, "SUCCESS">>
             w == [op |-> "collect", payment |-> work[c].payment, event |-> {k}]
  <2>2. k \in EventKeys /\ w \in WorkType
    BY <2>1 DEF EventKeys, WorkType, Completing, Plans
  <2>3. work' \in [Calls -> WorkType]
    BY <1>6, <2>2, PutType, FinishType DEF VerifyPayment, RowTypes
  <2>4. inbox' \in Inboxes
    BY <1>6, <2>2, RegisterType DEF VerifyPayment, RowTypes
  <2> QED BY <1>6, <2>3, <2>4 DEF VerifyPayment, RowTypes
<1>7. ASSUME NEW c \in Calls, NEW status \in {"SUCCESS", "FAILED"}, VerifyAlatTransfer(c, status)
      PROVE  RowTypes'
  <2>1. work[c].payment \in Payments
    BY <1>7, KindsOfWork DEF VerifyAlatTransfer, RowTypes, Looking
  <2> DEFINE k == <<work[c].payment, status>>
             w == [op |-> "collect", payment |-> work[c].payment, event |-> {k}]
  <2>2. k \in EventKeys /\ w \in WorkType
    BY <2>1 DEF EventKeys, WorkType, Completing, Plans
  <2>3. work' \in [Calls -> WorkType]
    BY <1>7, <2>2, PutType, FinishType DEF VerifyAlatTransfer, RowTypes
  <2>4. inbox' \in Inboxes
    BY <1>7, <2>2, RegisterType DEF VerifyAlatTransfer, RowTypes
  <2> QED BY <1>7, <2>3, <2>4 DEF VerifyAlatTransfer, RowTypes
<1>8. ASSUME NEW c \in Calls, NEW p \in Payments, Poll(c, p)
      PROVE  RowTypes'
  <2>1. [op |-> "collect", payment |-> p, event |-> {}] \in WorkType
    BY DEF WorkType, Completing, Plans
  <2>2. work' \in [Calls -> WorkType]
    BY <1>8, <2>1, PutType DEF Poll, RowTypes
  <2> QED BY <1>8, <2>2 DEF Poll, RowTypes
<1>9. ASSUME NEW c \in Calls, NEW p \in Payments, Refresh(c, p)
      PROVE  RowTypes'
  <2> DEFINE k == <<p, ProviderStatus(p)>>
             w == [op |-> "collect", payment |-> p, event |-> {k}]
             f == [op |-> "fail", payment |-> p]
  <2>1. k \in EventKeys /\ w \in WorkType /\ f \in WorkType
    BY <1>9 DEF Refresh, ProviderStatus, EventKeys, WorkType, Completing, Looking, Plans
  <2>2. work' \in [Calls -> WorkType]
    BY <1>9, <2>1, PutType DEF Refresh, RowTypes
  <2>3. inbox' \in Inboxes
    BY <1>9, <2>1, RegisterType DEF Refresh, RowTypes
  <2> QED BY <1>9, <2>2, <2>3 DEF Refresh, RowTypes
<1>10. ASSUME NEW c \in Calls, MarkFailed(c)
       PROVE  RowTypes'
  <2>1. work[c].payment \in Payments
    BY <1>10, KindsOfWork DEF MarkFailed, RowTypes, Looking
  <2>2. payment' \in [Payments -> PaymentType \cup {Unborn}]
    <3>1. CASE payment[work[c].payment].status \in Open
      <4>1. payment[work[c].payment] \in PaymentType
        BY <2>1, <3>1 DEF RowTypes, Unborn, Open
      <4>2. [payment[work[c].payment] EXCEPT !.status = "FAILED"] \in PaymentType
        BY <4>1 DEF PaymentType
      <4> QED BY <1>10, <3>1, <4>2 DEF MarkFailed, RowTypes
    <3>2. CASE payment[work[c].payment].status \notin Open
      BY <1>10, <3>2 DEF MarkFailed, RowTypes
    <3> QED BY <3>1, <3>2
  <2>3. work' \in [Calls -> WorkType]
    BY <1>10, FinishType DEF MarkFailed, RowTypes
  <2> QED BY <1>10, <2>2, <2>3 DEF MarkFailed, RowTypes
<1>11. ASSUME NEW c \in Calls, Collect(c)
       PROVE  RowTypes'
  <2>1. work[c] \in Completing
    BY <1>11, KindsOfWork DEF Collect, RowTypes, Plans
  <2>2. [work[c] EXCEPT !.op = IF Completable(work[c].payment) THEN "donate" ELSE "processed"]
          \in WorkType
    BY <2>1 DEF WorkType, Completing, Plans
  <2>3. work' \in [Calls -> WorkType]
    BY <1>11, <2>2, PutType DEF Collect, RowTypes
  <2> QED BY <1>11, <2>3 DEF Collect, RowTypes
<1>12. ASSUME NEW c \in Calls, CreateDonation(c)
       PROVE  RowTypes'
  <2>1. work[c] \in Completing /\ Exists(work[c].payment)
    BY <1>12, KindsOfWork DEF CreateDonation, RowTypes, Plans, CallsRelyOn, ReliesOn
  <2>2. /\ [work[c] EXCEPT !.op = "tell"] \in WorkType
        /\ [work[c] EXCEPT !.op = "record"] \in WorkType
    BY <2>1 DEF WorkType, Completing, Plans
  <2>3. work' \in [Calls -> WorkType]
    BY <1>12, <2>2, PutType DEF CreateDonation, RowTypes
  <2>4. payment[work[c].payment] \in PaymentType
    BY <2>1 DEF RowTypes, Exists, Completing
  <2>5. [payment |-> work[c].payment, amount |-> payment[work[c].payment].amount,
         meal |-> MealFor(work[c].payment)] \in DonationType
    BY <2>1, <2>4 DEF DonationType, MealFor, PaymentType, Completing
  <2>6. donation' \in Seq(DonationType)
    <3>1. Append(donation, [payment |-> work[c].payment, amount |-> payment[work[c].payment].amount,
                            meal |-> MealFor(work[c].payment)]) \in Seq(DonationType)
      BY <2>5, AppendProperties DEF RowTypes
    <3> QED BY <1>12, <3>1 DEF CreateDonation, RowTypes
  <2> QED BY <1>12, <2>3, <2>6 DEF CreateDonation, RowTypes
<1>13. ASSUME NEW c \in Calls, Tell(c)
       PROVE  RowTypes'
  <2>1. work[c] \in Completing
    BY <1>13, KindsOfWork DEF Tell, RowTypes, Plans
  <2>2. [work[c] EXCEPT !.op = "record"] \in WorkType
    BY <2>1 DEF WorkType, Completing, Plans
  <2>3. work' \in [Calls -> WorkType]
    BY <1>13, <2>2, PutType DEF Tell, RowTypes
  <2>4. told' \in [Payments -> Nat]
    <3>1. work[c].payment \in Payments
      BY <2>1 DEF Completing
    <3> QED BY <1>13, <3>1 DEF Tell, RowTypes
  <2> QED BY <1>13, <2>3, <2>4 DEF Tell, RowTypes
<1>14. ASSUME NEW c \in Calls, Record(c)
       PROVE  RowTypes'
  <2>1. work[c] \in Completing /\ Exists(work[c].payment)
    BY <1>14, KindsOfWork DEF Record, RowTypes, Plans, CallsRelyOn, ReliesOn
  <2>2. [work[c] EXCEPT !.op = "processed"] \in WorkType
    BY <2>1 DEF WorkType, Completing, Plans
  <2>3. work' \in [Calls -> WorkType]
    BY <1>14, <2>2, PutType DEF Record, RowTypes
  <2>4. payment[work[c].payment] \in PaymentType
    BY <2>1 DEF RowTypes, Exists, Completing
  <2>5. [payment[work[c].payment] EXCEPT !.status = "SUCCESS"] \in PaymentType
    BY <2>4 DEF PaymentType
  <2>6. payment' \in [Payments -> PaymentType \cup {Unborn}]
    BY <1>14, <2>5 DEF Record, RowTypes
  <2> QED BY <1>14, <2>3, <2>6 DEF Record, RowTypes
<1>15. ASSUME NEW c \in Calls, MarkProcessed(c)
       PROVE  RowTypes'
  <2>1. inbox' \in Inboxes
    BY <1>15 DEF MarkProcessed, RowTypes
  <2>2. work' \in [Calls -> WorkType]
    BY <1>15, FinishType DEF MarkProcessed, RowTypes
  <2> QED BY <1>15, <2>1, <2>2 DEF MarkProcessed, RowTypes
<1>16. ASSUME NEW c \in Calls, Abandon(c)
       PROVE  RowTypes'
  <2>1. work' \in [Calls -> WorkType]
    BY <1>16, FinishType DEF Abandon, RowTypes
  <2> QED BY <1>16, <2>1 DEF Abandon, RowTypes
<1>17. CASE EditEvent
  BY <1>17 DEF EditEvent, RowTypes
<1>18. CASE UNCHANGED vars
  BY <1>18 DEF vars, RowTypes
<1> QED
  BY <1>1, <1>2, <1>3, <1>4, <1>5, <1>6, <1>7, <1>8, <1>9, <1>10, <1>11, <1>12, <1>13,
     <1>14, <1>15, <1>16, <1>17, <1>18 DEF Next

-----------------------------------------------------------------------------
(* Which step writes which table. *)
LEMMA WhoWrites ==
  ASSUME [Next]_vars
  PROVE  /\ \/ payment' = payment
            \/ \E c \in Calls : InitiateCreate(c) \/ MarkFailed(c) \/ Record(c)
            \/ \E p \in Payments : Initialized(p)
         /\ bank' = bank \/ \E p \in Payments : Pay(p) \/ Decline(p)
         /\ donation' = donation \/ \E c \in Calls : CreateDonation(c)
         /\ told' = told \/ \E c \in Calls : Tell(c)
         /\ \/ reply' = reply
            \/ \E c \in Calls : InitiateCreate(c)
            \/ \E c \in Calls : \E u \in Donors, k \in Keys \cup {NoKey}, a \in Amounts,
                 ch \in Channels, pr \in Providers : InitiateRead(c, u, k, a, ch, pr)
<1>1. CASE \E c \in Calls : \E u \in Donors, k \in Keys \cup {NoKey}, a \in Amounts,
             ch \in Channels, pr \in Providers : InitiateRead(c, u, k, a, ch, pr)
  BY <1>1 DEF InitiateRead
<1>2. CASE \E c \in Calls : \E p \in Payments : WebhookRead(c, p) \/ Poll(c, p) \/ Refresh(c, p)
  BY <1>2 DEF WebhookRead, Poll, Refresh
<1>3. CASE \E c \in Calls :
             \/ VerifyPayment(c)
             \/ \E status \in {"SUCCESS", "FAILED"} : VerifyAlatTransfer(c, status)
  BY <1>3 DEF VerifyPayment, VerifyAlatTransfer
<1>4. CASE \E c \in Calls : InitiateCreate(c) \/ MarkFailed(c) \/ Record(c)
  BY <1>4 DEF InitiateCreate, MarkFailed, Record
<1>5. CASE \E c \in Calls : Collect(c) \/ MarkProcessed(c) \/ Abandon(c)
  BY <1>5 DEF Collect, MarkProcessed, Abandon
<1>6. CASE \E c \in Calls : CreateDonation(c)
  BY <1>6 DEF CreateDonation
<1>7. CASE \E c \in Calls : Tell(c)
  BY <1>7 DEF Tell
<1>8. CASE \E p \in Payments : Initialized(p)
  BY <1>8 DEF Initialized
<1>9. CASE \E p \in Payments : Pay(p) \/ Decline(p)
  BY <1>9 DEF Pay, Decline
<1>10. CASE EditEvent \/ UNCHANGED vars
  BY <1>10 DEF EditEvent, vars
<1> QED
  BY <1>1, <1>2, <1>3, <1>4, <1>5, <1>6, <1>7, <1>8, <1>9, <1>10 DEF Next

(* What no step takes back. *)
LEMMA RequestsStand ==
  ASSUME RowTypes, CallsRelyOn, [Next]_vars, NEW p \in Payments, Exists(p)
  PROVE  /\ Exists(p)'
         /\ payment'[p].donor = payment[p].donor
         /\ payment'[p].key = payment[p].key
         /\ payment'[p].amount = payment[p].amount
         /\ payment[p].status \in Settled => payment'[p].status \in Settled
         /\ payment'[p].status = "SUCCESS" =>
              payment[p].status = "SUCCESS" \/ Given(p) # {}
<1>1. payment[p] \in PaymentType
  BY DEF RowTypes, Exists
<1>2. ASSUME NEW c \in Calls, InitiateCreate(c)
      PROVE  payment'[p] = payment[p]
  BY <1>2 DEF InitiateCreate, RowTypes
<1>3. ASSUME NEW q \in Payments, Initialized(q)
      PROVE  payment'[p] = payment[p] \/ payment'[p] = [payment[p] EXCEPT !.link = TRUE]
  BY <1>3 DEF Initialized, RowTypes
<1>4. ASSUME NEW c \in Calls, MarkFailed(c)
      PROVE  \/ payment'[p] = payment[p]
             \/ payment[p].status \in Open
                /\ payment'[p] = [payment[p] EXCEPT !.status = "FAILED"]
  BY <1>4 DEF MarkFailed, RowTypes
<1>5. ASSUME NEW c \in Calls, Record(c)
      PROVE  \/ payment'[p] = payment[p]
             \/ Given(p) # {} /\ payment'[p] = [payment[p] EXCEPT !.status = "SUCCESS"]
  BY <1>5 DEF Record, RowTypes, CallsRelyOn, ReliesOn
<1>6. \/ payment'[p] = payment[p]
      \/ payment'[p] = [payment[p] EXCEPT !.link = TRUE]
      \/ payment[p].status \in Open /\ payment'[p] = [payment[p] EXCEPT !.status = "FAILED"]
      \/ Given(p) # {} /\ payment'[p] = [payment[p] EXCEPT !.status = "SUCCESS"]
  BY <1>2, <1>3, <1>4, <1>5, WhoWrites
<1>7. payment'[p] \in PaymentType
  BY <1>1, <1>6 DEF PaymentType
<1> QED BY <1>1, <1>6, <1>7 DEF PaymentType, Exists, Unborn, Settled, Open

LEMMA CollectedStays ==
  ASSUME RowTypes, [Next]_vars, NEW p \in Payments, bank[p] \in Collected
  PROVE  bank'[p] \in Collected
<1>1. CASE \E q \in Payments : Pay(q) \/ Decline(q)
  BY <1>1 DEF Pay, Decline, RowTypes, Collected
<1>2. CASE bank' = bank
  BY <1>2
<1> QED BY <1>1, <1>2, WhoWrites

LEMMA DonationsStand ==
  ASSUME RowTypes, CallsRelyOn, [Next]_vars
  PROVE  \/ donation' = donation
         \/ \E c \in Calls, d \in DonationType :
              /\ work[c].op = "donate" /\ d.payment = work[c].payment
              /\ Given(d.payment) = {}
              /\ donation' = Append(donation, d)
<1>1. ASSUME NEW c \in Calls, CreateDonation(c), donation' # donation
      PROVE  \E d \in DonationType :
               /\ work[c].op = "donate" /\ d.payment = work[c].payment
               /\ Given(d.payment) = {}
               /\ donation' = Append(donation, d)
  <2> DEFINE p == work[c].payment
             d == [payment |-> p, amount |-> payment[p].amount, meal |-> MealFor(p)]
  <2>1. work[c].op = "donate" /\ Exists(p) /\ work[c] \in Completing
    BY <1>1, KindsOfWork DEF CreateDonation, RowTypes, Plans, CallsRelyOn, ReliesOn
  <2>2. payment[p] \in PaymentType /\ p \in Payments
    BY <2>1 DEF RowTypes, Exists, Completing
  <2>3. d \in DonationType
    BY <2>2 DEF DonationType, MealFor, PaymentType
  <2>4. donation' = Append(donation, d) /\ Given(p) = {}
    BY <1>1 DEF CreateDonation, IsNew
  <2> HIDE DEF d
  <2>5. d.payment = p
    BY DEF d
  <2> QED BY <2>1, <2>3, <2>4, <2>5
<1> QED BY <1>1, WhoWrites

LEMMA GivenStays ==
  ASSUME RowTypes, CallsRelyOn, [Next]_vars, NEW p \in Payments, Given(p) # {}
  PROVE  Given(p)' # {}
<1>1. CASE donation' = donation
  BY <1>1 DEF Given
<1>2. ASSUME NEW d \in DonationType, donation' = Append(donation, d)
      PROVE  Given(p)' # {}
  <2>1. PICK i \in DOMAIN donation : donation[i].payment = p
    BY DEF Given
  <2>2. i \in DOMAIN donation' /\ donation'[i] = donation[i]
    BY <1>2, <2>1, AppendProperties DEF RowTypes
  <2> QED BY <2>1, <2>2 DEF Given
<1> QED BY <1>1, <1>2, DonationsStand

-----------------------------------------------------------------------------
(* What calls rely on. *)
LEMMA RelyingStays ==
  ASSUME RowTypes, CallsRelyOn, [Next]_vars, NEW w \in WorkType, ReliesOn(w)
  PROVE  ReliesOn(w)'
<1>1. CASE w.op \in Plans \cup {"webhook", "fail"}
  <2>1. w.payment \in Payments /\ Exists(w.payment)
    BY <1>1, KindsOfWork DEF ReliesOn, Looking, Completing
  <2>2. /\ Exists(w.payment)'
        /\ payment[w.payment].status \in Settled => payment'[w.payment].status \in Settled
    BY <2>1, RequestsStand
  <2>3. bank[w.payment] \in Collected => bank'[w.payment] \in Collected
    BY <2>1, CollectedStays
  <2>4. Given(w.payment) # {} => Given(w.payment)' # {}
    BY <2>1, GivenStays
  <2> QED BY <1>1, <2>2, <2>3, <2>4 DEF ReliesOn, Plans
<1>2. CASE w.op \in {"idle", "initiate"}
  BY <1>2 DEF ReliesOn, Plans
<1> QED BY <1>1, <1>2, KindsOfWork

LEMMA CallsInit == Init => CallsRelyOn
BY DEF Init, CallsRelyOn, ReliesOn, Idle, Plans

LEMMA CallsStep ==
  ASSUME RowTypes, CallsRelyOn, [Next]_vars
  PROVE  CallsRelyOn'
<1> DEFINE Moves(c) ==
      \A d \in Calls : work'[d] # work[d] => d = c /\ ReliesOn(work[d])'
<1>1. RowTypes'
  BY TypeStep
<1>2. ASSUME NEW c \in Calls, NEW w, work' = [work EXCEPT ![c] = w], ReliesOn(w)'
      PROVE  Moves(c)
  BY <1>2 DEF ReliesOn, RowTypes
<1>3. ASSUME NEW c \in Calls, NEW w, Put(c, w), ReliesOn(w)'
      PROVE  Moves(c)
  BY <1>2, <1>3 DEF Put
<1>4. ASSUME NEW c \in Calls, Finish(c)
      PROVE  Moves(c)
  <2>1. ReliesOn(Idle)'
    BY DEF ReliesOn, Idle, Plans
  <2> QED BY <1>2, <1>4, <2>1 DEF Finish, Put, Idle
<1> HIDE DEF Moves
<1>5. ASSUME NEW c \in Calls, NEW u \in Donors, NEW k \in Keys \cup {NoKey}, NEW a \in Amounts,
             NEW ch \in Channels, NEW pr \in Providers, InitiateRead(c, u, k, a, ch, pr)
      PROVE  Moves(c)
  <2>1. CASE Finish(c)
    BY <1>4, <2>1
  <2>2. CASE Put(c, [op |-> "initiate", donor |-> u, key |-> k, amount |-> a,
                     channel |-> ch, provider |-> pr])
    <3> DEFINE w == [op |-> "initiate", donor |-> u, key |-> k, amount |-> a,
                     channel |-> ch, provider |-> pr]
    <3>1. ReliesOn(w)'
      BY <1>5 DEF InitiateRead, ReliesOn, Plans
    <3> QED BY <1>3, <2>2, <3>1
  <2> QED BY <1>5, <2>1, <2>2 DEF InitiateRead, Answer
<1>6. ASSUME NEW c \in Calls, InitiateCreate(c) \/ MarkFailed(c) \/ MarkProcessed(c) \/ Abandon(c)
      PROVE  Moves(c)
  BY <1>4, <1>6 DEF InitiateCreate, MarkFailed, MarkProcessed, Abandon, Answer
<1>7. ASSUME NEW c \in Calls, NEW p \in Payments, WebhookRead(c, p)
      PROVE  Moves(c)
  <2>1. ReliesOn([op |-> "webhook", payment |-> p])'
    BY <1>7 DEF WebhookRead, ReliesOn, Plans, Exists
  <2>2. CASE work' = work
    BY <2>2 DEF Moves
  <2> QED BY <1>3, <1>7, <2>1, <2>2 DEF WebhookRead
<1>8. ASSUME NEW c \in Calls, NEW p \in Payments, NEW e \in SUBSET EventKeys,
             Put(c, [op |-> "collect", payment |-> p, event |-> e]),
             \A k \in e : k[1] = p,
             Exists(p), bank[p] \in Collected, payment' = payment, bank' = bank
      PROVE  Moves(c)
  <2>1. ReliesOn([op |-> "collect", payment |-> p, event |-> e])'
    BY <1>8 DEF ReliesOn, Plans, Exists
  <2> QED BY <1>3, <1>8, <2>1
<1>9. ASSUME NEW c \in Calls,
             VerifyPayment(c) \/ \E status \in {"SUCCESS", "FAILED"} : VerifyAlatTransfer(c, status)
      PROVE  Moves(c)
  <2>1. PICK p \in Payments : p = work[c].payment
    BY <1>9, KindsOfWork DEF VerifyPayment, VerifyAlatTransfer, RowTypes, Looking
  <2>2. Exists(p)
    BY <1>9, <2>1 DEF VerifyPayment, VerifyAlatTransfer, CallsRelyOn, ReliesOn
  <2>3. CASE Finish(c)
    BY <1>4, <2>3
  <2>4. CASE ~ Finish(c)
    <3>1. PICK e \in SUBSET EventKeys :
            /\ Put(c, [op |-> "collect", payment |-> p, event |-> e])
            /\ \A k \in e : k[1] = p
            /\ ProviderStatus(p) = "SUCCESS" /\ payment' = payment /\ bank' = bank
      <4>1. /\ {<<p, "SUCCESS">>} \in SUBSET EventKeys
            /\ {<<p, "FAILED">>} \in SUBSET EventKeys
        BY DEF EventKeys
      <4>2. /\ \A k \in {<<p, "SUCCESS">>} : k[1] = p
            /\ \A k \in {<<p, "FAILED">>} : k[1] = p
        OBVIOUS
      <4> QED
        BY <1>9, <2>1, <2>4, <4>1, <4>2 DEF VerifyPayment, VerifyAlatTransfer
    <3>2. bank[p] \in Collected
      BY <3>1 DEF ProviderStatus
    <3> QED BY <1>8, <2>2, <3>1, <3>2
  <2> QED BY <2>3, <2>4
<1>10. ASSUME NEW c \in Calls, NEW p \in Payments, Poll(c, p)
       PROVE  Moves(c)
  <2>1. {} \in SUBSET EventKeys /\ bank[p] \in Collected
    BY <1>10 DEF Poll, Collected
  <2> QED BY <1>8, <1>10, <2>1 DEF Poll
<1>11. ASSUME NEW c \in Calls, NEW p \in Payments, Refresh(c, p)
       PROVE  Moves(c)
  <2>1. CASE work' = work
    BY <2>1 DEF Moves
  <2>2. CASE Put(c, [op |-> "fail", payment |-> p])
    <3>1. ReliesOn([op |-> "fail", payment |-> p])'
      BY <1>11 DEF Refresh, Refreshable, ReliesOn, Plans, Exists
    <3> QED BY <1>3, <2>2, <3>1
  <2>3. CASE /\ ProviderStatus(p) = "SUCCESS"
             /\ Put(c, [op |-> "collect", payment |-> p, event |-> {<<p, ProviderStatus(p)>>}])
    <3>1. {<<p, "SUCCESS">>} \in SUBSET EventKeys /\ bank[p] \in Collected
      BY <2>3 DEF EventKeys, ProviderStatus
    <3>2. \A k \in {<<p, "SUCCESS">>} : k[1] = p
      OBVIOUS
    <3> QED BY <1>8, <1>11, <2>3, <3>1, <3>2 DEF Refresh, Refreshable
  <2> QED BY <1>11, <2>1, <2>2, <2>3 DEF Refresh
<1>12. ASSUME NEW c \in Calls, NEW w \in Completing, NEW op \in Plans, w = work[c],
              Put(c, [w EXCEPT !.op = op]),
              op = "processed" => payment'[w.payment].status \in Settled,
              op \in {"tell", "record"} => Given(w.payment)' # {}
       PROVE  Moves(c)
  <2>1. ReliesOn(w) /\ w \in WorkType /\ w.op \in Plans
    BY <1>12 DEF CallsRelyOn, RowTypes, Completing
  <2>2. ReliesOn(w)'
    BY <2>1, RelyingStays
  <2>3. ReliesOn([w EXCEPT !.op = op])'
    BY <1>12, <2>1, <2>2 DEF ReliesOn, Plans, Completing
  <2> QED BY <1>3, <1>12, <2>3
<1>13. ASSUME NEW c \in Calls, Collect(c)
       PROVE  Moves(c)
  <2>1. PICK w \in Completing : w = work[c] /\ Exists(w.payment) /\ w.payment \in Payments
    BY <1>13, KindsOfWork DEF Collect, RowTypes, Plans, CallsRelyOn, ReliesOn, Completing
  <2>2. CASE Completable(w.payment)
    BY <1>12, <1>13, <2>1, <2>2 DEF Collect, Plans
  <2>3. CASE ~ Completable(w.payment)
    <3>1. payment[w.payment].status \in Settled
      BY <2>1, <2>3 DEF Completable, RowTypes, PaymentType, Exists, Settled
    <3>2. payment'[w.payment].status \in Settled
      BY <1>13, <3>1 DEF Collect
    <3> QED BY <1>12, <1>13, <2>1, <2>3, <3>2 DEF Collect, Plans
  <2> QED BY <2>2, <2>3
<1>14. ASSUME NEW c \in Calls, CreateDonation(c)
       PROVE  Moves(c)
  <2>1. PICK w \in Completing : w = work[c] /\ w.payment \in Payments
    BY <1>14, KindsOfWork DEF CreateDonation, RowTypes, Plans, Completing
  <2>2. Given(w.payment)' # {}
    <3>1. CASE IsNew(w.payment)
      <4>1. PICK d : d.payment = w.payment /\ donation' = Append(donation, d)
        BY <1>14, <2>1, <3>1 DEF CreateDonation
      <4>2. Len(donation) + 1 \in DOMAIN donation' /\ donation'[Len(donation) + 1] = d
        BY <4>1 DEF RowTypes
      <4> QED BY <4>1, <4>2 DEF Given
    <3>2. CASE ~ IsNew(w.payment)
      BY <2>1, <3>2, GivenStays DEF IsNew
    <3> QED BY <3>1, <3>2
  <2> QED BY <1>12, <1>14, <2>1, <2>2 DEF CreateDonation, Plans
<1>15. ASSUME NEW c \in Calls, Tell(c)
       PROVE  Moves(c)
  <2>1. PICK w \in Completing : w = work[c] /\ w.payment \in Payments /\ Given(w.payment) # {}
    BY <1>15, KindsOfWork DEF Tell, RowTypes, Plans, Completing, CallsRelyOn, ReliesOn
  <2>2. Given(w.payment)' # {}
    BY <2>1, GivenStays
  <2> QED BY <1>12, <1>15, <2>1, <2>2 DEF Tell, Plans
<1>16. ASSUME NEW c \in Calls, Record(c)
       PROVE  Moves(c)
  <2>1. PICK w \in Completing : w = work[c] /\ w.payment \in Payments /\ Exists(w.payment)
    BY <1>16, KindsOfWork DEF Record, RowTypes, Plans, Completing, CallsRelyOn, ReliesOn
  <2>2. payment[w.payment] \in PaymentType
    BY <2>1 DEF RowTypes, Exists
  <2>3. payment'[w.payment].status \in Settled
    BY <1>16, <2>1, <2>2 DEF Record, RowTypes, PaymentType, Settled
  <2> QED BY <1>12, <1>16, <2>1, <2>3 DEF Record, Plans
<1>17. \/ work' = work
       \/ \E c \in Calls : Moves(c)
  <2>1. CASE \E p \in Payments : Initialized(p) \/ Pay(p) \/ Decline(p)
    BY <2>1 DEF Initialized, Pay, Decline
  <2>2. CASE EditEvent \/ UNCHANGED vars
    BY <2>2 DEF EditEvent, vars
  <2> QED
    BY <1>5, <1>6, <1>7, <1>9, <1>10, <1>11, <1>13, <1>14, <1>15, <1>16, <2>1, <2>2 DEF Next
<1> SUFFICES ASSUME NEW d \in Calls PROVE ReliesOn(work[d])'
  BY DEF CallsRelyOn
<1>18. CASE work'[d] = work[d]
  <2>1. PICK w \in WorkType : w = work[d] /\ ReliesOn(w)
    BY DEF RowTypes, CallsRelyOn
  <2>2. ReliesOn(w)'
    BY <2>1, RelyingStays
  <2> QED BY <1>18, <2>1, <2>2 DEF ReliesOn
<1>19. CASE work'[d] # work[d]
  BY <1>17, <1>19 DEF Moves
<1> QED BY <1>18, <1>19

-----------------------------------------------------------------------------
(* One donation per payment. *)
LEMMA DonationRows ==
  ASSUME RowTypes
  PROVE  \A i \in DOMAIN donation : donation[i].payment \in Payments
<1>1. \A i \in 1..Len(donation) : donation[i] \in DonationType
  BY ElementOfSeq DEF RowTypes
<1>2. DOMAIN donation = 1..Len(donation)
  BY DEF RowTypes
<1> QED BY <1>1, <1>2 DEF DonationType

LEMMA DonationsDifferStep ==
  ASSUME RowTypes, CallsRelyOn, DonationsDiffer, [Next]_vars
  PROVE  DonationsDiffer'
<1>1. \A p \in Payments : bank[p] \in Collected => bank'[p] \in Collected
  BY CollectedStays
<1>2. CASE donation' = donation
  <2>1. \A i \in DOMAIN donation : donation[i].payment \in Payments
    BY DonationRows
  <2> QED BY <1>1, <1>2, <2>1 DEF DonationsDiffer
<1>3. ASSUME NEW c \in Calls, NEW d \in DonationType,
             work[c].op = "donate", d.payment = work[c].payment,
             Given(d.payment) = {}, donation' = Append(donation, d)
      PROVE  DonationsDiffer'
  <2>1. /\ DOMAIN donation' = DOMAIN donation \cup {Len(donation) + 1}
        /\ \A i \in DOMAIN donation : donation'[i] = donation[i]
        /\ donation'[Len(donation) + 1] = d
    BY <1>3 DEF RowTypes
  <2>2. d.payment \in Payments /\ bank'[d.payment] \in Collected
    BY <1>1, <1>3 DEF CallsRelyOn, ReliesOn, Plans, DonationType
  <2>3. \A i \in DOMAIN donation : donation[i].payment \in Payments
    BY DonationRows
  <2>4. \A i \in DOMAIN donation : donation[i].payment # d.payment
    BY <1>3 DEF Given
  <2>5. \A i, j \in DOMAIN donation' : donation'[i].payment = donation'[j].payment => i = j
    BY <2>1, <2>4 DEF DonationsDiffer
  <2>6. \A i \in DOMAIN donation' : bank'[donation'[i].payment] \in Collected
    BY <1>1, <2>1, <2>2, <2>3 DEF DonationsDiffer
  <2> QED BY <2>5, <2>6 DEF DonationsDiffer, Collected
<1> QED BY <1>2, <1>3, DonationsStand

(* Only who creates a donation comes to tell of it. *)
LEMMA WhoTells ==
  ASSUME RowTypes, [Next]_vars, NEW d \in Calls, work'[d].op = "tell", work'[d] # work[d]
  PROVE  /\ CreateDonation(d) /\ Given(work[d].payment) = {}
         /\ work'[d].payment = work[d].payment
<1>1. ASSUME NEW c \in Calls, NEW w, Put(c, w), w.op # "tell"
      PROVE  FALSE
  BY <1>1 DEF Put, RowTypes
<1>2. ASSUME NEW c \in Calls, Finish(c)
      PROVE  FALSE
  BY <1>1, <1>2 DEF Finish, Idle
<1>3. ASSUME NEW c \in Calls, NEW u \in Donors, NEW k \in Keys \cup {NoKey}, NEW a \in Amounts,
             NEW ch \in Channels, NEW pr \in Providers, InitiateRead(c, u, k, a, ch, pr)
      PROVE  FALSE
  BY <1>1, <1>2, <1>3 DEF InitiateRead, Answer
<1>4. ASSUME NEW c \in Calls, InitiateCreate(c) \/ MarkFailed(c) \/ MarkProcessed(c) \/ Abandon(c)
      PROVE  FALSE
  BY <1>2, <1>4 DEF InitiateCreate, MarkFailed, MarkProcessed, Abandon, Answer
<1>5. ASSUME NEW c \in Calls, NEW p \in Payments, WebhookRead(c, p) \/ Poll(c, p) \/ Refresh(c, p)
      PROVE  FALSE
  BY <1>1, <1>2, <1>5 DEF WebhookRead, Poll, Refresh
<1>6. ASSUME NEW c \in Calls,
             VerifyPayment(c) \/ \E status \in {"SUCCESS", "FAILED"} : VerifyAlatTransfer(c, status)
      PROVE  FALSE
  BY <1>1, <1>2, <1>6 DEF VerifyPayment, VerifyAlatTransfer
<1>7. ASSUME NEW c \in Calls, Collect(c) \/ Tell(c) \/ Record(c)
      PROVE  FALSE
  <2>1. PICK w \in Completing : w = work[c]
    BY <1>7, KindsOfWork DEF Collect, Tell, Record, RowTypes, Plans
  <2>2. PICK op \in {"donate", "record", "processed"} : Put(c, [w EXCEPT !.op = op])
    BY <1>7, <2>1 DEF Collect, Tell, Record
  <2>3. [w EXCEPT !.op = op].op # "tell"
    BY <2>1, <2>2 DEF Completing
  <2> QED BY <1>1, <2>2, <2>3
<1>8. ASSUME NEW c \in Calls, CreateDonation(c)
      PROVE  /\ CreateDonation(d) /\ Given(work[d].payment) = {}
             /\ work'[d].payment = work[d].payment
  <2>1. PICK w \in Completing : w = work[c]
    BY <1>8, KindsOfWork DEF CreateDonation, RowTypes, Plans
  <2>2. CASE IsNew(w.payment)
    <3>1. Put(c, [w EXCEPT !.op = "tell"])
      BY <1>8, <2>1, <2>2 DEF CreateDonation
    <3>2. c = d
      BY <3>1 DEF Put, RowTypes
    <3> QED BY <1>8, <2>1, <2>2, <3>1, <3>2 DEF Put, RowTypes, Completing, IsNew
  <2>3. CASE ~ IsNew(w.payment)
    <3>1. Put(c, [w EXCEPT !.op = "record"])
      BY <1>8, <2>1, <2>3 DEF CreateDonation
    <3>2. [w EXCEPT !.op = "record"].op # "tell"
      BY DEF Completing
    <3> QED BY <1>1, <3>1, <3>2
  <2> QED BY <2>2, <2>3
<1>9. CASE \E p \in Payments : Initialized(p) \/ Pay(p) \/ Decline(p)
  BY <1>9 DEF Initialized, Pay, Decline
<1>10. CASE EditEvent \/ UNCHANGED vars
  BY <1>10 DEF EditEvent, vars
<1> QED BY <1>3, <1>4, <1>5, <1>6, <1>7, <1>8, <1>9, <1>10 DEF Next

LEMMA ToldOnceStep ==
  ASSUME RowTypes, CallsRelyOn, ToldOnce, [Next]_vars
  PROVE  ToldOnce'
<1>1. \A p \in Payments : Given(p) # {} => Given(p)' # {}
  BY GivenStays
<1>2. \A d \in Calls : work[d].op = "tell" => work[d].payment \in Payments
  BY KindsOfWork DEF RowTypes, Plans, Completing
<1>3. ASSUME NEW c \in Calls, CreateDonation(c)
      PROVE  ToldOnce'
  <2>1. work[c].payment \in Payments
    BY <1>3, KindsOfWork DEF CreateDonation, RowTypes, Plans, Completing
  <2>2. told' = told /\ \A d \in Calls : d # c => work'[d] = work[d]
    BY <1>3 DEF CreateDonation, Put, RowTypes
  <2>3. CASE work'[c].op = "tell" /\ work'[c] # work[c]
    <3>1. Given(work[c].payment) = {} /\ work'[c].payment = work[c].payment
      BY <2>3, WhoTells
    <3>2. told[work[c].payment] = 0
      BY <2>1, <3>1 DEF ToldOnce, RowTypes
    <3>3. \A d \in Calls : work[d].op = "tell" => work[d].payment # work[c].payment
      BY <3>1 DEF CallsRelyOn, ReliesOn
    <3> QED BY <1>1, <1>3, <2>2, <2>3, <3>1, <3>2, <3>3 DEF ToldOnce, CreateDonation
  <2>4. CASE ~ (work'[c].op = "tell" /\ work'[c] # work[c])
    BY <1>1, <1>3, <2>2, <2>4 DEF ToldOnce, CreateDonation
  <2> QED BY <2>3, <2>4
<1>4. ASSUME NEW c \in Calls, Tell(c)
      PROVE  ToldOnce'
  <2>1. PICK w \in Completing : w = work[c] /\ w.payment \in Payments
    BY <1>2, <1>4, KindsOfWork DEF Tell, RowTypes, Plans, Completing
  <2>2. work' = [work EXCEPT ![c] = [w EXCEPT !.op = "record"]]
    BY <1>4, <2>1 DEF Tell, Put
  <2>3. \A d \in Calls : work'[d].op = "tell" => d # c /\ work'[d] = work[d]
    BY <2>1, <2>2 DEF RowTypes, Completing
  <2>4. Given(w.payment) # {} /\ told[w.payment] = 0
    BY <1>4, <2>1 DEF Tell, CallsRelyOn, ReliesOn, ToldOnce
  <2>5. told' = [told EXCEPT ![w.payment] = 1]
    BY <1>4, <2>1, <2>4 DEF Tell
  <2>6. \A d \in Calls : work'[d].op = "tell" => work[d].payment # w.payment
    BY <1>4, <2>1, <2>3 DEF ToldOnce, Tell
  <2>7. \A p \in Payments : told'[p] # 0 => told'[p] = 1 /\ Given(p)' # {}
    BY <1>1, <2>4, <2>5 DEF ToldOnce, RowTypes
  <2>8. ASSUME NEW d \in Calls, work'[d].op = "tell"
        PROVE  /\ told'[work'[d].payment] = 0
               /\ \A e \in Calls :
                    work'[e].op = "tell" /\ work'[e].payment = work'[d].payment => d = e
    BY <1>2, <2>3, <2>5, <2>6, <2>8 DEF ToldOnce, RowTypes
  <2> QED BY <2>7, <2>8 DEF ToldOnce
<1>5. CASE told' = told /\ ~ \E c \in Calls : CreateDonation(c)
  <2>1. \A d \in Calls : work'[d].op = "tell" => work'[d] = work[d]
    BY <1>5, WhoTells
  <2> QED BY <1>1, <1>5, <2>1 DEF ToldOnce
<1> QED BY <1>3, <1>4, <1>5, WhoWrites

LEMMA OneDonationMeans ==
  ASSUME RowTypes, DonationsDiffer, ToldOnce
  PROVE  OneDonationPerPayment
<1> SUFFICES ASSUME NEW p \in Payments
             PROVE  Cardinality(Given(p)) <= 1 /\ told[p] <= Cardinality(Given(p))
  BY DEF OneDonationPerPayment, DonationsDiffer
<1>1. CASE Given(p) = {}
  BY <1>1, FS_EmptySet DEF ToldOnce, RowTypes
<1>2. CASE Given(p) # {}
  <2>1. PICK i : i \in Given(p)
    BY <1>2
  <2>2. Given(p) = {i}
    BY <2>1 DEF Given, DonationsDiffer
  <2>3. Cardinality({i}) = 1
    BY FS_Singleton
  <2>4. told[p] \in {0, 1}
    BY DEF ToldOnce, RowTypes
  <2> QED BY <2>2, <2>3, <2>4
<1> QED BY <1>1, <1>2

-----------------------------------------------------------------------------
(* Settled payments. *)
LEMMA UnsettledIsOpen ==
  ASSUME RowTypes, NEW p \in Payments, payment[p].status \in Settled
  PROVE  Exists(p)
BY DEF RowTypes, Exists, Unborn, Settled

LEMMA ProcessedStep ==
  ASSUME RowTypes, CallsRelyOn, ProcessedIsSettled, [Next]_vars
  PROVE  ProcessedIsSettled'
<1>1. ASSUME NEW p \in Payments, payment'[p].status = "SUCCESS"
      PROVE  Given(p)' # {}
  <2>1. CASE Exists(p)
    BY <1>1, <2>1, RequestsStand, GivenStays DEF ProcessedIsSettled
  <2>2. CASE ~ Exists(p)
    <3>1. CASE payment'[p] = payment[p]
      BY <1>1, <2>2, <3>1 DEF Exists, Unborn
    <3>2. ASSUME NEW c \in Calls, InitiateCreate(c), payment'[p] # payment[p]
          PROVE  FALSE
      BY <1>1, <3>2 DEF InitiateCreate, RowTypes
    <3>3. ASSUME NEW c \in Calls, MarkFailed(c) \/ Record(c)
          PROVE  payment'[p] = payment[p]
      BY <2>2, <3>3 DEF MarkFailed, Record, RowTypes, CallsRelyOn, ReliesOn, Plans
    <3>4. ASSUME NEW q \in Payments, Initialized(q)
          PROVE  payment'[p] = payment[p]
      BY <2>2, <3>4 DEF Initialized, RowTypes
    <3> QED BY <3>1, <3>2, <3>3, <3>4, WhoWrites
  <2> QED BY <2>1, <2>2
<1>2. ASSUME NEW k \in EventKeys, inbox'[k].processed
      PROVE  inbox[k].processed \/ payment[k[1]].status \in Settled
  <2>1. ASSUME NEW c \in Calls, MarkProcessed(c)
        PROVE  inbox[k].processed \/ payment[k[1]].status \in Settled
    <3>1. CASE k \in work[c].event
      BY <2>1, <3>1 DEF MarkProcessed, CallsRelyOn, ReliesOn, Plans
    <3>2. CASE k \notin work[c].event
      BY <1>2, <2>1, <3>2 DEF MarkProcessed
    <3> QED BY <3>1, <3>2
  <2>2. ASSUME NEW c \in Calls, NEW p \in Payments, WebhookRead(c, p)
        PROVE  inbox[k].processed \/ payment[k[1]].status \in Settled
    <3>1. CASE inbox' = inbox
      BY <1>2, <3>1
    <3>2. CASE ProcessAll(p) /\ payment[p].status = "SUCCESS"
      BY <1>2, <3>2 DEF ProcessAll, Settled
    <3> QED BY <2>2, <3>1, <3>2 DEF WebhookRead
  <2>3. ASSUME NEW e \in EventKeys, Register(e)
        PROVE  inbox[k].processed
    BY <1>2, <2>3, RegisterType DEF RowTypes
  <2>4. ASSUME NEW c \in Calls,
               \/ VerifyPayment(c)
               \/ \E status \in {"SUCCESS", "FAILED"} : VerifyAlatTransfer(c, status)
        PROVE  inbox[k].processed
    <3>1. work[c].payment \in Payments
      BY <2>4, KindsOfWork DEF VerifyPayment, VerifyAlatTransfer, RowTypes, Looking
    <3>2. \A status \in {"SUCCESS", "FAILED"} : <<work[c].payment, status>> \in EventKeys
      BY <3>1 DEF EventKeys
    <3> QED BY <1>2, <2>3, <2>4, <3>2 DEF VerifyPayment, VerifyAlatTransfer
  <2>5. ASSUME NEW c \in Calls, NEW p \in Payments, Refresh(c, p)
        PROVE  inbox[k].processed
    <3>1. <<p, ProviderStatus(p)>> \in EventKeys
      BY <2>5 DEF Refresh, ProviderStatus, EventKeys
    <3> QED BY <2>3, <2>5, <3>1 DEF Refresh
  <2>6. CASE \E c \in Calls : \E p \in Payments : Poll(c, p)
    BY <1>2, <2>6 DEF Poll
  <2>7. CASE \E c \in Calls : \E u \in Donors, n \in Keys \cup {NoKey}, a \in Amounts,
               ch \in Channels, pr \in Providers : InitiateRead(c, u, n, a, ch, pr)
    BY <1>2, <2>7 DEF InitiateRead
  <2>8. CASE \E c \in Calls : InitiateCreate(c) \/ MarkFailed(c) \/ Record(c)
    BY <1>2, <2>8 DEF InitiateCreate, MarkFailed, Record
  <2>9. CASE \E c \in Calls : Collect(c) \/ CreateDonation(c) \/ Tell(c) \/ Abandon(c)
    BY <1>2, <2>9 DEF Collect, CreateDonation, Tell, Abandon
  <2>10. CASE \E p \in Payments : Initialized(p) \/ Pay(p) \/ Decline(p)
    BY <1>2, <2>10 DEF Initialized, Pay, Decline
  <2>11. CASE EditEvent \/ UNCHANGED vars
    BY <1>2, <2>11 DEF EditEvent, vars
  <2> QED
    BY <2>1, <2>2, <2>4, <2>5, <2>6, <2>7, <2>8, <2>9, <2>10, <2>11 DEF Next
<1>3. ASSUME NEW k \in EventKeys, inbox'[k].processed
      PROVE  payment'[k[1]].status \in Settled
  <2>1. k[1] \in Payments /\ payment[k[1]].status \in Settled
    BY <1>2, <1>3 DEF ProcessedIsSettled, EventKeys, Settled
  <2> QED BY <2>1, UnsettledIsOpen, RequestsStand
<1> QED BY <1>1, <1>3 DEF ProcessedIsSettled, Settled

-----------------------------------------------------------------------------
(* One payment per key. *)
LEMMA KeysStep ==
  ASSUME RowTypes, CallsRelyOn, KeysDiffer, [Next]_vars
  PROVE  KeysDiffer'
<1>1. ASSUME NEW p \in Payments, Exists(p)
      PROVE  /\ Exists(p)'
             /\ payment'[p].donor = payment[p].donor
             /\ payment'[p].key = payment[p].key
             /\ payment'[p].amount = payment[p].amount
  BY <1>1, RequestsStand
<1>2. ASSUME \A p \in Payments : Exists(p)' => Exists(p)
      PROVE  OneKeyEach'
  BY <1>1, <1>2 DEF KeysDiffer, OneKeyEach, Exists
<1>3. ASSUME NEW c \in Calls, InitiateCreate(c)
      PROVE  OneKeyEach' /\ \A r \in reply' : r \in reply \/ Answered(r)'
  <2>1. PICK w \in Initiating : w = work[c] /\ (w.channel = "WEB" <=> w.key # NoKey)
    BY <1>3, KindsOfWork DEF InitiateCreate, RowTypes, CallsRelyOn, ReliesOn
  <2> DEFINE taken == IF w.key = NoKey THEN {} ELSE Replayed(w.donor, w.key)
             answer(p) == [donor |-> w.donor, key |-> w.key, amount |-> w.amount, payment |-> p]
  <2>2. ASSUME NEW p \in Payments, NEW row, taken = {}, ~ Exists(p),
               row.donor = w.donor, row.key = w.key, row.amount = w.amount,
               row.status # "NONE",
               payment' = [payment EXCEPT ![p] = row],
               \/ w.channel = "WEB" /\ reply' = reply \cup {answer(p)}
               \/ reply' = reply
        PROVE  OneKeyEach' /\ \A r \in reply' : r \in reply \/ Answered(r)'
    <3>1. payment'[p] = row /\ \A q \in Payments : q # p => payment'[q] = payment[q]
      BY <2>2 DEF RowTypes
    <3>2. w.key # NoKey =>
            \A q \in Payments : Exists(q) => ~ (payment[q].donor = w.donor /\ payment[q].key = w.key)
      BY <2>2 DEF Replayed
    <3>3. OneKeyEach'
      BY <2>2, <3>1, <3>2 DEF KeysDiffer, OneKeyEach, Exists
    <3>4. Exists(p)'
      BY <2>2, <3>1 DEF Exists, Unborn
    <3>5. w.channel = "WEB" => Answered(answer(p))'
      BY <2>1, <2>2, <3>1, <3>4 DEF Answered, Exists
    <3> HIDE DEF answer
    <3> QED BY <2>2, <3>3, <3>5
  <2>3. ASSUME NEW p \in taken, SameRequest(p, w.amount), payment' = payment,
               reply' = reply \cup {answer(p)}
        PROVE  OneKeyEach' /\ \A r \in reply' : r \in reply \/ Answered(r)'
    <3>1. w.key # NoKey /\ p \in Replayed(w.donor, w.key)
      BY <2>3
    <3>2. Answered(answer(p))'
      BY <2>3, <3>1 DEF Answered, Replayed, SameRequest, Exists
    <3> HIDE DEF answer
    <3> QED BY <2>3, <3>2 DEF KeysDiffer, OneKeyEach, Exists
  <2>4. CASE payment' = payment /\ reply' = reply
    BY <2>4 DEF KeysDiffer, OneKeyEach, Exists
  <2> HIDE DEF taken, answer
  <2>5. CASE taken = {}
    <3>1. PICK p \in Payments :
            /\ ~ Exists(p)
            /\ payment' = [payment EXCEPT ![p] =
                 [donor |-> w.donor, key |-> w.key, amount |-> w.amount,
                  channel |-> w.channel, provider |-> w.provider, link |-> FALSE,
                  status |-> IF w.provider = "ALAT_TRANSFER" THEN "AWAITING_TRANSFER"
                             ELSE "PENDING"]]
            /\ \/ w.channel = "WEB" /\ reply' = reply \cup {answer(p)}
               \/ reply' = reply
      BY <1>3, <2>1, <2>5 DEF InitiateCreate, Answer, answer, taken
    <3> DEFINE row == [donor |-> w.donor, key |-> w.key, amount |-> w.amount,
                       channel |-> w.channel, provider |-> w.provider, link |-> FALSE,
                       status |-> IF w.provider = "ALAT_TRANSFER" THEN "AWAITING_TRANSFER"
                                  ELSE "PENDING"]
    <3>2. row.donor = w.donor /\ row.key = w.key /\ row.amount = w.amount /\ row.status # "NONE"
      OBVIOUS
    <3>3. payment' = [payment EXCEPT ![p] = row]
      BY <3>1
    <3> HIDE DEF row
    <3> QED BY <2>2, <2>5, <3>1, <3>2, <3>3
  <2>6. CASE taken # {}
    <3>1. \/ /\ payment' = payment
             /\ \E p \in taken : SameRequest(p, w.amount) /\ reply' = reply \cup {answer(p)}
          \/ payment' = payment /\ reply' = reply
      BY <1>3, <2>1, <2>6 DEF InitiateCreate, Answer, taken, answer
    <3> QED BY <2>3, <2>4, <3>1
  <2> QED BY <2>5, <2>6
<1>4. ASSUME NEW r \in reply
      PROVE  Answered(r)'
  <2>1. r.payment \in Payments
    BY DEF RowTypes, ReplyType
  <2> QED BY <1>1, <2>1 DEF KeysDiffer, Answered
<1>5. ASSUME NEW c \in Calls, NEW u \in Donors, NEW k \in Keys \cup {NoKey}, NEW a \in Amounts,
             NEW ch \in Channels, NEW pr \in Providers, InitiateRead(c, u, k, a, ch, pr)
      PROVE  \A r \in reply' : r \in reply \/ Answered(r)'
  <2>1. CASE reply' = reply
    BY <2>1
  <2>2. ASSUME ch = "WEB", NEW p \in Replayed(u, k), SameRequest(p, a),
               reply' = reply \cup {[donor |-> u, key |-> k, amount |-> a, payment |-> p]}
        PROVE  \A r \in reply' : r \in reply \/ Answered(r)'
    BY <1>5, <2>2 DEF InitiateRead, Replayed, SameRequest, Answered, Exists
  <2> QED BY <1>5, <2>1, <2>2 DEF InitiateRead, Answer
<1>6. \/ \A p \in Payments : Exists(p)' => Exists(p)
      \/ \E c \in Calls : InitiateCreate(c)
  <2>1. CASE payment' = payment
    BY <2>1 DEF Exists
  <2>2. ASSUME NEW c \in Calls, MarkFailed(c) \/ Record(c)
        PROVE  \A p \in Payments : Exists(p)' => Exists(p)
    BY <2>2 DEF MarkFailed, Record, RowTypes, CallsRelyOn, ReliesOn, Plans, Exists
  <2>3. ASSUME NEW q \in Payments, Initialized(q)
        PROVE  \A p \in Payments : Exists(p)' => Exists(p)
    BY <2>3 DEF Initialized, RowTypes, Exists
  <2> QED BY <2>1, <2>2, <2>3, WhoWrites
<1>7. \A r \in reply' : r \in reply \/ Answered(r)'
  BY <1>3, <1>5, WhoWrites
<1> QED BY <1>2, <1>3, <1>4, <1>6, <1>7 DEF KeysDiffer

LEMMA KeysMean ==
  ASSUME RowTypes, KeysDiffer
  PROVE  KeyNamesOneRequest
<1> SUFFICES ASSUME NEW r \in reply
             PROVE  /\ payment[r.payment].amount = r.amount
                    /\ Replayed(r.donor, r.key) = {r.payment}
  BY DEF KeyNamesOneRequest
<1>1. r.payment \in Payments /\ Answered(r)
  BY DEF RowTypes, ReplyType, KeysDiffer
<1>2. \A p \in Replayed(r.donor, r.key) : p = r.payment
  BY <1>1 DEF Replayed, Answered, KeysDiffer, OneKeyEach
<1>3. r.payment \in Replayed(r.donor, r.key)
  BY <1>1 DEF Replayed, Answered
<1> QED BY <1>1, <1>2, <1>3 DEF Answered

-----------------------------------------------------------------------------
(* The inbox keeps within the bound on deliveries. *)
InboxBounded == \A k \in EventKeys : inbox[k].attempts \in 0..MaxRetries

LEMMA InboxStep ==
  ASSUME RowTypes, InboxBounded, [Next]_vars
  PROVE  InboxBounded'
<1> USE DonationsAssumption
<1>1. ASSUME NEW e \in EventKeys, Register(e), inbox[e].attempts < MaxRetries
      PROVE  InboxBounded'
  BY <1>1 DEF Register, InboxBounded, RowTypes
<1>2. CASE inbox' = inbox
  BY <1>2 DEF InboxBounded
<1>3. ASSUME NEW c \in Calls, MarkProcessed(c)
      PROVE  InboxBounded'
  BY <1>3 DEF MarkProcessed, InboxBounded, RowTypes
<1>4. ASSUME NEW c \in Calls, NEW p \in Payments, WebhookRead(c, p)
      PROVE  InboxBounded'
  <2>1. CASE ProcessAll(p)
    BY <2>1 DEF ProcessAll, InboxBounded, RowTypes
  <2> QED BY <1>2, <1>4, <2>1 DEF WebhookRead
<1>5. ASSUME NEW c \in Calls,
             VerifyPayment(c) \/ \E status \in {"SUCCESS", "FAILED"} : VerifyAlatTransfer(c, status)
      PROVE  InboxBounded'
  <2>1. work[c].payment \in Payments
    BY <1>5, KindsOfWork DEF VerifyPayment, VerifyAlatTransfer, RowTypes, Looking
  <2>2. \A status \in {"SUCCESS", "FAILED"} : <<work[c].payment, status>> \in EventKeys
    BY <2>1 DEF EventKeys
  <2> QED BY <1>1, <1>2, <1>5, <2>2 DEF VerifyPayment, VerifyAlatTransfer
<1>6. ASSUME NEW c \in Calls, NEW p \in Payments, Refresh(c, p)
      PROVE  InboxBounded'
  <2>1. <<p, ProviderStatus(p)>> \in EventKeys
    BY <1>6 DEF Refresh, ProviderStatus, EventKeys
  <2> QED BY <1>1, <1>6, <2>1 DEF Refresh
<1>7. CASE \E c \in Calls : \E p \in Payments : Poll(c, p)
  BY <1>2, <1>7 DEF Poll
<1>8. CASE \E c \in Calls : \E u \in Donors, n \in Keys \cup {NoKey}, a \in Amounts,
             ch \in Channels, pr \in Providers : InitiateRead(c, u, n, a, ch, pr)
  BY <1>2, <1>8 DEF InitiateRead
<1>9. CASE \E c \in Calls : InitiateCreate(c) \/ MarkFailed(c) \/ Record(c)
  BY <1>2, <1>9 DEF InitiateCreate, MarkFailed, Record
<1>10. CASE \E c \in Calls : Collect(c) \/ CreateDonation(c) \/ Tell(c) \/ Abandon(c)
  BY <1>2, <1>10 DEF Collect, CreateDonation, Tell, Abandon
<1>11. CASE \E p \in Payments : Initialized(p) \/ Pay(p) \/ Decline(p)
  BY <1>2, <1>11 DEF Initialized, Pay, Decline
<1>12. CASE EditEvent \/ UNCHANGED vars
  BY <1>2, <1>12 DEF EditEvent, vars
<1> QED
  BY <1>3, <1>4, <1>5, <1>6, <1>7, <1>8, <1>9, <1>10, <1>11, <1>12 DEF Next

-----------------------------------------------------------------------------
LEMMA DonationInvariant == Spec => []DonationInv
<1>1. Init => DonationInv
  <2> SUFFICES ASSUME Init PROVE DonationInv
    OBVIOUS
  <2>1. RowTypes /\ CallsRelyOn
    BY TypeInit, CallsInit
  <2>2. DonationsDiffer
    BY DEF Init, DonationsDiffer
  <2>3. ToldOnce /\ KeysDiffer
    BY DEF Init, ToldOnce, KeysDiffer, OneKeyEach, Exists, Idle
  <2>4. ProcessedIsSettled
    BY DEF Init, ProcessedIsSettled, Unborn
  <2> QED BY <2>1, <2>2, <2>3, <2>4 DEF DonationInv
<1>2. DonationInv /\ [Next]_vars => DonationInv'
  BY TypeStep, CallsStep, DonationsDifferStep, ToldOnceStep, ProcessedStep, KeysStep
  DEF DonationInv
<1> QED BY <1>1, <1>2, PTL DEF Spec

(* Every variable of Donations keeps its type.                               *)
THEOREM DonationTypes == Spec => []TypeOK
<1>1. Init => InboxBounded
  BY DonationsAssumption DEF Init, InboxBounded
<1>2. DonationInv /\ InboxBounded /\ [Next]_vars => InboxBounded'
  BY InboxStep DEF DonationInv
<1>3. DonationInv /\ InboxBounded => TypeOK
  <2> SUFFICES ASSUME DonationInv, InboxBounded PROVE TypeOK
    OBVIOUS
  <2>1. inbox \in [EventKeys -> [attempts : 0..MaxRetries, processed : BOOLEAN]]
    BY DEF DonationInv, RowTypes, InboxBounded
  <2> QED BY <2>1 DEF DonationInv, RowTypes, TypeOK
<1> QED BY <1>1, <1>2, <1>3, DonationInvariant, PTL DEF Spec

(* However webhooks, polls and refreshes of a payment overlap, it has one    *)
(* donation, of which the organiser is told once, and money for it.          *)
THEOREM DonatedOnce == Spec => []OneDonationPerPayment
<1>1. DonationInv => OneDonationPerPayment
  BY OneDonationMeans DEF DonationInv
<1> QED BY <1>1, DonationInvariant, PTL

(* A payment that says SUCCESS has its donation, and a processed event is of *)
(* a settled payment: what a stopped server leaves is delivered again.       *)
THEOREM SettledBeforeProcessed == Spec => []ProcessedIsSettled
<1>1. DonationInv => ProcessedIsSettled
  BY DEF DonationInv
<1> QED BY <1>1, DonationInvariant, PTL

(* A key of a donor names one payment, and answers only its own request.     *)
THEOREM KeysNameRequests == Spec => []KeyNamesOneRequest
<1>1. DonationInv => KeyNamesOneRequest
  BY KeysMean DEF DonationInv
<1> QED BY <1>1, DonationInvariant, PTL

(* All of it: no donation is lost, doubled, invented or answered for another. *)
THEOREM DonationCorrect == Spec => []DonationsSafe
BY DonationTypes, DonatedOnce, SettledBeforeProcessed, KeysNameRequests, PTL DEF DonationsSafe

-----------------------------------------------------------------------------
(***************************************************************************)
(* The operations dashboard, for any staff and any requests in flight.     *)
(***************************************************************************)
CONSTANTS
  Staff, None, MaxAttempts, MaxPasswords, MaxSessions  \* as in Dashboard

VARIABLES account, session, opened, tried, founded, task  \* as in Dashboard

Office == INSTANCE Dashboard WITH work <- task

OfficeAssumption ==
  /\ IsFiniteSet(Staff)
  /\ MaxAttempts \in Nat \ {0} /\ MaxPasswords \in Nat \ {0} /\ MaxSessions \in Nat
  /\ None \notin Office!AccountType \cup Office!SessionType
  /\ None \notin Office!Roles \cup {"ACTIVE", "DISABLED"}

LoginTask ==
  [op : {"login"}, user : Staff, right : BOOLEAN, password : 1..MaxPasswords,
   status : {"ACTIVE", "DISABLED"}]
ChangeTask == [op : {"change"}, session : 1..MaxSessions, user : Staff, password : 1..MaxPasswords]
CreateTask == [op : {"create"}, user : Staff, role : Office!Roles]
UpdateTask ==
  [op : {"update"}, user : Staff, role : Office!Roles \cup {None},
   status : {"ACTIVE", "DISABLED", None}]
ResetTask == [op : {"reset"}, user : Staff]
TaskType ==
  {Office!Idle} \cup LoginTask \cup ChangeTask \cup CreateTask \cup UpdateTask \cup ResetTask

OfficeTypes ==
  /\ Office!TypeOK
  /\ tried \in [Staff -> Nat]
  /\ task \in [Calls -> TaskType]

(* Accounts are never deleted, so what a request or a session names exists.  *)
AccountsStand ==
  /\ \A c \in Calls : task[c].op \in {"login", "change", "update", "reset"} =>
       account[task[c].user] \in Office!AccountType
  /\ \A s \in 1..MaxSessions : session[s] # None =>
       account[session[s].user] \in Office!AccountType

(* The attempts of an account count the wrong passwords since its lock; when *)
(* the lock has run out they stay, and the next wrong password locks again.  *)
AttemptsCount ==
  \A u \in Staff :
    IF account[u] = None THEN tried[u] = 0
    ELSE /\ tried[u] <= account[u].attempts
         /\ ~ account[u].locked /\ account[u].attempts = MaxAttempts => tried[u] = 0

OfficeInv ==
  OfficeTypes /\ AccountsStand /\ AttemptsCount /\ Office!SessionsAreCurrent /\ Office!AdminRemains

-----------------------------------------------------------------------------
(* A request in flight by its op. *)
LEMMA TaskKinds ==
  ASSUME OfficeTypes, NEW c \in Calls
  PROVE  /\ task[c] \in TaskType
         /\ task[c].op = "login" => task[c] \in LoginTask
         /\ task[c].op = "change" => task[c] \in ChangeTask
         /\ task[c].op = "create" => task[c] \in CreateTask
         /\ task[c].op = "update" => task[c] \in UpdateTask
         /\ task[c].op = "reset" => task[c] \in ResetTask
<1>1. task[c] \in TaskType
  BY DEF OfficeTypes
<1> QED
  BY <1>1 DEF TaskType, LoginTask, ChangeTask, CreateTask, UpdateTask, ResetTask, Office!Idle

(* One account is written, and not made inactive or anything but what the    *)
(* statement says.                                                           *)
WritesAccount(u, row) == row \in Office!AccountType /\ account' = [account EXCEPT ![u] = row]
(* The role, the status and the password are what they were. *)
SameIdentity(u, row) ==
  /\ row.role = account[u].role /\ row.status = account[u].status
  /\ row.password = account[u].password

(* What the writing steps write. *)
AttemptsRow(old, attempts, locked) == [old EXCEPT !.attempts = attempts, !.locked = locked]
PasswordRow(old, password, must, attempts) ==
  [old EXCEPT !.password = password, !.must = must, !.attempts = attempts, !.locked = FALSE]

LEMMA AttemptsWritten ==
  ASSUME NEW old \in Office!AccountType, NEW attempts \in 0..MaxAttempts, NEW locked \in BOOLEAN
  PROVE  LET row == AttemptsRow(old, attempts, locked) IN
         /\ row \in Office!AccountType
         /\ row.role = old.role /\ row.status = old.status /\ row.password = old.password
         /\ row.attempts = attempts /\ row.locked = locked
BY DEF Office!AccountType, AttemptsRow

LEMMA PasswordWritten ==
  ASSUME NEW old \in Office!AccountType, NEW password \in 1..MaxPasswords, NEW must \in BOOLEAN,
         NEW attempts \in 0..MaxAttempts
  PROVE  LET row == PasswordRow(old, password, must, attempts) IN
         /\ row \in Office!AccountType
         /\ row.role = old.role /\ row.status = old.status /\ row.password = password
         /\ row.attempts = attempts
BY DEF Office!AccountType, PasswordRow

LEMMA LoginCommitWrites ==
  ASSUME OfficeAssumption, OfficeInv, NEW c \in Calls, Office!LoginCommit(c)
  PROVE  \E row : /\ WritesAccount(task[c].user, row) /\ SameIdentity(task[c].user, row)
                  /\ row.attempts = 0 /\ ~ row.locked
<1> DEFINE u == task[c].user
<1>1. account[u] \in Office!AccountType
  BY DEF OfficeInv, AccountsStand, Office!LoginCommit
<1>r. PICK row : row = AttemptsRow(account[u], 0, FALSE)
  OBVIOUS
<1>2. row \in Office!AccountType /\ SameIdentity(u, row) /\ row.attempts = 0 /\ ~ row.locked
  <2>1. 0 \in 0..MaxAttempts
    BY DEF OfficeAssumption
  <2> HIDE DEF u
  <2> QED
    BY <1>1, <1>r, <2>1, AttemptsWritten DEF SameIdentity
<1>3. account' = [account EXCEPT ![u] = row]
  BY <1>r DEF AttemptsRow, Office!LoginCommit, OfficeInv, OfficeTypes, Office!TypeOK
<1> QED
  BY <1>2, <1>3 DEF WritesAccount

LEMMA LoginRefusedWrites ==
  ASSUME OfficeAssumption, OfficeInv, NEW c \in Calls, Office!LoginRefused(c)
  PROVE  \/ account' = account /\ tried' = tried
         \/ \E row : /\ task[c].user \in Staff /\ ~ account[task[c].user].locked
                     /\ WritesAccount(task[c].user, row) /\ SameIdentity(task[c].user, row)
                     /\ row.attempts = IF account[task[c].user].attempts < MaxAttempts
                                       THEN account[task[c].user].attempts + 1 ELSE MaxAttempts
                     /\ row.locked = (row.attempts >= MaxAttempts)
                     /\ tried' = [tried EXCEPT ![task[c].user] = tried[task[c].user] + 1]
<1> DEFINE u == task[c].user
           attempts == IF account[u].attempts < MaxAttempts THEN account[u].attempts + 1
                       ELSE MaxAttempts
           locked == attempts >= MaxAttempts
<1>r. PICK row : row = AttemptsRow(account[u], attempts, locked)
  OBVIOUS
<1>1. account[u] \in Office!AccountType /\ u \in Staff
  BY TaskKinds DEF OfficeInv, AccountsStand, Office!LoginRefused, LoginTask
<1>2. attempts \in 0..MaxAttempts
  BY <1>1 DEF Office!AccountType, OfficeAssumption
<1>3. row \in Office!AccountType /\ SameIdentity(u, row) /\ row.attempts = attempts
      /\ row.locked = locked
  <2>1. locked \in BOOLEAN
    OBVIOUS
  <2> HIDE DEF u, attempts, locked
  <2> QED
    BY <1>1, <1>2, <1>r, <2>1, AttemptsWritten DEF SameIdentity
<1>4. \/ account' = account /\ tried' = tried
      \/ /\ account' = [account EXCEPT ![u] = row] /\ ~ account[u].locked
         /\ tried' = [tried EXCEPT ![u] = tried[u] + 1]
  BY <1>1, <1>r DEF AttemptsRow, Office!LoginRefused, OfficeInv, OfficeTypes, Office!TypeOK, Office!Claimable
<1> QED
  BY <1>1, <1>3, <1>4 DEF WritesAccount

(* The password is changed, by its owner or by an administrator. *)
LEMMA NewPasswordWrites ==
  ASSUME OfficeAssumption, OfficeInv, NEW c \in Calls,
         Office!ChangeCommit(c) \/ Office!ResetCommit(c)
  PROVE  \E row : /\ task[c].user \in Staff
                  /\ WritesAccount(task[c].user, row)
                  /\ row.role = account[task[c].user].role
                  /\ row.status = account[task[c].user].status
                  /\ row.password = account[task[c].user].password + 1
                  /\ row.attempts = 0
                  /\ tried' = [tried EXCEPT ![task[c].user] = 0]
<1> DEFINE u == task[c].user
           old == account[u]
<1>1. old \in Office!AccountType /\ u \in Staff
  BY TaskKinds DEF OfficeInv, AccountsStand, Office!ChangeCommit, Office!ResetCommit,
     ChangeTask, ResetTask
<1>2. old.password < MaxPasswords
  BY DEF Office!ChangeCommit, Office!ResetCommit, Office!Unchanged
<1>3. old.password + 1 \in 1..MaxPasswords
  BY <1>1, <1>2 DEF Office!AccountType, OfficeAssumption
<1>4. PICK must \in BOOLEAN : Office!SetPassword(u, must)
  BY DEF Office!ChangeCommit, Office!ResetCommit
<1>r. PICK row : row = PasswordRow(old, old.password + 1, must, 0)
  OBVIOUS
<1>5. /\ row \in Office!AccountType /\ row.role = old.role /\ row.status = old.status
      /\ row.password = old.password + 1 /\ row.attempts = 0
  <2>1. 0 \in 0..MaxAttempts
    BY DEF OfficeAssumption
  <2> HIDE DEF old
  <2> QED
    BY <1>1, <1>3, <1>r, <2>1, PasswordWritten
<1>6. account' = [account EXCEPT ![u] = row]
  BY <1>1, <1>4, <1>r DEF PasswordRow, Office!SetPassword, Office!AccountType, OfficeInv, OfficeTypes, Office!TypeOK
<1>7. tried' = [tried EXCEPT ![u] = 0]
  BY DEF Office!ChangeCommit, Office!ResetCommit
<1> QED
  BY <1>1, <1>5, <1>6, <1>7 DEF WritesAccount

LEMMA UpdateCommitWrites ==
  ASSUME OfficeAssumption, OfficeInv, NEW c \in Calls, Office!UpdateCommit(c)
  PROVE  \E row : /\ task[c].user \in Staff /\ task[c] \in UpdateTask
                  /\ WritesAccount(task[c].user, row)
                  /\ row.role = Office!Field(task[c].role, account[task[c].user].role)
                  /\ row.status = Office!Field(task[c].status, account[task[c].user].status)
                  /\ row.password = account[task[c].user].password
                  /\ row.attempts = account[task[c].user].attempts
                  /\ row.locked = account[task[c].user].locked
<1> DEFINE u == task[c].user
           old == account[u]
           role == Office!Field(task[c].role, old.role)
           status == Office!Field(task[c].status, old.status)
           row == [old EXCEPT !.role = role, !.status = status]
<1>1. old \in Office!AccountType /\ task[c] \in UpdateTask /\ u \in Staff
  BY TaskKinds DEF OfficeInv, AccountsStand, Office!UpdateCommit, UpdateTask
<1>2. role \in Office!Roles /\ status \in {"ACTIVE", "DISABLED"}
  BY <1>1 DEF Office!Field, UpdateTask, Office!AccountType
<1> HIDE DEF role, status
<1>3. /\ row \in Office!AccountType /\ row.role = role /\ row.status = status
      /\ row.password = old.password /\ row.attempts = old.attempts /\ row.locked = old.locked
  BY <1>1, <1>2 DEF Office!AccountType
<1>4. account' = [account EXCEPT ![u] = row]
  BY <1>1 DEF Office!UpdateCommit, Office!AccountType, OfficeInv, OfficeTypes, Office!TypeOK,
     role, status
<1> QED
  BY <1>1, <1>3, <1>4 DEF WritesAccount, role, status

(* A new account, of the bootstrap script or of an administrator. *)
LEMMA NewAccountWrites ==
  ASSUME OfficeAssumption, OfficeInv, NEW u \in Staff, NEW role \in Office!Roles,
         account' = [account EXCEPT ![u] = Office!NewAccount(role)]
  PROVE  \E row : /\ WritesAccount(u, row)
                  /\ row.role = role /\ row.status = "ACTIVE"
                  /\ row.attempts = 0 /\ ~ row.locked
<1>1. 1 \in 1..MaxPasswords /\ 0 \in 0..MaxAttempts
  BY DEF OfficeAssumption
<1>2. Office!NewAccount(role) \in Office!AccountType
  BY <1>1 DEF Office!NewAccount, Office!AccountType
<1>r. PICK row : row = Office!NewAccount(role)
  OBVIOUS
<1>3. row.role = role /\ row.status = "ACTIVE" /\ row.attempts = 0 /\ ~ row.locked
  BY <1>r DEF Office!NewAccount
<1> QED
  BY <1>2, <1>r, <1>3 DEF WritesAccount

LEMMA UnlockWrites ==
  ASSUME OfficeAssumption, OfficeInv, NEW u \in Staff, Office!Unlock(u)
  PROVE  \E row : /\ WritesAccount(u, row) /\ SameIdentity(u, row)
                  /\ row.attempts = account[u].attempts
<1>1. account[u] \in Office!AccountType
  BY DEF OfficeInv, OfficeTypes, Office!TypeOK, Office!Unlock, Office!Exists
<1>2. account[u].attempts \in 0..MaxAttempts
  BY <1>1 DEF Office!AccountType
<1>r. PICK row : row = AttemptsRow(account[u], account[u].attempts, FALSE)
  OBVIOUS
<1>3. row \in Office!AccountType /\ SameIdentity(u, row) /\ row.attempts = account[u].attempts
  BY <1>1, <1>2, <1>r, AttemptsWritten DEF SameIdentity
<1>4. account' = [account EXCEPT ![u] = row]
  BY <1>1, <1>r DEF AttemptsRow, Office!Unlock, OfficeInv, OfficeTypes, Office!TypeOK, Office!AccountType
<1> QED
  BY <1>3, <1>4 DEF WritesAccount

(* Every step leaves the accounts alone or writes one row of the type.       *)
LEMMA AccountsWritten ==
  ASSUME OfficeAssumption, OfficeInv, [Office!Next]_(Office!vars)
  PROVE  \/ account' = account
         \/ \E u \in Staff : \E row : WritesAccount(u, row)
<1>1. CASE \E u \in Staff : Office!bootstrap(u)
  <2>1. "ADMIN" \in Office!Roles
    BY DEF Office!Roles
  <2> QED BY <1>1, <2>1, NewAccountWrites DEF Office!bootstrap
<1>2. CASE \E u \in Staff : Office!Unlock(u)
  BY <1>2, UnlockWrites
<1>3. ASSUME NEW c \in Calls, Office!LoginCommit(c)
      PROVE  \E u \in Staff : \E row : WritesAccount(u, row)
  BY <1>3, LoginCommitWrites, TaskKinds DEF OfficeInv, Office!LoginCommit, LoginTask
<1>4. ASSUME NEW c \in Calls, Office!LoginRefused(c)
      PROVE  account' = account \/ \E u \in Staff : \E row : WritesAccount(u, row)
  BY <1>4, LoginRefusedWrites
<1>5. ASSUME NEW c \in Calls, Office!ChangeCommit(c) \/ Office!ResetCommit(c)
      PROVE  \E u \in Staff : \E row : WritesAccount(u, row)
  BY <1>5, NewPasswordWrites
<1>6. ASSUME NEW c \in Calls, Office!CreateCommit(c)
      PROVE  \E u \in Staff : \E row : WritesAccount(u, row)
  <2>1. task[c] \in CreateTask
    BY <1>6, TaskKinds DEF OfficeInv, Office!CreateCommit
  <2>2. task[c].user \in Staff /\ task[c].role \in Office!Roles
    BY <2>1 DEF CreateTask
  <2> QED BY <1>6, <2>2, NewAccountWrites DEF Office!CreateCommit
<1>7. ASSUME NEW c \in Calls, Office!UpdateCommit(c)
      PROVE  \E u \in Staff : \E row : WritesAccount(u, row)
  BY <1>7, UpdateCommitWrites
<1> QED
  BY <1>1, <1>2, <1>3, <1>4, <1>5, <1>6, <1>7
  DEF Office!Next, Office!vars, Office!LoginRead, Office!Abandon, Office!logout,
      Office!SessionExpires, Office!ChangeRead, Office!ResetRead, Office!CreateRead,
      Office!UpdateRead

LEMMA AccountsStay ==
  ASSUME OfficeAssumption, OfficeInv, [Office!Next]_(Office!vars),
         NEW u \in Staff, account[u] \in Office!AccountType
  PROVE  account'[u] \in Office!AccountType
BY AccountsWritten DEF WritesAccount, OfficeInv, OfficeTypes, Office!TypeOK

(* A session after a step: opened by a login, carried on, or gone.           *)
Opens(c) ==
  [user |-> task[c].user, password |-> task[c].password, role |-> account[task[c].user].role]
LEMMA SessionsWritten ==
  ASSUME OfficeAssumption, OfficeInv, [Office!Next]_(Office!vars)
  PROVE  /\ session' \in [1..MaxSessions -> Office!SessionType \cup {None}]
         /\ opened' \in 0..MaxSessions
         /\ \A s \in 1..MaxSessions :
              \/ session'[s] = None
              \/ session[s] # None /\ session'[s].user = session[s].user
              \/ \E c \in Calls : Office!LoginCommit(c) /\ session'[s] = Opens(c)
<1> DEFINE Carried ==
             \A s \in 1..MaxSessions :
               \/ session'[s] = None
               \/ session[s] # None /\ session'[s].user = session[s].user
           Typed == session' \in [1..MaxSessions -> Office!SessionType \cup {None}]
<1>0. /\ session \in [1..MaxSessions -> Office!SessionType \cup {None}]
      /\ opened \in 0..MaxSessions /\ MaxSessions \in Nat
  BY DEF OfficeInv, OfficeTypes, Office!TypeOK, OfficeAssumption
<1>1. ASSUME NEW ids, session' = Office!Without(ids)
      PROVE  Typed /\ Carried
  BY <1>0, <1>1 DEF Office!Without
<1>2. ASSUME session' = session
      PROVE  Typed /\ Carried
  BY <1>0, <1>2
<1>3. ASSUME NEW c \in Calls, Office!LoginCommit(c)
      PROVE  /\ Typed /\ opened' \in 0..MaxSessions
             /\ \A s \in 1..MaxSessions : session'[s] = session[s] \/ session'[s] = Opens(c)
  <2>1. task[c] \in LoginTask /\ account[task[c].user] \in Office!AccountType
    BY <1>3, TaskKinds DEF OfficeInv, AccountsStand, Office!LoginCommit
  <2>2. task[c].user \in Staff /\ task[c].password \in 1..MaxPasswords
    BY <2>1 DEF LoginTask
  <2>3. account[task[c].user].role \in Office!Roles
    BY <2>1 DEF Office!AccountType
  <2>4. Opens(c) \in Office!SessionType
    BY <2>2, <2>3 DEF Opens, Office!SessionType
  <2>5. session' = [session EXCEPT ![opened + 1] = Opens(c)]
        /\ opened' = opened + 1 /\ opened < MaxSessions
    BY <1>3 DEF Opens, Office!LoginCommit
  <2> QED BY <1>0, <2>4, <2>5
<1>4. ASSUME NEW c \in Calls, Office!ChangeCommit(c)
      PROVE  Typed /\ Carried
  <2> DEFINE kept(s) == [session[s] EXCEPT !.password = task[c].password + 1]
  <2>1. task[c] \in ChangeTask
    BY <1>4, TaskKinds DEF OfficeInv, Office!ChangeCommit
  <2>2. task[c].password \in 1..MaxPasswords /\ task[c].password < MaxPasswords
    BY <1>4, <2>1 DEF ChangeTask, Office!ChangeCommit
  <2>3. task[c].password + 1 \in 1..MaxPasswords
    BY <2>2 DEF OfficeAssumption
  <2>4. \A s \in 1..MaxSessions : session[s] # None =>
          kept(s) \in Office!SessionType /\ kept(s).user = session[s].user
    <3> SUFFICES ASSUME NEW s \in 1..MaxSessions, session[s] # None
                 PROVE  kept(s) \in Office!SessionType /\ kept(s).user = session[s].user
      OBVIOUS
    <3>1. session[s] \in Office!SessionType
      BY <1>0
    <3> QED BY <2>3, <3>1 DEF Office!SessionType
  <2>5. session' = [s \in 1..MaxSessions |->
                      IF s \in Office!SessionsOf(task[c].user)
                        THEN IF s = task[c].session THEN kept(s) ELSE None
                        ELSE session[s]]
    BY <1>0, <1>4 DEF Office!ChangeCommit
  <2>6. \A s \in Office!SessionsOf(task[c].user) : session[s] # None
    BY DEF Office!SessionsOf, Office!Live
  <2> HIDE DEF kept
  <2> QED BY <1>0, <2>4, <2>5, <2>6
<1>5. CASE \E c \in Calls : Office!UpdateCommit(c) \/ Office!ResetCommit(c)
  BY <1>0, <1>1, <1>2, <1>5 DEF Office!UpdateCommit, Office!ResetCommit
<1>6. CASE \E s \in 1..MaxSessions : Office!logout(s) \/ Office!SessionExpires(s)
  BY <1>0, <1>1, <1>6 DEF Office!logout, Office!SessionExpires
<1>7. CASE \E c \in Calls : Office!LoginRefused(c) \/ Office!CreateCommit(c) \/ Office!Abandon(c)
  BY <1>0, <1>2, <1>7 DEF Office!LoginRefused, Office!CreateCommit, Office!Abandon
<1>8. CASE \E u \in Staff : Office!bootstrap(u) \/ Office!Unlock(u)
  BY <1>0, <1>2, <1>8 DEF Office!bootstrap, Office!Unlock
<1>9. CASE opened' = opened /\ session' = session
  BY <1>0, <1>2, <1>9
<1>10. \/ \E c \in Calls : Office!LoginCommit(c)
       \/ \E c \in Calls : Office!ChangeCommit(c)
       \/ \E c \in Calls : Office!UpdateCommit(c) \/ Office!ResetCommit(c)
       \/ \E s \in 1..MaxSessions : Office!logout(s) \/ Office!SessionExpires(s)
       \/ \E c \in Calls : Office!LoginRefused(c) \/ Office!CreateCommit(c) \/ Office!Abandon(c)
       \/ \E u \in Staff : Office!bootstrap(u) \/ Office!Unlock(u)
       \/ opened' = opened /\ session' = session
  <2>1. ASSUME NEW c \in Calls, NEW u \in Staff, NEW right \in BOOLEAN, Office!LoginRead(c, u, right)
        PROVE  opened' = opened /\ session' = session
    BY <2>1 DEF Office!LoginRead
  <2>2. ASSUME NEW c \in Calls, NEW s \in 1..MaxSessions, Office!ChangeRead(c, s)
        PROVE  opened' = opened /\ session' = session
    BY <2>2 DEF Office!ChangeRead
  <2>3. ASSUME NEW c \in Calls, NEW s \in 1..MaxSessions, NEW u \in Staff,
               \/ Office!ResetRead(c, s, u)
               \/ \E role \in Office!Roles : Office!CreateRead(c, s, u, role)
               \/ \E role \in Office!Roles \cup {None}, status \in {"ACTIVE", "DISABLED", None} :
                    Office!UpdateRead(c, s, u, role, status)
        PROVE  opened' = opened /\ session' = session
    BY <2>3 DEF Office!ResetRead, Office!CreateRead, Office!UpdateRead
  <2>4. CASE UNCHANGED Office!vars
    BY <2>4 DEF Office!vars
  <2>5. CASE Office!Next
    BY <2>1, <2>2, <2>3, <2>5 DEF Office!Next
  <2> QED BY <2>4, <2>5
<1>11. CASE \E c \in Calls : Office!LoginCommit(c)
  BY <1>3, <1>11
<1>12. CASE \E c \in Calls : Office!ChangeCommit(c)
  BY <1>0, <1>4, <1>12 DEF Office!ChangeCommit
<1> QED
  BY <1>5, <1>6, <1>7, <1>8, <1>9, <1>10, <1>11, <1>12

(* What a request keeps is of its type, and the account that it names exists. *)
Names(w) == w.op \in {"login", "change", "update", "reset"}
Begins(c) ==
  \E w \in TaskType : /\ task' = [task EXCEPT ![c] = w]
                      /\ Names(w) => w.user \in Staff /\ account[w.user] \in Office!AccountType
LEMMA TasksWritten ==
  ASSUME OfficeAssumption, OfficeInv, [Office!Next]_(Office!vars)
  PROVE  \/ task' = task
         \/ \E c \in Calls : Begins(c)
<1>0. /\ \A u \in Staff : Office!Exists(u) => account[u] \in Office!AccountType
      /\ \A s \in 1..MaxSessions : Office!Live(s) =>
           session[s].user \in Staff /\ account[session[s].user] \in Office!AccountType
  BY DEF OfficeInv, OfficeTypes, Office!TypeOK, AccountsStand, Office!Exists, Office!Live,
     Office!SessionType
<1>1. ASSUME NEW c \in Calls, NEW u \in Staff, NEW right \in BOOLEAN, Office!LoginRead(c, u, right)
      PROVE  Begins(c)
  <2>w. PICK w : w = [op |-> "login", user |-> u, right |-> right,
                      password |-> account[u].password, status |-> account[u].status]
    OBVIOUS
  <2>1. account[u] \in Office!AccountType /\ task' = [task EXCEPT ![c] = w]
    BY <1>0, <1>1, <2>w DEF Office!LoginRead, Office!Becomes
  <2>2. account[u].password \in 1..MaxPasswords /\ account[u].status \in {"ACTIVE", "DISABLED"}
    BY <2>1 DEF Office!AccountType
  <2>3. w \in TaskType
    BY <2>2, <2>w DEF LoginTask, TaskType
  <2>4. w.user = u
    BY <2>w
  <2> QED BY <2>1, <2>3, <2>4 DEF Begins
<1>2. ASSUME NEW c \in Calls, NEW s \in 1..MaxSessions, Office!ChangeRead(c, s)
      PROVE  Begins(c)
  <2>w. PICK w : w = [op |-> "change", session |-> s, user |-> session[s].user,
                      password |-> account[session[s].user].password]
    OBVIOUS
  <2>1. /\ session[s].user \in Staff /\ account[session[s].user] \in Office!AccountType
        /\ task' = [task EXCEPT ![c] = w]
    BY <1>0, <1>2, <2>w DEF Office!ChangeRead, Office!Becomes
  <2>2. account[session[s].user].password \in 1..MaxPasswords
    BY <2>1 DEF Office!AccountType
  <2>3. w \in TaskType
    BY <2>1, <2>2, <2>w DEF ChangeTask, TaskType
  <2>4. w.user = session[s].user
    BY <2>w
  <2> QED BY <2>1, <2>3, <2>4 DEF Begins
<1>3. ASSUME NEW c \in Calls, NEW s \in 1..MaxSessions, NEW u \in Staff, Office!ResetRead(c, s, u)
      PROVE  Begins(c)
  <2>w. PICK w : w = [op |-> "reset", user |-> u]
    OBVIOUS
  <2>1. account[u] \in Office!AccountType /\ task' = [task EXCEPT ![c] = w]
    BY <1>0, <1>3, <2>w DEF Office!ResetRead, Office!Managing, Office!Becomes
  <2>2. w \in TaskType /\ w.user = u
    BY <2>w DEF ResetTask, TaskType
  <2> QED BY <2>1, <2>2 DEF Begins
<1>4. ASSUME NEW c \in Calls, NEW s \in 1..MaxSessions, NEW u \in Staff, NEW role \in Office!Roles,
             Office!CreateRead(c, s, u, role)
      PROVE  Begins(c)
  <2>w. PICK w : w = [op |-> "create", user |-> u, role |-> role]
    OBVIOUS
  <2>1. task' = [task EXCEPT ![c] = w]
    BY <1>4, <2>w DEF Office!CreateRead, Office!Becomes
  <2>2. w \in TaskType /\ ~ Names(w)
    BY <2>w DEF CreateTask, TaskType, Names
  <2> QED BY <2>1, <2>2 DEF Begins
<1>5. ASSUME NEW c \in Calls, NEW s \in 1..MaxSessions, NEW u \in Staff,
             NEW role \in Office!Roles \cup {None}, NEW status \in {"ACTIVE", "DISABLED", None},
             Office!UpdateRead(c, s, u, role, status)
      PROVE  Begins(c)
  <2>w. PICK w : w = [op |-> "update", user |-> u, role |-> role, status |-> status]
    OBVIOUS
  <2>1. account[u] \in Office!AccountType /\ task' = [task EXCEPT ![c] = w]
    BY <1>0, <1>5, <2>w DEF Office!UpdateRead, Office!Managing, Office!Becomes
  <2>2. w \in TaskType /\ w.user = u
    BY <2>w DEF UpdateTask, TaskType
  <2> QED BY <2>1, <2>2 DEF Begins
<1>6. ASSUME NEW c \in Calls, Office!Becomes(c, Office!Idle)
      PROVE  Begins(c)
  <2>1. Office!Idle \in TaskType /\ ~ Names(Office!Idle)
    BY DEF TaskType, Names, Office!Idle
  <2> QED BY <1>6, <2>1 DEF Office!Becomes, Begins
<1>7. ASSUME NEW c \in Calls,
             \/ Office!LoginCommit(c) \/ Office!LoginRefused(c) \/ Office!ChangeCommit(c)
             \/ Office!CreateCommit(c) \/ Office!UpdateCommit(c) \/ Office!ResetCommit(c)
             \/ Office!Abandon(c)
      PROVE  Office!Becomes(c, Office!Idle)
  BY <1>7 DEF Office!LoginCommit, Office!LoginRefused, Office!ChangeCommit, Office!CreateCommit,
     Office!UpdateCommit, Office!ResetCommit, Office!Abandon
<1>8. CASE UNCHANGED Office!vars
  BY <1>8 DEF Office!vars
<1>9. CASE \E u \in Staff : Office!bootstrap(u) \/ Office!Unlock(u)
  BY <1>9 DEF Office!bootstrap, Office!Unlock
<1>10. CASE \E s \in 1..MaxSessions : Office!logout(s) \/ Office!SessionExpires(s)
  BY <1>10 DEF Office!logout, Office!SessionExpires
<1> QED
  BY <1>1, <1>2, <1>3, <1>4, <1>5, <1>6, <1>7, <1>8, <1>9, <1>10 DEF Office!Next

LEMMA AccountsStandStep ==
  ASSUME OfficeAssumption, OfficeInv, [Office!Next]_(Office!vars)
  PROVE  AccountsStand' /\ task' \in [Calls -> TaskType]
<1>1. task \in [Calls -> TaskType]
  BY DEF OfficeInv, OfficeTypes
<1>2. task' \in [Calls -> TaskType]
  BY <1>1, TasksWritten DEF Begins
<1>3. ASSUME NEW c \in Calls, Names(task'[c])
      PROVE  account'[task'[c].user] \in Office!AccountType
  <2>1. Names(task[c]) => task[c].user \in Staff /\ account[task[c].user] \in Office!AccountType
    BY TaskKinds DEF OfficeInv, AccountsStand, Names, LoginTask, ChangeTask, UpdateTask, ResetTask
  <2>2. task'[c].user \in Staff /\ account[task'[c].user] \in Office!AccountType
    BY <1>1, <1>3, <2>1, TasksWritten DEF Begins
  <2>u. PICK u \in Staff : u = task'[c].user
    BY <2>2
  <2>3. account'[u] \in Office!AccountType
    BY <2>2, <2>u, AccountsStay
  <2> QED BY <2>3, <2>u
<1>4. ASSUME NEW s \in 1..MaxSessions, session'[s] # None
      PROVE  account'[session'[s].user] \in Office!AccountType
  <2>1. CASE session[s] # None /\ session'[s].user = session[s].user
    <3>1. session[s].user \in Staff /\ account[session[s].user] \in Office!AccountType
      BY <2>1 DEF OfficeInv, OfficeTypes, Office!TypeOK, AccountsStand, Office!SessionType
    <3>u. PICK u \in Staff : u = session[s].user
      BY <3>1
    <3>2. account'[u] \in Office!AccountType
      BY <3>1, <3>u, AccountsStay
    <3> QED BY <2>1, <3>2, <3>u
  <2>2. ASSUME NEW c \in Calls, Office!LoginCommit(c), session'[s] = Opens(c)
        PROVE  account'[session'[s].user] \in Office!AccountType
    <3>1. /\ task[c].user \in Staff /\ account[task[c].user] \in Office!AccountType
          /\ session'[s].user = task[c].user
      BY <2>2, TaskKinds DEF OfficeInv, AccountsStand, Office!LoginCommit, LoginTask, Opens
    <3>u. PICK u \in Staff : u = task[c].user
      BY <3>1
    <3>2. account'[u] \in Office!AccountType
      BY <3>1, <3>u, AccountsStay
    <3> QED BY <3>1, <3>2, <3>u
  <2> QED BY <1>4, <2>1, <2>2, SessionsWritten
<1> QED BY <1>2, <1>3, <1>4 DEF AccountsStand, Names

(* How the wrong passwords are counted, with what is written to the account. *)
LEMMA TriedWritten ==
  ASSUME OfficeAssumption, OfficeInv, [Office!Next]_(Office!vars)
  PROVE  /\ tried' \in [Staff -> Nat]
         /\ AttemptsCount'
<1>0. /\ tried \in [Staff -> Nat] /\ account \in [Staff -> Office!AccountType \cup {None}]
      /\ None \notin Office!AccountType /\ MaxAttempts \in Nat \ {0}
      /\ \A row \in Office!AccountType : row.attempts \in 0..MaxAttempts /\ row.locked \in BOOLEAN
  BY DEF OfficeInv, OfficeTypes, Office!TypeOK, OfficeAssumption, Office!AccountType
<1>1. ASSUME account' = account, tried' = tried
      PROVE  tried' \in [Staff -> Nat] /\ AttemptsCount'
  BY <1>0, <1>1 DEF OfficeInv, AttemptsCount
<1>2. ASSUME NEW u \in Staff, NEW row, WritesAccount(u, row), NEW n \in Nat,
             \A v \in Staff : tried'[v] = IF v = u THEN n ELSE tried[v],
             tried' \in [Staff -> Nat],
             n <= row.attempts, ~ row.locked /\ row.attempts = MaxAttempts => n = 0
      PROVE  tried' \in [Staff -> Nat] /\ AttemptsCount'
  <2>1. account' \in [Staff -> Office!AccountType \cup {None}]
        /\ \A v \in Staff : account'[v] = IF v = u THEN row ELSE account[v]
    BY <1>0, <1>2 DEF WritesAccount
  <2>2. row # None
    BY <1>0, <1>2 DEF WritesAccount
  <2> QED BY <1>0, <1>2, <2>1, <2>2 DEF OfficeInv, AttemptsCount
<1>3. ASSUME NEW u \in Staff, NEW role \in Office!Roles, account[u] = None, tried' = tried,
             account' = [account EXCEPT ![u] = Office!NewAccount(role)]
      PROVE  tried' \in [Staff -> Nat] /\ AttemptsCount'
  <2>r. PICK row : WritesAccount(u, row) /\ row.attempts = 0
    BY <1>3, NewAccountWrites
  <2>1. tried[u] = 0
    BY <1>3 DEF OfficeInv, AttemptsCount
  <2> QED BY <1>0, <1>2, <1>3, <2>1, <2>r
<1>4. CASE \E u \in Staff : Office!bootstrap(u)
  <2>1. "ADMIN" \in Office!Roles
    BY DEF Office!Roles
  <2> QED BY <1>3, <1>4, <2>1 DEF Office!bootstrap, Office!Exists
<1>5. ASSUME NEW c \in Calls, Office!CreateCommit(c)
      PROVE  tried' \in [Staff -> Nat] /\ AttemptsCount'
  <2>1. task[c].user \in Staff /\ task[c].role \in Office!Roles
    BY <1>5, TaskKinds DEF OfficeInv, Office!CreateCommit, CreateTask
  <2> QED BY <1>3, <1>5, <2>1 DEF Office!CreateCommit, Office!Exists
<1>6. ASSUME NEW u \in Staff, Office!Unlock(u)
      PROVE  tried' \in [Staff -> Nat] /\ AttemptsCount'
  <2>r. PICK row : WritesAccount(u, row) /\ row.attempts = account[u].attempts
    BY <1>6, UnlockWrites
  <2>1. tried' = [tried EXCEPT ![u] = 0]
    BY <1>6 DEF Office!Unlock
  <2>2. row.attempts \in 0..MaxAttempts
    BY <1>0, <2>r DEF WritesAccount
  <2> QED BY <1>0, <1>2, <2>1, <2>2, <2>r
<1>7. ASSUME NEW c \in Calls, Office!LoginCommit(c)
      PROVE  tried' \in [Staff -> Nat] /\ AttemptsCount'
  <2>1. task[c].user \in Staff
    BY <1>7, TaskKinds DEF OfficeInv, Office!LoginCommit, LoginTask
  <2>r. PICK row : WritesAccount(task[c].user, row) /\ row.attempts = 0
    BY <1>7, LoginCommitWrites
  <2>2. tried' = [tried EXCEPT ![task[c].user] = 0]
    BY <1>7 DEF Office!LoginCommit
  <2> QED BY <1>0, <1>2, <2>1, <2>2, <2>r
<1>8. ASSUME NEW c \in Calls, Office!LoginRefused(c)
      PROVE  tried' \in [Staff -> Nat] /\ AttemptsCount'
  <2> DEFINE u == task[c].user
  <2>1. CASE account' = account /\ tried' = tried
    BY <1>1, <2>1
  <2>2. ASSUME NEW row, u \in Staff, ~ account[u].locked, WritesAccount(u, row),
               row.attempts = IF account[u].attempts < MaxAttempts
                                THEN account[u].attempts + 1 ELSE MaxAttempts,
               row.locked = (row.attempts >= MaxAttempts),
               tried' = [tried EXCEPT ![u] = tried[u] + 1]
        PROVE  tried' \in [Staff -> Nat] /\ AttemptsCount'
    <3>1. account[u] \in Office!AccountType
      BY <1>8 DEF OfficeInv, AccountsStand, Office!LoginRefused
    <3>2. /\ account[u] # None /\ account[u].attempts \in 0..MaxAttempts
          /\ tried[u] \in Nat
      BY <1>0, <2>2, <3>1
    <3>3. /\ tried[u] <= account[u].attempts
          /\ account[u].attempts = MaxAttempts => tried[u] = 0
      BY <2>2, <3>2 DEF OfficeInv, AttemptsCount
    <3>4. tried[u] + 1 <= row.attempts
      BY <1>0, <2>2, <3>2, <3>3
    <3>5. ASSUME row.attempts = MaxAttempts PROVE row.locked
      <4>1. row.attempts >= MaxAttempts
        BY <1>0, <3>5
      <4> QED BY <2>2, <4>1
    <3>6. tried' \in [Staff -> Nat]
          /\ \A v \in Staff : tried'[v] = IF v = u THEN tried[u] + 1 ELSE tried[v]
      BY <1>0, <2>2, <3>2
    <3> HIDE DEF u
    <3> QED BY <1>2, <2>2, <3>2, <3>4, <3>5, <3>6
  <2> QED BY <1>8, <2>1, <2>2, LoginRefusedWrites
<1>9. ASSUME NEW c \in Calls, Office!ChangeCommit(c) \/ Office!ResetCommit(c)
      PROVE  tried' \in [Staff -> Nat] /\ AttemptsCount'
  <2> DEFINE u == task[c].user
  <2>r. PICK row : /\ u \in Staff /\ WritesAccount(u, row) /\ row.attempts = 0
                   /\ tried' = [tried EXCEPT ![u] = 0]
    BY <1>9, NewPasswordWrites
  <2> HIDE DEF u
  <2> QED BY <1>0, <1>2, <2>r
<1>10. ASSUME NEW c \in Calls, Office!UpdateCommit(c)
       PROVE  tried' \in [Staff -> Nat] /\ AttemptsCount'
  <2> DEFINE u == task[c].user
  <2>r. PICK row : /\ u \in Staff /\ WritesAccount(u, row) /\ row.attempts = account[u].attempts
                   /\ row.locked = account[u].locked
    BY <1>10, UpdateCommitWrites
  <2>1. account[u] \in Office!AccountType
    BY <1>10 DEF OfficeInv, AccountsStand, Office!UpdateCommit
  <2>2. tried' = tried
    BY <1>10 DEF Office!UpdateCommit
  <2> HIDE DEF u
  <2>3. /\ tried[u] <= account[u].attempts
        /\ ~ account[u].locked /\ account[u].attempts = MaxAttempts => tried[u] = 0
    BY <1>0, <2>1, <2>r DEF OfficeInv, AttemptsCount
  <2> QED BY <1>0, <1>2, <2>2, <2>3, <2>r
<1>11. CASE \E c \in Calls : Office!Abandon(c)
  BY <1>1, <1>11 DEF Office!Abandon
<1>12. CASE \E s \in 1..MaxSessions : Office!logout(s) \/ Office!SessionExpires(s)
  BY <1>1, <1>12 DEF Office!logout, Office!SessionExpires
<1>13. CASE \E c \in Calls, u \in Staff, right \in BOOLEAN : Office!LoginRead(c, u, right)
  BY <1>1, <1>13 DEF Office!LoginRead
<1>14. CASE \E c \in Calls, s \in 1..MaxSessions : Office!ChangeRead(c, s)
  BY <1>1, <1>14 DEF Office!ChangeRead
<1>15. ASSUME NEW c \in Calls, NEW s \in 1..MaxSessions, NEW u \in Staff,
              \/ Office!ResetRead(c, s, u)
              \/ \E role \in Office!Roles : Office!CreateRead(c, s, u, role)
              \/ \E role \in Office!Roles \cup {None}, status \in {"ACTIVE", "DISABLED", None} :
                   Office!UpdateRead(c, s, u, role, status)
       PROVE  tried' \in [Staff -> Nat] /\ AttemptsCount'
  BY <1>1, <1>15 DEF Office!ResetRead, Office!CreateRead, Office!UpdateRead
<1>16. CASE UNCHANGED Office!vars
  BY <1>1, <1>16 DEF Office!vars
<1> HIDE DEF AttemptsCount
<1> QED
  BY <1>4, <1>5, <1>6, <1>7, <1>8, <1>9, <1>10, <1>11, <1>12, <1>13, <1>14, <1>15, <1>16
  DEF Office!Next

LEMMA OfficeTypesStep ==
  ASSUME OfficeAssumption, OfficeInv, [Office!Next]_(Office!vars)
  PROVE  OfficeTypes'
<1>1. account' \in [Staff -> Office!AccountType \cup {None}]
  BY AccountsWritten DEF OfficeInv, OfficeTypes, Office!TypeOK, WritesAccount
<1>2. founded' \in BOOLEAN
  BY ZenonT(60) DEF OfficeInv, OfficeTypes, Office!TypeOK, Office!Next, Office!vars, Office!bootstrap,
     Office!Unlock, Office!LoginRead, Office!LoginCommit, Office!LoginRefused, Office!ChangeCommit,
     Office!CreateCommit, Office!UpdateCommit, Office!ResetCommit, Office!Abandon, Office!logout,
     Office!SessionExpires, Office!ChangeRead, Office!ResetRead, Office!CreateRead, Office!UpdateRead
<1> QED
  BY <1>1, <1>2, SessionsWritten, TriedWritten, AccountsStandStep DEF OfficeTypes, Office!TypeOK

(* A session is opened on the account that was read, unchanged, and gone or  *)
(* carried on when the account is changed.                                   *)
LEMMA SessionsAreCurrentStep ==
  ASSUME OfficeAssumption, OfficeInv, [Office!Next]_(Office!vars)
  PROVE  Office!SessionsAreCurrent'
<1> DEFINE Current(s) ==
             session'[s] # None =>
               /\ account'[session'[s].user].status = "ACTIVE"
               /\ account'[session'[s].user].password = session'[s].password
               /\ account'[session'[s].user].role = session'[s].role
           Removed(s) == session'[s] = None
           Kept(s) == session'[s] = session[s]
<1>0. /\ account \in [Staff -> Office!AccountType \cup {None}]
      /\ session \in [1..MaxSessions -> Office!SessionType \cup {None}]
      /\ \A s \in 1..MaxSessions : session[s] # None =>
           /\ session[s].user \in Staff /\ account[session[s].user] \in Office!AccountType
           /\ account[session[s].user].status = "ACTIVE"
           /\ account[session[s].user].password = session[s].password
           /\ account[session[s].user].role = session[s].role
  BY DEF OfficeInv, OfficeTypes, Office!TypeOK, AccountsStand, Office!SessionType,
     Office!SessionsAreCurrent, Office!Live
<1>s. (\A s \in 1..MaxSessions : Current(s)) => Office!SessionsAreCurrent'
  BY DEF Office!SessionsAreCurrent, Office!Live
<1>1. ASSUME account' = account, \A s \in 1..MaxSessions : Removed(s) \/ Kept(s)
      PROVE  Office!SessionsAreCurrent'
  BY <1>0, <1>1, <1>s
<1>2. ASSUME NEW u \in Staff, NEW row, WritesAccount(u, row),
             account[u] = None \/ SameIdentity(u, row),
             \A s \in 1..MaxSessions : Removed(s) \/ Kept(s)
      PROVE  Office!SessionsAreCurrent'
  <2>1. None \notin Office!AccountType
    BY DEF OfficeAssumption
  <2> QED BY <1>0, <1>2, <1>s, <2>1 DEF WritesAccount, SameIdentity
<1>3. ASSUME NEW u \in Staff, NEW row, WritesAccount(u, row),
             \A s \in 1..MaxSessions :
               Removed(s) \/ (Kept(s) /\ (session[s] # None => session[s].user # u))
      PROVE  Office!SessionsAreCurrent'
  BY <1>0, <1>3, <1>s DEF WritesAccount
<1>4. ASSUME NEW ids, session' = Office!Without(ids)
      PROVE  \A s \in 1..MaxSessions : session'[s] = IF s \in ids THEN None ELSE session[s]
  BY <1>0, <1>4 DEF Office!Without
<1>5. ASSUME NEW c \in Calls, Office!LoginCommit(c)
      PROVE  Office!SessionsAreCurrent'
  <2> DEFINE u == task[c].user
  <2>1. u \in Staff /\ account[u] \in Office!AccountType
    BY <1>5, TaskKinds DEF OfficeInv, AccountsStand, Office!LoginCommit, LoginTask
  <2>r. PICK row : WritesAccount(u, row) /\ SameIdentity(u, row)
    BY <1>5, LoginCommitWrites
  <2>2. account[u].password = task[c].password /\ account[u].status = "ACTIVE"
    BY <1>5 DEF Office!LoginCommit, Office!Claimable, Office!Unchanged
  <2>3. session' = [session EXCEPT ![opened + 1] = Opens(c)]
    BY <1>5 DEF Office!LoginCommit, Opens
  <2>4. /\ Opens(c).user = u /\ Opens(c).password = task[c].password
        /\ Opens(c).role = account[u].role
    BY DEF Opens
  <2>5. \A s \in 1..MaxSessions : session'[s] = session[s] \/ session'[s] = Opens(c)
    BY <1>0, <2>3
  <2> HIDE DEF u
  <2>6. account'[u] = row
    BY <1>0, <2>1, <2>r DEF WritesAccount
  <2>7. ASSUME NEW s \in 1..MaxSessions, session'[s] = Opens(c)
        PROVE  Current(s)
    BY <2>2, <2>4, <2>6, <2>7, <2>r DEF SameIdentity
  <2>8. ASSUME NEW s \in 1..MaxSessions, session'[s] = session[s]
        PROVE  Current(s)
    BY <1>0, <2>1, <2>8, <2>r DEF WritesAccount, SameIdentity
  <2> HIDE DEF Current
  <2> QED BY <1>s, <2>5, <2>7, <2>8
<1>6. ASSUME NEW c \in Calls, Office!ChangeCommit(c)
      PROVE  Office!SessionsAreCurrent'
  <2> DEFINE u == task[c].user
  <2>r. PICK row : /\ u \in Staff /\ WritesAccount(u, row)
                   /\ row.role = account[u].role /\ row.status = account[u].status
                   /\ row.password = account[u].password + 1
    BY <1>6, NewPasswordWrites
  <2>1. account[u].password = task[c].password /\ account[u].status = "ACTIVE"
    BY <1>6 DEF Office!ChangeCommit, Office!Unchanged
  <2>2. session' = [s \in 1..MaxSessions |->
                      IF s \in Office!SessionsOf(u)
                        THEN IF s = task[c].session
                               THEN [session[s] EXCEPT !.password = task[c].password + 1] ELSE None
                        ELSE session[s]]
    BY <1>0, <1>6 DEF Office!ChangeCommit
  <2>3. Office!SessionsOf(u) = {s \in 1..MaxSessions : session[s] # None /\ session[s].user = u}
    BY <1>0 DEF Office!SessionsOf, Office!Live
  <2> HIDE DEF u
  <2>4. account'[u] = row /\ \A v \in Staff : v # u => account'[v] = account[v]
    BY <1>0, <2>r DEF WritesAccount
  <2>5. ASSUME NEW s \in Office!SessionsOf(u) PROVE Current(s)
    <3>1. CASE s = task[c].session
      <4>1. s \in 1..MaxSessions /\ session[s] \in Office!SessionType /\ session[s].user = u
        BY <1>0, <2>3
      <4>2. session'[s] = [session[s] EXCEPT !.password = task[c].password + 1]
        BY <2>2, <3>1, <4>1
      <4>3. /\ session'[s].user = u /\ session'[s].role = session[s].role
            /\ session'[s].password = task[c].password + 1
        BY <4>1, <4>2 DEF Office!SessionType
      <4>4. account[u].role = session[s].role
        BY <1>0, <2>3
      <4> QED BY <2>1, <2>4, <2>r, <4>3, <4>4
    <3>2. CASE s # task[c].session
      BY <2>2, <2>3, <3>2
    <3> QED BY <3>1, <3>2
  <2>6. ASSUME NEW s \in 1..MaxSessions, s \notin Office!SessionsOf(u) PROVE Current(s)
    BY <1>0, <2>2, <2>3, <2>4, <2>6
  <2> HIDE DEF Current
  <2> QED BY <1>s, <2>5, <2>6
<1>7. ASSUME NEW c \in Calls, Office!ResetCommit(c)
      PROVE  Office!SessionsAreCurrent'
  <2> DEFINE u == task[c].user
  <2>r. PICK row : u \in Staff /\ WritesAccount(u, row)
    BY <1>7, NewPasswordWrites
  <2>1. session' = Office!Without(Office!SessionsOf(u))
    BY <1>7 DEF Office!ResetCommit
  <2>2. Office!SessionsOf(u) = {s \in 1..MaxSessions : session[s] # None /\ session[s].user = u}
    BY <1>0 DEF Office!SessionsOf, Office!Live
  <2> HIDE DEF u
  <2>3. \A s \in 1..MaxSessions : session'[s] = IF s \in Office!SessionsOf(u) THEN None ELSE session[s]
    BY <1>4, <2>1
  <2>4. \A s \in 1..MaxSessions :
          Removed(s) \/ (Kept(s) /\ (session[s] # None => session[s].user # u))
    BY <2>2, <2>3
  <2> HIDE DEF Removed, Kept
  <2> QED BY <1>3, <2>4, <2>r
<1>8. ASSUME NEW c \in Calls, Office!UpdateCommit(c)
      PROVE  Office!SessionsAreCurrent'
  <2> DEFINE u == task[c].user
  <2>r. PICK row : /\ u \in Staff /\ task[c] \in UpdateTask /\ WritesAccount(u, row)
                   /\ row.role = Office!Field(task[c].role, account[u].role)
                   /\ row.status = Office!Field(task[c].status, account[u].status)
                   /\ row.password = account[u].password
    BY <1>8, UpdateCommitWrites
  <2>2. Office!SessionsOf(u) = {s \in 1..MaxSessions : session[s] # None /\ session[s].user = u}
    BY <1>0 DEF Office!SessionsOf, Office!Live
  <2>3. session' = IF Office!Revokes(task[c]) THEN Office!Without(Office!SessionsOf(u)) ELSE session
    BY <1>8 DEF Office!UpdateCommit
  <2>4. ~ Office!Revokes(task[c]) => SameIdentity(u, row)
    BY <2>r DEF Office!Revokes, Office!Field, SameIdentity
  <2> HIDE DEF u
  <2>5. CASE Office!Revokes(task[c])
    <3>1. session' = Office!Without(Office!SessionsOf(u))
      BY <2>3, <2>5
    <3>2. \A s \in 1..MaxSessions : session'[s] = IF s \in Office!SessionsOf(u) THEN None ELSE session[s]
      BY <1>4, <3>1
    <3>3. \A s \in 1..MaxSessions :
            Removed(s) \/ (Kept(s) /\ (session[s] # None => session[s].user # u))
      BY <2>2, <3>2
    <3> HIDE DEF Removed, Kept
    <3> QED BY <1>3, <2>r, <3>3
  <2>6. CASE ~ Office!Revokes(task[c])
    BY <1>2, <2>3, <2>4, <2>6, <2>r
  <2> QED BY <2>5, <2>6
<1>9. ASSUME NEW c \in Calls, Office!LoginRefused(c)
      PROVE  Office!SessionsAreCurrent'
  <2>1. session' = session
    BY <1>9 DEF Office!LoginRefused
  <2> QED BY <1>1, <1>2, <1>9, <2>1, LoginRefusedWrites
<1>10. ASSUME NEW u \in Staff, NEW role \in Office!Roles, account[u] = None, session' = session,
              account' = [account EXCEPT ![u] = Office!NewAccount(role)]
       PROVE  Office!SessionsAreCurrent'
  BY <1>2, <1>10, NewAccountWrites
<1>11. CASE \E u \in Staff : Office!bootstrap(u)
  <2>1. "ADMIN" \in Office!Roles
    BY DEF Office!Roles
  <2> QED BY <1>10, <1>11, <2>1 DEF Office!bootstrap, Office!Exists
<1>12. ASSUME NEW c \in Calls, Office!CreateCommit(c)
       PROVE  Office!SessionsAreCurrent'
  <2>1. task[c].user \in Staff /\ task[c].role \in Office!Roles
    BY <1>12, TaskKinds DEF OfficeInv, Office!CreateCommit, CreateTask
  <2> QED BY <1>10, <1>12, <2>1 DEF Office!CreateCommit, Office!Exists
<1>13. ASSUME NEW u \in Staff, Office!Unlock(u)
       PROVE  Office!SessionsAreCurrent'
  <2>1. session' = session
    BY <1>13 DEF Office!Unlock
  <2> QED BY <1>2, <1>13, <2>1, UnlockWrites
<1>14. CASE \E s \in 1..MaxSessions : Office!logout(s) \/ Office!SessionExpires(s)
  BY <1>1, <1>4, <1>14 DEF Office!logout, Office!SessionExpires
<1>15. CASE account' = account /\ session' = session
  BY <1>1, <1>15
<1>16. CASE \E c \in Calls : Office!Abandon(c)
  BY <1>15, <1>16 DEF Office!Abandon
<1>17. CASE \E c \in Calls, u \in Staff, right \in BOOLEAN : Office!LoginRead(c, u, right)
  BY <1>15, <1>17 DEF Office!LoginRead
<1>18. CASE \E c \in Calls, s \in 1..MaxSessions : Office!ChangeRead(c, s)
  BY <1>15, <1>18 DEF Office!ChangeRead
<1>19. ASSUME NEW c \in Calls, NEW s \in 1..MaxSessions, NEW u \in Staff,
              \/ Office!ResetRead(c, s, u)
              \/ \E role \in Office!Roles : Office!CreateRead(c, s, u, role)
              \/ \E role \in Office!Roles \cup {None}, status \in {"ACTIVE", "DISABLED", None} :
                   Office!UpdateRead(c, s, u, role, status)
       PROVE  Office!SessionsAreCurrent'
  BY <1>15, <1>19 DEF Office!ResetRead, Office!CreateRead, Office!UpdateRead
<1>20. CASE UNCHANGED Office!vars
  BY <1>15, <1>20 DEF Office!vars
<1> QED
  BY <1>5, <1>6, <1>7, <1>8, <1>9, <1>11, <1>12, <1>13, <1>14, <1>16, <1>17, <1>18, <1>19, <1>20
  DEF Office!Next

(* An administrator goes only while another one is active. *)
LEMMA AdminRemainsStep ==
  ASSUME OfficeAssumption, OfficeInv, [Office!Next]_(Office!vars)
  PROVE  Office!AdminRemains'
<1> DEFINE admin(u) ==
             account[u] # None /\ account[u].status = "ACTIVE" /\ account[u].role = "ADMIN"
           nextAdmin(u) ==
             account'[u] # None /\ account'[u].status = "ACTIVE" /\ account'[u].role = "ADMIN"
<1>0. /\ account \in [Staff -> Office!AccountType \cup {None}] /\ None \notin Office!AccountType
      /\ Office!activeAdmins = {u \in Staff : admin(u)}
      /\ Office!AdminRemains' <=> (founded' => \E u \in Staff : nextAdmin(u))
      /\ founded => \E u \in Staff : admin(u)
  BY DEF OfficeInv, OfficeTypes, Office!TypeOK, OfficeAssumption, Office!AdminRemains,
     Office!activeAdmins, Office!Active, Office!Exists
<1>1. ASSUME founded' = founded, \A u \in Staff : admin(u) => nextAdmin(u)
      PROVE  Office!AdminRemains'
  BY <1>0, <1>1
<1>2. ASSUME founded' = founded, account' = account
      PROVE  Office!AdminRemains'
  BY <1>1, <1>2
<1>3. ASSUME NEW u \in Staff, NEW row, WritesAccount(u, row), founded' = founded,
             admin(u) => row.role = account[u].role /\ row.status = account[u].status
      PROVE  Office!AdminRemains'
  BY <1>0, <1>1, <1>3 DEF WritesAccount
<1>4. CASE \E u \in Staff : Office!bootstrap(u)
  <2>1. "ADMIN" \in Office!Roles
    BY DEF Office!Roles
  <2>u. PICK u \in Staff : Office!bootstrap(u)
    BY <1>4
  <2>r. PICK row : WritesAccount(u, row) /\ row.role = "ADMIN" /\ row.status = "ACTIVE"
    BY <2>1, <2>u, NewAccountWrites, ZenonT(60) DEF Office!bootstrap
  <2>2. nextAdmin(u)
    BY <1>0, <2>r DEF WritesAccount
  <2> QED BY <1>0, <2>2
<1>5. ASSUME NEW c \in Calls, Office!CreateCommit(c)
      PROVE  Office!AdminRemains'
  <2>1. task[c].user \in Staff /\ task[c].role \in Office!Roles
    BY <1>5, TaskKinds DEF OfficeInv, Office!CreateCommit, CreateTask
  <2>r. PICK row : WritesAccount(task[c].user, row)
    BY <1>5, <2>1, NewAccountWrites DEF Office!CreateCommit
  <2> QED BY <1>3, <1>5, <2>1, <2>r DEF Office!CreateCommit, Office!Exists
<1>6. ASSUME NEW c \in Calls, Office!LoginCommit(c)
      PROVE  Office!AdminRemains'
  <2>1. task[c].user \in Staff
    BY <1>6, TaskKinds DEF OfficeInv, Office!LoginCommit, LoginTask
  <2>2. founded' = founded
    BY <1>6 DEF Office!LoginCommit
  <2> QED BY <1>3, <1>6, <2>1, <2>2, LoginCommitWrites DEF SameIdentity
<1>7. ASSUME NEW c \in Calls, Office!LoginRefused(c)
      PROVE  Office!AdminRemains'
  <2>1. founded' = founded
    BY <1>7 DEF Office!LoginRefused
  <2> QED BY <1>2, <1>3, <1>7, <2>1, LoginRefusedWrites DEF SameIdentity
<1>8. ASSUME NEW c \in Calls, Office!ChangeCommit(c) \/ Office!ResetCommit(c)
      PROVE  Office!AdminRemains'
  <2>1. founded' = founded
    BY <1>8 DEF Office!ChangeCommit, Office!ResetCommit
  <2> QED BY <1>3, <1>8, <2>1, NewPasswordWrites
<1>9. ASSUME NEW u \in Staff, Office!Unlock(u)
      PROVE  Office!AdminRemains'
  <2>1. founded' = founded
    BY <1>9 DEF Office!Unlock
  <2> QED BY <1>3, <1>9, <2>1, UnlockWrites DEF SameIdentity
<1>10. ASSUME NEW c \in Calls, Office!UpdateCommit(c)
       PROVE  Office!AdminRemains'
  <2> DEFINE u == task[c].user
  <2>r. PICK row : /\ u \in Staff /\ task[c] \in UpdateTask /\ WritesAccount(u, row)
                   /\ row.role = Office!Field(task[c].role, account[u].role)
                   /\ row.status = Office!Field(task[c].status, account[u].status)
    BY <1>10, UpdateCommitWrites
  <2>1. founded' = founded /\ Office!LeavesAdmin(task[c])
    BY <1>10 DEF Office!UpdateCommit
  <2>2. CASE admin(u) /\ (task[c].role = "USER" \/ task[c].status = "DISABLED")
    <3>1. Office!Cardinality(Office!activeAdmins) > 1 /\ u \in Office!activeAdmins
      BY <1>0, <2>1, <2>2, <2>r DEF Office!LeavesAdmin
    <3>2. PICK v \in Office!activeAdmins : v # u
      <4>1. Cardinality(Office!activeAdmins) > 1
        BY <3>1 DEF Office!Cardinality, Cardinality
      <4>2. Cardinality({u}) = 1
        BY FS_Singleton
      <4> HIDE DEF u
      <4>3. Office!activeAdmins # {u}
        BY <4>1, <4>2
      <4> QED BY <3>1, <4>3
    <3>3. v \in Staff /\ admin(v) /\ account'[v] = account[v]
      BY <1>0, <2>r, <3>2 DEF WritesAccount
    <3> QED BY <1>0, <3>3
  <2>3. CASE ~ (admin(u) /\ (task[c].role = "USER" \/ task[c].status = "DISABLED"))
    <3>1. admin(u) => row.role = account[u].role /\ row.status = account[u].status
      BY <2>3, <2>r DEF Office!Field, UpdateTask, Office!Roles
    <3> HIDE DEF u
    <3> QED BY <1>3, <2>1, <2>r, <3>1
  <2> QED BY <2>2, <2>3
<1>11. CASE \E c \in Calls : Office!Abandon(c)
  BY <1>2, <1>11 DEF Office!Abandon
<1>12. CASE \E s \in 1..MaxSessions : Office!logout(s) \/ Office!SessionExpires(s)
  BY <1>2, <1>12 DEF Office!logout, Office!SessionExpires
<1>13. CASE \E c \in Calls, u \in Staff, right \in BOOLEAN : Office!LoginRead(c, u, right)
  BY <1>2, <1>13 DEF Office!LoginRead
<1>14. CASE \E c \in Calls, s \in 1..MaxSessions : Office!ChangeRead(c, s)
  BY <1>2, <1>14 DEF Office!ChangeRead
<1>15. ASSUME NEW c \in Calls, NEW s \in 1..MaxSessions, NEW u \in Staff,
              \/ Office!ResetRead(c, s, u)
              \/ \E role \in Office!Roles : Office!CreateRead(c, s, u, role)
              \/ \E role \in Office!Roles \cup {None}, status \in {"ACTIVE", "DISABLED", None} :
                   Office!UpdateRead(c, s, u, role, status)
       PROVE  Office!AdminRemains'
  BY <1>2, <1>15 DEF Office!ResetRead, Office!CreateRead, Office!UpdateRead
<1>16. CASE UNCHANGED Office!vars
  BY <1>2, <1>16 DEF Office!vars
<1> QED
  BY <1>4, <1>5, <1>6, <1>7, <1>8, <1>9, <1>10, <1>11, <1>12, <1>13, <1>14, <1>15, <1>16
  DEF Office!Next

LEMMA OfficeInit ==
  ASSUME OfficeAssumption, Office!Init
  PROVE  OfficeInv
<1>1. Office!Idle \in TaskType /\ 0 \in 0..MaxSessions /\ ~ Names(Office!Idle)
  BY DEF TaskType, OfficeAssumption, Names, Office!Idle
<1>2. OfficeTypes
  BY <1>1 DEF OfficeTypes, Office!TypeOK, Office!Init
<1>3. AccountsStand
  BY <1>1 DEF AccountsStand, Office!Init, Names
<1> QED
  BY <1>2, <1>3 DEF OfficeInv, AttemptsCount, Office!Init, Office!SessionsAreCurrent, Office!Live,
     Office!AdminRemains

LEMMA OfficeInvariant == OfficeAssumption /\ Office!Spec => []OfficeInv
<1>1. CASE OfficeAssumption
  <2>1. Office!Init => OfficeInv
    BY <1>1, OfficeInit
  <2>2. OfficeInv /\ [Office!Next]_(Office!vars) => OfficeInv'
    BY <1>1, OfficeTypesStep, AccountsStandStep, TriedWritten, SessionsAreCurrentStep, AdminRemainsStep
    DEF OfficeInv
  <2> QED BY <2>1, <2>2, PTL DEF Office!Spec
<1> QED BY <1>1

(* Every variable of Dashboard keeps its type.                               *)
THEOREM OfficeTyped == OfficeAssumption /\ Office!Spec => []Office!TypeOK
<1>1. OfficeInv => Office!TypeOK
  BY DEF OfficeInv, OfficeTypes
<1> QED BY <1>1, OfficeInvariant, PTL

(* A session's account is active, with the role and password of the session, *)
(* however signing in overlaps disabling, demoting and resetting.            *)
THEOREM SessionsFollowAccounts == OfficeAssumption /\ Office!Spec => []Office!SessionsAreCurrent
<1>1. OfficeInv => Office!SessionsAreCurrent
  BY DEF OfficeInv
<1> QED BY <1>1, OfficeInvariant, PTL

(* Once there has been an administrator there always is an active one, for   *)
(* any number of administrators who demote and disable each other at once.   *)
THEOREM AdministratorRemains == OfficeAssumption /\ Office!Spec => []Office!AdminRemains
<1>1. OfficeInv => Office!AdminRemains
  BY DEF OfficeInv
<1> QED BY <1>1, OfficeInvariant, PTL

(* Between two unlockings of an account no more than the permitted number of *)
(* wrong passwords is compared.                                              *)
THEOREM GuessesBounded == OfficeAssumption /\ Office!Spec => []Office!GuessesAreBounded
<1>1. CASE OfficeAssumption
  <2>1. OfficeInv => Office!GuessesAreBounded
    <3> SUFFICES ASSUME OfficeInv, NEW u \in Staff PROVE tried[u] <= MaxAttempts
      BY DEF Office!GuessesAreBounded
    <3>1. tried[u] \in Nat /\ MaxAttempts \in Nat
      BY <1>1 DEF OfficeInv, OfficeTypes, OfficeAssumption
    <3>2. CASE account[u] = None
      BY <3>1, <3>2 DEF OfficeInv, AttemptsCount
    <3>3. CASE account[u] # None
      <4>1. account[u].attempts \in 0..MaxAttempts
        BY <3>3 DEF OfficeInv, OfficeTypes, Office!TypeOK, Office!AccountType
      <4> QED BY <3>1, <3>3, <4>1 DEF OfficeInv, AttemptsCount
    <3> QED BY <3>2, <3>3
  <2> QED BY <2>1, OfficeInvariant, PTL
<1> QED BY <1>1

-----------------------------------------------------------------------------
(***************************************************************************)
(* The verification of a creator, for any persons, firms, accounts, checks *)
(* and reviews, and any number of handlers that overlap.                   *)
(***************************************************************************)
CONSTANTS
  Hooks, Persons, Firms, Accounts, NameMatch, DirectorMatch, Owners,
  KycReviews, PayoutReviews, MaxRequests  \* as in Kyc

VARIABLES profile, kyc, alat, request, vouched  \* as in Kyc

Creator == INSTANCE Kyc WITH work <- task

ProfileType ==
  [account : Accounts, owner : {"PERSONAL", "BUSINESS"}, status : Creator!ProfileStatuses,
   tier : Creator!Tiers]
CreatorAssumption ==
  /\ MaxRequests \in Nat
  /\ Owners \subseteq {"PERSONAL", "BUSINESS"}
  /\ KycReviews \subseteq Creator!Statuses \X (Creator!Matches \cup {"NOT_CHECKED"}) \X Creator!Tiers
  /\ PayoutReviews \subseteq Creator!ProfileStatuses
  /\ None \notin ProfileType

(* Whom the provider has verified for this creator. *)
Identified == {d \in Persons : Creator!Passed("identity", d)}
Registered == {f \in Firms : Creator!Passed("business", f)}
Faced == \E d \in Persons \cup {None} : Creator!Passed("liveness", d)

(* The fields of a KYC row, all of them or those that a handler has computed *)
(* and is to write, and what they may say when staff have approved (v), the  *)
(* persons I and the firms B are verified and a face check was passed (F).   *)
(* A review that refuses writes back a status it has read, perhaps onto a row *)
(* that names another by then.                                               *)
FieldOk(f, x) ==
  /\ f \in {"status", "business", "identity", "liveness", "dedup"} => x \in Creator!Statuses
  /\ f = "person" => x \in Persons \cup {None}
  /\ f = "firm" => x \in Firms \cup {None}
  /\ f \in {"tier", "target"} => x \in Creator!Tiers
  /\ f \in {"identityCheck", "businessCheck", "livenessCheck"} => x \in Creator!Requests
Typed(k) == \A f \in DOMAIN k : FieldOk(f, k[f])
TierOk(tier, v, I, B, F) ==
  (tier = "FULL" => F) /\ (tier # "NONE" => v \/ I # {} \/ B # {})
Sound(k, v, I, B, F) ==
  /\ "person" \in DOMAIN k => "identity" \in DOMAIN k
  /\ "firm" \in DOMAIN k => "business" \in DOMAIN k
  /\ "identity" \in DOMAIN k /\ k.identity = "VERIFIED" =>
       \/ v \/ ("person" \in DOMAIN k /\ k.person \in I)
       \/ Creator!Refusals /\ I # {}
  /\ "business" \in DOMAIN k /\ k.business = "VERIFIED" =>
       \/ v \/ ("firm" \in DOMAIN k /\ k.firm \in B)
       \/ Creator!Refusals /\ B # {}
  /\ "liveness" \in DOMAIN k /\ k.liveness = "VERIFIED" => F
  /\ "tier" \in DOMAIN k => TierOk(k.tier, v, I, B, F)
SoundProfile(p, v, I, B, F) ==
  /\ DOMAIN p \subseteq {"account", "owner", "status", "tier"}
  /\ "account" \in DOMAIN p => p.account \in Accounts
  /\ "owner" \in DOMAIN p => p.owner \in {"PERSONAL", "BUSINESS"}
  /\ "tier" \in DOMAIN p => p.tier \in Creator!Tiers /\ TierOk(p.tier, v, I, B, F)
  /\ "status" \in DOMAIN p =>
       p.status \in Creator!ProfileStatuses /\ (p.status = "ACTIVE" => v \/ I # {} \/ B # {})

RequestTypes ==
  [kind : {"identity"}, subject : Persons, answer : Creator!Answers]
    \cup [kind : {"business"}, subject : Firms, answer : Creator!Answers]
    \cup [kind : {"liveness"}, subject : Persons \cup {None}, answer : Creator!Answers]

(* A handler in flight is to write sound fields. *)
Writing == {"kyc", "profile", "hook"}
Saving == {"payout", "payout2"}
HandlerOk(w, v, I, B, F) ==
  /\ w.op \in Writing =>
       /\ w = [op |-> w.op, kyc |-> w.kyc, profile |-> w.profile]
       /\ Typed(w.kyc) /\ Sound(w.kyc, v, I, B, F) /\ SoundProfile(w.profile, v, I, B, F)
  /\ w.op \in Saving =>
       /\ w = [op |-> w.op, profile |-> w.profile, kyc |-> w.kyc, closeAlat |-> w.closeAlat]
       /\ Typed(w.kyc) /\ Sound(w.kyc, v, I, B, F) /\ SoundProfile(w.profile, v, I, B, F)
       /\ w.profile \in ProfileType

CreatorInv ==
  /\ request \in Seq(RequestTypes) /\ Len(request) <= MaxRequests
  /\ alat \in BOOLEAN /\ vouched \in BOOLEAN
  /\ DOMAIN kyc = DOMAIN Creator!NewKyc
  /\ Typed(kyc) /\ Sound(kyc, vouched, Identified, Registered, Faced)
  /\ profile # None =>
       profile \in ProfileType /\ SoundProfile(profile, vouched, Identified, Registered, Faced)
  /\ task = [c \in Creator!Tasks |-> task[c]]
  /\ \A c \in Creator!Tasks :
       /\ HandlerOk(task[c], vouched, Identified, Registered, Faced)
       /\ task[c].op \in Writing => profile # None

-----------------------------------------------------------------------------
(* Fields stay sound when more has been verified, and when they are merged.  *)
LEMMA SoundGrows ==
  ASSUME NEW v, NEW I, NEW B, NEW F, NEW v2, NEW I2, NEW B2, NEW F2,
         v => v2, I \subseteq I2, B \subseteq B2, F => F2
  PROVE  /\ \A t : TierOk(t, v, I, B, F) => TierOk(t, v2, I2, B2, F2)
         /\ \A k : Sound(k, v, I, B, F) => Sound(k, v2, I2, B2, F2)
         /\ \A p : SoundProfile(p, v, I, B, F) => SoundProfile(p, v2, I2, B2, F2)
         /\ \A w : HandlerOk(w, v, I, B, F) => HandlerOk(w, v2, I2, B2, F2)
<1>1. \A t : TierOk(t, v, I, B, F) => TierOk(t, v2, I2, B2, F2)
  BY DEF TierOk
<1>2. \A k : Sound(k, v, I, B, F) => Sound(k, v2, I2, B2, F2)
  BY <1>1 DEF Sound
<1>3. \A p : SoundProfile(p, v, I, B, F) => SoundProfile(p, v2, I2, B2, F2)
  BY <1>1 DEF SoundProfile
<1>4. \A w : HandlerOk(w, v, I, B, F) => HandlerOk(w, v2, I2, B2, F2)
  BY <1>2, <1>3 DEF HandlerOk
<1> QED BY <1>1, <1>2, <1>3, <1>4

LEMMA SoundWith ==
  ASSUME NEW r, NEW s, NEW v, NEW I, NEW B, NEW F,
         Typed(r), Sound(r, v, I, B, F), Typed(s), Sound(s, v, I, B, F)
  PROVE  LET k == Creator!With(r, s) IN Typed(k) /\ Sound(k, v, I, B, F)
<1>k. PICK k : k = Creator!With(r, s)
  OBVIOUS
<1>1. /\ DOMAIN k = DOMAIN r \cup DOMAIN s
      /\ \A f \in DOMAIN k : k[f] = IF f \in DOMAIN s THEN s[f] ELSE r[f]
  BY <1>k DEF Creator!With
<1>2. Typed(k)
  BY <1>1 DEF Typed
<1>3. Sound(k, v, I, B, F)
  BY <1>1 DEF Sound
<1> QED BY <1>2, <1>3, <1>k

LEMMA SoundMerge ==
  ASSUME NEW r, NEW s, NEW v, NEW I, NEW B, NEW F,
         Typed(r), Sound(r, v, I, B, F), Typed(s), Sound(s, v, I, B, F),
         {"person", "firm", "identity", "business"} \subseteq DOMAIN r
  PROVE  LET k == Creator!Merge(r, s) IN DOMAIN k = DOMAIN r /\ Typed(k) /\ Sound(k, v, I, B, F)
<1>k. PICK k : k = Creator!Merge(r, s)
  OBVIOUS
<1>1. /\ DOMAIN k = DOMAIN r
      /\ \A f \in DOMAIN k : k[f] = IF f \in DOMAIN s THEN s[f] ELSE r[f]
  BY <1>k DEF Creator!Merge
<1>2. Typed(k)
  BY <1>1 DEF Typed
<1>3. Sound(k, v, I, B, F)
  BY <1>1 DEF Sound
<1> QED BY <1>1, <1>2, <1>3, <1>k

LEMMA ProfileMerge ==
  ASSUME NEW r \in ProfileType, NEW s, NEW v, NEW I, NEW B, NEW F,
         SoundProfile(r, v, I, B, F), SoundProfile(s, v, I, B, F)
  PROVE  LET p == Creator!Merge(r, s) IN p \in ProfileType /\ SoundProfile(p, v, I, B, F)
<1>p. PICK p : p = Creator!Merge(r, s)
  OBVIOUS
<1>0. /\ DOMAIN r = {"account", "owner", "status", "tier"}
      /\ r.account \in Accounts /\ r.owner \in {"PERSONAL", "BUSINESS"}
      /\ r.status \in Creator!ProfileStatuses /\ r.tier \in Creator!Tiers
  BY DEF ProfileType
<1>1. /\ DOMAIN p = DOMAIN r
      /\ p = [f \in DOMAIN r |-> p[f]]
      /\ \A f \in DOMAIN p : p[f] = IF f \in DOMAIN s THEN s[f] ELSE r[f]
  BY <1>p DEF Creator!Merge
<1>2. SoundProfile(p, v, I, B, F)
  BY <1>0, <1>1 DEF SoundProfile
<1>3. p \in ProfileType
  BY <1>0, <1>1, <1>2 DEF SoundProfile, ProfileType
<1> QED BY <1>2, <1>3, <1>p

(* Checks are added and decided, never taken back. *)
LEMMA Asked ==
  ASSUME CreatorAssumption, CreatorInv, NEW kind, NEW subject, NEW answer,
         [kind |-> kind, subject |-> subject, answer |-> answer] \in RequestTypes,
         Creator!Ask(kind, subject, answer)
  PROVE  /\ request' \in Seq(RequestTypes) /\ Len(request') \in 1..MaxRequests
         /\ \A k, x : Creator!Passed(k, x) => Creator!Passed(k, x)'
         /\ answer = "VERIFIED" => Creator!Passed(kind, subject)'
<1>r. PICK r : r = [kind |-> kind, subject |-> subject, answer |-> answer]
  OBVIOUS
<1>1. request' = Append(request, r) /\ Len(request) < MaxRequests /\ r \in RequestTypes
  BY <1>r DEF Creator!Ask
<1>2. request \in Seq(RequestTypes) /\ MaxRequests \in Nat
  BY DEF CreatorInv, CreatorAssumption
<1>3. /\ request' \in Seq(RequestTypes) /\ Len(request') = Len(request) + 1
      /\ \A n \in DOMAIN request : n \in DOMAIN request' /\ request'[n] = request[n]
      /\ Len(request') \in DOMAIN request' /\ request'[Len(request')] = r
  BY <1>1, <1>2
<1>4. Len(request') \in 1..MaxRequests
  BY <1>1, <1>2, <1>3
<1> QED BY <1>3, <1>4, <1>r DEF Creator!Passed

LEMMA Decided ==
  ASSUME CreatorAssumption, CreatorInv, NEW n \in DOMAIN request, NEW answer \in Creator!Answers,
         Creator!Decide(n, answer)
  PROVE  /\ request' \in Seq(RequestTypes) /\ Len(request') <= MaxRequests
         /\ \A k, x : Creator!Passed(k, x) => Creator!Passed(k, x)'
<1>1. request \in Seq(RequestTypes) /\ Len(request) <= MaxRequests
  BY DEF CreatorInv
<1>o. PICK old \in RequestTypes : old = request[n]
  BY <1>1
<1>r. PICK r : r = [old EXCEPT !.answer = answer]
  OBVIOUS
<1>2. r \in RequestTypes
  BY <1>r DEF RequestTypes
<1>3. request' = [request EXCEPT ![n] = r] /\ old.answer # "VERIFIED"
  BY <1>o, <1>r DEF Creator!Decide, RequestTypes
<1>4. /\ request' \in Seq(RequestTypes) /\ Len(request') = Len(request)
      /\ DOMAIN request' = DOMAIN request
      /\ \A m \in DOMAIN request : request'[m] = IF m = n THEN r ELSE request[m]
  BY <1>1, <1>2, <1>3
<1>5. ASSUME NEW k, NEW x, NEW m \in DOMAIN request,
             request[m] = [kind |-> k, subject |-> x, answer |-> "VERIFIED"]
      PROVE  Creator!Passed(k, x)'
  <2>1. request[m].answer = "VERIFIED"
    BY <1>5
  <2>2. m # n
    BY <1>3, <1>o, <2>1
  <2>3. m \in DOMAIN request' /\ request'[m] = [kind |-> k, subject |-> x, answer |-> "VERIFIED"]
    BY <1>4, <1>5, <2>2
  <2> QED BY <2>3 DEF Creator!Passed
<1> QED BY <1>1, <1>4, <1>5 DEF Creator!Passed

LEMMA KycFields ==
  ASSUME CreatorInv
  PROVE  /\ {kyc.status, kyc.business, kyc.identity, kyc.liveness, kyc.dedup} \subseteq Creator!Statuses
         /\ kyc.person \in Persons \cup {None} /\ kyc.firm \in Firms \cup {None}
         /\ kyc.tier \in Creator!Tiers /\ kyc.target \in Creator!Tiers
         /\ {kyc.identityCheck, kyc.businessCheck, kyc.livenessCheck} \subseteq Creator!Requests
         /\ kyc.identity = "VERIFIED" =>
              vouched \/ kyc.person \in Identified \/ (Creator!Refusals /\ Identified # {})
         /\ kyc.business = "VERIFIED" =>
              vouched \/ kyc.firm \in Registered \/ (Creator!Refusals /\ Registered # {})
         /\ kyc.liveness = "VERIFIED" => Faced
         /\ TierOk(kyc.tier, vouched, Identified, Registered, Faced)
<1>1. DOMAIN kyc = DOMAIN Creator!NewKyc /\ Typed(kyc)
      /\ Sound(kyc, vouched, Identified, Registered, Faced)
  BY DEF CreatorInv
<1>2. {"owner", "mode", "status", "business", "identity", "liveness", "dedup", "match", "person",
       "firm", "identityCheck", "businessCheck", "livenessCheck", "tier", "target", "cache"}
        \subseteq DOMAIN kyc
  BY <1>1 DEF Creator!NewKyc
<1>3. \A f \in DOMAIN kyc : FieldOk(f, kyc[f])
  BY <1>1 DEF Typed
<1> QED BY <1>1, <1>2, <1>3 DEF Sound, FieldOk

(* What is known never shrinks. *)
LEMMA KnownStays ==
  ASSUME CreatorAssumption, CreatorInv, [Creator!Next]_(Creator!vars)
  PROVE  /\ request' \in Seq(RequestTypes) /\ Len(request') <= MaxRequests
         /\ vouched' \in BOOLEAN
         /\ vouched => vouched'
         /\ Identified \subseteq Identified' /\ Registered \subseteq Registered'
         /\ Faced => Faced'
<1> DEFINE Grown == /\ request' \in Seq(RequestTypes) /\ Len(request') <= MaxRequests
                    /\ \A k, x : Creator!Passed(k, x) => Creator!Passed(k, x)'
<1>1. ASSUME request' = request PROVE Grown
  BY <1>1 DEF Creator!Passed, CreatorInv
<1>2. ASSUME NEW kind, NEW subject, NEW answer \in Creator!Answers,
             \/ kind = "identity" /\ subject \in Persons
             \/ kind = "business" /\ subject \in Firms
             \/ kind = "liveness" /\ subject \in Persons \cup {None},
             Creator!Ask(kind, subject, answer)
      PROVE  Grown
  <2>1. [kind |-> kind, subject |-> subject, answer |-> answer] \in RequestTypes
    BY <1>2 DEF RequestTypes
  <2> QED BY <1>2, <2>1, Asked DEF CreatorAssumption
<1>3. ASSUME NEW c \in Calls, NEW d \in Persons,
             Creator!StartPersonalKyc(c, d) \/ Creator!StartBusinessRepresentativeKyc(c, d)
      PROVE  Grown
  <2>1. request' = request \/ \E answer \in Creator!Answers : Creator!Ask("identity", d, answer)
    BY <1>3 DEF Creator!StartPersonalKyc, Creator!StartBusinessRepresentativeKyc, Creator!verifyNin
  <2> HIDE DEF Grown
  <2> QED BY <1>1, <1>2, <2>1
<1>4. ASSUME NEW c \in Calls, NEW f \in Firms, Creator!StartBusinessKyc(c, f)
      PROVE  Grown
  <2>1. request' = request \/ \E answer \in Creator!Answers : Creator!Ask("business", f, answer)
    BY <1>4 DEF Creator!StartBusinessKyc, Creator!verifyCacBasic
  <2> HIDE DEF Grown
  <2> QED BY <1>1, <1>2, <2>1
<1>5. ASSUME NEW c \in Calls, Creator!SubmitPersonalLiveness(c)
      PROVE  Grown
  <2>1. \E answer \in Creator!Answers : Creator!Ask("liveness", kyc.person, answer)
    BY <1>5 DEF Creator!SubmitPersonalLiveness, Creator!verifyLiveness
  <2>2. kyc.person \in Persons \cup {None}
    BY KycFields
  <2> HIDE DEF Grown
  <2> QED BY <1>2, <2>1, <2>2
<1>6. ASSUME NEW n \in DOMAIN request, NEW answer \in Creator!Answers, Creator!Decide(n, answer)
      PROVE  Grown
  BY <1>6, Decided
<1>a. ASSUME NEW c \in Calls, NEW a \in Accounts, NEW o \in Owners,
             Creator!UpsertPayoutProfile(c, a, o)
      PROVE  request' = request /\ vouched' = vouched
  BY <1>a DEF Creator!UpsertPayoutProfile
<1>b. ASSUME NEW c,
             \/ Creator!SavePayoutProfile(c) \/ Creator!SavePayoutKyc(c) \/ Creator!CloseAlat(c)
             \/ Creator!WriteKyc(c) \/ Creator!WriteProfile(c) \/ Creator!WebhookWrite(c)
             \/ Creator!Abandon(c)
      PROVE  request' = request /\ vouched' = vouched
  BY <1>b DEF Creator!SavePayoutProfile, Creator!SavePayoutKyc, Creator!CloseAlat,
     Creator!WriteKyc, Creator!WriteProfile, Creator!WebhookWrite, Creator!Abandon
<1>c. ASSUME NEW c \in Calls, NEW tier, Creator!SubmitKyc(c, tier)
      PROVE  request' = request /\ vouched' = vouched
  BY <1>c DEF Creator!SubmitKyc
<1>d. ASSUME NEW c, NEW r, Creator!WebhookIdentity(c, r)
      PROVE  request' = request /\ vouched' = vouched
  BY <1>d DEF Creator!WebhookIdentity
<1>e. ASSUME NEW c, NEW r, Creator!WebhookBusiness(c, r)
      PROVE  request' = request /\ vouched' = vouched
  BY <1>e DEF Creator!WebhookBusiness
<1>f. ASSUME NEW c, NEW r, Creator!WebhookLiveness(c, r)
      PROVE  request' = request /\ vouched' = vouched
  BY <1>f DEF Creator!WebhookLiveness
<1>g. ASSUME NEW c, NEW s, NEW m, NEW t, Creator!ReviewKyc(c, s, m, t)
      PROVE  request' = request /\ vouched' = (vouched \/ s = "VERIFIED")
  BY <1>g DEF Creator!ReviewKyc
<1>h. ASSUME NEW s, Creator!ReviewPayoutProfile(s)
      PROVE  request' = request /\ vouched' = (vouched \/ s = "ACTIVE")
  BY <1>h DEF Creator!ReviewPayoutProfile
<1>i. ASSUME NEW active, Creator!UpsertAlatProfile(active)
      PROVE  request' = request /\ vouched' = vouched
  BY <1>i DEF Creator!UpsertAlatProfile
<1>j. ASSUME NEW c \in Calls, NEW d \in Persons,
             Creator!StartPersonalKyc(c, d) \/ Creator!StartBusinessRepresentativeKyc(c, d)
      PROVE  vouched' = vouched
  BY <1>j DEF Creator!StartPersonalKyc, Creator!StartBusinessRepresentativeKyc
<1>k. ASSUME NEW c \in Calls, NEW f \in Firms, Creator!StartBusinessKyc(c, f)
      PROVE  vouched' = vouched
  BY <1>k DEF Creator!StartBusinessKyc
<1>l. ASSUME NEW c \in Calls, Creator!SubmitPersonalLiveness(c)
      PROVE  vouched' = vouched
  BY <1>l DEF Creator!SubmitPersonalLiveness
<1>m. ASSUME NEW n, NEW answer, Creator!Decide(n, answer)
      PROVE  vouched' = vouched
  BY <1>m DEF Creator!Decide
<1> DEFINE Keeps == vouched' = vouched \/ \E b \in BOOLEAN : vouched' = (vouched \/ b)
<1>n. ASSUME NEW c, NEW s, NEW m, NEW t, Creator!ReviewKyc(c, s, m, t)
      PROVE  Keeps
  <2>1. (s = "VERIFIED") \in BOOLEAN
    OBVIOUS
  <2> QED BY <1>g, <1>n, <2>1
<1>o. ASSUME NEW s, Creator!ReviewPayoutProfile(s)
      PROVE  Keeps
  <2>1. (s = "ACTIVE") \in BOOLEAN
    OBVIOUS
  <2> QED BY <1>h, <1>o, <2>1
<1>p. ASSUME vouched' = vouched PROVE Keeps
  BY <1>p
<1>q. ASSUME UNCHANGED Creator!vars PROVE request' = request /\ vouched' = vouched
  BY <1>q DEF Creator!vars
<1> HIDE DEF Grown, Keeps
<1>7. Grown /\ Keeps
  <2>1. CASE UNCHANGED Creator!vars
    BY <1>1, <1>p, <1>q, <2>1
  <2>2. CASE \E c \in Calls :
       \/ \E a \in Accounts, o \in Owners : Creator!UpsertPayoutProfile(c, a, o)
       \/ Creator!SavePayoutProfile(c) \/ Creator!SavePayoutKyc(c) \/ Creator!CloseAlat(c)
       \/ "PERSONAL" \in Owners /\ \E d \in Persons : Creator!StartPersonalKyc(c, d)
       \/ \E d \in Persons : Creator!StartBusinessRepresentativeKyc(c, d)
       \/ \E f \in Firms : Creator!StartBusinessKyc(c, f)
       \/ Creator!SubmitPersonalLiveness(c)
       \/ \E tier \in {"BASIC", "FULL"} : Creator!SubmitKyc(c, tier)
       \/ Creator!WriteKyc(c) \/ Creator!WriteProfile(c)
    BY <1>1, <1>3, <1>4, <1>5, <1>a, <1>b, <1>c, <1>j, <1>k, <1>l, <1>p, <2>2
  <2>3. CASE \E c \in Hooks :
       \/ \E r \in DOMAIN request :
            Creator!WebhookIdentity(c, r) \/ Creator!WebhookBusiness(c, r) \/ Creator!WebhookLiveness(c, r)
       \/ \E v \in KycReviews : Creator!ReviewKyc(c, v[1], v[2], v[3])
       \/ Creator!WebhookWrite(c)
    BY <1>1, <1>b, <1>d, <1>e, <1>f, <1>g, <1>n, <1>p, <2>3
  <2>4. CASE \E c \in Creator!Tasks : Creator!Abandon(c)
    BY <1>1, <1>b, <1>p, <2>4
  <2>5. CASE \E r \in DOMAIN request, answer \in Creator!Answers : Creator!Decide(r, answer)
    BY <1>6, <1>m, <1>p, <2>5
  <2>6. CASE \E status \in PayoutReviews : Creator!ReviewPayoutProfile(status)
    BY <1>1, <1>h, <1>o, <2>6
  <2>7. CASE \E active \in BOOLEAN : Creator!UpsertAlatProfile(active)
    BY <1>1, <1>i, <1>p, <2>7
  <2> QED BY <2>1, <2>2, <2>3, <2>4, <2>5, <2>6, <2>7 DEF Creator!Next
<1>9. vouched' \in BOOLEAN /\ (vouched => vouched')
  BY <1>7 DEF CreatorInv, Keeps
<1>11. \A k, x : Creator!Passed(k, x) => Creator!Passed(k, x)'
  BY <1>7 DEF Grown
<1>12. Identified \subseteq Identified' /\ Registered \subseteq Registered' /\ (Faced => Faced')
  BY <1>11 DEF Identified, Registered, Faced
<1> QED BY <1>7, <1>9, <1>12 DEF Grown

(* ... so what was earned stays earned, and what a handler carries stays sound. *)
LEMMA SoundStays ==
  ASSUME CreatorAssumption, CreatorInv, [Creator!Next]_(Creator!vars)
  PROVE  /\ \A t : TierOk(t, vouched, Identified, Registered, Faced)
                   => TierOk(t, vouched', Identified', Registered', Faced')
         /\ \A k : Sound(k, vouched, Identified, Registered, Faced)
                   => Sound(k, vouched', Identified', Registered', Faced')
         /\ \A p : SoundProfile(p, vouched, Identified, Registered, Faced)
                   => SoundProfile(p, vouched', Identified', Registered', Faced')
         /\ \A w : HandlerOk(w, vouched, Identified, Registered, Faced)
                   => HandlerOk(w, vouched', Identified', Registered', Faced')
<1>k. /\ vouched => vouched'
      /\ Identified \subseteq Identified' /\ Registered \subseteq Registered'
      /\ Faced => Faced'
  BY KnownStays
<1>1. \A t : TierOk(t, vouched, Identified, Registered, Faced)
              => TierOk(t, vouched', Identified', Registered', Faced')
  BY <1>k DEF TierOk
<1>2. \A k : Sound(k, vouched, Identified, Registered, Faced)
              => Sound(k, vouched', Identified', Registered', Faced')
  BY <1>k, <1>1 DEF Sound
<1>3. \A p : SoundProfile(p, vouched, Identified, Registered, Faced)
              => SoundProfile(p, vouched', Identified', Registered', Faced')
  BY <1>k, <1>1 DEF SoundProfile
<1>4. \A w : HandlerOk(w, vouched, Identified, Registered, Faced)
              => HandlerOk(w, vouched', Identified', Registered', Faced')
  BY <1>2, <1>3 DEF HandlerOk
<1> QED BY <1>1, <1>2, <1>3, <1>4

(* A task is replaced: what the other handlers carry stays sound. *)
LEMMA WorkReplaced ==
  ASSUME CreatorAssumption, CreatorInv, [Creator!Next]_(Creator!vars),
         NEW c \in Creator!Tasks, NEW w, task' = [task EXCEPT ![c] = w],
         HandlerOk(w, vouched', Identified', Registered', Faced'),
         w.op \in Writing => profile' # None, profile # None => profile' # None
  PROVE  /\ task' = [t \in Creator!Tasks |-> task'[t]]
         /\ \A t \in Creator!Tasks :
              /\ HandlerOk(task'[t], vouched', Identified', Registered', Faced')
              /\ task'[t].op \in Writing => profile' # None
<1>1. /\ task = [t \in Creator!Tasks |-> task[t]]
      /\ \A t \in Creator!Tasks :
           /\ HandlerOk(task[t], vouched, Identified, Registered, Faced)
           /\ task[t].op \in Writing => profile # None
  BY DEF CreatorInv
<1>g. \A w2 : HandlerOk(w2, vouched, Identified, Registered, Faced)
               => HandlerOk(w2, vouched', Identified', Registered', Faced')
  BY SoundStays
<1>2. \A t \in Creator!Tasks : HandlerOk(task[t], vouched', Identified', Registered', Faced')
  BY <1>1, <1>g
<1>3. /\ task' = [t \in Creator!Tasks |-> task'[t]]
      /\ \A t \in Creator!Tasks : task'[t] = IF t = c THEN w ELSE task[t]
  BY <1>1
<1> QED BY <1>1, <1>2, <1>3

(* The rows stay sound while nobody writes them. *)
LEMMA RowsStay ==
  ASSUME CreatorAssumption, CreatorInv, [Creator!Next]_(Creator!vars)
  PROVE  /\ kyc' = kyc =>
              /\ DOMAIN kyc' = DOMAIN Creator!NewKyc /\ Typed(kyc')
              /\ Sound(kyc', vouched', Identified', Registered', Faced')
         /\ profile' = profile /\ profile' # None =>
              /\ profile' \in ProfileType
              /\ SoundProfile(profile', vouched', Identified', Registered', Faced')
<1>1. /\ DOMAIN kyc = DOMAIN Creator!NewKyc
      /\ Typed(kyc) /\ Sound(kyc, vouched, Identified, Registered, Faced)
      /\ profile # None =>
           profile \in ProfileType /\ SoundProfile(profile, vouched, Identified, Registered, Faced)
  BY DEF CreatorInv
<1>2. Sound(kyc, vouched', Identified', Registered', Faced')
  BY <1>1, SoundStays
<1>3. profile # None => SoundProfile(profile, vouched', Identified', Registered', Faced')
  BY <1>1, SoundStays
<1> QED BY <1>1, <1>2, <1>3

(* A handler that has read and asked leaves a plan; the rows are as they were. *)
LEMMA Planned ==
  ASSUME CreatorAssumption, CreatorInv, [Creator!Next]_(Creator!vars),
         NEW c \in Creator!Tasks, NEW w, task' = [task EXCEPT ![c] = w],
         HandlerOk(w, vouched', Identified', Registered', Faced'),
         w.op \in Writing => profile # None, UNCHANGED <<profile, kyc, alat>>
  PROVE  CreatorInv'
<1>1. /\ task' = [t \in Creator!Tasks |-> task'[t]]
      /\ \A t \in Creator!Tasks :
           /\ HandlerOk(task'[t], vouched', Identified', Registered', Faced')
           /\ task'[t].op \in Writing => profile' # None
  <2>1. /\ w.op \in Writing => profile' # None
        /\ profile # None => profile' # None
    OBVIOUS
  <2> QED BY <2>1, WorkReplaced
<1>2. /\ DOMAIN kyc' = DOMAIN Creator!NewKyc /\ Typed(kyc')
      /\ Sound(kyc', vouched', Identified', Registered', Faced')
      /\ profile' # None =>
           /\ profile' \in ProfileType
           /\ SoundProfile(profile', vouched', Identified', Registered', Faced')
  BY RowsStay
<1>3. alat' \in BOOLEAN
  BY DEF CreatorInv
<1>4. request' \in Seq(RequestTypes) /\ Len(request') <= MaxRequests /\ vouched' \in BOOLEAN
  BY KnownStays
<1> HIDE DEF Creator!Tasks
<1> QED BY <1>1, <1>2, <1>3, <1>4 DEF CreatorInv

LEMMA PlanOk ==
  ASSUME NEW op \in Writing, NEW k, NEW p, NEW v, NEW I, NEW B, NEW F,
         Typed(k), Sound(k, v, I, B, F), SoundProfile(p, v, I, B, F)
  PROVE  HandlerOk([op |-> op, kyc |-> k, profile |-> p], v, I, B, F)
<1>w. PICK w : w = [op |-> op, kyc |-> k, profile |-> p]
  OBVIOUS
<1>1. w.op = op /\ w.kyc = k /\ w.profile = p /\ op \notin Saving
  BY <1>w DEF Writing, Saving
<1>2. w = [op |-> w.op, kyc |-> w.kyc, profile |-> w.profile]
  BY <1>w
<1>3. HandlerOk(w, v, I, B, F)
  BY <1>1, <1>2 DEF HandlerOk
<1> QED BY <1>3, <1>w

LEMMA RestOk ==
  ASSUME NEW w, NEW v, NEW I, NEW B, NEW F, w.op \notin Writing \cup Saving
  PROVE  HandlerOk(w, v, I, B, F)
BY DEF HandlerOk

(* What an outcome adds to a row, and to the profile. *)
OutcomeOk(out, v, I, B, F) ==
  /\ out.status \in Creator!Statuses /\ out.state \in Creator!ProfileStatuses
  /\ out.tier \in Creator!Tiers /\ TierOk(out.tier, v, I, B, F)
  /\ out.state = "ACTIVE" => v \/ I # {} \/ B # {}

LEMMA PlanRowOk ==
  ASSUME NEW c, NEW row, NEW out, NEW v, NEW I, NEW B, NEW F,
         Typed(row), Sound(row, v, I, B, F), OutcomeOk(out, v, I, B, F),
         row.owner \in {"PERSONAL", "BUSINESS"}, Creator!PlanRow(c, row, out)
  PROVE  \E w : /\ task' = [task EXCEPT ![c] = w] /\ HandlerOk(w, v, I, B, F)
<1>s. PICK s : s = [status |-> out.status, tier |-> out.tier]
  OBVIOUS
<1>p. PICK p : p = [owner |-> row.owner, status |-> out.state, tier |-> out.tier]
  OBVIOUS
<1>k. PICK k : k = Creator!With(row, s)
  OBVIOUS
<1>1. Typed(s) /\ Sound(s, v, I, B, F)
  BY <1>s DEF Typed, FieldOk, Sound, OutcomeOk
<1>2. Typed(k) /\ Sound(k, v, I, B, F)
  BY <1>1, <1>k, SoundWith
<1>3. SoundProfile(p, v, I, B, F)
  BY <1>p DEF SoundProfile, OutcomeOk
<1>4. task' = [task EXCEPT ![c] = [op |-> "kyc", kyc |-> k, profile |-> p]]
  BY <1>s, <1>p, <1>k DEF Creator!PlanRow, Creator!Plan
<1>5. HandlerOk([op |-> "kyc", kyc |-> k, profile |-> p], v, I, B, F)
  BY <1>2, <1>3, PlanOk DEF Writing
<1> QED BY <1>4, <1>5

LEMMA PayoutStates ==
  ASSUME NEW owner, NEW k
  PROVE  LET s == Creator!deriveVerificationWorkflowStatus(owner, k) IN
           s \in Creator!Statuses \ {"VERIFIED"}
BY DEF Creator!deriveVerificationWorkflowStatus, Creator!Statuses

LEMMA PayoutStateOf ==
  ASSUME NEW s \in Creator!Statuses
  PROVE  /\ Creator!derivePayoutState(s) \in Creator!ProfileStatuses
         /\ s # "VERIFIED" => Creator!derivePayoutState(s) # "ACTIVE"
BY DEF Creator!derivePayoutState, Creator!ProfileStatuses

LEMMA PersonalRowOk ==
  ASSUME CreatorAssumption, NEW identity \in Creator!Statuses, NEW person \in Persons \cup {None},
         NEW dedup \in Creator!Statuses, NEW check \in Creator!Requests, NEW d,
         NEW v, NEW I, NEW B, NEW F, NEW duplicate,
         identity = "VERIFIED" => v \/ person \in I \/ (Creator!Refusals /\ I # {})
  PROVE  LET row == Creator!PersonalRow(identity, person, dedup, check, d) IN
           /\ Typed(row) /\ Sound(row, v, I, B, F) /\ row.owner \in {"PERSONAL", "BUSINESS"}
           /\ OutcomeOk(Creator!PersonalOutcome(row, duplicate), v, I, B, F)
<1>r. PICK row : row = Creator!PersonalRow(identity, person, dedup, check, d)
  OBVIOUS
<1>1. /\ DOMAIN row = {"owner", "mode", "identity", "person", "firm", "business", "liveness",
            "livenessCheck", "dedup", "match", "identityCheck", "target", "cache"}
      /\ row.owner = "PERSONAL" /\ row.identity = identity /\ row.person = person
      /\ row.firm = None /\ row.business = "NOT_STARTED" /\ row.liveness = "NOT_STARTED"
      /\ row.livenessCheck = 0 /\ row.dedup = dedup /\ row.identityCheck = check
      /\ row.target = "BASIC"
  BY <1>r DEF Creator!PersonalRow
<1>2. 0 \in Creator!Requests /\ "NOT_STARTED" \in Creator!Statuses /\ "BASIC" \in Creator!Tiers
  BY DEF Creator!Requests, Creator!Statuses, Creator!Tiers, CreatorAssumption
<1>3. Typed(row)
  BY <1>1, <1>2 DEF Typed, FieldOk
<1>4. Sound(row, v, I, B, F)
  BY <1>1 DEF Sound
<1>o. PICK out : out = Creator!PersonalOutcome(row, duplicate)
  OBVIOUS
<1>5. OutcomeOk(out, v, I, B, F)
  <2>a. PICK approved \in BOOLEAN : approved = Creator!canAutoApproveKycTier("BASIC", "PERSONAL", row)
    BY DEF Creator!canAutoApproveKycTier
  <2>1. approved => v \/ I # {}
    BY <1>1, <2>a DEF Creator!canAutoApproveKycTier
  <2>2. out.tier = (IF approved THEN "BASIC" ELSE "NONE")
    BY <1>o, <2>a DEF Creator!PersonalOutcome
  <2>3. out.status \in {identity, "VERIFIED", "SUBMITTED", "IN_PROGRESS"}
    BY <1>o, <1>1 DEF Creator!PersonalOutcome
  <2>4. \/ out.state = "ACTIVE" /\ approved
        \/ out.state = "REVIEW_REQUIRED"
        \/ out.state = Creator!derivePayoutState("IN_PROGRESS")
        \/ identity # "VERIFIED" /\ out.state = Creator!derivePayoutState(identity)
    BY <1>o, <1>1, <2>a DEF Creator!PersonalOutcome
  <2>5. "IN_PROGRESS" \in Creator!Statuses
    BY DEF Creator!Statuses
  <2>6. out.state \in Creator!ProfileStatuses /\ (out.state = "ACTIVE" => approved)
    BY <2>4, <2>5, PayoutStateOf DEF Creator!ProfileStatuses
  <2> QED BY <2>1, <2>2, <2>3, <2>6 DEF OutcomeOk, TierOk, Creator!Statuses, Creator!Tiers
<1> QED BY <1>1, <1>3, <1>4, <1>5, <1>r, <1>o

LEMMA BusinessRowOk ==
  ASSUME CreatorInv, profile # None,
         NEW business \in Creator!Statuses, NEW firm \in Firms \cup {None},
         NEW dedup \in Creator!Statuses, NEW check \in Creator!Requests, NEW f,
         NEW v, NEW I, NEW B, NEW F, NEW duplicate,
         business = "VERIFIED" => v \/ firm \in B \/ (Creator!Refusals /\ B # {})
  PROVE  LET row == Creator!BusinessRow(business, firm, dedup, check, f) IN
           /\ Typed(row) /\ Sound(row, v, I, B, F) /\ row.owner \in {"PERSONAL", "BUSINESS"}
           /\ OutcomeOk(Creator!BusinessOutcome(row, duplicate), v, I, B, F)
<1>r. PICK row : row = Creator!BusinessRow(business, firm, dedup, check, f)
  OBVIOUS
<1>1. /\ DOMAIN row = {"owner", "business", "firm", "dedup", "match", "businessCheck", "target", "cache"}
      /\ row.owner = "BUSINESS" /\ row.business = business /\ row.firm = firm
      /\ row.dedup = dedup /\ row.businessCheck = check /\ row.target = "BASIC"
  BY <1>r DEF Creator!BusinessRow
<1>2. "BASIC" \in Creator!Tiers
  BY DEF Creator!Tiers
<1>3. Typed(row)
  BY <1>1, <1>2 DEF Typed, FieldOk
<1>4. Sound(row, v, I, B, F)
  BY <1>1 DEF Sound
<1>o. PICK out : out = Creator!BusinessOutcome(row, duplicate)
  OBVIOUS
<1>5. OutcomeOk(out, v, I, B, F)
  <2>w. PICK workflow : workflow = Creator!deriveVerificationWorkflowStatus("BUSINESS",
             [identity |-> kyc.identity, liveness |-> kyc.liveness, business |-> row.business])
    OBVIOUS
  <2>a. PICK approved \in BOOLEAN : approved = Creator!canAutoApproveKycTier("BASIC", "BUSINESS", row)
    BY DEF Creator!canAutoApproveKycTier
  <2>1. approved => v \/ B # {}
    BY <1>1, <2>a DEF Creator!canAutoApproveKycTier
  <2>0. workflow \in Creator!Statuses \ {"VERIFIED"}
    BY <2>w, PayoutStates
  <2>2. out.tier = (IF approved THEN "BASIC" ELSE "NONE")
    BY <1>o, <2>a DEF Creator!BusinessOutcome
  <2>3. out.status \in {business, "VERIFIED", "SUBMITTED", workflow}
    BY <1>o, <1>1, <2>w DEF Creator!BusinessOutcome
  <2>4. \/ out.state = "ACTIVE" /\ approved
        \/ out.state = "REVIEW_REQUIRED"
        \/ out.state = Creator!derivePayoutState(workflow)
    BY <1>o, <1>1, <2>a, <2>w DEF Creator!BusinessOutcome
  <2>6. out.state \in Creator!ProfileStatuses /\ (out.state = "ACTIVE" => approved)
    BY <2>0, <2>4, PayoutStateOf DEF Creator!ProfileStatuses
  <2> QED BY <2>0, <2>1, <2>2, <2>3, <2>6 DEF OutcomeOk, TierOk, Creator!Statuses, Creator!Tiers
<1> QED BY <1>1, <1>3, <1>4, <1>5, <1>r, <1>o

LEMMA RepresentativeRowOk ==
  ASSUME CreatorAssumption, CreatorInv, profile # None,
         NEW identity \in Creator!Statuses, NEW person \in Persons \cup {None},
         NEW dedup \in Creator!Statuses, NEW check \in Creator!Requests, NEW d,
         NEW v, NEW I, NEW B, NEW F,
         vouched => v, Identified \subseteq I, Registered \subseteq B, Faced => F,
         identity = "VERIFIED" => v \/ person \in I \/ (Creator!Refusals /\ I # {})
  PROVE  LET row == Creator!RepresentativeRow(identity, person, dedup, check, d) IN
           /\ Typed(row) /\ Sound(row, v, I, B, F) /\ row.owner \in {"PERSONAL", "BUSINESS"}
           /\ OutcomeOk(Creator!RepresentativeOutcome(row), v, I, B, F)
<1>r. PICK row : row = Creator!RepresentativeRow(identity, person, dedup, check, d)
  OBVIOUS
<1>1. /\ DOMAIN row = {"owner", "mode", "identity", "person", "liveness", "livenessCheck",
                       "dedup", "identityCheck", "target", "cache"}
      /\ row.owner = "BUSINESS" /\ row.identity = identity /\ row.person = person
      /\ row.liveness = "NOT_STARTED" /\ row.livenessCheck = 0 /\ row.dedup = dedup
      /\ row.identityCheck = check /\ row.target = "FULL"
  BY <1>r DEF Creator!RepresentativeRow
<1>2. 0 \in Creator!Requests /\ "NOT_STARTED" \in Creator!Statuses /\ "FULL" \in Creator!Tiers
  BY DEF Creator!Requests, Creator!Statuses, Creator!Tiers, CreatorAssumption
<1>3. Typed(row)
  BY <1>1, <1>2 DEF Typed, FieldOk
<1>4. Sound(row, v, I, B, F)
  BY <1>1 DEF Sound
<1>o. PICK out : out = Creator!RepresentativeOutcome(row)
  OBVIOUS
<1>5. OutcomeOk(out, v, I, B, F)
  <2>w. PICK workflow : workflow = Creator!deriveVerificationWorkflowStatus("BUSINESS",
             [identity |-> row.identity, liveness |-> "NOT_STARTED", business |-> kyc.business])
    OBVIOUS
  <2>k. PICK keep \in BOOLEAN : keep = (kyc.tier = "BASIC" /\ profile.status = "ACTIVE")
    OBVIOUS
  <2>1. keep => v \/ I # {} \/ B # {}
    <3>1. TierOk(kyc.tier, v, I, B, F)
      BY KycFields, SoundGrows, ZenonT(60)
    <3> QED BY <2>k, <3>1 DEF TierOk
  <2>0. workflow \in Creator!Statuses \ {"VERIFIED"}
    BY <2>w, PayoutStates
  <2>2. out.tier = (IF keep THEN "BASIC" ELSE "NONE")
    BY <1>o, <2>k DEF Creator!RepresentativeOutcome
  <2>3. out.status \in {"REJECTED", "VERIFIED", "SUBMITTED", workflow}
    BY <1>o, <2>w DEF Creator!RepresentativeOutcome
  <2>4. \/ out.state = "ACTIVE" /\ keep
        \/ out.state = "REVIEW_REQUIRED"
        \/ out.state = Creator!derivePayoutState(workflow)
    BY <1>o, <2>k, <2>w DEF Creator!RepresentativeOutcome
  <2>6. out.state \in Creator!ProfileStatuses /\ (out.state = "ACTIVE" => keep)
    BY <2>0, <2>4, PayoutStateOf DEF Creator!ProfileStatuses
  <2> QED BY <2>0, <2>1, <2>2, <2>3, <2>6 DEF OutcomeOk, TierOk, Creator!Statuses, Creator!Tiers
<1> QED BY <1>1, <1>3, <1>4, <1>5, <1>r, <1>o

-----------------------------------------------------------------------------
(* The handlers, one by one. *)
LEMMA CallsAreTasks ==
  Calls \subseteq Creator!Tasks /\ Hooks \subseteq Creator!Tasks
BY DEF Creator!Tasks

(* What a check that is asked for now leaves known. *)
LEMMA AskedKnown ==
  ASSUME CreatorAssumption, CreatorInv, NEW kind, NEW subject, NEW answer \in Creator!Answers,
         \/ kind = "identity" /\ subject \in Persons
         \/ kind = "business" /\ subject \in Firms
         \/ kind = "liveness" /\ subject \in Persons \cup {None},
         Creator!Ask(kind, subject, answer)
  PROVE  /\ Len(request') \in Creator!Requests
         /\ answer \in Creator!Statuses
         /\ answer = "VERIFIED" /\ kind = "identity" => subject \in Identified'
         /\ answer = "VERIFIED" /\ kind = "business" => subject \in Registered'
         /\ answer = "VERIFIED" /\ kind = "liveness" => Faced'
<1>1. [kind |-> kind, subject |-> subject, answer |-> answer] \in RequestTypes
  BY DEF RequestTypes
<1>2. /\ Len(request') \in 1..MaxRequests
      /\ answer = "VERIFIED" => Creator!Passed(kind, subject)'
  BY <1>1, Asked
<1>3. Len(request') \in Creator!Requests /\ answer \in Creator!Statuses
  BY <1>2 DEF Creator!Requests, Creator!Answers, Creator!Statuses, CreatorAssumption
<1>4. answer = "VERIFIED" /\ kind = "identity" => subject \in Identified'
  BY <1>2 DEF Identified
<1>5. answer = "VERIFIED" /\ kind = "business" => subject \in Registered'
  BY <1>2 DEF Registered
<1>6. answer = "VERIFIED" /\ kind = "liveness" => Faced'
  BY <1>2 DEF Faced
<1> QED BY <1>3, <1>4, <1>5, <1>6

LEMMA StillKnown ==
  ASSUME CreatorAssumption, CreatorInv, [Creator!Next]_(Creator!vars)
  PROVE  /\ kyc.identity = "VERIFIED" =>
              vouched' \/ kyc.person \in Identified' \/ (Creator!Refusals /\ Identified' # {})
         /\ kyc.business = "VERIFIED" =>
              vouched' \/ kyc.firm \in Registered' \/ (Creator!Refusals /\ Registered' # {})
         /\ kyc.liveness = "VERIFIED" => Faced'
         /\ TierOk(kyc.tier, vouched', Identified', Registered', Faced')
         /\ profile # None => profile \in ProfileType
              /\ SoundProfile(profile, vouched', Identified', Registered', Faced')
<1>k. /\ vouched => vouched'
      /\ Identified \subseteq Identified' /\ Registered \subseteq Registered'
      /\ Faced => Faced'
  BY KnownStays
<1>1. \A t : TierOk(t, vouched, Identified, Registered, Faced)
               => TierOk(t, vouched', Identified', Registered', Faced')
  BY SoundStays
<1>2. \A p : SoundProfile(p, vouched, Identified, Registered, Faced)
               => SoundProfile(p, vouched', Identified', Registered', Faced')
  BY SoundStays
<1>3. profile # None => profile \in ProfileType
              /\ SoundProfile(profile, vouched, Identified, Registered, Faced)
  BY DEF CreatorInv
<1> QED BY <1>1, <1>2, <1>3, <1>k, KycFields

LEMMA StartPersonalKept ==
  ASSUME CreatorAssumption, CreatorInv, [Creator!Next]_(Creator!vars),
         NEW c \in Calls, NEW d \in Persons, Creator!StartPersonalKyc(c, d)
  PROVE  CreatorInv'
<1>0. profile # None /\ UNCHANGED <<profile, kyc, alat>> /\ c \in Creator!Tasks
  BY CallsAreTasks DEF Creator!StartPersonalKyc
<1>1. ASSUME NEW identity \in Creator!Statuses, NEW person \in Persons \cup {None},
             NEW dedup \in Creator!Statuses, NEW check \in Creator!Requests, NEW duplicate,
             identity = "VERIFIED" =>
               vouched' \/ person \in Identified' \/ (Creator!Refusals /\ Identified' # {}),
             Creator!PlanRow(c, Creator!PersonalRow(identity, person, dedup, check, d),
               Creator!PersonalOutcome(Creator!PersonalRow(identity, person, dedup, check, d), duplicate))
      PROVE  CreatorInv'
  <2>r. PICK row : row = Creator!PersonalRow(identity, person, dedup, check, d)
    OBVIOUS
  <2>o. PICK out : out = Creator!PersonalOutcome(row, duplicate)
    OBVIOUS
  <2>1. /\ Typed(row) /\ Sound(row, vouched', Identified', Registered', Faced')
        /\ row.owner \in {"PERSONAL", "BUSINESS"}
        /\ OutcomeOk(out, vouched', Identified', Registered', Faced')
    BY <1>1, <2>r, <2>o, PersonalRowOk
  <2>2. Creator!PlanRow(c, row, out)
    BY <1>1, <2>r, <2>o
  <2>3. PICK w : /\ task' = [task EXCEPT ![c] = w]
                 /\ HandlerOk(w, vouched', Identified', Registered', Faced')
    BY <2>1, <2>2, PlanRowOk
  <2> QED BY <1>0, <2>3, Planned
<1>2. CASE Creator!PlanRow(c,
              Creator!PersonalRow(kyc.identity, kyc.person, kyc.dedup, kyc.identityCheck, d),
              Creator!PersonalOutcome(
                Creator!PersonalRow(kyc.identity, kyc.person, kyc.dedup, kyc.identityCheck, d), FALSE))
  BY <1>1, <1>2, KycFields, StillKnown
<1>3. ASSUME NEW answer \in Creator!Answers, NEW duplicate \in BOOLEAN,
             Creator!verifyNin(d, answer),
             Creator!PlanRow(c,
               Creator!PersonalRow(answer, d, Creator!detectDuplicateKycSignals(duplicate), Len(request'), d),
               Creator!PersonalOutcome(
                 Creator!PersonalRow(answer, d, Creator!detectDuplicateKycSignals(duplicate), Len(request'), d),
                 duplicate))
      PROVE  CreatorInv'
  <2>d. Creator!detectDuplicateKycSignals(duplicate) \in Creator!Statuses
    BY DEF Creator!detectDuplicateKycSignals, Creator!Statuses
  <2>1. /\ Len(request') \in Creator!Requests /\ answer \in Creator!Statuses
        /\ answer = "VERIFIED" => d \in Identified'
    BY <1>3, AskedKnown DEF Creator!verifyNin
  <2> QED BY <1>1, <1>3, <2>d, <2>1
<1> QED BY <1>2, <1>3 DEF Creator!StartPersonalKyc

LEMMA StartBusinessKept ==
  ASSUME CreatorAssumption, CreatorInv, [Creator!Next]_(Creator!vars),
         NEW c \in Calls, NEW f \in Firms, Creator!StartBusinessKyc(c, f)
  PROVE  CreatorInv'
<1>0. profile # None /\ UNCHANGED <<profile, kyc, alat>> /\ c \in Creator!Tasks
  BY CallsAreTasks DEF Creator!StartBusinessKyc
<1>1. ASSUME NEW business \in Creator!Statuses, NEW firm \in Firms \cup {None},
             NEW dedup \in Creator!Statuses, NEW check \in Creator!Requests, NEW duplicate,
             business = "VERIFIED" =>
               vouched' \/ firm \in Registered' \/ (Creator!Refusals /\ Registered' # {}),
             Creator!PlanRow(c, Creator!BusinessRow(business, firm, dedup, check, f),
               Creator!BusinessOutcome(Creator!BusinessRow(business, firm, dedup, check, f), duplicate))
      PROVE  CreatorInv'
  <2>r. PICK row : row = Creator!BusinessRow(business, firm, dedup, check, f)
    OBVIOUS
  <2>o. PICK out : out = Creator!BusinessOutcome(row, duplicate)
    OBVIOUS
  <2>1. /\ Typed(row) /\ Sound(row, vouched', Identified', Registered', Faced')
        /\ row.owner \in {"PERSONAL", "BUSINESS"}
        /\ OutcomeOk(out, vouched', Identified', Registered', Faced')
    BY <1>0, <1>1, <2>r, <2>o, BusinessRowOk
  <2>2. Creator!PlanRow(c, row, out)
    BY <1>1, <2>r, <2>o
  <2>3. PICK w : /\ task' = [task EXCEPT ![c] = w]
                 /\ HandlerOk(w, vouched', Identified', Registered', Faced')
    BY <2>1, <2>2, PlanRowOk
  <2> QED BY <1>0, <2>3, Planned
<1>2. CASE Creator!PlanRow(c,
              Creator!BusinessRow(kyc.business, kyc.firm, kyc.dedup, kyc.businessCheck, f),
              Creator!BusinessOutcome(
                Creator!BusinessRow(kyc.business, kyc.firm, kyc.dedup, kyc.businessCheck, f), FALSE))
  BY <1>1, <1>2, KycFields, StillKnown
<1>3. ASSUME NEW answer \in Creator!Answers, NEW duplicate \in BOOLEAN,
             Creator!verifyCacBasic(f, answer),
             Creator!PlanRow(c,
               Creator!BusinessRow(answer, f, Creator!detectDuplicateKycSignals(duplicate), Len(request'), f),
               Creator!BusinessOutcome(
                 Creator!BusinessRow(answer, f, Creator!detectDuplicateKycSignals(duplicate), Len(request'), f),
                 duplicate))
      PROVE  CreatorInv'
  <2>d. Creator!detectDuplicateKycSignals(duplicate) \in Creator!Statuses
    BY DEF Creator!detectDuplicateKycSignals, Creator!Statuses
  <2>1. /\ Len(request') \in Creator!Requests /\ answer \in Creator!Statuses
        /\ answer = "VERIFIED" => f \in Registered'
    BY <1>3, AskedKnown DEF Creator!verifyCacBasic
  <2> QED BY <1>1, <1>3, <2>d, <2>1
<1> QED BY <1>2, <1>3 DEF Creator!StartBusinessKyc

LEMMA StartRepresentativeKept ==
  ASSUME CreatorAssumption, CreatorInv, [Creator!Next]_(Creator!vars),
         NEW c \in Calls, NEW d \in Persons, Creator!StartBusinessRepresentativeKyc(c, d)
  PROVE  CreatorInv'
<1>0. profile # None /\ UNCHANGED <<profile, kyc, alat>> /\ c \in Creator!Tasks
  BY CallsAreTasks DEF Creator!StartBusinessRepresentativeKyc
<1>1. ASSUME NEW identity \in Creator!Statuses, NEW person \in Persons \cup {None},
             NEW dedup \in Creator!Statuses, NEW check \in Creator!Requests,
             identity = "VERIFIED" =>
               vouched' \/ person \in Identified' \/ (Creator!Refusals /\ Identified' # {}),
             Creator!PlanRow(c, Creator!RepresentativeRow(identity, person, dedup, check, d),
               Creator!RepresentativeOutcome(Creator!RepresentativeRow(identity, person, dedup, check, d)))
      PROVE  CreatorInv'
  <2>r. PICK row : row = Creator!RepresentativeRow(identity, person, dedup, check, d)
    OBVIOUS
  <2>o. PICK out : out = Creator!RepresentativeOutcome(row)
    OBVIOUS
  <2>k. /\ vouched => vouched'
        /\ Identified \subseteq Identified' /\ Registered \subseteq Registered'
        /\ Faced => Faced'
    BY KnownStays
  <2>1. /\ Typed(row) /\ Sound(row, vouched', Identified', Registered', Faced')
        /\ row.owner \in {"PERSONAL", "BUSINESS"}
        /\ OutcomeOk(out, vouched', Identified', Registered', Faced')
    BY <1>0, <1>1, <2>k, <2>r, <2>o, RepresentativeRowOk
  <2>2. Creator!PlanRow(c, row, out)
    BY <1>1, <2>r, <2>o
  <2>3. PICK w : /\ task' = [task EXCEPT ![c] = w]
                 /\ HandlerOk(w, vouched', Identified', Registered', Faced')
    BY <2>1, <2>2, PlanRowOk
  <2> QED BY <1>0, <2>3, Planned
<1>r. ASSUME NEW answer \in Creator!Answers, NEW f
      PROVE  /\ Creator!Represents(answer, d, f) \in Creator!Statuses
             /\ Creator!Represents(answer, d, f) = "VERIFIED" => answer = "VERIFIED"
  BY DEF Creator!Represents, Creator!Answers, Creator!Statuses
<1>2. ASSUME NEW identity \in {kyc.identity} \cup
               (IF kyc.identity = "VERIFIED" THEN {Creator!Represents("VERIFIED", d, kyc.firm)} ELSE {}),
             Creator!PlanRow(c,
               Creator!RepresentativeRow(identity, kyc.person, kyc.dedup, kyc.identityCheck, d),
               Creator!RepresentativeOutcome(
                 Creator!RepresentativeRow(identity, kyc.person, kyc.dedup, kyc.identityCheck, d)))
      PROVE  CreatorInv'
  <2>1. "VERIFIED" \in Creator!Answers
    BY DEF Creator!Answers
  <2>2. identity \in Creator!Statuses /\ (identity = "VERIFIED" => kyc.identity = "VERIFIED")
    BY <1>r, <2>1, KycFields
  <2> QED BY <1>1, <1>2, <2>2, KycFields, StillKnown
<1>3. ASSUME NEW answer \in Creator!Answers, NEW duplicate \in BOOLEAN,
             Creator!verifyNin(d, answer),
             Creator!PlanRow(c,
               Creator!RepresentativeRow(Creator!Represents(answer, d, kyc.firm), d,
                 Creator!detectDuplicateKycSignals(duplicate), Len(request'), d),
               Creator!RepresentativeOutcome(
                 Creator!RepresentativeRow(Creator!Represents(answer, d, kyc.firm), d,
                   Creator!detectDuplicateKycSignals(duplicate), Len(request'), d)))
      PROVE  CreatorInv'
  <2>d. Creator!detectDuplicateKycSignals(duplicate) \in Creator!Statuses
    BY DEF Creator!detectDuplicateKycSignals, Creator!Statuses
  <2>1. /\ Len(request') \in Creator!Requests
        /\ answer = "VERIFIED" => d \in Identified'
    BY <1>3, AskedKnown DEF Creator!verifyNin
  <2> QED BY <1>1, <1>3, <1>r, <2>d, <2>1
<1> QED BY <1>2, <1>3 DEF Creator!StartBusinessRepresentativeKyc

LEMMA LivenessKept ==
  ASSUME CreatorAssumption, CreatorInv, [Creator!Next]_(Creator!vars),
         NEW c \in Calls, Creator!SubmitPersonalLiveness(c)
  PROVE  CreatorInv'
<1>0. /\ profile # None /\ UNCHANGED <<profile, kyc, alat>> /\ c \in Creator!Tasks
      /\ profile.status = "ACTIVE" /\ kyc.tier = "BASIC"
  BY CallsAreTasks DEF Creator!SubmitPersonalLiveness, Creator!MayFaceCheck
<1>a. PICK answer \in Creator!Answers, full \in BOOLEAN :
        /\ Creator!verifyLiveness(kyc.person, answer)
        /\ full => answer = "VERIFIED"
        /\ \E status \in {"VERIFIED", "SUBMITTED", kyc.status} :
             Creator!Plan(c,
               [status |-> status, liveness |-> answer, livenessCheck |-> Len(request'),
                tier |-> IF full THEN "FULL" ELSE "BASIC", target |-> "FULL", cache |-> kyc.cache],
               [status |-> "ACTIVE", tier |-> IF full THEN "FULL" ELSE "BASIC"])
  <2>1. PICK answer \in Creator!Answers :
          LET full == kyc.status = "VERIFIED"
                   /\ Creator!canAutoApproveKycTier("FULL", kyc.owner, [kyc EXCEPT !.liveness = answer])
              review == answer = "VERIFIED" /\ ~ full
              tier == IF full THEN "FULL" ELSE "BASIC" IN
          /\ Creator!verifyLiveness(kyc.person, answer)
          /\ Creator!Plan(c, [status |-> IF full THEN "VERIFIED" ELSE IF review THEN "SUBMITTED"
                                         ELSE kyc.status,
                      liveness |-> answer, livenessCheck |-> Len(request'),
                      tier |-> tier, target |-> "FULL", cache |-> kyc.cache],
                     [status |-> "ACTIVE", tier |-> tier])
    BY DEF Creator!SubmitPersonalLiveness
  <2>2. PICK full \in BOOLEAN : full = (kyc.status = "VERIFIED"
           /\ Creator!canAutoApproveKycTier("FULL", kyc.owner, [kyc EXCEPT !.liveness = answer]))
    OBVIOUS
  <2>3. PICK seen : seen = [kyc EXCEPT !.liveness = answer]
    OBVIOUS
  <2>4. seen.liveness = answer
    BY <2>3 DEF CreatorInv, Creator!NewKyc
  <2>5. full => answer = "VERIFIED"
    BY <2>2, <2>3, <2>4 DEF Creator!canAutoApproveKycTier
  <2>6. PICK status : status = IF full THEN "VERIFIED" ELSE IF answer = "VERIFIED" /\ ~ full
                               THEN "SUBMITTED" ELSE kyc.status
    OBVIOUS
  <2>7. Creator!Plan(c,
               [status |-> status, liveness |-> answer, livenessCheck |-> Len(request'),
                tier |-> IF full THEN "FULL" ELSE "BASIC", target |-> "FULL", cache |-> kyc.cache],
               [status |-> "ACTIVE", tier |-> IF full THEN "FULL" ELSE "BASIC"])
    BY <2>1, <2>2, <2>6 DEF Creator!Plan
  <2> QED BY <2>1, <2>5, <2>6, <2>7
<1>s. PICK status \in {"VERIFIED", "SUBMITTED", kyc.status} :
        Creator!Plan(c,
          [status |-> status, liveness |-> answer, livenessCheck |-> Len(request'),
           tier |-> IF full THEN "FULL" ELSE "BASIC", target |-> "FULL", cache |-> kyc.cache],
          [status |-> "ACTIVE", tier |-> IF full THEN "FULL" ELSE "BASIC"])
  BY <1>a
<1>t. PICK tier : tier = IF full THEN "FULL" ELSE "BASIC"
  OBVIOUS
<1>k. PICK k : k = [status |-> status, liveness |-> answer, livenessCheck |-> Len(request'),
                    tier |-> tier, target |-> "FULL", cache |-> kyc.cache]
  OBVIOUS
<1>p. PICK p : p = [status |-> "ACTIVE", tier |-> tier]
  OBVIOUS
<1>1. /\ Len(request') \in Creator!Requests /\ answer \in Creator!Statuses
      /\ answer = "VERIFIED" => Faced'
  BY <1>a, AskedKnown, KycFields DEF Creator!verifyLiveness
<1>2. vouched' \/ Identified' # {} \/ Registered' # {}
  BY <1>0, StillKnown DEF SoundProfile, ProfileType
<1>3. tier \in Creator!Tiers /\ TierOk(tier, vouched', Identified', Registered', Faced')
  BY <1>1, <1>2, <1>a, <1>t DEF TierOk, Creator!Tiers
<1>4. status \in Creator!Statuses /\ "FULL" \in Creator!Tiers
  BY <1>s, KycFields DEF Creator!Statuses, Creator!Tiers
<1>5. Typed(k)
  BY <1>1, <1>3, <1>4, <1>k DEF Typed, FieldOk
<1>6. Sound(k, vouched', Identified', Registered', Faced')
  BY <1>1, <1>3, <1>k DEF Sound
<1>7. SoundProfile(p, vouched', Identified', Registered', Faced')
  BY <1>2, <1>3, <1>p DEF SoundProfile, Creator!ProfileStatuses
<1>8. task' = [task EXCEPT ![c] = [op |-> "kyc", kyc |-> k, profile |-> p]]
  BY <1>s, <1>t, <1>k, <1>p DEF Creator!Plan
<1>9. HandlerOk([op |-> "kyc", kyc |-> k, profile |-> p], vouched', Identified', Registered', Faced')
  BY <1>5, <1>6, <1>7, PlanOk DEF Writing
<1> QED BY <1>0, <1>8, <1>9, Planned

LEMMA Handled ==
  ASSUME CreatorAssumption, CreatorInv, [Creator!Next]_(Creator!vars),
         NEW c \in Creator!Tasks, NEW op \in Writing, NEW k, NEW p,
         Typed(k), Sound(k, vouched', Identified', Registered', Faced'),
         SoundProfile(p, vouched', Identified', Registered', Faced'),
         task' = [task EXCEPT ![c] = [op |-> op, kyc |-> k, profile |-> p]],
         profile # None, UNCHANGED <<profile, kyc, alat>>
  PROVE  CreatorInv'
<1>1. HandlerOk([op |-> op, kyc |-> k, profile |-> p], vouched', Identified', Registered', Faced')
  BY PlanOk
<1> QED BY <1>1, Planned

LEMMA SubmitKycKept ==
  ASSUME CreatorAssumption, CreatorInv, [Creator!Next]_(Creator!vars),
         NEW c \in Calls, NEW tier \in {"BASIC", "FULL"}, Creator!SubmitKyc(c, tier)
  PROVE  CreatorInv'
<1>0. profile # None /\ UNCHANGED <<profile, kyc, alat>> /\ c \in Creator!Tasks
  BY CallsAreTasks DEF Creator!SubmitKyc
<1>m. PICK match : match = Creator!evaluateSettlementNameMatch(profile.account,
                 IF profile.owner = "BUSINESS" THEN kyc.firm ELSE kyc.person)
  OBVIOUS
<1>k. PICK k : k = [status |-> "SUBMITTED", match |-> match, target |-> tier,
                    tier |-> kyc.tier, cache |-> kyc.cache]
  OBVIOUS
<1>p. PICK p : p = [status |-> IF kyc.dedup = "SUBMITTED" \/ match = "REVIEW_REQUIRED"
                               THEN "REVIEW_REQUIRED" ELSE "PENDING_KYC"]
  OBVIOUS
<1>1. task' = [task EXCEPT ![c] = [op |-> "kyc", kyc |-> k, profile |-> p]]
  BY <1>m, <1>k, <1>p DEF Creator!SubmitKyc, Creator!Plan
<1>2. "SUBMITTED" \in Creator!Statuses /\ tier \in Creator!Tiers /\ kyc.tier \in Creator!Tiers
  BY KycFields DEF Creator!Statuses, Creator!Tiers
<1>3. Typed(k)
  BY <1>2, <1>k DEF Typed, FieldOk
<1>4. Sound(k, vouched', Identified', Registered', Faced')
  BY <1>k, StillKnown DEF Sound
<1>5. SoundProfile(p, vouched', Identified', Registered', Faced')
  BY <1>p DEF SoundProfile, Creator!ProfileStatuses
<1> QED BY <1>0, <1>1, <1>3, <1>4, <1>5, Handled DEF Writing

(* What a delivered answer says. *)
LEMMA DeliveredOk ==
  ASSUME CreatorAssumption, CreatorInv, [Creator!Next]_(Creator!vars),
         NEW r \in DOMAIN request
  PROVE  /\ request[r].answer \in Creator!Statuses
         /\ request[r].kind = "identity" =>
              request[r].subject \in Persons
              /\ (request[r].answer = "VERIFIED" => request[r].subject \in Identified')
         /\ request[r].kind = "business" =>
              request[r].subject \in Firms
              /\ (request[r].answer = "VERIFIED" => request[r].subject \in Registered')
         /\ request[r].kind = "liveness" => (request[r].answer = "VERIFIED" => Faced')
<1>1. PICK one \in RequestTypes : one = request[r]
  BY DEF CreatorInv
<1>2. one.answer \in Creator!Answers
  BY DEF RequestTypes
<1>3. one.answer = "VERIFIED" => Creator!Passed(one.kind, one.subject)
  <2>1. one.answer = "VERIFIED" =>
          one = [kind |-> one.kind, subject |-> one.subject, answer |-> "VERIFIED"]
    BY DEF RequestTypes
  <2> QED BY <1>1, <2>1 DEF Creator!Passed
<1>4. one.kind = "identity" =>
        one.subject \in Persons /\ (one.answer = "VERIFIED" => one.subject \in Identified)
  BY <1>3 DEF RequestTypes, Identified
<1>5. one.kind = "business" =>
        one.subject \in Firms /\ (one.answer = "VERIFIED" => one.subject \in Registered)
  BY <1>3 DEF RequestTypes, Registered
<1>6. one.kind = "liveness" => (one.answer = "VERIFIED" => Faced)
  BY <1>3 DEF RequestTypes, Faced
<1>7. /\ Identified \subseteq Identified' /\ Registered \subseteq Registered'
      /\ Faced => Faced'
  BY KnownStays
<1>8. one.answer \in Creator!Statuses
  BY <1>2 DEF Creator!Answers, Creator!Statuses
<1> QED BY <1>1, <1>4, <1>5, <1>6, <1>7, <1>8

LEMMA MetadataOk ==
  ASSUME CreatorAssumption, CreatorInv, [Creator!Next]_(Creator!vars)
  PROVE  /\ Typed(Creator!Metadata(kyc))
         /\ Sound(Creator!Metadata(kyc), vouched', Identified', Registered', Faced')
<1>m. PICK m : m = Creator!Metadata(kyc)
  OBVIOUS
<1>1. DOMAIN m = {"tier", "target", "cache"} /\ m.tier = kyc.tier /\ m.target = kyc.target
  BY <1>m DEF Creator!Metadata
<1>2. Typed(m)
  BY <1>1, KycFields DEF Typed, FieldOk
<1>3. Sound(m, vouched', Identified', Registered', Faced')
  BY <1>1, StillKnown DEF Sound
<1> QED BY <1>2, <1>3, <1>m

LEMMA TierFieldsOk ==
  ASSUME CreatorAssumption, CreatorInv, [Creator!Next]_(Creator!vars),
         NEW approved, NEW review,
         approved => vouched' \/ Identified' # {} \/ Registered' # {}
  PROVE  LET k == Creator!TierFields(approved, review, Creator!Metadata(kyc)) IN
           Typed(k) /\ Sound(k, vouched', Identified', Registered', Faced')
<1>m. PICK m : m = Creator!Metadata(kyc)
  OBVIOUS
<1>1. Typed(m) /\ Sound(m, vouched', Identified', Registered', Faced')
  BY <1>m, MetadataOk
<1>s. PICK s : s = [tier |-> IF approved THEN "BASIC" ELSE "NONE", target |-> "BASIC",
                    status |-> IF approved THEN "VERIFIED" ELSE "SUBMITTED"]
  OBVIOUS
<1>2. Typed(s)
  BY <1>s DEF Typed, FieldOk, Creator!Tiers, Creator!Statuses
<1>3. Sound(s, vouched', Identified', Registered', Faced')
  BY <1>s DEF Sound, TierOk
<1>w. PICK w : w = Creator!With(m, s)
  OBVIOUS
<1>4. Typed(w) /\ Sound(w, vouched', Identified', Registered', Faced')
  BY <1>1, <1>2, <1>3, <1>w, SoundWith
<1>k. PICK k : k = Creator!TierFields(approved, review, Creator!Metadata(kyc))
  OBVIOUS
<1>5. k = w \/ k = m
  BY <1>k, <1>m, <1>s, <1>w DEF Creator!TierFields
<1> QED BY <1>1, <1>4, <1>5, <1>k

LEMMA PayoutFieldsOk ==
  ASSUME NEW approved, NEW review, NEW workflow \in Creator!Statuses \ {"VERIFIED"},
         NEW v, NEW I, NEW B, NEW F, approved => v \/ I # {} \/ B # {}
  PROVE  SoundProfile(Creator!PayoutFields(approved, review, workflow), v, I, B, F)
<1>p. PICK p : p = Creator!PayoutFields(approved, review, workflow)
  OBVIOUS
<1>1. CASE approved
  <2>1. p = [status |-> "ACTIVE", tier |-> "BASIC"]
    BY <1>1, <1>p DEF Creator!PayoutFields
  <2>2. SoundProfile(p, v, I, B, F)
    BY <1>1, <2>1 DEF SoundProfile, TierOk, Creator!Tiers, Creator!ProfileStatuses
  <2> QED BY <2>2, <1>p
<1>2. CASE ~ approved /\ review
  <2>1. p = [status |-> "REVIEW_REQUIRED", tier |-> "NONE"]
    BY <1>2, <1>p DEF Creator!PayoutFields
  <2>2. SoundProfile(p, v, I, B, F)
    BY <2>1 DEF SoundProfile, TierOk, Creator!Tiers, Creator!ProfileStatuses
  <2> QED BY <2>2, <1>p
<1>3. CASE ~ approved /\ ~ review
  <2>s. PICK s : s = Creator!derivePayoutState(workflow)
    OBVIOUS
  <2>1. p = [status |-> s]
    BY <1>3, <1>p, <2>s DEF Creator!PayoutFields
  <2>2. s \in Creator!ProfileStatuses /\ s # "ACTIVE"
    BY <2>s, PayoutStateOf
  <2>3. SoundProfile(p, v, I, B, F)
    BY <2>1, <2>2 DEF SoundProfile
  <2> QED BY <2>3, <1>p
<1> QED BY <1>1, <1>2, <1>3

LEMMA WebhookIdentityKept ==
  ASSUME CreatorAssumption, CreatorInv, [Creator!Next]_(Creator!vars),
         NEW c \in Hooks, NEW r \in DOMAIN request, Creator!WebhookIdentity(c, r)
  PROVE  CreatorInv'
<1>0. /\ profile # None /\ UNCHANGED <<profile, kyc, alat>> /\ c \in Creator!Tasks
      /\ request[r].kind = "identity"
  BY CallsAreTasks DEF Creator!WebhookIdentity, Creator!Delivered
<1>i. PICK identity, person : identity = request[r].answer /\ person = request[r].subject
  OBVIOUS
<1>1. /\ identity \in Creator!Statuses /\ person \in Persons
      /\ identity = "VERIFIED" => person \in Identified'
  BY <1>0, <1>i, DeliveredOk
<1>w. PICK workflow : workflow = Creator!deriveVerificationWorkflowStatus(kyc.owner,
                    [identity |-> identity, business |-> kyc.business, liveness |-> "NOT_STARTED"])
  OBVIOUS
<1>2. workflow \in Creator!Statuses \ {"VERIFIED"}
  BY <1>w, PayoutStates
<1>3. PICK duplicate \in BOOLEAN :
       LET matched == identity = "VERIFIED" /\ kyc.owner = "PERSONAL"
           seen == [identity |-> identity, status |-> workflow, person |-> person,
                    dedup |-> Creator!detectDuplicateKycSignals(duplicate),
                    match |-> IF matched
                              THEN Creator!evaluateSettlementNameMatch(profile.account, person)
                              ELSE kyc.match]
           approved == kyc.owner = "PERSONAL" /\ Creator!canAutoApproveKycTier("BASIC", "PERSONAL", seen)
           review == matched /\ ~ approved /\ Creator!ManualReview(duplicate, seen.match)
       IN Creator!Hook(c, Creator!With(seen, Creator!TierFields(approved, review, Creator!Metadata(kyc))),
                  Creator!PayoutFields(approved, review, workflow))
  BY <1>i, <1>w DEF Creator!WebhookIdentity
<1>e. PICK dedup, match :
        /\ dedup = Creator!detectDuplicateKycSignals(duplicate)
        /\ match = IF identity = "VERIFIED" /\ kyc.owner = "PERSONAL"
                   THEN Creator!evaluateSettlementNameMatch(profile.account, person) ELSE kyc.match
  OBVIOUS
<1>s. PICK seen : seen = [identity |-> identity, status |-> workflow, person |-> person,
                          dedup |-> dedup, match |-> match]
  OBVIOUS
<1>a. PICK approved \in BOOLEAN : approved =
        (kyc.owner = "PERSONAL" /\ Creator!canAutoApproveKycTier("BASIC", "PERSONAL", seen))
  OBVIOUS
<1>v. PICK review \in BOOLEAN : review =
        (identity = "VERIFIED" /\ kyc.owner = "PERSONAL" /\ ~ approved
         /\ Creator!ManualReview(duplicate, seen.match))
  OBVIOUS
<1>4. Creator!Hook(c, Creator!With(seen, Creator!TierFields(approved, review, Creator!Metadata(kyc))),
                  Creator!PayoutFields(approved, review, workflow))
  BY <1>3, <1>e, <1>s, <1>a, <1>v, Zenon
<1>5. approved => vouched' \/ Identified' # {} \/ Registered' # {}
  BY <1>1, <1>a, <1>s DEF Creator!canAutoApproveKycTier
<1>6. dedup \in Creator!Statuses
  BY <1>e DEF Creator!detectDuplicateKycSignals, Creator!Statuses
<1>7. Typed(seen)
  BY <1>1, <1>2, <1>6, <1>s DEF Typed, FieldOk
<1>8. Sound(seen, vouched', Identified', Registered', Faced')
  BY <1>1, <1>s DEF Sound
<1>f. PICK fields : fields = Creator!TierFields(approved, review, Creator!Metadata(kyc))
  OBVIOUS
<1>9. Typed(fields) /\ Sound(fields, vouched', Identified', Registered', Faced')
  BY <1>5, <1>f, TierFieldsOk
<1>k. PICK k : k = Creator!With(seen, fields)
  OBVIOUS
<1>10. Typed(k) /\ Sound(k, vouched', Identified', Registered', Faced')
  BY <1>7, <1>8, <1>9, <1>k, SoundWith
<1>p. PICK p : p = Creator!PayoutFields(approved, review, workflow)
  OBVIOUS
<1>11. SoundProfile(p, vouched', Identified', Registered', Faced')
  BY <1>2, <1>5, <1>p, PayoutFieldsOk
<1>12. task' = [task EXCEPT ![c] = [op |-> "hook", kyc |-> k, profile |-> p]]
  BY <1>4, <1>f, <1>k, <1>p DEF Creator!Hook
<1> QED BY <1>0, <1>10, <1>11, <1>12, Handled DEF Writing

LEMMA WebhookBusinessKept ==
  ASSUME CreatorAssumption, CreatorInv, [Creator!Next]_(Creator!vars),
         NEW c \in Hooks, NEW r \in DOMAIN request, Creator!WebhookBusiness(c, r)
  PROVE  CreatorInv'
<1>0. /\ profile # None /\ UNCHANGED <<profile, kyc, alat>> /\ c \in Creator!Tasks
      /\ request[r].kind = "business"
  BY CallsAreTasks DEF Creator!WebhookBusiness, Creator!Delivered
<1>i. PICK business, firm : business = request[r].answer /\ firm = request[r].subject
  OBVIOUS
<1>1. /\ business \in Creator!Statuses /\ firm \in Firms
      /\ business = "VERIFIED" => firm \in Registered'
  BY <1>0, <1>i, DeliveredOk
<1>w. PICK workflow : workflow = Creator!deriveVerificationWorkflowStatus(kyc.owner,
                    [identity |-> kyc.identity, business |-> business, liveness |-> "NOT_STARTED"])
  OBVIOUS
<1>2. workflow \in Creator!Statuses \ {"VERIFIED"}
  BY <1>w, PayoutStates
<1>3. PICK duplicate \in BOOLEAN :
       LET seen == [business |-> business, status |-> workflow, firm |-> firm,
                    dedup |-> Creator!detectDuplicateKycSignals(duplicate),
                    match |-> IF business = "VERIFIED"
                              THEN Creator!evaluateSettlementNameMatch(profile.account, firm)
                              ELSE kyc.match]
           approved == kyc.owner = "BUSINESS" /\ Creator!canAutoApproveKycTier("BASIC", "BUSINESS", seen)
           review == /\ kyc.owner = "BUSINESS" /\ business = "VERIFIED" /\ ~ approved
                     /\ Creator!ManualReview(duplicate, seen.match)
       IN Creator!Hook(c, Creator!With(seen, Creator!TierFields(approved, review, Creator!Metadata(kyc))),
                  Creator!PayoutFields(approved, review, workflow))
  BY <1>i, <1>w, ZenonT(60) DEF Creator!WebhookBusiness
<1>e. PICK dedup, match :
        /\ dedup = Creator!detectDuplicateKycSignals(duplicate)
        /\ match = IF business = "VERIFIED"
                   THEN Creator!evaluateSettlementNameMatch(profile.account, firm) ELSE kyc.match
  OBVIOUS
<1>s. PICK seen : seen = [business |-> business, status |-> workflow, firm |-> firm,
                          dedup |-> dedup, match |-> match]
  OBVIOUS
<1>a. PICK approved \in BOOLEAN : approved =
        (kyc.owner = "BUSINESS" /\ Creator!canAutoApproveKycTier("BASIC", "BUSINESS", seen))
  OBVIOUS
<1>v. PICK review \in BOOLEAN : review =
        (/\ kyc.owner = "BUSINESS" /\ business = "VERIFIED" /\ ~ approved
         /\ Creator!ManualReview(duplicate, seen.match))
  OBVIOUS
<1>4. Creator!Hook(c, Creator!With(seen, Creator!TierFields(approved, review, Creator!Metadata(kyc))),
                  Creator!PayoutFields(approved, review, workflow))
  BY <1>3, <1>e, <1>s, <1>a, <1>v, Zenon
<1>5. approved => vouched' \/ Identified' # {} \/ Registered' # {}
  BY <1>1, <1>a, <1>s DEF Creator!canAutoApproveKycTier
<1>6. dedup \in Creator!Statuses
  BY <1>e DEF Creator!detectDuplicateKycSignals, Creator!Statuses
<1>7. Typed(seen)
  BY <1>1, <1>2, <1>6, <1>s DEF Typed, FieldOk
<1>8. Sound(seen, vouched', Identified', Registered', Faced')
  BY <1>1, <1>s DEF Sound
<1>f. PICK fields : fields = Creator!TierFields(approved, review, Creator!Metadata(kyc))
  OBVIOUS
<1>9. Typed(fields) /\ Sound(fields, vouched', Identified', Registered', Faced')
  BY <1>5, <1>f, TierFieldsOk
<1>k. PICK k : k = Creator!With(seen, fields)
  OBVIOUS
<1>10. Typed(k) /\ Sound(k, vouched', Identified', Registered', Faced')
  BY <1>7, <1>8, <1>9, <1>k, SoundWith
<1>p. PICK p : p = Creator!PayoutFields(approved, review, workflow)
  OBVIOUS
<1>11. SoundProfile(p, vouched', Identified', Registered', Faced')
  BY <1>2, <1>5, <1>p, PayoutFieldsOk
<1>12. task' = [task EXCEPT ![c] = [op |-> "hook", kyc |-> k, profile |-> p]]
  BY <1>4, <1>f, <1>k, <1>p DEF Creator!Hook
<1> QED BY <1>0, <1>10, <1>11, <1>12, Handled DEF Writing

LEMMA WebhookLivenessKept ==
  ASSUME CreatorAssumption, CreatorInv, [Creator!Next]_(Creator!vars),
         NEW c \in Hooks, NEW r \in DOMAIN request, Creator!WebhookLiveness(c, r)
  PROVE  CreatorInv'
<1>0. /\ profile # None /\ UNCHANGED <<profile, kyc, alat>> /\ c \in Creator!Tasks
      /\ request[r].kind = "liveness"
  BY CallsAreTasks DEF Creator!WebhookLiveness, Creator!Delivered
<1>i. PICK liveness : liveness = request[r].answer
  OBVIOUS
<1>1. /\ liveness \in Creator!Statuses
      /\ liveness = "VERIFIED" => Faced'
  BY <1>0, <1>i, DeliveredOk
<1>s. PICK seen : seen = [kyc EXCEPT !.liveness = liveness]
  OBVIOUS
<1>w. PICK workflow : workflow = Creator!deriveVerificationWorkflowStatus(kyc.owner, seen)
  OBVIOUS
<1>2. workflow \in Creator!Statuses \ {"VERIFIED"}
  BY <1>w, PayoutStates
<1>k. PICK keep \in BOOLEAN :
        keep = (kyc.tier = "BASIC" /\ kyc.status = "VERIFIED" /\ profile.status = "ACTIVE")
  OBVIOUS
<1>f. PICK full \in BOOLEAN :
        full = (keep /\ Creator!canAutoApproveKycTier("FULL", kyc.owner, seen))
  OBVIOUS
<1>t. PICK tier : tier = IF full THEN "FULL" ELSE kyc.tier
  OBVIOUS
<1>u. PICK status : status = IF full THEN "VERIFIED" ELSE IF keep /\ liveness = "VERIFIED" /\ ~ full
                             THEN "SUBMITTED" ELSE IF keep THEN kyc.status ELSE workflow
  OBVIOUS
<1>v. PICK state : state = IF keep THEN "ACTIVE" ELSE Creator!derivePayoutState(workflow)
  OBVIOUS
<1>e. PICK k : k = [liveness |-> liveness, tier |-> tier, target |-> "FULL", cache |-> kyc.cache,
                    status |-> status]
  OBVIOUS
<1>p. PICK p : p = [tier |-> tier, status |-> state]
  OBVIOUS
<1>3. task' = [task EXCEPT ![c] = [op |-> "hook", kyc |-> k, profile |-> p]]
  BY <1>i, <1>s, <1>w, <1>k, <1>f, <1>t, <1>u, <1>v, <1>e, <1>p
     DEF Creator!WebhookLiveness, Creator!Hook
<1>4. seen.liveness = liveness
  BY <1>s DEF CreatorInv, Creator!NewKyc
<1>5. full => keep /\ liveness = "VERIFIED"
  BY <1>4, <1>f DEF Creator!canAutoApproveKycTier
<1>6. keep => vouched' \/ Identified' # {} \/ Registered' # {}
  BY <1>k, StillKnown DEF TierOk
<1>7. tier \in Creator!Tiers /\ TierOk(tier, vouched', Identified', Registered', Faced')
  BY <1>1, <1>5, <1>6, <1>t, KycFields, StillKnown DEF TierOk, Creator!Tiers
<1>8. status \in Creator!Statuses /\ "FULL" \in Creator!Tiers
  BY <1>2, <1>u, KycFields DEF Creator!Statuses, Creator!Tiers
<1>9. Typed(k)
  BY <1>1, <1>7, <1>8, <1>e DEF Typed, FieldOk
<1>10. Sound(k, vouched', Identified', Registered', Faced')
  BY <1>1, <1>7, <1>e DEF Sound
<1>11. state \in Creator!ProfileStatuses /\ (state = "ACTIVE" => keep)
  BY <1>2, <1>v, PayoutStateOf DEF Creator!ProfileStatuses
<1>12. SoundProfile(p, vouched', Identified', Registered', Faced')
  BY <1>6, <1>7, <1>11, <1>p DEF SoundProfile
<1> QED BY <1>0, <1>3, <1>9, <1>10, <1>12, Handled DEF Writing

LEMMA ReviewKycKept ==
  ASSUME CreatorAssumption, CreatorInv, [Creator!Next]_(Creator!vars),
         NEW c \in Hooks, NEW v \in KycReviews, Creator!ReviewKyc(c, v[1], v[2], v[3])
  PROVE  CreatorInv'
<1>v. PICK status, match, asked :
        /\ status = v[1] /\ match = v[2] /\ asked = v[3]
        /\ status \in Creator!Statuses /\ asked \in Creator!Tiers
  <2>1. v[1] \in Creator!Statuses /\ v[3] \in Creator!Tiers
    BY DEF CreatorAssumption
  <2> QED BY <2>1
<1>r. Creator!ReviewKyc(c, status, match, asked)
  BY <1>v
<1>0. /\ profile # None /\ UNCHANGED <<profile, kyc, alat>> /\ c \in Creator!Tasks
      /\ status = "VERIFIED" => vouched'
  BY <1>r, CallsAreTasks DEF Creator!ReviewKyc
<1>1. status # "VERIFIED" => Creator!Refusals
  BY <1>v DEF Creator!Refusals
<1>w. PICK wanted \in {"FULL", "BASIC"} :
        wanted = IF asked = "FULL" \/ kyc.target = "FULL" THEN "FULL" ELSE "BASIC"
  OBVIOUS
<1>t. PICK tier : tier = IF status = "VERIFIED" THEN wanted ELSE "NONE"
  OBVIOUS
<1>s. PICK state : state = IF status = "VERIFIED" /\ match = "MATCHED" THEN "ACTIVE"
               ELSE IF status = "REJECTED" \/ match = "MISMATCH" THEN "REJECTED"
               ELSE "REVIEW_REQUIRED"
  OBVIOUS
<1>g. PICK target : target = IF tier # "NONE" THEN tier
                             ELSE IF kyc.target = "NONE" THEN "BASIC" ELSE kyc.target
  OBVIOUS
<1>b. PICK business : business = IF status = "VERIFIED" /\ kyc.owner = "BUSINESS"
                                 THEN "VERIFIED" ELSE kyc.business
  OBVIOUS
<1>i. PICK identity : identity = IF status = "VERIFIED" /\ (kyc.owner # "BUSINESS" \/ tier = "FULL")
                                 THEN "VERIFIED" ELSE kyc.identity
  OBVIOUS
<1>l. PICK liveness : liveness = IF tier = "FULL" THEN "VERIFIED" ELSE kyc.liveness
  OBVIOUS
<1>d. PICK dedup : dedup = IF status \in {"VERIFIED", "REJECTED"} THEN status ELSE kyc.dedup
  OBVIOUS
<1>k. PICK k : k = [status |-> status, match |-> match, tier |-> tier, cache |-> kyc.cache,
                    target |-> target, business |-> business, identity |-> identity,
                    liveness |-> liveness, dedup |-> dedup]
  OBVIOUS
<1>p. PICK p : p = [status |-> state, tier |-> tier]
  OBVIOUS
<1>2. task' = [task EXCEPT ![c] = [op |-> "hook", kyc |-> k, profile |-> p]]
  BY <1>r, <1>w, <1>t, <1>s, <1>g, <1>b, <1>i, <1>l, <1>d, <1>k, <1>p, ZenonT(60)
     DEF Creator!ReviewKyc, Creator!Hook
<1>3. tier = "FULL" => kyc.liveness = "VERIFIED"
  BY <1>r, <1>w, <1>t DEF Creator!ReviewKyc, Creator!FaceSeen
<1>4. tier \in Creator!Tiers /\ TierOk(tier, vouched', Identified', Registered', Faced')
  BY <1>0, <1>3, <1>t, <1>w, StillKnown DEF TierOk, Creator!Tiers
<1>5. /\ target \in Creator!Tiers
      /\ {business, identity, liveness, dedup} \subseteq Creator!Statuses
  BY <1>4, <1>g, <1>b, <1>i, <1>l, <1>d, KycFields DEF Creator!Tiers, Creator!Statuses
<1>6. Typed(k)
  BY <1>v, <1>4, <1>5, <1>k DEF Typed, FieldOk
<1>7. identity = "VERIFIED" => vouched' \/ (Creator!Refusals /\ Identified' # {})
  BY <1>0, <1>1, <1>i, StillKnown
<1>8. business = "VERIFIED" => vouched' \/ (Creator!Refusals /\ Registered' # {})
  BY <1>0, <1>1, <1>b, StillKnown
<1>9. liveness = "VERIFIED" => Faced'
  BY <1>3, <1>l, StillKnown
<1>10. Sound(k, vouched', Identified', Registered', Faced')
  BY <1>4, <1>7, <1>8, <1>9, <1>k DEF Sound
<1>11. state \in Creator!ProfileStatuses /\ (state = "ACTIVE" => vouched')
  BY <1>0, <1>s DEF Creator!ProfileStatuses
<1>12. SoundProfile(p, vouched', Identified', Registered', Faced')
  BY <1>4, <1>11, <1>p DEF SoundProfile
<1> QED BY <1>0, <1>2, <1>6, <1>10, <1>12, Handled DEF Writing

LEMMA UpsertPayoutKept ==
  ASSUME CreatorAssumption, CreatorInv, [Creator!Next]_(Creator!vars),
         NEW c \in Calls, NEW a \in Accounts, NEW o \in Owners, Creator!UpsertPayoutProfile(c, a, o)
  PROVE  CreatorInv'
<1>0. /\ UNCHANGED <<profile, kyc, alat>> /\ c \in Creator!Tasks
      /\ o \in {"PERSONAL", "BUSINESS"}
  BY CallsAreTasks DEF Creator!UpsertPayoutProfile, CreatorAssumption
<1>c. PICK changed, switched, rematch :
        /\ changed = (profile # None /\ (profile.account # a \/ profile.owner # o))
        /\ switched = (profile # None /\ profile.owner # o)
        /\ rematch = Creator!evaluateSettlementNameMatch(a,
                       IF o = "BUSINESS" THEN kyc.firm ELSE kyc.person)
  OBVIOUS
<1>p. PICK p : p = [account |-> a, owner |-> o,
                    status |-> IF profile # None /\ profile.status = "ACTIVE" /\ ~ changed
                               THEN "ACTIVE" ELSE "ACCOUNT_VERIFIED",
                    tier |-> IF profile = None THEN "NONE" ELSE profile.tier]
  OBVIOUS
<1>m. PICK m : m = Creator!Metadata(kyc)
  OBVIOUS
<1>w. PICK w : w = [owner |-> o]
  OBVIOUS
<1>f. PICK f : f = IF switched THEN Creator!Cleared(kyc)
          ELSE IF changed THEN [status |-> "IN_PROGRESS", match |-> rematch] ELSE [match |-> rematch]
  OBVIOUS
<1>h. PICK h : h = Creator!With(w, m)
  OBVIOUS
<1>k. PICK k : k = Creator!With(h, f)
  OBVIOUS
<1>t. PICK t : t = [op |-> "payout", profile |-> p, kyc |-> k, closeAlat |-> changed]
  OBVIOUS
<1>1. task' = [task EXCEPT ![c] = t]
  BY <1>c, <1>p, <1>m, <1>w, <1>f, <1>h, <1>k, <1>t DEF Creator!UpsertPayoutProfile
<1>2. Typed(w) /\ Sound(w, vouched', Identified', Registered', Faced')
  BY <1>w DEF Typed, FieldOk, Sound
<1>3. Typed(m) /\ Sound(m, vouched', Identified', Registered', Faced')
  BY <1>m, MetadataOk
<1>4. Typed(h) /\ Sound(h, vouched', Identified', Registered', Faced')
  BY <1>2, <1>3, <1>h, SoundWith
<1>5. Typed(f) /\ Sound(f, vouched', Identified', Registered', Faced')
  <2>1. CASE f = Creator!Cleared(kyc)
    <3>1. /\ DOMAIN f = {"mode", "status", "business", "identity", "liveness", "dedup", "match",
                         "person", "firm", "identityCheck", "businessCheck", "livenessCheck"}
          /\ f.status = "NOT_STARTED" /\ f.business = "NOT_STARTED" /\ f.identity = "NOT_STARTED"
          /\ f.liveness = "NOT_STARTED" /\ f.dedup = "NOT_STARTED" /\ f.person = None /\ f.firm = None
          /\ f.identityCheck = 0 /\ f.businessCheck = 0 /\ f.livenessCheck = 0
      BY <2>1 DEF Creator!Cleared
    <3>2. 0 \in Creator!Requests /\ "NOT_STARTED" \in Creator!Statuses
      BY DEF Creator!Requests, Creator!Statuses, CreatorAssumption
    <3>3. Typed(f)
      BY <3>1, <3>2 DEF Typed, FieldOk
    <3>4. Sound(f, vouched', Identified', Registered', Faced')
      BY <3>1 DEF Sound
    <3> QED BY <3>3, <3>4
  <2>2. CASE f = [status |-> "IN_PROGRESS", match |-> rematch]
    <3>1. Typed(f)
      BY <2>2 DEF Typed, FieldOk, Creator!Statuses
    <3>2. Sound(f, vouched', Identified', Registered', Faced')
      BY <2>2 DEF Sound
    <3> QED BY <3>1, <3>2
  <2>3. CASE f = [match |-> rematch]
    <3>1. Typed(f)
      BY <2>3 DEF Typed, FieldOk
    <3>2. Sound(f, vouched', Identified', Registered', Faced')
      BY <2>3 DEF Sound
    <3> QED BY <3>1, <3>2
  <2> QED BY <1>f, <2>1, <2>2, <2>3
<1>6. Typed(k) /\ Sound(k, vouched', Identified', Registered', Faced')
  BY <1>4, <1>5, <1>k, SoundWith
<1>7. SoundProfile(p, vouched', Identified', Registered', Faced') /\ p \in ProfileType
  <2>1. CASE profile = None
    <3>1. p = [account |-> a, owner |-> o, status |-> "ACCOUNT_VERIFIED", tier |-> "NONE"]
      BY <1>p, <2>1
    <3>2. SoundProfile(p, vouched', Identified', Registered', Faced')
      BY <1>0, <3>1 DEF SoundProfile, TierOk, Creator!Tiers, Creator!ProfileStatuses
    <3>3. p \in ProfileType
      BY <1>0, <3>1 DEF ProfileType, Creator!Tiers, Creator!ProfileStatuses
    <3> QED BY <3>2, <3>3
  <2>2. CASE profile # None
    <3>s. PICK s : s = IF profile.status = "ACTIVE" /\ ~ changed THEN "ACTIVE" ELSE "ACCOUNT_VERIFIED"
      OBVIOUS
    <3>1. p = [account |-> a, owner |-> o, status |-> s, tier |-> profile.tier]
      BY <1>p, <2>2, <3>s
    <3>2. /\ DOMAIN profile = {"account", "owner", "status", "tier"}
          /\ SoundProfile(profile, vouched', Identified', Registered', Faced')
      BY <2>2, StillKnown DEF ProfileType
    <3>3. /\ profile.tier \in Creator!Tiers
          /\ TierOk(profile.tier, vouched', Identified', Registered', Faced')
          /\ profile.status = "ACTIVE" => vouched' \/ Identified' # {} \/ Registered' # {}
      BY <3>2 DEF SoundProfile
    <3>4. s \in Creator!ProfileStatuses
          /\ (s = "ACTIVE" => vouched' \/ Identified' # {} \/ Registered' # {})
      BY <3>3, <3>s DEF Creator!ProfileStatuses
    <3>5. SoundProfile(p, vouched', Identified', Registered', Faced')
      BY <1>0, <3>1, <3>3, <3>4 DEF SoundProfile
    <3>6. p \in ProfileType
      BY <1>0, <3>1, <3>3, <3>4 DEF ProfileType
    <3> QED BY <3>5, <3>6
  <2> QED BY <2>1, <2>2
<1>8. HandlerOk(t, vouched', Identified', Registered', Faced')
  <2>1. t.op = "payout" /\ t.profile = p /\ t.kyc = k
        /\ t = [op |-> t.op, profile |-> t.profile, kyc |-> t.kyc, closeAlat |-> t.closeAlat]
    BY <1>t
  <2> QED BY <1>6, <1>7, <2>1 DEF HandlerOk, Writing, Saving
<1>9. t.op \notin Writing
  BY <1>t DEF Writing
<1> QED BY <1>0, <1>1, <1>8, <1>9, Planned

(* The writes of what the handlers carry. *)
LEMMA SavePayoutProfileKept ==
  ASSUME CreatorAssumption, CreatorInv, [Creator!Next]_(Creator!vars),
         NEW c \in Calls, Creator!SavePayoutProfile(c)
  PROVE  CreatorInv'
<1>o. PICK old : old = task[c]
  OBVIOUS
<1>0. /\ c \in Creator!Tasks /\ old.op = "payout" /\ profile' = old.profile
      /\ kyc' = kyc /\ alat' = alat
      /\ task' = [task EXCEPT ![c].op = "payout2"]
      /\ HandlerOk(old, vouched, Identified, Registered, Faced)
  BY <1>o, CallsAreTasks DEF Creator!SavePayoutProfile, CreatorInv
<1>1. HandlerOk(old, vouched', Identified', Registered', Faced')
  BY <1>0, SoundStays
<1>2. /\ old = [op |-> old.op, profile |-> old.profile, kyc |-> old.kyc, closeAlat |-> old.closeAlat]
      /\ Typed(old.kyc) /\ Sound(old.kyc, vouched', Identified', Registered', Faced')
      /\ SoundProfile(old.profile, vouched', Identified', Registered', Faced')
      /\ old.profile \in ProfileType
  BY <1>0, <1>1 DEF HandlerOk, Saving
<1>n. PICK new : new = [old EXCEPT !.op = "payout2"]
  OBVIOUS
<1>3. /\ new.op = "payout2" /\ new.profile = old.profile /\ new.kyc = old.kyc
      /\ new = [op |-> new.op, profile |-> new.profile, kyc |-> new.kyc, closeAlat |-> new.closeAlat]
  BY <1>2, <1>n
<1>4. task' = [task EXCEPT ![c] = new]
  BY <1>0, <1>n, <1>o
<1>5. HandlerOk(new, vouched', Identified', Registered', Faced') /\ new.op \notin Writing
  BY <1>2, <1>3 DEF HandlerOk, Writing, Saving
<1>6. profile' # None
  BY <1>0, <1>2 DEF CreatorAssumption
<1>7. /\ task' = [t \in Creator!Tasks |-> task'[t]]
      /\ \A t \in Creator!Tasks :
           /\ HandlerOk(task'[t], vouched', Identified', Registered', Faced')
           /\ task'[t].op \in Writing => profile' # None
  BY <1>0, <1>4, <1>5, <1>6, WorkReplaced
<1>8. /\ DOMAIN kyc' = DOMAIN Creator!NewKyc /\ Typed(kyc')
      /\ Sound(kyc', vouched', Identified', Registered', Faced')
  BY <1>0, RowsStay
<1>9. /\ request' \in Seq(RequestTypes) /\ Len(request') <= MaxRequests /\ vouched' \in BOOLEAN
      /\ alat' \in BOOLEAN
  BY <1>0, KnownStays DEF CreatorInv
<1> HIDE DEF Creator!Tasks
<1> QED BY <1>0, <1>2, <1>7, <1>8, <1>9 DEF CreatorInv

(* A handler writes its KYC fields. *)
LEMMA KycWritten ==
  ASSUME CreatorAssumption, CreatorInv, [Creator!Next]_(Creator!vars),
         NEW k, Typed(k), Sound(k, vouched, Identified, Registered, Faced),
         kyc' = Creator!Merge(kyc, k)
  PROVE  /\ DOMAIN kyc' = DOMAIN Creator!NewKyc /\ Typed(kyc')
         /\ Sound(kyc', vouched', Identified', Registered', Faced')
<1>1. /\ DOMAIN kyc = DOMAIN Creator!NewKyc /\ Typed(kyc)
      /\ Sound(kyc, vouched, Identified, Registered, Faced)
  BY DEF CreatorInv
<1>2. {"person", "firm", "identity", "business"} \subseteq DOMAIN kyc
  BY <1>1 DEF Creator!NewKyc
<1>n. PICK new : new = Creator!Merge(kyc, k)
  OBVIOUS
<1>3. DOMAIN new = DOMAIN kyc /\ Typed(new) /\ Sound(new, vouched, Identified, Registered, Faced)
  BY <1>1, <1>2, <1>n, SoundMerge
<1>4. Sound(new, vouched', Identified', Registered', Faced')
  BY <1>3, SoundStays
<1>5. kyc' = new
  BY <1>n
<1> QED BY <1>1, <1>3, <1>4, <1>5

LEMMA ProfileWritten ==
  ASSUME CreatorAssumption, CreatorInv, [Creator!Next]_(Creator!vars),
         NEW p, SoundProfile(p, vouched, Identified, Registered, Faced),
         profile # None, profile' = Creator!Merge(profile, p)
  PROVE  /\ profile' # None /\ profile' \in ProfileType
         /\ SoundProfile(profile', vouched', Identified', Registered', Faced')
<1>1. profile \in ProfileType /\ SoundProfile(profile, vouched, Identified, Registered, Faced)
  BY DEF CreatorInv
<1>n. PICK new : new = Creator!Merge(profile, p)
  OBVIOUS
<1>2. new \in ProfileType /\ SoundProfile(new, vouched, Identified, Registered, Faced)
  BY <1>1, <1>n, ProfileMerge
<1>g. \A q : SoundProfile(q, vouched, Identified, Registered, Faced)
               => SoundProfile(q, vouched', Identified', Registered', Faced')
  BY SoundStays
<1>3. SoundProfile(new, vouched', Identified', Registered', Faced')
  BY <1>2, <1>g
<1>4. profile' = new
  BY <1>n
<1> QED BY <1>2, <1>3, <1>4 DEF CreatorAssumption

LEMMA SavePayoutKycKept ==
  ASSUME CreatorAssumption, CreatorInv, [Creator!Next]_(Creator!vars),
         NEW c \in Calls, Creator!SavePayoutKyc(c)
  PROVE  CreatorInv'
<1>o. PICK old : old = task[c]
  OBVIOUS
<1>0. /\ c \in Creator!Tasks /\ old.op = "payout2" /\ kyc' = Creator!Merge(kyc, old.kyc)
      /\ profile' = profile /\ alat' = alat
      /\ HandlerOk(old, vouched, Identified, Registered, Faced)
  BY <1>o, CallsAreTasks DEF Creator!SavePayoutKyc, CreatorInv
<1>1. Typed(old.kyc) /\ Sound(old.kyc, vouched, Identified, Registered, Faced)
  BY <1>0 DEF HandlerOk, Saving
<1>2. /\ DOMAIN kyc' = DOMAIN Creator!NewKyc /\ Typed(kyc')
      /\ Sound(kyc', vouched', Identified', Registered', Faced')
  BY <1>0, <1>1, KycWritten
<1>n. PICK new : new = IF old.closeAlat THEN [op |-> "alat"] ELSE Creator!Idle
  OBVIOUS
<1>3. task' = [task EXCEPT ![c] = new]
  BY <1>n, <1>o DEF Creator!SavePayoutKyc
<1>4. new.op \notin Writing \cup Saving
  BY <1>n DEF Creator!Idle, Writing, Saving
<1>5. /\ HandlerOk(new, vouched', Identified', Registered', Faced')
      /\ new.op \in Writing => profile' # None
      /\ profile # None => profile' # None
  BY <1>0, <1>4, RestOk
<1>7. /\ task' = [t \in Creator!Tasks |-> task'[t]]
      /\ \A t \in Creator!Tasks :
           /\ HandlerOk(task'[t], vouched', Identified', Registered', Faced')
           /\ task'[t].op \in Writing => profile' # None
  BY <1>0, <1>3, <1>5, WorkReplaced
<1>8. profile' # None => profile' \in ProfileType
        /\ SoundProfile(profile', vouched', Identified', Registered', Faced')
  BY <1>0, RowsStay
<1>9. /\ request' \in Seq(RequestTypes) /\ Len(request') <= MaxRequests /\ vouched' \in BOOLEAN
      /\ alat' \in BOOLEAN
  BY <1>0, KnownStays DEF CreatorInv
<1> HIDE DEF Creator!Tasks
<1> QED BY <1>2, <1>7, <1>8, <1>9 DEF CreatorInv

LEMMA WriteKycKept ==
  ASSUME CreatorAssumption, CreatorInv, [Creator!Next]_(Creator!vars),
         NEW c \in Calls, Creator!WriteKyc(c)
  PROVE  CreatorInv'
<1>o. PICK old : old = task[c]
  OBVIOUS
<1>0. /\ c \in Creator!Tasks /\ old.op = "kyc" /\ kyc' = Creator!Merge(kyc, old.kyc)
      /\ profile' = profile /\ alat' = alat /\ vouched' = vouched
      /\ task' = [task EXCEPT ![c].op = "profile"]
      /\ HandlerOk(old, vouched, Identified, Registered, Faced)
      /\ old.op \in Writing => profile # None
  BY <1>o, CallsAreTasks DEF Creator!WriteKyc, CreatorInv
<1>1. /\ old = [op |-> old.op, kyc |-> old.kyc, profile |-> old.profile]
      /\ Typed(old.kyc) /\ Sound(old.kyc, vouched, Identified, Registered, Faced)
      /\ profile # None
  BY <1>0 DEF HandlerOk, Writing
<1>2. /\ DOMAIN kyc' = DOMAIN Creator!NewKyc /\ Typed(kyc')
      /\ Sound(kyc', vouched', Identified', Registered', Faced')
  BY <1>0, <1>1, KycWritten
<1>n. PICK new : new = [old EXCEPT !.op = "profile"]
  OBVIOUS
<1>3. /\ new.op = "profile" /\ new.profile = old.profile /\ new.kyc = old.kyc
      /\ new = [op |-> new.op, kyc |-> new.kyc, profile |-> new.profile]
  BY <1>1, <1>n
<1>4. task' = [task EXCEPT ![c] = new]
  BY <1>0, <1>n, <1>o
<1>5. HandlerOk(new, vouched, Identified, Registered, Faced)
  BY <1>0, <1>1, <1>3 DEF HandlerOk, Writing, Saving
<1>6. /\ HandlerOk(new, vouched', Identified', Registered', Faced')
      /\ new.op \in Writing => profile' # None
      /\ profile # None => profile' # None
  BY <1>0, <1>1, <1>5, SoundStays, SMTT(30)
<1>7. /\ task' = [t \in Creator!Tasks |-> task'[t]]
      /\ \A t \in Creator!Tasks :
           /\ HandlerOk(task'[t], vouched', Identified', Registered', Faced')
           /\ task'[t].op \in Writing => profile' # None
  BY <1>0, <1>4, <1>6, WorkReplaced
<1>8. profile' # None => profile' \in ProfileType
        /\ SoundProfile(profile', vouched', Identified', Registered', Faced')
  BY <1>0, RowsStay
<1>9. /\ request' \in Seq(RequestTypes) /\ Len(request') <= MaxRequests /\ vouched' \in BOOLEAN
      /\ alat' \in BOOLEAN
  BY <1>0, KnownStays DEF CreatorInv
<1> HIDE DEF Creator!Tasks
<1> QED BY <1>2, <1>7, <1>8, <1>9 DEF CreatorInv

LEMMA WriteProfileKept ==
  ASSUME CreatorAssumption, CreatorInv, [Creator!Next]_(Creator!vars),
         NEW c \in Creator!Tasks,
         \/ Creator!WriteProfile(c)
         \/ Creator!WebhookWrite(c)
  PROVE  CreatorInv'
<1>o. PICK old : old = task[c]
  OBVIOUS
<1>0. /\ old.op \in Writing
      /\ kyc' = kyc \/ kyc' = Creator!Merge(kyc, old.kyc)
      /\ profile' = Creator!Merge(profile, old.profile) /\ alat' = alat
      /\ task' = [task EXCEPT ![c] = Creator!Idle]
      /\ HandlerOk(old, vouched, Identified, Registered, Faced)
      /\ profile # None
  BY <1>o DEF Creator!WriteProfile, Creator!WebhookWrite, CreatorInv, Writing
<1>1. /\ Typed(old.kyc) /\ Sound(old.kyc, vouched, Identified, Registered, Faced)
      /\ SoundProfile(old.profile, vouched, Identified, Registered, Faced)
  BY <1>0 DEF HandlerOk
<1>2. /\ DOMAIN kyc' = DOMAIN Creator!NewKyc /\ Typed(kyc')
      /\ Sound(kyc', vouched', Identified', Registered', Faced')
  BY <1>0, <1>1, KycWritten, RowsStay
<1>3. /\ profile' # None /\ profile' \in ProfileType
      /\ SoundProfile(profile', vouched', Identified', Registered', Faced')
  BY <1>0, <1>1, ProfileWritten
<1>4. Creator!Idle.op \notin Writing \cup Saving
  BY DEF Creator!Idle, Writing, Saving
<1>5. /\ HandlerOk(Creator!Idle, vouched', Identified', Registered', Faced')
      /\ Creator!Idle.op \in Writing => profile' # None
      /\ profile # None => profile' # None
  BY <1>3, <1>4, RestOk
<1>7. /\ task' = [t \in Creator!Tasks |-> task'[t]]
      /\ \A t \in Creator!Tasks :
           /\ HandlerOk(task'[t], vouched', Identified', Registered', Faced')
           /\ task'[t].op \in Writing => profile' # None
  BY <1>0, <1>5, WorkReplaced
<1>9. /\ request' \in Seq(RequestTypes) /\ Len(request') <= MaxRequests /\ vouched' \in BOOLEAN
      /\ alat' \in BOOLEAN
  BY <1>0, KnownStays DEF CreatorInv
<1> HIDE DEF Creator!Tasks
<1> QED BY <1>2, <1>3, <1>7, <1>9 DEF CreatorInv

LEMMA OthersKept ==
  ASSUME CreatorAssumption, CreatorInv, [Creator!Next]_(Creator!vars),
         NEW c \in Creator!Tasks,
         \/ Creator!CloseAlat(c)
         \/ Creator!Abandon(c)
  PROVE  CreatorInv'
<1>0. /\ UNCHANGED <<profile, kyc>> /\ alat' \in BOOLEAN
      /\ task' = [task EXCEPT ![c] = Creator!Idle]
  BY DEF Creator!CloseAlat, Creator!Abandon, CreatorInv
<1>4. Creator!Idle.op \notin Writing \cup Saving
  BY DEF Creator!Idle, Writing, Saving
<1>5. /\ HandlerOk(Creator!Idle, vouched', Identified', Registered', Faced')
      /\ Creator!Idle.op \in Writing => profile' # None
      /\ profile # None => profile' # None
  BY <1>0, <1>4, RestOk
<1>7. /\ task' = [t \in Creator!Tasks |-> task'[t]]
      /\ \A t \in Creator!Tasks :
           /\ HandlerOk(task'[t], vouched', Identified', Registered', Faced')
           /\ task'[t].op \in Writing => profile' # None
  BY <1>0, <1>5, WorkReplaced
<1>8. /\ DOMAIN kyc' = DOMAIN Creator!NewKyc /\ Typed(kyc')
      /\ Sound(kyc', vouched', Identified', Registered', Faced')
      /\ profile' # None =>
           /\ profile' \in ProfileType
           /\ SoundProfile(profile', vouched', Identified', Registered', Faced')
  BY <1>0, RowsStay
<1>9. request' \in Seq(RequestTypes) /\ Len(request') <= MaxRequests /\ vouched' \in BOOLEAN
  BY KnownStays
<1> HIDE DEF Creator!Tasks
<1> QED BY <1>0, <1>7, <1>8, <1>9 DEF CreatorInv

(* The rows or the checks change, and no handler does. *)
LEMMA IdleStep ==
  ASSUME CreatorAssumption, CreatorInv, [Creator!Next]_(Creator!vars), task' = task,
         kyc' = kyc, alat' \in BOOLEAN, profile # None => profile' # None,
         profile' # None =>
           /\ profile' \in ProfileType
           /\ SoundProfile(profile', vouched', Identified', Registered', Faced')
  PROVE  CreatorInv'
<1>1. /\ task = [t \in Creator!Tasks |-> task[t]]
      /\ \A t \in Creator!Tasks :
           /\ HandlerOk(task[t], vouched, Identified, Registered, Faced)
           /\ task[t].op \in Writing => profile # None
  BY DEF CreatorInv
<1>g. \A w : HandlerOk(w, vouched, Identified, Registered, Faced)
               => HandlerOk(w, vouched', Identified', Registered', Faced')
  BY SoundStays
<1>7. /\ task' = [t \in Creator!Tasks |-> task'[t]]
      /\ \A t \in Creator!Tasks :
           /\ HandlerOk(task'[t], vouched', Identified', Registered', Faced')
           /\ task'[t].op \in Writing => profile' # None
  BY <1>1, <1>g
<1>8. /\ DOMAIN kyc' = DOMAIN Creator!NewKyc /\ Typed(kyc')
      /\ Sound(kyc', vouched', Identified', Registered', Faced')
  BY RowsStay
<1>9. request' \in Seq(RequestTypes) /\ Len(request') <= MaxRequests /\ vouched' \in BOOLEAN
  BY KnownStays
<1> HIDE DEF Creator!Tasks
<1> QED BY <1>7, <1>8, <1>9 DEF CreatorInv

LEMMA DecideKept ==
  ASSUME CreatorAssumption, CreatorInv, [Creator!Next]_(Creator!vars),
         \/ UNCHANGED Creator!vars
         \/ \E r \in DOMAIN request, answer \in Creator!Answers : Creator!Decide(r, answer)
         \/ \E active \in BOOLEAN : Creator!UpsertAlatProfile(active)
  PROVE  CreatorInv'
<1>1. UNCHANGED <<profile, kyc, task>> /\ alat' \in BOOLEAN
  BY DEF Creator!Decide, Creator!UpsertAlatProfile, CreatorInv, Creator!vars
<1> QED BY <1>1, RowsStay, IdleStep

LEMMA ReviewPayoutKept ==
  ASSUME CreatorAssumption, CreatorInv, [Creator!Next]_(Creator!vars),
         NEW status \in PayoutReviews, Creator!ReviewPayoutProfile(status)
  PROVE  CreatorInv'
<1>0. /\ profile # None /\ profile' = [profile EXCEPT !.status = status]
      /\ status = "ACTIVE" => vouched'
      /\ kyc' = kyc /\ alat' = alat /\ task' = task
  BY DEF Creator!ReviewPayoutProfile
<1>o. PICK old : old = profile
  OBVIOUS
<1>1. old \in ProfileType /\ SoundProfile(old, vouched', Identified', Registered', Faced')
  BY <1>0, <1>o, StillKnown
<1>2. status \in Creator!ProfileStatuses
  BY DEF CreatorAssumption
<1>n. PICK new : new = [old EXCEPT !.status = status]
  OBVIOUS
<1>3. /\ DOMAIN old = {"account", "owner", "status", "tier"}
      /\ DOMAIN new = {"account", "owner", "status", "tier"}
      /\ new.status = status /\ new.account = old.account /\ new.owner = old.owner
      /\ new.tier = old.tier
  BY <1>1, <1>n DEF ProfileType
<1>4. SoundProfile(new, vouched', Identified', Registered', Faced')
  BY <1>0, <1>1, <1>2, <1>3 DEF SoundProfile
<1>5. new \in ProfileType
  BY <1>1, <1>2, <1>n DEF ProfileType
<1>6. profile' = new /\ new # None
  BY <1>0, <1>5, <1>n, <1>o DEF CreatorAssumption
<1>7. alat' \in BOOLEAN
  BY <1>0 DEF CreatorInv
<1> QED BY <1>0, <1>4, <1>5, <1>6, <1>7, IdleStep

LEMMA CreatorBegins ==
  ASSUME CreatorAssumption, Creator!Init
  PROVE  CreatorInv
<1>1. /\ profile = None /\ kyc = Creator!NewKyc /\ alat = FALSE
      /\ request = <<>> /\ vouched = FALSE
      /\ task = [c \in Creator!Tasks |-> Creator!Idle]
  BY DEF Creator!Init
<1>2. Creator!Idle.op \notin Writing \cup Saving
  BY DEF Creator!Idle, Writing, Saving
<1>3. /\ task = [c \in Creator!Tasks |-> task[c]]
      /\ \A c \in Creator!Tasks :
           /\ HandlerOk(task[c], vouched, Identified, Registered, Faced)
           /\ task[c].op \in Writing => profile # None
  BY <1>1, <1>2, RestOk
<1>4. /\ DOMAIN kyc = {"owner", "mode", "status", "business", "identity", "liveness", "dedup",
            "match", "person", "firm", "identityCheck", "businessCheck", "livenessCheck", "tier",
            "target", "cache"}
      /\ kyc.status = "NOT_STARTED" /\ kyc.business = "NOT_STARTED" /\ kyc.identity = "NOT_STARTED"
      /\ kyc.liveness = "NOT_STARTED" /\ kyc.dedup = "NOT_STARTED" /\ kyc.person = None
      /\ kyc.firm = None /\ kyc.identityCheck = 0 /\ kyc.businessCheck = 0 /\ kyc.livenessCheck = 0
      /\ kyc.tier = "NONE" /\ kyc.target = "NONE"
  BY <1>1 DEF Creator!NewKyc
<1>5. /\ 0 \in Creator!Requests /\ "NOT_STARTED" \in Creator!Statuses /\ "NONE" \in Creator!Tiers
  BY DEF Creator!Requests, Creator!Statuses, Creator!Tiers, CreatorAssumption
<1>6. Typed(kyc)
  BY <1>4, <1>5 DEF Typed, FieldOk
<1>7. Sound(kyc, vouched, Identified, Registered, Faced)
  BY <1>4 DEF Sound, TierOk
<1>8. request \in Seq(RequestTypes) /\ Len(request) <= MaxRequests
  BY <1>1 DEF CreatorAssumption
<1> HIDE DEF Creator!Tasks
<1> QED BY <1>1, <1>3, <1>6, <1>7, <1>8 DEF CreatorInv

LEMMA CreatorKept ==
  ASSUME CreatorAssumption, CreatorInv, [Creator!Next]_(Creator!vars)
  PROVE  CreatorInv'
<1>1. CASE UNCHANGED Creator!vars
  BY <1>1, DecideKept
<1>2. CASE \E c \in Calls :
       \/ \E a \in Accounts, o \in Owners : Creator!UpsertPayoutProfile(c, a, o)
       \/ Creator!SavePayoutProfile(c) \/ Creator!SavePayoutKyc(c) \/ Creator!CloseAlat(c)
       \/ "PERSONAL" \in Owners /\ \E d \in Persons : Creator!StartPersonalKyc(c, d)
       \/ \E d \in Persons : Creator!StartBusinessRepresentativeKyc(c, d)
       \/ \E f \in Firms : Creator!StartBusinessKyc(c, f)
       \/ Creator!SubmitPersonalLiveness(c)
       \/ \E tier \in {"BASIC", "FULL"} : Creator!SubmitKyc(c, tier)
       \/ Creator!WriteKyc(c) \/ Creator!WriteProfile(c)
  BY <1>2, CallsAreTasks, UpsertPayoutKept, SavePayoutProfileKept, SavePayoutKycKept, OthersKept,
     StartPersonalKept, StartRepresentativeKept, StartBusinessKept, LivenessKept, SubmitKycKept,
     WriteKycKept, WriteProfileKept
<1>3. CASE \E c \in Hooks :
       \/ \E r \in DOMAIN request :
            Creator!WebhookIdentity(c, r) \/ Creator!WebhookBusiness(c, r) \/ Creator!WebhookLiveness(c, r)
       \/ \E v \in KycReviews : Creator!ReviewKyc(c, v[1], v[2], v[3])
       \/ Creator!WebhookWrite(c)
  BY <1>3, CallsAreTasks, WebhookIdentityKept, WebhookBusinessKept, WebhookLivenessKept,
     ReviewKycKept, WriteProfileKept
<1>4. CASE \E c \in Creator!Tasks : Creator!Abandon(c)
  BY <1>4, OthersKept
<1>5. CASE \E r \in DOMAIN request, answer \in Creator!Answers : Creator!Decide(r, answer)
  BY <1>5, DecideKept
<1>6. CASE \E status \in PayoutReviews : Creator!ReviewPayoutProfile(status)
  BY <1>6, ReviewPayoutKept
<1>7. CASE \E active \in BOOLEAN : Creator!UpsertAlatProfile(active)
  BY <1>7, DecideKept
<1> QED BY <1>1, <1>2, <1>3, <1>4, <1>5, <1>6, <1>7 DEF Creator!Next

LEMMA CreatorConclusions ==
  ASSUME CreatorAssumption, CreatorInv
  PROVE  Creator!TypeOK /\ Creator!VerifiedWasProved /\ Creator!TierIsEarned
<1>1. Creator!TypeOK
  <2>1. profile # None => profile \in
          [account : Accounts, owner : {"PERSONAL", "BUSINESS"}, status : Creator!ProfileStatuses,
           tier : Creator!Tiers]
    BY DEF CreatorInv, ProfileType
  <2>2. \A r \in DOMAIN request :
          request[r] \in [kind : Creator!Kinds, subject : Creator!Subjects \cup {None},
                          answer : Creator!Answers]
    <3>1. \A one \in RequestTypes :
            one \in [kind : Creator!Kinds, subject : Creator!Subjects \cup {None},
                     answer : Creator!Answers]
      BY DEF RequestTypes, Creator!Kinds, Creator!Subjects
    <3>2. \A r \in DOMAIN request : request[r] \in RequestTypes
      BY DEF CreatorInv
    <3> QED BY <3>1, <3>2
  <2>3. DOMAIN kyc = DOMAIN Creator!NewKyc /\ {alat, vouched} \subseteq BOOLEAN
    BY DEF CreatorInv
  <2>4. DOMAIN task = Creator!Tasks
    <3> HIDE DEF Creator!Tasks
    <3> QED BY DEF CreatorInv
  <2> QED BY <2>1, <2>2, <2>3, <2>4, KycFields DEF Creator!TypeOK
<1>2. Creator!VerifiedWasProved
  BY KycFields DEF Creator!VerifiedWasProved, Identified, Registered
<1>3. Creator!TierIsEarned
  <2>1. TierOk(kyc.tier, vouched, Identified, Registered, Faced)
    BY KycFields
  <2>2. profile # None =>
          /\ TierOk(profile.tier, vouched, Identified, Registered, Faced)
          /\ profile.status = "ACTIVE" => vouched \/ Identified # {} \/ Registered # {}
    BY DEF CreatorInv, ProfileType, SoundProfile
  <2>p. PICK proved \in BOOLEAN :
          proved = (\/ \E s \in Persons : Creator!Passed("identity", s)
                    \/ \E s \in Firms : Creator!Passed("business", s))
    OBVIOUS
  <2>3. Identified # {} \/ Registered # {} => proved
    BY <2>p DEF Identified, Registered
  <2>t. PICK tiers : tiers = {kyc.tier} \cup (IF profile = None THEN {} ELSE {profile.tier})
    OBVIOUS
  <2>4. "FULL" \in tiers \/ Creator!canOfferAlatTransfer =>
          \E s \in Persons \cup {None} : Creator!Passed("liveness", s)
    BY <2>1, <2>2, <2>t DEF TierOk, Faced, Creator!canOfferAlatTransfer
  <2>5. tiers # {"NONE"} => vouched \/ proved
    BY <2>1, <2>2, <2>3, <2>t DEF TierOk
  <2>6. profile # None /\ profile.status = "ACTIVE" => vouched \/ proved
    BY <2>2, <2>3
  <2> QED BY <2>4, <2>5, <2>6, <2>p, <2>t, Zenon DEF Creator!TierIsEarned
<1> QED BY <1>1, <1>2, <1>3

LEMMA CreatorStaysSound == CreatorAssumption /\ Creator!Spec => []CreatorInv
<1>1. CASE CreatorAssumption
  <2>1. Creator!Init => CreatorInv
    BY <1>1, CreatorBegins
  <2>2. CreatorInv /\ [Creator!Next]_(Creator!vars) => CreatorInv'
    BY <1>1, CreatorKept
  <2> QED BY <2>1, <2>2, PTL DEF Creator!Spec
<1> QED BY <1>1

(* The rows of a creator keep their types: CreatorKycVerification and        *)
(* CreatorSettlementProfile, and the fields handlers carry to them.          *)
THEOREM CreatorTyped == CreatorAssumption /\ Creator!Spec => []Creator!TypeOK
<1>1. CASE CreatorAssumption
  <2>1. CreatorInv => Creator!TypeOK
    BY <1>1, CreatorConclusions
  <2> QED BY <1>1, <2>1, CreatorStaysSound, PTL
<1> QED BY <1>1

(* A row that says a person or firm is verified names one the provider has   *)
(* verified for this creator, or staff have approved the creator; where a    *)
(* review may refuse, some person (or firm) was verified, if not that one.   *)
(* So no answer to an earlier check (startPersonalKyc, the webhooks) vouches *)
(* for another subject, however handlers overlap.                            *)
THEOREM VerifiedSubjectsWereProved ==
  CreatorAssumption /\ Creator!Spec => []Creator!VerifiedWasProved
<1>1. CASE CreatorAssumption
  <2>1. CreatorInv => Creator!VerifiedWasProved
    BY <1>1, CreatorConclusions
  <2> QED BY <1>1, <2>1, CreatorStaysSound, PTL
<1> QED BY <1>1

(* "Full KYC approval requires a verified liveness check": the full tier and *)
(* the offer of transfers take a face check, any tier and an active payout   *)
(* profile take a provider's check or staff, in both copies of the tier, for *)
(* every interleaving of handlers, webhooks and reviews.                     *)
THEOREM TiersAreEarned == CreatorAssumption /\ Creator!Spec => []Creator!TierIsEarned
<1>1. CASE CreatorAssumption
  <2>1. CreatorInv => Creator!TierIsEarned
    BY <1>1, CreatorConclusions
  <2> QED BY <1>1, <2>1, CreatorStaysSound, PTL
<1> QED BY <1>1

-----------------------------------------------------------------------------
(***************************************************************************)
(* An email address and its accounts, for any passwords, ways to sign in,  *)
(* codes and challenges, and any number of requests that overlap.          *)
(***************************************************************************)
CONSTANTS
  Passwords, Required, Ways, MaxTries, WebTries, MaxUsers, MaxCodes,
  MaxChallenges  \* as in Accounts

VARIABLES
  user, users, issued, delivered, tokens, challenge, mailed, wrong, proved,
  completed  \* as in Accounts

Address == INSTANCE Accounts WITH work <- task

AddressAssumption ==
  /\ MaxTries \in Nat /\ WebTries \in Nat /\ MaxUsers \in Nat /\ MaxCodes \in Nat
  /\ MaxChallenges \in Nat /\ Required \in BOOLEAN

IssuedType == [kind : Address!Kinds, password : Passwords \cup {None}]

(* A row, among n, whose codes are among those drawn (iss), the last of them *)
(* for the password that waits; it is verified only if prv says it is.       *)
UserOk(u, iss, prv, n) ==
  /\ u \in Address!UserType /\ u.id \in 1..n
  /\ \A k \in Address!Kinds : u.code[k].hash \in 0..Len(iss)
  /\ u.guest /\ u.pending # None /\ u.code["email"].hash # 0 =>
       iss[u.code["email"].hash] = [kind |-> "email", password |-> u.pending]
  /\ Required /\ u.verified => u.id \in prv

(* What a request carries from its read to its write.                        *)
Carries(w, iss, dlv, top) ==
  /\ w.op = "signup" => w.password \in Passwords
  /\ w.op = "issue" => w.kind \in Address!Kinds /\ w.pending \in Passwords \cup {None}
  /\ w.op = "issue" /\ w.kind = "reset" => w.pending = None
  /\ w.op = "mail" => w.kind \in Address!Kinds /\ w.hash \in 1..Len(iss)
  /\ w.op \in {"verify", "reset"} /\ w.outcome = "count" => w.tries \in 0..MaxTries
  /\ w.op = "verify" =>
       /\ w.pending \in Passwords \cup {None}
       /\ w.outcome = "done" /\ w.completing =>
            w.code \in dlv /\ iss[w.code] = [kind |-> "email", password |-> w.pending]
  /\ w.op = "reset" => w.password \in Passwords /\ w.outcome \in {"clear", "count", "done"}
  /\ w.op = "webmail" => w.challenge \in 1..top

History ==
  /\ users \in 0..MaxUsers
  /\ issued \in Seq(IssuedType) /\ Len(issued) <= MaxCodes
  /\ delivered \subseteq 1..Len(issued) /\ tokens \subseteq 1..users
UserKnown == user = Address!NoUser \/ UserOk(user, issued, proved, users)
Requested ==
  /\ task = [c \in Calls |-> task[c]]
  /\ \A c \in Calls : Carries(task[c], issued, delivered, challenge.id)
(* A row that is locked is the open challenge's, and one request locks it.   *)
Locked ==
  \A c \in Calls : task[c].op = "webverify" =>
    /\ task[c].challenge = challenge.id /\ challenge.id \in 1..MaxChallenges
    /\ ~ challenge.consumed /\ challenge.tries < WebTries
    /\ \A d \in Calls : task[d].op = "webverify" => d = c
Challenged ==
  /\ challenge \in [id : 0..MaxChallenges, tries : 0..WebTries, fresh : BOOLEAN,
                    recent : BOOLEAN, consumed : BOOLEAN]
  /\ mailed \subseteq 1..challenge.id
  /\ session \subseteq [challenge : 1..MaxChallenges, user : 1..MaxUsers]
  /\ opened \in [1..MaxChallenges -> Nat] /\ wrong \in [1..MaxChallenges -> Nat]
  /\ \A i \in 1..MaxChallenges :
       /\ i > challenge.id => opened[i] = 0 /\ wrong[i] = 0
       /\ i = challenge.id => /\ opened[i] <= 1 /\ wrong[i] = challenge.tries
                              /\ ~ challenge.consumed => opened[i] = 0
       /\ i < challenge.id => opened[i] <= 1 /\ wrong[i] <= WebTries
Completions ==
  \A d \in completed : d.code \in delivered /\ issued[d.code] = [kind |-> "email", password |-> d.password]

AddressInv == History /\ UserKnown /\ Requested /\ Locked /\ Challenged /\ Completions

-----------------------------------------------------------------------------
(* Codes are drawn and mailed, never taken back. *)
Longer(a, b) == Len(a) <= Len(b) /\ \A n \in 1..Len(a) : b[n] = a[n]

LEMMA CarriesGrows ==
  ASSUME NEW iss \in Seq(IssuedType), NEW iss2 \in Seq(IssuedType), NEW dlv, NEW dlv2,
         NEW top \in Nat, NEW top2 \in Nat,
         Longer(iss, iss2), dlv \subseteq dlv2, dlv \subseteq 1..Len(iss), top <= top2
  PROVE  \A w : Carries(w, iss, dlv, top) => Carries(w, iss2, dlv2, top2)
<1> SUFFICES ASSUME NEW w, Carries(w, iss, dlv, top)
             PROVE  Carries(w, iss2, dlv2, top2)
  OBVIOUS
<1>0. Len(iss) \in Nat /\ Len(iss2) \in Nat /\ Len(iss) <= Len(iss2)
  BY DEF Longer
<1>1. w.op = "mail" => w.kind \in Address!Kinds /\ w.hash \in 1..Len(iss2)
  BY <1>0 DEF Carries
<1>2. w.op = "verify" =>
       /\ w.pending \in Passwords \cup {None}
       /\ w.outcome = "done" /\ w.completing =>
            w.code \in dlv2 /\ iss2[w.code] = [kind |-> "email", password |-> w.pending]
  BY DEF Carries, Longer
<1>3. w.op = "webmail" => w.challenge \in 1..top2
  BY DEF Carries
<1> QED BY <1>1, <1>2, <1>3 DEF Carries

LEMMA UserOkGrows ==
  ASSUME NEW iss \in Seq(IssuedType), NEW iss2 \in Seq(IssuedType), NEW prv, NEW prv2,
         NEW n \in Nat, NEW n2 \in Nat, NEW u,
         Longer(iss, iss2), prv \subseteq prv2, n <= n2, UserOk(u, iss, prv, n)
  PROVE  UserOk(u, iss2, prv2, n2)
<1>0. Len(iss) \in Nat /\ Len(iss2) \in Nat /\ Len(iss) <= Len(iss2)
  BY DEF Longer
<1>1. \A k \in Address!Kinds : u.code[k].hash \in 0..Len(iss2)
  BY <1>0 DEF UserOk
<1>2. u.guest /\ u.pending # None /\ u.code["email"].hash # 0 =>
       iss2[u.code["email"].hash] = [kind |-> "email", password |-> u.pending]
  BY <1>0 DEF UserOk, Longer, Address!Kinds
<1>3. u.id \in 1..n2
  BY DEF UserOk
<1> QED BY <1>1, <1>2, <1>3 DEF UserOk

LEMMA Appended ==
  ASSUME NEW iss \in Seq(IssuedType), NEW x \in IssuedType
  PROVE  /\ Append(iss, x) \in Seq(IssuedType) /\ Longer(iss, Append(iss, x))
         /\ Len(Append(iss, x)) = Len(iss) + 1 /\ Append(iss, x)[Len(iss) + 1] = x
BY DEF Longer

LEMMA SameIsLonger == ASSUME NEW iss \in Seq(IssuedType) PROVE Longer(iss, iss)
BY DEF Longer

(* A row's fields, and what writing some of them leaves. *)
LEMMA UserFields ==
  ASSUME NEW u \in Address!UserType
  PROVE  /\ u = [id |-> u.id, guest |-> u.guest, verified |-> u.verified, phone |-> u.phone,
                 password |-> u.password, pending |-> u.pending, google |-> u.google, code |-> u.code]
         /\ u.id \in 1..MaxUsers /\ u.guest \in BOOLEAN /\ u.verified \in BOOLEAN /\ u.phone \in BOOLEAN
         /\ u.password \in Passwords \cup {None} /\ u.pending \in Passwords \cup {None}
         /\ u.google \in {"none", "google", "phone"}
         /\ u.code \in [Address!Kinds -> Address!CodeType]
BY DEF Address!UserType

LEMMA CodeKept ==
  ASSUME AddressAssumption, NEW u, NEW iss \in Seq(IssuedType), NEW prv, NEW n \in Nat,
         UserOk(u, iss, prv, n), NEW k \in Address!Kinds, NEW cd \in Address!CodeType,
         cd.hash \in {0, u.code[k].hash}
  PROVE  UserOk([u EXCEPT !.code[k] = cd], iss, prv, n)
<1>u. u \in Address!UserType
  BY DEF UserOk
<1>n. PICK new : new = [u EXCEPT !.code[k] = cd]
  OBVIOUS
<1>c. PICK code : code = [u.code EXCEPT ![k] = cd]
  OBVIOUS
<1>1. code \in [Address!Kinds -> Address!CodeType]
      /\ \A j \in Address!Kinds : code[j] = IF j = k THEN cd ELSE u.code[j]
  BY <1>c, <1>u, UserFields
<1>2. new = [id |-> u.id, guest |-> u.guest, verified |-> u.verified, phone |-> u.phone,
             password |-> u.password, pending |-> u.pending, google |-> u.google, code |-> code]
  BY <1>n, <1>c, <1>u, UserFields
<1>3. new \in Address!UserType
  BY <1>1, <1>2, <1>u, UserFields DEF Address!UserType
<1>4. /\ new.id = u.id /\ new.guest = u.guest /\ new.verified = u.verified
      /\ new.pending = u.pending /\ new.code = code
  BY <1>2
<1>5. \A j \in Address!Kinds : new.code[j].hash \in {0, u.code[j].hash}
  BY <1>1, <1>4
<1>6. 0 \in 0..Len(iss) /\ "email" \in Address!Kinds
  BY DEF Address!Kinds
<1>7. UserOk(new, iss, prv, n)
  BY <1>3, <1>4, <1>5, <1>6 DEF UserOk
<1> QED BY <1>7, <1>n

(* The other fields: who the row belongs to, what it signs in with.          *)
LEMMA RowKept ==
  ASSUME NEW u, NEW iss, NEW prv, NEW n, UserOk(u, iss, prv, n),
         NEW new \in Address!UserType, new.id = u.id, new.code = u.code,
         new.guest => u.guest, new.pending # None => new.pending = u.pending,
         Required /\ new.verified => u.id \in prv
  PROVE  UserOk(new, iss, prv, n)
<1>1. new.guest /\ new.pending # None /\ new.code["email"].hash # 0 =>
       iss[new.code["email"].hash] = [kind |-> "email", password |-> new.pending]
  BY DEF UserOk
<1> QED BY <1>1 DEF UserOk

LEMMA NewRow ==
  ASSUME AddressAssumption, NEW u, NEW iss \in Seq(IssuedType), NEW prv, NEW n \in Nat,
         n <= MaxUsers, NEW id \in 1..n,
         NEW guest \in BOOLEAN, NEW verified \in BOOLEAN, NEW phone \in BOOLEAN,
         NEW password \in Passwords \cup {None}, NEW google \in {"none", "google", "phone"},
         Required /\ verified => id \in prv,
         u = [id |-> id, guest |-> guest, verified |-> verified, phone |-> phone,
              password |-> password, pending |-> None, google |-> google,
              code |-> [k \in Address!Kinds |-> Address!Cleared]]
  PROVE  UserOk(u, iss, prv, n)
<1>1. Address!Cleared \in Address!CodeType /\ Address!Cleared.hash = 0
  BY DEF Address!Cleared, Address!CodeType, AddressAssumption
<1>2. u.code = [k \in Address!Kinds |-> Address!Cleared]
  OBVIOUS
<1>3. u.code \in [Address!Kinds -> Address!CodeType]
  BY <1>1, <1>2
<1>4. id \in 1..MaxUsers
  BY DEF AddressAssumption
<1>5. u \in Address!UserType
  BY <1>3, <1>4 DEF Address!UserType
<1>6. \A k \in Address!Kinds : u.code[k].hash = 0
  BY <1>1, <1>2
<1>7. 0 \in 0..Len(iss) /\ "email" \in Address!Kinds
  BY DEF Address!Kinds
<1>8. u.id = id /\ u.guest = guest /\ u.verified = verified /\ u.pending = None
  OBVIOUS
<1> QED BY <1>5, <1>6, <1>7, <1>8 DEF UserOk

LEMMA NewUserFields ==
  Address!NewUser = [id |-> users + 1, guest |-> FALSE, verified |-> TRUE, phone |-> FALSE,
                     password |-> None, pending |-> None, google |-> "none",
                     code |-> [k \in Address!Kinds |-> Address!Cleared]]
BY DEF Address!NewUser

(* What the invariant says of the row that a request finds. *)
LEMMA Found ==
  ASSUME AddressAssumption, AddressInv, user # Address!NoUser
  PROVE  /\ UserOk(user, issued, proved, users) /\ user \in Address!UserType
         /\ issued \in Seq(IssuedType) /\ users \in Nat /\ users <= MaxUsers
BY DEF AddressInv, UserKnown, UserOk, History, AddressAssumption

-----------------------------------------------------------------------------
(* A step of the app leaves the web's part alone, but may revoke sessions;   *)
(* one request goes on.                                                      *)
WebLeft == UNCHANGED <<challenge, mailed, opened, wrong>> /\ session' \subseteq session

LEMMA AppKept ==
  ASSUME AddressAssumption, AddressInv, WebLeft \/ UNCHANGED Address!webVars,
         History', Longer(issued, issued'), delivered \subseteq delivered',
         UserKnown', Completions',
         \/ task' = task
         \/ \E c \in Calls : \E w :
              /\ task' = [task EXCEPT ![c] = w] /\ w.op # "webverify"
              /\ Carries(w, issued', delivered', challenge.id)
  PROVE  AddressInv'
<1>w. UNCHANGED <<challenge, mailed, opened, wrong>> /\ session' \subseteq session
  BY DEF Address!webVars, WebLeft
<1>0. /\ issued \in Seq(IssuedType) /\ issued' \in Seq(IssuedType) /\ delivered \subseteq 1..Len(issued)
      /\ challenge.id \in Nat
  BY DEF AddressInv, History, Challenged, AddressAssumption
<1>g. challenge.id <= challenge.id
  BY <1>0
<1>1. \A w : Carries(w, issued, delivered, challenge.id) => Carries(w, issued', delivered', challenge.id)
  BY <1>0, <1>g, CarriesGrows
<1>2. /\ task = [c \in Calls |-> task[c]]
      /\ \A c \in Calls : Carries(task[c], issued, delivered, challenge.id)
  BY DEF AddressInv, Requested
<1>3. CASE task' = task
  <2>1. Requested'
    BY <1>1, <1>2, <1>3, <1>w DEF Requested
  <2>2. Locked'
    BY <1>3, <1>w DEF AddressInv, Locked
  <2>3. Challenged'
    BY <1>w DEF AddressInv, Challenged
  <2> QED BY <2>1, <2>2, <2>3 DEF AddressInv
<1>4. ASSUME NEW c \in Calls, NEW w, task' = [task EXCEPT ![c] = w], w.op # "webverify",
             Carries(w, issued', delivered', challenge.id)
      PROVE  AddressInv'
  <2>0. /\ task' = [d \in Calls |-> task'[d]]
        /\ \A d \in Calls : task'[d] = IF d = c THEN w ELSE task[d]
    BY <1>2, <1>4
  <2>1. Requested'
    BY <1>1, <1>2, <1>4, <1>w, <2>0 DEF Requested
  <2>2. Locked'
    BY <1>4, <1>w, <2>0 DEF AddressInv, Locked
  <2>3. Challenged'
    BY <1>w DEF AddressInv, Challenged
  <2> QED BY <2>1, <2>2, <2>3 DEF AddressInv
<1> QED BY <1>3, <1>4

LEMMA QuietKept ==
  ASSUME AddressAssumption, AddressInv, UNCHANGED <<Address!appVars, Address!webVars, proved>>,
         \/ task' = task
         \/ \E c \in Calls : \E w :
              /\ task' = [task EXCEPT ![c] = w] /\ w.op # "webverify"
              /\ Carries(w, issued, delivered, challenge.id)
  PROVE  AddressInv'
<1>1. UNCHANGED <<user, users, issued, delivered, tokens, completed, proved>> /\ UNCHANGED Address!webVars
  BY DEF Address!appVars
<1>2. History' /\ UserKnown' /\ Completions'
  BY <1>1 DEF AddressInv, History, UserKnown, Completions, UserOk, Address!UserType, Address!NoUser
<1>3. Longer(issued, issued')
  BY <1>1, SameIsLonger DEF AddressInv, History
<1> QED BY <1>1, <1>2, <1>3, AppKept

(* The requests' reads. *)
LEMMA SignupReadKept ==
  ASSUME AddressAssumption, AddressInv, NEW c \in Calls, NEW p \in Passwords, Address!SignupRead(c, p)
  PROVE  AddressInv'
<1>0. UNCHANGED <<Address!appVars, Address!webVars, proved>>
  BY DEF Address!SignupRead
<1>1. CASE task' = [task EXCEPT ![c] = [op |-> "signup", password |-> p]]
  <2>w. PICK w : w = [op |-> "signup", password |-> p]
    OBVIOUS
  <2>1. w.op # "webverify" /\ Carries(w, issued, delivered, challenge.id)
    BY <2>w DEF Carries
  <2> QED BY <1>0, <1>1, <2>1, <2>w, QuietKept
<1>2. CASE task' = [task EXCEPT ![c] = [op |-> "issue", kind |-> "email", id |-> user.id,
                                        pending |-> p, rollback |-> FALSE]]
  <2>w. PICK w : w = [op |-> "issue", kind |-> "email", id |-> user.id, pending |-> p, rollback |-> FALSE]
    OBVIOUS
  <2>1. w.op # "webverify" /\ Carries(w, issued, delivered, challenge.id)
    BY <2>w DEF Carries, Address!Kinds
  <2> QED BY <1>0, <1>2, <2>1, <2>w, QuietKept
<1> QED BY <1>1, <1>2 DEF Address!SignupRead, Address!Becomes, Address!Issue

LEMMA LoginReadKept ==
  ASSUME AddressAssumption, AddressInv, NEW c \in Calls, NEW p \in Passwords, Address!LoginRead(c, p)
  PROVE  AddressInv'
<1>0. UNCHANGED <<Address!appVars, Address!webVars, proved>>
  BY DEF Address!LoginRead
<1>1. CASE task' = [task EXCEPT ![c] = [op |-> "login", id |-> user.id]]
  <2>w. PICK w : w = [op |-> "login", id |-> user.id]
    OBVIOUS
  <2>1. w.op # "webverify" /\ Carries(w, issued, delivered, challenge.id)
    BY <2>w DEF Carries
  <2> QED BY <1>0, <1>1, <2>1, <2>w, QuietKept
<1>2. CASE task' = [task EXCEPT ![c] = [op |-> "issue", kind |-> "email", id |-> user.id,
                                        pending |-> None, rollback |-> FALSE]]
  <2>w. PICK w : w = [op |-> "issue", kind |-> "email", id |-> user.id, pending |-> None, rollback |-> FALSE]
    OBVIOUS
  <2>1. w.op # "webverify" /\ Carries(w, issued, delivered, challenge.id)
    BY <2>w DEF Carries, Address!Kinds
  <2> QED BY <1>0, <1>2, <2>1, <2>w, QuietKept
<1> QED BY <1>1, <1>2 DEF Address!LoginRead, Address!Becomes, Address!Issue, Address!Login

LEMMA Judged ==
  ASSUME AddressAssumption, NEW cd \in Address!CodeType, NEW k \in Nat
  PROVE  /\ Address!Judge(cd, k) = "count" => cd.tries + 1 \in 0..MaxTries
         /\ Address!Judge(cd, k) = "done" => cd.hash = k /\ k # 0
         /\ Address!Judge(cd, k) \in {"clear", "count", "done"}
<1>1. cd.tries \in 0..MaxTries /\ cd.hash \in 0..MaxCodes
  BY DEF Address!CodeType
<1> QED BY <1>1 DEF Address!Judge, AddressAssumption

LEMMA VerifyReadKept ==
  ASSUME AddressAssumption, AddressInv, NEW c \in Calls, NEW k \in 0..MaxCodes, Address!VerifyRead(c, k)
  PROVE  AddressInv'
<1>0. /\ UNCHANGED <<Address!appVars, Address!webVars, proved>>
      /\ user # Address!NoUser /\ (k = 0 \/ k \in delivered)
  BY DEF Address!VerifyRead, Address!Guess
<1>j. PICK outcome : outcome = Address!Judge(user.code["email"], k)
  OBVIOUS
<1>w. PICK w : w = [op |-> "verify", id |-> user.id, outcome |-> outcome,
                    tries |-> user.code["email"].tries + 1, code |-> k,
                    completing |-> Address!Completing(user), pending |-> user.pending]
  OBVIOUS
<1>1. task' = [task EXCEPT ![c] = w]
  BY <1>j, <1>w DEF Address!VerifyRead, Address!Becomes
<1>2. UserOk(user, issued, proved, users) /\ user \in Address!UserType
  BY <1>0, Found
<1>3. user.code["email"] \in Address!CodeType /\ user.pending \in Passwords \cup {None}
  BY <1>2, UserFields DEF Address!Kinds
<1>k. k \in Nat
  BY DEF AddressAssumption
<1>4. /\ outcome = "count" => user.code["email"].tries + 1 \in 0..MaxTries
      /\ outcome = "done" => user.code["email"].hash = k /\ k # 0
  BY <1>3, <1>j, <1>k, Judged
<1>5. Address!Completing(user) = (user.guest /\ user.pending # None)
  BY DEF Address!Completing
<1>6. outcome = "done" /\ w.completing =>
        k \in delivered /\ issued[k] = [kind |-> "email", password |-> user.pending]
  <2>1. w.completing = (user.guest /\ user.pending # None)
    BY <1>5, <1>w
  <2> QED BY <1>0, <1>2, <1>4, <2>1 DEF UserOk
<1>7. /\ w.op = "verify" /\ w.outcome = outcome /\ w.tries = user.code["email"].tries + 1
      /\ w.code = k /\ w.pending = user.pending
  BY <1>w
<1>8. Carries(w, issued, delivered, challenge.id)
  BY <1>3, <1>4, <1>6, <1>7 DEF Carries
<1> QED BY <1>0, <1>1, <1>7, <1>8, QuietKept

LEMMA ResetReadKept ==
  ASSUME AddressAssumption, AddressInv, NEW c \in Calls, NEW k \in 0..MaxCodes, NEW p \in Passwords,
         Address!ResetRead(c, k, p)
  PROVE  AddressInv'
<1>0. /\ UNCHANGED <<Address!appVars, Address!webVars, proved>> /\ user # Address!NoUser
  BY DEF Address!ResetRead
<1>j. PICK outcome : outcome = Address!Judge(user.code["reset"], k)
  OBVIOUS
<1>w. PICK w : w = [op |-> "reset", id |-> user.id, outcome |-> outcome,
                    tries |-> user.code["reset"].tries + 1, password |-> p]
  OBVIOUS
<1>1. task' = [task EXCEPT ![c] = w]
  BY <1>j, <1>w DEF Address!ResetRead, Address!Becomes
<1>2. user.code["reset"] \in Address!CodeType
  BY <1>0, Found, UserFields DEF Address!Kinds
<1>k. k \in Nat
  BY DEF AddressAssumption
<1>3. /\ outcome = "count" => user.code["reset"].tries + 1 \in 0..MaxTries
      /\ outcome \in {"clear", "count", "done"}
  BY <1>2, <1>j, <1>k, Judged
<1>4. w.op # "webverify" /\ Carries(w, issued, delivered, challenge.id)
  BY <1>3, <1>w DEF Carries
<1> QED BY <1>0, <1>1, <1>4, QuietKept

LEMMA OtherReadsKept ==
  ASSUME AddressAssumption, AddressInv, NEW c \in Calls,
         \/ Address!ForgotRead(c)
         \/ Address!GoogleRead(c)
         \/ Address!PhoneRead(c)
         \/ Address!Abandon(c)
  PROVE  AddressInv'
<1>0. UNCHANGED <<Address!appVars, Address!webVars, proved>>
  BY DEF Address!ForgotRead, Address!GoogleRead, Address!PhoneRead, Address!Abandon
<1>1. PICK w : /\ task' = [task EXCEPT ![c] = w]
               /\ \/ w = [op |-> "issue", kind |-> "reset", id |-> user.id,
                          pending |-> None, rollback |-> FALSE]
                  \/ w.op \in {"google", "phone", "idle"}
  BY DEF Address!ForgotRead, Address!GoogleRead, Address!PhoneRead, Address!Abandon,
     Address!Becomes, Address!Issue, Address!Idle
<1>2. w.op # "webverify" /\ Carries(w, issued, delivered, challenge.id)
  BY <1>1 DEF Carries, Address!Kinds
<1> QED BY <1>0, <1>1, <1>2, QuietKept

-----------------------------------------------------------------------------
(* The requests' writes.                                                     *)
LEMMA IssueWriteKept ==
  ASSUME AddressAssumption, AddressInv, NEW c \in Calls, Address!IssueWrite(c)
  PROVE  AddressInv'
<1>o. PICK o : o = task[c]
  OBVIOUS
<1>p. PICK pending : pending = IF o.pending # None THEN o.pending ELSE user.pending
  OBVIOUS
<1>n. PICK n : n = Len(issued) + 1
  OBVIOUS
<1>d. PICK cd : cd = [hash |-> n, fresh |-> TRUE, recent |-> TRUE, tries |-> 0]
  OBVIOUS
<1>x. PICK x : x = [kind |-> o.kind, password |-> pending]
  OBVIOUS
<1>w. PICK w : w = [op |-> "mail", kind |-> o.kind, id |-> o.id, hash |-> n, rollback |-> o.rollback]
  OBVIOUS
<1>1. /\ o.op = "issue" /\ user # Address!NoUser /\ n <= MaxCodes
      /\ user' = [user EXCEPT !.pending = pending, !.code[o.kind] = cd]
      /\ issued' = Append(issued, x) /\ task' = [task EXCEPT ![c] = w]
      /\ UNCHANGED <<users, delivered, tokens, completed, proved>> /\ UNCHANGED Address!webVars
  BY <1>o, <1>p, <1>n, <1>d, <1>x, <1>w DEF Address!IssueWrite, Address!Becomes, Address!Exists
<1>2. /\ UserOk(user, issued, proved, users) /\ user \in Address!UserType
      /\ issued \in Seq(IssuedType) /\ users \in Nat /\ users <= MaxUsers
  BY <1>1, Found
<1>3. /\ o.kind \in Address!Kinds /\ o.pending \in Passwords \cup {None}
      /\ o.kind = "reset" => o.pending = None
  BY <1>1, <1>o DEF AddressInv, Requested, Carries
<1>4. pending \in Passwords \cup {None} /\ (o.kind = "reset" => pending = user.pending)
  BY <1>2, <1>3, <1>p, UserFields
<1>5. x \in IssuedType /\ n \in Nat
  BY <1>2, <1>3, <1>4, <1>n, <1>x DEF IssuedType
<1>6. /\ issued' \in Seq(IssuedType) /\ Longer(issued, issued')
      /\ Len(issued') = n /\ issued'[n] = x
  BY <1>1, <1>2, <1>5, <1>n, Appended
<1>c. PICK code : code = [user.code EXCEPT ![o.kind] = cd]
  OBVIOUS
<1>7. cd \in Address!CodeType /\ cd.hash = n
  BY <1>1, <1>5, <1>d DEF Address!CodeType, AddressAssumption
<1>8. /\ code \in [Address!Kinds -> Address!CodeType]
      /\ \A j \in Address!Kinds : code[j] = IF j = o.kind THEN cd ELSE user.code[j]
  BY <1>2, <1>3, <1>7, <1>c, UserFields
<1>v. PICK old : old = user
  OBVIOUS
<1>9. user' = [id |-> user.id, guest |-> user.guest, verified |-> user.verified, phone |-> user.phone,
               password |-> user.password, pending |-> pending, google |-> user.google, code |-> code]
  <2>1. old = [id |-> old.id, guest |-> old.guest, verified |-> old.verified, phone |-> old.phone,
               password |-> old.password, pending |-> old.pending, google |-> old.google, code |-> old.code]
    BY <1>2, <1>v, UserFields
  <2>2. user' = [old EXCEPT !.pending = pending, !.code[o.kind] = cd] /\ code = [old.code EXCEPT ![o.kind] = cd]
    BY <1>1, <1>c, <1>v
  <2>3. user' = [id |-> old.id, guest |-> old.guest, verified |-> old.verified, phone |-> old.phone,
               password |-> old.password, pending |-> pending, google |-> old.google, code |-> code]
    BY <2>1, <2>2
  <2> QED BY <2>3, <1>v
<1>10. user' \in Address!UserType
  BY <1>2, <1>4, <1>8, <1>9, UserFields DEF Address!UserType
<1>11. /\ user'.id = user.id /\ user'.guest = user.guest /\ user'.verified = user.verified
       /\ user'.pending = pending /\ user'.code = code
  BY <1>9
<1>12. \A k \in Address!Kinds : user.code[k].hash \in 0..Len(issued)
  BY <1>2 DEF UserOk
<1>13. \A k \in Address!Kinds : user'.code[k].hash \in 0..Len(issued')
  BY <1>2, <1>5, <1>6, <1>7, <1>8, <1>11, <1>12, <1>n
<1>14. user'.guest /\ user'.pending # None /\ user'.code["email"].hash # 0 =>
         issued'[user'.code["email"].hash] = [kind |-> "email", password |-> user'.pending]
  <2>1. CASE o.kind = "email"
    <3>1. user'.code["email"].hash = n
      BY <1>3, <1>7, <1>8, <1>11, <2>1
    <3> QED BY <1>6, <1>11, <1>x, <2>1, <3>1
  <2>2. CASE o.kind = "reset"
    <3>1. user'.code["email"] = user.code["email"] /\ pending = user.pending
      BY <1>4, <1>8, <1>11, <2>2 DEF Address!Kinds
    <3>2. user.guest /\ user.pending # None /\ user.code["email"].hash # 0 =>
            issued[user.code["email"].hash] = [kind |-> "email", password |-> user.pending]
      BY <1>2 DEF UserOk
    <3>3. user.code["email"].hash \in 0..Len(issued)
      BY <1>12 DEF Address!Kinds
    <3>4. user.code["email"].hash # 0 =>
            issued'[user.code["email"].hash] = issued[user.code["email"].hash]
      BY <1>2, <1>6, <3>3 DEF Longer
    <3> QED BY <1>11, <3>1, <3>2, <3>4
  <2> QED BY <1>3, <2>1, <2>2 DEF Address!Kinds
<1>15. UserOk(user', issued', proved', users')
  <2>1. user'.id \in 1..users' /\ (Required /\ user'.verified => user'.id \in proved')
    BY <1>1, <1>2, <1>11 DEF UserOk
  <2> QED BY <1>10, <1>13, <1>14, <2>1 DEF UserOk
<1>16. History' /\ Completions'
  <2>1. History /\ Completions
    BY DEF AddressInv
  <2>2. History'
    BY <1>1, <1>2, <1>5, <1>6, <1>n, <2>1 DEF History
  <2>3. Completions'
    BY <1>1, <1>6, <2>1 DEF Completions, Longer, History
  <2> QED BY <2>2, <2>3
<1>17. UserKnown'
  BY <1>15 DEF UserKnown
<1>18. w.op # "webverify" /\ Carries(w, issued', delivered', challenge.id)
  BY <1>3, <1>5, <1>6, <1>n, <1>w, <1>2 DEF Carries
<1> QED BY <1>1, <1>6, <1>16, <1>17, <1>18, AppKept

(* The other writes leave the codes drawn as they are. *)
LEMMA WriteKept ==
  ASSUME AddressAssumption, AddressInv, UNCHANGED <<issued, delivered>>,
         WebLeft \/ UNCHANGED Address!webVars,
         users' \in users..MaxUsers, tokens' \subseteq 1..users', proved \subseteq proved',
         user' = Address!NoUser \/ UserOk(user', issued, proved', users'), Completions',
         \/ task' = task
         \/ \E c \in Calls : \E w :
              /\ task' = [task EXCEPT ![c] = w] /\ w.op # "webverify"
              /\ Carries(w, issued, delivered, challenge.id)
  PROVE  AddressInv'
<1>1. /\ users \in 0..MaxUsers
      /\ issued \in Seq(IssuedType) /\ Len(issued) <= MaxCodes
      /\ delivered \subseteq 1..Len(issued)
  BY DEF AddressInv, History
<1>2. History'
  BY <1>1 DEF History, AddressAssumption
<1>3. UserKnown'
  BY DEF UserKnown
<1>4. Longer(issued, issued')
  BY <1>1, SameIsLonger
<1> QED BY <1>2, <1>3, <1>4, AppKept

LEMMA MailSentKept ==
  ASSUME AddressAssumption, AddressInv, NEW c \in Calls, Address!MailSent(c)
  PROVE  AddressInv'
<1>o. PICK o : o = task[c]
  OBVIOUS
<1>1. /\ o.op = "mail" /\ delivered' = delivered \cup {o.hash}
      /\ task' = [task EXCEPT ![c] = Address!Idle]
      /\ UNCHANGED <<user, users, issued, tokens, completed, proved>> /\ UNCHANGED Address!webVars
  BY <1>o DEF Address!MailSent, Address!Becomes
<1>2. o.hash \in 1..Len(issued)
  BY <1>1, <1>o DEF AddressInv, Requested, Carries
<1>3. History' /\ Completions' /\ UserKnown'
  <2>1. History'
    BY <1>1, <1>2 DEF AddressInv, History
  <2>2. Completions'
    BY <1>1 DEF AddressInv, Completions
  <2>3. UserKnown'
    BY <1>1 DEF AddressInv, UserKnown, UserOk, Address!UserType, Address!NoUser
  <2> QED BY <2>1, <2>2, <2>3
<1>4. Longer(issued, issued') /\ delivered \subseteq delivered'
  BY <1>1, SameIsLonger DEF AddressInv, History
<1>5. Address!Idle.op # "webverify" /\ Carries(Address!Idle, issued', delivered', challenge.id)
  BY DEF Address!Idle, Carries
<1> QED BY <1>1, <1>3, <1>4, <1>5, AppKept

(* What a write leaves alone. *)
LEMMA Kept ==
  ASSUME AddressAssumption, AddressInv
  PROVE  /\ users \in Nat /\ users \in 0..MaxUsers /\ issued \in Seq(IssuedType)
         /\ users' = users \/ (users < MaxUsers /\ users' = users + 1) =>
              users' \in users..MaxUsers /\ tokens \subseteq 1..users'
         /\ UNCHANGED <<completed, issued, delivered>> => Completions'
         /\ Carries(Address!Idle, issued, delivered, challenge.id) /\ Address!Idle.op # "webverify"
<1>1. users \in 0..MaxUsers /\ users \in Nat /\ tokens \subseteq 1..users /\ issued \in Seq(IssuedType)
  BY DEF AddressInv, History
<1>2. UNCHANGED <<completed, issued, delivered>> => Completions'
  BY DEF AddressInv, Completions
<1>3. Carries(Address!Idle, issued, delivered, challenge.id) /\ Address!Idle.op # "webverify"
  BY DEF Address!Idle, Carries
<1>4. users' = users => users' \in users..MaxUsers /\ tokens \subseteq 1..users'
  BY <1>1 DEF AddressAssumption
<1>5. users < MaxUsers /\ users' = users + 1 => users' \in users..MaxUsers /\ tokens \subseteq 1..users'
  BY <1>1 DEF AddressAssumption
<1> QED BY <1>1, <1>2, <1>3, <1>4, <1>5

LEMMA MailFailedKept ==
  ASSUME AddressAssumption, AddressInv, NEW c \in Calls, Address!MailFailed(c)
  PROVE  AddressInv'
<1>o. PICK o : o = task[c]
  OBVIOUS
<1>1. /\ o.op = "mail"
      /\ user' = user \/ (user # Address!NoUser /\ user' = [user EXCEPT !.code[o.kind] = Address!Cleared])
      /\ UNCHANGED <<users, issued, delivered, tokens, completed, proved>> /\ UNCHANGED Address!webVars
  BY <1>o DEF Address!MailFailed, Address!Exists
<1>2. o.kind \in Address!Kinds
  BY <1>1, <1>o DEF AddressInv, Requested, Carries
<1>3. \E w : /\ task' = [task EXCEPT ![c] = w] /\ w.op # "webverify"
             /\ Carries(w, issued, delivered, challenge.id)
  <2>w. PICK w : w = [op |-> "rollback", id |-> o.id]
    OBVIOUS
  <2>1. w.op # "webverify" /\ Carries(w, issued, delivered, challenge.id)
    BY <2>w DEF Carries
  <2>2. task' = [task EXCEPT ![c] = w] \/ task' = [task EXCEPT ![c] = Address!Idle]
    BY <1>o, <2>w DEF Address!MailFailed, Address!Becomes
  <2> QED BY <2>1, <2>2, Kept
<1>4. user' = Address!NoUser \/ UserOk(user', issued, proved, users)
  <2>1. CASE user' = user
    BY <2>1 DEF AddressInv, UserKnown
  <2>2. CASE user # Address!NoUser /\ user' = [user EXCEPT !.code[o.kind] = Address!Cleared]
    <3>1. Address!Cleared \in Address!CodeType /\ Address!Cleared.hash = 0
      BY DEF Address!Cleared, Address!CodeType, AddressAssumption
    <3> QED BY <1>2, <2>2, <3>1, Found, CodeKept
  <2> QED BY <1>1, <2>1, <2>2
<1>5. UserOk(user', issued, proved, users) => UserOk(user', issued, proved', users')
  BY <1>1 DEF UserOk
<1> QED BY <1>1, <1>3, <1>4, <1>5, Kept, WriteKept

LEMMA RollbackKept ==
  ASSUME AddressAssumption, AddressInv, NEW c \in Calls, Address!Rollback(c)
  PROVE  AddressInv'
<1>1. /\ user' = user \/ user' = Address!NoUser
      /\ task' = [task EXCEPT ![c] = Address!Idle]
      /\ UNCHANGED <<users, issued, delivered, tokens, completed, proved, challenge, mailed, opened, wrong>>
      /\ session' \subseteq session
  BY DEF Address!Rollback, Address!Becomes
<1>2. user' = Address!NoUser \/ UserOk(user', issued, proved', users')
  BY <1>1 DEF AddressInv, UserKnown, UserOk
<1>3. WebLeft
  BY <1>1 DEF WebLeft
<1> QED BY <1>1, <1>2, <1>3, Kept, WriteKept

LEMMA SignupCreateKept ==
  ASSUME AddressAssumption, AddressInv, NEW c \in Calls, Address!SignupCreate(c)
  PROVE  AddressInv'
<1>o. PICK o : o = task[c]
  OBVIOUS
<1>r. PICK verified \in BOOLEAN : verified = ~ Required
  OBVIOUS
<1>1. /\ o.op = "signup" /\ users < MaxUsers
      /\ user' = [Address!NewUser EXCEPT !.password = o.password, !.verified = verified]
      /\ users' = users + 1
      /\ UNCHANGED <<issued, delivered, tokens, completed, proved>> /\ UNCHANGED Address!webVars
  BY <1>o, <1>r DEF Address!SignupCreate
<1>2. o.password \in Passwords
  BY <1>1, <1>o DEF AddressInv, Requested, Carries
<1>3. user' = [id |-> users + 1, guest |-> FALSE, verified |-> verified, phone |-> FALSE,
               password |-> o.password, pending |-> None, google |-> "none",
               code |-> [k \in Address!Kinds |-> Address!Cleared]]
  BY <1>1, NewUserFields
<1>4. users + 1 \in 1..(users + 1) /\ users + 1 <= MaxUsers /\ users + 1 \in Nat /\ issued \in Seq(IssuedType)
  BY <1>1, Kept DEF AddressAssumption
<1>5. UserOk(user', issued, proved, users + 1)
  BY <1>2, <1>3, <1>4, <1>r, NewRow
<1>6. UserOk(user', issued, proved', users')
  BY <1>1, <1>5 DEF UserOk
<1>7. \E w : /\ task' = [task EXCEPT ![c] = w] /\ w.op # "webverify"
             /\ Carries(w, issued, delivered, challenge.id)
  <2>v. PICK v : v = [op |-> "issue", kind |-> "email", id |-> users + 1, pending |-> None, rollback |-> TRUE]
    OBVIOUS
  <2>w. PICK w : w = [op |-> "login", id |-> users + 1]
    OBVIOUS
  <2>1. task' = [task EXCEPT ![c] = v] \/ task' = [task EXCEPT ![c] = w]
    BY <2>v, <2>w DEF Address!SignupCreate, Address!Becomes, Address!Issue, Address!Login
  <2>2. v.op # "webverify" /\ Carries(v, issued, delivered, challenge.id)
    BY <2>v DEF Carries, Address!Kinds
  <2>3. w.op # "webverify" /\ Carries(w, issued, delivered, challenge.id)
    BY <2>w DEF Carries
  <2> QED BY <2>1, <2>2, <2>3
<1> QED BY <1>1, <1>6, <1>7, Kept, WriteKept

LEMMA TokenCreateKept ==
  ASSUME AddressAssumption, AddressInv, NEW c \in Calls, Address!TokenCreate(c)
  PROVE  AddressInv'
<1>o. PICK o : o = task[c]
  OBVIOUS
<1>1. /\ user # Address!NoUser /\ user.id = o.id /\ tokens' = tokens \cup {o.id}
      /\ task' = [task EXCEPT ![c] = Address!Idle]
      /\ UNCHANGED <<user, users, issued, delivered, completed, proved>> /\ UNCHANGED Address!webVars
  BY <1>o DEF Address!TokenCreate, Address!Becomes, Address!Exists
<1>2. UserOk(user, issued, proved, users)
  BY <1>1, Found
<1>3. tokens' \subseteq 1..users'
  BY <1>1, <1>2, Kept DEF UserOk
<1>4. UserOk(user', issued, proved', users')
  BY <1>1, <1>2 DEF UserOk
<1> QED BY <1>1, <1>3, <1>4, Kept, WriteKept

(* A code is used up, and the account verified. *)
LEMMA Proved ==
  ASSUME AddressAssumption, AddressInv, NEW u, UserOk(u, issued, proved, users),
         NEW prv, proved \subseteq prv, ~ Required \/ u.id \in prv,
         NEW next, next = [u EXCEPT !.code["email"] = Address!Cleared, !.verified = TRUE]
  PROVE  UserOk(next, issued, prv, users)
<1>1. Address!Cleared \in Address!CodeType /\ Address!Cleared.hash = 0 /\ "email" \in Address!Kinds
  BY DEF Address!Cleared, Address!CodeType, AddressAssumption, Address!Kinds
<1>m. PICK mid : mid = [u EXCEPT !.code["email"] = Address!Cleared]
  OBVIOUS
<1>2. UserOk(mid, issued, proved, users)
  BY <1>1, <1>m, Kept, CodeKept
<1>3. UserOk(mid, issued, prv, users)
  BY <1>2 DEF UserOk
<1>4. mid \in Address!UserType /\ u \in Address!UserType
  BY <1>2 DEF UserOk
<1>5. PICK new : new = [id |-> mid.id, guest |-> mid.guest, verified |-> TRUE, phone |-> mid.phone,
             password |-> mid.password, pending |-> mid.pending, google |-> mid.google, code |-> mid.code]
  OBVIOUS
<1>e. next = new /\ mid.id = u.id
  <2>1. u = [id |-> u.id, guest |-> u.guest, verified |-> u.verified, phone |-> u.phone,
             password |-> u.password, pending |-> u.pending, google |-> u.google, code |-> u.code]
    BY <1>4, UserFields
  <2>c. PICK code : code = [u.code EXCEPT !["email"] = Address!Cleared]
    OBVIOUS
  <2>2. mid = [id |-> u.id, guest |-> u.guest, verified |-> u.verified, phone |-> u.phone,
               password |-> u.password, pending |-> u.pending, google |-> u.google, code |-> code]
    BY <2>1, <2>c, <1>m
  <2>3. next = [id |-> u.id, guest |-> u.guest, verified |-> TRUE, phone |-> u.phone,
                password |-> u.password, pending |-> u.pending, google |-> u.google, code |-> code]
    BY <2>1, <2>c
  <2> QED BY <2>2, <2>3, <1>5
<1>f. /\ mid.id \in 1..MaxUsers /\ mid.guest \in BOOLEAN /\ mid.phone \in BOOLEAN
      /\ mid.password \in Passwords \cup {None} /\ mid.pending \in Passwords \cup {None}
      /\ mid.google \in {"none", "google", "phone"}
      /\ mid.code \in [Address!Kinds -> Address!CodeType]
  BY <1>4, UserFields
<1>6. new \in Address!UserType
  BY <1>f, <1>5 DEF Address!UserType
<1>7. /\ new.id = mid.id /\ new.guest = mid.guest /\ new.pending = mid.pending
      /\ new.code = mid.code
  BY <1>5
<1>8. ~ Required \/ new.id \in prv
  BY <1>e, <1>7
<1>9. UserOk(new, issued, prv, users)
  BY <1>3, <1>6, <1>7, <1>8 DEF UserOk
<1> QED BY <1>9, <1>e

LEMMA ResendReadKept ==
  ASSUME AddressAssumption, AddressInv, NEW c \in Calls, Address!ResendRead(c)
  PROVE  AddressInv'
<1>1. /\ user # Address!NoUser
      /\ UNCHANGED <<users, issued, delivered, tokens, completed, proved>> /\ UNCHANGED Address!webVars
  BY DEF Address!ResendRead
<1>2. UserOk(user, issued, proved, users)
  BY <1>1, Found
<1>3. CASE /\ ~ Required /\ task' = task
           /\ user' = [user EXCEPT !.code["email"] = Address!Cleared, !.verified = TRUE]
  <2>1. UserOk(user', issued, proved, users)
    BY <1>2, <1>3, Proved
  <2>2. UserOk(user', issued, proved', users')
    BY <1>1, <2>1 DEF UserOk
  <2> QED BY <1>1, <1>3, <2>2, Kept, WriteKept
<1>4. CASE /\ user' = user
           /\ task' = [task EXCEPT ![c] = [op |-> "issue", kind |-> "email", id |-> user.id,
                                           pending |-> None, rollback |-> FALSE]]
  <2>w. PICK w : w = [op |-> "issue", kind |-> "email", id |-> user.id, pending |-> None, rollback |-> FALSE]
    OBVIOUS
  <2>1. w.op # "webverify" /\ Carries(w, issued, delivered, challenge.id)
    BY <2>w DEF Carries, Address!Kinds
  <2>2. UserOk(user', issued, proved', users')
    BY <1>1, <1>2, <1>4 DEF UserOk
  <2> QED BY <1>1, <1>4, <2>w, <2>1, <2>2, Kept, WriteKept
<1> QED BY <1>3, <1>4 DEF Address!ResendRead, Address!Issue, Address!Becomes

LEMMA VerifyWriteKept ==
  ASSUME AddressAssumption, AddressInv, NEW c \in Calls, Address!VerifyWrite(c)
  PROVE  AddressInv'
<1>o. PICK o : o = task[c]
  OBVIOUS
<1>1. /\ o.op = "verify" /\ user # Address!NoUser /\ user.id = o.id
      /\ UNCHANGED <<users, issued, delivered, tokens>> /\ UNCHANGED Address!webVars
  BY <1>o DEF Address!VerifyWrite, Address!Exists
<1>2. UserOk(user, issued, proved, users) /\ user \in Address!UserType
  BY <1>1, Found
<1>3. Carries(o, issued, delivered, challenge.id)
  BY <1>o DEF AddressInv, Requested
<1>c. PICK cd : cd = user.code["email"]
  OBVIOUS
<1>k. cd \in Address!CodeType /\ "email" \in Address!Kinds
  BY <1>2, <1>c, UserFields DEF Address!Kinds
<1>4. CASE /\ o.outcome = "clear" /\ user' = [user EXCEPT !.code["email"] = Address!Cleared]
           /\ task' = [task EXCEPT ![c] = Address!Idle] /\ UNCHANGED <<completed, proved>>
  <2>1. Address!Cleared \in Address!CodeType /\ Address!Cleared.hash = 0
    BY DEF Address!Cleared, Address!CodeType, AddressAssumption
  <2>2. UserOk(user', issued, proved, users)
    BY <1>2, <1>4, <1>k, <2>1, Kept, CodeKept
  <2>3. UserOk(user', issued, proved', users')
    BY <1>1, <1>4, <2>2 DEF UserOk
  <2> QED BY <1>1, <1>4, <2>3, Kept, WriteKept
<1>5. CASE /\ o.outcome = "count" /\ user' = [user EXCEPT !.code["email"].tries = o.tries]
           /\ task' = [task EXCEPT ![c] = Address!Idle] /\ UNCHANGED <<completed, proved>>
  <2>n. PICK new : new = [cd EXCEPT !.tries = o.tries]
    OBVIOUS
  <2>1. o.tries \in 0..MaxTries
    BY <1>1, <1>3, <1>5 DEF Carries
  <2>2. new \in Address!CodeType /\ new.hash = cd.hash
    BY <1>k, <2>n, <2>1 DEF Address!CodeType
  <2>3. user' = [user EXCEPT !.code["email"] = new]
    BY <1>5, <1>c, <2>n
  <2>4. UserOk(user', issued, proved, users)
    BY <1>2, <1>c, <1>k, <2>2, <2>3, Kept, CodeKept
  <2>5. UserOk(user', issued, proved', users')
    BY <1>1, <1>5, <2>4 DEF UserOk
  <2> QED BY <1>1, <1>5, <2>5, Kept, WriteKept
<1>u. PICK u : u = [user EXCEPT !.code["email"] = Address!Cleared, !.verified = TRUE]
  OBVIOUS
<1>6. CASE /\ o.outcome = "done"
           /\ user' = IF o.completing
                        THEN [u EXCEPT !.password = Address!PasswordToSet(o), !.pending = None, !.guest = FALSE]
                        ELSE u
           /\ completed' = IF o.completing
                THEN completed \cup {[code |-> o.code, password |-> user'.password]} ELSE completed
           /\ proved' = proved \cup {o.id}
           /\ task' = [task EXCEPT ![c] = [op |-> "login", id |-> o.id]]
  <2>p. PICK prv : prv = proved \cup {o.id}
    OBVIOUS
  <2>1. UserOk(u, issued, prv, users) /\ u \in Address!UserType
    <3>1. proved \subseteq prv /\ user.id \in prv
      BY <1>1, <2>p
    <3>2. UserOk(u, issued, prv, users)
      BY <1>2, <1>u, <3>1, Proved
    <3> QED BY <3>2 DEF UserOk
  <2>2. ASSUME o.completing PROVE UserOk(user', issued, prv, users) /\ Completions'
    <3>1. o.pending \in Passwords \cup {None} /\ o.code \in delivered
          /\ issued[o.code] = [kind |-> "email", password |-> o.pending]
      BY <1>1, <1>3, <1>6, <2>2 DEF Carries
    <3>f. PICK guest \in BOOLEAN : guest = FALSE
      OBVIOUS
    <3>2. user' = [id |-> u.id, guest |-> guest, verified |-> u.verified, phone |-> u.phone,
                   password |-> o.pending, pending |-> None, google |-> u.google, code |-> u.code]
      <4>1. u = [id |-> u.id, guest |-> u.guest, verified |-> u.verified, phone |-> u.phone,
               password |-> u.password, pending |-> u.pending, google |-> u.google, code |-> u.code]
        BY <2>1, UserFields
      <4>2. user' = [u EXCEPT !.password = o.pending, !.pending = None, !.guest = FALSE]
        BY <1>6, <2>2 DEF Address!PasswordToSet
      <4> QED BY <4>1, <4>2, <3>f
    <3>3. Required /\ u.verified => u.id \in prv
      BY <2>1 DEF UserOk
    <3>n. PICK new : new = user'
      OBVIOUS
    <3>a. /\ u.id \in 1..MaxUsers /\ u.verified \in BOOLEAN /\ u.phone \in BOOLEAN
          /\ u.google \in {"none", "google", "phone"} /\ None \in Passwords \cup {None}
          /\ u.code \in [Address!Kinds -> Address!CodeType]
      BY <2>1, UserFields
    <3>b. new \in Address!UserType
      BY <3>1, <3>2, <3>a, <3>n DEF Address!UserType
    <3>c. /\ new.id = u.id /\ new.code = u.code /\ new.guest = FALSE
          /\ new.pending = None /\ new.verified = u.verified
      BY <3>2, <3>f, <3>n
    <3>e. UserOk(new, issued, prv, users)
      BY <2>1, <3>3, <3>b, <3>c, RowKept
    <3>4. UserOk(user', issued, prv, users)
      BY <3>e, <3>n
    <3>d. PICK d : d = [code |-> o.code, password |-> o.pending]
      OBVIOUS
    <3>5. completed' = completed \cup {d}
      <4>1. user'.password = o.pending
        BY <3>2
      <4>2. completed' = completed \cup {[code |-> o.code, password |-> user'.password]}
        BY <1>6, <2>2
      <4> QED BY <3>d, <4>1, <4>2
    <3>6. Completions'
      <4>1. \A e \in completed' : e \in completed \/ e = d
        BY <3>5
      <4>2. d.code \in delivered /\ issued[d.code] = [kind |-> "email", password |-> d.password]
        BY <3>1, <3>d
      <4> QED BY <1>1, <4>1, <4>2 DEF AddressInv, Completions
    <3> QED BY <3>4, <3>6
  <2>3. ASSUME ~ o.completing PROVE UserOk(user', issued, prv, users) /\ Completions'
    <3>1. user' = u /\ completed' = completed
      BY <1>6, <2>3
    <3>2. Completions'
      BY <1>1, <3>1, Kept
    <3> QED BY <2>1, <3>1, <3>2
  <2>4. UserOk(user', issued, prv, users) /\ Completions'
    BY <2>2, <2>3
  <2>5. UserOk(user', issued, proved', users') /\ proved \subseteq proved'
    BY <1>1, <1>6, <2>4, <2>p DEF UserOk
  <2>w. PICK w : w = [op |-> "login", id |-> o.id]
    OBVIOUS
  <2>6. w.op # "webverify" /\ Carries(w, issued, delivered, challenge.id)
    BY <2>w DEF Carries
  <2> QED BY <1>1, <1>6, <2>4, <2>5, <2>6, <2>w, Kept, WriteKept
<1> QED BY <1>4, <1>5, <1>6, <1>o, <1>u DEF Address!VerifyWrite, Address!Becomes, Address!Login

LEMMA ResetWriteKept ==
  ASSUME AddressAssumption, AddressInv, NEW c \in Calls, Address!ResetWrite(c)
  PROVE  AddressInv'
<1>o. PICK o : o = task[c]
  OBVIOUS
<1>1. /\ o.op = "reset" /\ user # Address!NoUser
      /\ task' = [task EXCEPT ![c] = Address!Idle]
      /\ UNCHANGED <<users, issued, delivered, tokens, completed, proved>> /\ UNCHANGED Address!webVars
  BY <1>o DEF Address!ResetWrite, Address!Becomes, Address!Exists
<1>2. UserOk(user, issued, proved, users) /\ user \in Address!UserType
  BY <1>1, Found
<1>3. /\ o.password \in Passwords /\ o.outcome \in {"clear", "count", "done"}
      /\ (o.outcome = "count" => o.tries \in 0..MaxTries)
  BY <1>1, <1>o DEF AddressInv, Requested, Carries
<1>c. PICK cd : cd = user.code["reset"]
  OBVIOUS
<1>k. cd \in Address!CodeType /\ "reset" \in Address!Kinds
  BY <1>2, <1>c, UserFields DEF Address!Kinds
<1>x. Address!Cleared \in Address!CodeType /\ Address!Cleared.hash = 0
  BY DEF Address!Cleared, Address!CodeType, AddressAssumption
<1>4. ASSUME o.outcome = "clear", user' = [user EXCEPT !.code["reset"] = Address!Cleared]
      PROVE  UserOk(user', issued, proved, users)
  BY <1>2, <1>4, <1>k, <1>x, Kept, CodeKept
<1>5. ASSUME o.outcome = "count", user' = [user EXCEPT !.code["reset"].tries = o.tries]
      PROVE  UserOk(user', issued, proved, users)
  <2>n. PICK new : new = [cd EXCEPT !.tries = o.tries]
    OBVIOUS
  <2>1. new \in Address!CodeType /\ new.hash = cd.hash
    BY <1>3, <1>5, <1>k, <2>n DEF Address!CodeType
  <2>2. user' = [user EXCEPT !.code["reset"] = new]
    BY <1>5, <1>c, <2>n
  <2> QED BY <1>2, <1>c, <1>k, <2>1, <2>2, Kept, CodeKept
<1>6. ASSUME o.outcome = "done",
             user' = [user EXCEPT !.code["reset"] = Address!Cleared, !.password = o.password]
      PROVE  UserOk(user', issued, proved, users)
  <2>m. PICK mid : mid = [user EXCEPT !.code["reset"] = Address!Cleared]
    OBVIOUS
  <2>1. UserOk(mid, issued, proved, users) /\ mid \in Address!UserType
    <3>1. UserOk(mid, issued, proved, users)
      BY <1>2, <1>k, <1>x, <2>m, Kept, CodeKept
    <3> QED BY <3>1 DEF UserOk
  <2>n. PICK new : new = [mid EXCEPT !.password = o.password]
    OBVIOUS
  <2>2. user' = new
    BY <1>6, <2>m, <2>n
  <2>3. mid = [id |-> mid.id, guest |-> mid.guest, verified |-> mid.verified, phone |-> mid.phone,
               password |-> mid.password, pending |-> mid.pending, google |-> mid.google, code |-> mid.code]
    BY <2>1, UserFields
  <2>4. new = [id |-> mid.id, guest |-> mid.guest, verified |-> mid.verified, phone |-> mid.phone,
               password |-> o.password, pending |-> mid.pending, google |-> mid.google, code |-> mid.code]
    BY <2>3, <2>n
  <2>5. new \in Address!UserType
    BY <1>3, <2>1, <2>4, UserFields DEF Address!UserType
  <2>6. /\ new.id = mid.id /\ new.guest = mid.guest /\ new.verified = mid.verified
        /\ new.pending = mid.pending /\ new.code = mid.code
    BY <2>4
  <2>7. UserOk(new, issued, proved, users)
    BY <2>1, <2>5, <2>6 DEF UserOk
  <2> QED BY <2>2, <2>7
<1>7. UserOk(user', issued, proved, users)
  BY <1>3, <1>4, <1>5, <1>6, <1>o DEF Address!ResetWrite
<1>8. UserOk(user', issued, proved', users')
  BY <1>1, <1>7 DEF UserOk
<1> QED BY <1>1, <1>8, Kept, WriteKept

(* Time, and a phone number that was added. *)
LEMMA FlagsKept ==
  ASSUME AddressAssumption, AddressInv,
         Address!SetPhone \/ \E k \in Address!Kinds : Address!Cool(k) \/ Address!Expire(k)
  PROVE  AddressInv'
<1>1. /\ user # Address!NoUser /\ task' = task
      /\ UNCHANGED <<users, issued, delivered, tokens, completed, proved>> /\ UNCHANGED Address!webVars
  BY DEF Address!SetPhone, Address!Cool, Address!Expire
<1>2. UserOk(user, issued, proved, users) /\ user \in Address!UserType
  BY <1>1, Found
<1>o. PICK old : old = user
  OBVIOUS
<1>3. old = [id |-> old.id, guest |-> old.guest, verified |-> old.verified, phone |-> old.phone,
             password |-> old.password, pending |-> old.pending, google |-> old.google, code |-> old.code]
  BY <1>2, <1>o, UserFields
<1>4. ASSUME user' = [user EXCEPT !.phone = TRUE]
      PROVE  UserOk(user', issued, proved, users)
  <2>1. user' = [id |-> old.id, guest |-> old.guest, verified |-> old.verified, phone |-> TRUE,
               password |-> old.password, pending |-> old.pending, google |-> old.google, code |-> old.code]
    BY <1>3, <1>4, <1>o
  <2>2. user' \in Address!UserType
    BY <1>2, <1>o, <2>1, UserFields DEF Address!UserType
  <2>3. /\ user'.id = user.id /\ user'.guest = user.guest /\ user'.verified = user.verified
        /\ user'.pending = user.pending /\ user'.code = user.code
    BY <2>1, <1>o
  <2> QED BY <1>2, <2>2, <2>3 DEF UserOk
<1>5. ASSUME NEW k \in Address!Kinds, NEW cd \in Address!CodeType, cd.hash = user.code[k].hash,
             user' = [user EXCEPT !.code[k] = cd]
      PROVE  UserOk(user', issued, proved, users)
  BY <1>2, <1>5, Kept, CodeKept
<1>6. ASSUME NEW k \in Address!Kinds, Address!Cool(k) \/ Address!Expire(k)
      PROVE  UserOk(user', issued, proved, users)
  <2>c. PICK cd : cd = user.code[k]
    OBVIOUS
  <2>1. cd \in Address!CodeType
    BY <1>2, <2>c, UserFields
  <2>r. PICK a : a = [cd EXCEPT !.recent = FALSE]
    OBVIOUS
  <2>f. PICK b : b = [cd EXCEPT !.fresh = FALSE]
    OBVIOUS
  <2>2. a \in Address!CodeType /\ a.hash = cd.hash /\ b \in Address!CodeType /\ b.hash = cd.hash
    BY <2>1, <2>r, <2>f DEF Address!CodeType
  <2>3. user' = [user EXCEPT !.code[k] = a] \/ user' = [user EXCEPT !.code[k] = b]
    BY <1>6, <2>c, <2>r, <2>f DEF Address!Cool, Address!Expire
  <2> QED BY <1>5, <2>c, <2>2, <2>3
<1>7. UserOk(user', issued, proved, users)
  BY <1>4, <1>6 DEF Address!SetPhone
<1>8. UserOk(user', issued, proved', users')
  BY <1>1, <1>7 DEF UserOk
<1> QED BY <1>1, <1>8, Kept, WriteKept

(* Google and phone sign in to the row they found, or to a new one. *)
LEMMA SignedIn ==
  ASSUME AddressAssumption, AddressInv, NEW c \in Calls,
         user' # Address!NoUser, UserOk(user', issued, proved', users'), proved \subseteq proved',
         users' = users \/ (users < MaxUsers /\ users' = users + 1),
         task' = [task EXCEPT ![c] = [op |-> "login", id |-> user'.id]],
         UNCHANGED <<issued, delivered, tokens, completed>>, UNCHANGED Address!webVars
  PROVE  AddressInv'
<1>i. PICK id : id = user'.id
  OBVIOUS
<1>w. PICK w : w = [op |-> "login", id |-> id]
  OBVIOUS
<1>1. w.op # "webverify" /\ Carries(w, issued, delivered, challenge.id)
  BY <1>w DEF Carries
<1> QED BY <1>1, <1>i, <1>w, Kept, WriteKept

LEMMA GoogleWriteKept ==
  ASSUME AddressAssumption, AddressInv, NEW c \in Calls, Address!GoogleWrite(c)
  PROVE  AddressInv'
<1>1. /\ proved' = proved \cup {user'.id}
      /\ task' = [task EXCEPT ![c] = [op |-> "login", id |-> user'.id]]
      /\ UNCHANGED <<issued, delivered, tokens, completed>> /\ UNCHANGED Address!webVars
  BY DEF Address!GoogleWrite, Address!Becomes, Address!Login
<1>b. PICK yes \in BOOLEAN : yes = TRUE
  OBVIOUS
<1>f. PICK no \in BOOLEAN : no = FALSE
  OBVIOUS
<1>2. ASSUME users < MaxUsers, user' = [Address!NewUser EXCEPT !.google = "google"], users' = users + 1
      PROVE  UserOk(user', issued, proved', users')
  <2>p. PICK prv : prv = proved'
    OBVIOUS
  <2>1. user' = [id |-> users + 1, guest |-> no, verified |-> yes, phone |-> no,
                 password |-> None, pending |-> None, google |-> "google",
                 code |-> [k \in Address!Kinds |-> Address!Cleared]]
    BY <1>2, <1>b, <1>f, NewUserFields
  <2>2. user'.id = users + 1
    BY <2>1
  <2>3. users + 1 \in prv
    BY <1>1, <2>2, <2>p
  <2>4. users + 1 \in 1..(users + 1) /\ users + 1 <= MaxUsers /\ users + 1 \in Nat /\ issued \in Seq(IssuedType)
    BY <1>2, Kept DEF AddressAssumption
  <2>5. UserOk(user', issued, prv, users + 1)
    BY <2>1, <2>3, <2>4, NewRow
  <2> QED BY <1>2, <2>5, <2>p
<1>3. ASSUME user # Address!NoUser, users' = users,
             \/ user' = [user EXCEPT !.verified = TRUE]
             \/ user' = [user EXCEPT !.google = "google", !.guest = FALSE, !.pending = None,
                                     !.password = None, !.verified = TRUE]
      PROVE  UserOk(user', issued, proved', users')
  <2>1. UserOk(user, issued, proved, users) /\ user \in Address!UserType
    BY <1>3, Found
  <2>o. PICK old : old = user
    OBVIOUS
  <2>2. old = [id |-> old.id, guest |-> old.guest, verified |-> old.verified, phone |-> old.phone,
               password |-> old.password, pending |-> old.pending, google |-> old.google, code |-> old.code]
    BY <2>1, <2>o, UserFields
  <2>3. PICK guest \in BOOLEAN, password \in Passwords \cup {None}, pending \in {old.pending, None},
             google \in {"none", "google", "phone"} :
          /\ user' = [id |-> old.id, guest |-> guest, verified |-> yes, phone |-> old.phone,
                      password |-> password, pending |-> pending, google |-> google, code |-> old.code]
          /\ (guest => old.guest)
    <3>1. CASE user' = [user EXCEPT !.verified = TRUE]
      <4>1. user' = [id |-> old.id, guest |-> old.guest, verified |-> yes, phone |-> old.phone,
               password |-> old.password, pending |-> old.pending, google |-> old.google, code |-> old.code]
        BY <2>2, <2>o, <3>1, <1>b
      <4> QED BY <4>1, <2>1, <2>o, UserFields
    <3>2. CASE user' = [user EXCEPT !.google = "google", !.guest = FALSE, !.pending = None,
                                    !.password = None, !.verified = TRUE]
      <4>1. user' = [id |-> old.id, guest |-> no, verified |-> yes, phone |-> old.phone,
               password |-> None, pending |-> None, google |-> "google", code |-> old.code]
        BY <2>2, <2>o, <3>2, <1>b, <1>f
      <4> QED BY <4>1, <1>f
    <3> QED BY <1>3, <3>1, <3>2
  <2>p. PICK prv : prv = proved'
    OBVIOUS
  <2>4. old.id \in prv /\ proved \subseteq prv
    <3>1. user'.id = old.id
      BY <2>3
    <3> QED BY <1>1, <2>p, <3>1
  <2>5. UserOk(old, issued, prv, users)
    BY <2>1, <2>4, <2>o DEF UserOk
  <2>6. /\ pending \in Passwords \cup {None} /\ old.phone \in BOOLEAN
        /\ old.id \in 1..MaxUsers /\ old.code \in [Address!Kinds -> Address!CodeType]
    BY <2>1, <2>o, UserFields
  <2>n. PICK new : new = user'
    OBVIOUS
  <2>7. new = [id |-> old.id, guest |-> guest, verified |-> yes, phone |-> old.phone,
               password |-> password, pending |-> pending, google |-> google, code |-> old.code]
    BY <2>3, <2>n
  <2>8. /\ new \in Address!UserType
        /\ new.id = old.id /\ new.code = old.code /\ new.guest = guest
        /\ new.pending = pending /\ new.verified = yes
    BY <2>3, <2>6, <2>7 DEF Address!UserType
  <2>9. UserOk(new, issued, prv, users)
    BY <2>3, <2>4, <2>5, <2>8, RowKept
  <2> QED BY <1>3, <2>9, <2>n, <2>p
<1>4. /\ users' = users \/ (users < MaxUsers /\ users' = users + 1)
      /\ UserOk(user', issued, proved', users')
  BY <1>2, <1>3 DEF Address!GoogleWrite, Address!Exists
<1>5. user' # Address!NoUser
  BY <1>4 DEF UserOk, Address!UserType, Address!NoUser
<1> QED BY <1>1, <1>4, <1>5, SignedIn

LEMMA PhoneWriteKept ==
  ASSUME AddressAssumption, AddressInv, NEW c \in Calls, Address!PhoneWrite(c)
  PROVE  AddressInv'
<1>1. /\ proved' = proved \cup {user'.id}
      /\ task' = [task EXCEPT ![c] = [op |-> "login", id |-> user'.id]]
      /\ UNCHANGED <<issued, delivered, tokens, completed>> /\ UNCHANGED Address!webVars
  BY DEF Address!PhoneWrite, Address!Becomes, Address!Login
<1>p. PICK prv : prv = proved'
  OBVIOUS
<1>q. proved \subseteq prv
  BY <1>1, <1>p
<1>2. ASSUME users < MaxUsers, users' = users + 1,
             user' = [Address!NewUser EXCEPT !.google = "phone", !.phone = TRUE]
      PROVE  UserOk(user', issued, prv, users')
  <2>b. PICK yes \in BOOLEAN : yes = TRUE
    OBVIOUS
  <2>f. PICK no \in BOOLEAN : no = FALSE
    OBVIOUS
  <2>1. user' = [id |-> users + 1, guest |-> no, verified |-> yes, phone |-> yes,
                 password |-> None, pending |-> None, google |-> "phone",
                 code |-> [k \in Address!Kinds |-> Address!Cleared]]
    BY <1>2, <2>b, <2>f, NewUserFields
  <2>2. user'.id = users + 1
    BY <2>1
  <2>3. users + 1 \in prv
    BY <1>1, <2>2, <1>p
  <2>4. users + 1 \in 1..(users + 1) /\ users + 1 <= MaxUsers /\ users + 1 \in Nat /\ issued \in Seq(IssuedType)
    BY <1>2, Kept DEF AddressAssumption
  <2>5. UserOk(user', issued, prv, users + 1)
    BY <2>1, <2>3, <2>4, NewRow
  <2> QED BY <1>2, <2>5
<1>3. ASSUME user # Address!NoUser, users' = users, user' = user
      PROVE  UserOk(user', issued, prv, users')
  BY <1>3, <1>q, Found DEF UserOk
<1>4. ASSUME user # Address!NoUser, users' = users,
             user' = [user EXCEPT !.code["email"] = Address!Cleared, !.verified = TRUE]
      PROVE  UserOk(user', issued, prv, users')
  <2>1. UserOk(user, issued, proved, users)
    BY <1>4, Found
  <2>o. PICK old : old = user
    OBVIOUS
  <2>n. PICK new : new = [old EXCEPT !.code["email"] = Address!Cleared, !.verified = TRUE]
    OBVIOUS
  <2>2. old \in Address!UserType /\ UserOk(old, issued, proved, users)
    BY <2>1, <2>o DEF UserOk
  <2>3. new.id = old.id /\ user' = new
    <3>1. old = [id |-> old.id, guest |-> old.guest, verified |-> old.verified, phone |-> old.phone,
               password |-> old.password, pending |-> old.pending, google |-> old.google, code |-> old.code]
      BY <2>2, UserFields
    <3> QED BY <1>4, <2>n, <2>o, <3>1
  <2>4. old.id \in prv
    BY <1>1, <1>p, <2>3
  <2>5. UserOk(new, issued, prv, users)
    BY <1>q, <2>2, <2>4, <2>n, Proved
  <2> QED BY <1>4, <2>3, <2>5
<1>5. /\ users' = users \/ (users < MaxUsers /\ users' = users + 1)
      /\ UserOk(user', issued, prv, users')
  BY <1>2, <1>3, <1>4 DEF Address!PhoneWrite, Address!Exists
<1>6. user' # Address!NoUser
  BY <1>5 DEF UserOk, Address!UserType, Address!NoUser
<1> QED BY <1>1, <1>5, <1>6, <1>p, SignedIn

-----------------------------------------------------------------------------
(* The web's steps. *)
LEMMA WebKept ==
  ASSUME AddressAssumption, AddressInv, UNCHANGED <<Address!appVars, proved>>,
         Requested', Locked', Challenged'
  PROVE  AddressInv'
<1>1. UNCHANGED <<user, users, issued, delivered, tokens, completed, proved>>
  BY DEF Address!appVars
<1>2. History' /\ UserKnown' /\ Completions'
  BY <1>1 DEF AddressInv, History, UserKnown, Completions, UserOk, Address!UserType, Address!NoUser
<1> QED BY <1>2 DEF AddressInv

(* A request goes on to w, which is not to check a code. *)
LEMMA WebRequestKept ==
  ASSUME AddressAssumption, AddressInv, UNCHANGED <<Address!appVars, proved>>,
         NEW c \in Calls, NEW w, task' = [task EXCEPT ![c] = w], w.op # "webverify",
         challenge.id <= challenge'.id, Carries(w, issued, delivered, challenge'.id),
         challenge' = challenge \/ (\A d \in Calls : task[d].op # "webverify"), Challenged'
  PROVE  AddressInv'
<1>1. UNCHANGED <<user, users, issued, delivered, tokens, completed, proved>>
  BY DEF Address!appVars
<1>2. /\ issued \in Seq(IssuedType) /\ delivered \subseteq 1..Len(issued)
      /\ challenge.id \in Nat /\ challenge'.id \in Nat
  BY DEF AddressInv, History, Challenged, AddressAssumption
<1>t. PICK top : top = challenge'.id
  OBVIOUS
<1>3. \A v : Carries(v, issued, delivered, challenge.id) => Carries(v, issued, delivered, top)
  BY <1>2, <1>t, SameIsLonger, CarriesGrows
<1>4. /\ task = [d \in Calls |-> task[d]]
      /\ \A d \in Calls : Carries(task[d], issued, delivered, challenge.id)
  BY DEF AddressInv, Requested
<1>5. /\ task' = [d \in Calls |-> task'[d]]
      /\ \A d \in Calls : task'[d] = IF d = c THEN w ELSE task[d]
  BY <1>4
<1>6. \A d \in Calls : Carries(task'[d], issued, delivered, top)
  BY <1>3, <1>4, <1>5, <1>t
<1>7. Requested'
  BY <1>1, <1>5, <1>6, <1>t DEF Requested, Carries
<1>8. Locked'
  BY <1>5 DEF AddressInv, Locked
<1> QED BY <1>7, <1>8, WebKept

LEMMA RequestCodeKept ==
  ASSUME AddressAssumption, AddressInv, NEW c \in Calls, Address!requestCode(c)
  PROVE  AddressInv'
<1>i. PICK id : id = challenge.id + 1
  OBVIOUS
<1>w. PICK w : w = [op |-> "webmail", challenge |-> id]
  OBVIOUS
<1>1. /\ challenge.id < MaxChallenges /\ (\A d \in Calls : task[d].op # "webverify")
      /\ challenge' = [id |-> id, tries |-> 0, fresh |-> TRUE, recent |-> TRUE, consumed |-> FALSE]
      /\ task' = [task EXCEPT ![c] = w]
      /\ UNCHANGED <<mailed, session, opened, wrong>> /\ UNCHANGED <<Address!appVars, proved>>
  BY <1>i, <1>w DEF Address!requestCode, Address!RowIsFree, Address!Becomes
<1>2. Challenged
  BY DEF AddressInv
<1>3. challenge.id \in Nat /\ id \in Nat /\ id \in 1..MaxChallenges /\ challenge'.id = id
  BY <1>1, <1>2, <1>i DEF Challenged, AddressAssumption
<1>4. w.op # "webverify" /\ Carries(w, issued, delivered, challenge'.id)
  BY <1>3, <1>w DEF Carries
<1>5. Challenged'
  <2>1. challenge'.tries = 0 /\ challenge.tries \in 0..WebTries
    BY <1>1, <1>2 DEF Challenged
  <2>2. /\ challenge' \in [id : 0..MaxChallenges, tries : 0..WebTries, fresh : BOOLEAN,
                           recent : BOOLEAN, consumed : BOOLEAN]
        /\ mailed' \subseteq 1..id
    BY <1>1, <1>2, <1>3, <1>i DEF Challenged, AddressAssumption
  <2>3. ASSUME NEW i \in 1..MaxChallenges
        PROVE  /\ i > id => opened[i] = 0 /\ wrong[i] = 0
               /\ i = id => opened[i] = 0 /\ wrong[i] = 0
               /\ i < id => opened[i] <= 1 /\ wrong[i] <= WebTries
    <3>1. i > challenge.id => opened[i] = 0 /\ wrong[i] = 0
      BY <1>2 DEF Challenged
    <3>2. i = challenge.id => opened[i] <= 1 /\ wrong[i] = challenge.tries
      BY <1>2 DEF Challenged
    <3>3. i < challenge.id => opened[i] <= 1 /\ wrong[i] <= WebTries
      BY <1>2 DEF Challenged
    <3> QED BY <1>3, <1>i, <2>1, <3>1, <3>2, <3>3 DEF AddressAssumption
  <2> QED BY <1>1, <1>2, <1>3, <2>1, <2>2, <2>3 DEF Challenged
<1>6. challenge.id <= challenge'.id
  BY <1>3, <1>i
<1> QED BY <1>1, <1>4, <1>5, <1>6, WebRequestKept

LEMMA WebMailKept ==
  ASSUME AddressAssumption, AddressInv, NEW c \in Calls,
         Address!WebMailSent(c) \/ Address!WebMailFailed(c)
  PROVE  AddressInv'
<1>o. PICK o : o = task[c]
  OBVIOUS
<1>1. /\ o.op = "webmail" /\ task' = [task EXCEPT ![c] = Address!Idle]
      /\ UNCHANGED <<session, opened, wrong>> /\ UNCHANGED <<Address!appVars, proved>>
  BY <1>o DEF Address!WebMailSent, Address!WebMailFailed, Address!Becomes
<1>2. Challenged /\ o.challenge \in 1..challenge.id
  BY <1>1, <1>o DEF AddressInv, Requested, Carries
<1>3. CASE mailed' = mailed \cup {o.challenge} /\ UNCHANGED challenge
  <2>1. Challenged'
    BY <1>1, <1>2, <1>3 DEF Challenged
  <2>2. challenge.id <= challenge'.id /\ Carries(Address!Idle, issued, delivered, challenge'.id)
    BY <1>2, <1>3, Kept DEF Challenged, AddressAssumption
  <2> QED BY <1>1, <1>3, <2>1, <2>2, Kept, WebRequestKept
<1>4. ASSUME NEW consumed \in BOOLEAN, challenge.consumed => consumed,
             challenge' = [challenge EXCEPT !.consumed = consumed],
             UNCHANGED mailed, \A d \in Calls : task[d].op # "webverify"
      PROVE  AddressInv'
  <2>1. /\ challenge' \in [id : 0..MaxChallenges, tries : 0..WebTries, fresh : BOOLEAN,
                           recent : BOOLEAN, consumed : BOOLEAN]
        /\ challenge'.id = challenge.id /\ challenge'.tries = challenge.tries
        /\ challenge'.consumed = consumed
    BY <1>2, <1>4 DEF Challenged
  <2>2. Challenged'
    BY <1>1, <1>2, <1>4, <2>1 DEF Challenged
  <2>3. challenge.id <= challenge'.id /\ Carries(Address!Idle, issued, delivered, challenge'.id)
    BY <1>2, <2>1, Kept DEF Challenged, AddressAssumption
  <2> QED BY <1>1, <1>4, <2>2, <2>3, Kept, WebRequestKept
<1>5. ASSUME Address!WebMailFailed(c) PROVE AddressInv'
  <2>1. PICK consumed \in BOOLEAN : consumed = (challenge.consumed \/ challenge.id = o.challenge)
    OBVIOUS
  <2>2. challenge' = [challenge EXCEPT !.consumed = consumed]
    BY <1>5, <1>o, <2>1 DEF Address!WebMailFailed
  <2>3. UNCHANGED mailed /\ \A d \in Calls : task[d].op # "webverify"
    BY <1>5 DEF Address!WebMailFailed, Address!RowIsFree
  <2>4. challenge.consumed => consumed
    BY <2>1
  <2> QED BY <1>4, <2>2, <2>3, <2>4
<1>6. ASSUME Address!WebMailSent(c) PROVE mailed' = mailed \cup {o.challenge} /\ UNCHANGED challenge
  BY <1>6, <1>o DEF Address!WebMailSent
<1> QED BY <1>3, <1>5, <1>6

LEMMA WebVerifyReadKept ==
  ASSUME AddressAssumption, AddressInv, NEW c \in Calls, NEW i \in 1..MaxChallenges,
         NEW right \in BOOLEAN, Address!WebVerifyRead(c, i, right)
  PROVE  AddressInv'
<1>w. PICK w : w = [op |-> "webverify", challenge |-> i, right |-> right]
  OBVIOUS
<1>1. /\ challenge.id = i /\ ~ challenge.consumed /\ challenge.tries < WebTries
      /\ (\A d \in Calls : task[d].op # "webverify") /\ task' = [task EXCEPT ![c] = w]
      /\ UNCHANGED Address!webVars /\ UNCHANGED <<Address!appVars, proved>>
  BY <1>w DEF Address!WebVerifyRead, Address!RowIsFree, Address!Becomes
<1>2. UNCHANGED <<challenge, mailed, session, opened, wrong, issued, delivered>>
  BY <1>1 DEF Address!webVars, Address!appVars
<1>3. Challenged'
  BY <1>2 DEF AddressInv, Challenged
<1>4. /\ task = [d \in Calls |-> task[d]]
      /\ \A d \in Calls : Carries(task[d], issued, delivered, challenge.id)
  BY DEF AddressInv, Requested
<1>5. /\ task' = [d \in Calls |-> task'[d]]
      /\ \A d \in Calls : task'[d] = IF d = c THEN w ELSE task[d]
  BY <1>1, <1>4
<1>6. Carries(w, issued, delivered, challenge.id) /\ w.op = "webverify" /\ w.challenge = i
  BY <1>w DEF Carries
<1>7. Requested'
  BY <1>2, <1>4, <1>5, <1>6 DEF Requested
<1>8. Locked'
  BY <1>1, <1>2, <1>5, <1>6 DEF Locked
<1> QED BY <1>1, <1>3, <1>7, <1>8, WebKept

(* Time, and a session revoked. *)
LEMMA WebFlagsKept ==
  ASSUME AddressAssumption, AddressInv,
         Address!WebCool \/ Address!WebExpire \/ \E s \in session : Address!revoke(s)
  PROVE  AddressInv'
<1>1. /\ UNCHANGED <<mailed, opened, wrong, task>> /\ UNCHANGED <<Address!appVars, proved>>
      /\ session' \subseteq session
      /\ \/ challenge' = challenge
         \/ challenge' = [challenge EXCEPT !.recent = FALSE]
         \/ challenge' = [challenge EXCEPT !.fresh = FALSE]
  BY DEF Address!WebCool, Address!WebExpire, Address!revoke
<1>2. Challenged
  BY DEF AddressInv
<1>3. /\ challenge' \in [id : 0..MaxChallenges, tries : 0..WebTries, fresh : BOOLEAN,
                         recent : BOOLEAN, consumed : BOOLEAN]
      /\ challenge'.id = challenge.id /\ challenge'.tries = challenge.tries
      /\ challenge'.consumed = challenge.consumed
  BY <1>1, <1>2 DEF Challenged
<1>4. Challenged'
  BY <1>1, <1>2, <1>3 DEF Challenged
<1>5. UNCHANGED <<issued, delivered>>
  BY <1>1 DEF Address!appVars
<1>6. Requested' /\ Locked'
  BY <1>1, <1>3, <1>5 DEF AddressInv, Requested, Locked, Carries
<1> QED BY <1>1, <1>4, <1>6, WebKept

LEMMA WebVerifyCommitKept ==
  ASSUME AddressAssumption, AddressInv, NEW c \in Calls, Address!WebVerifyCommit(c)
  PROVE  AddressInv'
<1>o. PICK o : o = task[c]
  OBVIOUS
<1>i. PICK i : i = challenge.id
  OBVIOUS
<1>1. /\ o.op = "webverify" /\ o.challenge = i /\ task' = [task EXCEPT ![c] = Address!Idle]
      /\ UNCHANGED <<issued, delivered, tokens, completed, mailed>>
  BY <1>o, <1>i DEF Address!WebVerifyCommit, Address!Becomes
<1>2. Challenged /\ History /\ UserKnown /\ Completions
  BY DEF AddressInv
<1>3. /\ i \in 1..MaxChallenges /\ i \in Nat /\ ~ challenge.consumed /\ challenge.tries < WebTries
      /\ \A d \in Calls : task[d].op = "webverify" => d = c
  BY <1>1, <1>o, <1>i DEF AddressInv, Locked, AddressAssumption
<1>4. /\ opened \in [1..MaxChallenges -> Nat] /\ wrong \in [1..MaxChallenges -> Nat]
      /\ opened[i] = 0 /\ wrong[i] = challenge.tries /\ challenge.tries \in 0..WebTries
  BY <1>2, <1>3, <1>i DEF Challenged
<1>5. /\ task = [d \in Calls |-> task[d]]
      /\ \A d \in Calls : Carries(task[d], issued, delivered, i)
  BY <1>i DEF AddressInv, Requested
<1>6. /\ task' = [d \in Calls |-> task'[d]]
      /\ \A d \in Calls : task'[d] = IF d = c THEN Address!Idle ELSE task[d]
  BY <1>1, <1>5
<1>7. ASSUME ~ o.right, challenge' = [challenge EXCEPT !.tries = @ + 1],
             wrong' = [wrong EXCEPT ![i] = @ + 1], UNCHANGED <<user, users, session, opened, proved>>
      PROVE  Challenged' /\ UserKnown' /\ users' \in 0..MaxUsers /\ users <= users' /\ challenge'.id = i
  <2>1. /\ challenge' \in [id : 0..MaxChallenges, tries : 0..WebTries, fresh : BOOLEAN,
                           recent : BOOLEAN, consumed : BOOLEAN]
        /\ challenge'.id = i /\ challenge'.tries = challenge.tries + 1
        /\ challenge'.consumed = challenge.consumed
    <3>t. PICK t : t = challenge.tries + 1
      OBVIOUS
    <3>1. t \in 0..WebTries
      BY <1>3, <1>4, <3>t DEF AddressAssumption
    <3>2. challenge' = [challenge EXCEPT !.tries = t]
      BY <1>7, <3>t
    <3> QED BY <1>2, <1>i, <3>1, <3>2, <3>t DEF Challenged
  <2>2. /\ wrong' \in [1..MaxChallenges -> Nat] /\ wrong'[i] = challenge.tries + 1
        /\ \A j \in 1..MaxChallenges : j # i => wrong'[j] = wrong[j]
    BY <1>3, <1>4, <1>7
  <2>3. Challenged'
    BY <1>1, <1>2, <1>3, <1>4, <1>7, <1>i, <2>1, <2>2 DEF Challenged, AddressAssumption
  <2>4. UserKnown' /\ users' \in 0..MaxUsers /\ users <= users'
    BY <1>1, <1>2, <1>7 DEF UserKnown, UserOk, Address!UserType, Address!NoUser, History, AddressAssumption
  <2> QED BY <2>1, <2>3, <2>4
<1>8. ASSUME challenge' = [challenge EXCEPT !.consumed = TRUE], UNCHANGED wrong,
             opened' = [opened EXCEPT ![i] = @ + 1],
             session' = session \cup {[challenge |-> i, user |-> user'.id]},
             \/ user # Address!NoUser /\ UNCHANGED <<user, users, proved>>
             \/ /\ user = Address!NoUser /\ users < MaxUsers
                /\ user' = [Address!NewUser EXCEPT !.guest = TRUE]
                /\ users' = users + 1 /\ proved' = proved \cup {users + 1}
      PROVE  Challenged' /\ UserKnown' /\ users' \in 0..MaxUsers /\ users <= users' /\ challenge'.id = i
  <2>1. /\ challenge' \in [id : 0..MaxChallenges, tries : 0..WebTries, fresh : BOOLEAN,
                           recent : BOOLEAN, consumed : BOOLEAN]
        /\ challenge'.id = i /\ challenge'.tries = challenge.tries
        /\ challenge'.consumed
    BY <1>2, <1>8, <1>i DEF Challenged
  <2>2. /\ opened' \in [1..MaxChallenges -> Nat] /\ opened'[i] = 1
        /\ \A j \in 1..MaxChallenges : j # i => opened'[j] = opened[j]
    BY <1>3, <1>4, <1>8
  <2>3. /\ UserOk(user', issued', proved', users') /\ users' \in 0..MaxUsers /\ users <= users'
    <3>1. CASE user # Address!NoUser /\ UNCHANGED <<user, users, proved>>
      <4>1. UserOk(user, issued, proved, users)
        BY <3>1, Found
      <4> QED BY <1>1, <1>2, <3>1, <4>1 DEF UserOk, History, AddressAssumption
    <3>2. CASE /\ user = Address!NoUser /\ users < MaxUsers
               /\ user' = [Address!NewUser EXCEPT !.guest = TRUE]
               /\ users' = users + 1 /\ proved' = proved \cup {users + 1}
      <4>b. PICK yes \in BOOLEAN : yes = TRUE
        OBVIOUS
      <4>f. PICK no \in BOOLEAN : no = FALSE
        OBVIOUS
      <4>p. PICK prv : prv = proved'
        OBVIOUS
      <4>1. user' = [id |-> users + 1, guest |-> yes, verified |-> yes, phone |-> no,
                     password |-> None, pending |-> None, google |-> "none",
                     code |-> [k \in Address!Kinds |-> Address!Cleared]]
        BY <3>2, <4>b, <4>f, NewUserFields
      <4>2. users + 1 \in prv
        BY <3>2, <4>p
      <4>3. users \in Nat /\ users + 1 \in 1..(users + 1) /\ users + 1 <= MaxUsers /\ users + 1 \in Nat
            /\ issued \in Seq(IssuedType)
        BY <3>2, Kept DEF AddressAssumption
      <4>4. UserOk(user', issued, prv, users + 1)
        BY <4>1, <4>2, <4>3, NewRow
      <4>5. UserOk(user', issued', proved', users')
        BY <1>1, <3>2, <4>4, <4>p
      <4>6. users' \in 0..MaxUsers /\ users <= users'
        BY <3>2, <4>3 DEF AddressAssumption
      <4> QED BY <4>5, <4>6
    <3> QED BY <1>8, <3>1, <3>2
  <2>4. user'.id \in 1..MaxUsers /\ UserKnown'
    BY <2>3, UserFields DEF UserOk, UserKnown
  <2>5. session' \subseteq [challenge : 1..MaxChallenges, user : 1..MaxUsers]
    BY <1>2, <1>3, <1>8, <2>4 DEF Challenged
  <2>6. Challenged'
    BY <1>1, <1>2, <1>3, <1>4, <1>8, <1>i, <2>1, <2>2, <2>5 DEF Challenged, AddressAssumption
  <2> QED BY <2>1, <2>3, <2>4, <2>6
<1>9. Challenged' /\ UserKnown' /\ users' \in 0..MaxUsers /\ users <= users' /\ challenge'.id = i
  BY <1>7, <1>8, <1>o, <1>i, <1>1 DEF Address!WebVerifyCommit
<1>10. History' /\ Completions'
  BY <1>1, <1>2, <1>9 DEF History, Completions, AddressAssumption
<1>11. Carries(Address!Idle, issued, delivered, i) /\ Address!Idle.op # "webverify"
  BY <1>i, Kept
<1>12. Requested'
  <2>1. \A d \in Calls : Carries(task'[d], issued, delivered, i)
    BY <1>5, <1>6, <1>11
  <2> QED BY <1>1, <1>6, <1>9, <2>1 DEF Requested
<1>13. Locked'
  BY <1>3, <1>6, <1>11 DEF Locked
<1> QED BY <1>9, <1>10, <1>12, <1>13 DEF AddressInv

-----------------------------------------------------------------------------
LEMMA AddressStarts ==
  ASSUME AddressAssumption, Address!Init
  PROVE  AddressInv
<1>1. History /\ UserKnown /\ Completions
  BY DEF Address!Init, History, UserKnown, Completions, AddressAssumption
<1>2. Requested /\ Locked
  BY DEF Address!Init, Requested, Locked, Carries, Address!Idle
<1>3. Challenged
  BY DEF Address!Init, Challenged, AddressAssumption
<1> QED BY <1>1, <1>2, <1>3 DEF AddressInv

LEMMA AddressKept ==
  ASSUME AddressAssumption, AddressInv, [Address!Next]_(Address!vars)
  PROVE  AddressInv'
<1>1. CASE UNCHANGED Address!vars
  <2>1. UNCHANGED <<Address!appVars, Address!webVars, proved>> /\ task' = task
    BY <1>1 DEF Address!vars, Address!appVars, Address!webVars
  <2> QED BY <2>1, QuietKept
<1>2. ASSUME NEW c \in Calls, NEW p \in Passwords, Address!SignupRead(c, p) \/ Address!LoginRead(c, p)
      PROVE  AddressInv'
  BY <1>2, SignupReadKept, LoginReadKept
<1>3. ASSUME NEW c \in Calls, NEW k \in 0..MaxCodes, Address!VerifyRead(c, k)
      PROVE  AddressInv'
  BY <1>3, VerifyReadKept
<1>4. ASSUME NEW c \in Calls, NEW k \in 0..MaxCodes, NEW p \in Passwords, Address!ResetRead(c, k, p)
      PROVE  AddressInv'
  BY <1>4, ResetReadKept
<1>5. ASSUME NEW c \in Calls,
             \/ Address!IssueWrite(c) \/ Address!MailSent(c) \/ Address!MailFailed(c)
             \/ Address!Rollback(c) \/ Address!SignupCreate(c) \/ Address!VerifyWrite(c)
             \/ Address!ResendRead(c) \/ Address!TokenCreate(c)
             \/ Address!ForgotRead(c) \/ Address!ResetWrite(c) \/ Address!GoogleRead(c)
             \/ Address!GoogleWrite(c) \/ Address!PhoneRead(c) \/ Address!PhoneWrite(c)
             \/ Address!Abandon(c)
      PROVE  AddressInv'
  BY <1>5, IssueWriteKept, MailSentKept, MailFailedKept, RollbackKept, SignupCreateKept,
     VerifyWriteKept, ResendReadKept, TokenCreateKept, ResetWriteKept, GoogleWriteKept,
     PhoneWriteKept, OtherReadsKept
<1>6. ASSUME NEW c \in Calls,
             \/ Address!requestCode(c) \/ Address!WebMailSent(c) \/ Address!WebMailFailed(c)
             \/ Address!WebVerifyCommit(c)
      PROVE  AddressInv'
  BY <1>6, RequestCodeKept, WebMailKept, WebVerifyCommitKept
<1>7. ASSUME NEW c \in Calls, NEW i \in 1..MaxChallenges, NEW right \in BOOLEAN,
             Address!WebVerifyRead(c, i, right)
      PROVE  AddressInv'
  BY <1>7, WebVerifyReadKept
<1>8. CASE \E s \in session : Address!revoke(s)
  BY <1>8, WebFlagsKept
<1>9. CASE \E k \in Address!Kinds : Address!Cool(k) \/ Address!Expire(k)
  BY <1>9, FlagsKept
<1>10. CASE Address!SetPhone
  BY <1>10, FlagsKept
<1>11. CASE Address!WebCool \/ Address!WebExpire
  BY <1>11, WebFlagsKept
<1> QED BY <1>1, <1>2, <1>3, <1>4, <1>5, <1>6, <1>7, <1>8, <1>9, <1>10, <1>11 DEF Address!Next

LEMMA AddressConclusions ==
  ASSUME AddressAssumption, AddressInv
  PROVE  /\ Address!TypeOK /\ Address!GuestPasswordProved
         /\ Address!VerifiedWasProved /\ Address!ChallengeOnce
<1>1. Address!TypeOK
  BY DEF AddressInv, History, UserKnown, UserOk, Challenged, IssuedType, Address!TypeOK
<1>2. Address!GuestPasswordProved
  BY DEF AddressInv, Completions, Address!GuestPasswordProved
<1>3. Address!VerifiedWasProved
  BY DEF AddressInv, UserKnown, UserOk, Address!VerifiedWasProved
<1>4. Address!ChallengeOnce
  <2> SUFFICES ASSUME NEW i \in 1..MaxChallenges PROVE opened[i] <= 1 /\ wrong[i] <= WebTries
    BY DEF Address!ChallengeOnce
  <2>1. Challenged
    BY DEF AddressInv
  <2>2. challenge.id \in Nat /\ challenge.tries \in 0..WebTries /\ i \in Nat
    BY <2>1 DEF Challenged, AddressAssumption
  <2>3. CASE i > challenge.id
    BY <2>1, <2>3 DEF Challenged, AddressAssumption
  <2>4. CASE i = challenge.id
    BY <2>1, <2>2, <2>4 DEF Challenged, AddressAssumption
  <2>5. CASE i < challenge.id
    BY <2>1, <2>5 DEF Challenged, AddressAssumption
  <2> QED BY <2>2, <2>3, <2>4, <2>5
<1> QED BY <1>1, <1>2, <1>3, <1>4

LEMMA AddressStaysSound == AddressAssumption /\ Address!Spec => []AddressInv
<1>1. CASE AddressAssumption
  <2>1. Address!Init => AddressInv
    BY <1>1, AddressStarts
  <2>2. AddressInv /\ [Address!Next]_(Address!vars) => AddressInv'
    BY <1>1, AddressKept
  <2> QED BY <2>1, <2>2, PTL DEF Address!Spec
<1> QED BY <1>1

(* The rows of an address keep their types: User, its codes' counters (which *)
(* the two reset and verification limits bound), WebEmailChallenge and       *)
(* WebSession, and what is mailed was drawn.                                 *)
THEOREM AddressTyped == AddressAssumption /\ Address!Spec => []Address!TypeOK
<1>1. CASE AddressAssumption
  <2>1. AddressInv => Address!TypeOK
    BY <1>1, AddressConclusions
  <2> QED BY <1>1, <2>1, AddressStaysSound, PTL
<1> QED BY <1>1

(* The password verifyEmail gives a guest's account is the one the code that *)
(* was read had been mailed for, however signups, resends and checks of the  *)
(* address overlap.                                                          *)
THEOREM GuestPasswordsAreProved ==
  AddressAssumption /\ Address!Spec => []Address!GuestPasswordProved
<1>1. CASE AddressAssumption
  <2>1. AddressInv => Address!GuestPasswordProved
    BY <1>1, AddressConclusions
  <2> QED BY <1>1, <2>1, AddressStaysSound, PTL
<1> QED BY <1>1

(* Where verification is required, an account that counts as verified has an *)
(* owner who proved the address or the phone, by whichever way signed in.    *)
THEOREM VerifiedAccountsWereProved ==
  AddressAssumption /\ Address!Spec => []Address!VerifiedWasProved
<1>1. CASE AddressAssumption
  <2>1. AddressInv => Address!VerifiedWasProved
    BY <1>1, AddressConclusions
  <2> QED BY <1>1, <2>1, AddressStaysSound, PTL
<1> QED BY <1>1

(* A web challenge opens one session at most and is compared with no more    *)
(* wrong codes than it permits, because its row is locked while a code is    *)
(* compared with it (verify in web-session.service.ts).                      *)
THEOREM ChallengesOpenOneSession ==
  AddressAssumption /\ Address!Spec => []Address!ChallengeOnce
<1>1. CASE AddressAssumption
  <2>1. AddressInv => Address!ChallengeOnce
    BY <1>1, AddressConclusions
  <2> QED BY <1>1, <2>1, AddressStaysSound, PTL
<1> QED BY <1>1

(* All that the runs check of the dashboard's accounts and sessions.          *)
THEOREM OfficeCorrect == OfficeAssumption /\ Office!Spec => []Office!SignInSafe
BY OfficeTyped, SessionsFollowAccounts, AdministratorRemains, GuessesBounded, PTL
   DEF Office!SignInSafe

(* All that the runs check of the verification of creators.                   *)
THEOREM CreatorCorrect == CreatorAssumption /\ Creator!Spec => []Creator!KycSafe
BY CreatorTyped, VerifiedSubjectsWereProved, TiersAreEarned, PTL DEF Creator!KycSafe

(* All that the runs check of accounts.                                       *)
THEOREM AddressCorrect == AddressAssumption /\ Address!Spec => []Address!SignInSafe
BY AddressTyped, GuestPasswordsAreProved, VerifiedAccountsWereProved, ChallengesOpenOneSession, PTL
   DEF Address!SignInSafe
=============================================================================
