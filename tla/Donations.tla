----------------------------- MODULE Donations -----------------------------
(***************************************************************************)
(* Donations and the inbox of payment events: initiateDonation, the        *)
(* Paystack and ALAT webhooks, the buyer's polling, and completion in      *)
(* transaction-reference.service.ts; createDonation of                     *)
(* donation.service.ts; the provider clients.                              *)
(*                                                                         *)
(* Up to Calls requests run at once, each a sequence of awaited steps: the *)
(* request keeps in work[c] what it has read.  Fees, texts and the risk    *)
(* score are left out (settlement is Settlement.tla; the claim on the      *)
(* payment link of a web checkout is Checkout.tla); amounts are kept only  *)
(* as far as they are compared: what was asked, and whether the provider   *)
(* collected exactly that.  A donation is a row of the payment's donor.    *)
(*                                                                         *)
(* A definition whose comment begins with "Wrong" is not part of the       *)
(* specification: it is the faulty variant of the one that follows it.     *)
(***************************************************************************)
EXTENDS Integers, FiniteSets, Sequences

CONSTANTS
  Donors, Calls,
  Payments,   \* identities TransactionReference rows may get
  Keys,       \* idempotency keys of the web page
  NoKey,      \* app donations carry none
  Amounts,    \* amounts in naira; below Minimum they are refused
  Minimum,
  FoodBankEvent,   \* whether the event is a food bank
  Channels, Providers,
  MaxRetries  \* bound: deliveries of one payment event

ASSUME DonationsAssumption == MaxRetries \in Nat

VARIABLES
  accepting, \* the event exists, takes donations and has not ended
  payment,   \* TransactionReference rows
  bank,      \* what the provider holds of each payment
  donation,  \* Donation rows, by createdAt
  inbox,     \* ProviderWebhookEvent rows: attempts and processedAt
  told,      \* how often the organiser was told of a payment's donation
  reply,     \* answers to web initiations: who asked for what, and got which payment
  work       \* the request each server task is serving

vars == <<accepting, payment, bank, donation, inbox, told, reply, work>>

Unborn == [status |-> "NONE"]
Open == {"PENDING", "AWAITING_TRANSFER"}
PaymentType ==
  [donor : Donors, key : Keys \cup {NoKey}, amount : Amounts, channel : Channels,
   provider : Providers, link : BOOLEAN, status : Open \cup {"SUCCESS", "FAILED"}]
DonationType == [payment : Payments, amount : Amounts, meal : {"pass", "reminder", "none"}]
\* The event key names the payment and the status the provider reported.
EventKeys == Payments \X {"SUCCESS", "FAILED"}
Idle == [op |-> "idle"]

Init ==
  /\ accepting = TRUE
  /\ payment = [p \in Payments |-> Unborn]
  /\ bank = [p \in Payments |-> "unpaid"]
  /\ donation = <<>>
  /\ inbox = [k \in EventKeys |-> [attempts |-> 0, processed |-> FALSE]]
  /\ told = [p \in Payments |-> 0]
  /\ reply = {}
  /\ work = [c \in Calls |-> Idle]

Exists(p) == payment[p] # Unborn
Put(c, w) == work' = [work EXCEPT ![c] = w]
Finish(c) == Put(c, Idle)

-----------------------------------------------------------------------------
(* Wrong: a replayed key is answered whatever is asked for now. *)
AnyRequest(p, a) == TRUE
SameRequest(p, a) == payment[p].amount = a
Replayed(u, k) == {p \in Payments : Exists(p) /\ payment[p].donor = u /\ payment[p].key = k}
Answer(c, u, k, a, p) ==
  /\ reply' = reply \cup {[donor |-> u, key |-> k, amount |-> a, payment |-> p]}
  /\ Finish(c)

InitiateRead(c, u, k, a, ch, pr) ==
  /\ work[c] = Idle
  /\ (ch = "WEB") <=> (k # NoKey)
  /\ \/ /\ ch = "WEB"
        /\ \E p \in Replayed(u, k) : SameRequest(p, a) /\ Answer(c, u, k, a, p)
     \/ /\ ch = "WEB" => Replayed(u, k) = {}
        /\ accepting /\ a >= Minimum
        /\ Put(c, [op |-> "initiate", donor |-> u, key |-> k, amount |-> a,
                   channel |-> ch, provider |-> pr])
        /\ UNCHANGED reply
  /\ UNCHANGED <<accepting, payment, bank, donation, inbox, told>>

(* The unique index on (userId, idempotencyKey) turns a lost race into a     *)
(* replay, which again compares the request.                                 *)
InitiateCreate(c) ==
  LET w == work[c]
      taken == IF w.key = NoKey THEN {} ELSE Replayed(w.donor, w.key) IN
  /\ w.op = "initiate"
  /\ \/ /\ taken = {}
        /\ \E p \in Payments :
             /\ ~ Exists(p)
             /\ payment' = [payment EXCEPT ![p] =
                  [donor |-> w.donor, key |-> w.key, amount |-> w.amount,
                   channel |-> w.channel, provider |-> w.provider, link |-> FALSE,
                   status |-> IF w.provider = "ALAT_TRANSFER" THEN "AWAITING_TRANSFER"
                              ELSE "PENDING"]]
             /\ IF w.channel = "WEB" THEN Answer(c, w.donor, w.key, w.amount, p)
                ELSE Finish(c) /\ UNCHANGED reply
     \/ /\ \E p \in taken :
             /\ SameRequest(p, w.amount)
             /\ Answer(c, w.donor, w.key, w.amount, p)
        /\ UNCHANGED payment
     \/ /\ \E p \in taken : ~ SameRequest(p, w.amount)
        /\ Finish(c) /\ UNCHANGED <<payment, reply>>
  /\ UNCHANGED <<accepting, bank, donation, inbox, told>>

(* initializeProviderPayment answered and its reference was stored.          *)
Initialized(p) ==
  /\ Exists(p) /\ ~ payment[p].link /\ payment[p].status \in Open
  /\ payment' = [payment EXCEPT ![p].link = TRUE]
  /\ UNCHANGED <<accepting, bank, donation, inbox, told, reply, work>>

-----------------------------------------------------------------------------
(* The provider: a link collects exactly the charge, a transfer to a virtual *)
(* account may bring another amount and may arrive after it was reported     *)
(* failed.  The link works before its reference is stored.                   *)
Collected == {"exact", "other"}
Pay(p) ==
  /\ Exists(p) /\ bank[p] \in {"unpaid", "failed"}
  /\ bank[p] = "failed" => payment[p].provider = "ALAT_TRANSFER"
  /\ \E b \in IF payment[p].provider = "PAYSTACK" THEN {"exact"} ELSE Collected :
       bank' = [bank EXCEPT ![p] = b]
  /\ UNCHANGED <<accepting, payment, donation, inbox, told, reply, work>>

Decline(p) ==
  /\ Exists(p) /\ bank[p] = "unpaid"
  /\ bank' = [bank EXCEPT ![p] = "failed"]
  /\ UNCHANGED <<accepting, payment, donation, inbox, told, reply, work>>

\* What the provider's status call answers: SUCCESS, FAILED, or still open.
ProviderStatus(p) ==
  IF bank[p] \in Collected THEN "SUCCESS" ELSE IF bank[p] = "failed" THEN "FAILED" ELSE "OPEN"

-----------------------------------------------------------------------------
(* The upsert counts the attempt; the event proceeds unless it is processed. *)
Register(k) == inbox' = [inbox EXCEPT ![k].attempts = @ + 1]
ProcessAll(p) ==
  inbox' = [k \in EventKeys |->
    IF k[1] = p /\ inbox[k].attempts > 0 THEN [inbox[k] EXCEPT !.processed = TRUE] ELSE inbox[k]]

(* verifyPayment and verifyAlatTransfer: the row is read first.              *)
WebhookRead(c, p) ==
  /\ work[c] = Idle /\ Exists(p) /\ bank[p] # "unpaid"
  /\ IF payment[p].status = "SUCCESS" THEN ProcessAll(p) /\ UNCHANGED work
     ELSE Put(c, [op |-> "webhook", payment |-> p]) /\ UNCHANGED inbox
  /\ UNCHANGED <<accepting, payment, bank, donation, told, reply>>

(* Paystack is asked before the event is registered, ALAT after: an ALAT     *)
(* event that cannot be confirmed yet stays in the inbox unprocessed.        *)
VerifyPayment(c) ==
  LET p == work[c].payment  k == <<p, "SUCCESS">> IN
  /\ work[c].op = "webhook" /\ payment[p].provider = "PAYSTACK"
  /\ IF ProviderStatus(p) = "SUCCESS"
     THEN /\ inbox[k].attempts < MaxRetries
          /\ Register(k)
          /\ IF inbox[k].processed THEN Finish(c)
             ELSE Put(c, [op |-> "collect", payment |-> p, event |-> {k}])
     ELSE Finish(c) /\ UNCHANGED inbox
  /\ UNCHANGED <<accepting, payment, bank, donation, told, reply>>

VerifyAlatTransfer(c, status) ==
  LET p == work[c].payment  k == <<p, status>> IN
  /\ work[c].op = "webhook" /\ payment[p].provider = "ALAT_TRANSFER"
  /\ inbox[k].attempts < MaxRetries
  /\ Register(k)
  /\ IF ~ inbox[k].processed /\ payment[p].link /\ ProviderStatus(p) = "SUCCESS"
     THEN Put(c, [op |-> "collect", payment |-> p, event |-> {k}])
     ELSE Finish(c)
  /\ UNCHANGED <<accepting, payment, bank, donation, told, reply>>

(* getTransactionStatus for a web donation on Paystack: the payment is       *)
(* completed without the inbox, and only if the amount is exactly the charge. *)
Poll(c, p) ==
  /\ work[c] = Idle /\ Exists(p)
  /\ payment[p].channel = "WEB" /\ payment[p].provider = "PAYSTACK" /\ payment[p].link
  /\ payment[p].status \in Open \cup {"FAILED"}
  /\ bank[p] = "exact"
  /\ Put(c, [op |-> "collect", payment |-> p, event |-> {}])
  /\ UNCHANGED <<accepting, payment, bank, donation, inbox, told, reply>>

(* refreshPendingAlatTransactionStatus: FAILED rows are asked for again.      *)
Refreshable(p) ==
  /\ Exists(p) /\ payment[p].provider = "ALAT_TRANSFER" /\ payment[p].link
  /\ payment[p].status \in Open \cup {"FAILED"}
Refresh(c, p) ==
  LET k == <<p, ProviderStatus(p)>> IN
  /\ work[c] = Idle /\ Refreshable(p)
  /\ ProviderStatus(p) # "OPEN" /\ inbox[k].attempts < MaxRetries
  /\ Register(k)
  /\ IF inbox[k].processed THEN UNCHANGED work
     ELSE IF ProviderStatus(p) = "SUCCESS"
     THEN Put(c, [op |-> "collect", payment |-> p, event |-> {k}])
     ELSE Put(c, [op |-> "fail", payment |-> p])
  /\ UNCHANGED <<accepting, payment, bank, donation, told, reply>>

(* The event of a failure is never marked processed.                          *)
MarkFailed(c) ==
  LET p == work[c].payment IN
  /\ work[c].op = "fail"
  /\ payment' = IF payment[p].status \in Open
                THEN [payment EXCEPT ![p].status = "FAILED"] ELSE payment
  /\ Finish(c)
  /\ UNCHANGED <<accepting, bank, donation, inbox, told, reply>>

-----------------------------------------------------------------------------
(* Only an open payment is completed; any other is answered as processed.     *)
Completable(p) == payment[p].status \in Open
Collect(c) ==
  LET w == work[c] IN
  /\ w.op = "collect"
  /\ Put(c, [w EXCEPT !.op = IF Completable(w.payment) THEN "donate" ELSE "processed"])
  /\ UNCHANGED <<accepting, payment, bank, donation, inbox, told, reply>>

Given(p) == {i \in DOMAIN donation : donation[i].payment = p}
(* Wrong: no look, under the lock, for a donation a callback has created. *)
AlwaysNew(p) == TRUE
IsNew(p) == Given(p) = {}
(* createDonation under the lock of the payment's row: the donation and, at   *)
(* a food bank, the meal pass or the stored reminder in one transaction.      *)
MealFor(p) ==
  IF ~ FoodBankEvent THEN "none"
  ELSE IF payment[p].channel = "WEB" THEN "reminder" ELSE "pass"
CreateDonation(c) ==
  LET w == work[c]  p == w.payment IN
  /\ w.op = "donate"
  /\ IF IsNew(p)
     THEN /\ donation' = Append(donation,
               [payment |-> p, amount |-> payment[p].amount, meal |-> MealFor(p)])
          /\ Put(c, [w EXCEPT !.op = "tell"])
     ELSE UNCHANGED donation /\ Put(c, [w EXCEPT !.op = "record"])
  /\ UNCHANGED <<accepting, payment, bank, inbox, told, reply>>

(* Organiser's notification, feed item and receipt, by the creator only.      *)
Tell(c) ==
  LET w == work[c] IN
  /\ w.op = "tell"
  /\ told' = [told EXCEPT ![w.payment] = @ + 1]
  /\ Put(c, [w EXCEPT !.op = "record"])
  /\ UNCHANGED <<accepting, payment, bank, donation, inbox, reply>>

(* The status is written whatever it has become.                              *)
Record(c) ==
  LET w == work[c] IN
  /\ w.op = "record"
  /\ payment' = [payment EXCEPT ![w.payment].status = "SUCCESS"]
  /\ Put(c, [w EXCEPT !.op = "processed"])
  /\ UNCHANGED <<accepting, bank, donation, inbox, told, reply>>

MarkProcessed(c) ==
  LET w == work[c] IN
  /\ w.op = "processed"
  /\ inbox' = [k \in EventKeys |->
       IF k \in w.event THEN [inbox[k] EXCEPT !.processed = TRUE] ELSE inbox[k]]
  /\ Finish(c)
  /\ UNCHANGED <<accepting, payment, bank, donation, told, reply>>

(* A statement or a provider call fails, or the server stops: the event, if   *)
(* one was registered, stays unprocessed and the provider sends it again.     *)
Abandon(c) ==
  /\ work[c] # Idle
  /\ Finish(c)
  /\ UNCHANGED <<accepting, payment, bank, donation, inbox, told, reply>>

(* Donations are switched off or on, or the event ends.                       *)
EditEvent ==
  /\ accepting' = ~ accepting
  /\ UNCHANGED <<payment, bank, donation, inbox, told, reply, work>>

Next ==
  \/ \E c \in Calls :
       \/ \E u \in Donors, k \in Keys \cup {NoKey}, a \in Amounts,
             ch \in Channels, pr \in Providers : InitiateRead(c, u, k, a, ch, pr)
       \/ InitiateCreate(c)
       \/ \E p \in Payments : WebhookRead(c, p) \/ Poll(c, p) \/ Refresh(c, p)
       \/ VerifyPayment(c)
       \/ \E status \in {"SUCCESS", "FAILED"} : VerifyAlatTransfer(c, status)
       \/ MarkFailed(c) \/ Collect(c) \/ CreateDonation(c) \/ Tell(c)
       \/ Record(c) \/ MarkProcessed(c) \/ Abandon(c)
  \/ \E p \in Payments : Initialized(p) \/ Pay(p) \/ Decline(p)
  \/ EditEvent

Spec == Init /\ [][Next]_vars

-----------------------------------------------------------------------------
(* Every variable keeps its type. *)
TypeOK ==
  /\ accepting \in BOOLEAN
  /\ payment \in [Payments -> PaymentType \cup {Unborn}]
  /\ bank \in [Payments -> {"unpaid", "failed"} \cup Collected]
  /\ donation \in Seq(DonationType)
  /\ inbox \in [EventKeys -> [attempts : 0..MaxRetries, processed : BOOLEAN]]
  /\ told \in [Payments -> Nat]
  /\ DOMAIN work = Calls

(* "Duplicate callbacks reuse the donation": however webhooks, polls and      *)
(* refreshes of one payment overlap and are redelivered, it has one donation, *)
(* the organiser is told of it at most once, and nothing was given that the   *)
(* provider has not collected.                                                *)
OneDonationPerPayment ==
  /\ \A p \in Payments : Cardinality(Given(p)) <= 1 /\ told[p] <= Cardinality(Given(p))
  /\ \A i \in DOMAIN donation : bank[donation[i].payment] \in Collected

(* A payment that says SUCCESS has its donation, and an event of the inbox is *)
(* processed only when its payment is settled one way or the other: whatever  *)
(* a stopped server has left half done stays to be delivered again.           *)
ProcessedIsSettled ==
  /\ \A p \in Payments : payment[p].status = "SUCCESS" => Given(p) # {}
  /\ \A k \in EventKeys : inbox[k].processed => payment[k[1]].status \in {"SUCCESS", "FAILED"}

(* One key of one donor stands for one payment, and is only ever answered     *)
(* with a payment of the amount that was asked, from however many windows.    *)
KeyNamesOneRequest ==
  \A r \in reply :
    /\ payment[r.payment].amount = r.amount
    /\ Replayed(r.donor, r.key) = {r.payment}

(* All of it: types, one donation for money that came, nothing processed too *)
(* soon, and answers to what was asked.                                      *)
DonationsSafe == TypeOK /\ OneDonationPerPayment /\ ProcessedIsSettled /\ KeyNamesOneRequest
=============================================================================
