# GatherGo in TLA+

TLA+ models, TLC runs and TLAPS proofs for the GatherGo backend (NestJS, Prisma, PostgreSQL, Paystack and
ALAT payments). The models are translated from `src/src/modules`; paths below are relative to that
directory unless they begin with `src/`.

- [Inventory](#inventory): the parts of the backend, their state, operations and hazards
- [Modules](#modules): what is modelled and how it corresponds to the code
- [Runs](#runs): what TLC checks, the bounds, the fairness
- [Proofs](#proofs): what TLAPS establishes for every value of the constants
- [Disagreements](#disagreements) with the documentation that the runs show
- [Limits](#limits): what is only model-checked and what is not modelled
- [Plan](#plan): what comes next

To repeat a run: `tlc -config MCCheckout_sale.cfg MCCheckout`; the runs take between a few seconds and four
minutes with two workers. To repeat a proof: `tlapm CheckoutProofs.tla`.

## Inventory

Most parts are request handlers over PostgreSQL rows. Concurrency comes from requests of different
users, from retries of one client, from several server processes that each run the workers, from webhooks
and polling that deliver the same collection, and from dashboard staff. Three locks matter: the advisory
lock on `userId:idempotencyKey`, the row lock on `Event` (`lockCheckoutEvent`), and row locks on
`TransactionReference`. What runs without a lock relies on conditional updates (`updateMany ... where
status = ...`), on unique columns, or on nothing.

### Payments and admissions

| Part | State | Operations | Hard behaviour | Correct when |
|---|---|---|---|---|
| Ticket checkout (`checkout/`, `ticket/`) | `TransactionReference`, `CheckoutReservation` and items, `EventTicket.sold`, `Ticket`, `CheckoutFulfillmentJob`, `CheckoutRefund` | `create`, `claimInitialization`, `finishInitialization`, `initializationFailed`, `complete`, `cancel`, `expireHolds`, `format` | a hold ends by the clock, not by the worker; payments arrive late, twice, for a cancelled order or with another amount; retries under one key; the process stops between opening a payment and storing its link | stock is never oversold; one active checkout per buyer; a live hold that is paid admits; every collection is admitted or refunded; a provider payment is opened once |
| Stock edits (`event/event.service.ts`, `event-ticket/`) | `Event`, `EventTicket` | price, stock, visibility, dates, removal of a type | edits between a buyer's read of the price and the order | edits cannot undercut what is sold and held |
| Registration checkout (`checkout/`, `registration/`) | `Registration`, `Event.registrationAttendees` | free and paid, own and sponsored registration, cancellation | three ways to occupy a place, counted by three queries; duplicate registration through two orders | places are never overbooked; nobody is registered twice |
| Refund worker (`checkout/checkout.worker.ts`, `paystack/`) | `CheckoutRefund` with attempts, lease and due time | claim, list, POST, reconcile, hand to an operator; operator confirmation | several processes, crashes with a lease, a POST whose answer is lost, an operator acting meanwhile | at most one POST; money goes back once; no refund is forgotten |
| Confirmation jobs (`checkout.worker.ts`, `mail/`) | `CheckoutFulfillmentJob`, mail queue | deliver notification, feed, mail | at-least-once delivery under leases, crashes between the parts, stalled mail jobs | a completed job was delivered; nobody is mailed twice without a stall; no confirmation is forgotten |
| Payment requests and webhooks (`transaction-reference/`) | `TransactionReference`, `ProviderWebhookEvent` | initiate, verify, webhook, polling, mark failed | webhook retried, webhook and polling at once | a collection is applied once |
| Donations (`donation/`, `transaction-reference/`) | `Donation`, `TransactionReference`, `MealPass` | initiate, verify, complete | two deliveries, a poll and a refresh may all find it pending; paid after it failed | one donation per payment; an event marked processed is settled; a key names one request |
| Wallet and settlement (`wallet/service/wallet.service.ts`) | `CreatorSettlementProfile`, `SettlementRecord`, `SettlementAllocation`, `TransactionReference.settlementStatus` | reconcile, preview, create, record outcome, KYC reviews | reconciliation reads, decides and writes by id without a lock; staff settle meanwhile | a payment is settled once; held payments are not settled; the Basic KYC cap |
| Pricing and risk (`transaction-reference/payment-pricing.util.ts`) | none | fees, risk score | rounding at boundaries | parts add up to the charge |
| Creator verification (`wallet/service/`, `dikript.service.ts`) | `CreatorKycVerification`, `CreatorSettlementProfile` | personal, business and representative checks, face check, webhook, review | handlers read two rows, ask a provider, write both; answers arrive late and twice | whoever is verified was proved; a tier is earned by the checks it takes |

### Events and people

| Part | State | Operations | Hard behaviour | Correct when |
|---|---|---|---|---|
| Food bank (`food-bank/`, settings in `event/`) | food bank columns of `Event`, `MealPass` | claim, grant with a donation, open, pause, close, reschedule, redeem, edit settings | a reschedule moves hours and uncollected passes but not collected ones; the last window is shorter; calendar days versus instants | no window or total is exceeded; passes follow the hours; every meal has a window |
| Volunteering (`volunteer/`) | `VolunteerRole`, `EventVolunteer` | roles, apply, review, withdraw, check in, confirm time | pending applications reserve nothing; date edits reopen recruitment after people have come | roles are not overfilled; attendance is kept; no invented time |
| Scanner (`scanner/`) | `ScannerPermission`, `ScanLog`, used flags | scan, validate, bulk scan, permissions | check and update are separate statements; permissions change under a scan | one bulk scan admits an item once; whoever admits is staff when it counts; statistics count admissions |
| Carpool and chat (`carpool/`, `message/`, `src/src/common/base.gateway.ts`) | `Carpool`, `CarpoolPassenger`, `Message` | offer, edit, request, switch, answer, leave, remove; send with `tempId` | no transaction; a switch deletes before it asks; client retries | a retried message is stored once; only members speak; only they are let into the chat |
| Events (`event/`, `media/`, `src/src/cron-jobs`) | `Event`, files | create, edits by owner and staff, picture upload, nightly copy, impact mails | uploads finish in any order; copies share files; two servers run one cron job | the picture of an event exists; staff edit what they were shown; supporters are mailed |
| Feed (`feed/`) | `Feed`, Redis lists and keys | frenzies, milestones, paging, hiding | check and set in Redis with keys that expire | a milestone once; one current frenzy; a reader misses nothing |
| Notifications (`notification/`, `background-notification/`) | `Notification`, unread counter, token lists in Redis | store, count, mark read, register and sweep tokens | counter and list are read, awaited and written whole | the counter is exact when nothing is under way; a token follows its user |
| Badges and interest map (`badge/`, `user-preference/`) | `UserBadge`, `UserPreference`, `InterestSignal`, `EventFeedback` | reconcile, set visibility; answer, defer, record, reset | activity changes while it is read; a reset in several statements | no award without activity; privacy stays as chosen; what was reset does not count |
| Accounts (`auth/`, `public-web/web-session.service.ts`) | `User`, `WebEmailChallenge`, `WebSession` | signup, verify, login, reset, Google, phone, web code | read, hash, mail, write, with no lock | a verified address and a guest's password were proved; a web code opens one session |
| Staff accounts (`dashboard-auth/`) | `DashboardUser`, `DashboardSession` | login, change, create, update, reset | decisions on rows read before a hash | sessions are of current accounts; an admin remains; guesses are bounded |
| Posts, Redis pub/sub, mail rendering, public website | `Post`, `Like`, `Comment`, sockets | - | counters updated beside rows | - |
| Users, communities, search, short links, Gogo assistant, dashboard queries | one row at a time, or nothing | reads and single-row writes | none worth a model | - |

`PROJECT.json` lists every part with its status, and every hazard at the line where it bites with the
properties that watch it.

## Modules

    TicketSale <--implemented by-- CheckoutRefinement, which extends Checkout
                  MCCheckout       CheckoutProofs
    Registration  MCRegistration   RegistrationProofs   the same rows, for places instead of stock
    Worker        MCWorker         WorkerProofs         what the worker does for an order Checkout
      Refund, Confirmation                              leaves REFUND_REQUIRED, or SUCCESS
    Settlement    MCSettlement     SettlementProofs     what becomes of a payment that was admitted
    Donations     MCPeople         PeopleProofs         the other kind of payment
    Accounts  Dashboard  Kyc       in MCPeople and PeopleProofs too
    Volunteer     MCVolunteer      VolunteerProofs
    FoodBank      MCCommunity      CommunityProofs
    Scanner  Carpool  Events       in MCCommunity and CommunityProofs too
    Feed  Notifications  Badges  InterestMap   in MCCommunity too

The proof modules share `CountingLemmas`.

Two conventions hold everywhere. One database transaction that holds the lock protecting the rows it reads
is one action; everything a handler awaits outside a transaction is an action of its own, so that other
actors can come in between. And a definition whose comment begins with *Wrong* is not part of the
specification: it is a plausible fault of the definition after it, kept to show that a property notices.
A handler that holds no lock is a *Read* action that leaves what it has read in `work`, one or more write
actions that decide on it, and `Abandon`, which stops it between them.

**Checkout** (`checkout/checkout.service.ts`, `checkout-inventory.ts`, the request in
`transaction-reference.service.ts`). `order` is the transaction row with its reservation, identified by
buyer and idempotency key; `issued` the `Ticket` rows by fulfilment key; `jobs` and `refunds` rows by
order; `request` the control state of every HTTP request in flight. `Start` reads prices outside any
transaction, `Create` is the transaction under both locks, `Load` / `ClaimInitialization` /
`CallProvider` / `FinishInitialization` / `InitializationFailed` the conversation with the provider, each
step awaited on its own, and `Crash` stops a request between any two of them. `Complete`, `Cancel`,
`ExpireHolds`, `MarkTransactionFailed` and `ConfirmRefund` act on orders; `EditTicket`, `RemoveTicket`,
`EditEndDate` are the organiser. `Pay` and `Tick` are external. A cart is the hashed request, so "the same
order" is the same cart.

**TicketSale** says what a sale promises without requests, clocks, payments or workers: an order reserves,
is admitted, lapses, is cancelled, is owed or paid back, and stock is never promised twice. In
**CheckoutRefinement** what became of an order is read off its rows *and the clock*: a hold that is past
its deadline has lapsed although the row still says HELD, which is the code's own rule ("Expired holds stop
consuming capacity immediately, independent of the cleanup worker").

**Registration** is the same conversation with places: `Occupants` is the union that
`registrationOccupancy` counts by three queries (active registrations, sponsored reservations, live holds).
`Validate` and `MarkRegistrationAsUsed` are the scanner's two separate statements.

**Refund** follows one refund row through `processRefunds`: `Read` (findMany), `Claim` (compare-and-set on
attempts and status), `List`, `MarkProcessing`, `Post`, `Record`, `Manual`, with any number of workers, and
`ConfirmRead` / `ConfirmWrite` for the administrator. The provider's own refunds are the variable
`provider`. Leases and due times are modelled by what they allow: a lease may run out at any time once its
holder is gone, and while the holder works only if `Stalls`.

**Settlement** follows the payments of one creator from `wallet.service.ts`: `payment` is the status, risk and
settlement of each `TransactionReference`, `batch` the settlement records, `allocation` the unique
allocation of a payment, `profile` what the payout profile and KYC say. The updates of
`syncCreatorSettlementStatus` are functions of the rows (`HoldForRisk`, `Release`, `Park`, `Capped`); the
actions of a request apply them one statement at a time (`Read`, `Backfill`, `Reset`, `Hold`,
`ReleaseHolds` or `Aggregate`, `ListClear`, `ApplyCap`, or `ParkAll`), because reconciliation runs outside
any transaction, with the profile status its caller passed on. `CreateSettlement` and `Check` come before
and `Claim`, the one transaction, after. `RecordOutcome` is `completeSettlement`; its comparison of the
record's status makes it one step. `ReviewTransactionRisk` is compared with `updatedAt` and reconciles
inside its transaction, where `Reconciled` composes the same functions. `Deliver` and `Collect` are the
read and the write of `completeCollectedTransaction`; what lies between them (the donation record, the
event lock) is in other modules. A read of the profile is one step with the statement that follows it,
and the writes of a loop over rows read together are one step.

**FoodBank** has one action per operation of `food-bank.service.ts` and the settings edit of
`event.service.ts`. Windows are computed from the current hours (`Windows`), as `nextCollectionWindow`
does; a local day is `DayLength` ticks.

**Volunteer** has one action per operation of `volunteer.service.ts` and the date edits of the mobile event
editor, which checks neither date against the other nor against the time.

**Confirmation** follows `deliverConfirmations`: `deliverConfirmations` (findMany), `Claim` (compare-and-set
on status and attempts), `Announce` for one part after another in the order of `Parts`, `Complete`, and
`Throws` / `Requeue` for the catch clause; `NextAttempt` and `LeaseEnds` are time. Behind it is the mail
queue: `queueMail` with its job identifier, `Sends`, `Refuses`, `Skips` and a job that stalls. **Worker** is
`Refund` and `Confirmation` side by side, as the interval of `checkout.worker.ts` runs them.

**Donations** has one action for every awaited step of `initiateDonation`, the webhook inbox
(`WebhookRead`, `Register`, `MarkProcessed`), verification, polling, the refresh of a bank transfer, `Collect`
and `Record` of `completeCollectedTransaction`, and `CreateDonation` under the event lock with the meal pass
it grants. `Pay` and `Decline` are the provider.

**Kyc** follows the verification of one creator. A handler reads payout profile and verification, asks
(`Ask`, `Answers`) and leaves the fields it will write; `WriteKyc` and `WriteProfile` are the two statements
that write them, `WebhookWrite` is one transaction. The checks at the provider are `request`; `Decide` may come
long after the creator has asked for another.

**Accounts** is one email address: every way to sign in of `auth.service.ts` and `google.strategy.ts` as a
read and a write, the mails of codes with their failure, and the web challenge, whose verification holds
the row (`WebVerifyRead`, `WebVerifyCommit`). **Dashboard** is the accounts and sessions of staff; a password
is its number, so "the row I hashed against" can be compared at the commit.

**Scanner** reads item and permission, decides, marks and logs in separate steps, for one code or for the list
of a bulk scan; `VerifyRead` / `VerifyWrite` are `verifyTicket`. The history `trusted` holds, for a device that has
read an item and is to decide on it, the organisers whose permission its user has held since that read.
**Carpool** has rides with their requests, the switch from one ride to another as the three steps the code awaits,
the requests a new ride cancels one row at a time (`CreateCancel`, `CreateNext`), and the chat: `SendRead`,
`SendCommit` (the answer may be lost) and `SendAgain`. **Events** has the editors' transactions, the upload as
`StoreFile`, `SaveImage`, `DeleteOld` with retries, the nightly copy and the mails of the report, per server.
**Feed** has one action per Redis call or statement of frenzy and milestone, and a reader with a cursor.
**Notifications** has rows beside a counter, and token lists changed by reading and writing them whole.
**Badges** reads activity statement by statement while it changes. **InterestMap** has the surveys under the row
lock, signals without it and the reset statement by statement.

## Runs

| Run | Instance | What it shows |
|---|---|---|
| `checkout_requests` | 1 buyer, 2 keys, 2 requests in flight, one type, carts of 1 and 2 | `RequestsSafe`: one active hold per buyer and one payment opened per order, through retries and crashes; `RequestsKept`: a replay never restarts a deadline, a stale price never lets a paid order in free |
| `checkout_sale` | 2 buyers, 2 ticket types, stock 1 or 2, orders of both types and one over the limit | `TypeOK`, `NoOversell`, `SoldMatchesIssued`, `OutcomeConsistent`, `HoldHonoured` under late, repeated and wrong payments and every edit |
| `checkout_live` | 2 buyers, one type, free and paid, one tick, the event may end before or after it | `ImplementsSale`: every step is a step of the abstract sale or leaves it alone; `PendingResolves`, `PaidResolves` under fairness |
| `registration` | 3 checkouts of 2 buyers, one or two places or no limit, one scanner | `TypeOK`, `NoOverbooking`, `NotTwiceRegistered`, `HoldHonoured` |
| `registration_edit` | the same | violated: see Disagreements |
| `checkout_worker` | refunds: 2 workers, an administrator, a provider that accepts up to 2 refunds, 4 claims, 1 crash; confirmations: 2 workers, three jobs, of which one is claimed up to 3 times or two once each, 1 stall | `RefundsExact`: one POST, money back once, REFUNDED only when the provider has completed it; `ConfirmationsSafe`: completed means delivered, one worker under a live lease, no second mail without a stall; `RefundsResolve` and `ConfirmationsResolve` under fairness |
| `refund_final` | the refunds of `checkout_worker` | violated: see Disagreements |
| `settlement` | a checkout and a donation of equal worth, a Basic cap that covers one, one settlement, 2 requests; the profile restricted, BASIC or FULL | `TypeOK`; `AllocatedIsPaid` through late failures and repeated deliveries; `ReconcileSettles`: wherever concurrent requests have left the rows, one undisturbed reconciliation settles them as documented, up to the cap and not beyond, and a second one changes nothing |
| `settlement_locked` | the same | violated: see Disagreements |
| `community` | one part per behaviour, see below; the food bank with 4 people, three schedules of two windows (one with a clipped end), 8 ticks, two local days | the food bank's `TypeOK`, `MealsBounded`, `WindowsPaced`, `PassInHours`, `NoMealStranded`, `PassKept`; `ScannerSafe`, `CarpoolSafe`, `EventsSafe`, `FeedSafe` (feed and notifications), `ProfileSafe` (badges and interest map) |
| `volunteering` | 3 people, 2 roles of capacity 1 or 2, three dates, 4 instants | `TypeOK`, `PlacesBounded`, `NoTimeInvented`, `AttendanceKept` |
| `people` | one part per behaviour, see below | `SignInSafe` (accounts and staff), `KycSafe`, `DonationsSafe` |

**Parts.** Components that share no state are checked in one run as a sum: the constant choice `part` says
which instance a behaviour is of, the variables of the others keep one value, and the states add up instead
of multiplying. The last definition of a module (`CarpoolSafe`, `KycSafe`, ...) is the conjunction of its type
invariant and its safety properties, and the invariant of a run with that name says it of every instance. One component of each run is extended
instead of instantiated (`FoodBank`, `Donations`, `Refund` through `Worker`), so that the theorems about it name the properties of
the run:

| Invariant | Instances | Properties |
|---|---|---|
| `ScannerSafe` | `Door` two devices and a bulk of 2, `Helper` a scanner whose permission changes while two devices scan in bulk, `Rival` an organiser at another's event | `BulkAdmitsOnce`, `AdmittedByStaff`, `StatisticsAreAdmissions` |
| `CarpoolSafe` | `Chat` a ride and three devices of two people, `Switch` two rides, `Trip` a ride whose time changes | `OneMessagePerKey`, `OnlyMembersSpeak`, `RemovedWasAccepted`, `ViewsAdmitMembers` |
| `EventsSafe` | `Edit` two edits and three files, `Report` two servers and two supporters, `Daily` an event and its copy | `ImageExists`, `EditsWhatWasShown`, `SupportersAreMailed` |
| `FeedSafe` | `Gifts` three payments, `Lapses` and `Fading` keys that expire, `Pages` a reader, `Rush` three calls of one frenzy, `Sales` two kinds; `Bell` two counters, `Phone` one token | `MilestoneOnce`, `OneCurrentFrenzy`, `ReaderMissesNothing`; `CounterIsExact`, `TokenFollowsLogin` |
| `ProfileSafe` | `Gift`, `Backing`, `Helping`, `Working`, `Hosting` one family of badges each; `Survey` two transactions at once, `Topic` two events of one topic, `Learning` every way to take part, `Again` a map deleted and drawn again | `NoStaleAward`, `PrivacyIsChosen`; `ChangesAddUp`, `AnswerEndsDeferral`, `ResetForgets`, `NotAskedAgain`, `ChosenKeepTheirPlace` |
| `SignInSafe` | `Guest` two requests with passwords and codes, `Every` every way to sign in, `Google` two requests of Google's; `Office` two of the staff, `Alone` one guessing at length | `GuestPasswordProved`, `VerifiedWasProved`, `ChallengeOnce`; `SessionsAreCurrent`, `AdminRemains`, `GuessesAreBounded` |
| `KycSafe` | `Person` one of two persons, `Either` a person or a firm with two accounts, `Firm` and `Review` what staff review, `Refuse` a review that refuses while ownership changes | `VerifiedWasProved`, `TierIsEarned` |
| `DonationsSafe` | `donations` one payment, two calls at once, amounts below, at and above the price of a meal | `OneDonationPerPayment`, `ProcessedIsSettled`, `KeyNamesOneRequest` |

**Bounds.** `MaxTime` stops the clock; an order is only placed when its hold can still run out before that,
so expiry and everything after it happens in every run. Hold times are one tick: what matters is before,
at and after the deadline. Two units of stock against two orders of one or two tickets reach every
contest for the last unit; two types reach the order that fits for one type and not for the other. One
request per buyer is enough for the sale, because two requests of one buyer meet in `checkout_requests`. In
`checkout_worker`, two refunds at the provider are the least that can show a double payment, and four claims
let each worker retry after the other. In `settlement`, two requests are the least whose statements interleave, a
ticket and a donation are the two ways to be collected, and a cap of one payment makes every choice of
the cap matter. In `community`, the schedules of the food bank make meals exceed one window but fit two, and
eight ticks hold two days, so passes move between days. In `volunteering`, three people contend for one or
two places and there is an instant before, between and after each pair of dates. In the parts of `community` and
`people`, two calls in flight are the least that overlap, and one name of each thing they could confuse:
two persons, two passwords, two rides, two texts under one key. Thresholds, goals, page sizes and limits of
attempts are scaled down (a page of two or three rows, a goal of four, one or two guesses) so that each
boundary is crossed. Symmetry is used only where buyers, keys, requests, devices or roles occur in no definition
by name and are interchangeable in every part that uses them, and not with liveness.

**Fairness.** `checkout_live` assumes that time passes, that `expireHolds` runs (the worker's interval of
ten seconds) and that a collection is applied once it is enabled for ever (webhook redelivery and polling).
Nothing is assumed of buyers, organisers or requests, and a request may crash for good. `checkout_worker`
assumes that the interval keeps calling the workers, that due times and leases run out and that the
provider decides on a refund it has accepted; administrators and crashes owe nothing, and
`ConfirmationsResolve` asks only that a job is completed or has used up its attempts. The other runs check safety.

**Deadlock.** `CHECK_DEADLOCK FALSE` is set where the system may stop: every order settled and the clock at
its bound, a refund that is completed, or no user left to act.

## Proofs

All theorems are proved from the assumptions named in the modules (finite sets, natural numbers), for any
number of buyers, keys, requests, ticket types, workers, people, roles and schedules, and without the bounds of
the runs. Every invariant below was checked by TLC on an instance of the runs before it was proved.

| Module | Theorems | Inductive invariant |
|---|---|---|
| `CheckoutProofs` | `TypeCorrect` (`TypeOK`), `NeverOversold` (`NoOversell`) | `SaleInv == TypeOK /\ Untouched /\ NoOversell` |
| | `SoldIsIssued` (`SoldMatchesIssued`), `OneStory` (`OutcomeConsistent`), `RequestsCorrect` (`RequestsSafe`); of every step `OrdersKept` (`RequestsKept`), `HoldsHonoured` (`HoldHonoured`) | `CheckoutInv`: the above, `StoryInv` (one story for each order's rows; a pending order holds), `SoldMatchesIssued`, `OneActiveHold`, `OneCaller` |
| | `SaleImplemented` (`ImplementsSale`) | the same |
| `RegistrationProofs` | `RegistrationTypes` (`TypeOK`), `CapacityRespected` (`NoOverbooking`), `RegisteredOnce` (`NotTwiceRegistered`); `PaidHoldHonoured` (`HoldHonoured`) | `RegistrationInv == TypeOK /\ Coherent /\ NoOverbooking`; `NotTwiceRegistered` beside it |
| `WorkerProofs` | `RefundTypes` (`TypeOK`), `PostedAtMostOnce`, `RefundedIsProcessed` | `RefundInv == TypeOK /\ OneAttempt /\ SeenProcessed` |
| | `RefundedExactly` (`RefundsExact`, for `~ Stalls`) | that, and who is alone with the row under its lease |
| | `MailsSentOnce`, `DeliveredByOne`, `CompletedWasDelivered`, `DeliveryTyped`, together `ConfirmationsCorrect` (`ConfirmationsSafe`), of `Confirmation` | types, `HoldersAlone`, `SeenEarlier`, `PartsAreOut`, `MailsCounted`, `ClaimsCounted` |
| `PeopleProofs` | `DonationTypes`, `DonatedOnce`, `SettledBeforeProcessed`, `KeysNameRequests`, together `DonationCorrect` (`DonationsSafe`) | `DonationInv`: rows, what each call relies on, and the three properties |
| | `OfficeTyped`, `SessionsFollowAccounts`, `AdministratorRemains`, `GuessesBounded`, together `OfficeCorrect` (`SignInSafe`), of `Dashboard` | `OfficeInv`: types, `AccountsStand`, `AttemptsCount`, `SessionsAreCurrent`, `AdminRemains` |
| | `CreatorTyped`, `VerifiedSubjectsWereProved`, `TiersAreEarned`, together `CreatorCorrect` (`KycSafe`), of `Kyc` | `CreatorInv`: both rows are sound, and so are the fields every handler in flight is to write |
| | `AddressTyped`, `GuestPasswordsAreProved`, `VerifiedAccountsWereProved`, `ChallengesOpenOneSession`, together `AddressCorrect` (`SignInSafe`), of `Accounts` | `AddressInv == History /\ UserKnown /\ Requested /\ Locked /\ Challenged /\ Completions` |
| `SettlementProofs` | `SettlementTypes` (`TypeOK`), `AllocatedWasPaid` (`AllocatedIsPaid`) | `SettlementInv == TypeOK /\ AllocatedIsPaid` |
| | `ReconciliationIsComplete` (`ReconcileSettles`) | the same |
| `CommunityProofs` | `FoodBankTypes` (`TypeOK`), `MealsNeverExceeded` (`MealsBounded`), `WindowsStayPaced` (`WindowsPaced`), `PassesFollowHours` (`PassInHours`); `PassesKept` (`PassKept`) | `FoodBankInv == TypeOK /\ HoursExist /\ PassInHours /\ MealsBounded /\ WindowsPaced` |
| | `NoMealIsStranded` (`NoMealStranded`) | that, and the meals fit the windows (`MealsFit`) |
| | `DoorTyped`, `BulkScansAdmitOnce`, `StaffAdmit`, `StatisticsAddUp` (from `ScansLogged`), together `DoorCorrect` (`ScannerSafe`), of `Scanner` | `DoorInv`: types, `Remembered`, `AdmittedIsUsed`, `Counted`, `Watched`, `AdmittedByStaff` |
| | `ChatTyped`, `KeysNameOneMessage`, `MembersSpeak`, `RemovalFollowsAcceptance`, `ChatAdmitsMembers`, together `CarpoolCorrect` (`CarpoolSafe`), of `Carpool` | `ChatInv`: types, `CallsWrite`, `Acceptances`, `OneSend`, `Unsent`, `Spoken`, `OneMessagePerKey` |
| | `LifeTyped`, `PicturesExist`, `EditsMatchWhatWasShown`, `SupportersMailed`, together `EventsCorrect` (`EventsSafe`), of `Events` | `LifeInv`: types, `Pictures`, `Mails`, and that no edit replaced what its user had not seen |
| `VolunteerProofs` | `VolunteerTypes` (`TypeOK`), `RolesNeverOverfilled` (`PlacesBounded`), `ConfirmedTimePassed` (`NoTimeInvented`); `AttendanceIsKept` (`AttendanceKept`) | `VolunteerInv == TypeOK /\ PlacesBounded /\ NoTimeInvented` |

**Checkout.** `NoOversell` is not inductive alone. `sold` and the set of units under live holds change in one
step when an order is admitted, and the count after the step must be compared with the count before: that needs
the types (carts are finite, so `HeldUnits` is a finite set) and `Untouched` (nothing has been issued for an
order that is not SUCCESS, so the quantity to issue is the quantity in the cart, which is what the hold
counted). `OversellStep` has one case per action over four facts: `FewerHolds` (holds that end by any path,
the clock included, only free units), `NoNewHold`, `IssueWithRoom` (admitting what the hold counted) and
`ReserveWithRoom` (an order placed where there was room). `CheckoutInv` adds what the order rows say together
and that at most one request is calling the provider for an order (`OneCaller`). One lemma says how one row may
change in a step (`RowStep`); the properties of steps and the refinement are read off it.

**The abstract sale.** The mapping reads an order's state off its rows and the clock, so one step of the clock
lapses many holds at once. The counts agree because what the sale has promised, as units, is what is sold and
what is held (`PromisedUnits`, `PromisedCount`); a step that places or admits an order in `Checkout` then has
the room `TicketSale` asks for.

**Registration.** The occupants are one set over three kinds of rows. A payment that arrives for a hold that has
ended must find room among them, one that arrives in time is already counted; a buyer with two paid checkouts is
registered by the first and owed the second. That a live hold is honoured follows because the hold itself was
counted, provided that an order with a hold has no registration yet (`Coherent`).

**The worker.** A refund is POSTed only by the claim that found a row without attempts, and claims count them, so
there is one (`OneAttempt`). Whether the administrator pays by hand at the same time is a question of leases:
the worker that claimed is alone with the row until it rests, which holds only while no worker outlives its lease.
That hypothesis (`~ Stalls`) is needed: see the remarks below. Of a confirmation, who claims compares attempts
and status with what was seen (`SeenEarlier`: a row seen under way with as many attempts has lost its lease),
so one worker delivers; the parts behind its next one are out and stay out (`PartsAreOut`); a mail still in the
queue was sent as often as it was handed back (`MailsCounted`). That a part is told once for each claim at most
is again a counting argument: what is out, and what the workers at the job have yet to put out, are together no
more than the claims (`ClaimsCounted`), because no part occurs twice in what a job has to tell (`PartsOnce`). The theorems
assume that "no job" is not a job, that every job is of one of the three kinds and that the workers are finitely many.

**Donations.** Any number of webhooks, polls and refreshes complete a payment while they hold rows they read
earlier. Nothing a call has seen is taken back: statuses only move on, a key's row keeps its request, a recorded
donation stays. `CallsRelyOn` states that for each step a call can be in, and the unique keys do the rest.

**Food bank.** `PassInHours` needs that hours are never empty (`HoursExist`) and that a reschedule moves start,
end and every uncollected pass by the same amount, which keeps a pass on a window boundary; the type of a pass
(on the calendar) in turn needs `PassInHours`, which is why even `TypeOK` is proved from the conjunction.
`NoMealStranded` is a counting argument: until the first window is over, all windows can be offered; were each
full, their passes would be a block of at least `slotCapacity` for each window and no pass would be in two, so
there would be a pass for every meal, because the settings check leaves windows for all meals and a reschedule
keeps the number of windows (`MealsFit`).

**Volunteering.** `PlacesBounded` counts volunteers by status and role over the whole lifetime, so that a
reopened recruitment cannot forget those who have come.

**Settlement.** `AllocatedIsPaid` needs the types because a stale update writes what a request remembers
(`todo`): the proof shows that whatever is remembered is a settlement status and that every statement of
reconciliation leaves the payment status alone (`PutKeeps`, `WriteKeeps`, `ReconciledKeeps`); only
deliveries and reports of failure write a status, and neither takes SUCCESS away. `ReconcileSettles` is about every
state concurrent requests can leave: what an undisturbed reconciliation writes is computed statement by statement
(`HoldForRisk`, `Release`, `Capped`, ... at one payment) and compared with what each payment is due. The Basic cap
is a recursive sum over the payments in order; that it takes each payment that fits, once, is an induction over
the rows, which is done by taking the smallest row at which it would fail (`NoFailure`, `Iterate`).

**Dashboard.** Sign-in hashes between reading an account and opening a session. The session's transaction compares
what was read, and whoever disables, demotes or resets removes the sessions in the same transaction, so a session
never outlives what it was opened for. `AccountsStand` says that no account disappears under a request or a
session. That an administrator remains is decided by the transaction that counts them; `GuessesAreBounded`
needs that the counter on the row is never behind the guesses made, also after a lock has run out
(`AttemptsCount`).

**Creator verification.** Every handler reads both rows, decides, and writes whole sets of fields later, over
whatever has come between. So the invariant is about the fields themselves: a set of fields is *sound* when each
verified subject in it was proved by the provider (or staff vouched) and each tier earned, and what any handler
in flight is to write is sound already when it decides (`HandlerOk`). What was proved stays proved, so a late write
cannot make a row unsound, whichever row it meets. The proof failed at one handler: `reviewKyc` writes back the
identity and business status it has read (`wallet/service/wallet.service.ts:3202`), so a review that *refuses*,
and overlaps a check of another person or a change of ownership, leaves VERIFIED beside a subject that was not
verified. The earlier bounds hid it, since no instance had both. `VerifiedWasProved` now says what does hold
(where reviews may refuse, some subject was verified), and the instance `Refuse` reaches that case. The tier is not
affected: the review writes the tier it decides.

**Accounts.** A request carries from its read to its write only the row's identifier, the outcome of the comparison
and the pending password it read. A code's number fixes what it was mailed for (`issued`), and the code on the row
was mailed for the password that waits beside it (`UserOk`), so a password that is set later is the one the code
was read for (`Carries`). Codes and proofs are only ever added; hence whatever a request remembered stays true.
For the web challenge, a request that holds the row is alone (`Locked`): its count of wrong codes and the sessions
it opened are those on the row (`Challenged`).

**Scanner.** Checking and marking an item are separate statements, and the type of the counters (no item is
admitted more often than there are devices) is the counting argument: each device that has found the item
unused may still admit it once, and each device that has admitted may still log it once (`Counted`). A list of a bulk
scan is worked off from the front, so that the item it marks is not among those before it (`Remembered`). A device
that has read an item has every permission in its history that is in force or has been since (`Watched`,
`TrustStep`): so whoever decides to mark it was permitted at some moment since that read, and a permission that ended
while the device was busy with other codes is no use. The statistics are sums over the rows of the log, each of
which is no more than the admissions (`ScansLogged`); that the sums compare too is `StatisticsAddUp`. It assumes that
the tickets and the registrations are finitely many and have no identifier in common.

**Carpool.** Nothing a call has read is taken back: a ride stays a ride of its driver, a request stays of its user and
ride, and whoever was accepted was accepted (`ChatGrows`); so what a call is about to write stays right whatever has
come between (`CallsWrite`, `Acceptances`). A key names one message because a send looks for the key and stores
under the advisory lock of that key: no two devices are between the two steps with one key (`OneSend`), and while one is,
the key is still unused (`Unsent`). `ChatAdmitsMembers` rests on `Acceptances`: answers, switches and cancellations
overwrite one row without a condition, so the proof shows that no row comes to say ACCEPTED which the driver did not
accept, whatever a call found when it read the row. That the lists of rides show what one is let into is not stated:
it follows from the tests themselves, in any state.

**Events.** A stored picture is known only to the upload that stored it until it is saved (`Fresh`), and an upload that
has saved one deletes what its row named before. What could go wrong is that a row, or another upload, still names the
deleted file. Rows come to name one file only by a nightly copy, which marks both (`RowsApart`); the picture another
row's upload is about to replace, or has replaced, is in no row but marked ones (`HoldsApart`), nor in its own any more
(`Replaced`). With the exemption of marked rows `ImageExists` follows. For the report, a server marks the event after it
has gone through everyone who was not late (`Marked`), and the name of the job keeps a second server from mailing
again.

`CountingLemmas` holds the facts about finite sets and cardinalities the proofs share: moving one element,
disjoint unions, pairs with a number (`TaggedCount`) and unions of equal blocks (`BlocksCount`); and the
induction over rows without an induction rule: a set of naturals has a smallest element (`Smallest`), so what holds
at 0 and is carried on fails nowhere (`NoFailure`), and a function defined step by step exists (`Iterate`). In the
same way a sum over a finite set exists, may begin with any element, grows with its terms and is taken over disjoint
sets one after the other (`AddsUpExists`, `TotalSplit`, `TotalGrows`, `TotalOfUnion`).

The theorems about instances (`Delivery`, `Office`, `Creator`, `Address`, `Door`, `Chat`, `Life`) state the
properties of the modules `Confirmation`, `Dashboard`, `Kyc`, `Accounts`, `Scanner`, `Carpool` and `Events`. A
theorem whose name ends in `Correct` is of the conjunction that closes the module, which the runs check of each
instance.

## Disagreements

* `registration_edit`: `src/README.md:291` says that capacity edits "cannot undercut booked/reserved spaces".
  `registrationOccupancy` only counts registrations with status `active`, so once a registrant has been
  scanned in (`used`) the organiser can set the capacity below the places that are booked.
* `refund_final`: `src/README.md:299` says that "`REFUNDED` means provider completion was confirmed, rather
  than merely queued". The worker writes `PROCESSING` without a condition after awaiting the provider; an
  administrator's confirmation in between is overwritten and the refund is queued again.
* `settlement_locked`: `src/docs/operations-dashboard.md:17` says that "payments already in settlement
  processing are locked" against risk review. Two deliveries of one donation both find it pending; the
  first completes it, a settlement claims it, and the second writes `READY` over `PROCESSING` without a
  condition. The payment can then be put on hold while its settlement is pending. The stale updates of
  backfill and of the Basic cap can do the same.

Seen while modelling, without a run of its own:

* Refunds: with `Stalls = TRUE` money can go back twice, because a worker that outlives its lease never
  looks at it again before the POST. A settlement's claim tests neither the payout profile nor the Basic cap
  again, so a payment completed after the reconciliation is taken along.
* Scanner: the check and the update of `validateQrCode` are separate statements, so two devices may both be
  told that they admitted the same registration. Updating a revoked permission makes it active again.
* Carpool: `respondToRequest` never compares the accepted passengers with `availableSeats`, so no property
  bounds them. `remove` (`carpool/carpool.service.ts:563`) neither awaits nor returns its update, so it
  is not sent.
* Feed: a call that outlived the lock of a frenzy deletes that of the next one (`feed/feed.service.ts:1563`); the
  activity lists are read, changed and written whole (`:1722`), so concurrent activity is lost. Paging is
  only promised for rows that are neither pinned nor hidden while they are the cursor (`:304`). A lower
  milestone may be posted after a higher one when payments overtake each other.
* Events: a nightly copy shares the picture of its original, and the next edit of either deletes the file for
  both (`event/event.service.ts:1224`), which `ImageExists` exempts; `endRepeat` is not looked at.
* Donations: a payment that is FAILED and then paid is never recorded as a donation.
* Notifications: the counter drifts when `markAsRead` overlaps a new notification; `CounterIsExact` is about
  moments at which nothing is under way and nothing overlapped.
* Interest map: `src/README.md:334` says that learning uses donations;
  `user-preference/user-preference.service.ts:167` asks for those with status `active`, and
  `donation/donation.service.ts:91` creates them `completed`, so no donation teaches the map. An answer
  committed between the deletion of a reset and its cutoff survives the reset.
* Accounts: attempts are read and written back one higher, so guesses at once count once; a phone number is
  not proved before it signs in; a password reset does not revoke refresh tokens. For this reason the
  properties are about who proved an address and a password, not about the number of mobile guesses.
* KYC: when the payout account changes between the read and the write of a handler, the profile becomes
  ACTIVE with an account whose name was never compared. A review that refuses writes the old identity and business
  status over a newer check (`wallet/service/wallet.service.ts:3202`), see Proofs.

## Limits

Only model-checked: liveness, because it rests on fairness and ENABLED, which the prover does not treat; and
everything about `Feed`, `Notifications`, `Badges` and `InterestMap`.

Said with an exemption, because the code does not exclude the case: `Kyc!VerifiedWasProved` where reviews may refuse
(`Refusals`: a verified status written back beside another subject is not caught, only that somebody was verified);
`CounterIsExact` and `TokenFollowsLogin` for what overlapping calls have mixed up; `ImageExists` for nightly copies and
their originals; `RefundsExact` without workers that outlive a lease. `EditsWhatWasShown` says little more than the
comparison made under the event's lock.

Abstracted: amounts are "the order's" or "another"; prices are compared, not added; provider responses are
outcomes; a payment in `Settlement` is worth something to the creator (free orders never settle); the hash of
a request is its cart; texts, names, passwords, pictures and tokens are values that can be told apart; the
fields of rows that no guard reads are left out. A `findMany` or an `updateMany` is one step. Reads at the
beginning of a handler that the transaction repeats under its lock are left out. A key of Redis may expire at
any time after it was set, a bounded number of times. Between components, only what one of them decides on is
shared: `Settlement`, `Scanner`, `Badges` and `InterestMap` each have the rows they read as changing on
their own. The reads that precede the first write of `Carpool!CreateRead` are one step; a passenger's requests of
the day are any of those there are; the tray leaves out that a ride which left more than twelve hours ago is not
listed. `Accounts!LoginRead` leaves out the branch that verifies a password user at login where verification is
not required: whether it is required is a constant of the instance.

Not modelled, and why:

* Pricing and risk scores are arithmetic over one request; planned as operators.
* Posts, comments and likes: counters beside rows, as in `Notifications`, of which no other part decides
  anything; nobody joins the room `event:<id>` in which posts are sent (`post/post.gateway.ts:37`).
* The public website is a second front door of checkout, donation and volunteering; only its sessions are
  modelled, in `Accounts`.
* Change of a settlement account by a mailed code, wallet overviews and exports; transfer callbacks other
  than the outcome of a settlement; QoreID, which nothing calls.
* Refresh of tokens, user names, unread counters and old pages of a chat, socket presence and the messages
  between processes: state that lives as long as a connection, or that the next read replaces.
* Users, follows, communities, search, media, short links, dashboard queries: single rows, unique columns or
  reads.
* Mail templates and the Gogo assistant: rendering and validation of text, without state.

## Plan

In the order of their weight:

1. **Pricing** as operators against a reference definition over bounded amounts; the risk score with it.
2. **Donations**: an abstract "recorded exactly once" that `Donations` implements, composed with `Settlement`
   through the delivery of a collection.
3. **Settlement account change** by code, as a part of `people`.
4. **Web front door**: the session cookie, its checkout and donation, composed with `Accounts`.
5. **Posts**: counters of likes and comments beside their rows.

Proofs to follow: `Feed`, `Notifications`, `Badges` and `InterestMap` for any number of calls, beginning with
`TokenFollowsLogin`.
