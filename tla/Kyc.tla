-------------------------------- MODULE Kyc --------------------------------
(***************************************************************************)
(* Verification of a creator for payouts: the KYC handlers of              *)
(* wallet.service.ts and the provider client dikript.service.ts.           *)
(*                                                                         *)
(* One creator: creators meet only in the search for duplicates, whose     *)
(* answer is nondeterministic here.  Every handler reads the two rows,     *)
(* asks the provider, and then writes the fields it has computed, in two   *)
(* statements except where the code has a transaction, so a handler is a   *)
(* Read action that leaves the fields in work[c] and the writes.  `tier',  *)
(* `target' and `cache' are keys of one JSON column: a handler that        *)
(* spreads the metadata it has read writes all three back.  Names are kept *)
(* as the outcome of matching an account with a subject.                   *)
(*                                                                         *)
(* A definition whose comment begins with "Wrong" is not part of the       *)
(* specification: it is the faulty variant of the one that follows it.     *)
(***************************************************************************)
EXTENDS Integers, FiniteSets, Sequences

CONSTANTS
  Calls,           \* the creator's requests in flight
  Hooks,           \* webhooks and staff reviews in flight
  Persons, Firms,  \* what NIN, BVN and CAC numbers stand for
  Accounts,        \* payout accounts: bank and number
  None,
  NameMatch,       \* account and subject: how their names compare
  DirectorMatch,   \* person and firm: is the person one of its directors
  Owners,          \* ownership types creators choose
  KycReviews,      \* outcomes of reviewKyc: status, name match, approved tier
  PayoutReviews,   \* outcomes of reviewPayoutProfile
  MaxRequests      \* bound: requests to the provider

Matches == {"MATCHED", "REVIEW_REQUIRED", "MISMATCH"}
Statuses == {"NOT_STARTED", "IN_PROGRESS", "PENDING_PROVIDER", "SUBMITTED", "VERIFIED", "REJECTED"}
ProfileStatuses == {"ACCOUNT_VERIFIED", "PENDING_KYC", "REVIEW_REQUIRED", "ACTIVE", "REJECTED"}
Tiers == {"NONE", "BASIC", "FULL"}
Subjects == Persons \cup Firms

VARIABLES
  profile,   \* the creator's CreatorSettlementProfile, once saved
  kyc,       \* the creator's CreatorKycVerification
  alat,      \* the creator's CreatorAlatProfile: ACTIVE or not
  request,   \* the provider's checks, by their ids
  vouched,   \* history: staff approved the creator or the payout profile
  work       \* the handlers in flight

vars == <<profile, kyc, alat, request, vouched, work>>

Requests == 0..MaxRequests    \* 0: no request id stored
Kinds == {"identity", "business", "liveness"}
NewKyc ==
  [owner |-> "PERSONAL", mode |-> FALSE, status |-> "NOT_STARTED",
   business |-> "NOT_STARTED", identity |-> "NOT_STARTED", liveness |-> "NOT_STARTED",
   dedup |-> "NOT_STARTED", match |-> "NOT_CHECKED", person |-> None, firm |-> None,
   identityCheck |-> 0, businessCheck |-> 0, livenessCheck |-> 0,
   tier |-> "NONE", target |-> "NONE",
   cache |-> [personal |-> None, business |-> None, representative |-> None]]
Idle == [op |-> "idle"]
Tasks == Calls \cup Hooks

Init ==
  /\ profile = None /\ kyc = NewKyc /\ alat = FALSE
  /\ request = <<>> /\ vouched = FALSE
  /\ work = [c \in Tasks |-> Idle]

\* Prisma writes the fields named and leaves the others.
Merge(row, fields) ==
  [f \in DOMAIN row |-> IF f \in DOMAIN fields THEN fields[f] ELSE row[f]]
With(r, s) == [f \in DOMAIN r \cup DOMAIN s |-> IF f \in DOMAIN s THEN s[f] ELSE r[f]]
Metadata(row) == [tier |-> row.tier, target |-> row.target, cache |-> row.cache]
Plan(c, k, p) == work' = [work EXCEPT ![c] = [op |-> "kyc", kyc |-> k, profile |-> p]]

-----------------------------------------------------------------------------
(* Wrong: the face check is not asked for. *)
ApproveWithoutFace(tier, owner, k) ==
  /\ IF owner = "BUSINESS" THEN k.business = "VERIFIED" ELSE k.identity = "VERIFIED"
  /\ k.match = "MATCHED"
canAutoApproveKycTier(tier, owner, k) ==
  /\ owner = "BUSINESS" => k.business = "VERIFIED"
  /\ owner = "PERSONAL" \/ tier = "FULL" => k.identity = "VERIFIED"
  /\ tier = "FULL" => k.liveness = "VERIFIED"
  /\ k.match = "MATCHED"
  /\ k.dedup \notin {"SUBMITTED", "REJECTED"}

\* A duplicate, or a name that is not clearly the account's, goes to staff.
ManualReview(duplicate, match) == duplicate \/ match \in {"MISMATCH", "REVIEW_REQUIRED"}

deriveVerificationWorkflowStatus(owner, k) ==
  LET seen == {k.identity, k.liveness} \cup (IF owner = "BUSINESS" THEN {k.business} ELSE {}) IN
  IF "REJECTED" \in seen THEN "REJECTED"
  ELSE IF "PENDING_PROVIDER" \in seen THEN "PENDING_PROVIDER"
  ELSE IF "SUBMITTED" \in seen THEN "SUBMITTED" ELSE "IN_PROGRESS"

derivePayoutState(status) ==
  IF status = "VERIFIED" THEN "ACTIVE"
  ELSE IF status = "REJECTED" THEN "REVIEW_REQUIRED" ELSE "PENDING_KYC"

evaluateSettlementNameMatch(account, subject) ==
  IF subject = None THEN "NOT_CHECKED" ELSE NameMatch[account, subject]
MatchIf(status, account, subject) ==
  IF status = "VERIFIED" THEN evaluateSettlementNameMatch(account, subject) ELSE "NOT_CHECKED"

detectDuplicateKycSignals(duplicate) == IF duplicate THEN "SUBMITTED" ELSE "VERIFIED"

-----------------------------------------------------------------------------
(* Wrong: forgets who was verified, and not that somebody was. *)
ClearedInPart(row) ==
  [mode |-> FALSE, status |-> "NOT_STARTED", match |-> "NOT_CHECKED", person |-> None,
   firm |-> None, identityCheck |-> 0, businessCheck |-> 0, livenessCheck |-> 0]
Cleared(row) ==
  [mode |-> FALSE, status |-> "NOT_STARTED", business |-> "NOT_STARTED",
   identity |-> "NOT_STARTED", liveness |-> "NOT_STARTED", dedup |-> "NOT_STARTED",
   match |-> "NOT_CHECKED", person |-> None, firm |-> None,
   identityCheck |-> 0, businessCheck |-> 0, livenessCheck |-> 0]

(* upsertPayoutProfile: duplicates of the account and the provider's answer  *)
(* on the account's name make it fail, which changes nothing.                *)
UpsertPayoutProfile(c, account, owner) ==
  LET new == profile = None
      changed == ~ new /\ (profile.account # account \/ profile.owner # owner)
      switched == ~ new /\ profile.owner # owner
      subject == IF owner = "BUSINESS" THEN kyc.firm ELSE kyc.person
      rematch == evaluateSettlementNameMatch(account, subject) IN
  /\ work[c] = Idle
  /\ work' = [work EXCEPT ![c] =
       [op |-> "payout",
        profile |-> [account |-> account, owner |-> owner,
                     status |-> IF ~ new /\ profile.status = "ACTIVE" /\ ~ changed
                                THEN "ACTIVE" ELSE "ACCOUNT_VERIFIED",
                     tier |-> IF new THEN "NONE" ELSE profile.tier],
        kyc |-> With(With([owner |-> owner], Metadata(kyc)),
          IF switched THEN Cleared(kyc)
          ELSE IF changed THEN [status |-> "IN_PROGRESS", match |-> rematch]
          ELSE [match |-> rematch]),
        closeAlat |-> changed]]
  /\ UNCHANGED <<profile, kyc, alat, request, vouched>>

SavePayoutProfile(c) ==
  /\ work[c].op = "payout"
  /\ profile' = work[c].profile
  /\ work' = [work EXCEPT ![c].op = "payout2"]
  /\ UNCHANGED <<kyc, alat, request, vouched>>

SavePayoutKyc(c) ==
  /\ work[c].op = "payout2"
  /\ kyc' = Merge(kyc, work[c].kyc)
  /\ work' = [work EXCEPT ![c] = IF work[c].closeAlat THEN [op |-> "alat"] ELSE Idle]
  /\ UNCHANGED <<profile, alat, request, vouched>>

CloseAlat(c) ==
  /\ work[c].op = "alat"
  /\ alat' = FALSE
  /\ work' = [work EXCEPT ![c] = Idle]
  /\ UNCHANGED <<profile, kyc, request, vouched>>

-----------------------------------------------------------------------------
(* What the provider says to a new check: at once, or later by webhook.      *)
Answers == {"VERIFIED", "REJECTED", "PENDING_PROVIDER"}
Ask(kind, subject, answer) ==
  /\ Len(request) < MaxRequests
  /\ request' = Append(request, [kind |-> kind, subject |-> subject, answer |-> answer])
verifyNin(d, answer) == Ask("identity", d, answer)
verifyCacBasic(f, answer) == Ask("business", f, answer)
verifyLiveness(d, answer) == Ask("liveness", d, answer)

\* The status and the tier are written with the row, the state with the profile.
PlanRow(c, row, outcome) ==
  Plan(c, With(row, [status |-> outcome.status, tier |-> outcome.tier]),
          [owner |-> row.owner, status |-> outcome.state, tier |-> outcome.tier])

PersonalRow(identity, person, dedup, check, d) ==
  [owner |-> "PERSONAL", mode |-> TRUE, identity |-> identity, person |-> person, firm |-> None,
   business |-> "NOT_STARTED", liveness |-> "NOT_STARTED", livenessCheck |-> 0, dedup |-> dedup,
   match |-> MatchIf(identity, profile.account, person), identityCheck |-> check,
   target |-> "BASIC", cache |-> [kyc.cache EXCEPT !.personal = d]]
PersonalOutcome(row, duplicate) ==
  LET approved == canAutoApproveKycTier("BASIC", "PERSONAL", row)
      review == row.identity = "VERIFIED" /\ ~ approved /\ ManualReview(duplicate, row.match) IN
  [tier |-> IF approved THEN "BASIC" ELSE "NONE",
   status |-> IF row.identity \in {"REJECTED", "PENDING_PROVIDER"} THEN row.identity
              ELSE IF approved THEN "VERIFIED"
              ELSE IF review THEN "SUBMITTED" ELSE "IN_PROGRESS",
   state |-> IF approved THEN "ACTIVE" ELSE IF review THEN "REVIEW_REQUIRED"
             ELSE derivePayoutState(IF row.identity = "VERIFIED" THEN "IN_PROGRESS"
                                    ELSE row.identity)]

(* The same input is not sent again: whatever the last check found is kept.  *)
StartPersonalKyc(c, d) ==
  LET Start(row, duplicate) == PlanRow(c, row, PersonalOutcome(row, duplicate)) IN
  /\ work[c] = Idle /\ profile # None
  /\ \/ /\ kyc.cache.personal = d
        /\ Start(PersonalRow(kyc.identity, kyc.person, kyc.dedup, kyc.identityCheck, d), FALSE)
        /\ UNCHANGED request
     \/ /\ kyc.cache.personal # d
        /\ \E answer \in Answers, duplicate \in BOOLEAN :
             /\ verifyNin(d, answer)
             /\ Start(PersonalRow(answer, d, detectDuplicateKycSignals(duplicate), Len(request'), d),
                      duplicate)
  /\ UNCHANGED <<profile, kyc, alat, vouched>>

BusinessRow(business, firm, dedup, check, f) ==
  [owner |-> "BUSINESS", business |-> business, firm |-> firm, dedup |-> dedup,
   match |-> MatchIf(business, profile.account, firm), businessCheck |-> check,
   target |-> "BASIC", cache |-> [kyc.cache EXCEPT !.business = f]]
BusinessOutcome(row, duplicate) ==
  LET workflow == deriveVerificationWorkflowStatus("BUSINESS",
                    [identity |-> kyc.identity, liveness |-> kyc.liveness, business |-> row.business])
      approved == canAutoApproveKycTier("BASIC", "BUSINESS", row)
      review == row.business = "VERIFIED" /\ ~ approved /\ ManualReview(duplicate, row.match) IN
  [tier |-> IF approved THEN "BASIC" ELSE "NONE",
   status |-> IF row.business \in {"REJECTED", "PENDING_PROVIDER"} THEN row.business
              ELSE IF approved THEN "VERIFIED"
              ELSE IF review THEN "SUBMITTED" ELSE workflow,
   state |-> IF approved THEN "ACTIVE" ELSE IF review THEN "REVIEW_REQUIRED"
             ELSE derivePayoutState(workflow)]

StartBusinessKyc(c, f) ==
  LET Start(row, duplicate) == PlanRow(c, row, BusinessOutcome(row, duplicate)) IN
  /\ work[c] = Idle /\ profile # None
  /\ \/ /\ kyc.cache.business = f
        /\ Start(BusinessRow(kyc.business, kyc.firm, kyc.dedup, kyc.businessCheck, f), FALSE)
        /\ UNCHANGED request
     \/ /\ kyc.cache.business # f
        /\ \E answer \in Answers, duplicate \in BOOLEAN :
             /\ verifyCacBasic(f, answer)
             /\ Start(BusinessRow(answer, f, detectDuplicateKycSignals(duplicate), Len(request'), f),
                      duplicate)
  /\ UNCHANGED <<profile, kyc, alat, vouched>>

(* A representative the provider knows must also be a director of the firm.  *)
Represents(answer, d, f) ==
  IF answer # "VERIFIED" THEN answer
  ELSE CASE DirectorMatch[d, f] = "MATCHED" -> "VERIFIED"
         [] DirectorMatch[d, f] = "REVIEW_REQUIRED" -> "SUBMITTED"
         [] OTHER -> "REJECTED"

RepresentativeRow(identity, person, dedup, check, d) ==
  [owner |-> "BUSINESS", mode |-> TRUE, identity |-> identity, person |-> person,
   liveness |-> "NOT_STARTED", livenessCheck |-> 0, dedup |-> dedup, identityCheck |-> check,
   target |-> "FULL", cache |-> [kyc.cache EXCEPT !.representative = d]]
RepresentativeOutcome(row) ==
  LET keep == kyc.tier = "BASIC" /\ profile.status = "ACTIVE"
      workflow == deriveVerificationWorkflowStatus("BUSINESS",
                    [identity |-> row.identity, liveness |-> "NOT_STARTED", business |-> kyc.business])
      review == "SUBMITTED" \in {row.identity, row.dedup} IN
  [tier |-> IF keep THEN "BASIC" ELSE "NONE",
   status |-> IF row.identity = "REJECTED" /\ ~ keep THEN "REJECTED"
              ELSE IF review THEN "SUBMITTED"
              ELSE IF keep THEN "VERIFIED" ELSE workflow,
   state |-> IF keep THEN "ACTIVE" ELSE IF review THEN "REVIEW_REQUIRED"
             ELSE derivePayoutState(workflow)]

StartBusinessRepresentativeKyc(c, d) ==
  LET Start(row) == PlanRow(c, row, RepresentativeOutcome(row)) IN
  /\ work[c] = Idle /\ profile # None
  /\ kyc.business = "VERIFIED" /\ kyc.firm # None
  /\ kyc.match \notin {"MISMATCH", "NOT_CHECKED"}
  /\ \/ /\ kyc.cache.representative = d
        /\ \E identity \in {kyc.identity} \cup
             (IF kyc.identity = "VERIFIED" THEN {Represents("VERIFIED", d, kyc.firm)} ELSE {}) :
             Start(RepresentativeRow(identity, kyc.person, kyc.dedup, kyc.identityCheck, d))
        /\ UNCHANGED request
     \/ /\ kyc.cache.representative # d
        /\ \E answer \in Answers, duplicate \in BOOLEAN :
             /\ verifyNin(d, answer)
             /\ Start(RepresentativeRow(Represents(answer, d, kyc.firm), d,
                        detectDuplicateKycSignals(duplicate), Len(request'), d))
  /\ UNCHANGED <<profile, kyc, alat, vouched>>

\* What the face check and the submission of a tier ask of the row.
IdentityDone ==
  kyc.identity = "VERIFIED" \/ (kyc.owner = "BUSINESS" /\ kyc.identity = "SUBMITTED")
MayFaceCheck ==
  /\ kyc.liveness \notin {"VERIFIED", "PENDING_PROVIDER"}
  /\ profile.status = "ACTIVE" /\ kyc.tier = "BASIC" /\ kyc.mode
  /\ kyc.owner = "BUSINESS" => kyc.business = "VERIFIED"
  /\ IdentityDone
MaySubmit(tier) ==
  /\ kyc.owner = "BUSINESS" => kyc.business = "VERIFIED"
  /\ kyc.owner # "BUSINESS" \/ tier = "FULL" => IdentityDone
  /\ tier = "FULL" => kyc.liveness = "VERIFIED"

SubmitPersonalLiveness(c) ==
  /\ work[c] = Idle /\ profile # None /\ MayFaceCheck
  /\ \E answer \in Answers :
       LET full == kyc.status = "VERIFIED"
                   /\ canAutoApproveKycTier("FULL", kyc.owner, [kyc EXCEPT !.liveness = answer])
           review == answer = "VERIFIED" /\ ~ full
           tier == IF full THEN "FULL" ELSE "BASIC" IN
       /\ verifyLiveness(kyc.person, answer)
       /\ Plan(c, [status |-> IF full THEN "VERIFIED" ELSE IF review THEN "SUBMITTED"
                              ELSE kyc.status,
                   liveness |-> answer, livenessCheck |-> Len(request'),
                   tier |-> tier, target |-> "FULL", cache |-> kyc.cache],
                  [status |-> "ACTIVE", tier |-> tier])
  /\ UNCHANGED <<profile, kyc, alat, vouched>>

SubmitKyc(c, tier) ==
  LET match == evaluateSettlementNameMatch(profile.account,
                 IF profile.owner = "BUSINESS" THEN kyc.firm ELSE kyc.person) IN
  /\ work[c] = Idle /\ profile # None /\ MaySubmit(tier) /\ match # "MISMATCH"
  /\ Plan(c, [status |-> "SUBMITTED", match |-> match, target |-> tier,
              tier |-> kyc.tier, cache |-> kyc.cache],
             [status |-> IF kyc.dedup = "SUBMITTED" \/ match = "REVIEW_REQUIRED"
                         THEN "REVIEW_REQUIRED" ELSE "PENDING_KYC"])
  /\ UNCHANGED <<profile, kyc, alat, request, vouched>>

-----------------------------------------------------------------------------
(* The writes of the handlers above, one statement after the other.          *)
WriteKyc(c) ==
  /\ work[c].op = "kyc"
  /\ kyc' = Merge(kyc, work[c].kyc)
  /\ work' = [work EXCEPT ![c].op = "profile"]
  /\ UNCHANGED <<profile, alat, request, vouched>>

WriteProfile(c) ==
  /\ work[c].op = "profile"
  /\ profile' = Merge(profile, work[c].profile)
  /\ work' = [work EXCEPT ![c] = Idle]
  /\ UNCHANGED <<kyc, alat, request, vouched>>

-----------------------------------------------------------------------------
(* The provider decides a check it had left open.                            *)
Decide(r, answer) ==
  /\ request[r].answer = "PENDING_PROVIDER" /\ answer # "PENDING_PROVIDER"
  /\ request' = [request EXCEPT ![r].answer = answer]
  /\ UNCHANGED <<profile, kyc, alat, vouched, work>>

(* handleDikriptWebhook: its two writes share a transaction, its reads do    *)
(* not.  An id no row holds any more is acknowledged and dropped.            *)
Delivered(c, r, kind, check) ==
  /\ work[c] = Idle /\ profile # None
  /\ request[r].kind = kind /\ request[r].answer # "PENDING_PROVIDER" /\ check = r
Hook(c, k, p) == work' = [work EXCEPT ![c] = [op |-> "hook", kyc |-> k, profile |-> p]]
TierFields(approved, review, metadata) ==
  IF approved \/ review
  THEN With(metadata, [tier |-> IF approved THEN "BASIC" ELSE "NONE", target |-> "BASIC",
                       status |-> IF approved THEN "VERIFIED" ELSE "SUBMITTED"])
  ELSE metadata
PayoutFields(approved, review, workflow) ==
  IF approved THEN [status |-> "ACTIVE", tier |-> "BASIC"]
  ELSE IF review THEN [status |-> "REVIEW_REQUIRED", tier |-> "NONE"]
  ELSE [status |-> derivePayoutState(workflow)]

WebhookIdentity(c, r) ==
  LET identity == request[r].answer  person == request[r].subject
      workflow == deriveVerificationWorkflowStatus(kyc.owner,
                    [identity |-> identity, business |-> kyc.business,
                     liveness |-> "NOT_STARTED"]) IN
  /\ Delivered(c, r, "identity", kyc.identityCheck)
  /\ \E duplicate \in BOOLEAN :
       LET matched == identity = "VERIFIED" /\ kyc.owner = "PERSONAL"
           seen == [identity |-> identity, status |-> workflow, person |-> person,
                    dedup |-> detectDuplicateKycSignals(duplicate),
                    match |-> IF matched
                              THEN evaluateSettlementNameMatch(profile.account, person)
                              ELSE kyc.match]
           approved == kyc.owner = "PERSONAL" /\ canAutoApproveKycTier("BASIC", "PERSONAL", seen)
           review == matched /\ ~ approved /\ ManualReview(duplicate, seen.match)
       IN Hook(c, With(seen, TierFields(approved, review, Metadata(kyc))),
                  PayoutFields(approved, review, workflow))
  /\ UNCHANGED <<profile, kyc, alat, request, vouched>>

WebhookBusiness(c, r) ==
  LET business == request[r].answer  firm == request[r].subject
      workflow == deriveVerificationWorkflowStatus(kyc.owner,
                    [identity |-> kyc.identity, business |-> business,
                     liveness |-> "NOT_STARTED"]) IN
  /\ Delivered(c, r, "business", kyc.businessCheck)
  /\ \E duplicate \in BOOLEAN :
       LET seen == [business |-> business, status |-> workflow, firm |-> firm,
                    dedup |-> detectDuplicateKycSignals(duplicate),
                    match |-> IF business = "VERIFIED"
                              THEN evaluateSettlementNameMatch(profile.account, firm)
                              ELSE kyc.match]
           approved == kyc.owner = "BUSINESS" /\ canAutoApproveKycTier("BASIC", "BUSINESS", seen)
           review == /\ kyc.owner = "BUSINESS" /\ business = "VERIFIED" /\ ~ approved
                     /\ ManualReview(duplicate, seen.match)
       IN Hook(c, With(seen, TierFields(approved, review, Metadata(kyc))),
                  PayoutFields(approved, review, workflow))
  /\ UNCHANGED <<profile, kyc, alat, request, vouched>>

WebhookLiveness(c, r) ==
  LET liveness == request[r].answer
      seen == [kyc EXCEPT !.liveness = liveness]
      workflow == deriveVerificationWorkflowStatus(kyc.owner, seen)
      keep == kyc.tier = "BASIC" /\ kyc.status = "VERIFIED" /\ profile.status = "ACTIVE"
      full == keep /\ canAutoApproveKycTier("FULL", kyc.owner, seen)
      review == keep /\ liveness = "VERIFIED" /\ ~ full
      tier == IF full THEN "FULL" ELSE kyc.tier IN
  /\ Delivered(c, r, "liveness", kyc.livenessCheck)
  /\ Hook(c, [liveness |-> liveness, tier |-> tier, target |-> "FULL", cache |-> kyc.cache,
              status |-> IF full THEN "VERIFIED" ELSE IF review THEN "SUBMITTED"
                         ELSE IF keep THEN kyc.status ELSE workflow],
             [tier |-> tier, status |-> IF keep THEN "ACTIVE" ELSE derivePayoutState(workflow)])
  /\ UNCHANGED <<profile, kyc, alat, request, vouched>>

WebhookWrite(c) ==
  /\ work[c].op = "hook"
  /\ kyc' = Merge(kyc, work[c].kyc)
  /\ profile' = Merge(profile, work[c].profile)
  /\ work' = [work EXCEPT ![c] = Idle]
  /\ UNCHANGED <<alat, request, vouched>>

-----------------------------------------------------------------------------
(* Wrong: a full approval does not look at the face check. *)
NoFaceNeeded(status, tier) == TRUE
FaceSeen(status, tier) ==
  status = "VERIFIED" /\ tier = "FULL" => kyc.liveness = "VERIFIED"
ReviewKyc(c, status, match, asked) ==
  LET wanted == IF asked = "FULL" \/ kyc.target = "FULL" THEN "FULL" ELSE "BASIC"
      tier == IF status = "VERIFIED" THEN wanted ELSE "NONE"
      state == IF status = "VERIFIED" /\ match = "MATCHED" THEN "ACTIVE"
               ELSE IF status = "REJECTED" \/ match = "MISMATCH" THEN "REJECTED"
               ELSE "REVIEW_REQUIRED" IN
  /\ work[c] = Idle /\ profile # None
  /\ status = "VERIFIED" /\ wanted = "FULL" /\ kyc.owner = "BUSINESS"
       => kyc.identity \in {"VERIFIED", "SUBMITTED"}
  /\ FaceSeen(status, wanted)
  /\ Hook(c,
       [status |-> status, match |-> match, tier |-> tier, cache |-> kyc.cache,
        target |-> IF tier # "NONE" THEN tier
                   ELSE IF kyc.target = "NONE" THEN "BASIC" ELSE kyc.target,
        business |-> IF status = "VERIFIED" /\ kyc.owner = "BUSINESS"
                     THEN "VERIFIED" ELSE kyc.business,
        identity |-> IF status = "VERIFIED" /\ (kyc.owner # "BUSINESS" \/ tier = "FULL")
                     THEN "VERIFIED" ELSE kyc.identity,
        liveness |-> IF tier = "FULL" THEN "VERIFIED" ELSE kyc.liveness,
        dedup |-> IF status \in {"VERIFIED", "REJECTED"} THEN status ELSE kyc.dedup],
       [status |-> state, tier |-> tier])
  /\ vouched' = (vouched \/ status = "VERIFIED")
  /\ UNCHANGED <<profile, kyc, alat, request>>

ReviewPayoutProfile(status) ==
  /\ profile # None
  /\ profile' = [profile EXCEPT !.status = status]
  /\ vouched' = (vouched \/ status = "ACTIVE")
  /\ UNCHANGED <<kyc, alat, request, work>>

UpsertAlatProfile(active) ==
  /\ active => profile # None /\ profile.status = "ACTIVE" /\ kyc.tier = "FULL"
  /\ alat' = active
  /\ UNCHANGED <<profile, kyc, request, vouched, work>>

canOfferAlatTransfer ==
  profile # None /\ profile.status = "ACTIVE" /\ kyc.tier = "FULL" /\ alat

Abandon(c) ==
  /\ work[c] # Idle
  /\ work' = [work EXCEPT ![c] = Idle]
  /\ UNCHANGED <<profile, kyc, alat, request, vouched>>

Next ==
  \/ \E c \in Calls :
       \/ \E a \in Accounts, o \in Owners : UpsertPayoutProfile(c, a, o)
       \/ SavePayoutProfile(c) \/ SavePayoutKyc(c) \/ CloseAlat(c)
       \/ "PERSONAL" \in Owners /\ \E d \in Persons : StartPersonalKyc(c, d)
       \/ \E d \in Persons : StartBusinessRepresentativeKyc(c, d)
       \/ \E f \in Firms : StartBusinessKyc(c, f)
       \/ SubmitPersonalLiveness(c)
       \/ \E tier \in {"BASIC", "FULL"} : SubmitKyc(c, tier)
       \/ WriteKyc(c) \/ WriteProfile(c)
  \/ \E c \in Hooks :
       \/ \E r \in DOMAIN request :
            WebhookIdentity(c, r) \/ WebhookBusiness(c, r) \/ WebhookLiveness(c, r)
       \/ \E v \in KycReviews : ReviewKyc(c, v[1], v[2], v[3])
       \/ WebhookWrite(c)
  \/ \E c \in Tasks : Abandon(c)
  \/ \E r \in DOMAIN request, answer \in Answers : Decide(r, answer)
  \/ \E status \in PayoutReviews : ReviewPayoutProfile(status)
  \/ \E active \in BOOLEAN : UpsertAlatProfile(active)

Spec == Init /\ [][Next]_vars

-----------------------------------------------------------------------------
(* Every variable keeps its type. *)
TypeOK ==
  /\ profile # None => profile \in
       [account : Accounts, owner : {"PERSONAL", "BUSINESS"}, status : ProfileStatuses, tier : Tiers]
  /\ DOMAIN kyc = DOMAIN NewKyc
  /\ {kyc.status, kyc.business, kyc.identity, kyc.liveness, kyc.dedup} \subseteq Statuses
  /\ kyc.person \in Persons \cup {None} /\ kyc.firm \in Firms \cup {None}
  /\ kyc.tier \in Tiers /\ kyc.target \in Tiers
  /\ {kyc.identityCheck, kyc.businessCheck, kyc.livenessCheck} \subseteq Requests
  /\ \A r \in DOMAIN request :
       request[r] \in [kind : Kinds, subject : Subjects \cup {None}, answer : Answers]
  /\ {alat, vouched} \subseteq BOOLEAN /\ DOMAIN work = Tasks

Passed(kind, subject) ==
  \E r \in DOMAIN request :
    request[r] = [kind |-> kind, subject |-> subject, answer |-> "VERIFIED"]

(* A row that says a person or firm is verified names one the provider has    *)
(* verified for this creator, or staff have approved the creator: an answer   *)
(* to an earlier check, delivered late or twice or between the reads and      *)
(* writes of a new check, never vouches for somebody else.  A review that     *)
(* does not approve may: reviewKyc writes the statuses it has read back, onto *)
(* a row that meanwhile names another; somebody was verified even then.       *)
Refusals == \E v \in KycReviews : v[1] # "VERIFIED"
VerifiedWasProved ==
  /\ kyc.identity = "VERIFIED" =>
       \/ vouched \/ Passed("identity", kyc.person)
       \/ Refusals /\ \E d \in Persons : Passed("identity", d)
  /\ kyc.business = "VERIFIED" =>
       \/ vouched \/ Passed("business", kyc.firm)
       \/ Refusals /\ \E f \in Firms : Passed("business", f)

(* "Full KYC approval requires a verified liveness check": whoever holds the  *)
(* full tier, in either of its two copies, or may offer transfers, has passed *)
(* a face check, though tiers are written back from metadata read earlier;    *)
(* and nobody is paid out or holds a tier whom neither a provider's check nor *)
(* staff approved.                                                            *)
TierIsEarned ==
  LET tiers == {kyc.tier} \cup (IF profile = None THEN {} ELSE {profile.tier})
      faced == \E s \in Persons \cup {None} : Passed("liveness", s)
      proved == \/ \E s \in Persons : Passed("identity", s)
                \/ \E s \in Firms : Passed("business", s) IN
  /\ "FULL" \in tiers \/ canOfferAlatTransfer => faced
  /\ tiers # {"NONE"} => vouched \/ proved
  /\ profile # None /\ profile.status = "ACTIVE" => vouched \/ proved

(* A creator is verified, and has a tier, only after the checks it takes.      *)
KycSafe == TypeOK /\ VerifiedWasProved /\ TierIsEarned
=============================================================================
