------------------------------ MODULE MCPeople ------------------------------
(* Who people are to the system, and what they give, for TLC: sign-in, the  *)
(* operations dashboard, the verification of creators, and donations.  They *)
(* share no state, so each behaviour follows one instance of one of them:   *)
(* `part' names it.  The variables of Donations, which this module extends, *)
(* keep their first values in the other parts; those of the others hold     *)
(* Absent.                                                                  *)
(*                                                                          *)
(* Interchangeable values of all parts come from two sets, so that one      *)
(* small symmetry group serves them all: x and y (requests in flight), u1   *)
(* and u2 (passwords, staff, persons).                                      *)
EXTENDS Donations, TLC

CONSTANTS x, y, u1, u2, None, Absent

Symmetry == Permutations({x, y}) \cup Permutations({u1, u2})

VARIABLES
  part, task, session, opened,
  user, users, issued, delivered, tokens, challenge, mailed, wrong, proved, completed,
  account, tried, founded,
  profile, kyc, alat, request, vouched

accounts == <<user, users, issued, delivered, tokens, challenge, mailed, wrong, proved, completed>>
dashboard == <<account, tried, founded>>
verification == <<profile, kyc, alat, request, vouched>>

-----------------------------------------------------------------------------
(* Two requests with passwords, an app code to be mailed twice and a web    *)
(* challenge; every way to sign in, by one request at a time and with the   *)
(* address confirmed or not; two requests of Google's.                      *)
Guest == INSTANCE Accounts WITH work <- task, Calls <- {x, y}, Passwords <- {u1, u2}, Required <- TRUE,
           Ways <- {"password"}, MaxTries <- 2, WebTries <- 1, MaxUsers <- 1,
           MaxCodes <- 2, MaxChallenges <- 1
Every == INSTANCE Accounts WITH work <- task, Calls <- {"c"}, Passwords <- {u1, u2}, Required <- FALSE,
           Ways <- {"password", "reset", "google", "phone"}, MaxTries <- 1, WebTries <- 1,
           MaxUsers <- 2, MaxCodes <- 1, MaxChallenges <- 1
Google == INSTANCE Accounts WITH work <- task, Calls <- {x, y}, Passwords <- {u1}, Required <- TRUE,
            Ways <- {"google"}, MaxTries <- 2, WebTries <- 2, MaxUsers <- 1,
            MaxCodes <- 0, MaxChallenges <- 2

(* Two of the staff and two requests; one of them guessing at length.       *)
Office == INSTANCE Dashboard WITH work <- task, Staff <- {u1, u2}, Calls <- {x, y}, MaxAttempts <- 1,
            MaxPasswords <- 2, MaxSessions <- 2
Alone == INSTANCE Dashboard WITH work <- task, Staff <- {"s"}, Calls <- {x, y}, MaxAttempts <- 2,
           MaxPasswords <- 3, MaxSessions <- 2

(* One of two persons; a person or a firm with two accounts, the second of  *)
(* which bears another name; a firm that staff review; a person whom staff  *)
(* review; one who may turn into a firm while staff refuse.                 *)
Names == [pair \in {"a", "b"} \X {"d", "f", u1, u2} |->
            IF pair[1] = "b" THEN "MISMATCH" ELSE "MATCHED"]
Directors == [pair \in {"d"} \X {"f"} |-> "MATCHED"]
Person == INSTANCE Kyc WITH work <- task, Calls <- {"c"}, Hooks <- {"h"}, Persons <- {u1, u2},
            Firms <- {}, Accounts <- {"a"}, NameMatch <- Names,
            DirectorMatch <- Directors, Owners <- {"PERSONAL"}, KycReviews <- {},
            PayoutReviews <- {}, MaxRequests <- 2
Either == INSTANCE Kyc WITH work <- task, Calls <- {"c"}, Hooks <- {"h"}, Persons <- {"d"},
            Firms <- {"f"}, Accounts <- {"a", "b"}, NameMatch <- Names,
            DirectorMatch <- Directors, Owners <- {"PERSONAL", "BUSINESS"},
            KycReviews <- {}, PayoutReviews <- {}, MaxRequests <- 1
Firm == INSTANCE Kyc WITH work <- task, Calls <- {"c"}, Hooks <- {"h"}, Persons <- {"d"},
          Firms <- {"f"}, Accounts <- {"a"}, NameMatch <- Names,
          DirectorMatch <- Directors, Owners <- {"BUSINESS"},
          KycReviews <- {<<"VERIFIED", "MATCHED", "FULL">>}, PayoutReviews <- {"ACTIVE"},
          MaxRequests <- 2
Review == INSTANCE Kyc WITH work <- task, Calls <- {"c"}, Hooks <- {"h"}, Persons <- {"d"}, Firms <- {},
            Accounts <- {"a"}, NameMatch <- Names, DirectorMatch <- Directors,
            Owners <- {"PERSONAL"}, PayoutReviews <- {"REJECTED"}, MaxRequests <- 1,
            KycReviews <- {<<"VERIFIED", "MATCHED", "BASIC">>, <<"REJECTED", "MISMATCH", "BASIC">>}
Refuse == INSTANCE Kyc WITH work <- task, Calls <- {"c"}, Hooks <- {"h"}, Persons <- {"d"}, Firms <- {},
            Accounts <- {"a"}, NameMatch <- Names, DirectorMatch <- Directors,
            Owners <- {"PERSONAL", "BUSINESS"}, PayoutReviews <- {}, MaxRequests <- 1,
            KycReviews <- {<<"REJECTED", "MISMATCH", "BASIC">>}

-----------------------------------------------------------------------------
Off(v) == v = Absent
NoAccounts == /\ Off(user) /\ Off(users) /\ Off(issued) /\ Off(delivered)
              /\ Off(tokens) /\ Off(challenge) /\ Off(mailed) /\ Off(wrong)
              /\ Off(proved) /\ Off(completed)
NoDashboard == Off(account) /\ Off(tried) /\ Off(founded)
NoVerification == Off(profile) /\ Off(kyc) /\ Off(alat) /\ Off(request) /\ Off(vouched)

PeopleInit ==
  \/ /\ Init /\ NoDashboard /\ NoVerification
     /\ \/ part = "Guest" /\ Guest!Init
        \/ part = "Every" /\ Every!Init
        \/ part = "Google" /\ Google!Init
  \/ /\ Init /\ NoAccounts /\ NoVerification
     /\ \/ part = "Office" /\ Office!Init
        \/ part = "Alone" /\ Alone!Init
  \/ /\ Init /\ NoAccounts /\ NoDashboard /\ Off(session) /\ Off(opened)
     /\ \/ part = "Person" /\ Person!Init
        \/ part = "Either" /\ Either!Init
        \/ part = "Firm" /\ Firm!Init
        \/ part = "Review" /\ Review!Init
        \/ part = "Refuse" /\ Refuse!Init
  \/ /\ part = "donations" /\ Init
     /\ NoAccounts /\ NoDashboard /\ NoVerification
     /\ Off(task) /\ Off(session) /\ Off(opened)

PeopleNext ==
  \/ /\ part \in {"Guest", "Every", "Google"}
     /\ UNCHANGED <<part, dashboard, verification, vars>>
     /\ \/ part = "Guest" /\ Guest!Next
        \/ part = "Every" /\ Every!Next
        \/ part = "Google" /\ Google!Next
  \/ /\ part \in {"Office", "Alone"}
     /\ UNCHANGED <<part, accounts, verification, vars>>
     /\ \/ part = "Office" /\ Office!Next
        \/ part = "Alone" /\ Alone!Next
  \/ /\ part \in {"Person", "Either", "Firm", "Review", "Refuse"}
     /\ UNCHANGED <<part, session, opened, accounts, dashboard, vars>>
     /\ \/ part = "Person" /\ Person!Next
        \/ part = "Either" /\ Either!Next
        \/ part = "Firm" /\ Firm!Next
        \/ part = "Review" /\ Review!Next
        \/ part = "Refuse" /\ Refuse!Next
  \/ /\ part = "donations" /\ Next
     /\ UNCHANGED <<part, task, session, opened, accounts, dashboard, verification>>

all == <<part, task, session, opened, accounts, dashboard, verification, vars>>
PeopleSpec == PeopleInit /\ [][PeopleNext]_all

(* Passwords, addresses and sessions belong to who proved them; there is an *)
(* administrator, and guesses are bounded.                                  *)
SignInSafe ==
  /\ part = "Guest" => Guest!SignInSafe
  /\ part = "Every" => Every!SignInSafe
  /\ part = "Google" => Google!SignInSafe
  /\ part = "Office" => Office!SignInSafe
  /\ part = "Alone" => Alone!SignInSafe

(* A creator is verified, and has a tier, only after the checks it takes.   *)
KycSafe ==
  /\ part = "Person" => Person!KycSafe
  /\ part = "Either" => Either!KycSafe
  /\ part = "Firm" => Firm!KycSafe
  /\ part = "Review" => Review!KycSafe
  /\ part = "Refuse" => Refuse!KycSafe
=============================================================================
