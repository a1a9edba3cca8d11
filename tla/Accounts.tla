------------------------------ MODULE Accounts ------------------------------
(***************************************************************************)
(* One email address: its app account in auth.service.ts, sign-in with     *)
(* Google and by phone, and the guest web sessions of                      *)
(* web-session.service.ts.                                                 *)
(*                                                                         *)
(* The app's handlers read the row, await a hash or a mail and write the   *)
(* row with no lock, so each one is a Read action and a Write action.  The *)
(* web code is checked in a transaction that holds the challenge's row.    *)
(* Codes are numbered as they are drawn, and nobody guesses one that was   *)
(* not mailed; passwords are names; expiry and cooldown are flags that     *)
(* time clears.  Profiles, tokens' contents and welcome mails are left     *)
(* out.                                                                    *)
(*                                                                         *)
(* A definition whose comment begins with "Wrong" is not part of the       *)
(* specification: it is the faulty variant of the one that follows it.     *)
(***************************************************************************)
EXTENDS Integers, FiniteSets, Sequences

CONSTANTS
  Calls,        \* requests in flight
  Passwords,
  None,         \* no password, no id, no user
  Required,     \* AUTH_EMAIL_VERIFICATION_REQUIRED
  Ways,         \* bound: handlers called, of "password", "reset", "google", "phone"
  MaxTries,     \* AUTH_EMAIL_VERIFICATION_MAX_ATTEMPTS and the reset's
  WebTries,     \* wrong codes a web challenge permits
  MaxUsers,     \* bound: rows this address ever has
  MaxCodes,     \* bound: codes mailed by the app
  MaxChallenges \* bound: web challenges

VARIABLES
  user,       \* the User row of the address
  users,      \* rows created so far
  issued,     \* history: codes drawn, each with what it would complete
  delivered,  \* codes that reached the mailbox
  tokens,     \* ids of the users refresh tokens were made for
  challenge,  \* the WebEmailChallenge row
  mailed,     \* challenges whose code reached the mailbox
  session,    \* WebSession rows, by the challenge that opened them
  opened,     \* history: sessions ever opened by each challenge
  wrong,      \* history: wrong codes compared with each challenge
  proved,     \* history: users whose address or phone was proved
  completed,  \* history: guests' passwords and the codes that set them
  work        \* the requests in flight

appVars == <<user, users, issued, delivered, tokens, completed>>
webVars == <<challenge, mailed, session, opened, wrong>>
vars == <<user, users, issued, delivered, tokens, challenge, mailed, session,
          opened, wrong, proved, completed, work>>

NoUser == [id |-> None]
Kinds == {"email", "reset"}
Cleared == [hash |-> 0, fresh |-> FALSE, recent |-> FALSE, tries |-> 0]
CodeType == [hash : 0..MaxCodes, fresh : BOOLEAN, recent : BOOLEAN, tries : 0..MaxTries]
UserType == [id : 1..MaxUsers, guest : BOOLEAN, verified : BOOLEAN, phone : BOOLEAN,
             password : Passwords \cup {None}, pending : Passwords \cup {None},
             google : {"none", "google", "phone"}, code : [Kinds -> CodeType]]
NewUser == [id |-> users + 1, guest |-> FALSE, verified |-> TRUE, phone |-> FALSE,
            password |-> None, pending |-> None, google |-> "none",
            code |-> [k \in Kinds |-> Cleared]]
Idle == [op |-> "idle"]
Called(c, way) == work[c] = Idle /\ way \in Ways
Exists(id) == user # NoUser /\ user.id = id
isEmailPasswordUser(u) == u.password # None /\ u.google = "none"
Completing(u) == u.guest /\ u.pending # None

Init ==
  /\ user = NoUser /\ users = 0
  /\ issued = <<>> /\ delivered = {} /\ tokens = {}
  /\ challenge = [id |-> 0, tries |-> 0, fresh |-> FALSE, recent |-> FALSE, consumed |-> TRUE]
  /\ mailed = {} /\ session = {}
  /\ opened = [i \in 1..MaxChallenges |-> 0] /\ wrong = [i \in 1..MaxChallenges |-> 0]
  /\ proved = {} /\ completed = {}
  /\ work = [c \in Calls |-> Idle]

Becomes(c, w) == work' = [work EXCEPT ![c] = w]
Login(c, id) == Becomes(c, [op |-> "login", id |-> id])
Issue(c, k, id, pending, rollback) ==
  Becomes(c, [op |-> "issue", kind |-> k, id |-> id, pending |-> pending, rollback |-> rollback])

-----------------------------------------------------------------------------
(* Codes: drawn, stored over whatever is there, mailed, and cleared when the *)
(* mail fails; a signup whose mail fails deletes the row it created.         *)
IssueWrite(c) ==
  LET w == work[c]
      n == Len(issued) + 1
      pending == IF w.pending # None THEN w.pending ELSE user.pending IN
  /\ w.op = "issue" /\ Exists(w.id) /\ n <= MaxCodes
  /\ user' = [user EXCEPT !.pending = pending, !.code[w.kind] =
                [hash |-> n, fresh |-> TRUE, recent |-> TRUE, tries |-> 0]]
  /\ issued' = Append(issued, [kind |-> w.kind, password |-> pending])
  /\ Becomes(c, [op |-> "mail", kind |-> w.kind, id |-> w.id, hash |-> n, rollback |-> w.rollback])
  /\ UNCHANGED <<users, delivered, tokens, completed, proved, webVars>>

MailSent(c) ==
  /\ work[c].op = "mail"
  /\ delivered' = delivered \cup {work[c].hash}
  /\ Becomes(c, Idle)
  /\ UNCHANGED <<user, users, issued, tokens, completed, proved, webVars>>

MailFailed(c) ==
  LET w == work[c] IN
  /\ w.op = "mail"
  /\ user' = IF Exists(w.id) THEN [user EXCEPT !.code[w.kind] = Cleared] ELSE user
  /\ Becomes(c, IF w.rollback THEN [op |-> "rollback", id |-> w.id] ELSE Idle)
  /\ UNCHANGED <<users, issued, delivered, tokens, completed, proved, webVars>>

(* A row that already has a refresh token cannot be deleted.                 *)
Rollback(c) ==
  LET w == work[c]
      goes == Exists(w.id) /\ w.id \notin tokens IN
  /\ w.op = "rollback"
  /\ user' = IF goes THEN NoUser ELSE user
  /\ session' = IF goes THEN {s \in session : s.user # w.id} ELSE session
  /\ Becomes(c, Idle)
  /\ UNCHANGED <<users, issued, delivered, tokens, completed, proved,
                 challenge, mailed, opened, wrong>>

-----------------------------------------------------------------------------
(* A password for a new address, or for a guest's, whose owner must read a   *)
(* code first whether or not verification is required.                       *)
SignupRead(c, p) ==
  /\ Called(c, "password")
  /\ \/ user = NoUser /\ Becomes(c, [op |-> "signup", password |-> p])
     \/ /\ user # NoUser /\ user.guest /\ user.password = None /\ user.google = "none"
        /\ ~ user.code["email"].recent
        /\ Issue(c, "email", user.id, p, FALSE)
  /\ UNCHANGED <<appVars, webVars, proved>>

SignupCreate(c) ==
  /\ work[c].op = "signup" /\ user = NoUser /\ users < MaxUsers
  /\ user' = [NewUser EXCEPT !.password = work[c].password, !.verified = ~ Required]
  /\ users' = users + 1
  /\ IF Required THEN Issue(c, "email", users + 1, None, TRUE) ELSE Login(c, users + 1)
  /\ UNCHANGED <<issued, delivered, tokens, completed, proved, webVars>>

(* What a code given for a row comes to, decided on the row that was read.   *)
Judge(code, k) ==
  IF code.hash = 0 \/ ~ code.fresh THEN "clear"
  ELSE IF code.hash = k THEN "done"
  ELSE IF code.tries + 1 >= MaxTries THEN "clear" ELSE "count"
Guess(k) == k = 0 \/ k \in delivered

VerifyRead(c, k) ==
  /\ Called(c, "password") /\ Guess(k)
  /\ user # NoUser /\ (isEmailPasswordUser(user) \/ Completing(user))
  /\ ~ user.verified \/ Completing(user)
  /\ Becomes(c, [op |-> "verify", id |-> user.id, outcome |-> Judge(user.code["email"], k),
                 tries |-> user.code["email"].tries + 1, code |-> k,
                 completing |-> Completing(user), pending |-> user.pending])
  /\ UNCHANGED <<appVars, webVars, proved>>

(* The password a completed guest gets: the one read with the code.          *)
(* Wrong: whatever is pending when the row is written.                       *)
LatestPending(w) == user.pending
PasswordToSet(w) == w.pending
VerifyWrite(c) ==
  LET w == work[c] IN
  /\ w.op = "verify" /\ Exists(w.id)
  /\ \/ /\ w.outcome = "clear"
        /\ user' = [user EXCEPT !.code["email"] = Cleared]
        /\ Becomes(c, Idle) /\ UNCHANGED <<completed, proved>>
     \/ /\ w.outcome = "count"
        /\ user' = [user EXCEPT !.code["email"].tries = w.tries]
        /\ Becomes(c, Idle) /\ UNCHANGED <<completed, proved>>
     \/ /\ w.outcome = "done"
        /\ LET u == [user EXCEPT !.code["email"] = Cleared, !.verified = TRUE] IN
           user' = IF w.completing
                     THEN [u EXCEPT !.password = PasswordToSet(w), !.pending = None, !.guest = FALSE]
                     ELSE u
        /\ completed' = IF w.completing
             THEN completed \cup {[code |-> w.code, password |-> user'.password]} ELSE completed
        /\ proved' = proved \cup {w.id}
        /\ Login(c, w.id)
  /\ UNCHANGED <<users, issued, delivered, tokens, webVars>>

ResendRead(c) ==
  /\ Called(c, "password") /\ user # NoUser
  /\ isEmailPasswordUser(user) \/ Completing(user)
  /\ \/ /\ ~ Required /\ ~ Completing(user)
        /\ user' = [user EXCEPT !.code["email"] = Cleared, !.verified = TRUE]
        /\ UNCHANGED work
     \/ /\ Required \/ Completing(user)
        /\ ~ user.verified \/ Completing(user)
        /\ ~ user.code["email"].recent
        /\ Issue(c, "email", user.id, None, FALSE) /\ UNCHANGED user
  /\ UNCHANGED <<users, issued, delivered, tokens, completed, proved, webVars>>

(* Signing in with a password; an unverified account is sent another code    *)
(* unless it has one or was sent one a moment ago.  (Where verification is   *)
(* not required it is verified instead; but there every account with a       *)
(* password was created verified, or is a guest's whose code was read.)      *)
LoginRead(c, p) ==
  LET code == user.code["email"] IN
  /\ Called(c, "password") /\ user # NoUser /\ user.password = p
  /\ \/ (user.verified \/ ~ isEmailPasswordUser(user)) /\ Login(c, user.id)
     \/ /\ ~ user.verified /\ isEmailPasswordUser(user) /\ Required
        /\ ~ (code.hash # 0 /\ code.fresh) /\ ~ code.recent
        /\ Issue(c, "email", user.id, None, FALSE)
  /\ UNCHANGED <<appVars, webVars, proved>>

TokenCreate(c) ==
  /\ work[c].op = "login" /\ Exists(work[c].id)
  /\ tokens' = tokens \cup {work[c].id}
  /\ Becomes(c, Idle)
  /\ UNCHANGED <<user, users, issued, delivered, completed, proved, webVars>>

-----------------------------------------------------------------------------
(* A forgotten password.                                                     *)
ForgotRead(c) ==
  /\ Called(c, "reset") /\ user # NoUser /\ isEmailPasswordUser(user)
  /\ ~ user.code["reset"].recent
  /\ Issue(c, "reset", user.id, None, FALSE)
  /\ UNCHANGED <<appVars, webVars, proved>>

ResetRead(c, k, p) ==
  /\ Called(c, "reset") /\ Guess(k)
  /\ user # NoUser /\ isEmailPasswordUser(user)
  /\ Becomes(c, [op |-> "reset", id |-> user.id, outcome |-> Judge(user.code["reset"], k),
                 tries |-> user.code["reset"].tries + 1, password |-> p])
  /\ UNCHANGED <<appVars, webVars, proved>>

ResetWrite(c) ==
  LET w == work[c] IN
  /\ w.op = "reset" /\ Exists(w.id)
  /\ user' = CASE w.outcome = "clear" -> [user EXCEPT !.code["reset"] = Cleared]
               [] w.outcome = "count" -> [user EXCEPT !.code["reset"].tries = w.tries]
               [] w.outcome = "done" -> [user EXCEPT !.code["reset"] = Cleared, !.password = w.password]
  /\ Becomes(c, Idle)
  /\ UNCHANGED <<users, issued, delivered, tokens, completed, proved, webVars>>

-----------------------------------------------------------------------------
(* Google and phone: an account is created, found, or (Google) taken over    *)
(* from a password or a guest.                                               *)
GoogleRead(c) ==
  /\ Called(c, "google")
  /\ user # NoUser => user.google \in {"none", "google"}
  /\ Becomes(c, [op |-> "google", id |-> user.id, linked |-> user # NoUser /\ user.google = "google"])
  /\ UNCHANGED <<appVars, webVars, proved>>

GoogleWrite(c) ==
  LET w == work[c] IN
  /\ w.op = "google"
  /\ \/ /\ w.id = None /\ user = NoUser /\ users < MaxUsers
        /\ user' = [NewUser EXCEPT !.google = "google"]
        /\ users' = users + 1
     \/ /\ w.id # None /\ w.linked /\ Exists(w.id)
        /\ user' = [user EXCEPT !.verified = TRUE]
        /\ UNCHANGED users
     \/ /\ w.id # None /\ ~ w.linked /\ user # NoUser    \* by the address, not the id
        /\ user' = [user EXCEPT !.google = "google", !.guest = FALSE, !.pending = None,
                               !.password = None, !.verified = TRUE]
        /\ UNCHANGED users
  /\ proved' = proved \cup {user'.id}
  /\ Login(c, user'.id)
  /\ UNCHANGED <<issued, delivered, tokens, completed, webVars>>

PhoneRead(c) ==
  /\ Called(c, "phone") /\ (user # NoUser => user.phone)
  /\ Becomes(c, [op |-> "phone", id |-> user.id])
  /\ UNCHANGED <<appVars, webVars, proved>>

PhoneWrite(c) ==
  LET w == work[c] IN
  /\ w.op = "phone"
  /\ \/ /\ w.id = None /\ user = NoUser /\ users < MaxUsers
        /\ user' = [NewUser EXCEPT !.google = "phone", !.phone = TRUE]
        /\ users' = users + 1
     \/ /\ w.id # None /\ Exists(w.id)
        /\ user' = IF user.verified THEN user
                     ELSE [user EXCEPT !.code["email"] = Cleared, !.verified = TRUE]
        /\ UNCHANGED users
  /\ proved' = proved \cup {user'.id}
  /\ Login(c, user'.id)
  /\ UNCHANGED <<issued, delivered, tokens, completed, webVars>>

SetPhone ==
  /\ "phone" \in Ways /\ user # NoUser /\ ~ user.phone /\ user' = [user EXCEPT !.phone = TRUE]
  /\ UNCHANGED <<users, issued, delivered, tokens, completed, proved, webVars, work>>

-----------------------------------------------------------------------------
(* The web: one challenge per address, replaced under an advisory lock and   *)
(* checked under its row's lock.                                             *)
(* Wrong: the row is read without FOR UPDATE.                                *)
NobodyHolds == TRUE
RowIsFree == \A c \in Calls : work[c].op # "webverify"

requestCode(c) ==
  /\ work[c] = Idle /\ RowIsFree /\ ~ challenge.recent /\ challenge.id < MaxChallenges
  /\ challenge' = [id |-> challenge.id + 1, tries |-> 0, fresh |-> TRUE, recent |-> TRUE,
                   consumed |-> FALSE]
  /\ Becomes(c, [op |-> "webmail", challenge |-> challenge.id + 1])
  /\ UNCHANGED <<mailed, session, opened, wrong, proved, appVars>>

WebMailSent(c) ==
  /\ work[c].op = "webmail"
  /\ mailed' = mailed \cup {work[c].challenge}
  /\ Becomes(c, Idle)
  /\ UNCHANGED <<challenge, session, opened, wrong, proved, appVars>>

WebMailFailed(c) ==
  /\ work[c].op = "webmail" /\ RowIsFree
  /\ challenge' = [challenge EXCEPT !.consumed = @ \/ challenge.id = work[c].challenge]
  /\ Becomes(c, Idle)
  /\ UNCHANGED <<mailed, session, opened, wrong, proved, appVars>>

WebVerifyRead(c, i, right) ==
  /\ work[c] = Idle /\ RowIsFree /\ challenge.id = i
  /\ ~ challenge.consumed /\ challenge.fresh /\ challenge.tries < WebTries
  /\ right => i \in mailed
  /\ Becomes(c, [op |-> "webverify", challenge |-> i, right |-> right])
  /\ UNCHANGED <<webVars, proved, appVars>>

WebVerifyCommit(c) ==
  LET w == work[c] IN
  /\ w.op = "webverify" /\ challenge.id = w.challenge
  /\ \/ /\ ~ w.right
        /\ challenge' = [challenge EXCEPT !.tries = @ + 1]
        /\ wrong' = [wrong EXCEPT ![w.challenge] = @ + 1]
        /\ UNCHANGED <<user, users, session, opened, proved>>
     \/ /\ w.right
        /\ challenge' = [challenge EXCEPT !.consumed = TRUE]
        /\ \/ user # NoUser /\ UNCHANGED <<user, users, proved>>
           \/ /\ user = NoUser /\ users < MaxUsers
              /\ user' = [NewUser EXCEPT !.guest = TRUE]
              /\ users' = users + 1 /\ proved' = proved \cup {users + 1}
        /\ session' = session \cup {[challenge |-> w.challenge, user |-> user'.id]}
        /\ opened' = [opened EXCEPT ![w.challenge] = @ + 1]
        /\ UNCHANGED wrong
  /\ Becomes(c, Idle)
  /\ UNCHANGED <<issued, delivered, tokens, completed, mailed>>

revoke(s) ==
  /\ s \in session /\ session' = session \ {s}
  /\ UNCHANGED <<challenge, mailed, opened, wrong, proved, appVars, work>>

-----------------------------------------------------------------------------
(* Time, and a request that goes no further: a statement fails, a row is     *)
(* gone, an address is taken, or the server stops.                           *)
Cool(k) ==
  /\ user # NoUser /\ user.code[k].recent /\ user' = [user EXCEPT !.code[k].recent = FALSE]
  /\ UNCHANGED <<users, issued, delivered, tokens, completed, proved, webVars, work>>
Expire(k) ==
  /\ user # NoUser /\ user.code[k].fresh /\ user' = [user EXCEPT !.code[k].fresh = FALSE]
  /\ UNCHANGED <<users, issued, delivered, tokens, completed, proved, webVars, work>>
WebCool ==
  /\ challenge.recent /\ challenge' = [challenge EXCEPT !.recent = FALSE]
  /\ UNCHANGED <<mailed, session, opened, wrong, proved, appVars, work>>
WebExpire ==
  /\ challenge.fresh /\ challenge' = [challenge EXCEPT !.fresh = FALSE]
  /\ UNCHANGED <<mailed, session, opened, wrong, proved, appVars, work>>
Abandon(c) ==
  /\ work[c] # Idle /\ Becomes(c, Idle)
  /\ UNCHANGED <<appVars, webVars, proved>>

Next ==
  \/ \E c \in Calls, p \in Passwords : SignupRead(c, p) \/ LoginRead(c, p)
  \/ \E c \in Calls, k \in 0..MaxCodes : VerifyRead(c, k)
  \/ \E c \in Calls, k \in 0..MaxCodes, p \in Passwords : ResetRead(c, k, p)
  \/ \E c \in Calls : \/ IssueWrite(c) \/ MailSent(c) \/ MailFailed(c) \/ Rollback(c)
                      \/ SignupCreate(c) \/ VerifyWrite(c) \/ ResendRead(c) \/ TokenCreate(c)
                      \/ ForgotRead(c) \/ ResetWrite(c) \/ GoogleRead(c) \/ GoogleWrite(c)
                      \/ PhoneRead(c) \/ PhoneWrite(c) \/ Abandon(c)
  \/ \E c \in Calls : requestCode(c) \/ WebMailSent(c) \/ WebMailFailed(c) \/ WebVerifyCommit(c)
  \/ \E c \in Calls, i \in 1..MaxChallenges, right \in BOOLEAN : WebVerifyRead(c, i, right)
  \/ \E s \in session : revoke(s)
  \/ \E k \in Kinds : Cool(k) \/ Expire(k)
  \/ SetPhone \/ WebCool \/ WebExpire

Spec == Init /\ [][Next]_vars

-----------------------------------------------------------------------------
TypeOK ==
  /\ user \in UserType \cup {NoUser} /\ users \in 0..MaxUsers
  /\ issued \in Seq([kind : Kinds, password : Passwords \cup {None}]) /\ Len(issued) <= MaxCodes
  /\ delivered \subseteq 1..Len(issued) /\ tokens \subseteq 1..users
  /\ challenge \in [id : 0..MaxChallenges, tries : 0..WebTries, fresh : BOOLEAN,
                    recent : BOOLEAN, consumed : BOOLEAN]
  /\ mailed \subseteq 1..challenge.id
  /\ session \subseteq [challenge : 1..MaxChallenges, user : 1..MaxUsers]

(* "completing password signup requires another email proof" (README.md:484):*)
(* the password a guest's account gets is the one the code that was read had *)
(* been mailed for, however signups, resends and checks overlap.             *)
GuestPasswordProved ==
  \A d \in completed : d.code \in delivered /\ issued[d.code] = [kind |-> "email", password |-> d.password]

(* Where verification is required, an account counts as verified, and signs  *)
(* in with a password, only once its owner proved the address or the phone.  *)
VerifiedWasProved ==
  Required /\ user # NoUser /\ user.verified => user.id \in proved

(* "Codes expire after 10 minutes, permit five attempts" (README.md:477):    *)
(* a challenge opens one session at most, and is compared with no more wrong *)
(* codes than it permits.                                                    *)
ChallengeOnce ==
  \A i \in 1..MaxChallenges : opened[i] <= 1 /\ wrong[i] <= WebTries

(* Passwords, addresses and web sessions belong to who proved them.            *)
SignInSafe ==
  TypeOK /\ GuestPasswordProved /\ VerifiedWasProved /\ ChallengeOnce
=============================================================================
