----------------------------- MODULE Dashboard ------------------------------
(***************************************************************************)
(* Staff accounts and their sessions: dashboard-auth.service.ts, its guard *)
(* and policy, and the bootstrap script.                                   *)
(*                                                                         *)
(* Every operation reads (a session, an account), hashes or compares a     *)
(* password, and then writes in one transaction, so it is a Read action    *)
(* that leaves what it has read in `work` and a Commit action.  A password *)
(* is its number among the account's passwords: a hash never comes back.   *)
(* The fifteen minutes of a lock are the flag `locked', which time clears. *)
(*                                                                         *)
(* A definition whose comment begins with "Wrong" is not part of the       *)
(* specification: it is the faulty variant of the one that follows it.     *)
(***************************************************************************)
EXTENDS Integers, FiniteSets

CONSTANTS
  Staff, Calls,
  None,
  MaxAttempts,  \* wrong passwords before an account is locked
  MaxPasswords, \* bound: passwords an account ever has
  MaxSessions   \* bound: sessions ever opened

VARIABLES
  account,   \* DashboardUser rows
  session,   \* DashboardSession rows, by id
  opened,    \* sessions ever opened
  tried,     \* history: wrong passwords compared since an account was last unlocked
  founded,   \* history: there has been an active admin
  work       \* the requests in flight

vars == <<account, session, opened, tried, founded, work>>

Roles == {"USER", "ADMIN"}
AccountType == [role : Roles, status : {"ACTIVE", "DISABLED"}, password : 1..MaxPasswords,
                must : BOOLEAN, attempts : 0..MaxAttempts, locked : BOOLEAN]
SessionType == [user : Staff, password : 1..MaxPasswords, role : Roles]
Idle == [op |-> "idle"]
Exists(u) == account[u] # None
Active(u) == Exists(u) /\ account[u].status = "ACTIVE"
Live(s) == session[s] # None
activeAdmins == {u \in Staff : Active(u) /\ account[u].role = "ADMIN"}
NewAccount(role) ==
  [role |-> role, status |-> "ACTIVE", password |-> 1, must |-> TRUE,
   attempts |-> 0, locked |-> FALSE]

Init ==
  /\ account = [u \in Staff |-> None]
  /\ session = [s \in 1..MaxSessions |-> None] /\ opened = 0
  /\ tried = [u \in Staff |-> 0] /\ founded = FALSE
  /\ work = [c \in Calls |-> Idle]

Becomes(c, w) == work' = [work EXCEPT ![c] = w]
SetPassword(u, must) ==
  account' = [account EXCEPT ![u].password = @ + 1, ![u].must = must, ![u].attempts = 0, ![u].locked = FALSE]
Without(ids) == [s \in DOMAIN session |-> IF s \in ids THEN None ELSE session[s]]
SessionsOf(u) == {s \in DOMAIN session : Live(s) /\ session[s].user = u}

-----------------------------------------------------------------------------
(* The bootstrap script: an admin only while no active one exists.           *)
bootstrap(u) ==
  /\ activeAdmins = {} /\ ~ Exists(u)
  /\ account' = [account EXCEPT ![u] = NewAccount("ADMIN")]
  /\ founded' = TRUE
  /\ UNCHANGED <<session, opened, tried, work>>

(* Signing in: the row is read, a password is compared with it, and the      *)
(* answer counts only if the row still is what was read.                     *)
LoginRead(c, u, right) ==
  /\ work[c] = Idle /\ Exists(u)
  /\ Becomes(c, [op |-> "login", user |-> u, right |-> right,
                 password |-> account[u].password, status |-> account[u].status])
  /\ UNCHANGED <<account, session, opened, tried, founded>>

(* Wrong: the session is opened on the row that was read.                    *)
AsRead(w) == TRUE
Unchanged(w) ==
  /\ account[w.user].password = w.password
  /\ account[w.user].status = "ACTIVE"
Claimable(w) == Unchanged(w) /\ ~ account[w.user].locked

LoginCommit(c) ==
  LET w == work[c] IN
  /\ w.op = "login" /\ w.right /\ w.status = "ACTIVE" /\ Claimable(w)
  /\ opened < MaxSessions
  /\ account' = [account EXCEPT ![w.user].attempts = 0, ![w.user].locked = FALSE]
  /\ session' = [session EXCEPT ![opened + 1] =
       [user |-> w.user, password |-> w.password, role |-> account[w.user].role]]
  /\ opened' = opened + 1 /\ tried' = [tried EXCEPT ![w.user] = 0]
  /\ Becomes(c, Idle)
  /\ UNCHANGED founded

LoginRefused(c) ==
  LET w == work[c]
      counted == ~ w.right /\ w.status = "ACTIVE" /\ Claimable(w)
      attempts == IF account[w.user].attempts < MaxAttempts
                    THEN account[w.user].attempts + 1 ELSE MaxAttempts IN
  /\ w.op = "login" /\ ~ (w.right /\ w.status = "ACTIVE" /\ Claimable(w))
  /\ IF counted
       THEN /\ account' = [account EXCEPT ![w.user].attempts = attempts,
                                          ![w.user].locked = attempts >= MaxAttempts]
            /\ tried' = [tried EXCEPT ![w.user] = @ + 1]
       ELSE UNCHANGED <<account, tried>>
  /\ Becomes(c, Idle)
  /\ UNCHANGED <<session, opened, founded>>

-----------------------------------------------------------------------------
(* The guard: a live session of an active account; what the account was then *)
(* is the actor the handler goes on with.                                    *)
authenticate(s) == Live(s) /\ account[session[s].user].status = "ACTIVE"
IsAdmin(u) == ~ account[u].must /\ account[u].role = "ADMIN"

logout(s) ==
  /\ Live(s) /\ authenticate(s)
  /\ session' = Without({s})
  /\ UNCHANGED <<account, opened, tried, founded, work>>

SessionExpires(s) ==
  /\ Live(s) /\ session' = Without({s})
  /\ UNCHANGED <<account, opened, tried, founded, work>>

ChangeRead(c, s) ==
  /\ work[c] = Idle /\ Live(s) /\ authenticate(s)
  /\ Becomes(c, [op |-> "change", session |-> s, user |-> session[s].user,
                 password |-> account[session[s].user].password])
  /\ UNCHANGED <<account, session, opened, tried, founded>>

ChangeCommit(c) ==
  LET w == work[c] IN
  /\ w.op = "change" /\ Unchanged(w) /\ w.password < MaxPasswords
  /\ SetPassword(w.user, FALSE)
  /\ session' = [s \in DOMAIN session |->
       IF s \in SessionsOf(w.user)
         THEN IF s = w.session THEN [session[s] EXCEPT !.password = w.password + 1] ELSE None
         ELSE session[s]]
  /\ tried' = [tried EXCEPT ![w.user] = 0]
  /\ Becomes(c, Idle)
  /\ UNCHANGED <<opened, founded>>

(* Managing accounts, by an admin whose role was read with the session.  A   *)
(* field that is left out (None) keeps its value.                            *)
Managing(c, s) == work[c] = Idle /\ Live(s) /\ authenticate(s) /\ IsAdmin(session[s].user)

CreateRead(c, s, u, role) ==
  /\ Managing(c, s) /\ ~ Exists(u)
  /\ Becomes(c, [op |-> "create", user |-> u, role |-> role])
  /\ UNCHANGED <<account, session, opened, tried, founded>>

UpdateRead(c, s, u, role, status) ==
  /\ Managing(c, s) /\ Exists(u)
  /\ session[s].user = u => role \in {None, account[u].role} /\ status \in {None, "ACTIVE"}
  /\ Becomes(c, [op |-> "update", user |-> u, role |-> role, status |-> status])
  /\ UNCHANGED <<account, session, opened, tried, founded>>

ResetRead(c, s, u) ==
  /\ Managing(c, s) /\ Exists(u) /\ session[s].user # u
  /\ Becomes(c, [op |-> "reset", user |-> u])
  /\ UNCHANGED <<account, session, opened, tried, founded>>

CreateCommit(c) ==
  LET w == work[c] IN
  /\ w.op = "create" /\ ~ Exists(w.user)
  /\ account' = [account EXCEPT ![w.user] = NewAccount(w.role)]
  /\ Becomes(c, Idle)
  /\ UNCHANGED <<session, opened, tried, founded>>

(* Wrong: the admins are not counted in the transaction.                     *)
NoCount(w) == TRUE
LeavesAdmin(w) ==
  w.user \in activeAdmins /\ (w.role = "USER" \/ w.status = "DISABLED") => Cardinality(activeAdmins) > 1
(* Wrong: sessions go only when the account is disabled.                     *)
OnlyDisabled(w) == w.status = "DISABLED"
Revokes(w) ==
  w.role \notin {None, account[w.user].role} \/ w.status \notin {None, account[w.user].status}
Field(new, old) == IF new = None THEN old ELSE new

UpdateCommit(c) ==
  LET w == work[c] IN
  /\ w.op = "update" /\ LeavesAdmin(w)
  /\ account' = [account EXCEPT ![w.user].role = Field(w.role, @),
                                     ![w.user].status = Field(w.status, @)]
  /\ session' = IF Revokes(w) THEN Without(SessionsOf(w.user)) ELSE session
  /\ Becomes(c, Idle)
  /\ UNCHANGED <<opened, tried, founded>>

ResetCommit(c) ==
  LET w == work[c] IN
  /\ w.op = "reset" /\ account[w.user].password < MaxPasswords
  /\ SetPassword(w.user, TRUE)
  /\ session' = Without(SessionsOf(w.user))
  /\ tried' = [tried EXCEPT ![w.user] = 0]
  /\ Becomes(c, Idle)
  /\ UNCHANGED <<opened, founded>>

(* The lock runs out, with the attempts still counted; a request stops.      *)
Unlock(u) ==
  /\ Exists(u) /\ account[u].locked
  /\ account' = [account EXCEPT ![u].locked = FALSE]
  /\ tried' = [tried EXCEPT ![u] = 0]
  /\ UNCHANGED <<session, opened, founded, work>>
Abandon(c) ==
  /\ work[c] # Idle /\ Becomes(c, Idle)
  /\ UNCHANGED <<account, session, opened, tried, founded>>

Next ==
  \/ \E u \in Staff : bootstrap(u) \/ Unlock(u)
  \/ \E c \in Calls, u \in Staff, right \in BOOLEAN : LoginRead(c, u, right)
  \/ \E c \in Calls : \/ LoginCommit(c) \/ LoginRefused(c) \/ ChangeCommit(c) \/ CreateCommit(c)
                      \/ UpdateCommit(c) \/ ResetCommit(c) \/ Abandon(c)
  \/ \E s \in 1..MaxSessions : logout(s) \/ SessionExpires(s)
  \/ \E c \in Calls, s \in 1..MaxSessions : ChangeRead(c, s)
  \/ \E c \in Calls, s \in 1..MaxSessions, u \in Staff :
       \/ ResetRead(c, s, u)
       \/ \E role \in Roles : CreateRead(c, s, u, role)
       \/ \E role \in Roles \cup {None}, status \in {"ACTIVE", "DISABLED", None} :
            UpdateRead(c, s, u, role, status)

Spec == Init /\ [][Next]_vars

-----------------------------------------------------------------------------
TypeOK ==
  /\ account \in [Staff -> AccountType \cup {None}]
  /\ session \in [1..MaxSessions -> SessionType \cup {None}]
  /\ opened \in 0..MaxSessions
  /\ founded \in BOOLEAN

(* "Disabling an account, changing its role or resetting its password revokes*)
(* every session" (docs/dashboard-auth.md): a session's account is active,   *)
(* with the role it signed in with and the password that opened or last kept *)
(* the session, even when the sign-in and the change overlap.                *)
SessionsAreCurrent ==
  \A s \in 1..MaxSessions : Live(s) =>
    /\ account[session[s].user].status = "ACTIVE"
    /\ account[session[s].user].password = session[s].password
    /\ account[session[s].user].role = session[s].role

(* "A serializable transaction protects the last active admin"               *)
(* (docs/dashboard-auth.md): two admins who demote each other at once cannot *)
(* leave the dashboard without one.                                          *)
AdminRemains == founded => activeAdmins # {}

(* "a persisted 15-minute lock after five failed attempts"                   *)
(* (docs/dashboard-auth.md): no more wrong passwords than that are counted   *)
(* between two unlockings, whatever requests overlap.                        *)
GuessesAreBounded == \A u \in Staff : tried[u] <= MaxAttempts

(* Sessions are current, there is an administrator, and guesses are bounded.   *)
SignInSafe == TypeOK /\ SessionsAreCurrent /\ AdminRemains /\ GuessesAreBounded
=============================================================================
