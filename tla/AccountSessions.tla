-------------------------- MODULE AccountSessions ---------------------------
(***************************************************************************)
(* Password sign-in, sessions and e-mailed challenges of the account       *)
(* module (internal/modules/account) over the tables users, accounts,      *)
(* user_sessions and auth_verifications.                                   *)
(*                                                                         *)
(* A handler first reads rows with statements of their own and verifies or *)
(* computes a password hash, which is slow; each read is a step, and other *)
(* requests run in between.  It then runs one transaction that takes the   *)
(* user's row lock (LockUser, or the row lock of its first UPDATE) before  *)
(* it checks and writes.  Every writer of a user's rows holds that lock,   *)
(* so such a transaction is one step, and it re-checks what was read       *)
(* before.  The database runs at READ COMMITTED: nothing but those checks  *)
(* protects a handler from what committed since its reads.                 *)
(*                                                                         *)
(* Passwords are abstract: a hash is the password it was made from and     *)
(* whether its parameters are weaker than the reader's.  Time is abstract: *)
(* a session or a challenge may expire at any moment.  Mail, audit rows    *)
(* and rate limits are written in the same transactions and left out.      *)
(***************************************************************************)
EXTENDS Naturals

CONSTANTS
    Users,       \* identities of user rows
    Emails,      \* normalised addresses
    Accounts,    \* identities of account rows
    Sessions,    \* identities of session rows
    Challenges,  \* identities of verification rows
    Passwords,   \* passwords people may choose
    Requests,    \* requests in progress at the same time
    MaxVersion,  \* bound on auth_version
    NoOne        \* the value of a column that is not set

ASSUME AccountConstants ==
    /\ MaxVersion \in Nat \ {0}
    /\ NoOne \notin Users \union Emails \union Accounts \union Sessions
                     \union Challenges \union Passwords

VARIABLES
    users,       \* table users
    accounts,    \* table accounts
    sessions,    \* table user_sessions
    challenges,  \* table auth_verifications
    pc,          \* the next statement or transaction of each request
    job          \* the local variables of each request

vars == <<users, accounts, sessions, challenges, pc, job>>

----------------------------------------------------------------------------
\* Rows

UserStatus == {"absent", "pending", "active", "disabled"}

UserRow ==
  [status : UserStatus, email : Emails \union {NoOne},
   verified : BOOLEAN,  \* email_verified_at and recovery_enabled, set together
   version : Nat]

AccountRow ==
  [state : {"absent", "enabled", "revoked"}, owner : Users \union {NoOne},
   version : Nat, password : Passwords \union {NoOne}, weak : BOOLEAN]

\* password is history: what the holder of the session presented at login.
SessionRow ==
  [state : {"absent", "live", "ended"}, owner : Users \union {NoOne},
   source : Accounts \union {NoOne}, version : Nat,
   password : Passwords \union {NoOne}]

ChallengeRow ==
  [state : {"absent", "open", "spent"}, owner : Users \union {NoOne},
   purpose : {"register", "reset_password", "none"},
   email : Emails \union {NoOne}, version : Nat]

\* What a request remembers of the rows it has read.
Job ==
  [user : Users \union {NoOne}, version : Nat,
   account : Accounts \union {NoOne}, accountVersion : Nat,
   password : Passwords \union {NoOne}, weak : BOOLEAN,
   session : Sessions \union {NoOne}, challenge : Challenges \union {NoOne},
   email : Emails \union {NoOne}]

PC == {"idle", "loginFound", "loginVerified", "forgotFound", "verifyFound",
       "authenticated", "passwordUser", "passwordSelf", "passwordVerified"}

NoUser      == [status |-> "absent", email |-> NoOne, verified |-> FALSE, version |-> 0]
NoAccount   == [state |-> "absent", owner |-> NoOne, version |-> 0,
                password |-> NoOne, weak |-> FALSE]
NoSession   == [state |-> "absent", owner |-> NoOne, source |-> NoOne,
                version |-> 0, password |-> NoOne]
NoChallenge == [state |-> "absent", owner |-> NoOne, purpose |-> "none",
                email |-> NoOne, version |-> 0]
NoJob       == [user |-> NoOne, version |-> 0, account |-> NoOne, accountVersion |-> 0,
                password |-> NoOne, weak |-> FALSE, session |-> NoOne,
                challenge |-> NoOne, email |-> NoOne]

Init ==
  /\ users      = [u \in Users |-> NoUser]
  /\ accounts   = [a \in Accounts |-> NoAccount]
  /\ sessions   = [s \in Sessions |-> NoSession]
  /\ challenges = [c \in Challenges |-> NoChallenge]
  /\ pc         = [r \in Requests |-> "idle"]
  /\ job        = [r \in Requests |-> NoJob]

----------------------------------------------------------------------------
\* Queries

\* FindUserByEmail
HasEmail(u, e) == users[u].status # "absent" /\ users[u].email = e

\* GetPasswordAccount: the unrevoked credential account of u
IsPasswordAccount(a, u) == accounts[a].state = "enabled" /\ accounts[a].owner = u

\* GetValidSession and FindSession: one snapshot of the session and its user
ValidSession(s) ==
  /\ sessions[s].state = "live"
  /\ \E u \in Users : /\ sessions[s].owner = u
                      /\ users[u].status = "active"
                      /\ users[u].version = sessions[s].version

\* FindVerification: neither consumed nor expired
OpenChallenge(c) == challenges[c].state = "open"

----------------------------------------------------------------------------
\* Statements that write.  Each is the table as the statement leaves it.

\* BumpUserVersion is the first half of invalidate.
Bumped(u) == [users EXCEPT ![u].version = @ + 1]

\* Faulty variant: the statement lost its WHERE user_id.
RevokedEveryone(u) == [s \in Sessions |-> IF sessions[s].state = "live"
                         THEN [sessions[s] EXCEPT !.state = "ended"] ELSE sessions[s]]

\* RevokeUserSessions
Revoked(u) ==
  [s \in Sessions |-> IF sessions[s].owner = u
                        THEN [sessions[s] EXCEPT !.state = "ended"] ELSE sessions[s]]

\* Faulty variant: sessions are revoked while the version stays.
InvalidateSessionsOnly(u) == UNCHANGED users /\ sessions' = Revoked(u)

\* invalidate: every session and every outstanding proof of u is void.
Invalidate(u) ==
  /\ users[u].version < MaxVersion
  /\ users' = Bumped(u)
  /\ sessions' = Revoked(u)

\* CreateVerification with an identity nothing has used yet
CreateChallenge(u, purpose, e, version) ==
  \E c \in Challenges :
    /\ challenges[c].state = "absent"
    /\ challenges' = [challenges EXCEPT ![c] =
                        [state |-> "open", owner |-> u, purpose |-> purpose,
                         email |-> e, version |-> version]]

\* ChangePassword: the version of the account tells the old hash is gone.
ChangedPassword(a, p, weak) ==
  [accounts EXCEPT ![a] = [@ EXCEPT !.password = p, !.weak = weak,
                                    !.version = accounts[a].version + 1]]

\* The request ends; its local variables are gone.
Done(r) ==
  /\ pc' = [pc EXCEPT ![r] = "idle"]
  /\ job' = [job EXCEPT ![r] = NoJob]

Goto(r, label, j) ==
  /\ pc' = [pc EXCEPT ![r] = label]
  /\ job' = [job EXCEPT ![r] = j]

\* A rejected credential, a failed statement, a cancelled context or a failed
\* commit: the transaction rolls back and the handler returns its error.
Fail(r) ==
  /\ pc[r] # "idle"
  /\ Done(r)
  /\ UNCHANGED <<users, accounts, sessions, challenges>>

----------------------------------------------------------------------------
\* Registration and recovery

\* Register is one transaction.  CreatePendingUser inserts the user, or locks
\* and returns the one that has the address already; a user who is past
\* registration gets no challenge, and the answer is the same.
RegisterNew(u, e) ==
  /\ users[u].status = "absent"
  /\ \A v \in Users : ~HasEmail(v, e)
  /\ users' = [users EXCEPT ![u] = [status |-> "pending", email |-> e,
                                    verified |-> FALSE, version |-> 1]]
  /\ CreateChallenge(u, "register", e, 1)
  /\ UNCHANGED <<accounts, sessions, pc, job>>

RegisterAgain(u, e) ==
  /\ HasEmail(u, e)
  /\ users[u].status = "pending"
  /\ CreateChallenge(u, "register", e, users[u].version)
  /\ UNCHANGED <<users, accounts, sessions, pc, job>>

\* ForgotPassword reads the user without a lock: address and version come from
\* that one read and may be stale when the challenge is inserted.
ForgotFindUser(r, u) ==
  /\ pc[r] = "idle"
  /\ users[u].status = "active" /\ users[u].verified
  /\ Goto(r, "forgotFound", [NoJob EXCEPT !.user = u, !.version = users[u].version,
                                          !.email = users[u].email])
  /\ UNCHANGED <<users, accounts, sessions, challenges>>

\* GetPasswordAccount, then the insert
ForgotCreate(r) ==
  /\ pc[r] = "forgotFound"
  /\ \E a \in Accounts : IsPasswordAccount(a, job[r].user)
  /\ CreateChallenge(job[r].user, "reset_password", job[r].email, job[r].version)
  /\ Done(r)
  /\ UNCHANGED <<users, accounts, sessions>>

\* VerifyChallenge up to its transaction: the row is found, then the new
\* password is hashed.  A row's other columns never change.
VerifyFind(r, c) ==
  /\ pc[r] = "idle"
  /\ OpenChallenge(c)
  /\ Goto(r, "verifyFound", [NoJob EXCEPT !.challenge = c])
  /\ UNCHANGED <<users, accounts, sessions, challenges>>

\* Faulty variant: the version read by FindVerification is trusted.
ChallengeAnyVersion(c) == users[challenges[c].owner].status # "disabled"

\* What VerifyChallenge checks under LockUser before it dispatches
ChallengeCurrent(c) ==
  /\ users[challenges[c].owner].version = challenges[c].version
  /\ users[challenges[c].owner].status # "disabled"

\* What completeRegistration and completePasswordReset check on the locked row
ChallengeAllowed(c) ==
  LET u == challenges[c].owner IN
  /\ users[u].email = challenges[c].email
  /\ \/ challenges[c].purpose = "register" /\ users[u].status = "pending"
     \/ /\ challenges[c].purpose = "reset_password"
        /\ users[u].status = "active" /\ users[u].verified

\* consumeVerification: the conditional update must hit one row.
Consume(c) ==
  /\ OpenChallenge(c)
  /\ challenges' = [challenges EXCEPT ![c].state = "spent"]

\* Faulty variant: the account is created and the user stays pending.
VerifyRegisterPending(r) ==
  LET c == job[r].challenge
      u == challenges[c].owner
  IN /\ pc[r] = "verifyFound"
     /\ challenges[c].purpose = "register"
     /\ ChallengeCurrent(c) /\ ChallengeAllowed(c)
     /\ \E a \in Accounts, p \in Passwords :
          /\ accounts[a].state = "absent"
          /\ accounts' = [accounts EXCEPT ![a] =
                            [state |-> "enabled", owner |-> u, version |-> 1,
                             password |-> p, weak |-> FALSE]]
     /\ Consume(c)
     /\ Done(r)
     /\ UNCHANGED <<users, sessions>>

\* completeRegistration: CreateAccount, ActivateUser
VerifyRegister(r) ==
  LET c == job[r].challenge
      u == challenges[c].owner
  IN /\ pc[r] = "verifyFound"
     /\ challenges[c].purpose = "register"
     /\ ChallengeCurrent(c) /\ ChallengeAllowed(c)
     /\ \A a \in Accounts : ~IsPasswordAccount(a, u)   \* accounts_user_credential_key
     /\ \E a \in Accounts, p \in Passwords, weak \in BOOLEAN :
          /\ accounts[a].state = "absent"
          /\ accounts' = [accounts EXCEPT ![a] =
                            [state |-> "enabled", owner |-> u, version |-> 1,
                             password |-> p, weak |-> weak]]
     /\ users' = [users EXCEPT ![u].status = "active", ![u].verified = TRUE]
     /\ Consume(c)
     /\ Done(r)
     /\ UNCHANGED sessions

\* completePasswordReset: ChangePassword, invalidate
VerifyReset(r) ==
  LET c == job[r].challenge
      u == challenges[c].owner
  IN /\ pc[r] = "verifyFound"
     /\ challenges[c].purpose = "reset_password"
     /\ ChallengeCurrent(c) /\ ChallengeAllowed(c)
     /\ \E a \in Accounts, p \in Passwords, weak \in BOOLEAN :
          /\ IsPasswordAccount(a, u)
          /\ accounts' = ChangedPassword(a, p, weak)
     /\ Invalidate(u)
     /\ Consume(c)
     /\ Done(r)

\* expires_at passes
ExpireChallenge(c) ==
  /\ OpenChallenge(c)
  /\ challenges' = [challenges EXCEPT ![c].state = "spent"]
  /\ UNCHANGED <<users, accounts, sessions, pc, job>>

----------------------------------------------------------------------------
\* Login

\* FindUserByEmail; a user who may not sign in is rejected on this read.
LoginFindUser(r, u) ==
  /\ pc[r] = "idle"
  /\ users[u].status = "active" /\ users[u].verified
  /\ Goto(r, "loginFound", [NoJob EXCEPT !.user = u, !.version = users[u].version])
  /\ UNCHANGED <<users, accounts, sessions, challenges>>

\* GetPasswordAccount and Verify: the password presented matches the hash.
LoginVerify(r) ==
  /\ pc[r] = "loginFound"
  /\ \E a \in Accounts :
       /\ IsPasswordAccount(a, job[r].user)
       /\ Goto(r, "loginVerified",
               [job[r] EXCEPT !.account = a, !.accountVersion = accounts[a].version,
                              !.password = accounts[a].password,
                              !.weak = accounts[a].weak])
  /\ UNCHANGED <<users, accounts, sessions, challenges>>

\* Faulty variant: what was verified before the transaction is taken as current.
LoginUnchecked(j) ==
  /\ IsPasswordAccount(j.account, j.user)
  /\ users[j.user].status = "active"

\* The checks of Login's transaction under LockUser
LoginCurrent(j) ==
  /\ IsPasswordAccount(j.account, j.user)    \* GetAccount
  /\ users[j.user].version = j.version
  /\ accounts[j.account].version = j.accountVersion
  /\ users[j.user].status = "active"

\* UpgradePasswordHash writes a stronger hash of the password the request
\* presented, if the stored hash is still the one verified; the version stays.
UpgradePasswordHash(j) ==
  IF j.weak /\ accounts[j.account].password = j.password /\ accounts[j.account].weak
    THEN [accounts EXCEPT ![j.account].password = j.password, ![j.account].weak = FALSE]
    ELSE accounts

\* newSession stores the version of the locked row.
LoginCommit(r) ==
  LET j == job[r] IN
  /\ pc[r] = "loginVerified"
  /\ LoginCurrent(j)
  /\ accounts' = UpgradePasswordHash(j)
  /\ \E s \in Sessions :
       /\ sessions[s].state = "absent"
       /\ sessions' = [sessions EXCEPT ![s] =
                         [state |-> "live", owner |-> j.user, source |-> j.account,
                          version |-> users[j.user].version, password |-> j.password]]
  /\ Done(r)
  /\ UNCHANGED <<users, challenges>>

----------------------------------------------------------------------------
\* Requests of a session

\* AuthenticateSession, the middleware of every protected route.  The handler
\* runs later, with the identities of the user and the session.
AuthenticateSession(r, s) ==
  /\ pc[r] = "idle"
  /\ ValidSession(s)
  /\ Goto(r, "authenticated", [NoJob EXCEPT !.user = sessions[s].owner, !.session = s])
  /\ UNCHANGED <<users, accounts, sessions, challenges>>

\* idle_expires_at or absolute_expires_at passes
ExpireSession(s) ==
  /\ sessions[s].state = "live"
  /\ sessions' = [sessions EXCEPT ![s].state = "ended"]
  /\ UNCHANGED <<users, accounts, challenges, pc, job>>

\* RevokeSession under lockSelf: one session of the user, or all of them
RevokeOne(r, t) ==
  /\ pc[r] = "authenticated"
  /\ ValidSession(job[r].session)
  /\ sessions[t].state # "absent" /\ sessions[t].owner = job[r].user
  /\ sessions' = [sessions EXCEPT ![t].state = "ended"]
  /\ Done(r)
  /\ UNCHANGED <<users, accounts, challenges>>

RevokeAll(r) ==
  /\ pc[r] = "authenticated"
  /\ ValidSession(job[r].session)
  /\ Invalidate(job[r].user)
  /\ Done(r)
  /\ UNCHANGED <<accounts, challenges>>

\* SetPassword of a user who has a password.  readSelf: GetUser ...
PasswordReadUser(r) ==
  /\ pc[r] = "authenticated"
  /\ Goto(r, "passwordUser", [job[r] EXCEPT !.version = users[job[r].user].version])
  /\ UNCHANGED <<users, accounts, sessions, challenges>>

\* ... then GetValidSession
PasswordReadSelf(r) ==
  /\ pc[r] = "passwordUser"
  /\ ValidSession(job[r].session)
  /\ Goto(r, "passwordSelf", job[r])
  /\ UNCHANGED <<users, accounts, sessions, challenges>>

\* GetPasswordAccount and Verify of the current password
PasswordVerify(r) ==
  /\ pc[r] = "passwordSelf"
  /\ \E a \in Accounts :
       /\ IsPasswordAccount(a, job[r].user)
       /\ Goto(r, "passwordVerified",
               [job[r] EXCEPT !.account = a, !.accountVersion = accounts[a].version,
                              !.password = accounts[a].password])
  /\ UNCHANGED <<users, accounts, sessions, challenges>>

\* Faulty variant: nothing read before the transaction is compared again.
PasswordUnchecked(j) == IsPasswordAccount(j.account, j.user)

\* The checks of SetPassword's transaction under lockSelf
PasswordCurrent(j) ==
  /\ ValidSession(j.session)
  /\ users[j.user].version = j.version
  /\ IsPasswordAccount(j.account, j.user)
  /\ accounts[j.account].version = j.accountVersion

\* ChangePassword, invalidate
PasswordCommit(r) ==
  LET j == job[r] IN
  /\ pc[r] = "passwordVerified"
  /\ PasswordCurrent(j)
  /\ \E p \in Passwords, weak \in BOOLEAN : accounts' = ChangedPassword(j.account, p, weak)
  /\ Invalidate(j.user)
  /\ Done(r)
  /\ UNCHANGED challenges

----------------------------------------------------------------------------
\* Administration.  RequireAdmin is evaluated before the transaction, which
\* does not look at the operator again: the operator is not part of the guard.

\* Faulty variant: Settable is not checked and the status is stored as sent.
SetStatusUnlisted(u, status) ==
  /\ users[u].status \in {"active", "disabled"}
  /\ users' = [users EXCEPT ![u].status = "suspended", ![u].version = @ + 1]
  /\ sessions' = Revoked(u)
  /\ UNCHANGED <<accounts, challenges, pc, job>>

\* SetStatus: SetUserStatus bumps the version, then RevokeUserSessions
SetStatus(u, status) ==
  /\ users[u].status \in {"active", "disabled"}
  /\ users[u].version < MaxVersion
  /\ users' = [users EXCEPT ![u].status = status, ![u].version = @ + 1]
  /\ sessions' = Revoked(u)
  /\ UNCHANGED <<accounts, challenges, pc, job>>

\* RevokeUserSessions of a user of any status
AdminRevoke(u) ==
  /\ users[u].status # "absent"
  /\ Invalidate(u)
  /\ UNCHANGED <<accounts, challenges, pc, job>>

----------------------------------------------------------------------------
RequestStep(r) ==
  \/ \E u \in Users : ForgotFindUser(r, u) \/ LoginFindUser(r, u)
  \/ \E c \in Challenges : VerifyFind(r, c)
  \/ \E s \in Sessions : AuthenticateSession(r, s) \/ RevokeOne(r, s)
  \/ ForgotCreate(r) \/ VerifyRegister(r) \/ VerifyReset(r)
  \/ LoginVerify(r) \/ LoginCommit(r)
  \/ PasswordReadUser(r) \/ PasswordReadSelf(r) \/ PasswordVerify(r) \/ PasswordCommit(r)
  \/ RevokeAll(r)
  \/ Fail(r)

Next ==
  \/ \E r \in Requests : RequestStep(r)
  \/ \E u \in Users, e \in Emails : RegisterNew(u, e) \/ RegisterAgain(u, e)
  \/ \E u \in Users : AdminRevoke(u)
  \/ \E u \in Users, status \in {"active", "disabled"} : SetStatus(u, status)
  \/ \E s \in Sessions : ExpireSession(s)
  \/ \E c \in Challenges : ExpireChallenge(c)

Spec == Init /\ [][Next]_vars

----------------------------------------------------------------------------
\* Properties

\* What one row says of another leads to a row that exists.
References ==
  /\ \A a \in Accounts : accounts[a].owner \in Users <=> accounts[a].state # "absent"
  /\ \A s \in Sessions : /\ sessions[s].owner \in Users <=> sessions[s].state # "absent"
                         /\ sessions[s].source \in Accounts <=> sessions[s].state # "absent"
  /\ \A c \in Challenges : challenges[c].owner \in Users <=> challenges[c].state # "absent"

\* What a request has found at each place
Remembered ==
  \A r \in Requests :
    /\ pc[r] = "verifyFound" =>
         job[r].challenge \in Challenges /\ challenges[job[r].challenge].state # "absent"
    /\ pc[r] \notin {"idle", "verifyFound"} => job[r].user \in Users
    /\ pc[r] \in {"loginVerified", "passwordVerified"} =>
         job[r].account \in Accounts /\ accounts[job[r].account].state # "absent"
    /\ pc[r] \in {"authenticated", "passwordUser", "passwordSelf", "passwordVerified"} =>
         job[r].session \in Sessions

\* Every table and every local variable has its type, references between rows
\* lead to rows that exist, and a request keeps what its later statements use.
TypeOK ==
  /\ users \in [Users -> UserRow]
  /\ accounts \in [Accounts -> AccountRow]
  /\ sessions \in [Sessions -> SessionRow]
  /\ challenges \in [Challenges -> ChallengeRow]
  /\ pc \in [Requests -> PC]
  /\ job \in [Requests -> Job]
  /\ References
  /\ Remembered

\* A session that GetValidSession accepts was opened by whoever presented the
\* password its user has now, through an account that is still enabled: no
\* login that verified an old password, however late it commits, leaves a
\* session that works (Login, SetPassword, completePasswordReset).
SessionsMatchPassword ==
  \A s \in Sessions : ValidSession(s) =>
    \E a \in Accounts : /\ sessions[s].source = a
                        /\ IsPasswordAccount(a, sessions[s].owner)
                        /\ accounts[a].password = sessions[s].password

\* A session is no newer than its user, and one of the user's present version
\* was opened with the password its account has.
SessionCurrent(s) ==
  sessions[s].state # "absent" =>
    LET u == sessions[s].owner
        a == sessions[s].source
    IN /\ users[u].status # "absent"
       /\ sessions[s].version <= users[u].version
       /\ sessions[s].state = "live" /\ sessions[s].version = users[u].version =>
            IsPasswordAccount(a, u) /\ accounts[a].password = sessions[s].password

\* What a request has verified is stored still, unless the account moved on.
VerifiedCurrent(r) ==
  pc[r] \in {"loginVerified", "passwordVerified"} =>
    LET a == job[r].account IN
    /\ job[r].accountVersion <= accounts[a].version
    /\ job[r].accountVersion = accounts[a].version => accounts[a].password = job[r].password

\* Why SessionsMatchPassword holds: the versions that Login and SetPassword
\* compare and that newSession stores tell, for every session and every
\* password verified, whether they are out of date.
CredentialInv ==
  /\ \A s \in Sessions : SessionCurrent(s)
  /\ \A r \in Requests : VerifiedCurrent(r)

\* A user past registration has exactly one credential account and a pending
\* one none, although several registration challenges of one user may be
\* verified at once (completeRegistration, index accounts_user_credential_key).
OneCredential ==
  \A u \in Users :
    /\ users[u].status \in {"active", "disabled"} <=>
         \E a \in Accounts : IsPasswordAccount(a, u)
    /\ \A a, b \in Accounts : IsPasswordAccount(a, u) /\ IsPasswordAccount(b, u) => a = b

\* The challenge would be accepted if its token were presented now.
UsableChallenge(c) == OpenChallenge(c) /\ ChallengeCurrent(c) /\ ChallengeAllowed(c)

\* Why ChallengesNeverRevive and ChangesCutOff hold: no challenge, and no
\* request about to insert one, has a version its user has not reached yet, and
\* one for a new password is of a user who is past registration for good.
ChallengeInv ==
  /\ \A c \in Challenges : challenges[c].state # "absent" =>
       LET u == challenges[c].owner IN
       /\ users[u].status # "absent"
       /\ challenges[c].version <= users[u].version
       /\ challenges[c].purpose = "reset_password" => users[u].status \in {"active", "disabled"}
  /\ \A r \in Requests : pc[r] = "forgotFound" =>
       LET u == job[r].user IN
       /\ users[u].status \in {"active", "disabled"}
       /\ job[r].version <= users[u].version

\* A request acts for the user of the session it was authenticated with.
HolderInv ==
  \A r \in Requests :
    pc[r] \in {"authenticated", "passwordUser", "passwordSelf", "passwordVerified"} =>
      sessions[job[r].session].owner = job[r].user

\* Some request presented the password of account a on a session still valid,
\* or holds an open reset challenge for its owner's present address and version.
MayChangePassword(a) ==
  \E r \in Requests :
    \/ /\ pc[r] = "passwordVerified"
       /\ job[r].password = accounts[a].password
       /\ job[r].user = accounts[a].owner
       /\ ValidSession(job[r].session)
    \/ /\ pc[r] = "verifyFound"
       /\ LET c == job[r].challenge IN
          /\ challenges[c].state = "open"
          /\ challenges[c].purpose = "reset_password"
          /\ challenges[c].owner = accounts[a].owner
          /\ challenges[c].version = users[accounts[a].owner].version
          /\ challenges[c].email = users[accounts[a].owner].email

\* A stored password is replaced only by a request that may: of two requests
\* that verified the same password one wins, and neither a late hash upgrade
\* nor an old reset mail brings a password in (SetPassword,
\* completePasswordReset, UpgradePasswordHash).
PasswordChangeAuthorised ==
  [][\A a \in Accounts :
       accounts[a].state = "enabled" /\ accounts'[a].password # accounts[a].password =>
         MayChangePassword(a)]_vars

\* A challenge that would be refused is refused for ever: neither a later
\* enabling of the user nor a new password makes an old mail work again.
ChallengesNeverRevive ==
  [][\A c \in Challenges :
       challenges[c].state # "absent" /\ ~UsableChallenge(c) => ~UsableChallenge(c)']_vars

\* A change of password or standing cuts off everything issued before it: no
\* session and no challenge of that user outlives the step (invalidate,
\* SetUserStatus with RevokeUserSessions).
ChangesCutOff ==
  [][\A u \in Users :
       \/ \E a \in Accounts : /\ IsPasswordAccount(a, u)
                              /\ accounts'[a].version # accounts[a].version
       \/ users[u].status \in {"active", "disabled"} /\ users'[u].status # users[u].status
       => /\ \A s \in Sessions : sessions[s].owner = u => ~ValidSession(s)'
          /\ \A c \in Challenges : challenges[c].owner = u => ~UsableChallenge(c)']_vars

\* The refinement mapping to AccountAuthority: a grant is a session that
\* GetValidSession accepts, with the password presented for it.
Standing == [u \in Users |-> users[u].status]

Secret ==
  [u \in Users |-> IF \E a \in Accounts : IsPasswordAccount(a, u)
                     THEN accounts[CHOOSE a \in Accounts : IsPasswordAccount(a, u)].password
                     ELSE NoOne]

Grant ==
  [s \in Sessions |->
     [state  |-> IF sessions[s].state = "absent" THEN "unused"
                 ELSE IF ValidSession(s) THEN "given" ELSE "over",
      user   |-> IF ValidSession(s) THEN sessions[s].owner ELSE NoOne,
      secret |-> IF ValidSession(s) THEN sessions[s].password ELSE NoOne]]

Authority == INSTANCE AccountAuthority
               WITH standing <- Standing, secret <- Secret, grant <- Grant

\* Sign-in works as if each request were one instant: a session is given for
\* the password of that instant, and ends for good with a change of password,
\* a change of status or a revocation (Login, SetPassword, VerifyChallenge,
\* SetStatus, RevokeSession).
ImplementsAuthority == Authority!AuthoritySpec
=============================================================================
