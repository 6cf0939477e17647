----------------------------- MODULE EmailChange ----------------------------
(***************************************************************************)
(* Who holds which address: registration, change of the address and the    *)
(* challenges mailed for both (internal/modules/account: email.go,         *)
(* registration.go, challenges.go) over the proofs of AuthFlows.           *)
(*                                                                         *)
(* A pending registration holds its address in the unique index before     *)
(* anyone has confirmed it.  Whoever confirms that address in a change     *)
(* takes it away from the registration (ReleasePendingEmail), while the    *)
(* registration may be on its way to be confirmed itself.  A user who came *)
(* from a provider has no address until a first change confirms one.       *)
(***************************************************************************)
EXTENDS AuthFlows

VARIABLES
    address,    \* users.email_normalized
    challenges  \* table auth_verifications

vars == <<flowVars, address, challenges>>

PC == {"idle", "reauthRead", "reauthChecked", "emailChecked", "registerLocked",
       "changeLocked", "callback", "bound"}

ChallengeRow ==
  [state : {"absent", "open", "spent", "expired"}, owner : Users \union {NoOne},
   purpose : {"register", "change_email", "none"},
   email : Emails \union {NoOne}, version : Nat,
   session : Sessions \union {NoOne}, reauth : Flows \union {NoOne}]

NoChallenge == [state |-> "absent", owner |-> NoOne, purpose |-> "none", email |-> NoOne,
                version |-> 0, session |-> NoOne, reauth |-> NoOne]

\* The user whom CreateFederatedUser makes, and the account for the identity i
ProviderUser == [status |-> "active", version |-> 1, verified |-> FALSE]
ProviderAccount(u, i) == [state |-> "enabled", owner |-> u, provider |-> Issuer[i],
                          identity |-> i, version |-> 1]

InitNobody ==
  /\ users = [u \in Users |-> NoUser]
  /\ accounts = [a \in Accounts |-> NoAccount]

\* Someone came from a provider before, and is signed out.
InitProviderUser ==
  \E u \in Users, a \in Accounts, i \in Identities :
    /\ u = CHOOSE v \in Users : TRUE
    /\ a = CHOOSE b \in Accounts : TRUE
    /\ users = [v \in Users |-> IF v = u THEN ProviderUser ELSE NoUser]
    /\ accounts = [b \in Accounts |-> IF b = a THEN ProviderAccount(u, i) ELSE NoAccount]

Init ==
  /\ InitNobody \/ InitProviderUser
  /\ sessions = [s \in Sessions |-> NoSession]
  /\ flows = [f \in Flows |-> NoFlow]
  /\ config \in [Providers -> 0..MaxConfig]
  /\ lock = [u \in Users |-> NoOne]
  /\ pc = [r \in Requests |-> "idle"]
  /\ job = [r \in Requests |-> NoJob]
  /\ address = [u \in Users |-> NoOne]
  /\ challenges = [c \in Challenges |-> NoChallenge]

----------------------------------------------------------------------------
\* Statements

NewChallenge(c) ==
  /\ challenges[c] = NoChallenge
  /\ c = CHOOSE d \in Challenges : challenges[d] = NoChallenge

\* consumeVerification
CanConsume(c) == challenges[c].state = "open"
Consume(c) == challenges' = [challenges EXCEPT ![c].state = "spent"]

\* Faulty variant: an address is released whoever holds it.
ReleasesAnyone(v, e) == users[v].status # "absent" /\ address[v] = e

\* ReleasePendingEmail: registrations that hold e, were never confirmed and
\* never had an account
Releases(v, e) ==
  /\ users[v].status = "pending" /\ ~users[v].verified /\ address[v] = e
  /\ \A a \in Accounts : accounts[a].owner # v

----------------------------------------------------------------------------
\* Registration

\* CreatePendingUser inserts the user, or locks and returns the one that has
\* the address; a pending one gets another challenge.
Register(u, e) ==
  /\ \/ /\ NewUser(u)
        /\ \A v \in Users : address[v] # e
        /\ users' = [users EXCEPT ![u] = [status |-> "pending", version |-> 1, verified |-> FALSE]]
        /\ address' = [address EXCEPT ![u] = e]
     \/ /\ address[u] = e /\ users[u].status = "pending" /\ lock[u] = NoOne
        /\ UNCHANGED <<users, address>>
  /\ \E c \in Challenges :
       /\ NewChallenge(c)
       /\ challenges' = [challenges EXCEPT ![c] =
            [NoChallenge EXCEPT !.state = "open", !.owner = u, !.purpose = "register",
                                !.email = e, !.version = users'[u].version]]
  /\ UNCHANGED <<accounts, sessions, flows, config, lock, pc, job>>

\* VerifyChallenge locks the user and compares the version; a user in
\* registration must still hold the address.
VerifyRegister(r, c) ==
  LET u == challenges[c].owner
  IN /\ pc[r] = "idle"
     /\ challenges[c].purpose = "register" /\ CanConsume(c)
     /\ LockUser(r, u)
     /\ users[u].version = challenges[c].version
     /\ users[u].status = "pending" /\ address[u] = challenges[c].email
     /\ Goto(r, "registerLocked", [NoJob EXCEPT !.challenge = c])
     /\ UNCHANGED <<tables, flows, config, address, challenges>>

\* CreateAccount, ActivateUser, consumeVerification
VerifyRegisterCommit(r) ==
  LET c == job[r].challenge
      u == challenges[c].owner
  IN /\ pc[r] = "registerLocked"
     /\ CanConsume(c) /\ Consume(c)
     /\ users[u].status = "pending"
     /\ users' = [users EXCEPT ![u].status = "active", ![u].verified = TRUE]
     /\ \E a \in Accounts :
          /\ NewAccount(a)
          /\ ~ \E b \in Accounts : IsPasswordAccount(u, b)
          /\ accounts' = [accounts EXCEPT ![a] =
               [state |-> "enabled", owner |-> u, provider |-> "credential",
                identity |-> NoOne, version |-> 1]]
     /\ Unlock(r)
     /\ Done(r)
     /\ UNCHANGED <<sessions, flows, config, address>>

----------------------------------------------------------------------------
\* Sign-in through a provider, whose flow is modelled in LinkedAccounts

\* newSession for the account a of user u
OpenSession(s, u, version, a) ==
  /\ NewSession(s)
  /\ sessions' = [sessions EXCEPT ![s] = [state |-> "live", owner |-> u,
                                         version |-> version, source |-> a]]
  /\ UNCHANGED <<flows, config, lock, pc, job, address, challenges>>

\* completeLogin for an identity that nobody has: CreateFederatedUser leaves the
\* address null and not verified.
FederatedRegister(s, u, a, i) ==
  /\ NewUser(u) /\ NewAccount(a)
  /\ Enabled(Issuer[i]) /\ \A b \in Accounts : ~HasIdentity(b, i)
  /\ users' = [users EXCEPT ![u] = ProviderUser]
  /\ accounts' = [accounts EXCEPT ![a] = ProviderAccount(u, i)]
  /\ OpenSession(s, u, 1, a)

\* completeLogin for the identity of an account
FederatedLogin(s, u, a) ==
  /\ lock[u] = NoOne
  /\ users[u].status = "active" /\ HasAccount(u, a)
  /\ accounts[a].provider \in Providers /\ AccountEnabled(a)
  /\ OpenSession(s, u, users[u].version, a)
  /\ UNCHANGED <<users, accounts>>

----------------------------------------------------------------------------
\* Change of the address

\* ChangeEmail checks the caller and the proof, without a lock.
ChangeEmail(r, s, e, f) ==
  /\ pc[r] = "idle"
  /\ ValidSession(s)
  /\ Authorization(s, f, "change_email", e, NoOne)
  /\ Goto(r, "emailChecked", [NoJob EXCEPT !.session = s, !.proof = f, !.target = e,
                                           !.version = users[sessions[s].owner].version])
  /\ UNCHANGED <<tables, flows, config, lock, address, challenges>>

\* createChallenge, and the proof is claimed for it
ChangeEmailCommit(r) ==
  LET s == job[r].session
      u == sessions[s].owner
      f == job[r].proof
  IN /\ pc[r] = "emailChecked"
     /\ lock[u] = NoOne
     /\ CanClaimAuthorization(f)
     /\ \E c \in Challenges :
          /\ NewChallenge(c)
          /\ challenges' = [challenges EXCEPT ![c] =
               [state |-> "open", owner |-> u, purpose |-> "change_email", email |-> job[r].target,
                version |-> job[r].version, session |-> s, reauth |-> f]]
          /\ flows' = [flows EXCEPT ![f].status = "claimed", ![f].claimedBy = c]
     /\ Done(r)
     /\ UNCHANGED <<tables, config, lock, address>>

\* Faulty variant: once the user is locked, neither the version of the challenge
\* nor the session that asked nor the proof is checked again.
VerifyChangeStale(r, c) ==
  LET u == challenges[c].owner
  IN /\ pc[r] = "idle"
     /\ challenges[c].purpose = "change_email" /\ CanConsume(c)
     /\ LockUser(r, u)
     /\ users[u].status # "disabled" /\ users[u].version < MaxVersion
     /\ Goto(r, "changeLocked", [NoJob EXCEPT !.challenge = c, !.proof = challenges[c].reauth])
     /\ UNCHANGED <<tables, flows, config, address, challenges>>

\* VerifyChallenge locks the user; completeEmailChange checks the session that
\* asked and the proof claimed for this challenge.
VerifyChange(r, c) ==
  LET u == challenges[c].owner
      s == challenges[c].session
  IN /\ pc[r] = "idle"
     /\ challenges[c].purpose = "change_email" /\ CanConsume(c)
     /\ LockUser(r, u)
     /\ users[u].version = challenges[c].version /\ users[u].status # "disabled"
     /\ ValidSession(s)
     /\ Authorization(s, challenges[c].reauth, "change_email", challenges[c].email, c)
     /\ users[u].version < MaxVersion
     /\ Goto(r, "changeLocked", [NoJob EXCEPT !.challenge = c, !.proof = challenges[c].reauth])
     /\ UNCHANGED <<tables, flows, config, address, challenges>>

\* finishAuthorization, ReleasePendingEmail, which waits for the row of the
\* registration, UpdateUserEmail, RevokeUserSessions, consumeVerification.  The
\* unique index refuses an address that someone still holds.
VerifyChangeCommit(r) ==
  LET c == job[r].challenge
      u == challenges[c].owner
      e == challenges[c].email
      f == job[r].proof
  IN /\ pc[r] = "changeLocked"
     /\ CanFinishFlow(f, "claimed") /\ flows' = Moved(f, "consumed")
     /\ \A v \in Users : Releases(v, e) => lock[v] = NoOne
     /\ \A v \in Users \ {u} : address[v] = e => Releases(v, e)
     /\ users[u].status = "active"
     /\ users' = [v \in Users |->
          IF v = u THEN [users[u] EXCEPT !.verified = TRUE, !.version = users[u].version + 1]
          ELSE IF Releases(v, e) THEN [users[v] EXCEPT !.version = users[v].version + 1]
          ELSE users[v]]
     /\ address' = [v \in Users |-> IF v = u THEN e ELSE IF Releases(v, e) THEN NoOne
                                                         ELSE address[v]]
     /\ sessions' = [s \in Sessions |-> IF sessions[s].owner = u
                       THEN [sessions[s] EXCEPT !.state = "ended"] ELSE sessions[s]]
     /\ CanConsume(c) /\ Consume(c)
     /\ Unlock(r)
     /\ Done(r)
     /\ UNCHANGED <<accounts, config>>

\* expires_at of a challenge passes.
ExpireChallenge(c) ==
  /\ CanConsume(c)
  /\ challenges' = [challenges EXCEPT ![c].state = "expired"]
  /\ UNCHANGED <<flowVars, address>>

----------------------------------------------------------------------------
Next ==
  \/ FlowNext /\ UNCHANGED <<address, challenges>>
  \/ \E u \in Users, e \in Emails : Register(u, e)
  \/ \E s \in Sessions, u \in Users, a \in Accounts :
       FederatedLogin(s, u, a) \/ \E i \in Identities : FederatedRegister(s, u, a, i)
  \/ \E r \in Requests :
       \/ \E c \in Challenges : VerifyRegister(r, c) \/ VerifyChange(r, c)
       \/ \E s \in Sessions, e \in Emails, f \in Flows : ChangeEmail(r, s, e, f)
       \/ ChangeEmailCommit(r)
       \/ VerifyRegisterCommit(r) \/ VerifyChangeCommit(r)
  \/ \E c \in Challenges : ExpireChallenge(c)

Spec == Init /\ [][Next]_vars

----------------------------------------------------------------------------
\* Properties

\* Tables, locks and requests keep their types.
TypeOK ==
  /\ users \in [Users -> UserRow]
  /\ accounts \in [Accounts -> AccountRow]
  /\ sessions \in [Sessions -> SessionRow]
  /\ flows \in [Flows -> FlowRow]
  /\ config \in [Providers -> Nat]
  /\ lock \in [Users -> Requests \union {NoOne}]
  /\ pc \in [Requests -> PC]
  /\ job \in [Requests -> Job]
  /\ address \in [Users -> Emails \union {NoOne}]
  /\ challenges \in [Challenges -> ChallengeRow]

\* Why the two properties hold.  A row in use refers to rows in use; a challenge
\* for a new address is of the user whose session asked for it.
RowsInUse ==
  /\ \A u \in Users : users[u].status = "absent" => address[u] = NoOne
  /\ \A a \in Accounts : accounts[a].state # "absent" =>
       accounts[a].provider \in Providers \union {"credential"}
  /\ \A s \in Sessions : sessions[s].state # "absent" =>
       sessions[s].owner \in Users /\ users[sessions[s].owner].status # "absent"
  /\ \A c \in Challenges : challenges[c].state # "absent" =>
       /\ challenges[c].owner \in Users /\ users[challenges[c].owner].status # "absent"
       /\ challenges[c].email \in Emails
       /\ challenges[c].purpose = "change_email" =>
            /\ challenges[c].reauth \in Flows /\ challenges[c].session \in Sessions
            /\ sessions[challenges[c].session].state # "absent"
            /\ sessions[challenges[c].session].owner = challenges[c].owner

\* What a request found before its transaction is in use still.
Remembers(r) ==
  /\ pc[r] \in {"reauthRead", "reauthChecked", "emailChecked"} =>
       job[r].session \in Sessions /\ sessions[job[r].session].state # "absent"
  /\ pc[r] \in {"reauthRead", "reauthChecked"} =>
       job[r].account \in Accounts /\ accounts[job[r].account].state # "absent"
  /\ pc[r] \in {"callback", "bound"} => job[r].flow \in Flows
  /\ pc[r] = "emailChecked" => job[r].target \in Emails /\ job[r].proof \in Flows
  /\ pc[r] \in {"registerLocked", "changeLocked"} =>
       job[r].challenge \in Challenges /\ challenges[job[r].challenge].state # "absent"

\* What VerifyChallenge checked under the row lock of the user holds up to the
\* commit: the version, the address of a registration, the proof of a change.
HoldsLock(r) ==
  LET c == challenges[job[r].challenge]
      f == job[r].proof
  IN
    /\ pc[r] \in {"registerLocked", "changeLocked"} =>
         lock[c.owner] = r /\ users[c.owner].version = c.version
    /\ pc[r] = "registerLocked" => address[c.owner] = c.email
    /\ pc[r] = "changeLocked" =>
         /\ f \in Flows /\ flows[f].status \in {"claimed", "consumed"}
         /\ flows[f].claimedBy = job[r].challenge
         /\ flows[f].user = c.owner /\ flows[f].version = c.version
         /\ flows[f].operation = "change_email" /\ flows[f].target = c.email

RequestInv == \A r \in Requests : Remembers(r) /\ HoldsLock(r)

\* A challenge mailed to exactly the address of u was answered for u.
HasConfirmed(u) ==
  /\ users[u].verified /\ address[u] \in Emails
  /\ \E c \in Challenges : /\ challenges[c].state = "spent" /\ challenges[c].owner = u
                           /\ challenges[c].email = address[u]

\* u has no address and came from a provider, never from a registration.
CameFromProvider(u) ==
  /\ ~users[u].verified /\ address[u] = NoOne
  /\ \E a \in Accounts : /\ accounts[a].state # "absent" /\ accounts[a].owner = u
                         /\ accounts[a].provider \in Providers
  /\ \A c \in Challenges : challenges[c].state # "absent" /\ challenges[c].owner = u =>
                             challenges[c].purpose # "register"

\* Whoever is past registration holds an address that was confirmed by a challenge
\* mailed to it, or came from a provider and has none yet.  A registration that
\* lost its address can therefore never be completed, and nobody holds an address
\* that is marked verified without this user's answer (completeRegistration,
\* completeEmailChange, ReleasePendingEmail, CreateFederatedUser).
AddressesConfirmed ==
  \A u \in Users : users[u].status \in {"active", "disabled"} =>
    HasConfirmed(u) \/ CameFromProvider(u)

\* u takes the address e in this step: with a challenge mailed to e of u's
\* present version, and the proof that u obtained for e and that only this
\* challenge has claimed.
Takes(u, e) ==
  \E c \in Challenges, f \in Flows :
    /\ challenges[c].state = "open" /\ challenges'[c].state = "spent"
    /\ challenges[c].owner = u /\ challenges[c].email = e
    /\ challenges[c].version = users[u].version
    /\ flows[f].status = "claimed" /\ flows'[f].status = "consumed" /\ flows[f].claimedBy = c
    /\ flows[f].user = u /\ flows[f].version = users[u].version
    /\ flows[f].operation = "change_email" /\ flows[f].target = e

\* An address moves only by its own user's confirmed change, the first one of a
\* user from a provider included; nobody else can lose one but a registration that
\* was never confirmed, and only to the user who confirms that address in the same
\* step.  The user's other sessions and outstanding proofs end with the old
\* address.
AddressMoves == [][
  \A u \in Users : users[u].status # "absent" /\ address'[u] # address[u] =>
    \/ /\ Takes(u, address'[u])
       /\ users'[u].version > users[u].version
       /\ \A s \in Sessions : sessions[s].owner = u => sessions'[s].state = "ended"
    \/ /\ address'[u] = NoOne
       /\ users[u].status = "pending" /\ \A a \in Accounts : accounts[a].owner # u
       /\ \E v \in Users \ {u} : address'[v] = address[u] /\ Takes(v, address[u])]_vars
=============================================================================
