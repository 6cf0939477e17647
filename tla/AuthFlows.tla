----------------------------- MODULE AuthFlows ------------------------------
(***************************************************************************)
(* Authentication flows of the account module (table auth_flows): the      *)
(* state machine of a flow, the reauthentication proof that guards a       *)
(* sensitive operation, and the handlers that obtain one.  LinkedAccounts  *)
(* and EmailChange extend this module with the operations that spend one.  *)
(*                                                                         *)
(* A flow is a row with a status.  Every statement that moves it is an     *)
(* UPDATE whose WHERE names the status it leaves and refuses an expired    *)
(* row, so of two requests that race for a row one finds zero rows and     *)
(* rolls back.  A transaction that takes the user's row lock (LockUser ..  *)
(* FOR UPDATE) is two steps, the statements that lock and check and the    *)
(* statements that write up to the commit, with the lock held in between;  *)
(* a transaction without the lock is a check and a commit that anything    *)
(* may come between.  A row that refers to a user is inserted under a      *)
(* share lock on that user, and so waits for LockUser.                     *)
(*                                                                         *)
(* Time is abstract: a session or a flow may expire at any moment.  Tokens *)
(* and the state parameter are left out: whoever presents a flow's token   *)
(* is its browser.  Rate limits, audit rows and mail are left out.         *)
(***************************************************************************)
EXTENDS Naturals, FiniteSets

CONSTANTS
    Users, Accounts, Sessions, Flows,  \* identities of the rows
    Identities,        \* (namespace, subject) pairs a provider may prove
    Providers,         \* identifiers a configuration may name
    Issuer,            \* the provider whose namespace an identity is in
    Emails,            \* normalised addresses
    Challenges,        \* identities of verification rows
    Operations,        \* the operations a proof is asked for
    Purposes,          \* the purposes a visitor starts a flow with
    Requests,          \* requests in progress at the same time
    StartAccounts,     \* how many login methods the first user may start with
    MaxVersion,        \* bound on auth_version; nothing starts to raise it further
    MaxConfig,         \* bound on configuration versions of a provider
    MaxLoginAccounts,  \* maxLoginAccounts
    NoOne              \* the value of a column that is not set

\* Operation
FlowOperation == {"link_account", "unlink_account", "set_password", "change_email"}

ASSUME FlowConstants ==
    /\ IsFiniteSet(Accounts)
    /\ StartAccounts \subseteq {1, 2}
    /\ MaxVersion \in Nat \ {0} /\ MaxConfig \in Nat /\ MaxLoginAccounts \in Nat \ {0}
    /\ Issuer \in [Identities -> Providers]
    /\ Operations \subseteq FlowOperation
    /\ Purposes \subseteq {"login", "register"}
    /\ NoOne \notin Users \union Accounts \union Sessions \union Flows \union Identities
                     \union Providers \union Emails \union Challenges \union Requests
    /\ "credential" \notin Providers

VARIABLES
    users,     \* table users
    accounts,  \* table accounts
    sessions,  \* table user_sessions
    flows,     \* table auth_flows
    config,    \* version of each configured provider, 0 when it is not
    lock,      \* the request that holds the lock on a user's row
    pc,        \* the next statement or transaction of each request
    job        \* the local variables of each request

tables == <<users, accounts, sessions>>
flowVars == <<users, accounts, sessions, flows, config, lock, pc, job>>

----------------------------------------------------------------------------
\* Rows

UserRow ==
  [status : {"absent", "pending", "active", "disabled"},
   version : Nat, verified : BOOLEAN]  \* email_verified_at is set

AccountRow ==
  [state : {"absent", "enabled", "revoked"}, owner : Users \union {NoOne},
   provider : Providers \union {"credential", NoOne},
   identity : Identities \union {NoOne}, version : Nat]

SessionRow ==
  [state : {"absent", "live", "ended"}, owner : Users \union {NoOne}, version : Nat,
   source : Accounts \union {NoOne}]

FlowStatus == {"absent", "pending", "processing", "verified", "authorized",
               "claimed", "consumed", "failed"}

FlowPurpose == {"login", "register", "reauthenticate", "link_identity", "none"}

Targets == Accounts \union Providers \union Emails \union {"credential", NoOne}

FlowRow ==
  [purpose : FlowPurpose, status : FlowStatus, live : BOOLEAN,  \* expires_at > now()
   provider : Providers \union {NoOne}, config : Nat,
   user : Users \union {NoOne}, session : Sessions \union {NoOne}, version : Nat,
   account : Accounts \union {NoOne}, accountVersion : Nat,
   operation : FlowOperation \union {NoOne}, target : Targets,
   reauth : Flows \union {NoOne},
   claimedBy : Flows \union Challenges \union {NoOne},
   identity : Identities \union {NoOne}]

\* What a request remembers.
Job ==
  [session : Sessions \union {NoOne}, version : Nat,
   account : Accounts \union {NoOne}, accountVersion : Nat,
   flow : Flows \union {NoOne}, proof : Flows \union {NoOne},
   challenge : Challenges \union {NoOne},
   operation : FlowOperation \union {NoOne}, target : Targets,
   identity : Identities \union {NoOne}]

NoUser    == [status |-> "absent", version |-> 0, verified |-> FALSE]
NoAccount == [state |-> "absent", owner |-> NoOne, provider |-> NoOne,
              identity |-> NoOne, version |-> 0]
NoSession == [state |-> "absent", owner |-> NoOne, version |-> 0, source |-> NoOne]
NoFlow    == [purpose |-> "none", status |-> "absent", live |-> FALSE,
              provider |-> NoOne, config |-> 0, user |-> NoOne, session |-> NoOne,
              version |-> 0, account |-> NoOne, accountVersion |-> 0,
              operation |-> NoOne, target |-> NoOne, reauth |-> NoOne,
              claimedBy |-> NoOne, identity |-> NoOne]
NoJob     == [session |-> NoOne, version |-> 0, account |-> NoOne, accountVersion |-> 0,
              flow |-> NoOne, proof |-> NoOne, challenge |-> NoOne, operation |-> NoOne,
              target |-> NoOne, identity |-> NoOne]

\* An insert takes an identity nothing has used; which one makes no difference.
NewUser(u)    == users[u] = NoUser /\ u = CHOOSE v \in Users : users[v] = NoUser
NewAccount(a) == accounts[a] = NoAccount /\ a = CHOOSE b \in Accounts : accounts[b] = NoAccount
NewSession(s) == sessions[s] = NoSession /\ s = CHOOSE t \in Sessions : sessions[t] = NoSession
NewFlow(f)    == flows[f] = NoFlow

----------------------------------------------------------------------------
\* Queries

\* Federation.Enabled and accountEnabled
Enabled(p) == config[p] > 0
AccountEnabled(a) ==
  \/ accounts[a].provider = "credential"
  \/ accounts[a].provider \in Providers /\ Enabled(accounts[a].provider)

\* GetAccount and ListAccounts leave out revoked accounts.
HasAccount(u, a) == accounts[a].state = "enabled" /\ accounts[a].owner = u
AccountsOf(u) == {a \in Accounts : HasAccount(u, a)}

\* GetPasswordAccount
IsPasswordAccount(u, a) == HasAccount(u, a) /\ accounts[a].provider = "credential"

\* FindProviderAccount
HasIdentity(a, i) == accounts[a].state = "enabled" /\ accounts[a].identity = i

\* GetValidSession, with the user it joins
ValidSession(s) ==
  /\ sessions[s].state = "live"
  /\ \E u \in Users : /\ sessions[s].owner = u
                      /\ users[u].status = "active"
                      /\ users[u].version = sessions[s].version

\* Faulty variant: neither operation nor target of the proof is compared.
AuthorizationForAnything(s, f, operation, target, claim) ==
  LET u == sessions[s].owner
      proof == flows[f]
  IN /\ proof.live
     /\ proof.purpose = "reauthenticate" /\ proof.user = u /\ proof.session = s
     /\ IF claim = NoOne THEN proof.status = "authorized"
        ELSE proof.status = "claimed" /\ proof.claimedBy = claim
     /\ ValidSession(s) /\ proof.version = users[u].version
     /\ HasAccount(u, proof.account) /\ accounts[proof.account].version = proof.accountVersion
     /\ AccountEnabled(proof.account)

\* authorization: the proof f, obtained in session s, permits the operation on
\* the target; claim is the flow or challenge that has reserved it, if any.
Authorization(s, f, operation, target, claim) ==
  LET u == sessions[s].owner
      proof == flows[f]
  IN /\ proof.live
     /\ proof.purpose = "reauthenticate" /\ proof.user = u /\ proof.session = s
     /\ proof.operation = operation /\ proof.target = target
     /\ IF claim = NoOne THEN proof.status = "authorized"
        ELSE proof.status = "claimed" /\ proof.claimedBy = claim
     /\ ValidSession(s) /\ proof.version = users[u].version
     /\ HasAccount(u, proof.account) /\ accounts[proof.account].version = proof.accountVersion
     /\ AccountEnabled(proof.account)

----------------------------------------------------------------------------
\* Statements that move a flow.  Each is enabled when it finds its row, and is
\* the table as it leaves it.

CanClaimFlow(f) == flows[f].status = "pending" /\ flows[f].live
CanVerifyFlow(f) == flows[f].status = "processing" /\ flows[f].live

\* Faulty variant: a proof that is claimed already can be claimed again.
CanClaimAgain(f) == flows[f].status \in {"authorized", "claimed"} /\ flows[f].live

\* ClaimAuthorization
CanClaimAuthorization(f) == flows[f].status = "authorized" /\ flows[f].live

\* consumeFlow and FinishFlow
CanFinishFlow(f, expected) ==
  /\ expected \in {"processing", "verified", "authorized", "claimed"}
  /\ flows[f].status = expected /\ flows[f].live

Moved(f, status) == [flows EXCEPT ![f].status = status]

\* FailFlow: any flow whose proof is still outstanding
FailFlow(f) == IF flows[f].status \in {"pending", "processing"} THEN Moved(f, "failed")
                                                                 ELSE flows

----------------------------------------------------------------------------
\* Requests

Done(r) ==
  /\ pc' = [pc EXCEPT ![r] = "idle"]
  /\ job' = [job EXCEPT ![r] = NoJob]

Goto(r, label, j) ==
  /\ pc' = [pc EXCEPT ![r] = label]
  /\ job' = [job EXCEPT ![r] = j]

\* A transaction of r that holds the lock of user u ends.
Unlock(r) == lock' = [u \in Users |-> IF lock[u] = r THEN NoOne ELSE lock[u]]

\* LockUser waits for the lock.
LockUser(r, u) == lock[u] = NoOne /\ lock' = [lock EXCEPT ![u] = r]

\* BumpUserVersion and RevokeUserSessions in one transaction
Invalidate(u) ==
  /\ users' = [users EXCEPT ![u].version = @ + 1]
  /\ sessions' = [s \in Sessions |-> IF sessions[s].owner = u
                    THEN [sessions[s] EXCEPT !.state = "ended"] ELSE sessions[s]]

\* A check that fails, a statement or commit that fails, or a request that is
\* cancelled: the transaction rolls back and the lock is free.
Fail(r) ==
  /\ pc[r] # "idle"
  /\ Unlock(r)
  /\ Done(r)
  /\ UNCHANGED <<tables, flows, config>>

----------------------------------------------------------------------------
\* Reauthentication

\* validateOperation
ValidOperation(operation, target) ==
  \/ operation = "link_account" /\ target \in Providers /\ Enabled(target)
  \/ operation = "unlink_account" /\ target \in Accounts
  \/ operation = "set_password" /\ target = "credential"
  \/ operation = "change_email" /\ target \in Emails

\* Reauthenticate reads the caller and the account the caller wants to prove:
\* the one with the password, whose password is verified, or a linked one.  An
\* account cannot permit its own removal.  The reads are one step, as the
\* transaction repeats them and compares.
ReauthenticateRead(r, s, a, operation, target) ==
  LET u == sessions[s].owner
  IN /\ pc[r] = "idle"
     /\ ValidOperation(operation, target)
     /\ ValidSession(s)
     /\ HasAccount(u, a) /\ AccountEnabled(a)
     /\ ~(operation = "unlink_account" /\ target = a)
     /\ Goto(r, "reauthRead", [NoJob EXCEPT !.session = s, !.version = users[u].version,
                                !.account = a, !.accountVersion = accounts[a].version,
                                !.operation = operation, !.target = target])
     /\ UNCHANGED <<tables, flows, config, lock>>

\* The transaction reads caller and account again, without a lock.  With a
\* password the version of the caller must be the one read first; a flow takes
\* the version that is current now.
ReauthenticateCheck(r) ==
  LET s == job[r].session
      a == job[r].account
      u == sessions[s].owner
  IN /\ pc[r] = "reauthRead"
     /\ ValidSession(s)
     /\ HasAccount(u, a) /\ accounts[a].version = job[r].accountVersion
     /\ accounts[a].provider = "credential" => users[u].version = job[r].version
     /\ Goto(r, "reauthChecked", [job[r] EXCEPT !.version = users[u].version])
     /\ UNCHANGED <<tables, flows, config, lock>>

\* CreateFlow: after a password the proof is complete, a provider has to answer
\* first (startReauthenticationFlow).
ReauthenticateInsert(r) ==
  LET a == job[r].account
      p == accounts[a].provider
      s == job[r].session
      u == sessions[s].owner
  IN /\ pc[r] = "reauthChecked"
     /\ lock[u] = NoOne
     /\ \E f \in Flows :
          /\ NewFlow(f)
          /\ flows' = [flows EXCEPT ![f] =
               [NoFlow EXCEPT !.purpose = "reauthenticate", !.live = TRUE,
                  !.status = IF p = "credential" THEN "authorized" ELSE "pending",
                  !.provider = IF p = "credential" THEN NoOne ELSE p,
                  !.config = IF p = "credential" THEN 0 ELSE config[p],
                  !.user = u, !.session = s, !.version = job[r].version,
                  !.account = a, !.accountVersion = job[r].accountVersion,
                  !.operation = job[r].operation, !.target = job[r].target]]
     /\ Done(r)
     /\ UNCHANGED <<tables, config, lock>>

----------------------------------------------------------------------------
\* The provider's callback of a flow that is bound to a session

\* Faulty variant: a flow may be claimed whatever its status.
CallbackTwice(r, f) ==
  /\ pc[r] = "idle"
  /\ flows[f].provider # NoOne /\ flows[f].live
  /\ config[flows[f].provider] = flows[f].config
  /\ flows' = Moved(f, "processing")
  /\ Goto(r, "callback", [NoJob EXCEPT !.flow = f])
  /\ UNCHANGED <<tables, config, lock>>

\* Callback finds the flow and claims it; what it compares before the claim
\* never changes in the row or is compared again by the claim.
Callback(r, f) ==
  /\ pc[r] = "idle"
  /\ CanClaimFlow(f)
  /\ config[flows[f].provider] = flows[f].config
  /\ flows' = Moved(f, "processing")
  /\ Goto(r, "callback", [NoJob EXCEPT !.flow = f])
  /\ UNCHANGED <<tables, config, lock>>

\* completeBoundFlow checks the identity the provider answered with, without a
\* lock: a reauthentication must prove the same account, a link keeps its
\* claim on the proof that started it.
BoundCheck(r, i) ==
  LET f == job[r].flow
      flow == flows[f]
      s == flow.session
      u == flow.user
  IN /\ pc[r] = "callback"
     /\ flow.purpose \in {"reauthenticate", "link_identity"}
     /\ Issuer[i] = flow.provider
     /\ ValidSession(s)
     /\ users[u].version = flow.version
     /\ IF flow.purpose = "reauthenticate"
          THEN /\ HasAccount(u, flow.account) /\ accounts[flow.account].identity = i
               /\ accounts[flow.account].version = flow.accountVersion
               /\ AccountEnabled(flow.account)
          ELSE Authorization(s, flow.reauth, "link_account", flow.provider, f)
     /\ Goto(r, "bound", [job[r] EXCEPT !.identity = i])
     /\ UNCHANGED <<tables, flows, config, lock>>

\* verifyFlow and the commit
BoundCommit(r) ==
  LET f == job[r].flow
  IN /\ pc[r] = "bound"
     /\ CanVerifyFlow(f)
     /\ flows' = [flows EXCEPT ![f].identity = job[r].identity,
                    ![f].status = IF flows[f].purpose = "reauthenticate" THEN "authorized"
                                                                         ELSE "verified"]
     /\ Done(r)
     /\ UNCHANGED <<tables, config, lock>>

\* The deferred function of Callback: whatever went wrong, the flow is over.
\* (When this statement is lost too, Fail leaves the flow in processing.)
CallbackFails(r) ==
  /\ pc[r] \in {"callback", "bound", "found", "notFound"}
  /\ flows' = FailFlow(job[r].flow)
  /\ Done(r)
  /\ UNCHANGED <<tables, config, lock>>

----------------------------------------------------------------------------
\* The rest of the system, as far as it changes these tables

\* The commit of a password login (see AccountSessions)
PasswordLogin(s, u, a) ==
  /\ NewSession(s)
  /\ lock[u] = NoOne
  /\ users[u].status = "active" /\ IsPasswordAccount(u, a)
  /\ sessions' = [sessions EXCEPT ![s] = [state |-> "live", owner |-> u,
                                         version |-> users[u].version, source |-> a]]
  /\ UNCHANGED <<users, accounts, flows, config, lock, pc, job>>

\* SetStatus by an administrator; its UPDATE waits for the row lock.
SetStatus(u, status) ==
  /\ lock[u] = NoOne
  /\ users[u].status \in {"active", "disabled"}
  /\ users[u].version < MaxVersion
  /\ users' = [users EXCEPT ![u].status = status, ![u].version = @ + 1]
  /\ sessions' = [s \in Sessions |-> IF sessions[s].owner = u
                    THEN [sessions[s] EXCEPT !.state = "ended"] ELSE sessions[s]]
  /\ UNCHANGED <<accounts, flows, config, lock, pc, job>>

\* AdminRevoke
AdminRevoke(u) ==
  /\ lock[u] = NoOne
  /\ users[u].status # "absent" /\ users[u].version < MaxVersion
  /\ Invalidate(u)
  /\ UNCHANGED <<accounts, flows, config, lock, pc, job>>

\* A session expires or is revoked by its user.
EndSession(s) ==
  /\ sessions[s].state = "live"
  /\ sessions' = [sessions EXCEPT ![s].state = "ended"]
  /\ UNCHANGED <<users, accounts, flows, config, lock, pc, job>>

\* expires_at of a flow passes; that of a flow which is over makes no difference.
ExpireFlow(f) ==
  /\ flows[f].live /\ flows[f].status \notin {"consumed", "failed"}
  /\ flows' = [flows EXCEPT ![f].live = FALSE]
  /\ UNCHANGED <<tables, config, lock, pc, job>>

\* The process stops, with every request, and starts with the providers of a
\* new configuration.
Restart(c) ==
  /\ c \in [Providers -> 0..MaxConfig]
  /\ config' = c
  /\ lock' = [u \in Users |-> NoOne]
  /\ pc' = [r \in Requests |-> "idle"]
  /\ job' = [r \in Requests |-> NoJob]
  /\ UNCHANGED <<tables, flows>>

FlowNext ==
  \/ \E r \in Requests :
       \/ Fail(r)
       \/ \E s \in Sessions, a \in Accounts, operation \in Operations, target \in Targets :
            ReauthenticateRead(r, s, a, operation, target)
       \/ ReauthenticateCheck(r)
       \/ ReauthenticateInsert(r)
       \/ \E f \in Flows : Callback(r, f)
       \/ \E i \in Identities : BoundCheck(r, i)
       \/ BoundCommit(r)
       \/ CallbackFails(r)
  \/ \E s \in Sessions, u \in Users, a \in Accounts : PasswordLogin(s, u, a)
  \/ \E u \in Users, status \in {"active", "disabled"} : SetStatus(u, status)
  \/ \E u \in Users : AdminRevoke(u)
  \/ \E s \in Sessions : EndSession(s)
  \/ \E f \in Flows : ExpireFlow(f)
  \/ \E c \in [Providers -> 0..MaxConfig] : Restart(c)

=============================================================================
