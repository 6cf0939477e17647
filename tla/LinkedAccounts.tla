--------------------------- MODULE LinkedAccounts ---------------------------
(***************************************************************************)
(* Federated sign-in and registration, linking and unlinking of accounts,  *)
(* and SetPassword of a user who may have no password yet                  *)
(* (internal/modules/account: federation.go, oauth_start.go,               *)
(* linked_accounts.go, password.go) over the flows of AuthFlows.           *)
(*                                                                         *)
(* Linking is a chain of requests.  A proof is obtained (reauthentication),*)
(* StartLink opens a flow and claims the proof for it, the provider's      *)
(* callback verifies the flow, and ConfirmLink spends flow and proof and   *)
(* inserts the account.  Between any two of them the user may be disabled, *)
(* the session revoked, the proving account removed, the configuration     *)
(* replaced, or another request may run.                                   *)
(***************************************************************************)
EXTENDS AuthFlows

\* The user that a behaviour may start with exists, and within the limit.
ASSUME StartConstants ==
    /\ Users # {} /\ Accounts # {}
    /\ \A n \in StartAccounts : n <= MaxLoginAccounts

vars == flowVars

PC == {"idle", "reauthRead", "reauthChecked", "linkChecked",
       "callback", "bound", "found", "notFound", "confirmLocked", "unlinkLocked",
       "passwordRead", "passwordLocked"}

\* A login method: an identity of a provider or, for NoOne, the password
LoginAccount(u, i) ==
  [state |-> "enabled", owner |-> u, identity |-> i, version |-> 1,
   provider |-> IF i = NoOne THEN "credential" ELSE Issuer[i]]

\* Nobody has registered yet, or one user has a confirmed address, one or two
\* login methods and perhaps a session.
InitNobody ==
  /\ users = [v \in Users |-> NoUser]
  /\ accounts = [a \in Accounts |-> NoAccount]
  /\ sessions = [s \in Sessions |-> NoSession]

InitOneUser ==
  LET u == CHOOSE v \in Users : TRUE
      a == CHOOSE b \in Accounts : TRUE
      s == CHOOSE t \in Sessions : TRUE
  IN /\ users = [v \in Users |-> IF v # u THEN NoUser
                   ELSE [status |-> "active", version |-> 1, verified |-> TRUE]]
     /\ \E i \in Identities \union {NoOne} :
        \E second \in {x \in {NoAccount} \union {LoginAccount(u, j) : j \in Identities \ {i}} :
                        (IF x = NoAccount THEN 1 ELSE 2) \in StartAccounts} :
          accounts = [b \in Accounts |->
                        CASE b = a -> LoginAccount(u, i)
                          [] b = CHOOSE c \in Accounts \ {a} : TRUE -> second
                          [] OTHER -> NoAccount]
     /\ sessions \in {[t \in Sessions |-> IF t # s THEN NoSession ELSE first] :
          first \in {NoSession, [state |-> "live", owner |-> u, version |-> 1, source |-> a]}}

Init ==
  /\ InitNobody \/ InitOneUser
  /\ flows = [f \in Flows |-> NoFlow]
  /\ config = [p \in Providers |-> 1]
  /\ lock = [v \in Users |-> NoOne]
  /\ pc = [r \in Requests |-> "idle"]
  /\ job = [r \in Requests |-> NoJob]

\* CreateAccount; the unique indexes refuse an identity or a credential that
\* an unrevoked account has.
CreateAccount(u, i) ==
  \E a \in Accounts :
    /\ NewAccount(a)
    /\ ~ \E b \in Accounts : IF i = NoOne THEN IsPasswordAccount(u, b)
                                          ELSE HasIdentity(b, i)
    /\ accounts' = [accounts EXCEPT ![a] = LoginAccount(u, i)]

----------------------------------------------------------------------------
\* Sign-in and registration with a provider

\* StartLogin: anyone may open a flow for a configured provider.
StartLogin(p, purpose) ==
  /\ Enabled(p)
  /\ \E f \in Flows :
       /\ NewFlow(f)
       /\ flows' = [flows EXCEPT ![f] =
            [NoFlow EXCEPT !.purpose = purpose, !.status = "pending", !.live = TRUE,
                           !.provider = p, !.config = config[p]]]
  /\ UNCHANGED <<tables, config, lock, pc, job>>

\* completeLogin looks for the account of the identity before its transaction.
LoginFind(r, i) ==
  LET flow == flows[job[r].flow]
  IN /\ pc[r] = "callback"
     /\ flow.purpose \in {"login", "register"}
     /\ Issuer[i] = flow.provider
     /\ \/ \E a \in Accounts :
             /\ HasIdentity(a, i)
             /\ Goto(r, "found", [job[r] EXCEPT !.account = a, !.identity = i,
                                                !.accountVersion = accounts[a].version])
        \/ /\ ~ \E a \in Accounts : HasIdentity(a, i)
           /\ flow.purpose = "register"
           /\ Goto(r, "notFound", [job[r] EXCEPT !.identity = i])
     /\ UNCHANGED <<tables, flows, config, lock>>

\* consumeFlow and newSession, the end of both transactions
OpenSession(r, u, version, a) ==
  LET f == job[r].flow
  IN /\ CanFinishFlow(f, "processing")
     /\ flows' = Moved(f, "consumed")
     /\ \E s \in Sessions :
          /\ NewSession(s)
          /\ sessions' = [sessions EXCEPT ![s] = [state |-> "live", owner |-> u,
                                                 version |-> version, source |-> a]]
     /\ Done(r)
     /\ UNCHANGED <<config, lock>>

\* Faulty variant: the account found before the lock is taken for granted.
LoginUnchecked(r) ==
  LET a == job[r].account
      u == accounts[a].owner
  IN /\ pc[r] = "found"
     /\ lock[u] = NoOne
     /\ users[u].status = "active"
     /\ OpenSession(r, u, users[u].version, a)
     /\ UNCHANGED <<users, accounts>>

\* A known identity: under the row lock the account must still be what was
\* found.  All that is checked is held by the lock, so this is one step.
LoginCommit(r) ==
  LET a == job[r].account
      u == accounts[a].owner
  IN /\ pc[r] = "found"
     /\ lock[u] = NoOne
     /\ HasAccount(u, a) /\ accounts[a].version = job[r].accountVersion
     /\ users[u].status = "active" /\ AccountEnabled(a)
     /\ OpenSession(r, u, users[u].version, a)
     /\ UNCHANGED <<users, accounts>>

\* A new identity: CreateFederatedUser and CreateAccount.
LoginRegister(r) ==
  /\ pc[r] = "notFound"
  /\ \E u \in Users, a \in Accounts :
       /\ NewUser(u) /\ NewAccount(a)
       /\ users' = [users EXCEPT ![u] = [status |-> "active", version |-> 1, verified |-> FALSE]]
       /\ CreateAccount(u, job[r].identity)
       /\ OpenSession(r, u, 1, a)

----------------------------------------------------------------------------
\* Linking

\* startLinkFlow checks the caller and the proof, without a lock.
StartLink(r, s, p, f) ==
  /\ pc[r] = "idle"
  /\ Enabled(p)
  /\ ValidSession(s)
  /\ Authorization(s, f, "link_account", p, NoOne)
  /\ Goto(r, "linkChecked", [NoJob EXCEPT !.session = s, !.proof = f, !.target = p,
                                          !.version = users[sessions[s].owner].version])
  /\ UNCHANGED <<tables, flows, config, lock>>

\* Faulty variant: the flow does not record the proof it has claimed.
StartLinkForgetful(r) ==
  LET s == job[r].session
      p == job[r].target
      proof == job[r].proof
  IN /\ pc[r] = "linkChecked"
     /\ lock[sessions[s].owner] = NoOne
     /\ CanClaimAuthorization(proof)
     /\ \E f \in Flows :
          /\ NewFlow(f)
          /\ flows' = [flows EXCEPT
               ![f] = [NoFlow EXCEPT !.purpose = "link_identity", !.status = "pending",
                         !.live = TRUE, !.provider = p, !.config = config[p],
                         !.user = sessions[s].owner, !.session = s, !.version = job[r].version,
                         !.operation = "link_account", !.target = p],
               ![proof].status = "claimed", ![proof].claimedBy = f]
     /\ Done(r)
     /\ UNCHANGED <<tables, config, lock>>

\* It inserts the flow and claims the proof; when another request was faster
\* the transaction fails as a whole.
StartLinkCommit(r) ==
  LET s == job[r].session
      p == job[r].target
      proof == job[r].proof
  IN /\ pc[r] = "linkChecked"
     /\ lock[sessions[s].owner] = NoOne
     /\ CanClaimAuthorization(proof)
     /\ \E f \in Flows :
          /\ NewFlow(f)
          /\ flows' = [flows EXCEPT
               ![f] = [NoFlow EXCEPT !.purpose = "link_identity", !.status = "pending",
                         !.live = TRUE, !.provider = p, !.config = config[p],
                         !.user = sessions[s].owner, !.session = s, !.version = job[r].version,
                         !.operation = "link_account", !.target = p, !.reauth = proof],
               ![proof].status = "claimed", ![proof].claimedBy = f]
     /\ Done(r)
     /\ UNCHANGED <<tables, config, lock>>

\* ConfirmLink under the row lock: the flow is verified for this caller and
\* holds its proof; the identity is the caller's already, or nobody's and the
\* caller has room for an account.  (A flow that is consumed already answers
\* success and writes nothing.)
ConfirmLink(r, s, f) ==
  LET u == sessions[s].owner
      flow == flows[f]
  IN /\ pc[r] = "idle"
     /\ u # NoOne /\ LockUser(r, u)
     /\ ValidSession(s)
     /\ flow.live /\ flow.purpose = "link_identity"
     /\ flow.user = u /\ flow.session = s /\ flow.version = users[u].version
     /\ flow.status = "verified" /\ config[flow.provider] = flow.config
     /\ Authorization(s, flow.reauth, "link_account", flow.provider, f)
     /\ \A a \in Accounts : HasIdentity(a, flow.identity) => accounts[a].owner = u
     /\ \/ \E a \in Accounts : HasIdentity(a, flow.identity)
        \/ Cardinality(AccountsOf(u)) < MaxLoginAccounts
     /\ Goto(r, "confirmLocked", [NoJob EXCEPT !.session = s, !.flow = f, !.proof = flow.reauth])
     /\ UNCHANGED <<tables, flows, config>>

\* CreateAccount when nobody has the identity; then proof and flow are spent.
ConfirmLinkCommit(r) ==
  LET f == job[r].flow
      proof == job[r].proof
      u == sessions[job[r].session].owner
  IN /\ pc[r] = "confirmLocked"
     /\ CanFinishFlow(proof, "claimed") /\ CanFinishFlow(f, "verified")
     /\ flows' = [flows EXCEPT ![proof].status = "consumed", ![f].status = "consumed"]
     /\ IF \E a \in Accounts : HasIdentity(a, flows[f].identity) /\ HasAccount(u, a)
          THEN UNCHANGED accounts
          ELSE CreateAccount(u, flows[f].identity)
     /\ Unlock(r)
     /\ Done(r)
     /\ UNCHANGED <<users, sessions, config>>

----------------------------------------------------------------------------
\* Unlinking

\* Faulty variant: the user's row is read and not locked.
UnlinkUnlocked(r, s, a, f) ==
  LET u == sessions[s].owner
  IN /\ pc[r] = "idle"
     /\ u # NoOne /\ lock[u] = NoOne
     /\ ValidSession(s)
     /\ HasAccount(u, a)
     /\ Authorization(s, f, "unlink_account", a, NoOne)
     /\ flows[f].account # a
     /\ \E b \in AccountsOf(u) \ {a} : AccountEnabled(b)
     /\ users[u].version < MaxVersion
     /\ Goto(r, "unlinkLocked", [NoJob EXCEPT !.session = s, !.account = a, !.proof = f])
     /\ UNCHANGED <<tables, flows, config, lock>>

\* Unlink under the row lock: the proof is of another account, and an account
\* the user can sign in with remains.
Unlink(r, s, a, f) ==
  LET u == sessions[s].owner
  IN /\ pc[r] = "idle"
     /\ u # NoOne /\ LockUser(r, u)
     /\ ValidSession(s)
     /\ HasAccount(u, a)
     /\ Authorization(s, f, "unlink_account", a, NoOne)
     /\ flows[f].account # a
     /\ \E b \in AccountsOf(u) \ {a} : AccountEnabled(b)
     /\ users[u].version < MaxVersion
     /\ Goto(r, "unlinkLocked", [NoJob EXCEPT !.session = s, !.account = a, !.proof = f])
     /\ UNCHANGED <<tables, flows, config>>

\* RevokeAccount, finishAuthorization and invalidate
UnlinkCommit(r) ==
  LET a == job[r].account
      u == sessions[job[r].session].owner
  IN /\ pc[r] = "unlinkLocked"
     /\ HasAccount(u, a)
     /\ CanFinishFlow(job[r].proof, "authorized")
     /\ accounts' = [accounts EXCEPT ![a].state = "revoked", ![a].version = @ + 1]
     /\ flows' = Moved(job[r].proof, "consumed")
     /\ Invalidate(u)
     /\ Unlock(r)
     /\ Done(r)
     /\ UNCHANGED config

----------------------------------------------------------------------------
\* SetPassword

\* The caller and the credential account, if there is one, are read; its
\* password is verified.  A user without one presents a proof.
SetPasswordRead(r, s, f) ==
  LET u == sessions[s].owner
  IN /\ pc[r] = "idle"
     /\ ValidSession(s)
     /\ \/ \E a \in Accounts :
             /\ IsPasswordAccount(u, a) /\ f = NoOne
             /\ Goto(r, "passwordRead", [NoJob EXCEPT !.session = s, !.account = a,
                          !.accountVersion = accounts[a].version, !.version = users[u].version])
        \/ /\ ~ \E a \in Accounts : IsPasswordAccount(u, a)
           /\ f # NoOne
           /\ Goto(r, "passwordRead", [NoJob EXCEPT !.session = s, !.proof = f,
                                                    !.version = users[u].version])
     /\ UNCHANGED <<tables, flows, config, lock>>

\* Faulty variant: the user's row is read and not locked.
SetPasswordUnlocked(r) ==
  LET s == job[r].session
      u == sessions[s].owner
      a == job[r].account
  IN /\ pc[r] = "passwordRead"
     /\ lock[u] = NoOne
     /\ ValidSession(s) /\ users[u].version = job[r].version
     /\ IF a # NoOne
          THEN IsPasswordAccount(u, a) /\ accounts[a].version = job[r].accountVersion
          ELSE /\ ~ \E b \in Accounts : IsPasswordAccount(u, b)
               /\ users[u].verified
               /\ Authorization(s, job[r].proof, "set_password", "credential", NoOne)
               /\ Cardinality(AccountsOf(u)) < MaxLoginAccounts
     /\ users[u].version < MaxVersion
     /\ Goto(r, "passwordLocked", job[r])
     /\ UNCHANGED <<tables, flows, config, lock>>

\* Under the row lock what was read must still hold.
SetPasswordLock(r) ==
  LET s == job[r].session
      u == sessions[s].owner
      a == job[r].account
  IN /\ pc[r] = "passwordRead"
     /\ LockUser(r, u)
     /\ ValidSession(s) /\ users[u].version = job[r].version
     /\ IF a # NoOne
          THEN IsPasswordAccount(u, a) /\ accounts[a].version = job[r].accountVersion
          ELSE /\ ~ \E b \in Accounts : IsPasswordAccount(u, b)
               /\ users[u].verified
               /\ Authorization(s, job[r].proof, "set_password", "credential", NoOne)
               /\ Cardinality(AccountsOf(u)) < MaxLoginAccounts
     /\ users[u].version < MaxVersion
     /\ Goto(r, "passwordLocked", job[r])
     /\ UNCHANGED <<tables, flows, config>>

\* ChangePassword, or CreateAccount and finishAuthorization; then invalidate
SetPasswordCommit(r) ==
  LET u == sessions[job[r].session].owner
      a == job[r].account
      proof == job[r].proof
  IN /\ pc[r] = "passwordLocked"
     /\ IF a # NoOne
          THEN /\ accounts' = [accounts EXCEPT ![a].version = @ + 1]
               /\ UNCHANGED flows
          ELSE /\ CreateAccount(u, NoOne)
               /\ CanFinishFlow(proof, "authorized")
               /\ flows' = Moved(proof, "consumed")
     /\ Invalidate(u)
     /\ Unlock(r)
     /\ Done(r)
     /\ UNCHANGED config

----------------------------------------------------------------------------
Next ==
  \/ FlowNext
  \/ \E p \in Providers, purpose \in Purposes : StartLogin(p, purpose)
  \/ \E r \in Requests :
       \/ \E i \in Identities : LoginFind(r, i)
       \/ LoginCommit(r) \/ LoginRegister(r)
       \/ \E s \in Sessions, p \in Providers, f \in Flows : StartLink(r, s, p, f)
       \/ StartLinkCommit(r)
       \/ \E s \in Sessions, f \in Flows : ConfirmLink(r, s, f)
       \/ ConfirmLinkCommit(r)
       \/ \E s \in Sessions, a \in Accounts, f \in Flows : Unlink(r, s, a, f)
       \/ UnlinkCommit(r)
       \/ \E s \in Sessions, f \in Flows \union {NoOne} : SetPasswordRead(r, s, f)
       \/ SetPasswordLock(r) \/ SetPasswordCommit(r)

Spec == Init /\ [][Next]_vars

----------------------------------------------------------------------------
\* Properties

\* Tables and requests keep their types; a row in use has its owner, a flow
\* the references its purpose calls for, and a request what its next step uses.
TypeOK ==
  /\ users \in [Users -> UserRow]
  /\ accounts \in [Accounts -> AccountRow]
  /\ sessions \in [Sessions -> SessionRow]
  /\ flows \in [Flows -> FlowRow]
  /\ config \in [Providers -> Nat]
  /\ lock \in [Users -> Requests \union {NoOne}]
  /\ pc \in [Requests -> PC]
  /\ job \in [Requests -> Job]
  /\ \A a \in Accounts : accounts[a].state # "absent" => accounts[a].owner \in Users
  /\ \A s \in Sessions : sessions[s].state # "absent" => sessions[s].owner \in Users
  /\ \A f \in Flows :
       /\ flows[f].purpose \in {"reauthenticate", "link_identity"} =>
            /\ flows[f].session \in Sessions
            /\ flows[f].user = sessions[flows[f].session].owner
       /\ flows[f].purpose = "reauthenticate" => flows[f].account \in Accounts
       /\ flows[f].purpose = "link_identity" => flows[f].reauth \in Flows
       /\ flows[f].status \in {"pending", "processing"} => flows[f].provider \in Providers
  /\ \A r \in Requests :
       /\ pc[r] \in {"callback", "bound", "found", "notFound"} => job[r].flow \in Flows
       /\ pc[r] \in {"found", "unlinkLocked"} => job[r].account \in Accounts

\* Why the properties below hold.  A row in use refers to rows in use, and an
\* account is of the provider its identity belongs to.
RowsInUse ==
  /\ \A a \in Accounts : accounts[a].state # "absent" =>
       /\ accounts[a].owner \in Users /\ users[accounts[a].owner].status # "absent"
       /\ accounts[a].provider =
            IF accounts[a].identity = NoOne THEN "credential" ELSE Issuer[accounts[a].identity]
  /\ \A s \in Sessions : sessions[s].state # "absent" =>
       sessions[s].owner \in Users /\ users[sessions[s].owner].status # "absent"

\* What the columns of a flow say of each other: nobody has proved an identity
\* or claimed the flow before its status says so.
FlowInv ==
  \A f \in Flows :
    /\ flows[f].status = "absent" => flows[f] = NoFlow
    /\ flows[f].purpose \in {"reauthenticate", "link_identity"} =>
         flows[f].session \in Sessions /\ sessions[flows[f].session].state # "absent"
    /\ flows[f].purpose \in {"login", "register"} => flows[f].config > 0
    /\ flows[f].status \in {"absent", "pending", "processing"} => flows[f].identity = NoOne
    /\ flows[f].status \notin {"claimed", "consumed"} => flows[f].claimedBy = NoOne
    /\ flows[f].status = "verified" =>
         flows[f].identity \in Identities /\ Issuer[flows[f].identity] = flows[f].provider

\* What a request remembers is true still, although it holds no lock: the rows
\* it found are in use, and the flow of a callback is of this configuration.
Remembers(r) ==
  LET flow == flows[job[r].flow] IN
    /\ pc[r] \in {"reauthRead", "reauthChecked", "linkChecked", "confirmLocked",
                  "unlinkLocked", "passwordRead", "passwordLocked"} =>
         job[r].session \in Sessions /\ sessions[job[r].session].state # "absent"
    /\ pc[r] \in {"reauthRead", "reauthChecked", "found", "unlinkLocked"} =>
         job[r].account \in Accounts /\ accounts[job[r].account].state # "absent"
    /\ pc[r] = "linkChecked" => job[r].target \in Providers /\ job[r].proof \in Flows
    /\ pc[r] = "passwordRead" /\ job[r].account = NoOne => job[r].proof \in Flows
    /\ pc[r] \in {"callback", "bound", "found", "notFound", "confirmLocked"} =>
         job[r].flow \in Flows /\ flow.status \notin {"absent", "pending"}
    /\ pc[r] \in {"callback", "bound", "found", "notFound"} =>
         flow.provider \in Providers /\ config[flow.provider] = flow.config
    /\ pc[r] = "bound" => flow.purpose \in {"reauthenticate", "link_identity"}
    /\ pc[r] \in {"found", "notFound"} => flow.purpose \in {"login", "register"}
    /\ pc[r] \in {"bound", "found", "notFound"} =>
         job[r].identity \in Identities /\ Issuer[job[r].identity] = flow.provider
    /\ pc[r] = "found" => accounts[job[r].account].identity = job[r].identity

RequestInv == \A r \in Requests : Remembers(r)

\* The proof f is what Authorization has found it to be, but for its status,
\* its expiry and the session, which may change under the row lock of u.
HeldProof(f, u, operation, target) ==
  /\ f \in Flows /\ flows[f].purpose = "reauthenticate"
  /\ flows[f].user = u /\ flows[f].version = users[u].version
  /\ flows[f].operation = operation /\ flows[f].target = target
  /\ flows[f].account \in Accounts /\ HasAccount(u, flows[f].account)
  /\ accounts[flows[f].account].version = flows[f].accountVersion

\* What ConfirmLink, Unlink and SetPassword have checked under the row lock of
\* user u holds up to their commit.
HoldsLock(r) ==
  LET u == sessions[job[r].session].owner
      f == job[r].flow
  IN
    /\ pc[r] \in {"confirmLocked", "unlinkLocked", "passwordLocked"} => lock[u] = r
    /\ pc[r] = "confirmLocked" =>
         /\ flows[f].purpose = "link_identity" /\ flows[f].reauth = job[r].proof
         /\ flows[f].status \in {"verified", "consumed"}
         /\ HeldProof(job[r].proof, u, "link_account", flows[f].provider)
         /\ \/ \E a \in Accounts : HasIdentity(a, flows[f].identity) /\ HasAccount(u, a)
            \/ Cardinality(AccountsOf(u)) < MaxLoginAccounts
    /\ pc[r] = "unlinkLocked" =>
         /\ HasAccount(u, job[r].account)
         /\ HeldProof(job[r].proof, u, "unlink_account", job[r].account)
         /\ flows[job[r].proof].account # job[r].account
         /\ \E b \in AccountsOf(u) \ {job[r].account} : AccountEnabled(b)
    /\ pc[r] = "passwordLocked" =>
         IF job[r].account # NoOne THEN IsPasswordAccount(u, job[r].account)
         ELSE /\ HeldProof(job[r].proof, u, "set_password", "credential")
              /\ Cardinality(AccountsOf(u)) < MaxLoginAccounts

LockInv == \A r \in Requests : HoldsLock(r)

\* f is spent in this step as the proof of u for the operation on the target: it
\* is unexpired and of u's present version, and the account it was obtained
\* with is still what it was then.
Spent(f, u, operation, target) ==
  /\ flows[f].purpose = "reauthenticate" /\ flows[f].live
  /\ flows[f].status \in {"authorized", "claimed"} /\ flows'[f].status = "consumed"
  /\ flows[f].user = u /\ flows[f].version = users[u].version
  /\ flows[f].operation = operation /\ flows[f].target = target
  /\ HasAccount(u, flows[f].account)
  /\ accounts[flows[f].account].version = flows[f].accountVersion

\* An account is added to a user or taken from one only in a step that spends a
\* proof the user obtained for exactly that, with an account that is not the
\* one taken away; a linked identity was verified by the flow that had claimed
\* the proof.
ProofAuthorises == [][
  \A a \in Accounts :
    LET u == accounts'[a].owner
    IN /\ accounts[a].state = "absent" /\ accounts'[a].state = "enabled"
            /\ users[u].status # "absent" =>
         \E f \in Flows :
           \/ accounts'[a].identity = NoOne /\ Spent(f, u, "set_password", "credential")
           \/ /\ Spent(f, u, "link_account", accounts'[a].provider)
              /\ \E g \in Flows :
                   /\ flows[f].claimedBy = g /\ flows[g].reauth = f
                   /\ flows[g].status = "verified" /\ flows'[g].status = "consumed"
                   /\ flows[g].identity = accounts'[a].identity
       /\ accounts[a].state = "enabled" /\ accounts'[a].state = "revoked" =>
         \E f \in Flows : Spent(f, u, "unlink_account", a) /\ flows[f].account # a]_vars

\* A link flow and the proof it claimed stay together: the proof serves this
\* flow and no other, and both are spent in the same step or neither ever.
ProofsPaired ==
  \A f \in Flows : flows[f].purpose = "link_identity" =>
    LET proof == flows[flows[f].reauth]
    IN /\ proof.status \in {"claimed", "consumed"} /\ proof.claimedBy = f
       /\ proof.status = "consumed" <=> flows[f].status = "consumed"

Edges == {<<"absent", "pending">>, <<"absent", "authorized">>,
          <<"pending", "processing">>, <<"pending", "failed">>,
          <<"processing", "verified">>, <<"processing", "authorized">>,
          <<"processing", "consumed">>, <<"processing", "failed">>,
          <<"authorized", "claimed">>, <<"authorized", "consumed">>,
          <<"claimed", "consumed">>, <<"verified", "consumed">>}

\* A flow only moves forward, one edge at a time: a repeated or late callback
\* never reopens it, an expired flow can only be failed, and what it was opened
\* for never changes.
FlowsMoveForward == [][
  \A f \in Flows :
    /\ flows'[f].status # flows[f].status =>
         /\ <<flows[f].status, flows'[f].status>> \in Edges
         /\ flows[f].live \/ flows[f].status = "absent" \/ flows'[f].status = "failed"
    /\ flows[f].status # "absent" =>
         /\ flows'[f].live => flows[f].live
         /\ flows'[f] = [flows[f] EXCEPT !.status = flows'[f].status, !.live = flows'[f].live,
                            !.claimedBy = flows'[f].claimedBy, !.identity = flows'[f].identity]
    /\ flows[f].claimedBy # NoOne => flows'[f].claimedBy = flows[f].claimedBy
    /\ flows[f].identity # NoOne => flows'[f].identity = flows[f].identity]_vars

\* No user has more accounts than maxLoginAccounts, however many requests add
\* one at the same time.
AccountLimit == \A u \in Users : Cardinality(AccountsOf(u)) <= MaxLoginAccounts

\* Whoever loses an account keeps one that can be signed in with, also when two
\* requests remove two accounts at the same time.
UnlinkKeepsAccess == [][
  \A a \in Accounts : accounts[a].state = "enabled" /\ accounts'[a].state = "revoked" =>
    \E b \in Accounts : HasAccount(accounts[a].owner, b)' /\ AccountEnabled(b)']_vars

\* A session of a federated sign-in is opened only in the step that spends the
\* flow of a callback that was answered under the present configuration, for
\* the user who has the proved identity at that moment.
LoginBound == [][
  \A s \in Sessions :
    sessions[s].state = "absent" /\ sessions'[s].state = "live"
        /\ accounts'[sessions'[s].source].provider # "credential" =>
      LET account == accounts'[sessions'[s].source]
      IN /\ account.state = "enabled" /\ account.owner = sessions'[s].owner
         /\ Enabled(account.provider)
         /\ \E r \in Requests : LET f == job[r].flow IN
              /\ pc[r] \in {"found", "notFound"} /\ job[r].identity = account.identity
              /\ flows[f].live /\ flows[f].config = config[account.provider]
              /\ flows[f].status = "processing" /\ flows'[f].status = "consumed"]_vars

=============================================================================
