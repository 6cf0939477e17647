-------------------------- MODULE EmailChangeProofs -------------------------
(***************************************************************************)
(* Proofs about EmailChange.                                               *)
(*                                                                         *)
(* One lemma per table says what any step may do to a row of it.  They     *)
(* give the inductive invariant EmailInv: rows refer to rows in use, what  *)
(* a request found is in use still, and what VerifyChallenge checked under *)
(* the lock of the user's row holds until the commit.  The properties of   *)
(* the module follow.                                                      *)
(***************************************************************************)
EXTENDS EmailChange, TLAPS

\* Tables, locks and requests are consistent with each other.
EmailInv == TypeOK /\ RowsInUse /\ RequestInv

\* The empty rows and the empty job have their types.
LEMMA NoRows ==
    /\ NoUser \in UserRow /\ NoAccount \in AccountRow /\ NoSession \in SessionRow
    /\ NoFlow \in FlowRow /\ NoJob \in Job /\ NoChallenge \in ChallengeRow
<1>1. NoUser \in UserRow /\ NoAccount \in AccountRow /\ NoSession \in SessionRow
  BY DEF NoUser, NoAccount, NoSession, UserRow, AccountRow, SessionRow
<1>2. NoFlow \in FlowRow
  BY DEF NoFlow, FlowRow, FlowPurpose, FlowStatus, Targets
<1>3. NoJob \in Job
  BY DEF NoJob, Job, Targets
<1>4. NoChallenge \in ChallengeRow
  BY DEF NoChallenge, ChallengeRow
<1> QED BY <1>1, <1>2, <1>3, <1>4

\* The columns of rows and jobs have their types.
LEMMA Columns ==
    ASSUME TypeOK
    PROVE  /\ \A u \in Users : users[u] \in UserRow /\ users[u].version \in Nat
           /\ \A a \in Accounts : accounts[a] \in AccountRow /\ accounts[a].version \in Nat
           /\ \A s \in Sessions : /\ sessions[s] \in SessionRow
                                  /\ sessions[s].owner \in Users \union {NoOne}
           /\ \A f \in Flows : flows[f] \in FlowRow
           /\ \A c \in Challenges : challenges[c] \in ChallengeRow
           /\ \A r \in Requests : /\ job[r] \in Job /\ job[r].version \in Nat
                                  /\ job[r].accountVersion \in Nat
                                  /\ job[r].flow \in Flows \union {NoOne}
                                  /\ job[r].identity \in Identities \union {NoOne}
                                  /\ job[r].operation \in FlowOperation \union {NoOne}
                                  /\ job[r].target \in Targets
<1>1. \A u \in Users : users[u] \in UserRow /\ users[u].version \in Nat
  BY DEF TypeOK, UserRow
<1>2. \A a \in Accounts : accounts[a] \in AccountRow /\ accounts[a].version \in Nat
  BY DEF TypeOK, AccountRow
<1>3. \A s \in Sessions : sessions[s] \in SessionRow /\ sessions[s].owner \in Users \union {NoOne}
  BY DEF TypeOK, SessionRow
<1>4. /\ \A f \in Flows : flows[f] \in FlowRow
      /\ \A c \in Challenges : challenges[c] \in ChallengeRow
  BY DEF TypeOK
<1>5. \A r \in Requests : /\ job[r] \in Job /\ job[r].version \in Nat
                          /\ job[r].accountVersion \in Nat
                          /\ job[r].flow \in Flows \union {NoOne}
                          /\ job[r].identity \in Identities \union {NoOne}
                          /\ job[r].operation \in FlowOperation \union {NoOne}
                          /\ job[r].target \in Targets
  BY DEF TypeOK, Job
<1> QED BY <1>1, <1>2, <1>3, <1>4, <1>5

----------------------------------------------------------------------------
\* The steps, one table at a time

\* The steps that only read and remember
ReadStep(r) ==
  \/ \E s \in Sessions, a \in Accounts, operation \in Operations, target \in Targets :
       ReauthenticateRead(r, s, a, operation, target)
  \/ ReauthenticateCheck(r)
  \/ \E i \in Identities : BoundCheck(r, i)
  \/ \E c \in Challenges : VerifyRegister(r, c) \/ VerifyChange(r, c)
  \/ \E s \in Sessions, e \in Emails, f \in Flows : ChangeEmail(r, s, e, f)

\* The steps that write flows and no other table
FlowWrite ==
  \/ \E r \in Requests : \/ ReauthenticateInsert(r) \/ BoundCommit(r) \/ CallbackFails(r)
                         \/ \E f \in Flows : Callback(r, f)
  \/ \E f \in Flows : ExpireFlow(f)

\* The steps of the rest of the system that write users and sessions
TableWrite ==
  \/ \E s \in Sessions, u \in Users, a \in Accounts : PasswordLogin(s, u, a)
  \/ \E s \in Sessions : EndSession(s)
  \/ \E u \in Users, status \in {"active", "disabled"} : SetStatus(u, status)
  \/ \E u \in Users : AdminRevoke(u)

\* Sign-in through a provider writes users, accounts and sessions.
SignIn ==
  \E s \in Sessions, u \in Users, a \in Accounts :
    FederatedLogin(s, u, a) \/ \E i \in Identities : FederatedRegister(s, u, a, i)

\* The steps that write addresses or challenges
EmailWrite ==
  \/ \E u \in Users, e \in Emails : Register(u, e)
  \/ \E r \in Requests : \/ ChangeEmailCommit(r) \/ VerifyRegisterCommit(r)
                         \/ VerifyChangeCommit(r)
  \/ \E c \in Challenges : ExpireChallenge(c)

\* A step reads only, restarts the process, or writes what its kind allows.
LEMMA StepCases ==
    ASSUME [Next]_vars
    PROVE  \/ UNCHANGED vars
           \/ /\ UNCHANGED <<users, accounts, sessions, flows, config, address, challenges>>
              /\ \E r \in Requests : Fail(r) \/ ReadStep(r)
           \/ /\ UNCHANGED <<users, accounts, sessions, flows, address, challenges>>
              /\ \E c \in [Providers -> 0..MaxConfig] : Restart(c)
           \/ /\ UNCHANGED <<users, accounts, sessions, config, address, challenges>>
              /\ FlowWrite
           \/ /\ UNCHANGED <<accounts, flows, config, lock, pc, job, address, challenges>>
              /\ TableWrite
           \/ /\ UNCHANGED <<flows, config, lock, pc, job, address, challenges>>
              /\ SignIn
           \/ UNCHANGED config /\ EmailWrite
<1>1. ASSUME NEW r \in Requests, Fail(r) \/ ReadStep(r)
      PROVE  UNCHANGED <<users, accounts, sessions, flows, config>>
  BY <1>1
  DEF ReadStep, Fail, ReauthenticateRead, ReauthenticateCheck, BoundCheck, VerifyRegister,
      VerifyChange, ChangeEmail, tables
<1>2. ASSUME NEW c, Restart(c) PROVE UNCHANGED <<users, accounts, sessions, flows>>
  BY <1>2 DEF Restart, tables
<1>3. ASSUME FlowWrite PROVE UNCHANGED <<users, accounts, sessions, config>>
  BY <1>3
  DEF FlowWrite, ReauthenticateInsert, BoundCommit, CallbackFails, Callback, ExpireFlow, tables
<1>4. ASSUME TableWrite PROVE UNCHANGED <<accounts, flows, config, lock, pc, job>>
  BY <1>4 DEF TableWrite, PasswordLogin, EndSession, SetStatus, AdminRevoke
<1>5. ASSUME EmailWrite PROVE UNCHANGED config
  BY <1>5
  DEF EmailWrite, Register, ChangeEmailCommit, VerifyRegisterCommit, VerifyChangeCommit,
      ExpireChallenge, flowVars
<1>6. FlowNext => \/ \E r \in Requests : Fail(r) \/ ReadStep(r)
                  \/ \E c \in [Providers -> 0..MaxConfig] : Restart(c)
                  \/ FlowWrite \/ TableWrite
  BY DEF FlowNext, ReadStep, FlowWrite, TableWrite
<1>7. ASSUME NEW r \in Requests,
             \/ \E c \in Challenges : VerifyRegister(r, c) \/ VerifyChange(r, c)
             \/ \E s \in Sessions, e \in Emails, f \in Flows : ChangeEmail(r, s, e, f)
      PROVE  ReadStep(r) /\ UNCHANGED <<address, challenges>>
  BY <1>7 DEF ReadStep, VerifyRegister, VerifyChange, ChangeEmail
<1>8. \/ UNCHANGED vars
      \/ FlowNext /\ UNCHANGED <<address, challenges>>
      \/ \E r \in Requests : ReadStep(r) /\ UNCHANGED <<address, challenges>>
      \/ SignIn \/ EmailWrite
  BY <1>7 DEF Next, SignIn, EmailWrite
<1>9. ASSUME SignIn PROVE UNCHANGED <<flows, config, lock, pc, job, address, challenges>>
  BY <1>9 DEF SignIn, FederatedLogin, FederatedRegister, OpenSession
<1> QED BY <1>1, <1>2, <1>3, <1>4, <1>5, <1>6, <1>8, <1>9

\* The user behind a challenge that a request holds is in use, and so is the
\* request's session.
LEMMA Held ==
    ASSUME EmailInv, NEW r \in Requests
    PROVE  /\ pc[r] \in {"registerLocked", "changeLocked"} =>
                /\ job[r].challenge \in Challenges /\ challenges[job[r].challenge].state # "absent"
                /\ challenges[job[r].challenge].owner \in Users
                /\ users[challenges[job[r].challenge].owner].status # "absent"
                /\ challenges[job[r].challenge].email \in Emails
                /\ lock[challenges[job[r].challenge].owner] = r
           /\ pc[r] \in {"reauthRead", "reauthChecked", "emailChecked"} =>
                /\ job[r].session \in Sessions /\ sessions[job[r].session].state # "absent"
                /\ sessions[job[r].session].owner \in Users
BY DEF EmailInv, RowsInUse, RequestInv, Remembers, HoldsLock

\* The commits that act for user u under the lock of its row
Commits(r, u) ==
  /\ pc[r] \in {"registerLocked", "changeLocked"} /\ pc'[r] = "idle"
  /\ u = challenges[job[r].challenge].owner /\ lock[u] = r
  /\ VerifyRegisterCommit(r) \/ VerifyChangeCommit(r)

\* A row of users is inserted, by a registration or with its account by a sign-in
\* through a provider, or changed while nobody holds its lock, or by a commit of
\* whoever does.
UserMove(u) ==
  \/ users'[u] = users[u]
  \/ users[u].status = "absent" /\ users'[u].status = "pending"
  \/ /\ users[u].status = "absent" /\ users'[u].status = "active" /\ users'[u].verified = FALSE
     /\ \E a \in Accounts : /\ accounts'[a].state # "absent" /\ accounts'[a].owner = u
                            /\ accounts'[a].provider \in Providers
     /\ UNCHANGED <<address, challenges>>
  \/ /\ users[u].status # "absent" /\ lock[u] = NoOne
     /\ users'[u].verified = users[u].verified
     /\ \/ users'[u].status = users[u].status
        \/ {users[u].status, users'[u].status} \subseteq {"active", "disabled"}
  \/ /\ users[u].status # "absent" /\ users'[u].status = "active" /\ users'[u].verified = TRUE
     /\ \E r \in Requests : Commits(r, u)

\* Every step moves the rows of users in this way.
LEMMA UserMoves ==
    ASSUME EmailInv, [Next]_vars
    PROVE  users' \in [Users -> UserRow] /\ \A u \in Users : UserMove(u)
<1> DEFINE Moves == users' \in [Users -> UserRow] /\ \A u \in Users : UserMove(u)
<1>0. TypeOK /\ users \in [Users -> UserRow] /\ pc \in [Requests -> PC]
  BY DEF EmailInv, TypeOK
<1>1. ASSUME UNCHANGED users PROVE Moves
  BY <1>0, <1>1 DEF UserMove
<1>2. ASSUME NEW u \in Users, NEW status \in {"active", "disabled"}, SetStatus(u, status) PROVE Moves
  <2>1. /\ users[u].status \in {"active", "disabled"} /\ lock[u] = NoOne
        /\ users' = [users EXCEPT ![u].status = status, ![u].version = @ + 1]
    BY <1>2 DEF SetStatus
  <2>2. users' \in [Users -> UserRow]
    BY <1>0, <2>1 DEF UserRow
  <2>3. /\ users'[u].status = status /\ users'[u].verified = users[u].verified
        /\ \A v \in Users : v # u => users'[v] = users[v]
    BY <1>0, <2>1 DEF UserRow
  <2>4. UserMove(u)
    BY <2>1, <2>3 DEF UserMove
  <2> QED BY <2>2, <2>3, <2>4 DEF UserMove
<1>3. ASSUME NEW u \in Users, AdminRevoke(u) PROVE Moves
  <2>1. /\ users[u].status # "absent" /\ lock[u] = NoOne
        /\ users' = [users EXCEPT ![u].version = @ + 1]
    BY <1>3 DEF AdminRevoke, Invalidate
  <2>2. users' \in [Users -> UserRow]
    BY <1>0, <2>1 DEF UserRow
  <2>3. /\ users'[u].status = users[u].status /\ users'[u].verified = users[u].verified
        /\ \A v \in Users : v # u => users'[v] = users[v]
    BY <1>0, <2>1 DEF UserRow
  <2> QED BY <2>1, <2>2, <2>3 DEF UserMove
<1>4. ASSUME NEW u \in Users, NEW e \in Emails, Register(u, e) PROVE Moves
  <2>1. CASE UNCHANGED users
    BY <1>1, <2>1
  <2>2. CASE ~UNCHANGED users
    <3>1. /\ users[u] = NoUser
          /\ users' = [users EXCEPT ![u] = [status |-> "pending", version |-> 1, verified |-> FALSE]]
      BY <1>4, <2>2 DEF Register, NewUser
    <3>2. [status |-> "pending", version |-> 1, verified |-> FALSE] \in UserRow
      BY DEF UserRow
    <3>3. users[u].status = "absent"
      BY <3>1 DEF NoUser
    <3> QED BY <1>0, <3>1, <3>2, <3>3 DEF UserMove
  <2> QED BY <2>1, <2>2
<1>5. ASSUME NEW r \in Requests, VerifyRegisterCommit(r) PROVE Moves
  <2>1. PICK u : u = challenges[job[r].challenge].owner
    OBVIOUS
  <2>2. /\ pc[r] = "registerLocked" /\ Done(r)
        /\ users' = [users EXCEPT ![u].status = "active", ![u].verified = TRUE]
    BY <1>5, <2>1 DEF VerifyRegisterCommit
  <2>3. u \in Users /\ users[u].status # "absent" /\ lock[u] = r
    BY <2>1, <2>2, Held
  <2>4. pc'[r] = "idle"
    BY <1>0, <2>2 DEF Done
  <2>5. users' \in [Users -> UserRow]
    BY <1>0, <2>2 DEF UserRow
  <2>6. /\ users'[u].status = "active" /\ users'[u].verified = TRUE
        /\ \A v \in Users : v # u => users'[v] = users[v]
    BY <1>0, <2>2, <2>3 DEF UserRow
  <2>7. Commits(r, u)
    BY <1>5, <2>1, <2>2, <2>3, <2>4 DEF Commits
  <2> QED BY <2>3, <2>5, <2>6, <2>7 DEF UserMove
<1>6. ASSUME NEW r \in Requests, VerifyChangeCommit(r) PROVE Moves
  <2>1. PICK u, e : u = challenges[job[r].challenge].owner /\ e = challenges[job[r].challenge].email
    OBVIOUS
  <2>2. /\ pc[r] = "changeLocked" /\ Done(r) /\ users[u].status = "active"
        /\ \A v \in Users : Releases(v, e) => lock[v] = NoOne
        /\ users' = [v \in Users |->
             IF v = u THEN [users[u] EXCEPT !.verified = TRUE, !.version = users[u].version + 1]
             ELSE IF Releases(v, e) THEN [users[v] EXCEPT !.version = users[v].version + 1]
             ELSE users[v]]
    BY <1>6, <2>1 DEF VerifyChangeCommit
  <2>3. u \in Users /\ lock[u] = r
    BY <2>1, <2>2, Held
  <2>4. pc'[r] = "idle"
    BY <1>0, <2>2 DEF Done
  <2>5. \A v \in Users : /\ [users[v] EXCEPT !.verified = TRUE, !.version = users[v].version + 1] \in UserRow
                         /\ [users[v] EXCEPT !.version = users[v].version + 1] \in UserRow
    <3>1. ASSUME NEW row \in UserRow, NEW n \in Nat
          PROVE  [row EXCEPT !.verified = TRUE, !.version = n] \in UserRow
      BY DEF UserRow
    <3>2. ASSUME NEW row \in UserRow, NEW n \in Nat PROVE [row EXCEPT !.version = n] \in UserRow
      BY DEF UserRow
    <3>3. \A v \in Users : users[v] \in UserRow /\ users[v].version + 1 \in Nat
      BY <1>0, Columns
    <3> QED BY <3>1, <3>2, <3>3
  <2>6. users' \in [Users -> UserRow]
    BY <1>0, <2>2, <2>5
  <2>7. users'[u] = [users[u] EXCEPT !.verified = TRUE, !.version = users[u].version + 1]
    BY <2>2, <2>3
  <2>8. users'[u].status = "active" /\ users'[u].verified = TRUE
    <3>1. PICK before \in UserRow : before = users[u]
      BY <1>0, <2>3
    <3>2. users'[u] = [before EXCEPT !.verified = TRUE, !.version = before.version + 1]
      BY <2>7, <3>1
    <3> QED BY <2>2, <3>1, <3>2 DEF UserRow
  <2>9. Commits(r, u)
    BY <1>6, <2>1, <2>2, <2>3, <2>4 DEF Commits
  <2>10. ASSUME NEW v \in Users, v # u PROVE UserMove(v)
    <3>1. CASE Releases(v, e)
      <4>1. users'[v] = [users[v] EXCEPT !.version = users[v].version + 1]
        BY <2>2, <2>10, <3>1
      <4>2. users'[v].status = users[v].status /\ users'[v].verified = users[v].verified
        BY <1>0, <4>1 DEF UserRow
      <4>3. lock[v] = NoOne /\ users[v].status # "absent"
        BY <2>2, <3>1 DEF Releases
      <4> QED BY <4>2, <4>3 DEF UserMove
    <3>2. CASE ~Releases(v, e)
      BY <2>2, <2>10, <3>2 DEF UserMove
    <3> QED BY <3>1, <3>2
  <2>11. UserMove(u)
    BY <2>2, <2>8, <2>9 DEF UserMove
  <2> QED BY <2>6, <2>10, <2>11
<1> HIDE DEF Moves
<1>7. ASSUME TableWrite PROVE Moves
  BY <1>1, <1>2, <1>3, <1>7 DEF TableWrite, PasswordLogin, EndSession
<1>8. ASSUME EmailWrite PROVE Moves
  BY <1>1, <1>4, <1>5, <1>6, <1>8
  DEF EmailWrite, ChangeEmailCommit, ExpireChallenge, tables, flowVars
<1>9. ASSUME NEW s \in Sessions, NEW u \in Users, NEW a \in Accounts, NEW i \in Identities,
             FederatedRegister(s, u, a, i)
      PROVE  Moves
  <2>1. /\ users[u] = NoUser /\ UNCHANGED <<address, challenges>>
        /\ users' = [users EXCEPT ![u] = [status |-> "active", version |-> 1, verified |-> FALSE]]
        /\ accounts' = [accounts EXCEPT ![a] = [state |-> "enabled", owner |-> u,
                           provider |-> Issuer[i], identity |-> i, version |-> 1]]
    BY <1>9 DEF FederatedRegister, ProviderUser, ProviderAccount, NewUser, OpenSession
  <2>2. [status |-> "active", version |-> 1, verified |-> FALSE] \in UserRow
    BY DEF UserRow
  <2>3. users[u].status = "absent"
    BY <2>1 DEF NoUser
  <2>4. Issuer[i] \in Providers
    BY FlowConstants
  <2>5. accounts \in [Accounts -> AccountRow]
    BY <1>0 DEF TypeOK
  <2>6. /\ accounts'[a].state # "absent" /\ accounts'[a].owner = u
        /\ accounts'[a].provider \in Providers
    BY <2>1, <2>4, <2>5
  <2>7. /\ users' \in [Users -> UserRow] /\ users'[u].status = "active" /\ users'[u].verified = FALSE
        /\ \A v \in Users : v # u => users'[v] = users[v]
    BY <1>0, <2>1, <2>2
  <2>8. UserMove(u)
    BY <2>1, <2>3, <2>6, <2>7 DEF UserMove
  <2> QED BY <2>7, <2>8 DEF UserMove, Moves
<1>10. ASSUME SignIn PROVE Moves
  BY <1>1, <1>9, <1>10 DEF SignIn, FederatedLogin
<1>11. Moves
  BY <1>1, <1>7, <1>8, <1>10, StepCases DEF vars, flowVars
<1> QED BY <1>11 DEF Moves

\* An address is taken by its user's commit, or given up by a registration, of
\* whose row nobody holds the lock, to the user whose commit takes it.
AddressMove(u) ==
  \/ address'[u] = address[u]
  \/ users[u].status = "absent" /\ users'[u].status # "absent"
  \/ \E r \in Requests :
       /\ VerifyChangeCommit(r) /\ Commits(r, u)
       /\ address'[u] = challenges[job[r].challenge].email
  \/ /\ address'[u] = NoOne /\ lock[u] = NoOne
     /\ users[u].status = "pending" /\ \A a \in Accounts : accounts[a].owner # u
     /\ \E r \in Requests, v \in Users \ {u} :
          /\ VerifyChangeCommit(r) /\ Commits(r, v)
          /\ address'[v] = address[u] /\ address[u] = challenges[job[r].challenge].email

\* Every step moves addresses in this way.
LEMMA AddressStep ==
    ASSUME EmailInv, [Next]_vars
    PROVE  address' \in [Users -> Emails \union {NoOne}] /\ \A u \in Users : AddressMove(u)
<1> DEFINE Moves == address' \in [Users -> Emails \union {NoOne}] /\ \A u \in Users : AddressMove(u)
<1>0. address \in [Users -> Emails \union {NoOne}] /\ pc \in [Requests -> PC]
      /\ users \in [Users -> UserRow]
  BY DEF EmailInv, TypeOK
<1>1. ASSUME UNCHANGED address PROVE Moves
  BY <1>0, <1>1 DEF AddressMove
<1>2. ASSUME NEW u \in Users, NEW e \in Emails, Register(u, e) PROVE Moves
  <2>1. CASE UNCHANGED address
    BY <1>1, <2>1
  <2>2. CASE ~UNCHANGED address
    <3>1. /\ users[u] = NoUser /\ address' = [address EXCEPT ![u] = e]
          /\ users' = [users EXCEPT ![u] = [status |-> "pending", version |-> 1, verified |-> FALSE]]
      BY <1>2, <2>2 DEF Register, NewUser
    <3>2. users[u].status = "absent" /\ users'[u].status = "pending"
      BY <1>0, <3>1 DEF NoUser
    <3> QED BY <1>0, <3>1, <3>2 DEF AddressMove
  <2> QED BY <2>1, <2>2
<1>3. ASSUME NEW r \in Requests, VerifyChangeCommit(r) PROVE Moves
  <2>1. PICK u, e : u = challenges[job[r].challenge].owner /\ e = challenges[job[r].challenge].email
    OBVIOUS
  <2>2. /\ pc[r] = "changeLocked" /\ Done(r)
        /\ \A v \in Users : Releases(v, e) => lock[v] = NoOne
        /\ address' = [v \in Users |-> IF v = u THEN e ELSE IF Releases(v, e) THEN NoOne
                                                            ELSE address[v]]
    BY <1>3, <2>1 DEF VerifyChangeCommit
  <2>3. u \in Users /\ lock[u] = r /\ e \in Emails
    BY <2>1, <2>2, Held
  <2>4. pc'[r] = "idle"
    BY <1>0, <2>2 DEF Done
  <2>5. Commits(r, u)
    BY <1>3, <2>1, <2>2, <2>3, <2>4 DEF Commits
  <2>6. address' \in [Users -> Emails \union {NoOne}] /\ address'[u] = e
    BY <1>0, <2>2, <2>3
  <2>7. AddressMove(u)
    BY <1>3, <2>1, <2>5, <2>6 DEF AddressMove
  <2>8. ASSUME NEW v \in Users, v # u PROVE AddressMove(v)
    <3>1. CASE Releases(v, e)
      <4>1. address'[v] = NoOne /\ lock[v] = NoOne
        BY <2>2, <2>8, <3>1
      <4>2. /\ users[v].status = "pending" /\ address[v] = e
            /\ \A a \in Accounts : accounts[a].owner # v
        BY <3>1 DEF Releases
      <4>3. u \in Users \ {v}
        BY <2>3, <2>8
      <4> QED BY <1>3, <2>1, <2>5, <2>6, <4>1, <4>2, <4>3 DEF AddressMove
    <3>2. CASE ~Releases(v, e)
      BY <2>2, <2>8, <3>2 DEF AddressMove
    <3> QED BY <3>1, <3>2
  <2> QED BY <2>6, <2>7, <2>8
<1> HIDE DEF Moves
<1>4. ASSUME EmailWrite PROVE Moves
  BY <1>1, <1>2, <1>3, <1>4
  DEF EmailWrite, ChangeEmailCommit, VerifyRegisterCommit, ExpireChallenge
<1>5. Moves
  BY <1>1, <1>4, StepCases DEF vars
<1> QED BY <1>5 DEF Moves

\* A session in use stays one, of the same user.
SessionMove(s) ==
  /\ sessions'[s].state # "absent" =>
       sessions'[s].owner \in Users /\ users'[sessions'[s].owner].status # "absent"
  /\ sessions[s].state # "absent" =>
       sessions'[s].state # "absent" /\ sessions'[s].owner = sessions[s].owner

\* Every step moves sessions in this way.
LEMMA SessionMoves ==
    ASSUME EmailInv, [Next]_vars
    PROVE  sessions' \in [Sessions -> SessionRow] /\ \A s \in Sessions : SessionMove(s)
<1> DEFINE Moves == sessions' \in [Sessions -> SessionRow] /\ \A s \in Sessions : SessionMove(s)
<1>0. /\ sessions \in [Sessions -> SessionRow]
      /\ \A s \in Sessions : sessions[s].state # "absent" =>
           sessions[s].owner \in Users /\ users'[sessions[s].owner].status # "absent"
  <2>1. \A u \in Users : users[u].status # "absent" => users'[u].status # "absent"
    BY UserMoves DEF UserMove
  <2> QED BY <2>1 DEF EmailInv, TypeOK, RowsInUse
<1>1. ASSUME UNCHANGED sessions PROVE Moves
  BY <1>0, <1>1 DEF SessionMove
<1>2. ASSUME NEW s \in Sessions, NEW u \in Users, NEW a \in Accounts, NEW n \in Nat,
             sessions[s] = NoSession, users'[u].status # "absent",
             sessions' = [sessions EXCEPT ![s] = [state |-> "live", owner |-> u,
                                                  version |-> n, source |-> a]]
      PROVE  Moves
  <2> DEFINE new == [state |-> "live", owner |-> u, version |-> n, source |-> a]
  <2>1. new \in SessionRow /\ new.owner = u
    BY DEF SessionRow
  <2>2. sessions[s].state = "absent"
    BY <1>2 DEF NoSession
  <2>3. sessions' = [sessions EXCEPT ![s] = new]
    BY <1>2
  <2> HIDE DEF new
  <2> QED BY <1>0, <1>2, <2>1, <2>2, <2>3 DEF SessionMove
<1>3. ASSUME NEW s \in Sessions, EndSession(s) PROVE Moves
  <2>1. sessions[s].state = "live" /\ sessions' = [sessions EXCEPT ![s].state = "ended"]
    BY <1>3 DEF EndSession
  <2>2. sessions' \in [Sessions -> SessionRow]
    BY <1>0, <2>1 DEF SessionRow
  <2>3. /\ sessions'[s].state = "ended" /\ sessions'[s].owner = sessions[s].owner
        /\ \A t \in Sessions : t # s => sessions'[t] = sessions[t]
    BY <1>0, <2>1 DEF SessionRow
  <2> QED BY <1>0, <2>1, <2>2, <2>3 DEF SessionMove
<1>4. ASSUME NEW u \in Users, users[u].status # "absent",
             sessions' = [s \in Sessions |-> IF sessions[s].owner = u
                            THEN [sessions[s] EXCEPT !.state = "ended"] ELSE sessions[s]]
      PROVE  Moves
  <2>1. \A s \in Sessions : /\ [sessions[s] EXCEPT !.state = "ended"] \in SessionRow
                            /\ [sessions[s] EXCEPT !.state = "ended"].state = "ended"
                            /\ [sessions[s] EXCEPT !.state = "ended"].owner = sessions[s].owner
    BY <1>0 DEF SessionRow
  <2>2. ASSUME NEW s \in Sessions
        PROVE  /\ sessions'[s] \in SessionRow /\ sessions'[s].owner = sessions[s].owner
               /\ sessions[s].owner = u => sessions'[s].state = "ended"
               /\ sessions[s].owner # u => sessions'[s] = sessions[s]
    <3>1. CASE sessions[s].owner = u
      BY <1>4, <2>1, <3>1
    <3>2. CASE sessions[s].owner # u
      BY <1>0, <1>4, <3>2
    <3> QED BY <3>1, <3>2
  <2>3. sessions' \in [Sessions -> SessionRow]
    BY <1>4, <2>2
  <2>4. users'[u].status # "absent"
    BY <1>4, UserMoves DEF UserMove
  <2> QED BY <1>0, <2>2, <2>3, <2>4 DEF SessionMove
<1>5. ASSUME NEW r \in Requests, VerifyChangeCommit(r) PROVE Moves
  <2>1. /\ challenges[job[r].challenge].owner \in Users
        /\ users[challenges[job[r].challenge].owner].status # "absent"
    BY <1>5, Held DEF VerifyChangeCommit
  <2> QED BY <1>4, <1>5, <2>1 DEF VerifyChangeCommit
<1> HIDE DEF Moves
<1>6. ASSUME TableWrite PROVE Moves
  <2>1. ASSUME NEW s \in Sessions, NEW u \in Users, NEW a \in Accounts, PasswordLogin(s, u, a)
        PROVE  Moves
    <3>1. users[u].version \in Nat /\ users' = users /\ users[u].status = "active"
      BY <2>1, Columns DEF PasswordLogin, EmailInv
    <3> QED BY <1>2, <2>1, <3>1 DEF PasswordLogin, NewSession
  <2> QED BY <1>3, <1>4, <1>6, <2>1 DEF TableWrite, SetStatus, AdminRevoke, Invalidate
<1>7. ASSUME EmailWrite PROVE Moves
  BY <1>1, <1>5, <1>7
  DEF EmailWrite, Register, ChangeEmailCommit, VerifyRegisterCommit, ExpireChallenge, tables, flowVars
<1>8. ASSUME SignIn PROVE Moves
  <2>1. ASSUME NEW s \in Sessions, NEW u \in Users, NEW a \in Accounts, FederatedLogin(s, u, a)
        PROVE  Moves
    <3>1. users[u].version \in Nat /\ users' = users /\ users[u].status = "active"
      BY <2>1, Columns DEF FederatedLogin, EmailInv
    <3> QED BY <1>2, <2>1, <3>1 DEF FederatedLogin, OpenSession, NewSession
  <2>2. ASSUME NEW s \in Sessions, NEW u \in Users, NEW a \in Accounts, NEW i \in Identities,
               FederatedRegister(s, u, a, i)
        PROVE  Moves
    <3>1. users'[u].status # "absent"
      BY <2>2 DEF FederatedRegister, ProviderUser, EmailInv, TypeOK
    <3> QED BY <1>2, <2>2, <3>1 DEF FederatedRegister, OpenSession, NewSession
  <2> QED BY <1>8, <2>1, <2>2 DEF SignIn
<1>9. Moves
  BY <1>1, <1>6, <1>7, <1>8, StepCases DEF vars, flowVars
<1> QED BY <1>9 DEF Moves

\* Accounts come from registrations of both kinds and stay with their user.
AccountMove(a) ==
  /\ accounts'[a].state # "absent" => accounts'[a].provider \in Providers \union {"credential"}
  /\ accounts[a].state # "absent" =>
       /\ accounts'[a].state # "absent" /\ accounts'[a].owner = accounts[a].owner
       /\ accounts'[a].provider = accounts[a].provider

\* Every step moves accounts in this way.
LEMMA AccountMoves ==
    ASSUME EmailInv, [Next]_vars
    PROVE  accounts' \in [Accounts -> AccountRow] /\ \A a \in Accounts : AccountMove(a)
<1> DEFINE Moves == accounts' \in [Accounts -> AccountRow] /\ \A a \in Accounts : AccountMove(a)
<1>0. /\ accounts \in [Accounts -> AccountRow]
      /\ \A a \in Accounts : accounts[a].state # "absent" =>
           accounts[a].provider \in Providers \union {"credential"}
  BY DEF EmailInv, TypeOK, RowsInUse
<1>1. ASSUME UNCHANGED accounts PROVE Moves
  BY <1>0, <1>1 DEF AccountMove
<1>2. ASSUME NEW a \in Accounts, accounts[a] = NoAccount, NEW new \in AccountRow,
             new.provider \in Providers \union {"credential"},
             accounts' = [accounts EXCEPT ![a] = new]
      PROVE  Moves
  <2>1. accounts[a].state = "absent"
    BY <1>2 DEF NoAccount
  <2> QED BY <1>0, <1>2, <2>1 DEF AccountMove
<1>3. ASSUME NEW r \in Requests, VerifyRegisterCommit(r) PROVE Moves
  <2>1. PICK u : u = challenges[job[r].challenge].owner
    OBVIOUS
  <2> DEFINE new == [state |-> "enabled", owner |-> u, provider |-> "credential",
                     identity |-> NoOne, version |-> 1]
  <2>2. u \in Users
    BY <1>3, <2>1, Held DEF VerifyRegisterCommit
  <2>3. PICK a \in Accounts : accounts[a] = NoAccount /\ accounts' = [accounts EXCEPT ![a] = new]
    BY <1>3, <2>1 DEF VerifyRegisterCommit, NewAccount
  <2>4. new \in AccountRow /\ new.provider = "credential"
    BY <2>2 DEF AccountRow
  <2> HIDE DEF new, Moves
  <2> QED BY <1>2, <2>3, <2>4
<1>4. ASSUME NEW s \in Sessions, NEW u \in Users, NEW a \in Accounts, NEW i \in Identities,
             FederatedRegister(s, u, a, i)
      PROVE  Moves
  <2> DEFINE new == [state |-> "enabled", owner |-> u, provider |-> Issuer[i],
                     identity |-> i, version |-> 1]
  <2>1. Issuer[i] \in Providers
    BY FlowConstants
  <2>2. accounts[a] = NoAccount /\ accounts' = [accounts EXCEPT ![a] = new]
    BY <1>4 DEF FederatedRegister, ProviderAccount, NewAccount
  <2>3. new \in AccountRow /\ new.provider \in Providers
    BY <2>1 DEF AccountRow
  <2> HIDE DEF new, Moves
  <2> QED BY <1>2, <2>2, <2>3
<1> HIDE DEF Moves
<1>5. ASSUME EmailWrite PROVE Moves
  BY <1>1, <1>3, <1>5
  DEF EmailWrite, Register, ChangeEmailCommit, VerifyChangeCommit, ExpireChallenge, tables, flowVars
<1>6. ASSUME SignIn PROVE Moves
  BY <1>1, <1>4, <1>6 DEF SignIn, FederatedLogin
<1>7. Moves
  BY <1>1, <1>5, <1>6, StepCases DEF vars, flowVars
<1> QED BY <1>7 DEF Moves

\* What a challenge was issued for never changes.
SameChallenge(c) ==
  /\ challenges'[c].owner = challenges[c].owner /\ challenges'[c].purpose = challenges[c].purpose
  /\ challenges'[c].email = challenges[c].email /\ challenges'[c].version = challenges[c].version
  /\ challenges'[c].session = challenges[c].session /\ challenges'[c].reauth = challenges[c].reauth

\* A challenge is issued for a user in use, one of registration for a pending one,
\* and leaves the state open once.
ChallengeMove(c) ==
  \/ challenges'[c] = challenges[c]
  \/ SameChallenge(c) /\ challenges[c].state = "open" /\ challenges'[c].state \in {"spent", "expired"}
  \/ /\ challenges[c].state = "absent"
     /\ challenges'[c].owner \in Users /\ users'[challenges'[c].owner].status # "absent"
     /\ challenges'[c].email \in Emails
     /\ challenges'[c].purpose = "register" => users'[challenges'[c].owner].status = "pending"
     /\ challenges'[c].purpose = "change_email" =>
          /\ challenges'[c].reauth \in Flows /\ challenges'[c].session \in Sessions
          /\ sessions'[challenges'[c].session].state # "absent"
          /\ sessions'[challenges'[c].session].owner = challenges'[c].owner

\* One row of challenges leaves the state open.
LEMMA ClosedChallenge ==
    ASSUME EmailInv, NEW c \in Challenges, CanConsume(c), NEW st \in {"spent", "expired"},
           challenges' = [challenges EXCEPT ![c].state = st]
    PROVE  /\ challenges' \in [Challenges -> ChallengeRow]
           /\ \A d \in Challenges : ChallengeMove(d)
           /\ challenges'[c].state = st /\ SameChallenge(c)
<1>0. challenges \in [Challenges -> ChallengeRow]
  BY DEF EmailInv, TypeOK
<1>1. PICK before \in ChallengeRow : before = challenges[c]
  BY <1>0
<1>2. [before EXCEPT !.state = st] \in ChallengeRow
  BY DEF ChallengeRow
<1>3. challenges'[c] = [before EXCEPT !.state = st]
      /\ \A d \in Challenges : d # c => challenges'[d] = challenges[d]
  BY <1>0, <1>1
<1>4. challenges' \in [Challenges -> ChallengeRow]
  BY <1>0, <1>1, <1>2
<1>5. challenges'[c].state = st /\ SameChallenge(c)
  BY <1>1, <1>3 DEF SameChallenge, ChallengeRow
<1> QED BY <1>3, <1>4, <1>5 DEF ChallengeMove, CanConsume

\* Every step moves challenges in this way.
LEMMA ChallengeMoves ==
    ASSUME EmailInv, [Next]_vars
    PROVE  challenges' \in [Challenges -> ChallengeRow] /\ \A c \in Challenges : ChallengeMove(c)
<1> DEFINE Moves == challenges' \in [Challenges -> ChallengeRow]
                    /\ \A c \in Challenges : ChallengeMove(c)
<1>0. challenges \in [Challenges -> ChallengeRow] /\ users \in [Users -> UserRow]
  BY DEF EmailInv, TypeOK
<1>1. ASSUME UNCHANGED challenges PROVE Moves
  BY <1>0, <1>1 DEF ChallengeMove
<1>2. ASSUME NEW u \in Users, NEW e \in Emails, Register(u, e) PROVE Moves
  <2>1. users' \in [Users -> UserRow] /\ users'[u].version \in Nat
    BY UserMoves DEF UserRow
  <2>2. users'[u].status = "pending"
    <3>1. CASE UNCHANGED users /\ users[u].status = "pending"
      BY <3>1
    <3>2. CASE users' = [users EXCEPT ![u] = [status |-> "pending", version |-> 1, verified |-> FALSE]]
      BY <1>0, <3>2
    <3> QED BY <1>2, <3>1, <3>2 DEF Register
  <2>3. PICK n \in Nat : n = users'[u].version
    BY <2>1
  <2> DEFINE new == [NoChallenge EXCEPT !.state = "open", !.owner = u, !.purpose = "register",
                                        !.email = e, !.version = n]
  <2>4. PICK c \in Challenges : /\ challenges[c] = NoChallenge
                                /\ challenges' = [challenges EXCEPT ![c] = new]
    BY <1>2, <2>3 DEF Register, NewChallenge
  <2>5. new \in ChallengeRow /\ new.owner = u /\ new.email = e /\ new.purpose = "register"
    BY DEF ChallengeRow, NoChallenge
  <2>6. challenges[c].state = "absent"
    BY <2>4 DEF NoChallenge
  <2> HIDE DEF new
  <2>7. challenges' \in [Challenges -> ChallengeRow] /\ challenges'[c] = new
        /\ \A d \in Challenges : d # c => challenges'[d] = challenges[d]
    BY <1>0, <2>4, <2>5
  <2> QED BY <2>2, <2>5, <2>6, <2>7 DEF ChallengeMove
<1>3. ASSUME NEW r \in Requests, ChangeEmailCommit(r) PROVE Moves
  <2>1. PICK s, u, f, e, n : /\ s = job[r].session /\ u = sessions[s].owner /\ f = job[r].proof
                             /\ e = job[r].target /\ n = job[r].version
    OBVIOUS
  <2> DEFINE new == [state |-> "open", owner |-> u, purpose |-> "change_email", email |-> e,
                     version |-> n, session |-> s, reauth |-> f]
  <2>2. pc[r] = "emailChecked" /\ UNCHANGED <<users, sessions>>
    BY <1>3 DEF ChangeEmailCommit, tables
  <2>3. s \in Sessions /\ sessions[s].state # "absent" /\ u \in Users
    BY <2>1, <2>2, Held
  <2>4. e \in Emails /\ f \in Flows /\ n \in Nat
    BY <2>1, <2>2, Columns DEF EmailInv, RequestInv, Remembers
  <2>5. users[u].status # "absent"
    BY <2>1, <2>3 DEF EmailInv, RowsInUse
  <2>6. PICK c \in Challenges : /\ challenges[c] = NoChallenge
                                /\ challenges' = [challenges EXCEPT ![c] = new]
    BY <1>3, <2>1 DEF ChangeEmailCommit, NewChallenge
  <2>7. /\ new \in ChallengeRow /\ new.owner = u /\ new.email = e
        /\ new.purpose = "change_email" /\ new.reauth = f /\ new.session = s
    BY <2>3, <2>4 DEF ChallengeRow
  <2>8. challenges[c].state = "absent"
    BY <2>6 DEF NoChallenge
  <2> HIDE DEF new
  <2>9. challenges' \in [Challenges -> ChallengeRow] /\ challenges'[c] = new
        /\ \A d \in Challenges : d # c => challenges'[d] = challenges[d]
    BY <1>0, <2>6, <2>7
  <2>10. ChallengeMove(c)
    BY <2>1, <2>2, <2>3, <2>4, <2>5, <2>7, <2>8, <2>9 DEF ChallengeMove
  <2> QED BY <2>9, <2>10 DEF ChallengeMove
<1>4. ASSUME NEW r \in Requests, VerifyRegisterCommit(r) \/ VerifyChangeCommit(r) PROVE Moves
  <2>1. PICK c : c = job[r].challenge
    OBVIOUS
  <2>2. /\ pc[r] \in {"registerLocked", "changeLocked"} /\ CanConsume(c)
        /\ challenges' = [challenges EXCEPT ![c].state = "spent"]
    BY <1>4, <2>1 DEF VerifyRegisterCommit, VerifyChangeCommit, Consume
  <2>3. c \in Challenges
    BY <2>1, <2>2, Held
  <2> QED BY <2>2, <2>3, ClosedChallenge
<1>5. ASSUME NEW c \in Challenges, ExpireChallenge(c) PROVE Moves
  BY <1>5, ClosedChallenge DEF ExpireChallenge
<1> HIDE DEF Moves
<1>6. ASSUME EmailWrite PROVE Moves
  BY <1>2, <1>3, <1>4, <1>5, <1>6 DEF EmailWrite
<1>7. Moves
  BY <1>1, <1>6, StepCases DEF vars
<1> QED BY <1>7 DEF Moves

----------------------------------------------------------------------------
\* What a flow was opened for never changes, and once it is claimed it stays
\* with whoever claimed it.
SameFlow(f) ==
  /\ flows'[f].purpose = flows[f].purpose /\ flows'[f].user = flows[f].user
  /\ flows'[f].session = flows[f].session /\ flows'[f].version = flows[f].version
  /\ flows'[f].operation = flows[f].operation /\ flows'[f].target = flows[f].target
  /\ flows[f].status \in {"claimed", "consumed"} =>
       flows'[f].status \in {"claimed", "consumed"} /\ flows'[f].claimedBy = flows[f].claimedBy

FlowMove(f) == flows[f].status = "absent" \/ SameFlow(f)

\* A flow changes its status and no other column.
LEMMA MovedRow ==
    ASSUME EmailInv, NEW f \in Flows, NEW st \in FlowStatus, flows' = Moved(f, st),
           flows[f].status \in {"claimed", "consumed"} => st \in {"claimed", "consumed"}
    PROVE  /\ flows' \in [Flows -> FlowRow] /\ \A g \in Flows : FlowMove(g)
           /\ flows'[f].status = st /\ SameFlow(f)
<1>0. flows \in [Flows -> FlowRow]
  BY DEF EmailInv, TypeOK
<1>1. PICK before \in FlowRow : before = flows[f]
  BY <1>0
<1>2. [before EXCEPT !.status = st] \in FlowRow
  BY DEF FlowRow
<1>3. /\ flows'[f] = [before EXCEPT !.status = st]
      /\ \A g \in Flows : g # f => flows'[g] = flows[g]
  BY <1>0, <1>1 DEF Moved
<1>4. flows' \in [Flows -> FlowRow]
  BY <1>0, <1>1, <1>2 DEF Moved
<1>5. flows'[f].status = st /\ SameFlow(f)
  BY <1>1, <1>3 DEF SameFlow, FlowRow
<1> QED BY <1>3, <1>4, <1>5 DEF FlowMove, SameFlow

\* Every step moves flows in this way.
LEMMA FlowMoves ==
    ASSUME EmailInv, [Next]_vars
    PROVE  flows' \in [Flows -> FlowRow] /\ \A f \in Flows : FlowMove(f)
<1> DEFINE Moves == flows' \in [Flows -> FlowRow] /\ \A f \in Flows : FlowMove(f)
<1>0. flows \in [Flows -> FlowRow] /\ \A r \in Requests : Remembers(r)
  BY DEF EmailInv, TypeOK, RequestInv
<1>1. ASSUME UNCHANGED flows PROVE Moves
  BY <1>0, <1>1 DEF FlowMove, SameFlow
<1>2. ASSUME NEW r \in Requests, ReauthenticateInsert(r) PROVE Moves
  <2>1. PICK s, a, u : s = job[r].session /\ a = job[r].account /\ u = sessions[s].owner
    OBVIOUS
  <2>2. pc[r] = "reauthChecked"
    BY <1>2 DEF ReauthenticateInsert
  <2>3. /\ s \in Sessions /\ u \in Users /\ a \in Accounts /\ accounts[a].state # "absent"
    BY <1>0, <2>1, <2>2, Held DEF Remembers
  <2>4. PICK p, st, q, v : /\ p = accounts[a].provider
                           /\ st = IF p = "credential" THEN "authorized" ELSE "pending"
                           /\ q = IF p = "credential" THEN NoOne ELSE p
                           /\ v = IF p = "credential" THEN 0 ELSE config[p]
    OBVIOUS
  <2>5. PICK f \in Flows :
          /\ NewFlow(f)
          /\ flows' = [flows EXCEPT ![f] =
               [NoFlow EXCEPT !.purpose = "reauthenticate", !.live = TRUE,
                  !.status = st, !.provider = q, !.config = v,
                  !.user = u, !.session = s, !.version = job[r].version,
                  !.account = a, !.accountVersion = job[r].accountVersion,
                  !.operation = job[r].operation, !.target = job[r].target]]
    BY <1>2, <2>1, <2>4 DEF ReauthenticateInsert
  <2>6. PICK n \in Nat, m \in Nat, o \in FlowOperation \union {NoOne}, t \in Targets :
          /\ n = job[r].version /\ m = job[r].accountVersion
          /\ o = job[r].operation /\ t = job[r].target
    BY Columns DEF EmailInv
  <2> DEFINE new == [NoFlow EXCEPT !.purpose = "reauthenticate", !.live = TRUE,
                  !.status = st, !.provider = q, !.config = v,
                  !.user = u, !.session = s, !.version = n,
                  !.account = a, !.accountVersion = m, !.operation = o, !.target = t]
  <2>7. new \in FlowRow
    <3>1. p \in Providers \union {"credential"} /\ config \in [Providers -> Nat]
      BY <2>3, <2>4 DEF EmailInv, RowsInUse, TypeOK
    <3>2. st \in FlowStatus /\ q \in Providers \union {NoOne} /\ v \in Nat
      BY <2>4, <3>1 DEF FlowStatus
    <3> QED BY <2>3, <2>6, <3>2 DEF NoFlow, FlowRow, FlowPurpose
  <2>8. flows' = [flows EXCEPT ![f] = new]
    BY <2>5, <2>6
  <2>9. flows[f].status = "absent"
    BY <2>5 DEF NewFlow, NoFlow
  <2> HIDE DEF new
  <2> QED BY <1>0, <2>7, <2>8, <2>9 DEF FlowMove, SameFlow
<1>3. ASSUME NEW r \in Requests, NEW f \in Flows, Callback(r, f) PROVE Moves
  <2>1. "processing" \in FlowStatus
    BY DEF FlowStatus
  <2> QED BY <1>3, <2>1, MovedRow DEF Callback, CanClaimFlow
<1>4. ASSUME NEW r \in Requests, CallbackFails(r) PROVE Moves
  <2>1. PICK f : f = job[r].flow
    OBVIOUS
  <2>2. flows' = FailFlow(f) /\ pc[r] \in {"callback", "bound", "found", "notFound"}
    BY <1>4, <2>1 DEF CallbackFails
  <2>3. pc[r] \in PC
    BY DEF EmailInv, TypeOK
  <2>4. f \in Flows
    BY <1>0, <2>1, <2>2, <2>3 DEF Remembers, PC
  <2>5. "failed" \in FlowStatus
    BY DEF FlowStatus
  <2> QED BY <1>1, <2>2, <2>4, <2>5, MovedRow DEF FailFlow
<1>5. ASSUME NEW r \in Requests, BoundCommit(r) PROVE Moves
  <2>0. PICK i \in Identities \union {NoOne} : i = job[r].identity
    BY Columns DEF EmailInv
  <2>1. PICK f, st :
          /\ f = job[r].flow
          /\ st = IF flows[f].purpose = "reauthenticate" THEN "authorized" ELSE "verified"
    OBVIOUS
  <2>2. /\ pc[r] = "bound" /\ flows[f].status = "processing"
        /\ flows' = [flows EXCEPT ![f].identity = i, ![f].status = st]
    BY <1>5, <2>0, <2>1 DEF BoundCommit, CanVerifyFlow
  <2>3. f \in Flows /\ st \in FlowStatus
    BY <1>0, <2>1, <2>2 DEF Remembers, FlowStatus
  <2>4. PICK before \in FlowRow : before = flows[f]
    BY <1>0, <2>3
  <2>5. [before EXCEPT !.identity = i, !.status = st] \in FlowRow
    BY <2>3 DEF FlowRow
  <2>6. /\ flows'[f] = [before EXCEPT !.identity = i, !.status = st]
        /\ \A g \in Flows : g # f => flows'[g] = flows[g]
    BY <1>0, <2>2, <2>3, <2>4
  <2>7. flows' \in [Flows -> FlowRow]
    BY <1>0, <2>2, <2>4, <2>5
  <2>8. SameFlow(f)
    <3>1. /\ flows'[f].purpose = before.purpose /\ flows'[f].user = before.user
          /\ flows'[f].session = before.session /\ flows'[f].version = before.version
          /\ flows'[f].operation = before.operation /\ flows'[f].target = before.target
      BY <2>6 DEF FlowRow
    <3> QED BY <2>2, <2>4, <3>1 DEF SameFlow
  <2> QED BY <2>6, <2>7, <2>8 DEF FlowMove, SameFlow
<1>6. ASSUME NEW f \in Flows, ExpireFlow(f) PROVE Moves
  <2>1. flows' = [flows EXCEPT ![f].live = FALSE]
    BY <1>6 DEF ExpireFlow
  <2>2. PICK before \in FlowRow : before = flows[f]
    BY <1>0
  <2>3. [before EXCEPT !.live = FALSE] \in FlowRow
    BY DEF FlowRow
  <2>4. /\ flows'[f] = [before EXCEPT !.live = FALSE]
        /\ \A g \in Flows : g # f => flows'[g] = flows[g]
    BY <1>0, <2>1, <2>2
  <2>5. flows' \in [Flows -> FlowRow]
    BY <1>0, <2>1, <2>2, <2>3
  <2>6. SameFlow(f)
    BY <2>2, <2>4 DEF SameFlow, FlowRow
  <2> QED BY <2>4, <2>5, <2>6 DEF FlowMove, SameFlow
<1>7. ASSUME NEW r \in Requests, ChangeEmailCommit(r) PROVE Moves
  <2>1. PICK f : f = job[r].proof
    OBVIOUS
  <2>2. pc[r] = "emailChecked" /\ flows[f].status = "authorized"
    BY <1>7, <2>1 DEF ChangeEmailCommit, CanClaimAuthorization
  <2>3. f \in Flows
    BY <1>0, <2>1, <2>2 DEF Remembers
  <2>4. PICK c \in Challenges : flows' = [flows EXCEPT ![f].status = "claimed", ![f].claimedBy = c]
    BY <1>7, <2>1 DEF ChangeEmailCommit
  <2>5. PICK before \in FlowRow : before = flows[f]
    BY <1>0, <2>3
  <2>6. [before EXCEPT !.status = "claimed", !.claimedBy = c] \in FlowRow
    BY DEF FlowRow, FlowStatus
  <2>7. /\ flows'[f] = [before EXCEPT !.status = "claimed", !.claimedBy = c]
        /\ \A g \in Flows : g # f => flows'[g] = flows[g]
    BY <1>0, <2>3, <2>4, <2>5
  <2>8. flows' \in [Flows -> FlowRow]
    BY <1>0, <2>4, <2>5, <2>6
  <2>9. SameFlow(f)
    BY <2>2, <2>5, <2>7 DEF SameFlow, FlowRow
  <2> QED BY <2>7, <2>8, <2>9 DEF FlowMove, SameFlow
<1>8. ASSUME NEW r \in Requests, VerifyChangeCommit(r) PROVE Moves
  <2>1. pc[r] = "changeLocked" /\ flows' = Moved(job[r].proof, "consumed")
    BY <1>8 DEF VerifyChangeCommit
  <2>2. job[r].proof \in Flows
    BY <2>1 DEF EmailInv, RequestInv, HoldsLock
  <2>3. "consumed" \in FlowStatus
    BY DEF FlowStatus
  <2> QED BY <2>1, <2>2, <2>3, MovedRow
<1> HIDE DEF Moves
<1>9. ASSUME FlowWrite PROVE Moves
  BY <1>2, <1>3, <1>4, <1>5, <1>6, <1>9 DEF FlowWrite
<1>10. ASSUME EmailWrite PROVE Moves
  BY <1>1, <1>7, <1>8, <1>10
  DEF EmailWrite, Register, VerifyRegisterCommit, ExpireChallenge, flowVars
<1>11. Moves
  BY <1>1, <1>9, <1>10, StepCases DEF vars, flowVars
<1> QED BY <1>11 DEF Moves

----------------------------------------------------------------------------
\* Requests and locks

\* The steps after which a request has more to do
Continues(r) == ReadStep(r) \/ \E f \in Flows : Callback(r, f)

\* Such a step is a Goto with a typed job.
LEMMA ContinueStep ==
    ASSUME EmailInv, NEW r \in Requests, Continues(r)
    PROVE  \E label \in PC, j \in Job : Goto(r, label, j)
<1> DEFINE Goes == \E label \in PC, j \in Job : Goto(r, label, j)
<1>0. TypeOK /\ job[r] \in Job
  BY DEF EmailInv, TypeOK
<1>1. ASSUME NEW s \in Sessions, NEW a \in Accounts, NEW operation \in Operations,
             NEW target \in Targets, ReauthenticateRead(r, s, a, operation, target)
      PROVE  Goes
  <2>1. PICK u : u = sessions[s].owner
    OBVIOUS
  <2>2. ValidSession(s)
    BY <1>1 DEF ReauthenticateRead
  <2>3. PICK n \in Nat, m \in Nat : n = users[u].version /\ m = accounts[a].version
    BY <1>0, <2>1, <2>2, Columns DEF ValidSession
  <2>4. Goto(r, "reauthRead", [NoJob EXCEPT !.session = s, !.version = n,
                                !.account = a, !.accountVersion = m,
                                !.operation = operation, !.target = target])
    BY <1>1, <2>1, <2>3 DEF ReauthenticateRead
  <2>5. operation \in FlowOperation
    BY FlowConstants
  <2>6. [NoJob EXCEPT !.session = s, !.version = n, !.account = a, !.accountVersion = m,
                      !.operation = operation, !.target = target] \in Job
    BY <2>5 DEF NoJob, Job
  <2> QED BY <2>4, <2>6 DEF PC
<1>2. ASSUME ReauthenticateCheck(r) PROVE Goes
  <2>1. PICK u : u = sessions[job[r].session].owner
    OBVIOUS
  <2>2. /\ ValidSession(job[r].session) /\ pc[r] = "reauthRead"
        /\ Goto(r, "reauthChecked", [job[r] EXCEPT !.version = users[u].version])
    BY <1>2, <2>1 DEF ReauthenticateCheck
  <2>3. users[u].version \in Nat
    BY <1>0, <2>1, <2>2, Held, Columns
  <2>4. [job[r] EXCEPT !.version = users[u].version] \in Job
    BY <1>0, <2>3 DEF Job
  <2> QED BY <2>2, <2>4 DEF PC
<1>3. ASSUME NEW i \in Identities, BoundCheck(r, i) PROVE Goes
  <2>1. [job[r] EXCEPT !.identity = i] \in Job
    BY <1>0 DEF Job
  <2> QED BY <1>3, <2>1 DEF BoundCheck, PC
<1>4. ASSUME NEW c \in Challenges, VerifyRegister(r, c) PROVE Goes
  <2>1. [NoJob EXCEPT !.challenge = c] \in Job
    BY NoRows DEF Job
  <2> QED BY <1>4, <2>1 DEF VerifyRegister, PC
<1>5. ASSUME NEW c \in Challenges, VerifyChange(r, c) PROVE Goes
  <2>1. PICK f \in Flows \union {NoOne} : f = challenges[c].reauth
    BY <1>0, Columns DEF ChallengeRow
  <2>2. [NoJob EXCEPT !.challenge = c, !.proof = f] \in Job
    BY NoRows DEF Job
  <2> QED BY <1>5, <2>1, <2>2 DEF VerifyChange, PC
<1>6. ASSUME NEW s \in Sessions, NEW e \in Emails, NEW f \in Flows, ChangeEmail(r, s, e, f)
      PROVE  Goes
  <2>1. ValidSession(s)
    BY <1>6 DEF ChangeEmail
  <2>2. PICK n \in Nat : n = users[sessions[s].owner].version
    BY <1>0, <2>1, Columns DEF ValidSession
  <2>3. [NoJob EXCEPT !.session = s, !.proof = f, !.target = e, !.version = n] \in Job
    BY DEF NoJob, Job, Targets
  <2> QED BY <1>6, <2>2, <2>3 DEF ChangeEmail, PC
<1>7. ASSUME NEW f \in Flows, Callback(r, f) PROVE Goes
  <2>1. [NoJob EXCEPT !.flow = f] \in Job
    BY NoRows DEF Job
  <2> QED BY <1>7, <2>1 DEF Callback, PC
<1> HIDE DEF Goes
<1>8. Goes
  BY <1>1, <1>2, <1>3, <1>4, <1>5, <1>6, <1>7 DEF Continues, ReadStep
<1> QED BY <1>8 DEF Goes

\* The steps with which a transaction of a request ends, well or not
Ends(r) ==
  \/ Fail(r) \/ ReauthenticateInsert(r) \/ BoundCommit(r) \/ CallbackFails(r)
  \/ ChangeEmailCommit(r) \/ VerifyRegisterCommit(r) \/ VerifyChangeCommit(r)

\* Of all requests at most one takes a step, unless the process restarts.
LEMMA OneRequest ==
    ASSUME [Next]_vars
    PROVE  \/ UNCHANGED <<pc, job, lock>>
           \/ \E c \in [Providers -> 0..MaxConfig] : Restart(c)
           \/ \E r \in Requests : Ends(r) \/ Continues(r)
<1>1. ASSUME TableWrite PROVE UNCHANGED <<pc, job, lock>>
  BY <1>1 DEF TableWrite, PasswordLogin, EndSession, SetStatus, AdminRevoke
<1>2. ASSUME FlowWrite
      PROVE  UNCHANGED <<pc, job, lock>> \/ \E r \in Requests : Ends(r) \/ Continues(r)
  BY <1>2 DEF FlowWrite, ExpireFlow, Ends, Continues
<1>3. ASSUME EmailWrite
      PROVE  UNCHANGED <<pc, job, lock>> \/ \E r \in Requests : Ends(r) \/ Continues(r)
  BY <1>3 DEF EmailWrite, Register, ExpireChallenge, Ends, flowVars
<1> QED BY <1>1, <1>2, <1>3, StepCases DEF vars, flowVars, Ends, Continues

\* How a step that ends or continues a request leaves the locks
LEMMA LockSteps ==
    ASSUME NEW r \in Requests
    PROVE  /\ Ends(r) => Done(r) /\ (UNCHANGED lock \/ Unlock(r))
           /\ Continues(r) => UNCHANGED lock \/ \E u : LockUser(r, u)
<1>1. Ends(r) => Done(r) /\ (UNCHANGED lock \/ Unlock(r))
  BY DEF Ends, Fail, ReauthenticateInsert, BoundCommit, CallbackFails, ChangeEmailCommit,
         VerifyRegisterCommit, VerifyChangeCommit
<1>2. Continues(r) => UNCHANGED lock \/ \E u : LockUser(r, u)
  BY DEF Continues, ReadStep, ReauthenticateRead, ReauthenticateCheck, BoundCheck, VerifyRegister,
         VerifyChange, ChangeEmail, Callback
<1> QED BY <1>1, <1>2

\* A request goes on, ends or is left alone, and whoever goes on keeps the
\* locks it has.
LEMMA RequestMoves ==
    ASSUME EmailInv, [Next]_vars
    PROVE  /\ pc' \in [Requests -> PC] /\ job' \in [Requests -> Job]
           /\ lock' \in [Users -> Requests \union {NoOne}]
           /\ \A r \in Requests : \/ pc'[r] = "idle"
                                  \/ pc'[r] = pc[r] /\ job'[r] = job[r]
                                  \/ Continues(r)
           /\ \A r \in Requests, u \in Users : lock[u] = r /\ pc'[r] # "idle" => lock'[u] = r
<1> DEFINE Moves ==
      /\ pc' \in [Requests -> PC] /\ job' \in [Requests -> Job]
      /\ lock' \in [Users -> Requests \union {NoOne}]
      /\ \A r \in Requests : \/ pc'[r] = "idle"
                             \/ pc'[r] = pc[r] /\ job'[r] = job[r]
                             \/ Continues(r)
      /\ \A r \in Requests, u \in Users : lock[u] = r /\ pc'[r] # "idle" => lock'[u] = r
<1>0. /\ pc \in [Requests -> PC] /\ job \in [Requests -> Job]
      /\ lock \in [Users -> Requests \union {NoOne}]
  BY DEF EmailInv, TypeOK
<1>1. ASSUME UNCHANGED <<pc, job, lock>> PROVE Moves
  BY <1>0, <1>1
<1>2. ASSUME NEW c, Restart(c) PROVE Moves
  BY <1>0, <1>2, NoRows DEF Restart, PC
<1>3. ASSUME NEW r \in Requests, Ends(r) PROVE Moves
  <2>1. Done(r) /\ (UNCHANGED lock \/ Unlock(r))
    BY <1>3, LockSteps
  <2>2. /\ pc' \in [Requests -> PC] /\ job' \in [Requests -> Job] /\ pc'[r] = "idle"
        /\ \A q \in Requests : q # r => pc'[q] = pc[q] /\ job'[q] = job[q]
    BY <1>0, <2>1, NoRows DEF Done, PC
  <2>3. /\ lock' \in [Users -> Requests \union {NoOne}]
        /\ \A u \in Users : lock'[u] = lock[u] \/ lock[u] = r
    BY <1>0, <2>1 DEF Unlock
  <2> QED BY <2>2, <2>3
<1>4. ASSUME NEW r \in Requests, Continues(r) PROVE Moves
  <2>1. PICK label \in PC, j \in Job : Goto(r, label, j)
    BY <1>4, ContinueStep
  <2>2. /\ pc' \in [Requests -> PC] /\ job' \in [Requests -> Job]
        /\ \A q \in Requests : q # r => pc'[q] = pc[q] /\ job'[q] = job[q]
    BY <1>0, <2>1 DEF Goto
  <2>3. /\ lock' \in [Users -> Requests \union {NoOne}]
        /\ \A u \in Users : lock'[u] = lock[u] \/ lock[u] = NoOne
    BY <1>0, <1>4, LockSteps DEF LockUser
  <2>4. NoOne \notin Requests
    BY FlowConstants
  <2> QED BY <1>4, <2>2, <2>3, <2>4
<1> HIDE DEF Moves
<1>5. Moves
  BY <1>1, <1>2, <1>3, <1>4, OneRequest
<1> QED BY <1>5 DEF Moves

----------------------------------------------------------------------------
\* The inductive invariant

\* Rows in use stay in use.
LEMMA RowsStay ==
    ASSUME EmailInv, [Next]_vars
    PROVE  /\ \A u \in Users : users[u].status # "absent" => users'[u].status # "absent"
           /\ \A a \in Accounts : accounts[a].state # "absent" => accounts'[a].state # "absent"
           /\ \A s \in Sessions : sessions[s].state # "absent" =>
                sessions'[s].state # "absent" /\ sessions'[s].owner = sessions[s].owner
           /\ \A c \in Challenges : challenges[c].state # "absent" =>
                challenges'[c].state # "absent" /\ SameChallenge(c)
<1>1. \A u \in Users : users[u].status # "absent" => users'[u].status # "absent"
  BY UserMoves DEF UserMove
<1>2. /\ \A a \in Accounts : accounts[a].state # "absent" => accounts'[a].state # "absent"
      /\ \A s \in Sessions : sessions[s].state # "absent" =>
                sessions'[s].state # "absent" /\ sessions'[s].owner = sessions[s].owner
  BY AccountMoves, SessionMoves DEF AccountMove, SessionMove
<1>3. \A c \in Challenges : challenges[c].state # "absent" =>
        challenges'[c].state # "absent" /\ SameChallenge(c)
  BY ChallengeMoves DEF ChallengeMove, SameChallenge
<1> QED BY <1>1, <1>2, <1>3

\* Rows keep referring to rows in use.
LEMMA RowsStep ==
    ASSUME EmailInv, [Next]_vars
    PROVE  RowsInUse'
<1>1. ASSUME NEW u \in Users, users'[u].status = "absent" PROVE address'[u] = NoOne
  <2>1. users[u].status = "absent"
    BY <1>1, RowsStay
  <2>2. address[u] = NoOne
    BY <2>1 DEF EmailInv, RowsInUse
  <2>3. \A r \in Requests : ~Commits(r, u)
    BY <2>1, Held DEF Commits
  <2> QED BY <1>1, <2>1, <2>2, <2>3, AddressStep DEF AddressMove
<1>2. \A a \in Accounts : accounts'[a].state # "absent" =>
        accounts'[a].provider \in Providers \union {"credential"}
  BY AccountMoves DEF AccountMove
<1>3. \A s \in Sessions : sessions'[s].state # "absent" =>
        sessions'[s].owner \in Users /\ users'[sessions'[s].owner].status # "absent"
  BY SessionMoves, RowsStay DEF SessionMove
<1>4. ASSUME NEW c \in Challenges, challenges'[c].state # "absent"
      PROVE  /\ challenges'[c].owner \in Users /\ users'[challenges'[c].owner].status # "absent"
             /\ challenges'[c].email \in Emails
             /\ challenges'[c].purpose = "change_email" =>
                  /\ challenges'[c].reauth \in Flows /\ challenges'[c].session \in Sessions
                  /\ sessions'[challenges'[c].session].state # "absent"
                  /\ sessions'[challenges'[c].session].owner = challenges'[c].owner
  <2>1. CASE challenges[c].state # "absent"
    <3>1. SameChallenge(c)
      BY <2>1, RowsStay
    <3>2. /\ challenges[c].owner \in Users /\ users[challenges[c].owner].status # "absent"
          /\ challenges[c].email \in Emails
          /\ challenges[c].purpose = "change_email" =>
               /\ challenges[c].reauth \in Flows /\ challenges[c].session \in Sessions
               /\ sessions[challenges[c].session].state # "absent"
               /\ sessions[challenges[c].session].owner = challenges[c].owner
      BY <2>1 DEF EmailInv, RowsInUse
    <3> QED BY <3>1, <3>2, RowsStay DEF SameChallenge
  <2>2. CASE challenges[c].state = "absent"
    BY <1>4, <2>2, ChallengeMoves DEF ChallengeMove
  <2> QED BY <2>1, <2>2
<1> QED BY <1>1, <1>2, <1>3, <1>4 DEF RowsInUse

\* While a request holds the lock of a user's row and goes on, nobody else
\* changes the row or its address.
LEMMA UnderLock ==
    ASSUME EmailInv, [Next]_vars, NEW r \in Requests, NEW u \in Users, lock[u] = r,
           users[u].status # "absent", pc'[r] # "idle"
    PROVE  lock'[u] = r /\ users'[u] = users[u] /\ address'[u] = address[u]
<1>1. lock'[u] = r
  BY RequestMoves
<1>2. lock[u] # NoOne
  BY FlowConstants
<1>3. \A q \in Requests : ~Commits(q, u)
  BY DEF Commits
<1>4. users'[u] = users[u]
  BY <1>2, <1>3, UserMoves DEF UserMove
<1>5. address'[u] = address[u]
  BY <1>2, <1>3, AddressStep DEF AddressMove
<1> QED BY <1>1, <1>4, <1>5

\* A request that is left alone keeps what it remembers and has checked.
LEMMA WaitStep ==
    ASSUME EmailInv, [Next]_vars, NEW r \in Requests,
           pc'[r] = pc[r], job'[r] = job[r], pc[r] # "idle"
    PROVE  Remembers(r)' /\ HoldsLock(r)'
<1>0. Remembers(r) /\ HoldsLock(r)
  BY DEF EmailInv, RequestInv
<1>1. Remembers(r)'
  BY <1>0, RowsStay DEF Remembers
<1>2. CASE pc[r] \in {"registerLocked", "changeLocked"}
  <2>1. PICK c, u : c = job[r].challenge /\ u = challenges[c].owner
    OBVIOUS
  <2>2. /\ c \in Challenges /\ challenges[c].state # "absent"
        /\ u \in Users /\ users[u].status # "absent" /\ lock[u] = r
    BY <1>2, <2>1, Held
  <2>3. SameChallenge(c)
    BY <2>2, RowsStay
  <2>4. lock'[u] = r /\ users'[u] = users[u] /\ address'[u] = address[u]
    BY <2>2, UnderLock
  <2>5. users[u].version = challenges[c].version
    BY <1>0, <1>2, <2>1 DEF HoldsLock
  <2>6. pc[r] = "registerLocked" => address[u] = challenges[c].email
    BY <1>0, <2>1 DEF HoldsLock
  <2>7. ASSUME pc[r] = "changeLocked"
        PROVE  /\ job[r].proof \in Flows /\ SameFlow(job[r].proof)
               /\ flows[job[r].proof].status \in {"claimed", "consumed"}
               /\ flows[job[r].proof].claimedBy = c
               /\ flows[job[r].proof].user = u /\ flows[job[r].proof].version = challenges[c].version
               /\ flows[job[r].proof].operation = "change_email"
               /\ flows[job[r].proof].target = challenges[c].email
    BY <1>0, <2>1, <2>7, FlowMoves DEF HoldsLock, FlowMove
  <2> QED BY <1>1, <2>1, <2>3, <2>4, <2>5, <2>6, <2>7 DEF HoldsLock, SameChallenge, SameFlow
<1>3. CASE pc[r] \notin {"registerLocked", "changeLocked"}
  BY <1>1, <1>3 DEF HoldsLock
<1> QED BY <1>2, <1>3

\* A request that goes on remembers what its step has read, and holds the lock
\* under which it was checked.
LEMMA ReadHolds ==
    ASSUME EmailInv, NEW r \in Requests, Continues(r)
    PROVE  Remembers(r)' /\ HoldsLock(r)'
<1> DEFINE Goal == Remembers(r)' /\ HoldsLock(r)'
<1>0. /\ TypeOK /\ job[r] \in Job /\ pc \in [Requests -> PC] /\ job \in [Requests -> Job]
      /\ lock \in [Users -> Requests \union {NoOne}] /\ Remembers(r) /\ RowsInUse
  BY DEF EmailInv, TypeOK, RequestInv
<1>1. ASSUME NEW s \in Sessions, NEW a \in Accounts, NEW operation \in Operations,
             NEW target \in Targets, ReauthenticateRead(r, s, a, operation, target)
      PROVE  Goal
  <2>1. /\ sessions[s].state # "absent" /\ accounts[a].state # "absent"
        /\ UNCHANGED <<sessions, accounts>>
    BY <1>1 DEF ReauthenticateRead, ValidSession, HasAccount, tables
  <2>2. pc'[r] = "reauthRead" /\ job'[r].session = s /\ job'[r].account = a
    BY <1>0, <1>1 DEF ReauthenticateRead, Goto, NoJob
  <2> QED BY <2>1, <2>2 DEF Remembers, HoldsLock
<1>2. ASSUME ReauthenticateCheck(r) PROVE Goal
  <2>1. pc[r] = "reauthRead" /\ UNCHANGED <<sessions, accounts>>
    BY <1>2 DEF ReauthenticateCheck, tables
  <2>2. pc'[r] = "reauthChecked" /\ job'[r].session = job[r].session /\ job'[r].account = job[r].account
    BY <1>0, <1>2 DEF ReauthenticateCheck, Goto, Job
  <2> QED BY <1>0, <2>1, <2>2 DEF Remembers, HoldsLock
<1>3. ASSUME NEW i \in Identities, BoundCheck(r, i) PROVE Goal
  <2>1. pc[r] = "callback"
    BY <1>3 DEF BoundCheck
  <2>2. pc'[r] = "bound" /\ job'[r].flow = job[r].flow
    BY <1>0, <1>3 DEF BoundCheck, Goto, Job
  <2> QED BY <1>0, <2>1, <2>2 DEF Remembers, HoldsLock
<1>4. ASSUME NEW f \in Flows, Callback(r, f) PROVE Goal
  <2>1. pc'[r] = "callback" /\ job'[r].flow = f
    BY <1>0, <1>4 DEF Callback, Goto, NoJob
  <2> QED BY <2>1 DEF Remembers, HoldsLock
<1>5. ASSUME NEW s \in Sessions, NEW e \in Emails, NEW f \in Flows, ChangeEmail(r, s, e, f)
      PROVE  Goal
  <2>1. sessions[s].state # "absent" /\ UNCHANGED sessions
    BY <1>5 DEF ChangeEmail, ValidSession, tables
  <2>2. pc'[r] = "emailChecked" /\ job'[r].session = s /\ job'[r].target = e /\ job'[r].proof = f
    BY <1>0, <1>5 DEF ChangeEmail, Goto, NoJob
  <2> QED BY <2>1, <2>2 DEF Remembers, HoldsLock
<1>6. ASSUME NEW c \in Challenges, VerifyRegister(r, c) PROVE Goal
  <2>1. PICK u : u = challenges[c].owner
    OBVIOUS
  <2>2. /\ challenges[c].state = "open" /\ LockUser(r, u)
        /\ users[u].version = challenges[c].version /\ address[u] = challenges[c].email
        /\ UNCHANGED <<users, address, challenges>>
    BY <1>6, <2>1 DEF VerifyRegister, CanConsume, tables
  <2>3. pc'[r] = "registerLocked" /\ job'[r].challenge = c
    BY <1>0, <1>6 DEF VerifyRegister, Goto, NoJob
  <2>4. u \in Users
    BY <1>0, <2>1, <2>2 DEF RowsInUse
  <2>5. lock'[u] = r
    BY <1>0, <2>2, <2>4 DEF LockUser
  <2> QED BY <2>1, <2>2, <2>3, <2>5 DEF Remembers, HoldsLock
<1>7. ASSUME NEW c \in Challenges, VerifyChange(r, c) PROVE Goal
  <2>1. PICK u, s, f, e : /\ u = challenges[c].owner /\ s = challenges[c].session
                          /\ f = challenges[c].reauth /\ e = challenges[c].email
    OBVIOUS
  <2>2. /\ challenges[c].state = "open" /\ challenges[c].purpose = "change_email" /\ LockUser(r, u)
        /\ users[u].version = challenges[c].version
        /\ Authorization(s, f, "change_email", e, c)
        /\ UNCHANGED <<users, flows, challenges>>
    BY <1>7, <2>1 DEF VerifyChange, CanConsume, tables
  <2>3. pc'[r] = "changeLocked" /\ job'[r].challenge = c /\ job'[r].proof = f
    BY <1>0, <1>7, <2>1 DEF VerifyChange, Goto, NoJob
  <2>4. u \in Users /\ f \in Flows /\ sessions[s].owner = u
    BY <1>0, <2>1, <2>2 DEF RowsInUse
  <2>5. lock'[u] = r
    BY <1>0, <2>2, <2>4 DEF LockUser
  <2>6. c # NoOne
    BY FlowConstants
  <2>7. /\ flows[f].status = "claimed" /\ flows[f].claimedBy = c
        /\ flows[f].user = u /\ flows[f].version = users[u].version
        /\ flows[f].operation = "change_email" /\ flows[f].target = e
    BY <2>2, <2>4, <2>6 DEF Authorization
  <2> QED BY <2>1, <2>2, <2>3, <2>4, <2>5, <2>7 DEF Remembers, HoldsLock
<1> HIDE DEF Goal
<1>8. Goal
  BY <1>1, <1>2, <1>3, <1>4, <1>5, <1>6, <1>7 DEF Continues, ReadStep
<1> QED BY <1>8 DEF Goal

\* Every step keeps the invariant.
LEMMA EmailStep ==
    ASSUME EmailInv, [Next]_vars
    PROVE  EmailInv'
<1>1. config' \in [Providers -> Nat]
  <2>0. config \in [Providers -> Nat] /\ MaxConfig \in Nat
    BY FlowConstants DEF EmailInv, TypeOK
  <2>1. ASSUME NEW c \in [Providers -> 0..MaxConfig], Restart(c) PROVE config' \in [Providers -> Nat]
    BY <2>0, <2>1 DEF Restart
  <2> QED BY <2>0, <2>1, StepCases DEF vars, flowVars
<1>2. TypeOK'
  BY <1>1, UserMoves, AccountMoves, SessionMoves, FlowMoves, AddressStep, ChallengeMoves,
     RequestMoves DEF TypeOK
<1>3. ASSUME NEW r \in Requests PROVE Remembers(r)' /\ HoldsLock(r)'
  <2>1. CASE pc'[r] = "idle"
    BY <2>1 DEF Remembers, HoldsLock
  <2>2. CASE pc'[r] = pc[r] /\ job'[r] = job[r] /\ pc[r] # "idle"
    BY <2>2, WaitStep
  <2>3. CASE Continues(r)
    BY <2>3, ReadHolds
  <2> QED BY <2>1, <2>2, <2>3, RequestMoves
<1> QED BY <1>2, <1>3, RowsStep DEF EmailInv, RequestInv

\* The tables, locks and requests of EmailChange stay consistent, for any number
\* of users, sessions, challenges and concurrent requests: types, references to
\* rows in use, and what VerifyChallenge and completeEmailChange checked under
\* the row lock.
THEOREM EmailConsistency == Spec => []EmailInv
<1>1. Init => EmailInv
  <2> SUFFICES ASSUME Init PROVE EmailInv
    OBVIOUS
  <2>1. config \in [Providers -> Nat]
    BY FlowConstants DEF Init
  <2>2. /\ pc \in [Requests -> PC] /\ lock \in [Users -> Requests \union {NoOne}]
        /\ address \in [Users -> Emails \union {NoOne}]
    BY DEF Init, PC
  <2>3. users \in [Users -> UserRow] /\ accounts \in [Accounts -> AccountRow]
    <3>1. CASE InitNobody
      BY <3>1, NoRows DEF InitNobody
    <3>2. CASE InitProviderUser
      <4>1. ProviderUser \in UserRow
        BY DEF ProviderUser, UserRow
      <4>2. \A u \in Users, i \in Identities : ProviderAccount(u, i) \in AccountRow
        BY FlowConstants DEF ProviderAccount, AccountRow
      <4> QED BY <3>2, <4>1, <4>2, NoRows DEF InitProviderUser
    <3> QED BY <3>1, <3>2 DEF Init
  <2>4. TypeOK
    BY <2>1, <2>2, <2>3, NoRows DEF Init, TypeOK
  <2>5. \A a \in Accounts : accounts[a].state # "absent" =>
          accounts[a].provider \in Providers \union {"credential"}
    <3>1. CASE InitNobody
      BY <3>1 DEF InitNobody, NoAccount
    <3>2. CASE InitProviderUser
      BY <3>2, FlowConstants DEF InitProviderUser, ProviderAccount, NoAccount
    <3> QED BY <3>1, <3>2 DEF Init
  <2>6. RowsInUse
    BY <2>5 DEF Init, RowsInUse, NoSession, NoChallenge
  <2>7. RequestInv
    BY DEF Init, RequestInv, Remembers, HoldsLock
  <2> QED BY <2>4, <2>6, <2>7 DEF EmailInv
<1> QED BY <1>1, EmailStep, PTL DEF Spec

----------------------------------------------------------------------------
\* Addresses

\* The commit of a registration or of a change spends a challenge that was
\* mailed to the address its user has afterwards.
LEMMA CommitConfirms ==
    ASSUME EmailInv, [Next]_vars, NEW r \in Requests, NEW u \in Users, Commits(r, u)
    PROVE  \E c \in Challenges :
             /\ c = job[r].challenge /\ address'[u] \in Emails
             /\ challenges[c].state = "open" /\ challenges'[c].state = "spent"
             /\ challenges[c].owner = u /\ challenges'[c].owner = u
             /\ challenges[c].email = address'[u] /\ challenges'[c].email = address'[u]
             /\ challenges[c].version = users[u].version
<1>1. PICK c : c = job[r].challenge
  OBVIOUS
<1>2. /\ pc[r] \in {"registerLocked", "changeLocked"} /\ u = challenges[c].owner
      /\ VerifyRegisterCommit(r) \/ VerifyChangeCommit(r)
  BY <1>1 DEF Commits
<1>3. c \in Challenges /\ challenges[c].email \in Emails
  BY <1>1, <1>2, Held
<1>4. CanConsume(c) /\ challenges' = [challenges EXCEPT ![c].state = "spent"]
  BY <1>1, <1>2 DEF VerifyRegisterCommit, VerifyChangeCommit, Consume
<1>5. challenges'[c].state = "spent" /\ SameChallenge(c)
  BY <1>3, <1>4, ClosedChallenge
<1>6. challenges[c].version = users[u].version
  BY <1>1, <1>2 DEF EmailInv, RequestInv, HoldsLock
<1>7. address'[u] = challenges[c].email
  <2>1. CASE VerifyRegisterCommit(r)
    <3>1. pc[r] = "registerLocked" /\ UNCHANGED address
      BY <2>1 DEF VerifyRegisterCommit
    <3>2. address[u] = challenges[c].email
      BY <1>1, <1>2, <3>1 DEF EmailInv, RequestInv, HoldsLock
    <3> QED BY <3>1, <3>2
  <2>2. CASE VerifyChangeCommit(r)
    BY <1>1, <1>2, <2>2 DEF VerifyChangeCommit
  <2> QED BY <1>2, <2>1, <2>2
<1> QED BY <1>1, <1>2, <1>3, <1>4, <1>5, <1>6, <1>7 DEF SameChallenge, CanConsume

\* Such a commit leaves its user with a confirmed address.
LEMMA CommitLeavesConfirmed ==
    ASSUME EmailInv, [Next]_vars, NEW r \in Requests, NEW u \in Users, Commits(r, u)
    PROVE  HasConfirmed(u)'
<1>1. users \in [Users -> UserRow]
  BY DEF EmailInv, TypeOK
<1>2. PICK before \in UserRow : before = users[u]
  BY <1>1
<1>3. u = challenges[job[r].challenge].owner /\ (VerifyRegisterCommit(r) \/ VerifyChangeCommit(r))
  BY DEF Commits
<1>4. users'[u].verified
  <2>1. CASE VerifyRegisterCommit(r)
    <3>1. users' = [users EXCEPT ![u].status = "active", ![u].verified = TRUE]
      BY <1>3, <2>1 DEF VerifyRegisterCommit
    <3>2. users'[u] = [before EXCEPT !.status = "active", !.verified = TRUE]
      BY <1>1, <1>2, <3>1
    <3> QED BY <3>2 DEF UserRow
  <2>2. CASE VerifyChangeCommit(r)
    <3>1. users'[u] = [before EXCEPT !.verified = TRUE, !.version = before.version + 1]
      BY <1>2, <1>3, <2>2 DEF VerifyChangeCommit
    <3> QED BY <3>1 DEF UserRow
  <2> QED BY <1>3, <2>1, <2>2
<1> QED BY <1>4, CommitConfirms DEF HasConfirmed

\* Whoever has a confirmed address and does not move it keeps the answer to it.
LEMMA ConfirmedStays ==
    ASSUME EmailInv, [Next]_vars, NEW u \in Users, HasConfirmed(u),
           users'[u].verified = users[u].verified, address'[u] = address[u]
    PROVE  HasConfirmed(u)'
<1>1. PICK c \in Challenges : /\ challenges[c].state = "spent" /\ challenges[c].owner = u
                              /\ challenges[c].email = address[u]
  BY DEF HasConfirmed
<1>2. challenges'[c] = challenges[c]
  BY <1>1, ChallengeMoves DEF ChallengeMove
<1>3. users[u].verified /\ address[u] \in Emails
  BY DEF HasConfirmed
<1>4. users'[u].verified
  BY <1>3, Zenon
<1> QED BY <1>1, <1>2, <1>3, <1>4 DEF HasConfirmed

\* Whoever came from a provider and takes no address is never registered again:
\* a challenge of registration is issued to a pending user only.
LEMMA ProviderUserStays ==
    ASSUME EmailInv, [Next]_vars, NEW u \in Users, CameFromProvider(u),
           users'[u].status \in {"active", "disabled"},
           users'[u].verified = users[u].verified, address'[u] = address[u]
    PROVE  CameFromProvider(u)'
<1>1. ~users'[u].verified /\ address'[u] = NoOne
  <2>1. ~users[u].verified /\ address[u] = NoOne
    BY DEF CameFromProvider
  <2>2. ~users'[u].verified
    BY <2>1, Zenon
  <2> QED BY <2>1, <2>2
<1>2. \E a \in Accounts : /\ accounts'[a].state # "absent" /\ accounts'[a].owner = u
                          /\ accounts'[a].provider \in Providers
  BY AccountMoves DEF CameFromProvider, AccountMove
<1>3. ASSUME NEW c \in Challenges, challenges'[c].state # "absent", challenges'[c].owner = u
      PROVE  challenges'[c].purpose # "register"
  <2>1. CASE challenges[c].state = "absent"
    BY <1>3, <2>1, ChallengeMoves DEF ChallengeMove
  <2>2. CASE challenges[c].state # "absent"
    <3>1. SameChallenge(c)
      BY <2>2, RowsStay
    <3> QED BY <1>3, <2>2, <3>1 DEF SameChallenge, CameFromProvider
  <2> QED BY <2>1, <2>2
<1> QED BY <1>1, <1>2, <1>3 DEF CameFromProvider

\* Every step keeps the addresses confirmed.
LEMMA ConfirmedStep ==
    ASSUME EmailInv, AddressesConfirmed, [Next]_vars
    PROVE  AddressesConfirmed'
<1> SUFFICES ASSUME NEW u \in Users, users'[u].status \in {"active", "disabled"}
             PROVE  HasConfirmed(u)' \/ CameFromProvider(u)'
  BY DEF AddressesConfirmed
<1>1. CASE \E r \in Requests : Commits(r, u)
  BY <1>1, CommitLeavesConfirmed
<1>2. CASE users[u].status = "absent" /\ ~ \E r \in Requests : Commits(r, u)
  <2>1. /\ users'[u].verified = FALSE /\ UNCHANGED <<address, challenges>>
        /\ \E a \in Accounts : /\ accounts'[a].state # "absent" /\ accounts'[a].owner = u
                               /\ accounts'[a].provider \in Providers
    BY <1>2, UserMoves DEF UserMove
  <2>2. address[u] = NoOne
    BY <1>2 DEF EmailInv, RowsInUse
  <2>3. \A c \in Challenges : challenges[c].state # "absent" => challenges[c].owner # u
    BY <1>2 DEF EmailInv, RowsInUse
  <2>4. ~users'[u].verified
    BY <2>1
  <2> QED BY <2>1, <2>2, <2>3, <2>4 DEF CameFromProvider
<1>3. CASE users[u].status # "absent" /\ ~ \E r \in Requests : Commits(r, u)
  <2>1. users[u].status \in {"active", "disabled"} /\ users'[u].verified = users[u].verified
    BY <1>3, UserMoves DEF UserMove
  <2>2. address'[u] = address[u]
    BY <1>3, <2>1, AddressStep DEF AddressMove
  <2> QED BY <2>1, <2>2, ConfirmedStays, ProviderUserStays DEF AddressesConfirmed
<1> QED BY <1>1, <1>2, <1>3

\* Whoever is past registration holds an address confirmed by a challenge that
\* was mailed to it (VerifyChallenge with completeEmailChange), or came from a
\* provider and has no address (CreateFederatedUser), for any number of users and
\* addresses and whatever registrations and changes race for one.
THEOREM AddressesAreConfirmed == Spec => []AddressesConfirmed
<1>1. Init => AddressesConfirmed
  <2> SUFFICES ASSUME Init, NEW u \in Users, users[u].status \in {"active", "disabled"}
               PROVE  CameFromProvider(u)
    BY DEF AddressesConfirmed
  <2>1. InitProviderUser
    BY DEF Init, InitNobody, NoUser
  <2>2. PICK a \in Accounts, i \in Identities :
          users[u] = ProviderUser /\ accounts[a] = ProviderAccount(u, i)
    BY <2>1 DEF InitProviderUser, NoUser
  <2> QED BY <2>2, FlowConstants
          DEF Init, CameFromProvider, ProviderUser, ProviderAccount, NoChallenge
<1>2. EmailInv /\ AddressesConfirmed /\ [Next]_vars => AddressesConfirmed'
  BY ConfirmedStep
<1> QED BY <1>1, <1>2, EmailConsistency, PTL DEF Spec

\* The commit of a change takes the address with an open challenge of the
\* user's present version and the proof that this challenge claimed.
LEMMA ChangeTakes ==
    ASSUME EmailInv, [Next]_vars, NEW r \in Requests, NEW u \in Users,
           VerifyChangeCommit(r), Commits(r, u)
    PROVE  /\ Takes(u, address'[u])
           /\ users'[u].version > users[u].version
           /\ \A s \in Sessions : sessions[s].owner = u => sessions'[s].state = "ended"
<1>1. PICK c \in Challenges :
        /\ c = job[r].challenge /\ challenges[c].state = "open" /\ challenges'[c].state = "spent"
        /\ challenges[c].owner = u /\ challenges[c].email = address'[u]
        /\ challenges[c].version = users[u].version
  BY CommitConfirms
<1>2. PICK f : f = job[r].proof
  OBVIOUS
<1>3. /\ pc[r] = "changeLocked" /\ flows[f].status = "claimed" /\ flows' = Moved(f, "consumed")
  BY <1>2 DEF VerifyChangeCommit, CanFinishFlow
<1>4. /\ f \in Flows /\ flows[f].claimedBy = c /\ flows[f].user = u
      /\ flows[f].version = users[u].version
      /\ flows[f].operation = "change_email" /\ flows[f].target = address'[u]
  BY <1>1, <1>2, <1>3 DEF EmailInv, RequestInv, HoldsLock
<1>5. "consumed" \in FlowStatus
  BY DEF FlowStatus
<1>6. flows'[f].status = "consumed"
  BY <1>3, <1>4, <1>5, MovedRow
<1>7. Takes(u, address'[u])
  BY <1>1, <1>3, <1>4, <1>6 DEF Takes
<1>8. users'[u].version > users[u].version
  <2>1. PICK before \in UserRow : before = users[u]
    BY DEF EmailInv, TypeOK
  <2>2. users'[u] = [before EXCEPT !.verified = TRUE, !.version = before.version + 1]
    BY <1>1, <2>1 DEF VerifyChangeCommit
  <2>3. users'[u].version = before.version + 1 /\ before.version \in Nat
    BY <2>2 DEF UserRow
  <2> QED BY <2>1, <2>3
<1>9. \A s \in Sessions : sessions[s].owner = u => sessions'[s].state = "ended"
  <2>1. \A s \in Sessions : sessions[s].owner = u =>
          sessions'[s] = [sessions[s] EXCEPT !.state = "ended"]
    BY <1>1 DEF VerifyChangeCommit
  <2>2. \A s \in Sessions : sessions[s] \in SessionRow
    BY Columns DEF EmailInv
  <2> QED BY <2>1, <2>2 DEF SessionRow
<1> QED BY <1>7, <1>8, <1>9

\* An address moves only to or from the user whose confirmed change takes it, or
\* away from a registration that was never confirmed (ReleasePendingEmail), and
\* its user's sessions end with it, for any number of concurrent requests.
THEOREM AddressesMoveByRight == Spec => AddressMoves
<1> DEFINE Right(u) ==
      \/ /\ Takes(u, address'[u])
         /\ users'[u].version > users[u].version
         /\ \A s \in Sessions : sessions[s].owner = u => sessions'[s].state = "ended"
      \/ /\ address'[u] = NoOne
         /\ users[u].status = "pending" /\ \A a \in Accounts : accounts[a].owner # u
         /\ \E v \in Users \ {u} : address'[v] = address[u] /\ Takes(v, address[u])
<1>1. ASSUME EmailInv, [Next]_vars, NEW u \in Users,
             users[u].status # "absent", address'[u] # address[u]
      PROVE  Right(u)
  <2>1. users[u].status # "absent"
    BY <1>1
  <2>2. CASE \E r \in Requests : VerifyChangeCommit(r) /\ Commits(r, u)
    BY <1>1, <2>2, ChangeTakes
  <2>3. CASE /\ address'[u] = NoOne /\ lock[u] = NoOne
             /\ users[u].status = "pending" /\ \A a \in Accounts : accounts[a].owner # u
             /\ \E r \in Requests, v \in Users \ {u} :
                  /\ VerifyChangeCommit(r) /\ Commits(r, v)
                  /\ address'[v] = address[u] /\ address[u] = challenges[job[r].challenge].email
    <3>1. PICK r \in Requests, v \in Users \ {u} :
            VerifyChangeCommit(r) /\ Commits(r, v) /\ address'[v] = address[u]
      BY <2>3
    <3>2. Takes(v, address'[v])
      BY <1>1, <3>1, ChangeTakes
    <3> QED BY <2>3, <3>1, <3>2
  <2> QED BY <1>1, <2>1, <2>2, <2>3, AddressStep DEF AddressMove
<1> HIDE DEF Right
<1>2. EmailInv /\ [Next]_vars =>
        [\A u \in Users : users[u].status # "absent" /\ address'[u] # address[u] => Right(u)]_vars
  BY <1>1
<1>3. EmailInv /\ [Next]_vars => [
        \A u \in Users : users[u].status # "absent" /\ address'[u] # address[u] =>
          \/ /\ Takes(u, address'[u])
             /\ users'[u].version > users[u].version
             /\ \A s \in Sessions : sessions[s].owner = u => sessions'[s].state = "ended"
          \/ /\ address'[u] = NoOne
             /\ users[u].status = "pending" /\ \A a \in Accounts : accounts[a].owner # u
             /\ \E v \in Users \ {u} : address'[v] = address[u] /\ Takes(v, address[u])]_vars
  BY <1>2 DEF Right
<1> QED BY <1>3, EmailConsistency, PTL DEF Spec, AddressMoves

=============================================================================
