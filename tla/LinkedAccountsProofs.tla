------------------------ MODULE LinkedAccountsProofs ------------------------
(***************************************************************************)
(* Proofs about LinkedAccounts.                                            *)
(*                                                                         *)
(* The lemmas UserMoves, AccountMoves, SessionMoves, FlowMoves and         *)
(* RequestMoves say once, for every step, what it may do to a row of each  *)
(* table and to a request.  From them follow the inductive invariant       *)
(* LinkInv (rows, flows and memories agree), then LockInv (what was        *)
(* checked under a row lock holds until the commit), and from the two the  *)
(* properties of the module.                                               *)
(***************************************************************************)
EXTENDS LinkedAccounts, FiniteSetTheorems, TLAPS

\* Tables and requests are consistent with each other, locks apart.
LinkInv == TypeOK /\ RowsInUse /\ FlowInv /\ RequestInv

\* The empty rows and the empty job have their types.
LEMMA NoRows ==
    /\ NoUser \in UserRow /\ NoAccount \in AccountRow /\ NoSession \in SessionRow
    /\ NoFlow \in FlowRow /\ NoJob \in Job
<1>1. NoUser \in UserRow /\ NoAccount \in AccountRow /\ NoSession \in SessionRow
  BY DEF NoUser, NoAccount, NoSession, UserRow, AccountRow, SessionRow
<1>2. NoFlow \in FlowRow
  BY DEF NoFlow, FlowRow, FlowPurpose, FlowStatus, Targets
<1>3. NoJob \in Job
  BY DEF NoJob, Job, Targets
<1> QED BY <1>1, <1>2, <1>3

\* The columns of rows and jobs have their types.
LEMMA Columns ==
    ASSUME TypeOK
    PROVE  /\ \A u \in Users : users[u] \in UserRow /\ users[u].version \in Nat
           /\ \A a \in Accounts : /\ accounts[a] \in AccountRow /\ accounts[a].version \in Nat
                                  /\ accounts[a].identity \in Identities \union {NoOne}
           /\ \A s \in Sessions : sessions[s] \in SessionRow /\ sessions[s].version \in Nat
           /\ \A f \in Flows : /\ flows[f] \in FlowRow /\ flows[f].version \in Nat
                               /\ flows[f].config \in Nat
                               /\ flows[f].provider \in Providers \union {NoOne}
                               /\ flows[f].reauth \in Flows \union {NoOne}
                               /\ flows[f].identity \in Identities \union {NoOne}
                               /\ flows[f].account \in Accounts \union {NoOne}
           /\ \A r \in Requests : /\ job[r] \in Job /\ job[r].version \in Nat
                                  /\ job[r].accountVersion \in Nat
                                  /\ job[r].session \in Sessions \union {NoOne}
                                  /\ job[r].flow \in Flows \union {NoOne}
                                  /\ job[r].proof \in Flows \union {NoOne}
                                  /\ job[r].account \in Accounts \union {NoOne}
                                  /\ job[r].identity \in Identities \union {NoOne}
                                  /\ job[r].operation \in FlowOperation \union {NoOne}
                                  /\ job[r].target \in Targets
           /\ \A p \in Providers : config[p] \in Nat
<1>1. \A u \in Users : users[u] \in UserRow /\ users[u].version \in Nat
  BY DEF TypeOK, UserRow
<1>2. \A a \in Accounts : /\ accounts[a] \in AccountRow /\ accounts[a].version \in Nat
                          /\ accounts[a].identity \in Identities \union {NoOne}
  BY DEF TypeOK, AccountRow
<1>3. \A s \in Sessions : sessions[s] \in SessionRow /\ sessions[s].version \in Nat
  BY DEF TypeOK, SessionRow
<1>4. \A f \in Flows : /\ flows[f] \in FlowRow /\ flows[f].version \in Nat
                       /\ flows[f].config \in Nat
                       /\ flows[f].provider \in Providers \union {NoOne}
                       /\ flows[f].reauth \in Flows \union {NoOne}
                       /\ flows[f].identity \in Identities \union {NoOne}
                       /\ flows[f].account \in Accounts \union {NoOne}
  BY DEF TypeOK, FlowRow
<1>5. \A r \in Requests : /\ job[r] \in Job /\ job[r].version \in Nat
                          /\ job[r].accountVersion \in Nat
                          /\ job[r].session \in Sessions \union {NoOne}
                          /\ job[r].flow \in Flows \union {NoOne}
                          /\ job[r].proof \in Flows \union {NoOne}
                          /\ job[r].account \in Accounts \union {NoOne}
                          /\ job[r].identity \in Identities \union {NoOne}
                          /\ job[r].operation \in FlowOperation \union {NoOne}
                          /\ job[r].target \in Targets
  BY DEF TypeOK, Job
<1>6. \A p \in Providers : config[p] \in Nat
  BY DEF TypeOK
<1> QED BY <1>1, <1>2, <1>3, <1>4, <1>5, <1>6

\* A login method is a row in use.
LEMMA LoginAccountRow ==
    ASSUME NEW u \in Users, NEW i \in Identities \union {NoOne}
    PROVE  /\ LoginAccount(u, i) \in AccountRow
           /\ LoginAccount(u, i).state = "enabled" /\ LoginAccount(u, i).owner = u
           /\ LoginAccount(u, i).identity = i /\ LoginAccount(u, i).version = 1
           /\ LoginAccount(u, i).provider = IF i = NoOne THEN "credential" ELSE Issuer[i]
<1>1. (IF i = NoOne THEN "credential" ELSE Issuer[i]) \in Providers \union {"credential", NoOne}
  BY FlowConstants
<1> QED BY <1>1 DEF LoginAccount, AccountRow

----------------------------------------------------------------------------
\* The steps, one table at a time

\* The steps that write flows and no other table
FlowWrite ==
  \/ \E r \in Requests : \/ ReauthenticateInsert(r) \/ BoundCommit(r) \/ CallbackFails(r)
                         \/ StartLinkCommit(r)
                         \/ \E f \in Flows : Callback(r, f)
  \/ \E f \in Flows : ExpireFlow(f)
  \/ \E p \in Providers, purpose \in Purposes : StartLogin(p, purpose)

\* The steps that write users, accounts or sessions
TableWrite ==
  \/ \E s \in Sessions, u \in Users, a \in Accounts : PasswordLogin(s, u, a)
  \/ \E s \in Sessions : EndSession(s)
  \/ \E u \in Users, status \in {"active", "disabled"} : SetStatus(u, status)
  \/ \E u \in Users : AdminRevoke(u)
  \/ \E r \in Requests : \/ LoginCommit(r) \/ LoginRegister(r) \/ ConfirmLinkCommit(r)
                         \/ UnlinkCommit(r) \/ SetPasswordCommit(r)

\* A step reads only, restarts the process, or writes what its kind allows.
LEMMA StepCases ==
    ASSUME [Next]_vars
    PROVE  \/ UNCHANGED <<users, accounts, sessions, flows, config>>
           \/ UNCHANGED <<users, accounts, sessions, flows>> /\ \E c : Restart(c)
           \/ UNCHANGED <<users, accounts, sessions, config>> /\ FlowWrite
           \/ UNCHANGED config /\ TableWrite
<1> DEFINE Quiet == UNCHANGED <<users, accounts, sessions, flows, config>>
<1>1. ASSUME UNCHANGED vars PROVE Quiet
  BY <1>1 DEF vars, flowVars
<1>2. ASSUME NEW r \in Requests, \/ Fail(r) \/ ReauthenticateCheck(r)
                                \/ \E i \in Identities : BoundCheck(r, i) \/ LoginFind(r, i)
      PROVE  Quiet
  BY <1>2 DEF Fail, ReauthenticateCheck, BoundCheck, LoginFind, tables
<1>3. ASSUME NEW r \in Requests,
             \/ \E s \in Sessions, a \in Accounts, operation \in Operations, target \in Targets :
                  ReauthenticateRead(r, s, a, operation, target)
             \/ \E s \in Sessions, p \in Providers, f \in Flows : StartLink(r, s, p, f)
             \/ \E s \in Sessions, f \in Flows : ConfirmLink(r, s, f)
             \/ \E s \in Sessions, a \in Accounts, f \in Flows : Unlink(r, s, a, f)
             \/ \E s \in Sessions, f \in Flows \union {NoOne} : SetPasswordRead(r, s, f)
             \/ SetPasswordLock(r)
      PROVE  Quiet
  BY <1>3
  DEF ReauthenticateRead, StartLink, ConfirmLink, Unlink, SetPasswordRead, SetPasswordLock, tables
<1>4. ASSUME FlowWrite PROVE UNCHANGED <<users, accounts, sessions, config>>
  BY <1>4
  DEF FlowWrite, ReauthenticateInsert, BoundCommit, CallbackFails, StartLinkCommit, Callback,
      ExpireFlow, StartLogin, tables
<1>5. ASSUME TableWrite PROVE UNCHANGED config
  BY <1>5
  DEF TableWrite, PasswordLogin, EndSession, SetStatus, AdminRevoke, LoginCommit, LoginRegister,
      OpenSession, ConfirmLinkCommit, UnlinkCommit, SetPasswordCommit
<1>6. ASSUME NEW c, Restart(c) PROVE UNCHANGED <<users, accounts, sessions, flows>>
  BY <1>6 DEF Restart, tables
<1> HIDE DEF Quiet
<1>7. FlowNext => Quiet \/ (\E c : Restart(c)) \/ FlowWrite \/ TableWrite
  BY <1>2, <1>3 DEF FlowNext, FlowWrite, TableWrite
<1>8. Quiet \/ (\E c : Restart(c)) \/ FlowWrite \/ TableWrite
  BY <1>1, <1>2, <1>3, <1>7 DEF Next, FlowWrite, TableWrite
<1> QED BY <1>4, <1>5, <1>6, <1>8 DEF Quiet

\* The user behind a request that has read its session is a user in use.
LEMMA SessionUser ==
    ASSUME LinkInv, NEW r \in Requests,
           pc[r] \in {"reauthRead", "reauthChecked", "linkChecked", "confirmLocked",
                      "unlinkLocked", "passwordRead", "passwordLocked"}
    PROVE  /\ job[r].session \in Sessions /\ sessions[job[r].session].state # "absent"
           /\ sessions[job[r].session].owner \in Users
           /\ users[sessions[job[r].session].owner].status # "absent"
BY DEF LinkInv, RequestInv, Remembers, RowsInUse

\* Invalidate bumps one version and ends sessions.
LEMMA Invalidated ==
    ASSUME TypeOK, NEW u \in Users, Invalidate(u)
    PROVE  /\ users' \in [Users -> UserRow] /\ sessions' \in [Sessions -> SessionRow]
           /\ \A v \in Users : /\ v # u => users'[v] = users[v]
                               /\ users'[v].status = users[v].status
           /\ \A s \in Sessions : /\ sessions'[s].owner = sessions[s].owner
                                  /\ sessions'[s].state \in {sessions[s].state, "ended"}
<1>1. users' \in [Users -> UserRow]
  BY DEF TypeOK, UserRow, Invalidate
<1>2. sessions' \in [Sessions -> SessionRow]
  BY DEF TypeOK, SessionRow, Invalidate
<1>3. \A v \in Users : (v # u => users'[v] = users[v]) /\ users'[v].status = users[v].status
  BY DEF TypeOK, UserRow, Invalidate
<1>4. \A s \in Sessions : /\ sessions'[s].owner = sessions[s].owner
                          /\ sessions'[s].state \in {sessions[s].state, "ended"}
  BY DEF TypeOK, SessionRow, Invalidate
<1> QED BY <1>1, <1>2, <1>3, <1>4

\* A row of users changes in an insert, or in a step of whoever has its lock.
LEMMA UserMoves ==
    ASSUME LinkInv, [Next]_vars
    PROVE  /\ users' \in [Users -> UserRow]
           /\ \A u \in Users :
                \/ users'[u] = users[u]
                \/ /\ users[u].status = "absent" /\ users'[u].status = "active"
                   /\ \A a \in Accounts : ~HasAccount(u, a)
                \/ /\ users[u].status # "absent" /\ users'[u].status # "absent"
                   /\ \/ lock[u] = NoOne
                      \/ \E r \in Requests : /\ pc[r] \in {"unlinkLocked", "passwordLocked"}
                                             /\ pc'[r] = "idle"
                                             /\ u = sessions[job[r].session].owner
<1> DEFINE Moves ==
      /\ users' \in [Users -> UserRow]
      /\ \A u \in Users :
           \/ users'[u] = users[u]
           \/ /\ users[u].status = "absent" /\ users'[u].status = "active"
              /\ \A a \in Accounts : ~HasAccount(u, a)
           \/ /\ users[u].status # "absent" /\ users'[u].status # "absent"
              /\ \/ lock[u] = NoOne
                 \/ \E r \in Requests : /\ pc[r] \in {"unlinkLocked", "passwordLocked"}
                                        /\ pc'[r] = "idle"
                                        /\ u = sessions[job[r].session].owner
<1>0. TypeOK /\ users \in [Users -> UserRow] /\ pc \in [Requests -> PC]
  BY DEF LinkInv, TypeOK
<1>1. ASSUME UNCHANGED users PROVE Moves
  BY <1>0, <1>1
<1>2. ASSUME NEW u \in Users, NEW status \in {"active", "disabled"}, SetStatus(u, status) PROVE Moves
  <2>1. /\ users[u].status # "absent" /\ lock[u] = NoOne
        /\ users' = [users EXCEPT ![u].status = status, ![u].version = @ + 1]
    BY <1>2 DEF SetStatus
  <2>2. users' \in [Users -> UserRow]
    BY <1>0, <2>1 DEF UserRow
  <2>3. users'[u].status = status /\ \A v \in Users : v # u => users'[v] = users[v]
    BY <1>0, <2>1 DEF UserRow
  <2> QED BY <2>1, <2>2, <2>3
<1>3. ASSUME NEW u \in Users, AdminRevoke(u) PROVE Moves
  <2>1. users[u].status # "absent" /\ lock[u] = NoOne /\ Invalidate(u)
    BY <1>3 DEF AdminRevoke
  <2> QED BY <1>0, <2>1, Invalidated
<1>4. ASSUME NEW r \in Requests, UnlinkCommit(r) \/ SetPasswordCommit(r) PROVE Moves
  <2> DEFINE u == sessions[job[r].session].owner
  <2>1. /\ pc[r] \in {"unlinkLocked", "passwordLocked"} /\ Invalidate(u) /\ Done(r)
    BY <1>4 DEF UnlinkCommit, SetPasswordCommit
  <2>2. u \in Users /\ users[u].status # "absent"
    BY <2>1, SessionUser
  <2>3. pc'[r] = "idle"
    BY <1>0, <2>1 DEF Done
  <2>4. /\ users' \in [Users -> UserRow]
        /\ \A v \in Users : /\ v # u => users'[v] = users[v]
                            /\ users'[v].status = users[v].status
    BY <1>0, <2>1, <2>2, Invalidated
  <2> QED BY <2>1, <2>2, <2>3, <2>4
<1>5. ASSUME NEW r \in Requests, LoginRegister(r) PROVE Moves
  <2>1. PICK u \in Users :
          /\ users[u] = NoUser
          /\ users' = [users EXCEPT ![u] = [status |-> "active", version |-> 1, verified |-> FALSE]]
    BY <1>5 DEF LoginRegister, NewUser
  <2>2. [status |-> "active", version |-> 1, verified |-> FALSE] \in UserRow
    BY DEF UserRow
  <2>3. users[u].status = "absent"
    BY <2>1 DEF NoUser
  <2>4. \A a \in Accounts : ~HasAccount(u, a)
    BY <2>3 DEF LinkInv, RowsInUse, HasAccount
  <2> QED BY <1>0, <2>1, <2>2, <2>3, <2>4
<1> HIDE DEF Moves
<1>6. ASSUME TableWrite PROVE Moves
  BY <1>1, <1>2, <1>3, <1>4, <1>5, <1>6
  DEF TableWrite, PasswordLogin, EndSession, LoginCommit, ConfirmLinkCommit
<1>7. Moves
  BY <1>1, <1>6, StepCases
<1> QED BY <1>7 DEF Moves

----------------------------------------------------------------------------
\* CreateAccount puts one login method into an empty row.
LEMMA CreatedAccount ==
    ASSUME TypeOK, NEW u \in Users, NEW i \in Identities \union {NoOne}, CreateAccount(u, i)
    PROVE  \E a \in Accounts :
             /\ NewAccount(a) /\ accounts[a].state = "absent"
             /\ accounts' \in [Accounts -> AccountRow]
             /\ accounts'[a] = LoginAccount(u, i)
             /\ \A b \in Accounts : b # a => accounts'[b] = accounts[b]
             /\ i # NoOne => \A b \in Accounts : ~HasIdentity(b, i)
<1>1. PICK a \in Accounts :
        /\ NewAccount(a)
        /\ ~ \E b \in Accounts : IF i = NoOne THEN IsPasswordAccount(u, b) ELSE HasIdentity(b, i)
        /\ accounts' = [accounts EXCEPT ![a] = LoginAccount(u, i)]
  BY DEF CreateAccount
<1>2. accounts[a].state = "absent"
  BY <1>1 DEF NewAccount, NoAccount
<1>3. /\ accounts' \in [Accounts -> AccountRow] /\ accounts'[a] = LoginAccount(u, i)
      /\ \A b \in Accounts : b # a => accounts'[b] = accounts[b]
  BY <1>1, LoginAccountRow DEF TypeOK
<1>4. i # NoOne => \A b \in Accounts : ~HasIdentity(b, i)
  BY <1>1
<1> QED BY <1>1, <1>2, <1>3, <1>4

\* The identity that a request is about to give an account
LEMMA NewIdentity ==
    ASSUME LinkInv, NEW r \in Requests
    PROVE  /\ LoginRegister(r) => job[r].identity \in Identities
           /\ ConfirmLinkCommit(r) => flows[job[r].flow].identity \in Identities
BY DEF LinkInv, RequestInv, Remembers, FlowInv, LoginRegister, ConfirmLinkCommit, CanFinishFlow

\* The commits that give an account with this identity to a user in use
AddsIdentity(r, i) ==
  \/ ConfirmLinkCommit(r) /\ i = flows[job[r].flow].identity
  \/ SetPasswordCommit(r) /\ job[r].account = NoOne /\ i = NoOne

\* An account is added for a new user or by a request that has the lock of its
\* owner, and only such a request changes one, which keeps what it stands for.
LEMMA AccountMoves ==
    ASSUME LinkInv, [Next]_vars
    PROVE  /\ accounts' \in [Accounts -> AccountRow]
           /\ \A a \in Accounts :
                \/ accounts'[a] = accounts[a]
                \/ /\ accounts[a].state = "absent"
                   /\ \E u \in Users, i \in Identities \union {NoOne} :
                        /\ accounts'[a] = LoginAccount(u, i) /\ users'[u].status # "absent"
                        /\ \/ users[u].status = "absent"
                           \/ \E r \in Requests :
                                /\ pc[r] \in {"confirmLocked", "passwordLocked"}
                                /\ pc'[r] = "idle" /\ u = sessions[job[r].session].owner
                                /\ AddsIdentity(r, i)
                \/ /\ accounts'[a].owner = accounts[a].owner
                   /\ accounts'[a].identity = accounts[a].identity
                   /\ accounts'[a].provider = accounts[a].provider
                   /\ \/ accounts'[a].state = accounts[a].state
                      \/ accounts[a].state = "enabled" /\ accounts'[a].state = "revoked"
                   /\ \E r \in Requests : /\ pc[r] \in {"unlinkLocked", "passwordLocked"}
                                          /\ pc'[r] = "idle" /\ a = job[r].account
                                          /\ accounts'[a].state # accounts[a].state => UnlinkCommit(r)
<1> DEFINE Added(a) ==
             /\ accounts[a].state = "absent"
             /\ \E u \in Users, i \in Identities \union {NoOne} :
                  /\ accounts'[a] = LoginAccount(u, i) /\ users'[u].status # "absent"
                  /\ \/ users[u].status = "absent"
                     \/ \E r \in Requests :
                          /\ pc[r] \in {"confirmLocked", "passwordLocked"}
                          /\ pc'[r] = "idle" /\ u = sessions[job[r].session].owner
                          /\ AddsIdentity(r, i)
           Changed(a) ==
             /\ accounts'[a].owner = accounts[a].owner
             /\ accounts'[a].identity = accounts[a].identity
             /\ accounts'[a].provider = accounts[a].provider
             /\ \/ accounts'[a].state = accounts[a].state
                \/ accounts[a].state = "enabled" /\ accounts'[a].state = "revoked"
             /\ \E r \in Requests : /\ pc[r] \in {"unlinkLocked", "passwordLocked"}
                                    /\ pc'[r] = "idle" /\ a = job[r].account
                                    /\ accounts'[a].state # accounts[a].state => UnlinkCommit(r)
           Moves == /\ accounts' \in [Accounts -> AccountRow]
                    /\ \A a \in Accounts : accounts'[a] = accounts[a] \/ Added(a) \/ Changed(a)
<1>0. /\ TypeOK /\ users \in [Users -> UserRow] /\ pc \in [Requests -> PC]
      /\ accounts \in [Accounts -> AccountRow]
  BY DEF LinkInv, TypeOK
<1>1. ASSUME UNCHANGED accounts PROVE Moves
  BY <1>0, <1>1
<1>2. ASSUME NEW r \in Requests, pc[r] \in {"confirmLocked", "passwordLocked"}, Done(r),
             NEW i \in Identities \union {NoOne}, AddsIdentity(r, i),
             CreateAccount(sessions[job[r].session].owner, i),
             \A u \in Users : users'[u].status = users[u].status
      PROVE  Moves
  <2>1. PICK u \in Users : u = sessions[job[r].session].owner /\ users[u].status # "absent"
    BY <1>2, SessionUser
  <2>2. PICK a \in Accounts :
          /\ accounts[a].state = "absent" /\ accounts' \in [Accounts -> AccountRow]
          /\ accounts'[a] = LoginAccount(u, i)
          /\ \A b \in Accounts : b # a => accounts'[b] = accounts[b]
    BY <1>0, <1>2, <2>1, CreatedAccount
  <2>3. pc'[r] = "idle"
    BY <1>0, <1>2 DEF Done
  <2>4. Added(a)
    BY <1>2, <2>1, <2>2, <2>3
  <2> QED BY <2>2, <2>4
<1>3. ASSUME NEW r \in Requests, ConfirmLinkCommit(r) PROVE Moves
  <2>1. /\ pc[r] = "confirmLocked" /\ Done(r) /\ UNCHANGED users
        /\ UNCHANGED accounts \/ CreateAccount(sessions[job[r].session].owner, flows[job[r].flow].identity)
    BY <1>3 DEF ConfirmLinkCommit
  <2>2. flows[job[r].flow].identity \in Identities
    BY <1>3, <2>1, NewIdentity
  <2> QED BY <1>1, <1>2, <1>3, <2>1, <2>2 DEF AddsIdentity
<1>4. ASSUME NEW r \in Requests, LoginRegister(r) PROVE Moves
  <2>1. PICK u \in Users :
          /\ users[u] = NoUser
          /\ users' = [users EXCEPT ![u] = [status |-> "active", version |-> 1, verified |-> FALSE]]
          /\ CreateAccount(u, job[r].identity)
    BY <1>4 DEF LoginRegister, NewUser
  <2>2. users[u].status = "absent" /\ users'[u].status = "active"
    BY <1>0, <2>1 DEF NoUser
  <2>3. job[r].identity \in Identities
    BY <1>4, NewIdentity
  <2>4. PICK a \in Accounts :
          /\ accounts[a].state = "absent" /\ accounts' \in [Accounts -> AccountRow]
          /\ accounts'[a] = LoginAccount(u, job[r].identity)
          /\ \A b \in Accounts : b # a => accounts'[b] = accounts[b]
    BY <1>0, <2>1, <2>3, CreatedAccount
  <2>5. Added(a)
    BY <2>2, <2>3, <2>4
  <2> QED BY <2>4, <2>5
<1>5. ASSUME NEW r \in Requests, UnlinkCommit(r) PROVE Moves
  <2> DEFINE a == job[r].account
  <2>1. /\ pc[r] = "unlinkLocked" /\ Done(r) /\ a \in Accounts /\ accounts[a].state = "enabled"
        /\ accounts' = [accounts EXCEPT ![a].state = "revoked", ![a].version = @ + 1]
    BY <1>0, <1>5 DEF UnlinkCommit, HasAccount, TypeOK
  <2>2. pc'[r] = "idle"
    BY <1>0, <2>1 DEF Done
  <2>3. accounts' \in [Accounts -> AccountRow]
    BY <1>0, <2>1 DEF AccountRow
  <2>4. /\ accounts'[a].owner = accounts[a].owner /\ accounts'[a].identity = accounts[a].identity
        /\ accounts'[a].provider = accounts[a].provider /\ accounts'[a].state = "revoked"
        /\ \A b \in Accounts : b # a => accounts'[b] = accounts[b]
    BY <1>0, <2>1 DEF AccountRow
  <2>5. Changed(a)
    BY <1>5, <2>1, <2>2, <2>4
  <2> QED BY <2>1, <2>3, <2>4, <2>5
<1>6. ASSUME NEW r \in Requests, SetPasswordCommit(r) PROVE Moves
  <2> DEFINE a == job[r].account
             u == sessions[job[r].session].owner
  <2>1. pc[r] = "passwordLocked" /\ Done(r) /\ Invalidate(u)
    BY <1>6 DEF SetPasswordCommit
  <2>2. pc'[r] = "idle" /\ u \in Users
    BY <1>0, <2>1, SessionUser DEF Done
  <2>3. \A v \in Users : users'[v].status = users[v].status
    BY <1>0, <2>1, <2>2, Invalidated
  <2>4. CASE a # NoOne
    <3>1. a \in Accounts /\ accounts' = [accounts EXCEPT ![a].version = @ + 1]
      BY <1>0, <1>6, <2>4, Columns DEF SetPasswordCommit
    <3>2. accounts' \in [Accounts -> AccountRow]
      BY <1>0, <3>1 DEF AccountRow
    <3>3. /\ accounts'[a].owner = accounts[a].owner /\ accounts'[a].identity = accounts[a].identity
          /\ accounts'[a].provider = accounts[a].provider /\ accounts'[a].state = accounts[a].state
          /\ \A b \in Accounts : b # a => accounts'[b] = accounts[b]
      BY <1>0, <3>1 DEF AccountRow
    <3>4. Changed(a)
      BY <2>1, <2>2, <3>3
    <3> QED BY <3>1, <3>2, <3>3, <3>4
  <2>5. CASE a = NoOne
    <3>1. CreateAccount(u, NoOne)
      BY <1>6, <2>5 DEF SetPasswordCommit
    <3>2. AddsIdentity(r, NoOne)
      BY <1>6, <2>5 DEF AddsIdentity
    <3> QED BY <1>2, <2>1, <2>3, <3>1, <3>2
  <2> QED BY <2>4, <2>5
<1> HIDE DEF Moves
<1>7. ASSUME TableWrite PROVE Moves
  BY <1>1, <1>3, <1>4, <1>5, <1>6, <1>7
  DEF TableWrite, PasswordLogin, EndSession, SetStatus, AdminRevoke, LoginCommit
<1>8. Moves
  BY <1>1, <1>7, StepCases
<1> QED BY <1>8 DEF Moves

\* The commits that open a session
SignsIn ==
  \/ \E s \in Sessions, u \in Users, a \in Accounts : PasswordLogin(s, u, a)
  \/ \E r \in Requests : LoginCommit(r) \/ LoginRegister(r)

\* A session is opened for a user in use, and ended; its owner stays.
LEMMA SessionMoves ==
    ASSUME LinkInv, [Next]_vars
    PROVE  /\ sessions' \in [Sessions -> SessionRow]
           /\ \A s \in Sessions :
                \/ sessions'[s] = sessions[s]
                \/ /\ sessions'[s].owner = sessions[s].owner /\ sessions'[s].state = "ended"
                   /\ sessions[s].owner \in Users /\ users[sessions[s].owner].status # "absent"
                \/ /\ sessions[s].state = "absent" /\ sessions'[s].state = "live"
                   /\ sessions'[s].owner \in Users /\ users'[sessions'[s].owner].status # "absent"
                   /\ SignsIn
<1> DEFINE Moves ==
      /\ sessions' \in [Sessions -> SessionRow]
      /\ \A s \in Sessions :
           \/ sessions'[s] = sessions[s]
           \/ /\ sessions'[s].owner = sessions[s].owner /\ sessions'[s].state = "ended"
              /\ sessions[s].owner \in Users /\ users[sessions[s].owner].status # "absent"
           \/ /\ sessions[s].state = "absent" /\ sessions'[s].state = "live"
              /\ sessions'[s].owner \in Users /\ users'[sessions'[s].owner].status # "absent"
              /\ SignsIn
<1>0. TypeOK /\ users \in [Users -> UserRow] /\ sessions \in [Sessions -> SessionRow]
  BY DEF LinkInv, TypeOK
<1>1. ASSUME UNCHANGED sessions PROVE Moves
  BY <1>0, <1>1
<1>2. ASSUME NEW u \in Users, users[u].status # "absent",
             sessions' = [s \in Sessions |-> IF sessions[s].owner = u
                            THEN [sessions[s] EXCEPT !.state = "ended"] ELSE sessions[s]]
      PROVE  Moves
  <2>1. sessions' \in [Sessions -> SessionRow]
    BY <1>0, <1>2 DEF SessionRow
  <2>2. \A s \in Sessions :
          \/ sessions'[s] = sessions[s]
          \/ /\ sessions'[s].owner = sessions[s].owner /\ sessions'[s].state = "ended"
             /\ sessions[s].owner = u
    BY <1>0, <1>2 DEF SessionRow
  <2> QED BY <1>2, <2>1, <2>2
<1>3. ASSUME NEW s \in Sessions, NEW u \in Users, NEW n \in Nat, NEW a \in Accounts, NewSession(s),
             users'[u].status # "absent", SignsIn,
             sessions' = [sessions EXCEPT ![s] = [state |-> "live", owner |-> u,
                                                 version |-> n, source |-> a]]
      PROVE  Moves
  <2>1. [state |-> "live", owner |-> u, version |-> n, source |-> a] \in SessionRow
    BY DEF SessionRow
  <2>2. sessions[s].state = "absent"
    BY <1>3 DEF NewSession, NoSession
  <2> QED BY <1>0, <1>3, <2>1, <2>2
<1>4. ASSUME NEW s \in Sessions, NEW u \in Users, NEW a \in Accounts, PasswordLogin(s, u, a) PROVE Moves
  <2>1. users'[u].status # "absent" /\ users[u].version \in Nat
    BY <1>0, <1>4, Columns DEF PasswordLogin
  <2>2. SignsIn
    BY <1>4 DEF SignsIn
  <2> QED BY <1>3, <1>4, <2>1, <2>2 DEF PasswordLogin
<1>5. ASSUME NEW s \in Sessions, EndSession(s) PROVE Moves
  <2>1. sessions[s].state # "absent" /\ sessions' = [sessions EXCEPT ![s].state = "ended"]
    BY <1>5 DEF EndSession
  <2>2. sessions[s].owner \in Users /\ users[sessions[s].owner].status # "absent"
    BY <2>1 DEF LinkInv, RowsInUse
  <2>3. sessions' \in [Sessions -> SessionRow]
    BY <1>0, <2>1 DEF SessionRow
  <2>4. /\ sessions'[s].owner = sessions[s].owner /\ sessions'[s].state = "ended"
        /\ \A t \in Sessions : t # s => sessions'[t] = sessions[t]
    BY <1>0, <2>1 DEF SessionRow
  <2> QED BY <2>2, <2>3, <2>4
<1>6. ASSUME NEW u \in Users, NEW status \in {"active", "disabled"}, SetStatus(u, status) PROVE Moves
  BY <1>2, <1>6 DEF SetStatus
<1>7. ASSUME NEW u \in Users, AdminRevoke(u) PROVE Moves
  BY <1>2, <1>7 DEF AdminRevoke, Invalidate
<1>8. ASSUME NEW r \in Requests, UnlinkCommit(r) \/ SetPasswordCommit(r) PROVE Moves
  <2>1. /\ pc[r] \in {"unlinkLocked", "passwordLocked"}
        /\ Invalidate(sessions[job[r].session].owner)
    BY <1>8 DEF UnlinkCommit, SetPasswordCommit
  <2>2. PICK u \in Users : u = sessions[job[r].session].owner /\ users[u].status # "absent"
    BY <2>1, SessionUser
  <2> QED BY <1>2, <2>1, <2>2 DEF Invalidate
<1>9. ASSUME NEW r \in Requests, LoginCommit(r) PROVE Moves
  <2>1. /\ job[r].account \in Accounts /\ accounts[job[r].account].state # "absent"
        /\ OpenSession(r, accounts[job[r].account].owner,
                       users[accounts[job[r].account].owner].version, job[r].account)
        /\ UNCHANGED users
    BY <1>9 DEF LinkInv, RequestInv, Remembers, LoginCommit
  <2>2. PICK u \in Users : u = accounts[job[r].account].owner /\ users[u].status # "absent"
    BY <2>1 DEF LinkInv, RowsInUse
  <2>3. users[u].version \in Nat
    BY <1>0, Columns
  <2>4. SignsIn
    BY <1>9 DEF SignsIn
  <2> QED BY <1>3, <2>1, <2>2, <2>3, <2>4 DEF OpenSession
<1>10. ASSUME NEW r \in Requests, LoginRegister(r) PROVE Moves
  <2>1. PICK u \in Users, a \in Accounts :
          /\ users' = [users EXCEPT ![u] = [status |-> "active", version |-> 1, verified |-> FALSE]]
          /\ OpenSession(r, u, 1, a)
    BY <1>10 DEF LoginRegister
  <2>2. users'[u].status # "absent"
    BY <1>0, <2>1
  <2>3. SignsIn
    BY <1>10 DEF SignsIn
  <2> QED BY <1>3, <2>1, <2>2, <2>3 DEF OpenSession
<1> HIDE DEF Moves
<1>11. ASSUME TableWrite PROVE Moves
  BY <1>1, <1>4, <1>5, <1>6, <1>7, <1>8, <1>9, <1>10, <1>11 DEF TableWrite, ConfirmLinkCommit
<1>12. Moves
  BY <1>1, <1>11, StepCases
<1> QED BY <1>12 DEF Moves

----------------------------------------------------------------------------
\* Flows, one statement at a time

\* What the flow f was opened for stays.
Opened(f) ==
  /\ flows'[f].purpose = flows[f].purpose /\ flows'[f].provider = flows[f].provider
  /\ flows'[f].config = flows[f].config /\ flows'[f].user = flows[f].user
  /\ flows'[f].session = flows[f].session /\ flows'[f].version = flows[f].version
  /\ flows'[f].account = flows[f].account /\ flows'[f].accountVersion = flows[f].accountVersion
  /\ flows'[f].operation = flows[f].operation /\ flows'[f].target = flows[f].target
  /\ flows'[f].reauth = flows[f].reauth

\* CreateFlow: the new row has the columns its purpose calls for.
Born(f) ==
  /\ flows[f] = NoFlow
  /\ flows'[f].status \in {"pending", "authorized"}
  /\ flows'[f].status = "pending" => flows'[f].provider \in Providers
  /\ flows'[f].claimedBy = NoOne /\ flows'[f].identity = NoOne
  /\ flows'[f].purpose \in {"reauthenticate", "link_identity"} =>
       /\ flows'[f].session \in Sessions /\ sessions[flows'[f].session].state # "absent"
       /\ flows'[f].user = sessions[flows'[f].session].owner
  /\ flows'[f].purpose = "reauthenticate" => flows'[f].account \in Accounts
  /\ flows'[f].purpose = "link_identity" =>
       flows'[f].reauth \in Flows /\ \E r \in Requests : StartLinkCommit(r)
  /\ flows'[f].purpose \in {"login", "register"} => flows'[f].config > 0

\* The commits that finish a proof nobody has claimed
SpendsProof(r) == UnlinkCommit(r) \/ (SetPasswordCommit(r) /\ job[r].account = NoOne)

\* An UPDATE of the row moves its status, and with it the claim or the identity.
Advanced(f) ==
  /\ flows[f].status # "absent" /\ Opened(f)
  /\ \/ /\ flows'[f].status = flows[f].status
        /\ ~flows'[f].live
        /\ flows'[f].claimedBy = flows[f].claimedBy /\ flows'[f].identity = flows[f].identity
     \/ /\ flows'[f].live = flows[f].live
        /\ flows'[f].claimedBy = flows[f].claimedBy /\ flows'[f].identity = flows[f].identity
        /\ <<flows[f].status, flows'[f].status>> \in
             {<<"pending", "failed">>, <<"processing", "failed">>}
     \/ /\ flows'[f].live = flows[f].live /\ flows[f].live
        /\ flows'[f].claimedBy = flows[f].claimedBy /\ flows'[f].identity = flows[f].identity
        /\ flows[f].status = "pending" /\ flows'[f].status = "processing"
     \/ /\ flows'[f].live = flows[f].live /\ flows[f].live
        /\ flows'[f].claimedBy = flows[f].claimedBy /\ flows'[f].identity = flows[f].identity
        /\ flows[f].status = "authorized" /\ flows'[f].status = "consumed"
        /\ \E r \in Requests : SpendsProof(r) /\ f = job[r].proof
     \/ /\ flows'[f].live = flows[f].live /\ flows[f].live
        /\ flows'[f].claimedBy = flows[f].claimedBy /\ flows'[f].identity = flows[f].identity
        /\ flows[f].status \in {"claimed", "verified"} /\ flows'[f].status = "consumed"
        /\ \E r \in Requests : ConfirmLinkCommit(r)
     \/ /\ flows'[f].live = flows[f].live /\ flows[f].live
        /\ flows'[f].claimedBy = flows[f].claimedBy /\ flows'[f].identity = flows[f].identity
        /\ flows[f].status = "processing" /\ flows'[f].status = "consumed"
        /\ flows[f].purpose \in {"login", "register"}
     \/ /\ flows'[f].live = flows[f].live /\ flows[f].live
        /\ flows'[f].claimedBy = flows[f].claimedBy
        /\ flows'[f].identity \in Identities /\ Issuer[flows'[f].identity] = flows[f].provider
        /\ flows[f].status = "processing" /\ flows'[f].status \in {"verified", "authorized"}
     \/ /\ flows'[f].live = flows[f].live /\ flows[f].live
        /\ flows'[f].identity = flows[f].identity
        /\ flows[f].status = "authorized" /\ flows'[f].status = "claimed"
        /\ \E r \in Requests : StartLinkCommit(r)

FlowMove(f) == flows'[f] = flows[f] \/ Born(f) \/ Advanced(f)

\* A statement that only moves the status of one row keeps the other columns.
LEMMA MovedRow ==
    ASSUME TypeOK, NEW f \in Flows, NEW st \in FlowStatus
    PROVE  /\ Moved(f, st) \in [Flows -> FlowRow]
           /\ \A g \in Flows : g # f => Moved(f, st)[g] = flows[g]
           /\ flows' = Moved(f, st) =>
                /\ Opened(f) /\ flows'[f].status = st /\ flows'[f].live = flows[f].live
                /\ flows'[f].claimedBy = flows[f].claimedBy /\ flows'[f].identity = flows[f].identity
<1>0. flows \in [Flows -> FlowRow]
  BY DEF TypeOK
<1>1. [flows[f] EXCEPT !.status = st] \in FlowRow
  BY <1>0 DEF FlowRow
<1>2. Moved(f, st) \in [Flows -> FlowRow] /\ \A g \in Flows : g # f => Moved(f, st)[g] = flows[g]
  BY <1>0, <1>1 DEF Moved
<1>3. ASSUME flows' = Moved(f, st)
      PROVE  /\ Opened(f) /\ flows'[f].status = st /\ flows'[f].live = flows[f].live
             /\ flows'[f].claimedBy = flows[f].claimedBy /\ flows'[f].identity = flows[f].identity
  BY <1>0, <1>3 DEF Moved, FlowRow, Opened
<1> QED BY <1>2, <1>3

\* The statements that move one status are moves of FlowMove.
LEMMA StatusMoves ==
    ASSUME TypeOK, NEW f \in Flows, NEW st \in FlowStatus, flows' = Moved(f, st),
           \/ st = "failed" /\ flows[f].status \in {"pending", "processing"}
           \/ st = "processing" /\ CanClaimFlow(f)
           \/ st = "consumed" /\ CanFinishFlow(f, "processing")
                /\ flows[f].purpose \in {"login", "register"}
           \/ st = "consumed" /\ CanFinishFlow(f, "authorized")
                /\ \E r \in Requests : SpendsProof(r) /\ f = job[r].proof
    PROVE  flows' \in [Flows -> FlowRow] /\ \A g \in Flows : FlowMove(g)
<1>1. /\ flows' \in [Flows -> FlowRow] /\ \A g \in Flows : g # f => flows'[g] = flows[g]
      /\ Opened(f) /\ flows'[f].status = st /\ flows'[f].live = flows[f].live
      /\ flows'[f].claimedBy = flows[f].claimedBy /\ flows'[f].identity = flows[f].identity
  BY MovedRow
<1>2. Advanced(f)
  BY <1>1 DEF Advanced, CanClaimFlow, CanFinishFlow
<1> QED BY <1>1, <1>2 DEF FlowMove

\* CreateFlow puts one row into an empty one.
LEMMA CreatedFlow ==
    ASSUME TypeOK, NEW f \in Flows, NEW new \in FlowRow, flows' = [flows EXCEPT ![f] = new], Born(f)
    PROVE  flows' \in [Flows -> FlowRow] /\ \A g \in Flows : FlowMove(g)
<1>1. flows' \in [Flows -> FlowRow] /\ \A g \in Flows : g # f => flows'[g] = flows[g]
  BY DEF TypeOK
<1> QED BY <1>1 DEF FlowMove

----------------------------------------------------------------------------
\* startLinkFlow inserts a link flow and claims the proof for it.
LEMMA LinkStarted ==
    ASSUME LinkInv, NEW r \in Requests, StartLinkCommit(r)
    PROVE  \E f \in Flows, proof \in Flows :
             /\ flows' \in [Flows -> FlowRow] /\ Born(f) /\ Advanced(proof) /\ f # proof
             /\ flows'[f].purpose = "link_identity" /\ flows'[f].status = "pending"
             /\ flows'[f].reauth = proof
             /\ flows[proof].status = "authorized" /\ flows'[proof].status = "claimed"
             /\ flows'[proof].claimedBy = f
             /\ \A g \in Flows : g = f \/ g = proof \/ flows'[g] = flows[g]
<1>0. TypeOK /\ flows \in [Flows -> FlowRow]
  BY DEF LinkInv, TypeOK
<1> DEFINE s == job[r].session
           p == job[r].target
           proof == job[r].proof
           new == [NoFlow EXCEPT !.purpose = "link_identity", !.status = "pending",
                         !.live = TRUE, !.provider = p, !.config = config[p],
                         !.user = sessions[s].owner, !.session = s, !.version = job[r].version,
                         !.operation = "link_account", !.target = p, !.reauth = proof]
<1>1. /\ pc[r] = "linkChecked" /\ flows[proof].status = "authorized" /\ flows[proof].live
  BY DEF StartLinkCommit, CanClaimAuthorization
<1>2. PICK f \in Flows :
        /\ flows[f] = NoFlow
        /\ flows' = [flows EXCEPT ![f] = new, ![proof].status = "claimed", ![proof].claimedBy = f]
  BY DEF StartLinkCommit, NewFlow
<1>3. /\ s \in Sessions /\ sessions[s].state # "absent" /\ sessions[s].owner \in Users
      /\ p \in Providers /\ proof \in Flows
  BY <1>1, SessionUser DEF LinkInv, RequestInv, Remembers
<1>4. job[r].version \in Nat /\ config[p] \in Nat
  BY <1>0, <1>3, Columns
<1>5. flows[f].status = "absent" /\ f # proof
  <2>1. NoFlow.status = "absent" /\ flows[proof].status # "absent"
    BY <1>1 DEF NoFlow
  <2> QED BY <1>2, <2>1
<1>6. "link_account" \in FlowOperation
  BY DEF FlowOperation
<1> HIDE DEF s, p, proof
<1>7. new \in FlowRow
  BY <1>3, <1>4, <1>6 DEF NoFlow, FlowRow, FlowPurpose, FlowStatus, Targets
<1>8. /\ new.status = "pending" /\ new.provider = p /\ new.claimedBy = NoOne
      /\ new.identity = NoOne /\ new.purpose = "link_identity" /\ new.session = s
      /\ new.user = sessions[s].owner /\ new.reauth = proof
  BY DEF NoFlow
<1> DEFINE claimed == [flows[proof] EXCEPT !.status = "claimed", !.claimedBy = f]
<1> HIDE DEF new
<1>9. claimed \in FlowRow
  <2>1. PICK before \in FlowRow : before = flows[proof]
    BY <1>0, <1>3
  <2>2. [before EXCEPT !.status = "claimed", !.claimedBy = f] \in FlowRow
    BY DEF FlowRow, FlowStatus
  <2> QED BY <2>1, <2>2
<1>10. flows' = [g \in Flows |-> IF g = f THEN new ELSE IF g = proof THEN claimed ELSE flows[g]]
  BY <1>0, <1>2, <1>3, <1>5
<1>11. flows' \in [Flows -> FlowRow]
  BY <1>0, <1>7, <1>9, <1>10
<1>12. flows'[f] = new /\ flows'[proof] = claimed
  BY <1>3, <1>5, <1>10
<1>13. Born(f)
  BY <1>2, <1>3, <1>8, <1>12 DEF Born
<1>14. /\ Opened(proof) /\ flows'[proof].status = "claimed" /\ flows'[proof].live = flows[proof].live
       /\ flows'[proof].identity = flows[proof].identity /\ flows'[proof].claimedBy = f
  BY <1>0, <1>3, <1>12 DEF FlowRow, Opened
<1>15. Advanced(proof)
  BY <1>1, <1>14 DEF Advanced
<1>16. \A g \in Flows : g = f \/ g = proof \/ flows'[g] = flows[g]
  BY <1>10
<1> HIDE DEF claimed
<1>17. /\ flows'[f].purpose = "link_identity" /\ flows'[f].status = "pending"
       /\ flows'[f].reauth = proof
  BY <1>8, <1>12
<1> QED BY <1>1, <1>3, <1>5, <1>11, <1>13, <1>14, <1>15, <1>16, <1>17

\* The commit of ConfirmLink spends the link flow and its proof.
LEMMA LinkConfirmed ==
    ASSUME LinkInv, NEW r \in Requests, ConfirmLinkCommit(r)
    PROVE  /\ flows' \in [Flows -> FlowRow] /\ job[r].flow \in Flows
           /\ flows[job[r].flow].status = "verified" /\ flows[job[r].proof].status = "claimed"
           /\ \A g \in Flows : IF g \in {job[r].flow, job[r].proof}
                                THEN Advanced(g) /\ flows'[g].status = "consumed"
                                ELSE flows'[g] = flows[g]
<1>0. TypeOK /\ flows \in [Flows -> FlowRow]
  BY DEF LinkInv, TypeOK
<1> DEFINE f == job[r].flow
           proof == job[r].proof
           row(g) == [flows[g] EXCEPT !.status = "consumed"]
<1>1. /\ pc[r] = "confirmLocked"
      /\ flows[proof].status = "claimed" /\ flows[proof].live
      /\ flows[f].status = "verified" /\ flows[f].live
      /\ flows' = [flows EXCEPT ![proof].status = "consumed", ![f].status = "consumed"]
  BY DEF ConfirmLinkCommit, CanFinishFlow
<1>2. f \in Flows /\ f # proof
  BY <1>1 DEF LinkInv, RequestInv, Remembers
<1> HIDE DEF f, proof
<1>3. flows' = [g \in Flows |-> IF g \in {f, proof} THEN row(g) ELSE flows[g]]
  BY <1>0, <1>1, <1>2
<1>4. \A g \in Flows : row(g) \in FlowRow
  BY <1>0 DEF FlowRow, FlowStatus
<1>5. flows' \in [Flows -> FlowRow]
  <2> HIDE DEF row
  <2> QED BY <1>0, <1>3, <1>4
<1>6. ASSUME NEW g \in Flows, g \in {f, proof} PROVE Advanced(g) /\ flows'[g].status = "consumed"
  <2>1. flows'[g] = row(g)
    BY <1>3, <1>6
  <2>2. /\ Opened(g) /\ flows'[g].status = "consumed" /\ flows'[g].live = flows[g].live
        /\ flows'[g].claimedBy = flows[g].claimedBy /\ flows'[g].identity = flows[g].identity
    BY <1>0, <2>1 DEF FlowRow, Opened
  <2> QED BY <1>1, <1>6, <2>2 DEF Advanced
<1>7. \A g \in Flows : g \in {f, proof} \/ flows'[g] = flows[g]
  BY <1>3
<1> QED BY <1>1, <1>2, <1>5, <1>6, <1>7 DEF f, proof

\* Every step moves a flow as its statements do.
LEMMA FlowMoves ==
    ASSUME LinkInv, [Next]_vars
    PROVE  flows' \in [Flows -> FlowRow] /\ \A f \in Flows : FlowMove(f)
<1> DEFINE Moves == flows' \in [Flows -> FlowRow] /\ \A f \in Flows : FlowMove(f)
<1>0. TypeOK /\ flows \in [Flows -> FlowRow]
  BY DEF LinkInv, TypeOK
<1>1. ASSUME UNCHANGED flows PROVE Moves
  BY <1>0, <1>1 DEF FlowMove
<1>2. ASSUME NEW p \in Providers, NEW purpose \in Purposes, StartLogin(p, purpose) PROVE Moves
  <2> DEFINE new == [NoFlow EXCEPT !.purpose = purpose, !.status = "pending", !.live = TRUE,
                                   !.provider = p, !.config = config[p]]
  <2>1. PICK f \in Flows : flows[f] = NoFlow /\ flows' = [flows EXCEPT ![f] = new]
    BY <1>2 DEF StartLogin, NewFlow
  <2>2. purpose \in {"login", "register"} /\ config[p] \in Nat /\ config[p] > 0
    BY <1>0, <1>2, FlowConstants, Columns DEF StartLogin, Enabled
  <2>3. new \in FlowRow
    BY <2>2 DEF NoFlow, FlowRow, FlowPurpose, FlowStatus, Targets
  <2>4. /\ new.status = "pending" /\ new.provider = p /\ new.claimedBy = NoOne
        /\ new.identity = NoOne /\ new.purpose = purpose /\ new.config = config[p]
    BY DEF NoFlow
  <2> HIDE DEF new
  <2>5. flows'[f] = new
    BY <1>0, <2>1
  <2>6. Born(f)
    BY <2>1, <2>2, <2>4, <2>5 DEF Born
  <2> QED BY <1>0, <2>1, <2>3, <2>6, CreatedFlow
<1>3. ASSUME NEW r \in Requests, ReauthenticateInsert(r) PROVE Moves
  <2> DEFINE a == job[r].account
             p == accounts[a].provider
             s == job[r].session
             new == [NoFlow EXCEPT !.purpose = "reauthenticate", !.live = TRUE,
                  !.status = IF p = "credential" THEN "authorized" ELSE "pending",
                  !.provider = IF p = "credential" THEN NoOne ELSE p,
                  !.config = IF p = "credential" THEN 0 ELSE config[p],
                  !.user = sessions[s].owner, !.session = s, !.version = job[r].version,
                  !.account = a, !.accountVersion = job[r].accountVersion,
                  !.operation = job[r].operation, !.target = job[r].target]
  <2>1. PICK f \in Flows : flows[f] = NoFlow /\ flows' = [flows EXCEPT ![f] = new]
    BY <1>3 DEF ReauthenticateInsert, NewFlow
  <2>2. pc[r] = "reauthChecked"
    BY <1>3 DEF ReauthenticateInsert
  <2>3. /\ s \in Sessions /\ sessions[s].state # "absent" /\ sessions[s].owner \in Users
        /\ a \in Accounts /\ accounts[a].state # "absent"
    BY <2>2, SessionUser DEF LinkInv, RequestInv, Remembers
  <2>4. p = "credential" \/ p \in Providers
    <3>1. accounts[a].identity \in Identities \union {NoOne}
      BY <1>0, <2>3, Columns
    <3> QED BY <2>3, <3>1, FlowConstants DEF LinkInv, RowsInUse
  <2>5. /\ job[r].version \in Nat /\ job[r].accountVersion \in Nat
        /\ job[r].operation \in FlowOperation \union {NoOne} /\ job[r].target \in Targets
        /\ \A q \in Providers : config[q] \in Nat
    BY <1>0, Columns
  <2> HIDE DEF a, p, s
  <2>6. new \in FlowRow
    <3> DEFINE st == IF p = "credential" THEN "authorized" ELSE "pending"
               pr == IF p = "credential" THEN NoOne ELSE p
               cf == IF p = "credential" THEN 0 ELSE config[p]
    <3>1. st \in FlowStatus /\ pr \in Providers \union {NoOne} /\ cf \in Nat
      BY <2>4, <2>5 DEF FlowStatus
    <3> HIDE DEF st, pr, cf
    <3>2. [NoFlow EXCEPT !.purpose = "reauthenticate", !.live = TRUE, !.status = st,
                         !.provider = pr, !.config = cf,
                         !.user = sessions[s].owner, !.session = s, !.version = job[r].version,
                         !.account = a, !.accountVersion = job[r].accountVersion,
                         !.operation = job[r].operation, !.target = job[r].target] \in FlowRow
      BY <2>3, <2>5, <3>1 DEF NoFlow, FlowRow, FlowPurpose
    <3> QED BY <3>2 DEF st, pr, cf
  <2>7. /\ new.status = IF p = "credential" THEN "authorized" ELSE "pending"
        /\ new.provider = IF p = "credential" THEN NoOne ELSE p
        /\ new.claimedBy = NoOne /\ new.identity = NoOne /\ new.purpose = "reauthenticate"
        /\ new.user = sessions[s].owner /\ new.session = s /\ new.account = a
    BY DEF NoFlow
  <2> HIDE DEF new
  <2>8. flows'[f] = new
    BY <1>0, <2>1
  <2>9. Born(f)
    BY <2>1, <2>3, <2>4, <2>7, <2>8 DEF Born
  <2> QED BY <1>0, <2>1, <2>6, <2>9, CreatedFlow
<1>4. ASSUME NEW r \in Requests, NEW f \in Flows, Callback(r, f) PROVE Moves
  BY <1>0, <1>4, StatusMoves DEF Callback, FlowStatus
<1>5. ASSUME NEW r \in Requests, CallbackFails(r) PROVE Moves
  <2>1. job[r].flow \in Flows /\ flows' = FailFlow(job[r].flow)
    BY <1>0, <1>5 DEF CallbackFails, TypeOK
  <2> QED BY <1>0, <1>1, <2>1, StatusMoves DEF FailFlow, FlowStatus
<1>6. ASSUME NEW r \in Requests, BoundCommit(r) PROVE Moves
  <2> DEFINE f == job[r].flow
             st == IF flows[f].purpose = "reauthenticate" THEN "authorized" ELSE "verified"
  <2>1. /\ pc[r] = "bound" /\ f \in Flows /\ flows[f].status = "processing" /\ flows[f].live
        /\ flows' = [flows EXCEPT ![f].identity = job[r].identity, ![f].status = st]
    BY <1>0, <1>6 DEF BoundCommit, CanVerifyFlow, TypeOK
  <2>2. job[r].identity \in Identities /\ Issuer[job[r].identity] = flows[f].provider
    BY <2>1 DEF LinkInv, RequestInv, Remembers
  <2>3. st \in {"authorized", "verified"}
    OBVIOUS
  <2> HIDE DEF f, st
  <2>4. flows' \in [Flows -> FlowRow]
    BY <1>0, <2>1, <2>2, <2>3 DEF FlowRow, FlowStatus
  <2>5. /\ Opened(f) /\ flows'[f].status = st /\ flows'[f].live = flows[f].live
        /\ flows'[f].claimedBy = flows[f].claimedBy /\ flows'[f].identity = job[r].identity
        /\ \A g \in Flows : g # f => flows'[g] = flows[g]
    BY <1>0, <2>1 DEF FlowRow, Opened
  <2>6. Advanced(f)
    BY <2>1, <2>2, <2>3, <2>5 DEF Advanced
  <2> QED BY <2>4, <2>5, <2>6 DEF FlowMove
<1>7. ASSUME NEW f \in Flows, ExpireFlow(f) PROVE Moves
  <2>1. flows' = [flows EXCEPT ![f].live = FALSE] /\ flows[f].live
    BY <1>7 DEF ExpireFlow
  <2>2. flows[f].status # "absent"
    <3>1. flows[f] # NoFlow
      BY <2>1 DEF NoFlow
    <3> QED BY <3>1 DEF LinkInv, FlowInv
  <2>3. flows' \in [Flows -> FlowRow]
    <3>1. [flows[f] EXCEPT !.live = FALSE] \in FlowRow
      BY <1>0 DEF FlowRow
    <3> QED BY <1>0, <2>1, <3>1
  <2>4. /\ Opened(f) /\ flows'[f].status = flows[f].status /\ ~flows'[f].live
        /\ flows'[f].claimedBy = flows[f].claimedBy /\ flows'[f].identity = flows[f].identity
        /\ \A g \in Flows : g # f => flows'[g] = flows[g]
    BY <1>0, <2>1 DEF FlowRow, Opened
  <2>5. Advanced(f)
    BY <2>2, <2>4 DEF Advanced
  <2> QED BY <2>3, <2>4, <2>5 DEF FlowMove
<1>8. ASSUME NEW r \in Requests, LoginCommit(r) \/ LoginRegister(r) PROVE Moves
  <2>1. /\ pc[r] \in {"found", "notFound"} /\ CanFinishFlow(job[r].flow, "processing")
        /\ flows' = Moved(job[r].flow, "consumed")
    BY <1>8 DEF LoginCommit, LoginRegister, OpenSession
  <2>2. job[r].flow \in Flows /\ flows[job[r].flow].purpose \in {"login", "register"}
    BY <1>0, <2>1 DEF LinkInv, RequestInv, Remembers, TypeOK
  <2> QED BY <1>0, <2>1, <2>2, StatusMoves DEF FlowStatus
<1>9. ASSUME NEW r \in Requests, UnlinkCommit(r) \/ SetPasswordCommit(r) PROVE Moves
  <2> DEFINE proof == job[r].proof
  <2>1. \/ UNCHANGED flows
        \/ CanFinishFlow(proof, "authorized") /\ flows' = Moved(proof, "consumed") /\ SpendsProof(r)
    BY <1>9 DEF UnlinkCommit, SetPasswordCommit, SpendsProof
  <2>2. CASE proof \in Flows
    BY <1>0, <1>1, <2>1, <2>2, StatusMoves DEF FlowStatus
  <2>3. CASE proof \notin Flows
    <3>1. UNCHANGED flows
      BY <1>0, <2>1, <2>3 DEF Moved
    <3> QED BY <1>1, <3>1
  <2> QED BY <2>2, <2>3
<1>10. ASSUME NEW r \in Requests, StartLinkCommit(r) PROVE Moves
  <2>1. PICK f \in Flows, proof \in Flows :
          /\ flows' \in [Flows -> FlowRow] /\ Born(f) /\ Advanced(proof)
          /\ \A g \in Flows : g = f \/ g = proof \/ flows'[g] = flows[g]
    BY <1>10, LinkStarted
  <2> QED BY <2>1 DEF FlowMove
<1>11. ASSUME NEW r \in Requests, ConfirmLinkCommit(r) PROVE Moves
  <2>1. /\ flows' \in [Flows -> FlowRow]
        /\ \A g \in Flows : IF g \in {job[r].flow, job[r].proof} THEN Advanced(g)
                             ELSE flows'[g] = flows[g]
    BY <1>11, LinkConfirmed
  <2> QED BY <2>1 DEF FlowMove
<1> HIDE DEF Moves
<1>12. ASSUME FlowWrite PROVE Moves
  BY <1>2, <1>3, <1>4, <1>5, <1>6, <1>7, <1>10, <1>12 DEF FlowWrite
<1>13. ASSUME TableWrite PROVE Moves
  BY <1>1, <1>8, <1>9, <1>11, <1>13
  DEF TableWrite, PasswordLogin, EndSession, SetStatus, AdminRevoke
<1>14. Moves
  BY <1>1, <1>12, <1>13, StepCases
<1> QED BY <1>14 DEF Moves

----------------------------------------------------------------------------
\* A row in use stays in use and keeps what it stands for.
LEMMA RowsStay ==
    ASSUME LinkInv, [Next]_vars
    PROVE  /\ \A u \in Users : users[u].status # "absent" => users'[u].status # "absent"
           /\ \A s \in Sessions : sessions[s].state # "absent" =>
                sessions'[s].state # "absent" /\ sessions'[s].owner = sessions[s].owner
           /\ \A a \in Accounts : accounts[a].state # "absent" =>
                /\ accounts'[a].state # "absent" /\ accounts'[a].owner = accounts[a].owner
                /\ accounts'[a].identity = accounts[a].identity
                /\ accounts'[a].provider = accounts[a].provider
           /\ \A f \in Flows : flows[f].status # "absent" =>
                /\ flows'[f].status # "absent" /\ Opened(f)
                /\ flows[f].status # "pending" => flows'[f].status # "pending"
<1>1. \A u \in Users : users[u].status # "absent" => users'[u].status # "absent"
  BY UserMoves
<1>2. \A s \in Sessions : sessions[s].state # "absent" =>
        sessions'[s].state # "absent" /\ sessions'[s].owner = sessions[s].owner
  BY SessionMoves
<1>3. \A a \in Accounts : accounts[a].state # "absent" =>
        /\ accounts'[a].state # "absent" /\ accounts'[a].owner = accounts[a].owner
        /\ accounts'[a].identity = accounts[a].identity
        /\ accounts'[a].provider = accounts[a].provider
  BY AccountMoves
<1>4. ASSUME NEW f \in Flows, flows[f].status # "absent"
      PROVE  /\ flows'[f].status # "absent" /\ Opened(f)
             /\ flows[f].status # "pending" => flows'[f].status # "pending"
  <2>1. FlowMove(f) /\ ~Born(f)
    BY <1>4, FlowMoves DEF Born, NoFlow
  <2>2. CASE flows'[f] = flows[f]
    BY <1>4, <2>2 DEF Opened
  <2>3. CASE Advanced(f)
    BY <1>4, <2>3 DEF Advanced
  <2> QED BY <2>1, <2>2, <2>3 DEF FlowMove
<1> QED BY <1>1, <1>2, <1>3, <1>4

----------------------------------------------------------------------------
\* Requests

\* The steps in which the request r reads and goes on
Reads(r) ==
  \/ \E s \in Sessions, a \in Accounts, operation \in Operations, target \in Targets :
       ReauthenticateRead(r, s, a, operation, target)
  \/ ReauthenticateCheck(r)
  \/ \E f \in Flows : Callback(r, f)
  \/ \E i \in Identities : BoundCheck(r, i) \/ LoginFind(r, i)
  \/ \E s \in Sessions, p \in Providers, f \in Flows : StartLink(r, s, p, f)
  \/ \E s \in Sessions, f \in Flows : ConfirmLink(r, s, f)
  \/ \E s \in Sessions, a \in Accounts, f \in Flows : Unlink(r, s, a, f)
  \/ \E s \in Sessions, f \in Flows \union {NoOne} : SetPasswordRead(r, s, f)
  \/ SetPasswordLock(r)

\* A step goes on with one request, ends one, ends all, or has none.
LEMMA RequestSteps ==
    ASSUME [Next]_vars
    PROVE  \/ UNCHANGED <<config, lock, pc, job>>
           \/ \E c \in [Providers -> 0..MaxConfig] : Restart(c)
           \/ \E r \in Requests : Done(r) /\ UNCHANGED config /\ (UNCHANGED lock \/ Unlock(r))
           \/ \E r \in Requests : Reads(r)
<1> DEFINE Quiet == UNCHANGED <<config, lock, pc, job>>
           Ends(r) == Done(r) /\ UNCHANGED config /\ (UNCHANGED lock \/ Unlock(r))
<1>1. ASSUME \/ UNCHANGED vars
             \/ \E p \in Providers, purpose \in Purposes : StartLogin(p, purpose)
             \/ \E s \in Sessions, u \in Users, a \in Accounts : PasswordLogin(s, u, a)
             \/ \E u \in Users, status \in {"active", "disabled"} : SetStatus(u, status)
             \/ \E u \in Users : AdminRevoke(u)
             \/ \E s \in Sessions : EndSession(s)
             \/ \E f \in Flows : ExpireFlow(f)
      PROVE  Quiet
  BY <1>1 DEF vars, flowVars, StartLogin, PasswordLogin, SetStatus, AdminRevoke, EndSession, ExpireFlow
<1>2. ASSUME NEW r \in Requests,
             Fail(r) \/ ReauthenticateInsert(r) \/ BoundCommit(r) \/ CallbackFails(r) \/ StartLinkCommit(r)
      PROVE  Ends(r)
  BY <1>2 DEF Fail, ReauthenticateInsert, BoundCommit, CallbackFails, StartLinkCommit
<1>3. ASSUME NEW r \in Requests,
             \/ LoginCommit(r) \/ LoginRegister(r) \/ ConfirmLinkCommit(r)
             \/ UnlinkCommit(r) \/ SetPasswordCommit(r)
      PROVE  Ends(r)
  BY <1>3 DEF LoginCommit, LoginRegister, OpenSession, ConfirmLinkCommit, UnlinkCommit, SetPasswordCommit
<1> HIDE DEF Quiet, Ends
<1>4. FlowNext => \/ Quiet \/ \E c \in [Providers -> 0..MaxConfig] : Restart(c)
                  \/ \E r \in Requests : Ends(r) \/ Reads(r)
  BY <1>1, <1>2 DEF FlowNext, Reads
<1>5. \/ Quiet \/ \E c \in [Providers -> 0..MaxConfig] : Restart(c)
      \/ \E r \in Requests : Ends(r) \/ Reads(r)
  BY <1>1, <1>2, <1>3, <1>4 DEF Next, Reads
<1> QED BY <1>5 DEF Quiet, Ends

\* A read step changes what its request remembers, takes a lock perhaps, and
\* writes no table but flows (the claim of a callback).
LEMMA ReadStep ==
    ASSUME LinkInv, NEW r \in Requests, Reads(r)
    PROVE  /\ \E label \in PC \ {"idle"}, j \in Job : Goto(r, label, j)
           /\ UNCHANGED <<users, accounts, sessions, config>>
           /\ lock' \in [Users -> Requests \union {NoOne}]
<1> DEFINE Reading ==
      /\ \E label \in PC \ {"idle"}, j \in Job : Goto(r, label, j)
      /\ UNCHANGED <<users, accounts, sessions, config>>
      /\ lock' \in [Users -> Requests \union {NoOne}]
<1>0. TypeOK /\ lock \in [Users -> Requests \union {NoOne}] /\ job[r] \in Job
  BY DEF LinkInv, TypeOK
<1>1. ASSUME NEW s \in Sessions, NEW a \in Accounts, NEW operation \in Operations, NEW target \in Targets,
             ReauthenticateRead(r, s, a, operation, target)
      PROVE  Reading
  <2>1. PICK n \in Nat, m \in Nat : n = users[sessions[s].owner].version /\ m = accounts[a].version
    <3>1. sessions[s].owner \in Users
      BY <1>1 DEF ReauthenticateRead, ValidSession
    <3> QED BY <1>0, <3>1, Columns
  <2>2. operation \in FlowOperation
    BY FlowConstants
  <2> DEFINE j == [NoJob EXCEPT !.session = s, !.version = n, !.account = a, !.accountVersion = m,
                                !.operation = operation, !.target = target]
  <2>3. j \in Job
    BY <2>2, NoRows DEF Job
  <2>4. Goto(r, "reauthRead", j) /\ UNCHANGED <<tables, config, lock>>
    BY <1>1, <2>1 DEF ReauthenticateRead
  <2> QED BY <1>0, <2>3, <2>4 DEF PC, tables
<1>2. ASSUME ReauthenticateCheck(r) PROVE Reading
  <2>1. pc[r] = "reauthRead"
    BY <1>2 DEF ReauthenticateCheck
  <2>2. PICK n \in Nat : n = users[sessions[job[r].session].owner].version
    BY <1>0, <2>1, SessionUser, Columns
  <2>3. [job[r] EXCEPT !.version = n] \in Job
    BY <1>0 DEF Job
  <2>4. Goto(r, "reauthChecked", [job[r] EXCEPT !.version = n]) /\ UNCHANGED <<tables, config, lock>>
    BY <1>2, <2>2 DEF ReauthenticateCheck
  <2> QED BY <1>0, <2>3, <2>4 DEF PC, tables
<1>3. ASSUME NEW f \in Flows, Callback(r, f) PROVE Reading
  <2>1. [NoJob EXCEPT !.flow = f] \in Job
    BY NoRows DEF Job
  <2> QED BY <1>0, <1>3, <2>1 DEF Callback, PC, tables
<1>4. ASSUME NEW i \in Identities, BoundCheck(r, i) PROVE Reading
  <2>1. [job[r] EXCEPT !.identity = i] \in Job
    BY <1>0 DEF Job
  <2> QED BY <1>0, <1>4, <2>1 DEF BoundCheck, PC, tables
<1>5. ASSUME NEW i \in Identities, LoginFind(r, i) PROVE Reading
  <2>1. [job[r] EXCEPT !.identity = i] \in Job
    BY <1>0 DEF Job
  <2>2. ASSUME NEW a \in Accounts
        PROVE  [job[r] EXCEPT !.account = a, !.identity = i, !.accountVersion = accounts[a].version] \in Job
    <3>1. accounts[a].version \in Nat
      BY <1>0, Columns
    <3> QED BY <1>0, <3>1 DEF Job
  <2>3. UNCHANGED <<tables, config, lock>>
    BY <1>5 DEF LoginFind
  <2>4. \/ \E a \in Accounts :
             Goto(r, "found", [job[r] EXCEPT !.account = a, !.identity = i,
                                             !.accountVersion = accounts[a].version])
        \/ Goto(r, "notFound", [job[r] EXCEPT !.identity = i])
    BY <1>5 DEF LoginFind
  <2> QED BY <1>0, <2>1, <2>2, <2>3, <2>4 DEF PC, tables
<1>6. ASSUME NEW s \in Sessions, NEW p \in Providers, NEW f \in Flows, StartLink(r, s, p, f) PROVE Reading
  <2>1. PICK n \in Nat : n = users[sessions[s].owner].version
    <3>1. sessions[s].owner \in Users
      BY <1>6 DEF StartLink, ValidSession
    <3> QED BY <1>0, <3>1, Columns
  <2> DEFINE j == [NoJob EXCEPT !.session = s, !.proof = f, !.target = p, !.version = n]
  <2>2. j \in Job
    BY NoRows DEF Job, Targets
  <2>3. Goto(r, "linkChecked", j) /\ UNCHANGED <<tables, config, lock>>
    BY <1>6, <2>1 DEF StartLink
  <2> QED BY <1>0, <2>2, <2>3 DEF PC, tables
<1>7. ASSUME NEW s \in Sessions, NEW f \in Flows, ConfirmLink(r, s, f) PROVE Reading
  <2>1. flows[f].reauth \in Flows \union {NoOne}
    BY <1>0, Columns
  <2>2. [NoJob EXCEPT !.session = s, !.flow = f, !.proof = flows[f].reauth] \in Job
    BY <2>1, NoRows DEF Job
  <2>3. /\ Goto(r, "confirmLocked", [NoJob EXCEPT !.session = s, !.flow = f, !.proof = flows[f].reauth])
        /\ LockUser(r, sessions[s].owner) /\ UNCHANGED <<tables, config>>
    BY <1>7 DEF ConfirmLink
  <2>4. lock' \in [Users -> Requests \union {NoOne}]
    BY <1>0, <2>3 DEF LockUser
  <2> QED BY <2>2, <2>3, <2>4 DEF PC, tables
<1>8. ASSUME NEW s \in Sessions, NEW a \in Accounts, NEW f \in Flows, Unlink(r, s, a, f) PROVE Reading
  <2>1. [NoJob EXCEPT !.session = s, !.account = a, !.proof = f] \in Job
    BY NoRows DEF Job
  <2>2. /\ Goto(r, "unlinkLocked", [NoJob EXCEPT !.session = s, !.account = a, !.proof = f])
        /\ LockUser(r, sessions[s].owner) /\ UNCHANGED <<tables, config>>
    BY <1>8 DEF Unlink
  <2>3. lock' \in [Users -> Requests \union {NoOne}]
    BY <1>0, <2>2 DEF LockUser
  <2> QED BY <2>1, <2>2, <2>3 DEF PC, tables
<1>9. ASSUME NEW s \in Sessions, NEW f \in Flows \union {NoOne}, SetPasswordRead(r, s, f) PROVE Reading
  <2>1. PICK n \in Nat : n = users[sessions[s].owner].version
    <3>1. sessions[s].owner \in Users
      BY <1>9 DEF SetPasswordRead, ValidSession
    <3> QED BY <1>0, <3>1, Columns
  <2>2. ASSUME NEW a \in Accounts
        PROVE  [NoJob EXCEPT !.session = s, !.account = a, !.accountVersion = accounts[a].version,
                             !.version = n] \in Job
    <3>1. accounts[a].version \in Nat
      BY <1>0, Columns
    <3> QED BY <3>1, NoRows DEF Job
  <2>3. [NoJob EXCEPT !.session = s, !.proof = f, !.version = n] \in Job
    BY NoRows DEF Job
  <2>4. \/ \E a \in Accounts :
             Goto(r, "passwordRead", [NoJob EXCEPT !.session = s, !.account = a,
                          !.accountVersion = accounts[a].version, !.version = n])
        \/ Goto(r, "passwordRead", [NoJob EXCEPT !.session = s, !.proof = f, !.version = n])
    BY <1>9, <2>1 DEF SetPasswordRead
  <2>5. UNCHANGED <<tables, config, lock>>
    BY <1>9 DEF SetPasswordRead
  <2> QED BY <1>0, <2>2, <2>3, <2>4, <2>5 DEF PC, tables
<1>10. ASSUME SetPasswordLock(r) PROVE Reading
  <2>1. /\ Goto(r, "passwordLocked", job[r]) /\ LockUser(r, sessions[job[r].session].owner)
        /\ UNCHANGED <<tables, config>>
    BY <1>10 DEF SetPasswordLock
  <2>2. lock' \in [Users -> Requests \union {NoOne}]
    BY <1>0, <2>1 DEF LockUser
  <2> QED BY <1>0, <2>1, <2>2 DEF PC, tables
<1> HIDE DEF Reading
<1>11. Reading
  BY <1>1, <1>2, <1>3, <1>4, <1>5, <1>6, <1>7, <1>8, <1>9, <1>10 DEF Reads
<1> QED BY <1>11 DEF Reading

----------------------------------------------------------------------------
\* Requests and locks keep their types; a request stays where it is, ends, or
\* reads in a step of its own.
LEMMA RequestMoves ==
    ASSUME LinkInv, [Next]_vars
    PROVE  /\ pc' \in [Requests -> PC] /\ job' \in [Requests -> Job]
           /\ lock' \in [Users -> Requests \union {NoOne}] /\ config' \in [Providers -> Nat]
           /\ \A q \in Requests :
                \/ pc'[q] = pc[q] /\ job'[q] = job[q] /\ config' = config
                \/ pc'[q] = "idle" /\ job'[q] = NoJob
                \/ Reads(q)
<1> DEFINE Moves ==
      /\ pc' \in [Requests -> PC] /\ job' \in [Requests -> Job]
      /\ lock' \in [Users -> Requests \union {NoOne}] /\ config' \in [Providers -> Nat]
      /\ \A q \in Requests :
           \/ pc'[q] = pc[q] /\ job'[q] = job[q] /\ config' = config
           \/ pc'[q] = "idle" /\ job'[q] = NoJob
           \/ Reads(q)
<1>0. /\ pc \in [Requests -> PC] /\ job \in [Requests -> Job]
      /\ lock \in [Users -> Requests \union {NoOne}] /\ config \in [Providers -> Nat]
  BY DEF LinkInv, TypeOK
<1>1. "idle" \in PC /\ NoJob \in Job
  BY NoRows DEF PC
<1>2. CASE UNCHANGED <<config, lock, pc, job>>
  BY <1>0, <1>2
<1>3. ASSUME NEW c \in [Providers -> 0..MaxConfig], Restart(c) PROVE Moves
  <2>1. c \in [Providers -> Nat]
    BY FlowConstants
  <2> QED BY <1>1, <1>3, <2>1 DEF Restart
<1>4. ASSUME NEW r \in Requests, Done(r), UNCHANGED config, UNCHANGED lock \/ Unlock(r) PROVE Moves
  <2>1. lock' \in [Users -> Requests \union {NoOne}]
    BY <1>0, <1>4 DEF Unlock
  <2> QED BY <1>0, <1>1, <1>4, <2>1 DEF Done
<1>5. ASSUME NEW r \in Requests, Reads(r) PROVE Moves
  <2>1. PICK label \in PC \ {"idle"}, j \in Job : Goto(r, label, j)
    BY <1>5, ReadStep
  <2>2. UNCHANGED config /\ lock' \in [Users -> Requests \union {NoOne}]
    BY <1>5, ReadStep
  <2> QED BY <1>0, <1>5, <2>1, <2>2 DEF Goto
<1> QED BY <1>2, <1>3, <1>4, <1>5, RequestSteps

\* What a request has just read is so.
LEMMA ReadRemembers ==
    ASSUME LinkInv, [Next]_vars, NEW r \in Requests, Reads(r)
    PROVE  Remembers(r)'
<1>0. /\ TypeOK /\ pc \in [Requests -> PC] /\ job \in [Requests -> Job] /\ job[r] \in Job
      /\ flows \in [Flows -> FlowRow] /\ UNCHANGED <<users, accounts, sessions, config>>
  BY ReadStep DEF LinkInv, TypeOK
<1>1. ASSUME NEW s \in Sessions, NEW a \in Accounts, NEW operation \in Operations, NEW target \in Targets,
             ReauthenticateRead(r, s, a, operation, target)
      PROVE  Remembers(r)'
  <2>1. pc'[r] = "reauthRead" /\ job'[r].session = s /\ job'[r].account = a
    BY <1>0, <1>1 DEF ReauthenticateRead, Goto, NoJob
  <2>2. sessions'[s].state # "absent" /\ accounts'[a].state # "absent"
    BY <1>0, <1>1 DEF ReauthenticateRead, ValidSession, HasAccount
  <2> QED BY <2>1, <2>2 DEF Remembers
<1>2. ASSUME ReauthenticateCheck(r) PROVE Remembers(r)'
  <2>1. /\ pc[r] = "reauthRead" /\ pc'[r] = "reauthChecked"
        /\ job'[r].session = job[r].session /\ job'[r].account = job[r].account
    BY <1>0, <1>2 DEF ReauthenticateCheck, Goto, Job
  <2> QED BY <1>0, <2>1 DEF LinkInv, RequestInv, Remembers
<1>3. ASSUME NEW f \in Flows, Callback(r, f) PROVE Remembers(r)'
  <2>1. pc'[r] = "callback" /\ job'[r].flow = f
    BY <1>0, <1>3 DEF Callback, Goto, NoJob
  <2>2. flows'[f].status = "processing" /\ Opened(f)
    BY <1>0, <1>3, MovedRow DEF Callback, FlowStatus
  <2>3. flows[f].provider \in Providers /\ config[flows[f].provider] = flows[f].config
    BY <1>3 DEF Callback, CanClaimFlow, LinkInv, TypeOK
  <2>4. /\ flows'[f].provider \in Providers /\ config'[flows'[f].provider] = flows'[f].config
    BY <1>0, <2>2, <2>3 DEF Opened
  <2> QED BY <2>1, <2>2, <2>4 DEF Remembers
<1>4. ASSUME NEW i \in Identities, BoundCheck(r, i) PROVE Remembers(r)'
  <2>1. /\ pc[r] = "callback" /\ flows[job[r].flow].purpose \in {"reauthenticate", "link_identity"}
        /\ Issuer[i] = flows[job[r].flow].provider
        /\ pc'[r] = "bound" /\ job'[r].flow = job[r].flow /\ job'[r].identity = i /\ UNCHANGED flows
    BY <1>0, <1>4 DEF BoundCheck, Goto, Job
  <2> QED BY <1>0, <2>1 DEF LinkInv, RequestInv, Remembers
<1>5. ASSUME NEW i \in Identities, LoginFind(r, i) PROVE Remembers(r)'
  <2>1. /\ pc[r] = "callback" /\ flows[job[r].flow].purpose \in {"login", "register"}
        /\ Issuer[i] = flows[job[r].flow].provider /\ UNCHANGED flows
    BY <1>5 DEF LoginFind
  <2>2. CASE \E a \in Accounts :
               /\ HasIdentity(a, i)
               /\ Goto(r, "found", [job[r] EXCEPT !.account = a, !.identity = i,
                                                  !.accountVersion = accounts[a].version])
    <3>1. PICK a \in Accounts :
            /\ HasIdentity(a, i)
            /\ Goto(r, "found", [job[r] EXCEPT !.account = a, !.identity = i,
                                               !.accountVersion = accounts[a].version])
      BY <2>2
    <3>2. /\ pc'[r] = "found" /\ job'[r].flow = job[r].flow /\ job'[r].identity = i
          /\ job'[r].account = a
      BY <1>0, <3>1 DEF Goto, Job
    <3>3. accounts'[a].state # "absent" /\ accounts'[a].identity = i
      BY <1>0, <3>1 DEF HasIdentity
    <3> QED BY <1>0, <2>1, <3>2, <3>3 DEF LinkInv, RequestInv, Remembers
  <2>3. CASE Goto(r, "notFound", [job[r] EXCEPT !.identity = i])
    <3>1. pc'[r] = "notFound" /\ job'[r].flow = job[r].flow /\ job'[r].identity = i
      BY <1>0, <2>3 DEF Goto, Job
    <3> QED BY <1>0, <2>1, <3>1 DEF LinkInv, RequestInv, Remembers
  <2> QED BY <1>5, <2>2, <2>3 DEF LoginFind
<1>6. ASSUME NEW s \in Sessions, NEW p \in Providers, NEW f \in Flows, StartLink(r, s, p, f)
      PROVE  Remembers(r)'
  <2>1. pc'[r] = "linkChecked" /\ job'[r].session = s /\ job'[r].proof = f /\ job'[r].target = p
    BY <1>0, <1>6 DEF StartLink, Goto, NoJob
  <2>2. sessions'[s].state # "absent"
    BY <1>0, <1>6 DEF StartLink, ValidSession
  <2> QED BY <2>1, <2>2 DEF Remembers
<1>7. ASSUME NEW s \in Sessions, NEW f \in Flows, ConfirmLink(r, s, f) PROVE Remembers(r)'
  <2>1. pc'[r] = "confirmLocked" /\ job'[r].session = s /\ job'[r].flow = f
    BY <1>0, <1>7 DEF ConfirmLink, Goto, NoJob
  <2>2. sessions'[s].state # "absent" /\ flows'[f].status = "verified"
    BY <1>0, <1>7 DEF ConfirmLink, ValidSession
  <2> QED BY <2>1, <2>2 DEF Remembers
<1>8. ASSUME NEW s \in Sessions, NEW a \in Accounts, NEW f \in Flows, Unlink(r, s, a, f)
      PROVE  Remembers(r)'
  <2>1. pc'[r] = "unlinkLocked" /\ job'[r].session = s /\ job'[r].account = a
    BY <1>0, <1>8 DEF Unlink, Goto, NoJob
  <2>2. sessions'[s].state # "absent" /\ accounts'[a].state # "absent"
    BY <1>0, <1>8 DEF Unlink, ValidSession, HasAccount
  <2> QED BY <2>1, <2>2 DEF Remembers
<1>9. ASSUME NEW s \in Sessions, NEW f \in Flows \union {NoOne}, SetPasswordRead(r, s, f)
      PROVE  Remembers(r)'
  <2>1. sessions'[s].state # "absent"
    BY <1>0, <1>9 DEF SetPasswordRead, ValidSession
  <2>2. pc'[r] = "passwordRead" /\ job'[r].session = s
    BY <1>0, <1>9 DEF SetPasswordRead, Goto, NoJob
  <2>3. job'[r].account = NoOne => job'[r].proof \in Flows
    <3>1. (\E a \in Accounts : job'[r].account = a) \/ (f # NoOne /\ job'[r].proof = f)
      BY <1>0, <1>9 DEF SetPasswordRead, Goto, NoJob
    <3> QED BY <3>1, FlowConstants
  <2> QED BY <2>1, <2>2, <2>3 DEF Remembers
<1>10. ASSUME SetPasswordLock(r) PROVE Remembers(r)'
  <2>1. pc[r] = "passwordRead" /\ pc'[r] = "passwordLocked" /\ job'[r] = job[r]
    BY <1>0, <1>10 DEF SetPasswordLock, Goto
  <2> QED BY <1>0, <2>1 DEF LinkInv, RequestInv, Remembers
<1> QED BY <1>1, <1>2, <1>3, <1>4, <1>5, <1>6, <1>7, <1>8, <1>9, <1>10 DEF Reads

\* What a request remembers stays true in the steps of others.
LEMMA RememberStep ==
    ASSUME LinkInv, [Next]_vars
    PROVE  RequestInv'
<1> SUFFICES ASSUME NEW q \in Requests PROVE Remembers(q)'
  BY DEF RequestInv
<1>1. CASE Reads(q)
  BY <1>1, ReadRemembers
<1>2. CASE pc'[q] = "idle"
  BY <1>2 DEF Remembers
<1>3. CASE pc'[q] = pc[q] /\ job'[q] = job[q] /\ config' = config
  <2>1. Remembers(q)
    BY DEF LinkInv, RequestInv
  <2>2. ASSUME NEW s \in Sessions, sessions[s].state # "absent" PROVE sessions'[s].state # "absent"
    BY <2>2, RowsStay
  <2>3. ASSUME NEW a \in Accounts, accounts[a].state # "absent"
        PROVE  accounts'[a].state # "absent" /\ accounts'[a].identity = accounts[a].identity
    BY <2>3, RowsStay
  <2>4. ASSUME NEW f \in Flows, flows[f].status \notin {"absent", "pending"}
        PROVE  /\ flows'[f].status \notin {"absent", "pending"} /\ flows'[f].purpose = flows[f].purpose
               /\ flows'[f].provider = flows[f].provider /\ flows'[f].config = flows[f].config
    BY <2>4, RowsStay DEF Opened
  <2> QED BY <1>3, <2>1, <2>2, <2>3, <2>4 DEF Remembers
<1> QED BY <1>1, <1>2, <1>3, RequestMoves

----------------------------------------------------------------------------
\* The inductive invariant

\* The columns of a flow keep agreeing with each other.
LEMMA FlowStep ==
    ASSUME LinkInv, [Next]_vars
    PROVE  FlowInv'
<1> SUFFICES ASSUME NEW f \in Flows
             PROVE  /\ flows'[f].status = "absent" => flows'[f] = NoFlow
                    /\ flows'[f].purpose \in {"reauthenticate", "link_identity"} =>
                         flows'[f].session \in Sessions /\ sessions'[flows'[f].session].state # "absent"
                    /\ flows'[f].purpose \in {"login", "register"} => flows'[f].config > 0
                    /\ flows'[f].status \in {"absent", "pending", "processing"} =>
                         flows'[f].identity = NoOne
                    /\ flows'[f].status \notin {"claimed", "consumed"} => flows'[f].claimedBy = NoOne
                    /\ flows'[f].status = "verified" =>
                         /\ flows'[f].identity \in Identities
                         /\ Issuer[flows'[f].identity] = flows'[f].provider
  BY DEF FlowInv
<1>1. FlowMove(f)
  BY FlowMoves
<1>2. /\ flows[f].status = "absent" => flows[f] = NoFlow
      /\ flows[f].purpose \in {"reauthenticate", "link_identity"} =>
           flows[f].session \in Sessions /\ sessions[flows[f].session].state # "absent"
      /\ flows[f].purpose \in {"login", "register"} => flows[f].config > 0
      /\ flows[f].status \in {"absent", "pending", "processing"} => flows[f].identity = NoOne
      /\ flows[f].status \notin {"claimed", "consumed"} => flows[f].claimedBy = NoOne
      /\ flows[f].status = "verified" =>
           flows[f].identity \in Identities /\ Issuer[flows[f].identity] = flows[f].provider
  BY DEF LinkInv, FlowInv
<1>3. \A s \in Sessions : sessions[s].state # "absent" => sessions'[s].state # "absent"
  BY RowsStay
<1>4. CASE flows'[f] = flows[f]
  BY <1>2, <1>3, <1>4
<1>5. CASE Born(f)
  BY <1>3, <1>5 DEF Born
<1>6. CASE Advanced(f)
  <2>1. /\ flows'[f].purpose = flows[f].purpose /\ flows'[f].session = flows[f].session
        /\ flows'[f].config = flows[f].config /\ flows'[f].provider = flows[f].provider
    BY <1>6 DEF Advanced, Opened
  <2>2. flows'[f].status # "absent"
    BY <1>6 DEF Advanced
  <2>3. flows'[f].status \in {"absent", "pending", "processing"} => flows'[f].identity = NoOne
    BY <1>2, <1>6 DEF Advanced
  <2>4. flows'[f].status \notin {"claimed", "consumed"} => flows'[f].claimedBy = NoOne
    BY <1>2, <1>6 DEF Advanced
  <2>5. flows'[f].status = "verified" =>
          flows'[f].identity \in Identities /\ Issuer[flows'[f].identity] = flows[f].provider
    BY <1>2, <1>6 DEF Advanced
  <2> QED BY <1>2, <1>3, <2>1, <2>2, <2>3, <2>4, <2>5
<1> QED BY <1>1, <1>4, <1>5, <1>6 DEF FlowMove

\* Rows in use keep referring to rows in use.
LEMMA RowsStep ==
    ASSUME LinkInv, [Next]_vars
    PROVE  RowsInUse'
<1>0. TypeOK
  BY DEF LinkInv
<1>1. ASSUME NEW a \in Accounts, accounts'[a].state # "absent"
      PROVE  /\ accounts'[a].owner \in Users /\ users'[accounts'[a].owner].status # "absent"
             /\ accounts'[a].provider =
                  IF accounts'[a].identity = NoOne THEN "credential" ELSE Issuer[accounts'[a].identity]
  <2>1. CASE accounts[a].state # "absent"
    <3>1. /\ accounts[a].owner \in Users /\ users[accounts[a].owner].status # "absent"
          /\ accounts[a].provider =
               IF accounts[a].identity = NoOne THEN "credential" ELSE Issuer[accounts[a].identity]
      BY <2>1 DEF LinkInv, RowsInUse
    <3>2. /\ accounts'[a].owner = accounts[a].owner /\ accounts'[a].identity = accounts[a].identity
          /\ accounts'[a].provider = accounts[a].provider
          /\ users'[accounts[a].owner].status # "absent"
      BY <2>1, <3>1, RowsStay
    <3> QED BY <3>1, <3>2
  <2>2. CASE accounts[a].state = "absent"
    <3>1. PICK u \in Users, i \in Identities \union {NoOne} :
            accounts'[a] = LoginAccount(u, i) /\ users'[u].status # "absent"
      BY <1>1, <2>2, AccountMoves
    <3> QED BY <3>1, LoginAccountRow
  <2> QED BY <2>1, <2>2
<1>2. ASSUME NEW s \in Sessions, sessions'[s].state # "absent"
      PROVE  sessions'[s].owner \in Users /\ users'[sessions'[s].owner].status # "absent"
  <2>1. CASE sessions[s].state # "absent"
    <3>1. sessions[s].owner \in Users /\ users[sessions[s].owner].status # "absent"
      BY <2>1 DEF LinkInv, RowsInUse
    <3> QED BY <2>1, <3>1, RowsStay
  <2>2. CASE sessions[s].state = "absent"
    <3>1. \/ sessions'[s].owner = sessions[s].owner /\ sessions[s].owner \in Users
             /\ users[sessions[s].owner].status # "absent"
          \/ sessions'[s].owner \in Users /\ users'[sessions'[s].owner].status # "absent"
      BY <1>2, <2>2, SessionMoves
    <3> QED BY <3>1, RowsStay
  <2> QED BY <2>1, <2>2
<1> QED BY <1>1, <1>2 DEF RowsInUse

\* Tables and requests keep their types and agree in every step.
LEMMA LinkStep ==
    ASSUME LinkInv, [Next]_vars
    PROVE  LinkInv'
<1>1. RowsInUse' /\ FlowInv' /\ RequestInv'
  BY RowsStep, FlowStep, RememberStep
<1>2. /\ users' \in [Users -> UserRow] /\ accounts' \in [Accounts -> AccountRow]
      /\ sessions' \in [Sessions -> SessionRow] /\ flows' \in [Flows -> FlowRow]
      /\ config' \in [Providers -> Nat] /\ lock' \in [Users -> Requests \union {NoOne}]
      /\ pc' \in [Requests -> PC] /\ job' \in [Requests -> Job]
  BY UserMoves, AccountMoves, SessionMoves, FlowMoves, RequestMoves
<1>3. /\ \A a \in Accounts : accounts'[a].state # "absent" => accounts'[a].owner \in Users
      /\ \A s \in Sessions : sessions'[s].state # "absent" => sessions'[s].owner \in Users
  BY <1>1 DEF RowsInUse
<1>4. \A r \in Requests :
        /\ pc'[r] \in {"callback", "bound", "found", "notFound"} => job'[r].flow \in Flows
        /\ pc'[r] \in {"found", "unlinkLocked"} => job'[r].account \in Accounts
  BY <1>1 DEF RequestInv, Remembers
<1>5. ASSUME NEW f \in Flows
      PROVE  /\ flows'[f].purpose \in {"reauthenticate", "link_identity"} =>
                  /\ flows'[f].session \in Sessions
                  /\ flows'[f].user = sessions'[flows'[f].session].owner
             /\ flows'[f].purpose = "reauthenticate" => flows'[f].account \in Accounts
             /\ flows'[f].purpose = "link_identity" => flows'[f].reauth \in Flows
             /\ flows'[f].status \in {"pending", "processing"} => flows'[f].provider \in Providers
  <2>1. FlowMove(f)
    BY FlowMoves
  <2>2. /\ flows[f].purpose \in {"reauthenticate", "link_identity"} =>
             /\ flows[f].session \in Sessions /\ sessions[flows[f].session].state # "absent"
             /\ flows[f].user = sessions[flows[f].session].owner
        /\ flows[f].purpose = "reauthenticate" => flows[f].account \in Accounts
        /\ flows[f].purpose = "link_identity" => flows[f].reauth \in Flows
        /\ flows[f].status \in {"pending", "processing"} => flows[f].provider \in Providers
    BY DEF LinkInv, TypeOK, FlowInv
  <2>3. \A s \in Sessions : sessions[s].state # "absent" => sessions'[s].owner = sessions[s].owner
    BY RowsStay
  <2>4. CASE flows'[f] = flows[f]
    BY <2>2, <2>3, <2>4
  <2>5. CASE Born(f)
    BY <2>3, <2>5 DEF Born
  <2>6. CASE Advanced(f)
    <3>1. Opened(f)
      BY <2>6 DEF Advanced
    <3>2. flows'[f].status \in {"pending", "processing"} => flows[f].status \in {"pending", "processing"}
      BY <2>6 DEF Advanced
    <3> QED BY <2>2, <2>3, <3>1, <3>2 DEF Opened
  <2> QED BY <2>1, <2>4, <2>5, <2>6 DEF FlowMove
<1>6. TypeOK'
  BY <1>2, <1>3, <1>4, <1>5 DEF TypeOK
<1> QED BY <1>1, <1>6 DEF LinkInv

\* The tables a behaviour starts with: nobody, or one user with one or two
\* login methods.
LEMMA StartTables ==
    ASSUME InitNobody \/ InitOneUser
    PROVE  /\ users \in [Users -> UserRow] /\ accounts \in [Accounts -> AccountRow]
           /\ sessions \in [Sessions -> SessionRow]
           /\ RowsInUse
<1>1. CASE InitNobody
  <2>1. /\ users \in [Users -> UserRow] /\ accounts \in [Accounts -> AccountRow]
        /\ sessions \in [Sessions -> SessionRow]
    BY <1>1, NoRows DEF InitNobody
  <2>2. RowsInUse
    BY <1>1 DEF InitNobody, RowsInUse, NoAccount, NoSession
  <2> QED BY <2>1, <2>2
<1>2. CASE InitOneUser
  <2>1. PICK u \in Users : u = CHOOSE v \in Users : TRUE
    BY StartConstants
  <2>2. PICK a \in Accounts : a = CHOOSE b \in Accounts : TRUE
    BY StartConstants
  <2> DEFINE c == CHOOSE b \in Accounts \ {a} : TRUE
             t == CHOOSE x \in Sessions : TRUE
             first == [status |-> "active", version |-> 1, verified |-> TRUE]
             live == [state |-> "live", owner |-> u, version |-> 1, source |-> a]
  <2>3. users = [v \in Users |-> IF v # u THEN NoUser ELSE first]
    BY <1>2, <2>1 DEF InitOneUser
  <2>4. PICK i \in Identities \union {NoOne},
             second \in {NoAccount} \union {LoginAccount(u, j) : j \in Identities} :
          accounts = [b \in Accounts |-> CASE b = a -> LoginAccount(u, i)
                                           [] b = c -> second
                                           [] OTHER -> NoAccount]
    BY <1>2, <2>1, <2>2 DEF InitOneUser
  <2>5. PICK session \in {NoSession, live} :
          sessions = [s \in Sessions |-> IF s # t THEN NoSession ELSE session]
    BY <1>2, <2>1, <2>2 DEF InitOneUser
  <2>6. first \in UserRow /\ first.status # "absent"
    BY DEF UserRow
  <2>7. live \in SessionRow /\ live.owner = u
    BY DEF SessionRow
  <2> HIDE DEF c, t, first, live
  <2>8. users \in [Users -> UserRow] /\ users[u].status # "absent"
    BY <2>3, <2>6, NoRows
  <2>9. \A b \in Accounts :
          accounts[b] = NoAccount \/ \E j \in Identities \union {NoOne} : accounts[b] = LoginAccount(u, j)
    BY <2>4
  <2>10. accounts \in [Accounts -> AccountRow]
    <3>1. \A b \in Accounts : accounts[b] \in AccountRow
      BY <2>9, NoRows, LoginAccountRow
    <3> QED BY <2>4, <3>1
  <2>11. sessions \in [Sessions -> SessionRow]
    BY <2>5, <2>7, NoRows
  <2>12. ASSUME NEW b \in Accounts, accounts[b].state # "absent"
         PROVE  /\ accounts[b].owner \in Users /\ users[accounts[b].owner].status # "absent"
                /\ accounts[b].provider =
                     IF accounts[b].identity = NoOne THEN "credential" ELSE Issuer[accounts[b].identity]
    <3>1. accounts[b] # NoAccount
      BY <2>12 DEF NoAccount
    <3>2. PICK j \in Identities \union {NoOne} : accounts[b] = LoginAccount(u, j)
      BY <2>9, <3>1
    <3> QED BY <2>8, <3>2, LoginAccountRow
  <2>13. ASSUME NEW s \in Sessions, sessions[s].state # "absent" PROVE sessions[s].owner = u
    BY <2>5, <2>7, <2>13 DEF NoSession
  <2> QED BY <2>8, <2>10, <2>11, <2>12, <2>13 DEF RowsInUse
<1> QED BY <1>1, <1>2

\* Tables and requests agree at the start.
LEMMA LinkStart ==
    ASSUME Init
    PROVE  LinkInv
<1>1. /\ users \in [Users -> UserRow] /\ accounts \in [Accounts -> AccountRow]
      /\ sessions \in [Sessions -> SessionRow] /\ RowsInUse
  BY StartTables DEF Init
<1>2. /\ flows \in [Flows -> FlowRow] /\ config \in [Providers -> Nat]
      /\ lock \in [Users -> Requests \union {NoOne}] /\ pc \in [Requests -> PC]
      /\ job \in [Requests -> Job]
  BY NoRows DEF Init, PC
<1>3. \A f \in Flows : /\ flows[f] = NoFlow /\ flows[f].purpose = "none" /\ flows[f].status = "absent"
                       /\ flows[f].identity = NoOne /\ flows[f].claimedBy = NoOne
  BY DEF Init, NoFlow
<1>4. \A r \in Requests : pc[r] = "idle"
  BY DEF Init
<1>5. TypeOK
  BY <1>1, <1>2, <1>3, <1>4 DEF TypeOK, RowsInUse
<1>6. FlowInv /\ RequestInv
  BY <1>3, <1>4 DEF FlowInv, RequestInv, Remembers
<1> QED BY <1>1, <1>5, <1>6 DEF LinkInv

\* Every table, lock and request keeps its type, and rows in use, columns of a
\* flow and memories of a request keep agreeing, whatever is interleaved with
\* the requests and whenever the process is restarted.
THEOREM LinkConsistency == Spec => []LinkInv
<1>1. LinkInv /\ [Next]_vars => LinkInv'
  BY LinkStep
<1> QED BY LinkStart, <1>1, PTL DEF Spec

\* The tables and requests of the federated handlers keep their types.
THEOREM LinkTypes == Spec => []TypeOK
<1>1. LinkInv => TypeOK
  BY DEF LinkInv
<1> QED BY LinkConsistency, <1>1, PTL

\* One step of a flow, from what its statements do.
LEMMA FlowForward ==
    ASSUME LinkInv, [Next]_vars, NEW f \in Flows
    PROVE  /\ flows'[f].status # flows[f].status =>
                /\ <<flows[f].status, flows'[f].status>> \in Edges
                /\ flows[f].live \/ flows[f].status = "absent" \/ flows'[f].status = "failed"
           /\ flows[f].status # "absent" =>
                /\ flows'[f].live => flows[f].live
                /\ flows'[f] = [flows[f] EXCEPT !.status = flows'[f].status, !.live = flows'[f].live,
                                   !.claimedBy = flows'[f].claimedBy, !.identity = flows'[f].identity]
           /\ flows[f].claimedBy # NoOne => flows'[f].claimedBy = flows[f].claimedBy
           /\ flows[f].identity # NoOne => flows'[f].identity = flows[f].identity
<1>0. FlowMove(f) /\ flows'[f] \in FlowRow /\ flows[f] \in FlowRow
  BY FlowMoves DEF LinkInv, TypeOK
<1>1. /\ flows[f].status = "absent" => flows[f] = NoFlow
      /\ flows[f].status \in {"absent", "pending", "processing"} => flows[f].identity = NoOne
      /\ flows[f].status \notin {"claimed", "consumed"} => flows[f].claimedBy = NoOne
  BY DEF LinkInv, FlowInv
<1>2. ASSUME Opened(f)
      PROVE  flows'[f] = [flows[f] EXCEPT !.status = flows'[f].status, !.live = flows'[f].live,
                            !.claimedBy = flows'[f].claimedBy, !.identity = flows'[f].identity]
  <2>1. PICK row \in FlowRow, new \in FlowRow : row = flows[f] /\ new = flows'[f]
    BY <1>0
  <2>2. /\ new.purpose = row.purpose /\ new.provider = row.provider /\ new.config = row.config
        /\ new.user = row.user /\ new.session = row.session /\ new.version = row.version
        /\ new.account = row.account /\ new.accountVersion = row.accountVersion
        /\ new.operation = row.operation /\ new.target = row.target /\ new.reauth = row.reauth
    BY <1>2, <2>1 DEF Opened
  <2>3. new = [row EXCEPT !.status = new.status, !.live = new.live, !.claimedBy = new.claimedBy,
                          !.identity = new.identity]
    BY <2>2 DEF FlowRow
  <2> QED BY <2>1, <2>3
<1>3. CASE flows'[f] = flows[f]
  BY <1>2, <1>3 DEF Opened
<1>4. CASE Born(f)
  <2>1. flows[f].status = "absent" /\ flows[f].claimedBy = NoOne /\ flows[f].identity = NoOne
    BY <1>4 DEF Born, NoFlow
  <2>2. flows'[f].status \in {"pending", "authorized"}
    BY <1>4 DEF Born
  <2> QED BY <2>1, <2>2 DEF Edges
<1>5. CASE Advanced(f)
  <2>1. flows'[f].status # flows[f].status =>
          /\ <<flows[f].status, flows'[f].status>> \in Edges
          /\ flows[f].live \/ flows[f].status = "absent" \/ flows'[f].status = "failed"
    BY <1>5 DEF Advanced, Edges
  <2>2. flows'[f].live => flows[f].live
    <3>1. ~flows'[f].live \/ flows'[f].live = flows[f].live
      BY <1>5, Zenon DEF Advanced
    <3> QED BY <3>1, Zenon
  <2>3. flows[f].claimedBy # NoOne => flows'[f].claimedBy = flows[f].claimedBy
    BY <1>1, <1>5 DEF Advanced
  <2>4. flows[f].identity # NoOne => flows'[f].identity = flows[f].identity
    BY <1>1, <1>5 DEF Advanced
  <2>5. Opened(f)
    BY <1>5 DEF Advanced
  <2> QED BY <1>2, <2>1, <2>2, <2>3, <2>4, <2>5
<1> QED BY <1>0, <1>3, <1>4, <1>5 DEF FlowMove

\* A flow only moves forward: whatever callbacks, confirmations and expiries are
\* interleaved, a flow never leaves its path, and what it was opened for, the
\* claim on it and the identity it proved never change.
THEOREM FlowsOnlyMoveForward == Spec => FlowsMoveForward
<1>1. LinkInv /\ [Next]_vars => [
        \A f \in Flows :
          /\ flows'[f].status # flows[f].status =>
               /\ <<flows[f].status, flows'[f].status>> \in Edges
               /\ flows[f].live \/ flows[f].status = "absent" \/ flows'[f].status = "failed"
          /\ flows[f].status # "absent" =>
               /\ flows'[f].live => flows[f].live
               /\ flows'[f] = [flows[f] EXCEPT !.status = flows'[f].status, !.live = flows'[f].live,
                                  !.claimedBy = flows'[f].claimedBy, !.identity = flows'[f].identity]
          /\ flows[f].claimedBy # NoOne => flows'[f].claimedBy = flows[f].claimedBy
          /\ flows[f].identity # NoOne => flows'[f].identity = flows[f].identity]_vars
  BY FlowForward
<1> QED BY <1>1, LinkConsistency, PTL DEF Spec, FlowsMoveForward

----------------------------------------------------------------------------
\* Row locks

\* A lock is taken when it is free and given back when its request ends.
LEMMA LockKept ==
    ASSUME LinkInv, [Next]_vars, NEW q \in Requests, NEW u \in Users, lock[u] = q, pc'[q] # "idle"
    PROVE  lock'[u] = q
<1>0. /\ lock \in [Users -> Requests \union {NoOne}] /\ pc \in [Requests -> PC]
  BY DEF LinkInv, TypeOK
<1>1. ASSUME NEW c, Restart(c) PROVE FALSE
  BY <1>1 DEF Restart
<1>2. ASSUME NEW r \in Requests, Done(r), Unlock(r) PROVE lock'[u] = q
  <2>1. r # q
    BY <1>0, <1>2 DEF Done
  <2> QED BY <1>2, <2>1 DEF Unlock
<1>3. ASSUME NEW r \in Requests, Reads(r) PROVE lock'[u] = q
  <2>1. UNCHANGED lock \/ \E v : LockUser(r, v)
    BY <1>3 DEF Reads, ReauthenticateRead, ReauthenticateCheck, Callback, BoundCheck, LoginFind,
                StartLink, ConfirmLink, Unlink, SetPasswordRead, SetPasswordLock
  <2>2. ASSUME NEW v, LockUser(r, v) PROVE lock'[u] = q
    <3>1. v # u
      BY <2>2, FlowConstants DEF LockUser
    <3> QED BY <1>0, <2>2, <3>1 DEF LockUser
  <2> QED BY <2>1, <2>2
<1> QED BY <1>1, <1>2, <1>3, RequestSteps

\* While a request holds the lock of a user, nobody writes the user or the
\* user's accounts.
LEMMA UnderLock ==
    ASSUME LinkInv, LockInv, [Next]_vars, NEW q \in Requests, NEW u \in Users,
           u = sessions[job[q].session].owner,
           pc[q] \in {"confirmLocked", "unlinkLocked", "passwordLocked"}, pc'[q] # "idle"
    PROVE  /\ lock'[u] = q /\ users'[u] = users[u]
           /\ \A a \in Accounts : /\ HasAccount(u, a) => accounts'[a] = accounts[a]
                                  /\ HasAccount(u, a)' <=> HasAccount(u, a)
           /\ AccountsOf(u)' = AccountsOf(u)
<1>1. lock[u] = q /\ users[u].status # "absent" /\ q # NoOne
  BY SessionUser, FlowConstants DEF LockInv, HoldsLock
<1>2. ASSUME NEW r \in Requests, pc[r] \in {"confirmLocked", "unlinkLocked", "passwordLocked"},
             pc'[r] = "idle"
      PROVE  sessions[job[r].session].owner # u
  BY <1>1, <1>2 DEF LockInv, HoldsLock
<1>3. users'[u] = users[u]
  BY <1>1, <1>2, UserMoves
<1>4. ASSUME NEW a \in Accounts
      PROVE  /\ HasAccount(u, a) => accounts'[a] = accounts[a]
             /\ HasAccount(u, a)' <=> HasAccount(u, a)
  <2>1. CASE accounts'[a] = accounts[a]
    BY <2>1 DEF HasAccount
  <2>2. ASSUME accounts[a].state = "absent", NEW v \in Users, NEW i \in Identities \union {NoOne},
               accounts'[a] = LoginAccount(v, i),
               \/ users[v].status = "absent"
               \/ \E r \in Requests : /\ pc[r] \in {"confirmLocked", "passwordLocked"}
                                      /\ pc'[r] = "idle" /\ v = sessions[job[r].session].owner
        PROVE  ~HasAccount(u, a) /\ ~HasAccount(u, a)'
    <3>1. v # u
      BY <1>1, <1>2, <2>2
    <3>2. accounts'[a].owner = v
      BY <2>2, LoginAccountRow
    <3> QED BY <2>2, <3>1, <3>2 DEF HasAccount
  <2>3. ASSUME NEW r \in Requests, pc[r] \in {"unlinkLocked", "passwordLocked"}, pc'[r] = "idle",
               a = job[r].account, accounts'[a].owner = accounts[a].owner
        PROVE  ~HasAccount(u, a) /\ ~HasAccount(u, a)'
    <3>1. accounts[a].owner = sessions[job[r].session].owner
      <4>1. HoldsLock(r) /\ a # NoOne
        BY FlowConstants DEF LockInv
      <4> QED BY <2>3, <4>1 DEF HoldsLock, HasAccount, IsPasswordAccount
    <3> QED BY <1>2, <2>3, <3>1 DEF HasAccount
  <2> QED BY <2>1, <2>2, <2>3, AccountMoves
<1>5. AccountsOf(u)' = AccountsOf(u)
  BY <1>4 DEF AccountsOf
<1> QED BY <1>1, <1>3, <1>4, <1>5, LockKept

\* What authorization has found out about a proof
LEMMA AuthorizationHolds ==
    ASSUME TypeOK, NEW s \in Sessions, NEW f \in Flows, NEW operation, NEW target, NEW claim,
           Authorization(s, f, operation, target, claim)
    PROVE  HeldProof(f, sessions[s].owner, operation, target)
<1>1. flows[f].purpose = "reauthenticate"
  BY DEF Authorization
<1>2. flows[f].account \in Accounts
  BY <1>1 DEF TypeOK
<1> QED BY <1>1, <1>2 DEF Authorization, HeldProof

\* A proof stays what it is while the row of its user is locked.
LEMMA ProofKept ==
    ASSUME LinkInv, [Next]_vars, NEW u \in Users, NEW f, NEW operation, NEW target,
           HeldProof(f, u, operation, target), users'[u] = users[u],
           \A a \in Accounts : HasAccount(u, a) => accounts'[a] = accounts[a] /\ HasAccount(u, a)'
    PROVE  HeldProof(f, u, operation, target)'
<1>1. f \in Flows /\ flows[f].purpose = "reauthenticate"
  BY DEF HeldProof
<1>2. flows[f].status # "absent"
  BY <1>1 DEF LinkInv, FlowInv, NoFlow
<1>3. Opened(f)
  BY <1>1, <1>2, RowsStay
<1>4. /\ flows'[f].purpose = flows[f].purpose /\ flows'[f].user = flows[f].user
      /\ flows'[f].version = flows[f].version /\ flows'[f].operation = flows[f].operation
      /\ flows'[f].target = flows[f].target /\ flows'[f].account = flows[f].account
      /\ flows'[f].accountVersion = flows[f].accountVersion
  BY <1>3 DEF Opened
<1>5. PICK a \in Accounts : a = flows[f].account
  BY DEF HeldProof
<1>6. HasAccount(u, a)' /\ accounts'[a] = accounts[a]
  BY <1>5 DEF HeldProof
<1> QED BY <1>1, <1>4, <1>5, <1>6 DEF HeldProof

\* The checks that ConfirmLink, Unlink and SetPassword make under the lock
LEMMA ReadHolds ==
    ASSUME LinkInv, [Next]_vars, NEW r \in Requests, Reads(r)
    PROVE  HoldsLock(r)'
<1>0. /\ TypeOK /\ pc \in [Requests -> PC] /\ job \in [Requests -> Job]
      /\ lock \in [Users -> Requests \union {NoOne}]
      /\ UNCHANGED <<users, accounts, sessions, config>>
  BY ReadStep DEF LinkInv, TypeOK
<1>1. ASSUME \/ \E s \in Sessions, a \in Accounts, operation \in Operations, target \in Targets :
                  ReauthenticateRead(r, s, a, operation, target)
             \/ ReauthenticateCheck(r)
             \/ \E f \in Flows : Callback(r, f)
             \/ \E i \in Identities : BoundCheck(r, i) \/ LoginFind(r, i)
             \/ \E s \in Sessions, p \in Providers, f \in Flows : StartLink(r, s, p, f)
             \/ \E s \in Sessions, f \in Flows \union {NoOne} : SetPasswordRead(r, s, f)
      PROVE  HoldsLock(r)'
  <2>1. pc'[r] \notin {"confirmLocked", "unlinkLocked", "passwordLocked"}
    BY <1>0, <1>1 DEF ReauthenticateRead, ReauthenticateCheck, Callback, BoundCheck, LoginFind,
                      StartLink, SetPasswordRead, Goto
  <2> QED BY <2>1 DEF HoldsLock
<1>2. ASSUME NEW s \in Sessions, NEW f \in Flows, ConfirmLink(r, s, f) PROVE HoldsLock(r)'
  <2>1. PICK u \in Users : u = sessions[s].owner
    BY <1>2 DEF ConfirmLink, ValidSession
  <2>2. /\ pc'[r] = "confirmLocked" /\ job'[r].session = s /\ job'[r].flow = f
        /\ job'[r].proof = flows[f].reauth
    BY <1>0, <1>2 DEF ConfirmLink, Goto, NoJob
  <2>3. lock'[u] = r /\ UNCHANGED flows
    BY <1>0, <1>2, <2>1 DEF ConfirmLink, LockUser
  <2>4. /\ flows[f].purpose = "link_identity" /\ flows[f].status = "verified"
        /\ Authorization(s, flows[f].reauth, "link_account", flows[f].provider, f)
    BY <1>2 DEF ConfirmLink
  <2>5. PICK proof, p, i : /\ proof \in Flows /\ proof = flows[f].reauth
                           /\ p = flows[f].provider /\ i = flows[f].identity
    BY <1>0, <2>4 DEF TypeOK
  <2>6. HeldProof(proof, u, "link_account", p)
    BY <1>0, <2>1, <2>4, <2>5, AuthorizationHolds
  <2>7. \/ \E a \in Accounts : HasIdentity(a, i) /\ HasAccount(u, a)
        \/ Cardinality(AccountsOf(u)) < MaxLoginAccounts
    BY <1>2, <2>1, <2>5 DEF ConfirmLink, HasIdentity, HasAccount
  <2>8. HeldProof(proof, u, "link_account", p)'
    BY <1>0, <2>3, <2>6 DEF HeldProof, HasAccount
  <2>9. \/ \E a \in Accounts : HasIdentity(a, i)' /\ HasAccount(u, a)'
        \/ Cardinality(AccountsOf(u)') < MaxLoginAccounts
    BY <1>0, <2>7 DEF HasIdentity, HasAccount, AccountsOf
  <2> QED BY <1>0, <2>1, <2>2, <2>3, <2>4, <2>5, <2>8, <2>9 DEF HoldsLock
<1>3. ASSUME NEW s \in Sessions, NEW a \in Accounts, NEW f \in Flows, Unlink(r, s, a, f)
      PROVE  HoldsLock(r)'
  <2>1. PICK u \in Users : u = sessions[s].owner
    BY <1>3 DEF Unlink, ValidSession
  <2>2. pc'[r] = "unlinkLocked" /\ job'[r].session = s /\ job'[r].account = a /\ job'[r].proof = f
    BY <1>0, <1>3 DEF Unlink, Goto, NoJob
  <2>3. lock'[u] = r /\ UNCHANGED flows
    BY <1>0, <1>3, <2>1 DEF Unlink, LockUser
  <2>4. /\ HasAccount(u, a) /\ Authorization(s, f, "unlink_account", a, NoOne)
        /\ flows[f].account # a /\ \E b \in AccountsOf(u) \ {a} : AccountEnabled(b)
    BY <1>3, <2>1 DEF Unlink
  <2>5. HeldProof(f, u, "unlink_account", a)
    BY <1>0, <2>1, <2>4, AuthorizationHolds
  <2>6. /\ HasAccount(u, a)' /\ HeldProof(f, u, "unlink_account", a)'
        /\ \E b \in AccountsOf(u)' \ {a} : AccountEnabled(b)'
    BY <1>0, <2>3, <2>4, <2>5 DEF HeldProof, HasAccount, AccountsOf, AccountEnabled, Enabled
  <2> QED BY <1>0, <2>1, <2>2, <2>3, <2>4, <2>6 DEF HoldsLock
<1>4. ASSUME SetPasswordLock(r) PROVE HoldsLock(r)'
  <2>1. pc[r] = "passwordRead" /\ pc'[r] = "passwordLocked" /\ job'[r] = job[r]
    BY <1>0, <1>4 DEF SetPasswordLock, Goto
  <2>2. PICK s \in Sessions, u \in Users : s = job[r].session /\ u = sessions[s].owner
    BY <2>1, SessionUser
  <2>3. lock'[u] = r /\ UNCHANGED flows
    BY <1>0, <1>4, <2>2 DEF SetPasswordLock, LockUser
  <2>4. CASE job[r].account # NoOne
    <3>1. IsPasswordAccount(u, job[r].account)
      BY <1>4, <2>2, <2>4 DEF SetPasswordLock
    <3>2. IsPasswordAccount(u, job[r].account)'
      BY <1>0, <2>1, <3>1 DEF IsPasswordAccount, HasAccount
    <3> QED BY <1>0, <2>1, <2>2, <2>3, <2>4, <3>2 DEF HoldsLock
  <2>5. CASE job[r].account = NoOne
    <3>1. /\ Authorization(s, job[r].proof, "set_password", "credential", NoOne)
          /\ Cardinality(AccountsOf(u)) < MaxLoginAccounts
      BY <1>4, <2>2, <2>5 DEF SetPasswordLock
    <3>2. job[r].proof \in Flows
      BY <2>1, <2>5 DEF LinkInv, RequestInv, Remembers
    <3>3. HeldProof(job[r].proof, u, "set_password", "credential")
      BY <1>0, <2>2, <3>1, <3>2, AuthorizationHolds
    <3>4. /\ HeldProof(job[r].proof, u, "set_password", "credential")'
          /\ Cardinality(AccountsOf(u)') < MaxLoginAccounts
      BY <1>0, <2>1, <2>3, <3>1, <3>3 DEF HeldProof, HasAccount, AccountsOf
    <3> QED BY <1>0, <2>1, <2>2, <2>3, <2>5, <3>4 DEF HoldsLock
  <2> QED BY <2>4, <2>5
<1> QED BY <1>1, <1>2, <1>3, <1>4 DEF Reads

----------------------------------------------------------------------------
\* What was checked under the lock stays true in the steps of others.
LEMMA LockStep ==
    ASSUME LinkInv, LockInv, [Next]_vars
    PROVE  LockInv'
<1> SUFFICES ASSUME NEW q \in Requests PROVE HoldsLock(q)'
  BY DEF LockInv
<1>1. CASE Reads(q)
  BY <1>1, ReadHolds
<1>2. CASE pc'[q] = "idle" \/ pc'[q] \notin {"confirmLocked", "unlinkLocked", "passwordLocked"}
  BY <1>2 DEF HoldsLock
<1>3. ASSUME pc'[q] = pc[q], job'[q] = job[q], config' = config,
             pc'[q] \in {"confirmLocked", "unlinkLocked", "passwordLocked"}
      PROVE  HoldsLock(q)'
  <2>1. PICK s \in Sessions, u \in Users :
          s = job[q].session /\ u = sessions[s].owner /\ sessions[s].state # "absent"
    BY <1>3, SessionUser
  <2>2. u = sessions'[s].owner
    BY <2>1, RowsStay
  <2>3. /\ lock'[u] = q /\ users'[u] = users[u] /\ AccountsOf(u)' = AccountsOf(u)
        /\ \A a \in Accounts : /\ HasAccount(u, a) => accounts'[a] = accounts[a]
                               /\ HasAccount(u, a)' <=> HasAccount(u, a)
    BY <1>3, <2>1, UnderLock
  <2>4. ASSUME NEW f, NEW operation, NEW target, HeldProof(f, u, operation, target)
        PROVE  HeldProof(f, u, operation, target)'
    BY <2>3, <2>4, ProofKept
  <2>5. HoldsLock(q)
    BY DEF LockInv
  <2>6. CASE pc[q] = "confirmLocked"
    <3>1. PICK f, proof, p, i :
            /\ f \in Flows /\ f = job[q].flow /\ proof = job[q].proof
            /\ p = flows[f].provider /\ i = flows[f].identity
      BY <2>6 DEF LinkInv, RequestInv, Remembers
    <3>2. /\ flows[f].purpose = "link_identity" /\ flows[f].reauth = proof
          /\ flows[f].status \in {"verified", "consumed"}
          /\ HeldProof(proof, u, "link_account", p)
          /\ \/ \E a \in Accounts : HasIdentity(a, i) /\ HasAccount(u, a)
             \/ Cardinality(AccountsOf(u)) < MaxLoginAccounts
      BY <2>1, <2>5, <2>6, <3>1 DEF HoldsLock
    <3>3. FlowMove(f) /\ ~Born(f)
      BY <3>1, <3>2, FlowMoves DEF Born, NoFlow
    <3>4. /\ flows'[f].purpose = flows[f].purpose /\ flows'[f].reauth = flows[f].reauth
          /\ flows'[f].provider = flows[f].provider
      BY <3>3 DEF FlowMove, Advanced, Opened
    <3>5. flows'[f].status \in {"verified", "consumed"} /\ flows'[f].identity = flows[f].identity
      BY <3>2, <3>3 DEF FlowMove, Advanced
    <3>6. HeldProof(proof, u, "link_account", p)'
      BY <2>4, <3>2
    <3>7. \/ \E a \in Accounts : HasIdentity(a, i)' /\ HasAccount(u, a)'
          \/ Cardinality(AccountsOf(u)') < MaxLoginAccounts
      BY <2>3, <3>2 DEF HasIdentity
    <3> QED BY <1>3, <2>1, <2>2, <2>3, <2>6, <3>1, <3>2, <3>4, <3>5, <3>6, <3>7 DEF HoldsLock
  <2>7. CASE pc[q] = "unlinkLocked"
    <3>1. PICK a, proof : a \in Accounts /\ a = job[q].account /\ proof = job[q].proof
      BY <2>7 DEF LinkInv, RequestInv, Remembers
    <3>2. /\ HasAccount(u, a) /\ HeldProof(proof, u, "unlink_account", a)
          /\ flows[proof].account # a /\ \E b \in AccountsOf(u) \ {a} : AccountEnabled(b)
      BY <2>1, <2>5, <2>7, <3>1 DEF HoldsLock
    <3>3. HasAccount(u, a)' /\ HeldProof(proof, u, "unlink_account", a)'
      BY <2>3, <2>4, <3>1, <3>2
    <3>4. flows'[proof].account # a
      <4>1. proof \in Flows /\ flows[proof].purpose = "reauthenticate"
        BY <3>2 DEF HeldProof
      <4>2. flows[proof].status # "absent"
        BY <4>1 DEF LinkInv, FlowInv, NoFlow
      <4> QED BY <3>2, <4>1, <4>2, RowsStay DEF Opened
    <3>5. \E b \in AccountsOf(u)' \ {a} : AccountEnabled(b)'
      <4>1. PICK b \in AccountsOf(u) \ {a} : AccountEnabled(b)
        BY <3>2
      <4>2. b \in Accounts /\ HasAccount(u, b)
        BY DEF AccountsOf
      <4>3. AccountEnabled(b)'
        BY <1>3, <2>3, <4>1, <4>2 DEF AccountEnabled, Enabled
      <4> QED BY <2>3, <4>1, <4>3
    <3> QED BY <1>3, <2>1, <2>2, <2>3, <2>7, <3>1, <3>3, <3>4, <3>5 DEF HoldsLock
  <2>8. CASE pc[q] = "passwordLocked"
    <3>1. CASE job[q].account # NoOne
      <4>1. PICK a \in Accounts : a = job[q].account
        BY <3>1, Columns DEF LinkInv
      <4>2. IsPasswordAccount(u, a)
        BY <2>1, <2>5, <2>8, <3>1, <4>1 DEF HoldsLock
      <4>3. IsPasswordAccount(u, a)'
        BY <2>3, <4>2 DEF IsPasswordAccount
      <4> QED BY <1>3, <2>1, <2>2, <2>3, <2>8, <3>1, <4>1, <4>3 DEF HoldsLock
    <3>2. CASE job[q].account = NoOne
      <4>1. PICK proof : proof = job[q].proof
        OBVIOUS
      <4>2. /\ HeldProof(proof, u, "set_password", "credential")
            /\ Cardinality(AccountsOf(u)) < MaxLoginAccounts
        BY <2>1, <2>5, <2>8, <3>2, <4>1 DEF HoldsLock
      <4>3. /\ HeldProof(proof, u, "set_password", "credential")'
            /\ Cardinality(AccountsOf(u)') < MaxLoginAccounts
        BY <2>3, <2>4, <4>2
      <4> QED BY <1>3, <2>1, <2>2, <2>3, <2>8, <3>2, <4>1, <4>3 DEF HoldsLock
    <3> QED BY <3>1, <3>2
  <2> QED BY <1>3, <2>6, <2>7, <2>8
<1> QED BY <1>1, <1>2, <1>3, RequestMoves

\* What ConfirmLink, Unlink and SetPassword check under the row lock of the user
\* is still so when they commit.
THEOREM LocksProtectChecks == Spec => []LockInv
<1>1. Init => LockInv
  BY DEF Init, LockInv, HoldsLock
<1>2. LinkInv /\ LockInv /\ [Next]_vars => LockInv'
  BY LockStep
<1> QED BY <1>1, <1>2, LinkConsistency, PTL DEF Spec

----------------------------------------------------------------------------
\* The limit on accounts

\* A new account is one more for its owner and for nobody else.
LEMMA OneMore ==
    ASSUME TypeOK, AccountLimit, NEW u \in Users, NEW i \in Identities \union {NoOne},
           CreateAccount(u, i), Cardinality(AccountsOf(u)) < MaxLoginAccounts
    PROVE  AccountLimit'
<1>1. PICK a \in Accounts :
        /\ accounts[a].state = "absent" /\ accounts'[a] = LoginAccount(u, i)
        /\ \A b \in Accounts : b # a => accounts'[b] = accounts[b]
  BY CreatedAccount
<1>2. accounts'[a].owner = u
  BY <1>1, LoginAccountRow
<1>3. ASSUME NEW v \in Users, v # u PROVE AccountsOf(v)' = AccountsOf(v)
  BY <1>1, <1>2, <1>3 DEF AccountsOf, HasAccount
<1>4. AccountsOf(u)' \subseteq AccountsOf(u) \union {a} /\ a \notin AccountsOf(u)
  BY <1>1 DEF AccountsOf, HasAccount
<1>5. IsFiniteSet(AccountsOf(u))
  BY FS_Subset, FlowConstants DEF AccountsOf
<1>6. /\ IsFiniteSet(AccountsOf(u) \union {a})
      /\ Cardinality(AccountsOf(u) \union {a}) = Cardinality(AccountsOf(u)) + 1
      /\ Cardinality(AccountsOf(u)) \in Nat
  BY <1>4, <1>5, FS_AddElement, FS_CardinalityType
<1>7. /\ Cardinality(AccountsOf(u)') <= Cardinality(AccountsOf(u) \union {a})
      /\ Cardinality(AccountsOf(u)') \in Nat
  BY <1>4, <1>6, FS_Subset, FS_CardinalityType
<1>8. Cardinality(AccountsOf(u)') <= MaxLoginAccounts
  BY <1>6, <1>7, FlowConstants
<1> QED BY <1>3, <1>8 DEF AccountLimit

\* An account that is changed or revoked is no account more.
LEMMA NoneMore ==
    ASSUME AccountLimit,
           \A v \in Users, a \in Accounts : HasAccount(v, a)' => HasAccount(v, a)
    PROVE  AccountLimit'
<1> SUFFICES ASSUME NEW v \in Users PROVE Cardinality(AccountsOf(v)') <= MaxLoginAccounts
  BY DEF AccountLimit
<1>1. AccountsOf(v)' \subseteq AccountsOf(v)
  BY DEF AccountsOf
<1>2. IsFiniteSet(AccountsOf(v))
  BY FS_Subset, FlowConstants DEF AccountsOf
<1>3. /\ Cardinality(AccountsOf(v)') <= Cardinality(AccountsOf(v))
      /\ Cardinality(AccountsOf(v)') \in Nat /\ Cardinality(AccountsOf(v)) \in Nat
  BY <1>1, <1>2, FS_Subset, FS_CardinalityType
<1>4. Cardinality(AccountsOf(v)) <= MaxLoginAccounts
  BY DEF AccountLimit
<1> QED BY <1>3, <1>4, FlowConstants

\* No step exceeds the limit.
LEMMA LimitStep ==
    ASSUME LinkInv, LockInv, AccountLimit, [Next]_vars
    PROVE  AccountLimit'
<1>0. TypeOK /\ accounts \in [Accounts -> AccountRow]
  BY DEF LinkInv, TypeOK
<1>1. ASSUME UNCHANGED accounts PROVE AccountLimit'
  BY <1>1 DEF AccountLimit, AccountsOf, HasAccount
<1>2. ASSUME NEW r \in Requests, ConfirmLinkCommit(r) PROVE AccountLimit'
  <2>1. pc[r] = "confirmLocked" /\ flows[job[r].flow].identity \in Identities
    BY <1>2, NewIdentity DEF ConfirmLinkCommit
  <2>2. PICK u \in Users : u = sessions[job[r].session].owner
    BY <2>1, SessionUser
  <2>3. \/ \E a \in Accounts : HasIdentity(a, flows[job[r].flow].identity) /\ HasAccount(u, a)
        \/ Cardinality(AccountsOf(u)) < MaxLoginAccounts
    BY <2>1, <2>2 DEF LockInv, HoldsLock
  <2>4. IF \E a \in Accounts : HasIdentity(a, flows[job[r].flow].identity) /\ HasAccount(u, a)
          THEN UNCHANGED accounts ELSE CreateAccount(u, flows[job[r].flow].identity)
    BY <1>2, <2>2 DEF ConfirmLinkCommit
  <2> QED BY <1>0, <1>1, <2>1, <2>3, <2>4, OneMore
<1>3. ASSUME NEW r \in Requests, LoginRegister(r) PROVE AccountLimit'
  <2>1. PICK u \in Users : users[u] = NoUser /\ CreateAccount(u, job[r].identity)
    BY <1>3 DEF LoginRegister, NewUser
  <2>2. AccountsOf(u) = {}
    <3>1. users[u].status = "absent"
      BY <2>1 DEF NoUser
    <3> QED BY <3>1 DEF LinkInv, RowsInUse, AccountsOf, HasAccount
  <2>3. Cardinality(AccountsOf(u)) < MaxLoginAccounts
    BY <2>2, FS_EmptySet, FlowConstants
  <2> QED BY <1>0, <1>3, <2>1, <2>3, NewIdentity, OneMore
<1>4. ASSUME NEW r \in Requests, UnlinkCommit(r) PROVE AccountLimit'
  <2>1. PICK a \in Accounts :
          accounts' = [accounts EXCEPT ![a].state = "revoked", ![a].version = @ + 1]
    BY <1>0, <1>4 DEF UnlinkCommit, TypeOK
  <2>2. accounts'[a].state = "revoked" /\ \A b \in Accounts : b # a => accounts'[b] = accounts[b]
    BY <1>0, <2>1 DEF AccountRow
  <2> QED BY <2>2, NoneMore DEF HasAccount
<1>5. ASSUME NEW r \in Requests, SetPasswordCommit(r) PROVE AccountLimit'
  <2>1. pc[r] = "passwordLocked"
    BY <1>5 DEF SetPasswordCommit
  <2>2. PICK u \in Users : u = sessions[job[r].session].owner
    BY <2>1, SessionUser
  <2>3. CASE job[r].account # NoOne
    <3>1. PICK a \in Accounts : accounts' = [accounts EXCEPT ![a].version = @ + 1]
      BY <1>0, <1>5, <2>3, Columns DEF SetPasswordCommit
    <3>2. \A b \in Accounts : /\ accounts'[b].state = accounts[b].state
                              /\ accounts'[b].owner = accounts[b].owner
      BY <1>0, <3>1 DEF AccountRow
    <3> QED BY <3>2, NoneMore DEF HasAccount
  <2>4. CASE job[r].account = NoOne
    <3>1. CreateAccount(u, NoOne)
      BY <1>5, <2>2, <2>4 DEF SetPasswordCommit
    <3>2. Cardinality(AccountsOf(u)) < MaxLoginAccounts
      BY <2>1, <2>2, <2>4 DEF LockInv, HoldsLock
    <3> QED BY <1>0, <3>1, <3>2, OneMore
  <2> QED BY <2>3, <2>4
<1>6. ASSUME TableWrite PROVE AccountLimit'
  BY <1>1, <1>2, <1>3, <1>4, <1>5, <1>6
  DEF TableWrite, PasswordLogin, EndSession, SetStatus, AdminRevoke, LoginCommit
<1> QED BY <1>1, <1>6, StepCases

\* A behaviour starts within the limit.
LEMMA LimitStart ==
    ASSUME InitNobody \/ InitOneUser
    PROVE  AccountLimit
<1> SUFFICES ASSUME NEW v \in Users PROVE Cardinality(AccountsOf(v)) <= MaxLoginAccounts
  BY DEF AccountLimit
<1>1. CASE InitNobody
  <2>1. AccountsOf(v) = {}
    BY <1>1 DEF InitNobody, AccountsOf, HasAccount, NoAccount
  <2> QED BY <2>1, FS_EmptySet, FlowConstants
<1>2. CASE InitOneUser
  <2>1. PICK u \in Users : u = CHOOSE w \in Users : TRUE
    BY StartConstants
  <2>2. PICK a \in Accounts : a = CHOOSE b \in Accounts : TRUE
    BY StartConstants
  <2> DEFINE c == CHOOSE b \in Accounts \ {a} : TRUE
  <2>4. PICK i \in Identities \union {NoOne},
             second \in {NoAccount} \union {LoginAccount(u, j) : j \in Identities} :
          /\ accounts = [b \in Accounts |-> CASE b = a -> LoginAccount(u, i)
                                              [] b = c -> second
                                              [] OTHER -> NoAccount]
          /\ (IF second = NoAccount THEN 1 ELSE 2) \in StartAccounts
    <3> DEFINE start(i) == {x \in {NoAccount} \union {LoginAccount(u, j) : j \in Identities \ {i}} :
                              (IF x = NoAccount THEN 1 ELSE 2) \in StartAccounts}
    <3>1. PICK i \in Identities \union {NoOne} : \E second \in start(i) :
            accounts = [b \in Accounts |-> CASE b = a -> LoginAccount(u, i)
                                             [] b = c -> second
                                             [] OTHER -> NoAccount]
      BY <1>2, <2>1, <2>2 DEF InitOneUser
    <3>2. PICK second \in start(i) :
            accounts = [b \in Accounts |-> CASE b = a -> LoginAccount(u, i)
                                             [] b = c -> second
                                             [] OTHER -> NoAccount]
      BY <3>1
    <3>3. /\ second \in {NoAccount} \union {LoginAccount(u, j) : j \in Identities}
          /\ (IF second = NoAccount THEN 1 ELSE 2) \in StartAccounts
      OBVIOUS
    <3> QED BY <3>2, <3>3
  <2> HIDE DEF c
  <2>5. /\ IsFiniteSet({a}) /\ Cardinality({a}) = 1
    BY FS_Singleton
  <2>6. CASE second = NoAccount
    <3>1. AccountsOf(v) \subseteq {a}
      BY <2>4, <2>6 DEF AccountsOf, HasAccount, NoAccount
    <3>2. Cardinality(AccountsOf(v)) \in Nat /\ Cardinality(AccountsOf(v)) <= 1
      BY <2>5, <3>1, FS_Subset, FS_CardinalityType
    <3>3. 1 <= MaxLoginAccounts
      BY FlowConstants
    <3> QED BY <3>2, <3>3, FlowConstants
  <2>7. CASE second # NoAccount
    <3>1. AccountsOf(v) \subseteq {a} \union {c}
      BY <2>4 DEF AccountsOf, HasAccount, NoAccount
    <3>2. /\ IsFiniteSet({a} \union {c}) /\ Cardinality({a} \union {c}) \in Nat
          /\ Cardinality({a} \union {c}) <= 2
      <4>1. /\ IsFiniteSet({a} \union {c})
            /\ Cardinality({a} \union {c}) = IF c \in {a} THEN 1 ELSE 1 + 1
        BY <2>5, FS_AddElement
      <4> QED BY <4>1
    <3>3. /\ Cardinality(AccountsOf(v)) <= Cardinality({a} \union {c})
          /\ Cardinality(AccountsOf(v)) \in Nat
      BY <3>1, <3>2, FS_Subset, FS_CardinalityType
    <3>4. 2 <= MaxLoginAccounts
      BY <2>4, <2>7, StartConstants
    <3> QED BY <3>2, <3>3, <3>4, FlowConstants
  <2> QED BY <2>6, <2>7
<1> QED BY <1>1, <1>2

\* No user ever has more accounts than maxLoginAccounts: links, passwords and
\* registrations that run at the same time count under the user's row lock.
THEOREM AccountsStayWithinLimit == Spec => []AccountLimit
<1>1. Init => AccountLimit
  BY LimitStart DEF Init
<1>2. LinkInv /\ LockInv /\ AccountLimit /\ [Next]_vars => AccountLimit'
  BY LimitStep
<1> QED BY <1>1, <1>2, LinkConsistency, LocksProtectChecks, PTL DEF Spec

----------------------------------------------------------------------------
\* Link flows and their proofs

\* A proof that nobody has claimed is spent by the operation it is for.
LEMMA SpentProof ==
    ASSUME LinkInv, LockInv, NEW r \in Requests, SpendsProof(r)
    PROVE  job[r].proof \in Flows /\ flows[job[r].proof].purpose = "reauthenticate"
BY DEF LockInv, HoldsLock, HeldProof, SpendsProof, UnlinkCommit, SetPasswordCommit

\* A link flow and its proof stay together in every step.
LEMMA PairStep ==
    ASSUME LinkInv, LockInv, ProofsPaired, [Next]_vars
    PROVE  ProofsPaired'
<1> SUFFICES ASSUME NEW f \in Flows, flows'[f].purpose = "link_identity"
             PROVE  /\ flows'[flows'[f].reauth].status \in {"claimed", "consumed"}
                    /\ flows'[flows'[f].reauth].claimedBy = f
                    /\ flows'[flows'[f].reauth].status = "consumed" <=> flows'[f].status = "consumed"
  BY DEF ProofsPaired
<1>0. ASSUME NEW g \in Flows, flows[g].purpose = "link_identity"
      PROVE  /\ flows[g].reauth \in Flows
             /\ flows[flows[g].reauth].status \in {"claimed", "consumed"}
             /\ flows[flows[g].reauth].claimedBy = g
             /\ flows[flows[g].reauth].status = "consumed" <=> flows[g].status = "consumed"
  BY <1>0 DEF ProofsPaired, LinkInv, TypeOK
<1>1. FlowMove(f)
  BY FlowMoves
<1>2. CASE \E r \in Requests : StartLinkCommit(r)
  <2>1. PICK new \in Flows, proof \in Flows :
          /\ Born(new) /\ Advanced(proof) /\ new # proof
          /\ flows'[new].purpose = "link_identity" /\ flows'[new].status = "pending"
          /\ flows'[new].reauth = proof
          /\ flows[proof].status = "authorized" /\ flows'[proof].status = "claimed"
          /\ flows'[proof].claimedBy = new
          /\ \A g \in Flows : g = new \/ g = proof \/ flows'[g] = flows[g]
    BY <1>2, LinkStarted
  <2>2. CASE f = new
    BY <2>1, <2>2
  <2>3. CASE f # new
    <3>1. /\ flows'[f].purpose = flows[f].purpose /\ flows'[f].reauth = flows[f].reauth
          /\ f = proof \/ flows'[f] = flows[f]
      BY <2>1, <2>3 DEF Advanced, Opened
    <3>2. flows[new].status = "absent"
      BY <2>1 DEF Born, NoFlow
    <3>3. flows[f].reauth \in Flows /\ flows'[flows[f].reauth] = flows[flows[f].reauth]
      BY <1>0, <2>1, <3>1, <3>2
    <3>4. flows'[f].status = "consumed" <=> flows[f].status = "consumed"
      BY <2>1, <3>1
    <3> QED BY <1>0, <3>1, <3>3, <3>4
  <2> QED BY <2>2, <2>3
<1>3. CASE \E r \in Requests : ConfirmLinkCommit(r)
  <2>1. PICK r \in Requests : ConfirmLinkCommit(r)
    BY <1>3
  <2>2. PICK h \in Flows, proof \in Flows :
          /\ h = job[r].flow /\ proof = job[r].proof
          /\ flows[h].purpose = "link_identity" /\ flows[h].reauth = proof
          /\ flows[proof].purpose = "reauthenticate"
    <3>1. pc[r] = "confirmLocked" /\ HoldsLock(r)
      BY <2>1 DEF ConfirmLinkCommit, LockInv
    <3>2. /\ flows[job[r].flow].purpose = "link_identity" /\ flows[job[r].flow].reauth = job[r].proof
          /\ job[r].proof \in Flows /\ flows[job[r].proof].purpose = "reauthenticate"
      BY <3>1 DEF HoldsLock, HeldProof
    <3> QED BY <2>1, <3>2, LinkConfirmed
  <2>3. /\ flows[h].status = "verified" /\ flows[proof].status = "claimed"
        /\ \A g \in Flows : IF g \in {h, proof} THEN Advanced(g) /\ flows'[g].status = "consumed"
                                                ELSE flows'[g] = flows[g]
    BY <2>1, <2>2, LinkConfirmed
  <2>4. /\ flows'[f].purpose = flows[f].purpose /\ flows'[f].reauth = flows[f].reauth
    BY <2>3 DEF Advanced, Opened
  <2>5. flows[h].claimedBy = NoOne /\ h # NoOne /\ f # NoOne
    BY <2>3, FlowConstants DEF LinkInv, FlowInv
  <2>6. CASE f = h
    <3>1. flows'[proof].claimedBy = h /\ flows'[proof].status = "consumed" /\ flows'[h].status = "consumed"
      BY <1>0, <2>2, <2>3 DEF Advanced
    <3> QED BY <2>2, <2>4, <2>6, <3>1
  <2>7. CASE f # h
    <3>1. flows[f].reauth \in Flows /\ flows[f].reauth # h /\ flows[f].reauth # proof /\ f # proof
      BY <1>0, <2>2, <2>4, <2>5, <2>7
    <3>2. flows'[f] = flows[f] /\ flows'[flows[f].reauth] = flows[flows[f].reauth]
      BY <2>3, <2>7, <3>1
    <3> QED BY <1>0, <2>4, <3>2
  <2> QED BY <2>6, <2>7
<1>4. ASSUME ~ \E r \in Requests : StartLinkCommit(r), ~ \E r \in Requests : ConfirmLinkCommit(r)
      PROVE  /\ flows'[flows'[f].reauth].status \in {"claimed", "consumed"}
             /\ flows'[flows'[f].reauth].claimedBy = f
             /\ flows'[flows'[f].reauth].status = "consumed" <=> flows'[f].status = "consumed"
  <2>1. ~Born(f)
    BY <1>4 DEF Born
  <2>2. flows'[f].purpose = flows[f].purpose /\ flows'[f].reauth = flows[f].reauth
    BY <1>1, <2>1 DEF FlowMove, Advanced, Opened
  <2>3. PICK proof \in Flows : proof = flows[f].reauth
    BY <1>0, <2>2
  <2>4. /\ flows[proof].status \in {"claimed", "consumed"} /\ flows[proof].claimedBy = f
        /\ flows[proof].status = "consumed" <=> flows[f].status = "consumed"
    BY <1>0, <2>2, <2>3
  <2>5. flows'[proof].status = flows[proof].status /\ flows'[proof].claimedBy = flows[proof].claimedBy
    <3>1. FlowMove(proof) /\ ~Born(proof)
      BY <2>4, FlowMoves DEF Born, NoFlow
    <3> QED BY <1>4, <2>4, <3>1 DEF FlowMove, Advanced
  <2>6. flows'[f].status = "consumed" <=> flows[f].status = "consumed"
    <3>1. ASSUME NEW r \in Requests, SpendsProof(r), f = job[r].proof PROVE FALSE
      BY <2>2, <3>1, SpentProof
    <3>2. flows'[f] = flows[f] \/ Advanced(f)
      BY <1>1, <2>1 DEF FlowMove
    <3> QED BY <1>4, <2>2, <3>1, <3>2 DEF Advanced
  <2> QED BY <2>2, <2>3, <2>4, <2>5, <2>6
<1> QED BY <1>2, <1>3, <1>4

\* A link flow and the proof it claimed stay together: the claim is the flow's
\* for ever, and both are spent in one step.
THEOREM ProofsStayPaired == Spec => []ProofsPaired
<1>1. Init => ProofsPaired
  BY DEF Init, ProofsPaired, NoFlow
<1>2. LinkInv /\ LockInv /\ ProofsPaired /\ [Next]_vars => ProofsPaired'
  BY PairStep
<1> QED BY <1>1, <1>2, LinkConsistency, LocksProtectChecks, PTL DEF Spec

----------------------------------------------------------------------------
\* What a step may do to accounts and sessions

\* An account is revoked by the commit of Unlink alone, which has the lock of
\* its owner.
LEMMA RevokedByUnlink ==
    ASSUME LinkInv, LockInv, [Next]_vars, NEW a \in Accounts,
           accounts[a].state = "enabled", accounts'[a].state = "revoked"
    PROVE  \E r \in Requests, u \in Users :
             /\ UnlinkCommit(r) /\ a = job[r].account
             /\ u = sessions[job[r].session].owner /\ accounts[a].owner = u /\ accounts'[a].owner = u
             /\ HeldProof(job[r].proof, u, "unlink_account", a)
             /\ flows[job[r].proof].account # a
             /\ \E b \in AccountsOf(u) \ {a} : AccountEnabled(b)
<1>1. PICK r \in Requests : UnlinkCommit(r) /\ a = job[r].account
  BY AccountMoves
<1>2. pc[r] = "unlinkLocked" /\ HoldsLock(r)
  BY <1>1 DEF UnlinkCommit, LockInv
<1>3. PICK u \in Users : u = sessions[job[r].session].owner
  BY <1>2, SessionUser
<1>4. accounts'[a].owner = accounts[a].owner
  BY RowsStay
<1> QED BY <1>1, <1>2, <1>3, <1>4 DEF HoldsLock, HasAccount

\* The owner of a revoked account keeps one to sign in with.
LEMMA AccessKept ==
    ASSUME LinkInv, LockInv, [Next]_vars, NEW a \in Accounts,
           accounts[a].state = "enabled", accounts'[a].state = "revoked"
    PROVE  \E b \in Accounts : HasAccount(accounts[a].owner, b)' /\ AccountEnabled(b)'
<1>1. PICK r \in Requests, u \in Users :
        /\ UnlinkCommit(r) /\ a = job[r].account /\ accounts'[a].owner = u
        /\ \E b \in AccountsOf(u) \ {a} : AccountEnabled(b)
  BY RevokedByUnlink
<1>2. PICK b \in AccountsOf(u) \ {a} : AccountEnabled(b)
  BY <1>1
<1>3. b \in Accounts /\ HasAccount(u, b) /\ b # a
  BY <1>2 DEF AccountsOf
<1>4. accounts'[b] = accounts[b] /\ UNCHANGED config
  BY <1>1, <1>3 DEF UnlinkCommit, LinkInv, TypeOK
<1> QED BY <1>1, <1>2, <1>3, <1>4 DEF HasAccount, AccountEnabled, Enabled

\* Whoever loses an account keeps one that can be signed in with, also when two
\* requests remove two accounts at the same time: the second waits for the lock
\* and counts again.
THEOREM UnlinkLeavesAccess == Spec => UnlinkKeepsAccess
<1>1. LinkInv /\ LockInv /\ [Next]_vars => [
        \A a \in Accounts : accounts[a].state = "enabled" /\ accounts'[a].state = "revoked" =>
          \E b \in Accounts : HasAccount(accounts[a].owner, b)' /\ AccountEnabled(b)']_vars
  BY AccessKept
<1> QED BY <1>1, LinkConsistency, LocksProtectChecks, PTL DEF Spec, UnlinkKeepsAccess

----------------------------------------------------------------------------
\* A proof found under the lock and finished in the commit is spent.
LEMMA SpentBy ==
    ASSUME NEW f \in Flows, NEW u \in Users, NEW operation, NEW target,
           NEW expected \in {"authorized", "claimed"},
           HeldProof(f, u, operation, target), CanFinishFlow(f, expected),
           flows'[f].status = "consumed"
    PROVE  Spent(f, u, operation, target)
BY DEF HeldProof, CanFinishFlow, Spent

\* The commits of Unlink and SetPassword finish their proof.
LEMMA ProofFinished ==
    ASSUME LinkInv, NEW r \in Requests, job[r].proof \in Flows, SpendsProof(r)
    PROVE  CanFinishFlow(job[r].proof, "authorized") /\ flows'[job[r].proof].status = "consumed"
<1>1. CanFinishFlow(job[r].proof, "authorized") /\ flows' = Moved(job[r].proof, "consumed")
  BY DEF SpendsProof, UnlinkCommit, SetPasswordCommit
<1> QED BY <1>1, MovedRow DEF LinkInv, FlowStatus

\* An account that a user in use gets was authorised by a proof.
LEMMA AddedByProof ==
    ASSUME LinkInv, LockInv, ProofsPaired, [Next]_vars, NEW a \in Accounts,
           accounts[a].state = "absent", accounts'[a].state = "enabled",
           users[accounts'[a].owner].status # "absent"
    PROVE  \E f \in Flows :
             \/ accounts'[a].identity = NoOne /\ Spent(f, accounts'[a].owner, "set_password", "credential")
             \/ /\ Spent(f, accounts'[a].owner, "link_account", accounts'[a].provider)
                /\ \E g \in Flows :
                     /\ flows[f].claimedBy = g /\ flows[g].reauth = f
                     /\ flows[g].status = "verified" /\ flows'[g].status = "consumed"
                     /\ flows[g].identity = accounts'[a].identity
<1>1. PICK u \in Users, i \in Identities \union {NoOne} :
        /\ accounts'[a] = LoginAccount(u, i)
        /\ \/ users[u].status = "absent"
           \/ \E r \in Requests : /\ pc[r] \in {"confirmLocked", "passwordLocked"}
                                  /\ u = sessions[job[r].session].owner /\ AddsIdentity(r, i)
  BY AccountMoves
<1>2. /\ accounts'[a].owner = u /\ accounts'[a].identity = i
      /\ accounts'[a].provider = IF i = NoOne THEN "credential" ELSE Issuer[i]
  BY <1>1, LoginAccountRow
<1>3. PICK r \in Requests : /\ pc[r] \in {"confirmLocked", "passwordLocked"}
                            /\ u = sessions[job[r].session].owner /\ AddsIdentity(r, i)
  BY <1>1, <1>2
<1>4. HoldsLock(r)
  BY DEF LockInv
<1>5. CASE SetPasswordCommit(r) /\ job[r].account = NoOne /\ i = NoOne
  <2>1. HeldProof(job[r].proof, u, "set_password", "credential")
    BY <1>3, <1>4, <1>5 DEF HoldsLock, SetPasswordCommit
  <2>2. PICK f \in Flows : f = job[r].proof
    BY <2>1 DEF HeldProof
  <2>3. CanFinishFlow(f, "authorized") /\ flows'[f].status = "consumed"
    BY <1>5, <2>2, ProofFinished DEF SpendsProof
  <2>4. Spent(f, u, "set_password", "credential")
    BY <2>1, <2>2, <2>3, SpentBy
  <2> QED BY <1>2, <1>5, <2>4
<1>6. CASE ConfirmLinkCommit(r) /\ i = flows[job[r].flow].identity
  <2>1. PICK g \in Flows : g = job[r].flow
    BY <1>6, LinkConfirmed
  <2>2. /\ flows[g].purpose = "link_identity" /\ flows[g].reauth = job[r].proof
        /\ HeldProof(job[r].proof, u, "link_account", flows[g].provider)
    BY <1>3, <1>4, <1>6, <2>1 DEF HoldsLock, ConfirmLinkCommit
  <2>3. PICK f \in Flows : f = job[r].proof
    BY <2>2 DEF HeldProof
  <2>4. /\ flows[g].status = "verified" /\ flows'[g].status = "consumed"
        /\ flows'[f].status = "consumed"
    BY <1>6, <2>1, <2>3, LinkConfirmed
  <2>5. CanFinishFlow(f, "claimed")
    BY <1>6, <2>3 DEF ConfirmLinkCommit
  <2>6. Spent(f, u, "link_account", flows[g].provider)
    BY <2>2, <2>3, <2>4, <2>5, SpentBy
  <2>7. accounts'[a].provider = flows[g].provider
    <3>1. i \in Identities /\ Issuer[i] = flows[g].provider
      BY <1>6, <2>1, <2>4 DEF LinkInv, FlowInv
    <3> QED BY <1>2, <3>1, FlowConstants
  <2>8. flows[f].claimedBy = g
    BY <2>2, <2>3 DEF ProofsPaired
  <2> QED BY <1>2, <1>6, <2>1, <2>2, <2>3, <2>4, <2>6, <2>7, <2>8
<1> QED BY <1>3, <1>5, <1>6 DEF AddsIdentity

\* An account that is taken away was named by a proof of another account.
LEMMA RemovedByProof ==
    ASSUME LinkInv, LockInv, [Next]_vars, NEW a \in Accounts,
           accounts[a].state = "enabled", accounts'[a].state = "revoked"
    PROVE  \E f \in Flows : Spent(f, accounts'[a].owner, "unlink_account", a) /\ flows[f].account # a
<1>1. PICK r \in Requests, u \in Users :
        /\ UnlinkCommit(r) /\ accounts'[a].owner = u
        /\ HeldProof(job[r].proof, u, "unlink_account", a) /\ flows[job[r].proof].account # a
  BY RevokedByUnlink
<1>2. PICK f \in Flows : f = job[r].proof
  BY <1>1 DEF HeldProof
<1>3. CanFinishFlow(f, "authorized") /\ flows'[f].status = "consumed"
  BY <1>1, <1>2, ProofFinished DEF SpendsProof
<1> QED BY <1>1, <1>2, <1>3, SpentBy

\* An account is added to a user or taken from one only in a step that spends a
\* proof the user obtained for exactly that.
THEOREM ChangesNeedProof == Spec => ProofAuthorises
<1>1. LinkInv /\ LockInv /\ ProofsPaired /\ [Next]_vars => [
        \A a \in Accounts :
          LET u == accounts'[a].owner
          IN /\ accounts[a].state = "absent" /\ accounts'[a].state = "enabled"
                  /\ users[u].status # "absent" =>
               \E f \in Flows :
                 \/ accounts'[a].identity = NoOne /\ Spent(f, u, "set_password", "credential")
                 \/ /\ Spent(f, u, "link_account", accounts'[a].provider)
                    /\ \E g \in Flows :
                         /\ flows[f].claimedBy = g /\ flows[g].reauth = f
                         /\ flows[g].status = "verified" /\ flows'[g].status = "consumed"
                         /\ flows[g].identity = accounts'[a].identity
             /\ accounts[a].state = "enabled" /\ accounts'[a].state = "revoked" =>
               \E f \in Flows : Spent(f, u, "unlink_account", a) /\ flows[f].account # a]_vars
  BY AddedByProof, RemovedByProof
<1> QED BY <1>1, LinkConsistency, LocksProtectChecks, ProofsStayPaired, PTL DEF Spec, ProofAuthorises

----------------------------------------------------------------------------
\* The session that OpenSession inserts, and the flow it spends
LEMMA OpenedSession ==
    ASSUME LinkInv, NEW r \in Requests, pc[r] \in {"found", "notFound"},
           NEW u, NEW version, NEW a, OpenSession(r, u, version, a),
           NEW s \in Sessions, sessions[s].state = "absent", sessions'[s].state = "live"
    PROVE  /\ sessions'[s].owner = u /\ sessions'[s].source = a
           /\ LET f == job[r].flow IN
                /\ f \in Flows /\ flows[f].live /\ flows[f].status = "processing"
                /\ flows'[f].status = "consumed"
                /\ flows[f].provider \in Providers /\ config[flows[f].provider] = flows[f].config
                /\ flows[f].config > 0
                /\ job[r].identity \in Identities /\ Issuer[job[r].identity] = flows[f].provider
<1>0. TypeOK /\ sessions \in [Sessions -> SessionRow]
  BY DEF LinkInv, TypeOK
<1>1. PICK t \in Sessions :
        sessions' = [sessions EXCEPT ![t] = [state |-> "live", owner |-> u, version |-> version,
                                             source |-> a]]
  BY DEF OpenSession
<1>2. s = t
  BY <1>0, <1>1
<1>3. sessions'[s].owner = u /\ sessions'[s].source = a
  BY <1>0, <1>1, <1>2
<1>4. PICK f \in Flows : f = job[r].flow
  BY <1>0 DEF TypeOK
<1>5. /\ flows[f].provider \in Providers /\ config[flows[f].provider] = flows[f].config
      /\ flows[f].purpose \in {"login", "register"}
      /\ job[r].identity \in Identities /\ Issuer[job[r].identity] = flows[f].provider
  BY <1>4 DEF LinkInv, RequestInv, Remembers
<1>6. flows[f].config > 0
  BY <1>5 DEF LinkInv, FlowInv
<1>7. flows[f].live /\ flows[f].status = "processing" /\ flows' = Moved(f, "consumed")
  BY <1>4 DEF OpenSession, CanFinishFlow
<1>8. flows'[f].status = "consumed"
  BY <1>0, <1>7, MovedRow DEF FlowStatus
<1> QED BY <1>3, <1>4, <1>5, <1>6, <1>7, <1>8

\* A session of a federated sign-in is bound to the callback that opened it.
LEMMA SignInBound ==
    ASSUME LinkInv, [Next]_vars, NEW s \in Sessions,
           sessions[s].state = "absent", sessions'[s].state = "live",
           accounts'[sessions'[s].source].provider # "credential"
    PROVE  LET account == accounts'[sessions'[s].source]
           IN /\ account.state = "enabled" /\ account.owner = sessions'[s].owner
              /\ Enabled(account.provider)
              /\ \E r \in Requests : LET f == job[r].flow IN
                   /\ pc[r] \in {"found", "notFound"} /\ job[r].identity = account.identity
                   /\ flows[f].live /\ flows[f].config = config[account.provider]
                   /\ flows[f].status = "processing" /\ flows'[f].status = "consumed"
<1>0. TypeOK /\ sessions \in [Sessions -> SessionRow]
  BY DEF LinkInv, TypeOK
<1>1. SignsIn
  BY SessionMoves
<1>2. ASSUME NEW t \in Sessions, NEW u \in Users, NEW a \in Accounts, PasswordLogin(t, u, a) PROVE FALSE
  <2>1. /\ sessions' = [sessions EXCEPT ![t] = [state |-> "live", owner |-> u,
                                               version |-> users[u].version, source |-> a]]
        /\ accounts[a].provider = "credential" /\ UNCHANGED accounts
    BY <1>2 DEF PasswordLogin, IsPasswordAccount
  <2>2. s = t
    BY <1>0, <2>1
  <2>3. sessions'[s].source = a
    BY <1>0, <2>1, <2>2
  <2> QED BY <2>1, <2>3
<1>3. ASSUME NEW r \in Requests, pc[r] \in {"found", "notFound"}, NEW a \in Accounts, NEW u,
             NEW version, OpenSession(r, u, version, a),
             accounts'[a].state = "enabled", accounts'[a].owner = u,
             accounts'[a].identity = job[r].identity,
             accounts'[a].provider = Issuer[job[r].identity]
      PROVE  LET account == accounts'[sessions'[s].source]
             IN /\ account.state = "enabled" /\ account.owner = sessions'[s].owner
                /\ Enabled(account.provider)
                /\ \E q \in Requests : LET f == job[q].flow IN
                     /\ pc[q] \in {"found", "notFound"} /\ job[q].identity = account.identity
                     /\ flows[f].live /\ flows[f].config = config[account.provider]
                     /\ flows[f].status = "processing" /\ flows'[f].status = "consumed"
  <2>1. /\ sessions'[s].owner = u /\ sessions'[s].source = a
        /\ LET f == job[r].flow IN
             /\ f \in Flows /\ flows[f].live /\ flows[f].status = "processing"
             /\ flows'[f].status = "consumed"
             /\ flows[f].provider \in Providers /\ config[flows[f].provider] = flows[f].config
             /\ flows[f].config > 0
             /\ job[r].identity \in Identities /\ Issuer[job[r].identity] = flows[f].provider
    BY <1>3, OpenedSession
  <2> QED BY <1>3, <2>1 DEF Enabled
<1>4. ASSUME NEW r \in Requests, LoginCommit(r)
      PROVE  \E a \in Accounts : \E u, version :
               /\ pc[r] = "found" /\ OpenSession(r, u, version, a)
               /\ accounts'[a].state = "enabled" /\ accounts'[a].owner = u
               /\ accounts'[a].identity = job[r].identity
               /\ accounts'[a].provider = Issuer[job[r].identity]
  <2>1. PICK a, u, version :
          /\ a \in Accounts /\ a = job[r].account /\ pc[r] = "found" /\ OpenSession(r, u, version, a)
          /\ accounts[a].state = "enabled" /\ accounts[a].owner = u /\ UNCHANGED accounts
    BY <1>0, <1>4 DEF LoginCommit, HasAccount, TypeOK
  <2>2. job[r].identity \in Identities /\ accounts[a].identity = job[r].identity
    BY <2>1 DEF LinkInv, RequestInv, Remembers
  <2>3. accounts[a].provider = Issuer[job[r].identity]
    BY <2>1, <2>2, FlowConstants DEF LinkInv, RowsInUse
  <2> QED BY <2>1, <2>2, <2>3
<1>5. ASSUME NEW r \in Requests, LoginRegister(r)
      PROVE  \E a \in Accounts : \E u, version :
               /\ pc[r] = "notFound" /\ OpenSession(r, u, version, a)
               /\ accounts'[a].state = "enabled" /\ accounts'[a].owner = u
               /\ accounts'[a].identity = job[r].identity
               /\ accounts'[a].provider = Issuer[job[r].identity]
  <2>1. PICK u \in Users, a \in Accounts :
          /\ pc[r] = "notFound" /\ NewAccount(a) /\ CreateAccount(u, job[r].identity)
          /\ OpenSession(r, u, 1, a)
    BY <1>5 DEF LoginRegister
  <2>2. job[r].identity \in Identities
    BY <1>5, NewIdentity
  <2>3. PICK b \in Accounts : NewAccount(b) /\ accounts'[b] = LoginAccount(u, job[r].identity)
    BY <1>0, <2>1, <2>2, CreatedAccount
  <2>4. a = b
    BY <2>1, <2>3 DEF NewAccount
  <2>5. /\ accounts'[a].state = "enabled" /\ accounts'[a].owner = u
        /\ accounts'[a].identity = job[r].identity
        /\ accounts'[a].provider = Issuer[job[r].identity]
    BY <2>2, <2>3, <2>4, LoginAccountRow, FlowConstants
  <2> QED BY <2>1, <2>5
<1>6. PICK r, a, u, version :
        /\ r \in Requests /\ a \in Accounts
        /\ pc[r] \in {"found", "notFound"} /\ OpenSession(r, u, version, a)
        /\ accounts'[a].state = "enabled" /\ accounts'[a].owner = u
        /\ accounts'[a].identity = job[r].identity
        /\ accounts'[a].provider = Issuer[job[r].identity]
  BY <1>1, <1>2, <1>4, <1>5 DEF SignsIn
<1> QED BY <1>3, <1>6

\* A federated sign-in opens a session only in the step that spends the flow of
\* its callback, under the present configuration, for the user who has the
\* proved identity at that moment.
THEOREM SignInsAreBound == Spec => LoginBound
<1>1. LinkInv /\ [Next]_vars => [
        \A s \in Sessions :
          sessions[s].state = "absent" /\ sessions'[s].state = "live"
              /\ accounts'[sessions'[s].source].provider # "credential" =>
            LET account == accounts'[sessions'[s].source]
            IN /\ account.state = "enabled" /\ account.owner = sessions'[s].owner
               /\ Enabled(account.provider)
               /\ \E r \in Requests : LET f == job[r].flow IN
                    /\ pc[r] \in {"found", "notFound"} /\ job[r].identity = account.identity
                    /\ flows[f].live /\ flows[f].config = config[account.provider]
                    /\ flows[f].status = "processing" /\ flows'[f].status = "consumed"]_vars
  BY SignInBound
<1> QED BY <1>1, LinkConsistency, PTL DEF Spec, LoginBound

=============================================================================
