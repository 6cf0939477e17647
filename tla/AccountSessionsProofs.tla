----------------------- MODULE AccountSessionsProofs ------------------------
(***************************************************************************)
(* Proofs about AccountSessions, for any sets of users, rows and requests, *)
(* and, at the end, about SessionRenewal.                                  *)
(***************************************************************************)
EXTENDS AccountSessions, SessionRenewal, TLAPS

\* A job with one local variable assigned is a job.
LEMMA JobUpdate ==
    ASSUME NEW j \in Job
    PROVE  /\ \A u \in Users \union {NoOne} : [j EXCEPT !.user = u] \in Job
           /\ \A n \in Nat : [j EXCEPT !.version = n] \in Job
           /\ \A a \in Accounts \union {NoOne} : [j EXCEPT !.account = a] \in Job
           /\ \A n \in Nat : [j EXCEPT !.accountVersion = n] \in Job
           /\ \A p \in Passwords \union {NoOne} : [j EXCEPT !.password = p] \in Job
           /\ \A b \in BOOLEAN : [j EXCEPT !.weak = b] \in Job
           /\ \A s \in Sessions \union {NoOne} : [j EXCEPT !.session = s] \in Job
           /\ \A c \in Challenges \union {NoOne} : [j EXCEPT !.challenge = c] \in Job
           /\ \A e \in Emails \union {NoOne} : [j EXCEPT !.email = e] \in Job
BY Zenon DEF Job

\* The empty rows and the empty job have their types.
LEMMA NoRows ==
    /\ NoUser \in UserRow /\ NoAccount \in AccountRow /\ NoSession \in SessionRow
    /\ NoChallenge \in ChallengeRow /\ NoJob \in Job
BY DEF NoUser, NoAccount, NoSession, NoChallenge, NoJob, UserRow, UserStatus, AccountRow,
       SessionRow, ChallengeRow, Job

\* The columns of rows and jobs have their types.
LEMMA Columns ==
    ASSUME TypeOK
    PROVE  /\ \A u \in Users : /\ users[u] \in UserRow /\ users[u].version \in Nat
                               /\ users[u].email \in Emails \union {NoOne}
           /\ \A a \in Accounts : /\ accounts[a] \in AccountRow /\ accounts[a].version \in Nat
                                  /\ accounts[a].password \in Passwords \union {NoOne}
                                  /\ accounts[a].weak \in BOOLEAN
           /\ \A s \in Sessions : sessions[s] \in SessionRow /\ sessions[s].version \in Nat
           /\ \A c \in Challenges : challenges[c] \in ChallengeRow /\ challenges[c].version \in Nat
           /\ \A r \in Requests : /\ job[r] \in Job /\ job[r].version \in Nat
                                  /\ job[r].email \in Emails \union {NoOne}
                                  /\ job[r].password \in Passwords \union {NoOne}
BY DEF TypeOK, UserRow, AccountRow, SessionRow, ChallengeRow, Job

\* BumpUserVersion changes one version and nothing else.
LEMMA BumpedUsers ==
    ASSUME TypeOK, NEW u \in Users
    PROVE  /\ Bumped(u) \in [Users -> UserRow]
           /\ \A v \in Users : /\ Bumped(u)[v].status = users[v].status
                               /\ Bumped(u)[v].email = users[v].email
                               /\ Bumped(u)[v].verified = users[v].verified
                               /\ v # u => Bumped(u)[v] = users[v]
           /\ Bumped(u)[u].version = users[u].version + 1
BY DEF TypeOK, Bumped, UserRow

\* RevokeUserSessions ends the user's sessions and nothing else.
LEMMA RevokedSessions ==
    ASSUME TypeOK, NEW u \in Users
    PROVE  /\ Revoked(u) \in [Sessions -> SessionRow]
           /\ \A s \in Sessions : /\ Revoked(u)[s].owner = sessions[s].owner
                                  /\ Revoked(u)[s].source = sessions[s].source
                                  /\ Revoked(u)[s].version = sessions[s].version
                                  /\ Revoked(u)[s].password = sessions[s].password
                                  /\ sessions[s].owner = u => Revoked(u)[s].state = "ended"
                                  /\ sessions[s].owner # u => Revoked(u)[s] = sessions[s]
BY DEF TypeOK, Revoked, SessionRow

\* Revoked sessions are still rows that refer to their user and account.
LEMMA RevokedReferences ==
    ASSUME TypeOK, NEW u \in Users, sessions' = Revoked(u)
    PROVE  \A s \in Sessions : /\ sessions'[s].owner \in Users <=> sessions'[s].state # "absent"
                               /\ sessions'[s].source \in Accounts <=> sessions'[s].state # "absent"
<1> TAKE s \in Sessions
<1>1. /\ sessions[s].owner \in Users <=> sessions[s].state # "absent"
      /\ sessions[s].source \in Accounts <=> sessions[s].state # "absent"
  BY DEF TypeOK, References
<1>2. CASE sessions[s].owner = u
  BY <1>1, <1>2, RevokedSessions
<1>3. CASE sessions[s].owner # u
  BY <1>1, <1>3, RevokedSessions
<1> QED BY <1>2, <1>3

\* References survive a step that keeps the owners of accounts and challenges.
LEMMA ReferencesKept ==
    ASSUME TypeOK,
           \A a \in Accounts : /\ accounts'[a].owner = accounts[a].owner
                               /\ accounts'[a].state = accounts[a].state,
           \A c \in Challenges : /\ challenges'[c].owner = challenges[c].owner
                                 /\ challenges'[c].state # "absent" <=> challenges[c].state # "absent",
           \A s \in Sessions : /\ sessions'[s].owner \in Users <=> sessions'[s].state # "absent"
                               /\ sessions'[s].source \in Accounts <=> sessions'[s].state # "absent"
    PROVE  References'
<1>1. \A a \in Accounts : accounts[a].owner \in Users <=> accounts[a].state # "absent"
  BY DEF TypeOK, References
<1>2. \A c \in Challenges : challenges[c].owner \in Users <=> challenges[c].state # "absent"
  BY DEF TypeOK, References
<1> QED BY <1>1, <1>2 DEF References

\* ChangePassword stores the new password under the next version.
LEMMA ChangedAccounts ==
    ASSUME TypeOK, NEW a \in Accounts, NEW p \in Passwords, NEW weak \in BOOLEAN
    PROVE  /\ ChangedPassword(a, p, weak) \in [Accounts -> AccountRow]
           /\ \A b \in Accounts : b # a => ChangedPassword(a, p, weak)[b] = accounts[b]
           /\ \A b \in Accounts : /\ ChangedPassword(a, p, weak)[b].state = accounts[b].state
                                  /\ ChangedPassword(a, p, weak)[b].owner = accounts[b].owner
           /\ ChangedPassword(a, p, weak)[a].version = accounts[a].version + 1
           /\ ChangedPassword(a, p, weak)[a].password = p
<1> DEFINE new == [accounts[a] EXCEPT !.password = p, !.weak = weak,
                                       !.version = accounts[a].version + 1]
<1>1. accounts[a] \in AccountRow /\ accounts[a].version + 1 \in Nat
  BY DEF TypeOK, AccountRow
<1>2. ASSUME NEW row \in AccountRow
      PROVE  /\ \A q \in Passwords : [row EXCEPT !.password = q] \in AccountRow
             /\ \A b \in BOOLEAN : [row EXCEPT !.weak = b] \in AccountRow
             /\ \A n \in Nat : [row EXCEPT !.version = n] \in AccountRow
  BY Zenon DEF AccountRow
<1>3. new \in AccountRow
  BY <1>1, <1>2, Zenon
<1>4. /\ new.state = accounts[a].state /\ new.owner = accounts[a].owner
      /\ new.version = accounts[a].version + 1 /\ new.password = p
  BY <1>1 DEF AccountRow
<1> HIDE DEF new
<1>5. ChangedPassword(a, p, weak) = [accounts EXCEPT ![a] = new]
  BY DEF ChangedPassword, new
<1> QED BY <1>3, <1>4, <1>5 DEF TypeOK

\* UpgradePasswordHash changes the strength of one hash at most.
LEMMA UpgradedAccounts ==
    ASSUME TypeOK, NEW j \in Job, j.account \in Accounts
    PROVE  /\ UpgradePasswordHash(j) \in [Accounts -> AccountRow]
           /\ \A b \in Accounts : /\ UpgradePasswordHash(j)[b].state = accounts[b].state
                                  /\ UpgradePasswordHash(j)[b].owner = accounts[b].owner
                                  /\ UpgradePasswordHash(j)[b].version = accounts[b].version
                                  /\ UpgradePasswordHash(j)[b].password = accounts[b].password
BY DEF TypeOK, UpgradePasswordHash, AccountRow

\* A step that moves one request on and writes no table keeps the types.
LEMMA ReadStep ==
    ASSUME TypeOK, NEW r \in Requests, NEW label \in PC, NEW j \in Job, Goto(r, label, j),
           UNCHANGED <<users, accounts, sessions, challenges>>,
           label = "verifyFound" =>
             j.challenge \in Challenges /\ challenges[j.challenge].state # "absent",
           label \notin {"idle", "verifyFound"} => j.user \in Users,
           label \in {"loginVerified", "passwordVerified"} =>
             j.account \in Accounts /\ accounts[j.account].state # "absent",
           label \in {"authenticated", "passwordUser", "passwordSelf", "passwordVerified"} =>
             j.session \in Sessions
    PROVE  TypeOK'
<1>1. pc' \in [Requests -> PC] /\ job' \in [Requests -> Job]
  BY DEF TypeOK, Goto
<1>2. References'
  BY DEF TypeOK, References
<1>3. Remembered'
  <2> SUFFICES ASSUME NEW q \in Requests PROVE Remembered!(q)'
    BY DEF Remembered
  <2>1. CASE q = r
    BY <2>1 DEF TypeOK, Goto, Remembered
  <2>2. CASE q # r
    BY <2>2 DEF TypeOK, Goto, Remembered
  <2> QED BY <2>1, <2>2
<1> QED BY <1>1, <1>2, <1>3 DEF TypeOK

\* A step that writes tables, removes no row and ends a request or touches
\* none keeps the types.
LEMMA WriteStep ==
    ASSUME TypeOK, UNCHANGED <<pc, job>> \/ \E r \in Requests : Done(r),
           users' \in [Users -> UserRow], accounts' \in [Accounts -> AccountRow],
           sessions' \in [Sessions -> SessionRow], challenges' \in [Challenges -> ChallengeRow],
           References',
           \A a \in Accounts : accounts[a].state # "absent" => accounts'[a].state # "absent",
           \A c \in Challenges : challenges[c].state # "absent" => challenges'[c].state # "absent"
    PROVE  TypeOK'
<1>1. pc' \in [Requests -> PC] /\ job' \in [Requests -> Job]
  BY NoRows DEF TypeOK, Done, PC
<1>2. Remembered'
  <2> SUFFICES ASSUME NEW q \in Requests PROVE Remembered!(q)'
    BY DEF Remembered
  <2>1. CASE pc'[q] = "idle"
    BY <2>1
  <2>2. CASE pc'[q] = pc[q] /\ job'[q] = job[q]
    BY <2>2 DEF TypeOK, Remembered
  <2>3. pc'[q] = "idle" \/ (pc'[q] = pc[q] /\ job'[q] = job[q])
    BY DEF TypeOK, Done
  <2> QED BY <2>1, <2>2, <2>3
<1> QED BY <1>1, <1>2 DEF TypeOK

\* createChallenge adds one challenge that refers to its user.
LEMMA NewChallenge ==
    ASSUME TypeOK, NEW u \in Users, NEW purpose \in {"register", "reset_password"},
           NEW e \in Emails \union {NoOne}, NEW n \in Nat, CreateChallenge(u, purpose, e, n)
    PROVE  /\ challenges' \in [Challenges -> ChallengeRow]
           /\ \A c \in Challenges :
                /\ challenges'[c].owner \in Users <=> challenges'[c].state # "absent"
                /\ challenges[c].state # "absent" => challenges'[c] = challenges[c]
<1>1. PICK c \in Challenges :
        /\ challenges[c].state = "absent"
        /\ challenges' = [challenges EXCEPT ![c] =
                            [state |-> "open", owner |-> u, purpose |-> purpose,
                             email |-> e, version |-> n]]
  BY DEF CreateChallenge
<1>2. [state |-> "open", owner |-> u, purpose |-> purpose, email |-> e, version |-> n]
        \in ChallengeRow
  BY DEF ChallengeRow
<1> QED BY <1>1, <1>2 DEF TypeOK, References

\* consumeVerification and expiry close one challenge.
LEMMA SpentChallenge ==
    ASSUME TypeOK, NEW c \in Challenges, OpenChallenge(c),
           challenges' = [challenges EXCEPT ![c].state = "spent"]
    PROVE  /\ challenges' \in [Challenges -> ChallengeRow]
           /\ \A d \in Challenges :
                /\ challenges'[d].owner = challenges[d].owner
                /\ challenges'[d].state # "absent" <=> challenges[d].state # "absent"
BY DEF TypeOK, OpenChallenge, ChallengeRow

\* Every step keeps the types.
LEMMA AccountTypeStep == TypeOK /\ [Next]_vars => TypeOK'
<1> SUFFICES ASSUME TypeOK, [Next]_vars PROVE TypeOK'
  OBVIOUS
<1>0. /\ users \in [Users -> UserRow] /\ accounts \in [Accounts -> AccountRow]
      /\ sessions \in [Sessions -> SessionRow] /\ challenges \in [Challenges -> ChallengeRow]
      /\ pc \in [Requests -> PC] /\ job \in [Requests -> Job]
      /\ References /\ Remembered
  BY DEF TypeOK
<1>1. CASE UNCHANGED vars
  BY <1>1 DEF vars, TypeOK, References, Remembered
<1>2. ASSUME NEW r \in Requests, NEW u \in Users, ForgotFindUser(r, u) PROVE TypeOK'
  <2> DEFINE j == [NoJob EXCEPT !.user = u, !.version = users[u].version, !.email = users[u].email]
  <2>1. j \in Job
    BY Columns, JobUpdate, NoRows, Zenon
  <2>2. j.user = u
    BY DEF NoJob
  <2> QED BY <1>2, <2>1, <2>2, ReadStep DEF ForgotFindUser, PC
<1>3. ASSUME NEW r \in Requests, NEW u \in Users, LoginFindUser(r, u) PROVE TypeOK'
  <2> DEFINE j == [NoJob EXCEPT !.user = u, !.version = users[u].version]
  <2>1. j \in Job
    BY Columns, JobUpdate, NoRows, Zenon
  <2>2. j.user = u
    BY DEF NoJob
  <2> QED BY <1>3, <2>1, <2>2, ReadStep DEF LoginFindUser, PC
<1>4. ASSUME NEW r \in Requests, NEW c \in Challenges, VerifyFind(r, c) PROVE TypeOK'
  <2> DEFINE j == [NoJob EXCEPT !.challenge = c]
  <2>1. j \in Job
    BY JobUpdate, NoRows, Zenon
  <2>2. j.challenge = c /\ challenges[c].state # "absent"
    BY <1>4 DEF NoJob, VerifyFind, OpenChallenge
  <2> QED BY <1>4, <2>1, <2>2, ReadStep DEF VerifyFind, PC
<1>5. ASSUME NEW r \in Requests, NEW s \in Sessions, AuthenticateSession(r, s) PROVE TypeOK'
  <2> DEFINE j == [NoJob EXCEPT !.user = sessions[s].owner, !.session = s]
  <2>1. sessions[s].owner \in Users
    BY <1>5 DEF AuthenticateSession, ValidSession
  <2>2. j \in Job
    BY <2>1, JobUpdate, NoRows, Zenon
  <2>3. j.user = sessions[s].owner /\ j.session = s
    BY DEF NoJob
  <2> QED BY <1>5, <2>1, <2>2, <2>3, ReadStep DEF AuthenticateSession, PC
<1>6. ASSUME NEW r \in Requests, LoginVerify(r) PROVE TypeOK'
  <2>1. PICK a \in Accounts :
          /\ IsPasswordAccount(a, job[r].user)
          /\ Goto(r, "loginVerified",
                  [job[r] EXCEPT !.account = a, !.accountVersion = accounts[a].version,
                                 !.password = accounts[a].password, !.weak = accounts[a].weak])
    BY <1>6 DEF LoginVerify
  <2> DEFINE j == [job[r] EXCEPT !.account = a, !.accountVersion = accounts[a].version,
                                 !.password = accounts[a].password, !.weak = accounts[a].weak]
  <2>2. j \in Job
    BY Columns, JobUpdate, Zenon
  <2>3. j.user = job[r].user /\ j.account = a
    BY Columns DEF Job
  <2>4. job[r].user \in Users /\ accounts[a].state # "absent"
    BY <1>0, <1>6, <2>1 DEF LoginVerify, Remembered, IsPasswordAccount
  <2> QED BY <1>6, <2>1, <2>2, <2>3, <2>4, ReadStep DEF LoginVerify, PC
<1>7. ASSUME NEW r \in Requests, PasswordReadUser(r) PROVE TypeOK'
  <2> DEFINE j == [job[r] EXCEPT !.version = users[job[r].user].version]
  <2>1. job[r].user \in Users /\ job[r].session \in Sessions
    BY <1>0, <1>7 DEF PasswordReadUser, Remembered
  <2>2. j \in Job
    BY <2>1, Columns, JobUpdate, Zenon
  <2>3. j.user = job[r].user /\ j.session = job[r].session
    BY Columns DEF Job
  <2> QED BY <1>7, <2>1, <2>2, <2>3, ReadStep DEF PasswordReadUser, PC
<1>8. ASSUME NEW r \in Requests, PasswordReadSelf(r) PROVE TypeOK'
  <2>1. job[r].user \in Users /\ job[r].session \in Sessions
    BY <1>0, <1>8 DEF PasswordReadSelf, Remembered
  <2> QED BY <1>8, <2>1, Columns, ReadStep DEF PasswordReadSelf, PC
<1>9. ASSUME NEW r \in Requests, PasswordVerify(r) PROVE TypeOK'
  <2>1. PICK a \in Accounts :
          /\ IsPasswordAccount(a, job[r].user)
          /\ Goto(r, "passwordVerified",
                  [job[r] EXCEPT !.account = a, !.accountVersion = accounts[a].version,
                                 !.password = accounts[a].password])
    BY <1>9 DEF PasswordVerify
  <2> DEFINE j == [job[r] EXCEPT !.account = a, !.accountVersion = accounts[a].version,
                                 !.password = accounts[a].password]
  <2>2. j \in Job
    BY Columns, JobUpdate, Zenon
  <2>3. j.user = job[r].user /\ j.account = a /\ j.session = job[r].session
    BY Columns DEF Job
  <2>4. job[r].user \in Users /\ job[r].session \in Sessions /\ accounts[a].state # "absent"
    BY <1>0, <1>9, <2>1 DEF PasswordVerify, Remembered, IsPasswordAccount
  <2> QED BY <1>9, <2>1, <2>2, <2>3, <2>4, ReadStep DEF PasswordVerify, PC
<1>10. ASSUME NEW r \in Requests, Fail(r) PROVE TypeOK'
  BY <1>0, <1>10, WriteStep DEF Fail, References
<1>11. ASSUME NEW r \in Requests, ForgotCreate(r) PROVE TypeOK'
  <2>1. job[r].user \in Users
    BY <1>0, <1>11 DEF ForgotCreate, Remembered
  <2>2. CreateChallenge(job[r].user, "reset_password", job[r].email, job[r].version)
    BY <1>11 DEF ForgotCreate
  <2> QED BY <1>0, <1>11, <2>1, <2>2, Columns, NewChallenge, WriteStep DEF ForgotCreate, References
<1>12. ASSUME NEW r \in Requests, VerifyRegister(r) PROVE TypeOK'
  <2> DEFINE c == job[r].challenge
             u == challenges[c].owner
  <2>1. c \in Challenges /\ u \in Users
    BY <1>0, <1>12 DEF VerifyRegister, Remembered, References
  <2>2. users' \in [Users -> UserRow]
    <3>1. [users[u] EXCEPT !.status = "active", !.verified = TRUE] \in UserRow
      <4>1. ASSUME NEW row \in UserRow
            PROVE  /\ [row EXCEPT !.status = "active"] \in UserRow
                   /\ [row EXCEPT !.verified = TRUE] \in UserRow
        BY DEF UserRow, UserStatus
      <4> QED BY <4>1, <2>1, Columns, Zenon
    <3> QED BY <1>0, <1>12, <2>1, <3>1 DEF VerifyRegister
  <2>3. PICK a \in Accounts, p \in Passwords, weak \in BOOLEAN :
          /\ accounts[a].state = "absent"
          /\ accounts' = [accounts EXCEPT ![a] = [state |-> "enabled", owner |-> u, version |-> 1,
                                                  password |-> p, weak |-> weak]]
    BY <1>12 DEF VerifyRegister
  <2>4. [state |-> "enabled", owner |-> u, version |-> 1, password |-> p, weak |-> weak] \in AccountRow
    BY <2>1 DEF AccountRow
  <2>5. /\ accounts' \in [Accounts -> AccountRow]
        /\ \A b \in Accounts : /\ accounts'[b].owner \in Users <=> accounts'[b].state # "absent"
                               /\ accounts[b].state # "absent" => accounts'[b].state # "absent"
    BY <1>0, <2>1, <2>3, <2>4 DEF References
  <2>6. OpenChallenge(c) /\ challenges' = [challenges EXCEPT ![c].state = "spent"]
    BY <1>12 DEF VerifyRegister, Consume
  <2> QED BY <1>0, <1>12, <2>1, <2>2, <2>5, <2>6, SpentChallenge, WriteStep
          DEF VerifyRegister, References
<1>13. ASSUME NEW r \in Requests, VerifyReset(r) PROVE TypeOK'
  <2> DEFINE c == job[r].challenge
             u == challenges[c].owner
  <2>1. c \in Challenges /\ u \in Users
    BY <1>0, <1>13 DEF VerifyReset, Remembered, References
  <2>2. PICK a \in Accounts, p \in Passwords, weak \in BOOLEAN :
          accounts' = ChangedPassword(a, p, weak)
    BY <1>13 DEF VerifyReset
  <2>3. OpenChallenge(c) /\ challenges' = [challenges EXCEPT ![c].state = "spent"]
    BY <1>13 DEF VerifyReset, Consume
  <2>4. users' = Bumped(u) /\ sessions' = Revoked(u)
    BY <1>13 DEF VerifyReset, Invalidate
  <2>5. Done(r)
    BY <1>13 DEF VerifyReset
  <2> HIDE DEF c, u
  <2>6. /\ accounts' \in [Accounts -> AccountRow]
        /\ \A b \in Accounts : /\ accounts'[b].owner = accounts[b].owner
                               /\ accounts'[b].state = accounts[b].state
    BY <2>2, ChangedAccounts
  <2>7. /\ challenges' \in [Challenges -> ChallengeRow]
        /\ \A d \in Challenges :
             /\ challenges'[d].owner = challenges[d].owner
             /\ challenges'[d].state # "absent" <=> challenges[d].state # "absent"
    BY <2>1, <2>3, SpentChallenge
  <2>8. References'
    BY <2>1, <2>4, <2>6, <2>7, RevokedReferences, ReferencesKept
  <2>9. users' \in [Users -> UserRow] /\ sessions' \in [Sessions -> SessionRow]
    BY <2>1, <2>4, RevokedSessions, BumpedUsers
  <2> QED BY <2>5, <2>6, <2>7, <2>8, <2>9, WriteStep
<1>14. ASSUME NEW r \in Requests, LoginCommit(r) PROVE TypeOK'
  <2>1. job[r] \in Job /\ job[r].user \in Users /\ job[r].account \in Accounts
    BY <1>0, <1>14 DEF LoginCommit, Remembered
  <2>2. accounts' = UpgradePasswordHash(job[r])
    BY <1>14 DEF LoginCommit
  <2>3. PICK s \in Sessions :
          /\ sessions[s].state = "absent"
          /\ sessions' = [sessions EXCEPT ![s] =
                            [state |-> "live", owner |-> job[r].user, source |-> job[r].account,
                             version |-> users[job[r].user].version, password |-> job[r].password]]
    BY <1>14 DEF LoginCommit
  <2>4. [state |-> "live", owner |-> job[r].user, source |-> job[r].account,
         version |-> users[job[r].user].version, password |-> job[r].password] \in SessionRow
    BY <2>1, Columns DEF SessionRow
  <2>5. /\ sessions' \in [Sessions -> SessionRow]
        /\ \A t \in Sessions : /\ sessions'[t].owner \in Users <=> sessions'[t].state # "absent"
                               /\ sessions'[t].source \in Accounts <=> sessions'[t].state # "absent"
    BY <1>0, <2>1, <2>3, <2>4 DEF References
  <2>6. References'
    BY <1>14, <2>1, <2>2, <2>5, UpgradedAccounts, ReferencesKept DEF LoginCommit
  <2> QED BY <1>0, <1>14, <2>1, <2>2, <2>5, <2>6, UpgradedAccounts, WriteStep DEF LoginCommit
<1>15. ASSUME NEW r \in Requests, PasswordCommit(r) PROVE TypeOK'
  <2>1. job[r].user \in Users /\ job[r].account \in Accounts
    BY <1>0, <1>15 DEF PasswordCommit, Remembered
  <2>2. PICK p \in Passwords, weak \in BOOLEAN : accounts' = ChangedPassword(job[r].account, p, weak)
    BY <1>15 DEF PasswordCommit
  <2>3. users' = Bumped(job[r].user) /\ sessions' = Revoked(job[r].user)
    BY <1>15 DEF PasswordCommit, Invalidate
  <2>4. References'
    BY <1>15, <2>1, <2>2, <2>3, ChangedAccounts, RevokedReferences, ReferencesKept DEF PasswordCommit
  <2> QED BY <1>0, <1>15, <2>1, <2>2, <2>3, <2>4, ChangedAccounts, RevokedSessions, BumpedUsers,
             WriteStep DEF PasswordCommit
<1>16. ASSUME NEW r \in Requests, RevokeAll(r) PROVE TypeOK'
  <2>1. job[r].user \in Users
    BY <1>0, <1>16 DEF RevokeAll, Remembered
  <2>2. users' = Bumped(job[r].user) /\ sessions' = Revoked(job[r].user)
    BY <1>16 DEF RevokeAll, Invalidate
  <2>3. References'
    BY <1>16, <2>1, <2>2, RevokedReferences, ReferencesKept DEF RevokeAll
  <2> QED BY <1>0, <1>16, <2>1, <2>2, <2>3, RevokedSessions, BumpedUsers, WriteStep DEF RevokeAll
<1>17. ASSUME NEW t \in Sessions, sessions[t].state # "absent",
              sessions' = [sessions EXCEPT ![t].state = "ended"],
              UNCHANGED <<users, accounts, challenges>>
       PROVE  /\ sessions' \in [Sessions -> SessionRow] /\ References'
  BY <1>0, <1>17 DEF References, SessionRow
<1>18. ASSUME NEW r \in Requests, NEW t \in Sessions, RevokeOne(r, t) PROVE TypeOK'
  BY <1>0, <1>17, <1>18, WriteStep DEF RevokeOne
<1>19. ASSUME NEW t \in Sessions, ExpireSession(t) PROVE TypeOK'
  BY <1>0, <1>17, <1>19, WriteStep DEF ExpireSession
<1>20. ASSUME NEW c \in Challenges, ExpireChallenge(c) PROVE TypeOK'
  BY <1>0, <1>20, SpentChallenge, WriteStep DEF ExpireChallenge, References
<1>21. ASSUME NEW u \in Users, NEW e \in Emails, RegisterNew(u, e) PROVE TypeOK'
  <2>1. users' \in [Users -> UserRow]
    BY <1>0, <1>21 DEF RegisterNew, UserRow, UserStatus
  <2>2. CreateChallenge(u, "register", e, 1)
    BY <1>21 DEF RegisterNew
  <2> QED BY <1>0, <1>21, <2>1, <2>2, NewChallenge, WriteStep DEF RegisterNew, References
<1>22. ASSUME NEW u \in Users, NEW e \in Emails, RegisterAgain(u, e) PROVE TypeOK'
  <2>1. CreateChallenge(u, "register", e, users[u].version)
    BY <1>22 DEF RegisterAgain
  <2> QED BY <1>0, <1>22, <2>1, Columns, NewChallenge, WriteStep DEF RegisterAgain, References
<1>23. ASSUME NEW u \in Users, AdminRevoke(u) PROVE TypeOK'
  <2>1. users' = Bumped(u) /\ sessions' = Revoked(u)
    BY <1>23 DEF AdminRevoke, Invalidate
  <2>2. References'
    BY <1>23, <2>1, RevokedReferences, ReferencesKept DEF AdminRevoke
  <2> QED BY <1>0, <1>23, <2>1, <2>2, RevokedSessions, BumpedUsers, WriteStep DEF AdminRevoke
<1>24. ASSUME NEW u \in Users, NEW status \in {"active", "disabled"}, SetStatus(u, status)
       PROVE  TypeOK'
  <2>1. users' \in [Users -> UserRow]
    <3>1. ASSUME NEW row \in UserRow
          PROVE  /\ [row EXCEPT !.status = status] \in UserRow
                 /\ \A n \in Nat : [row EXCEPT !.version = n] \in UserRow
      BY DEF UserRow, UserStatus
    <3>2. [users[u] EXCEPT !.status = status, !.version = users[u].version + 1] \in UserRow
      <4>1. users[u] \in UserRow /\ users[u].version + 1 \in Nat
        BY Columns
      <4> QED BY <3>1, <4>1, Zenon
    <3> QED BY <1>0, <1>24, <3>2 DEF SetStatus
  <2>2. sessions' = Revoked(u)
    BY <1>24 DEF SetStatus
  <2>3. References'
    BY <1>24, <2>2, RevokedReferences, ReferencesKept DEF SetStatus
  <2> QED BY <1>0, <1>24, <2>1, <2>2, <2>3, RevokedSessions, WriteStep DEF SetStatus
<1> QED
  BY <1>1, <1>2, <1>3, <1>4, <1>5, <1>6, <1>7, <1>8, <1>9, <1>10, <1>11, <1>12, <1>13, <1>14,
     <1>15, <1>16, <1>18, <1>19, <1>20, <1>21, <1>22, <1>23, <1>24
  DEF Next, RequestStep

\* Rows and local variables keep their types, references lead to rows that
\* exist, and a request keeps what its later statements use.
THEOREM AccountTypes == Spec => []TypeOK
<1>1. Init => TypeOK
  <2> SUFFICES ASSUME Init PROVE TypeOK
    OBVIOUS
  <2>1. /\ users \in [Users -> UserRow] /\ accounts \in [Accounts -> AccountRow]
        /\ sessions \in [Sessions -> SessionRow] /\ challenges \in [Challenges -> ChallengeRow]
        /\ pc \in [Requests -> PC] /\ job \in [Requests -> Job]
    BY NoRows DEF Init, PC
  <2>2. References
    BY AccountConstants DEF Init, References, NoAccount, NoSession, NoChallenge
  <2>3. Remembered
    BY DEF Init, Remembered
  <2> QED BY <2>1, <2>2, <2>3 DEF TypeOK
<1> QED BY <1>1, AccountTypeStep, PTL DEF Spec
\* A write that leaves a session, its user and its account alone keeps what is
\* known of the session.
LEMMA SessionKept ==
    ASSUME NEW s \in Sessions, SessionCurrent(s), sessions[s].state # "absent",
           sessions'[s].owner = sessions[s].owner, sessions'[s].source = sessions[s].source,
           sessions'[s].version = sessions[s].version,
           sessions'[s].password = sessions[s].password,
           sessions'[s].state \in {"ended", sessions[s].state},
           users[sessions[s].owner].version \in Nat, sessions[s].version \in Nat,
           users'[sessions[s].owner].version \in
             {users[sessions[s].owner].version, users[sessions[s].owner].version + 1},
           users'[sessions[s].owner].status # "absent",
           sessions'[s].state = "live" /\ IsPasswordAccount(sessions[s].source, sessions[s].owner) =>
             /\ accounts'[sessions[s].source].state = accounts[sessions[s].source].state
             /\ accounts'[sessions[s].source].owner = accounts[sessions[s].source].owner
             /\ accounts'[sessions[s].source].password = accounts[sessions[s].source].password
    PROVE  SessionCurrent(s)'
BY DEF SessionCurrent, IsPasswordAccount

\* A write that keeps an account, or gives it a later version, keeps what is
\* known of a request that has verified its password.
LEMMA VerifiedKept ==
    ASSUME TypeOK, NEW r \in Requests, VerifiedCurrent(r),
           pc'[r] = "idle" \/ (pc'[r] = pc[r] /\ job'[r] = job[r]),
           \A a \in Accounts : accounts[a].state # "absent" =>
             \/ accounts'[a].version = accounts[a].version + 1
             \/ /\ accounts'[a].version = accounts[a].version
                /\ accounts'[a].password = accounts[a].password
    PROVE  VerifiedCurrent(r)'
<1>1. CASE pc'[r] \notin {"loginVerified", "passwordVerified"}
  BY <1>1 DEF VerifiedCurrent
<1>2. CASE pc'[r] = pc[r] /\ job'[r] = job[r] /\ pc[r] \in {"loginVerified", "passwordVerified"}
  <2>1. /\ job[r].account \in Accounts /\ accounts[job[r].account].state # "absent"
        /\ job[r].accountVersion \in Nat /\ accounts[job[r].account].version \in Nat
    BY <1>2 DEF TypeOK, Remembered, Job, AccountRow
  <2> QED BY <1>2, <2>1 DEF VerifiedCurrent
<1> QED BY <1>1, <1>2

\* A step that writes no table keeps what is known of the sessions, and of the
\* requests other than its own.
LEMMA ReadKeeps ==
    ASSUME TypeOK, CredentialInv, NEW r \in Requests, NEW label \in PC, NEW j \in Job,
           Goto(r, label, j), UNCHANGED <<users, accounts, sessions, challenges>>,
           label \in {"loginVerified", "passwordVerified"} =>
             /\ j.accountVersion = accounts[j.account].version
             /\ j.password = accounts[j.account].password
    PROVE  CredentialInv'
<1>1. ASSUME NEW s \in Sessions PROVE SessionCurrent(s)'
  BY DEF CredentialInv, SessionCurrent, IsPasswordAccount
<1>2. ASSUME NEW q \in Requests PROVE VerifiedCurrent(q)'
  <2>1. CASE q = r
    <3>1. pc'[r] = label /\ job'[r] = j /\ j.accountVersion \in Nat
      BY DEF Goto, TypeOK, Job
    <3> QED BY <2>1, <3>1 DEF VerifiedCurrent
  <2>2. CASE q # r
    <3>1. pc'[q] = pc[q] /\ job'[q] = job[q]
      BY <2>2 DEF Goto, TypeOK
    <3> QED BY <3>1 DEF CredentialInv, VerifiedCurrent
  <2> QED BY <2>1, <2>2
<1> QED BY <1>1, <1>2 DEF CredentialInv

\* A transaction keeps what is known of sessions and requests when it removes
\* no row, moves versions up at most, and ends the sessions of a user whose
\* password it changes.
LEMMA WriteKeeps ==
    ASSUME TypeOK, CredentialInv, UNCHANGED <<pc, job>> \/ \E r \in Requests : Done(r),
           \A u \in Users : users[u].status # "absent" =>
             /\ users'[u].status # "absent"
             /\ users'[u].version \in {users[u].version, users[u].version + 1},
           \A a \in Accounts : accounts[a].state # "absent" =>
             /\ accounts'[a].state = accounts[a].state
             /\ accounts'[a].owner = accounts[a].owner
             /\ \/ /\ accounts'[a].version = accounts[a].version + 1
                   /\ \A s \in Sessions :
                        sessions[s].owner = accounts[a].owner => sessions'[s].state # "live"
                \/ /\ accounts'[a].version = accounts[a].version
                   /\ accounts'[a].password = accounts[a].password,
           \A s \in Sessions : sessions[s].state = "absent" =>
             sessions'[s].state = "absent" \/ SessionCurrent(s)',
           \A s \in Sessions : sessions[s].state # "absent" =>
             /\ sessions'[s].owner = sessions[s].owner
             /\ sessions'[s].source = sessions[s].source
             /\ sessions'[s].version = sessions[s].version
             /\ sessions'[s].password = sessions[s].password
             /\ sessions'[s].state \in {"ended", sessions[s].state}
    PROVE  CredentialInv'
<1>1. ASSUME NEW q \in Requests PROVE VerifiedCurrent(q)'
  <2>1. pc'[q] = "idle" \/ (pc'[q] = pc[q] /\ job'[q] = job[q])
    BY DEF Done, TypeOK
  <2>2. VerifiedCurrent(q)
    BY DEF CredentialInv
  <2> QED BY <2>1, <2>2, VerifiedKept
<1>2. ASSUME NEW s \in Sessions PROVE SessionCurrent(s)'
  <2>1. CASE sessions[s].state = "absent"
    BY <2>1 DEF SessionCurrent
  <2>2. CASE sessions[s].state # "absent"
    <3>1. /\ sessions[s].owner \in Users /\ sessions[s].source \in Accounts
          /\ users[sessions[s].owner].version \in Nat /\ sessions[s].version \in Nat
      BY <2>2, Columns DEF TypeOK, References
    <3>2. SessionCurrent(s) /\ users[sessions[s].owner].status # "absent"
      BY <2>2 DEF CredentialInv, SessionCurrent
    <3>3. sessions'[s].state = "live" /\ IsPasswordAccount(sessions[s].source, sessions[s].owner) =>
            /\ accounts'[sessions[s].source].state = accounts[sessions[s].source].state
            /\ accounts'[sessions[s].source].owner = accounts[sessions[s].source].owner
            /\ accounts'[sessions[s].source].password = accounts[sessions[s].source].password
      BY <3>1 DEF IsPasswordAccount
    <3> QED BY <2>2, <3>1, <3>2, <3>3, SessionKept
  <2> QED BY <2>1, <2>2
<1> QED BY <1>1, <1>2 DEF CredentialInv

\* A transaction that revokes the sessions of u may also change the password of
\* an account of u.
LEMMA RevokeKeeps ==
    ASSUME TypeOK, CredentialInv, UNCHANGED <<pc, job>> \/ \E r \in Requests : Done(r),
           NEW u \in Users, sessions' = Revoked(u),
           \A v \in Users : users[v].status # "absent" =>
             /\ users'[v].status # "absent"
             /\ users'[v].version \in {users[v].version, users[v].version + 1},
           \A a \in Accounts : accounts[a].state # "absent" =>
             /\ accounts'[a].state = accounts[a].state
             /\ accounts'[a].owner = accounts[a].owner
             /\ \/ accounts'[a].version = accounts[a].version + 1 /\ accounts[a].owner = u
                \/ /\ accounts'[a].version = accounts[a].version
                   /\ accounts'[a].password = accounts[a].password
    PROVE  CredentialInv'
<1>1. \A s \in Sessions : /\ sessions'[s].owner = sessions[s].owner
                          /\ sessions'[s].source = sessions[s].source
                          /\ sessions'[s].version = sessions[s].version
                          /\ sessions'[s].password = sessions[s].password
                          /\ sessions'[s].state \in {"ended", sessions[s].state}
                          /\ sessions[s].owner = u => sessions'[s].state # "live"
  BY RevokedSessions
<1>2. \A s \in Sessions : sessions[s].state = "absent" => sessions'[s].state = "absent"
  <2> TAKE s \in Sessions
  <2>1. sessions[s].state = "absent" => sessions[s].owner # u
    BY DEF TypeOK, References
  <2> QED BY <2>1, RevokedSessions
<1> QED BY <1>1, <1>2, WriteKeeps

\* Every step keeps what is known of sessions and requests.
LEMMA CredentialStep ==
    ASSUME TypeOK, TypeOK', CredentialInv, [Next]_vars PROVE CredentialInv'
<1>0. /\ users \in [Users -> UserRow] /\ accounts \in [Accounts -> AccountRow]
      /\ sessions \in [Sessions -> SessionRow] /\ challenges \in [Challenges -> ChallengeRow]
      /\ pc \in [Requests -> PC] /\ job \in [Requests -> Job]
      /\ References /\ Remembered
  BY DEF TypeOK
<1>1. CASE UNCHANGED vars
  BY <1>1 DEF vars, CredentialInv, SessionCurrent, VerifiedCurrent, IsPasswordAccount
<1>2. ASSUME NEW r \in Requests, NEW label \in PC, NEW j, Goto(r, label, j)
      PROVE  j \in Job
  <2>1. job'[r] = j
    BY <1>0, <1>2 DEF Goto
  <2>2. job' \in [Requests -> Job]
    BY DEF TypeOK
  <2> QED BY <2>1, <2>2
<1>3. ASSUME NEW r \in Requests, NEW label \in PC \ {"loginVerified", "passwordVerified"}, NEW j,
             Goto(r, label, j), UNCHANGED <<users, accounts, sessions, challenges>>
      PROVE  CredentialInv'
  BY <1>2, <1>3, ReadKeeps
<1>4. ASSUME NEW r \in Requests, NEW u \in Users, ForgotFindUser(r, u) \/ LoginFindUser(r, u)
      PROVE  CredentialInv'
  BY <1>3, <1>4 DEF ForgotFindUser, LoginFindUser, PC
<1>5. ASSUME NEW r \in Requests, NEW c \in Challenges, VerifyFind(r, c) PROVE CredentialInv'
  BY <1>3, <1>5 DEF VerifyFind, PC
<1>6. ASSUME NEW r \in Requests, NEW s \in Sessions, AuthenticateSession(r, s) PROVE CredentialInv'
  BY <1>3, <1>6 DEF AuthenticateSession, PC
<1>7. ASSUME NEW r \in Requests, PasswordReadUser(r) \/ PasswordReadSelf(r) PROVE CredentialInv'
  BY <1>3, <1>7 DEF PasswordReadUser, PasswordReadSelf, PC
<1>8. ASSUME NEW r \in Requests, LoginVerify(r) PROVE CredentialInv'
  <2>1. PICK a \in Accounts :
          Goto(r, "loginVerified",
               [job[r] EXCEPT !.account = a, !.accountVersion = accounts[a].version,
                              !.password = accounts[a].password, !.weak = accounts[a].weak])
    BY <1>8 DEF LoginVerify
  <2> DEFINE j == [job[r] EXCEPT !.account = a, !.accountVersion = accounts[a].version,
                                 !.password = accounts[a].password, !.weak = accounts[a].weak]
  <2>2. j.accountVersion = accounts[j.account].version /\ j.password = accounts[j.account].password
    BY Columns DEF Job
  <2>3. Goto(r, "loginVerified", j) /\ UNCHANGED <<users, accounts, sessions, challenges>>
    BY <1>8, <2>1 DEF LoginVerify
  <2> HIDE DEF j
  <2> QED BY <1>2, <2>2, <2>3, ReadKeeps DEF PC
<1>9. ASSUME NEW r \in Requests, PasswordVerify(r) PROVE CredentialInv'
  <2>1. PICK a \in Accounts :
          Goto(r, "passwordVerified",
               [job[r] EXCEPT !.account = a, !.accountVersion = accounts[a].version,
                              !.password = accounts[a].password])
    BY <1>9 DEF PasswordVerify
  <2> DEFINE j == [job[r] EXCEPT !.account = a, !.accountVersion = accounts[a].version,
                                 !.password = accounts[a].password]
  <2>2. j.accountVersion = accounts[j.account].version /\ j.password = accounts[j.account].password
    BY Columns DEF Job
  <2>3. Goto(r, "passwordVerified", j) /\ UNCHANGED <<users, accounts, sessions, challenges>>
    BY <1>9, <2>1 DEF PasswordVerify
  <2> HIDE DEF j
  <2> QED BY <1>2, <2>2, <2>3, ReadKeeps DEF PC
<1>10. ASSUME UNCHANGED <<pc, job>> \/ \E r \in Requests : Done(r),
              UNCHANGED <<users, accounts, sessions>>
       PROVE  CredentialInv'
  BY <1>0, <1>10, Columns, WriteKeeps
<1>11. ASSUME NEW r \in Requests, ForgotCreate(r) \/ Fail(r) PROVE CredentialInv'
  BY <1>10, <1>11 DEF ForgotCreate, Fail
<1>12. ASSUME NEW c \in Challenges, ExpireChallenge(c) PROVE CredentialInv'
  BY <1>10, <1>12 DEF ExpireChallenge
<1>13. ASSUME NEW u \in Users, NEW e \in Emails, RegisterAgain(u, e) PROVE CredentialInv'
  BY <1>10, <1>13 DEF RegisterAgain
<1>14. ASSUME NEW u \in Users, NEW e \in Emails, RegisterNew(u, e) PROVE CredentialInv'
  <2>1. \A v \in Users : users[v].status # "absent" => users'[v] = users[v]
    BY <1>0, <1>14 DEF RegisterNew
  <2> QED BY <1>0, <1>14, <2>1, Columns, WriteKeeps DEF RegisterNew
<1>15. ASSUME NEW t \in Sessions, sessions[t].state # "absent",
              sessions' = [sessions EXCEPT ![t].state = "ended"],
              UNCHANGED <<users, accounts>>,
              UNCHANGED <<pc, job>> \/ \E r \in Requests : Done(r)
       PROVE  CredentialInv'
  <2>1. \A s \in Sessions : /\ sessions'[s].owner = sessions[s].owner
                            /\ sessions'[s].source = sessions[s].source
                            /\ sessions'[s].version = sessions[s].version
                            /\ sessions'[s].password = sessions[s].password
                            /\ sessions'[s].state \in {"ended", sessions[s].state}
                            /\ sessions[s].state = "absent" => sessions'[s].state = "absent"
    BY <1>0, <1>15 DEF SessionRow
  <2> QED BY <1>0, <1>15, <2>1, Columns, WriteKeeps
<1>16. ASSUME NEW r \in Requests, NEW t \in Sessions, RevokeOne(r, t) PROVE CredentialInv'
  BY <1>15, <1>16 DEF RevokeOne
<1>17. ASSUME NEW t \in Sessions, ExpireSession(t) PROVE CredentialInv'
  BY <1>15, <1>17 DEF ExpireSession
<1>18. ASSUME NEW u \in Users, users' = Bumped(u)
       PROVE  \A v \in Users : users[v].status # "absent" =>
                /\ users'[v].status # "absent"
                /\ users'[v].version \in {users[v].version, users[v].version + 1}
  BY <1>18, BumpedUsers
<1>19. ASSUME NEW u \in Users, AdminRevoke(u) PROVE CredentialInv'
  BY <1>18, <1>19, Columns, RevokeKeeps DEF AdminRevoke, Invalidate
<1>20. ASSUME NEW r \in Requests, RevokeAll(r) PROVE CredentialInv'
  <2>1. job[r].user \in Users
    BY <1>0, <1>20 DEF RevokeAll, Remembered
  <2> QED BY <1>18, <1>20, <2>1, Columns, RevokeKeeps DEF RevokeAll, Invalidate
<1>21. ASSUME NEW u \in Users, NEW status \in {"active", "disabled"}, SetStatus(u, status)
       PROVE  CredentialInv'
  <2>1. \A v \in Users : users[v].status # "absent" =>
          /\ users'[v].status # "absent"
          /\ users'[v].version \in {users[v].version, users[v].version + 1}
    BY <1>0, <1>21 DEF SetStatus, UserRow
  <2> QED BY <1>21, <2>1, Columns, RevokeKeeps DEF SetStatus
<1>22. ASSUME NEW r \in Requests, PasswordCommit(r) PROVE CredentialInv'
  <2>1. job[r].user \in Users /\ job[r].account \in Accounts
    BY <1>0, <1>22 DEF PasswordCommit, Remembered
  <2>2. PICK p \in Passwords, weak \in BOOLEAN : accounts' = ChangedPassword(job[r].account, p, weak)
    BY <1>22 DEF PasswordCommit
  <2>3. users' = Bumped(job[r].user) /\ sessions' = Revoked(job[r].user) /\ Done(r)
    BY <1>22 DEF PasswordCommit, Invalidate
  <2>4. accounts[job[r].account].owner = job[r].user
    BY <1>22 DEF PasswordCommit, PasswordCurrent, IsPasswordAccount
  <2> QED BY <1>18, <2>1, <2>2, <2>3, <2>4, ChangedAccounts, RevokeKeeps
<1>23. ASSUME NEW r \in Requests, VerifyReset(r) PROVE CredentialInv'
  <2> DEFINE u == challenges[job[r].challenge].owner
  <2>1. u \in Users
    BY <1>0, <1>23 DEF VerifyReset, Remembered, References
  <2>2. PICK a \in Accounts, p \in Passwords, weak \in BOOLEAN :
          accounts[a].owner = u /\ accounts' = ChangedPassword(a, p, weak)
    BY <1>23 DEF VerifyReset, IsPasswordAccount
  <2>3. users' = Bumped(u) /\ sessions' = Revoked(u) /\ Done(r)
    BY <1>23 DEF VerifyReset, Invalidate
  <2> HIDE DEF u
  <2> QED BY <1>18, <2>1, <2>2, <2>3, ChangedAccounts, RevokeKeeps
<1>24. ASSUME NEW r \in Requests, VerifyRegister(r) PROVE CredentialInv'
  <2> DEFINE u == challenges[job[r].challenge].owner
  <2>1. u \in Users
    BY <1>0, <1>24 DEF VerifyRegister, Remembered, References
  <2>2. PICK a \in Accounts : /\ accounts[a].state = "absent"
                              /\ \A b \in Accounts : b # a => accounts'[b] = accounts[b]
    BY <1>0, <1>24 DEF VerifyRegister
  <2>3. users' = [users EXCEPT ![u].status = "active", ![u].verified = TRUE]
    BY <1>24 DEF VerifyRegister
  <2>4. UNCHANGED sessions /\ Done(r)
    BY <1>24 DEF VerifyRegister
  <2> HIDE DEF u
  <2>5. \A v \in Users : users[v].status # "absent" =>
          users'[v].status # "absent" /\ users'[v].version = users[v].version
    BY <1>0, <2>1, <2>3 DEF UserRow
  <2> QED BY <1>0, <2>2, <2>4, <2>5, Columns, WriteKeeps
<1>25. ASSUME NEW r \in Requests, LoginCommit(r) PROVE CredentialInv'
  <2> DEFINE j == job[r]
  <2>1. /\ j \in Job /\ j.user \in Users /\ j.account \in Accounts
        /\ UNCHANGED users /\ Done(r) /\ accounts' = UpgradePasswordHash(j)
        /\ IsPasswordAccount(j.account, j.user) /\ accounts[j.account].version = j.accountVersion
        /\ users[j.user].status = "active" /\ pc[r] = "loginVerified"
    BY <1>0, <1>25 DEF LoginCommit, LoginCurrent, Remembered
  <2>2. PICK s \in Sessions :
          /\ sessions[s].state = "absent"
          /\ sessions' = [sessions EXCEPT ![s] =
                            [state |-> "live", owner |-> j.user, source |-> j.account,
                             version |-> users[j.user].version, password |-> j.password]]
    BY <1>25 DEF LoginCommit
  <2>3. accounts[j.account].password = j.password
    BY <2>1 DEF CredentialInv, VerifiedCurrent
  <2>4. \A b \in Accounts : /\ accounts'[b].state = accounts[b].state
                            /\ accounts'[b].owner = accounts[b].owner
                            /\ accounts'[b].version = accounts[b].version
                            /\ accounts'[b].password = accounts[b].password
    BY <2>1, UpgradedAccounts
  <2> HIDE DEF j
  <2>5. SessionCurrent(s)'
    <3>1. /\ sessions'[s].owner = j.user /\ sessions'[s].source = j.account
          /\ sessions'[s].version = users[j.user].version /\ sessions'[s].password = j.password
      BY <1>0, <2>2
    <3>2. users[j.user].version \in Nat
      BY <2>1, Columns
    <3> QED BY <2>1, <2>3, <2>4, <3>1, <3>2 DEF SessionCurrent, IsPasswordAccount
  <2>6. \A t \in Sessions : t # s => sessions'[t] = sessions[t]
    BY <1>0, <2>2
  <2> QED BY <1>0, <2>1, <2>2, <2>4, <2>5, <2>6, Columns, WriteKeeps
<1> QED
  BY <1>1, <1>4, <1>5, <1>6, <1>7, <1>8, <1>9, <1>11, <1>12, <1>13, <1>14, <1>16, <1>17, <1>19,
     <1>20, <1>21, <1>22, <1>23, <1>24, <1>25
  DEF Next, RequestStep

\* A session is no newer than its user, a session of the user's present version
\* was opened with the password of its account, and what a login or a change of
\* password has verified holds while the account keeps its version.
THEOREM CredentialsAreCurrent == Spec => []CredentialInv
<1>1. Init => CredentialInv
  BY DEF Init, CredentialInv, SessionCurrent, VerifiedCurrent, NoSession
<1>2. TypeOK /\ TypeOK' /\ CredentialInv /\ [Next]_vars => CredentialInv'
  BY CredentialStep
<1> QED BY <1>1, <1>2, AccountTypes, PTL DEF Spec

\* A session that GetValidSession accepts was opened with the password its user
\* has now, through an account that is still enabled.
THEOREM SessionsHoldTheirPassword == Spec => []SessionsMatchPassword
<1>1. TypeOK /\ CredentialInv => SessionsMatchPassword
  <2> SUFFICES ASSUME TypeOK, CredentialInv, NEW s \in Sessions, ValidSession(s)
               PROVE  \E a \in Accounts : /\ sessions[s].source = a
                                          /\ IsPasswordAccount(a, sessions[s].owner)
                                          /\ accounts[a].password = sessions[s].password
    BY DEF SessionsMatchPassword
  <2>1. sessions[s].source \in Accounts
    BY DEF ValidSession, TypeOK, References
  <2>2. SessionCurrent(s)
    BY DEF CredentialInv
  <2> QED BY <2>1, <2>2 DEF SessionCurrent, ValidSession
<1> QED BY <1>1, AccountTypes, CredentialsAreCurrent, PTL

\* A step that replaces the password of an enabled account was authorised.
LEMMA PasswordStep ==
    ASSUME TypeOK, CredentialInv, [Next]_vars, NEW a \in Accounts, accounts[a].state = "enabled",
           accounts'[a].password # accounts[a].password
    PROVE  MayChangePassword(a)
<1>1. accounts' # accounts
  OBVIOUS
<1>2. ASSUME NEW r \in Requests, PasswordCommit(r) PROVE MayChangePassword(a)
  <2>1. job[r].account \in Accounts /\ pc[r] = "passwordVerified" /\ ValidSession(job[r].session)
    BY <1>2 DEF PasswordCommit, PasswordCurrent, TypeOK, Remembered
  <2>2. PICK p \in Passwords, weak \in BOOLEAN : accounts' = ChangedPassword(job[r].account, p, weak)
    BY <1>2 DEF PasswordCommit
  <2>3. a = job[r].account
    BY <2>1, <2>2, ChangedAccounts
  <2>4. accounts[a].owner = job[r].user /\ accounts[a].version = job[r].accountVersion
    BY <1>2, <2>3 DEF PasswordCommit, PasswordCurrent, IsPasswordAccount
  <2>5. accounts[a].password = job[r].password
    BY <2>1, <2>3, <2>4 DEF CredentialInv, VerifiedCurrent
  <2> QED BY <2>1, <2>4, <2>5 DEF MayChangePassword
<1>3. ASSUME NEW r \in Requests, VerifyReset(r) PROVE MayChangePassword(a)
  <2> DEFINE c == job[r].challenge
  <2>1. PICK b \in Accounts, p \in Passwords, weak \in BOOLEAN :
          accounts[b].owner = challenges[c].owner /\ accounts' = ChangedPassword(b, p, weak)
    BY <1>3 DEF VerifyReset, IsPasswordAccount
  <2>2. a = b
    BY <2>1, ChangedAccounts
  <2>3. /\ pc[r] = "verifyFound" /\ challenges[c].purpose = "reset_password"
        /\ ChallengeCurrent(c) /\ ChallengeAllowed(c) /\ OpenChallenge(c)
    BY <1>3 DEF VerifyReset, Consume
  <2> QED BY <2>1, <2>2, <2>3
          DEF MayChangePassword, ChallengeCurrent, ChallengeAllowed, OpenChallenge
<1>4. ASSUME NEW r \in Requests, VerifyRegister(r) PROVE FALSE
  BY <1>4 DEF VerifyRegister, TypeOK
<1>5. ASSUME NEW r \in Requests, LoginCommit(r) PROVE FALSE
  <2>1. job[r] \in Job /\ job[r].account \in Accounts /\ accounts' = UpgradePasswordHash(job[r])
    BY <1>5 DEF LoginCommit, TypeOK, Remembered
  <2> QED BY <2>1, UpgradedAccounts
<1>6. ASSUME NEW r \in Requests, RequestStep(r) PROVE MayChangePassword(a)
  BY <1>1, <1>2, <1>3, <1>4, <1>5, <1>6
  DEF RequestStep, ForgotFindUser, LoginFindUser, VerifyFind, AuthenticateSession, RevokeOne,
      ForgotCreate, LoginVerify, PasswordReadUser, PasswordReadSelf, PasswordVerify, RevokeAll, Fail
<1> QED
  BY <1>1, <1>6
  DEF Next, vars, RegisterNew, RegisterAgain, AdminRevoke, SetStatus, ExpireSession, ExpireChallenge

\* A stored password is replaced only by a request that presented that very
\* password on a session still valid, or that holds a current reset challenge.
THEOREM PasswordsChangeByRight == Spec => PasswordChangeAuthorised
<1>1. TypeOK /\ CredentialInv /\ [Next]_vars =>
        [\A a \in Accounts :
           accounts[a].state = "enabled" /\ accounts'[a].password # accounts[a].password =>
             MayChangePassword(a)]_vars
  BY PasswordStep
<1> QED BY <1>1, AccountTypes, CredentialsAreCurrent, PTL DEF Spec, PasswordChangeAuthorised

\* OneCredential survives a step that moves no user in or out of registration
\* and no account to another state or owner.
LEMMA CredentialKept ==
    ASSUME OneCredential,
           \A u \in Users : users'[u].status \in {"active", "disabled"} <=>
                            users[u].status \in {"active", "disabled"},
           \A a \in Accounts : /\ accounts'[a].owner = accounts[a].owner
                               /\ accounts'[a].state = accounts[a].state
    PROVE  OneCredential'
<1>1. \A a \in Accounts, u \in Users : IsPasswordAccount(a, u)' <=> IsPasswordAccount(a, u)
  BY DEF IsPasswordAccount
<1> QED BY <1>1 DEF OneCredential

\* Every step keeps one credential account per user past registration.
LEMMA OneCredentialStep ==
    ASSUME TypeOK, OneCredential, [Next]_vars PROVE OneCredential'
<1>0. users \in [Users -> UserRow] /\ accounts \in [Accounts -> AccountRow] /\ References /\ Remembered
  BY DEF TypeOK
<1>1. ASSUME UNCHANGED <<users, accounts>> PROVE OneCredential'
  BY <1>1, CredentialKept
<1>2. ASSUME NEW u \in Users, users' = Bumped(u)
      PROVE  \A v \in Users : users'[v].status = users[v].status
  BY <1>2, BumpedUsers
<1>3. ASSUME NEW u \in Users, NEW e \in Emails, RegisterNew(u, e) PROVE OneCredential'
  <2>1. users'[u].status = "pending" /\ \A v \in Users : v # u => users'[v] = users[v]
    BY <1>0, <1>3 DEF RegisterNew
  <2> QED BY <1>3, <2>1, CredentialKept DEF RegisterNew
<1>4. ASSUME NEW u \in Users, AdminRevoke(u) PROVE OneCredential'
  BY <1>2, <1>4, CredentialKept DEF AdminRevoke, Invalidate
<1>5. ASSUME NEW u \in Users, NEW status \in {"active", "disabled"}, SetStatus(u, status)
      PROVE  OneCredential'
  <2>1. \A v \in Users : users'[v].status \in {"active", "disabled"} <=>
                         users[v].status \in {"active", "disabled"}
    BY <1>0, <1>5 DEF SetStatus, UserRow
  <2> QED BY <1>5, <2>1, CredentialKept DEF SetStatus
<1>6. ASSUME NEW r \in Requests, RevokeAll(r) PROVE OneCredential'
  <2>1. job[r].user \in Users
    BY <1>0, <1>6 DEF RevokeAll, Remembered
  <2> QED BY <1>2, <1>6, <2>1, CredentialKept DEF RevokeAll, Invalidate
<1>7. ASSUME NEW r \in Requests, PasswordCommit(r) PROVE OneCredential'
  <2>1. job[r].user \in Users /\ job[r].account \in Accounts
    BY <1>0, <1>7 DEF PasswordCommit, Remembered
  <2>2. PICK p \in Passwords, weak \in BOOLEAN : accounts' = ChangedPassword(job[r].account, p, weak)
    BY <1>7 DEF PasswordCommit
  <2>3. users' = Bumped(job[r].user)
    BY <1>7 DEF PasswordCommit, Invalidate
  <2> QED BY <1>2, <2>1, <2>2, <2>3, ChangedAccounts, CredentialKept
<1>8. ASSUME NEW r \in Requests, VerifyReset(r) PROVE OneCredential'
  <2> DEFINE u == challenges[job[r].challenge].owner
  <2>1. u \in Users
    BY <1>0, <1>8 DEF VerifyReset, Remembered, References
  <2>2. PICK a \in Accounts, p \in Passwords, weak \in BOOLEAN : accounts' = ChangedPassword(a, p, weak)
    BY <1>8 DEF VerifyReset
  <2>3. users' = Bumped(u)
    BY <1>8 DEF VerifyReset, Invalidate
  <2> HIDE DEF u
  <2> QED BY <1>2, <2>1, <2>2, <2>3, ChangedAccounts, CredentialKept
<1>9. ASSUME NEW r \in Requests, LoginCommit(r) PROVE OneCredential'
  <2>1. /\ job[r] \in Job /\ job[r].account \in Accounts
        /\ accounts' = UpgradePasswordHash(job[r]) /\ UNCHANGED users
    BY <1>9 DEF LoginCommit, TypeOK, Remembered
  <2> QED BY <2>1, UpgradedAccounts, CredentialKept
<1>10. ASSUME NEW r \in Requests, VerifyRegister(r) PROVE OneCredential'
  <2> DEFINE u == challenges[job[r].challenge].owner
  <2>1. u \in Users
    BY <1>0, <1>10 DEF VerifyRegister, Remembered, References
  <2>2. PICK a \in Accounts, p \in Passwords, weak \in BOOLEAN :
          /\ accounts[a].state = "absent"
          /\ accounts' = [accounts EXCEPT ![a] = [state |-> "enabled", owner |-> u, version |-> 1,
                                                  password |-> p, weak |-> weak]]
    BY <1>10 DEF VerifyRegister
  <2>3. users' = [users EXCEPT ![u].status = "active", ![u].verified = TRUE]
    BY <1>10 DEF VerifyRegister
  <2>4. \A b \in Accounts : ~IsPasswordAccount(b, u)
    BY <1>10 DEF VerifyRegister
  <2> HIDE DEF u
  <2>5. users'[u].status = "active" /\ \A v \in Users : v # u => users'[v] = users[v]
    BY <1>0, <2>1, <2>3 DEF UserRow
  <2>6. \A b \in Accounts, v \in Users :
          IsPasswordAccount(b, v)' <=> IsPasswordAccount(b, v) \/ (b = a /\ v = u)
    BY <1>0, <2>1, <2>2 DEF IsPasswordAccount
  <2> QED BY <2>1, <2>4, <2>5, <2>6 DEF OneCredential
<1>11. ASSUME NEW r \in Requests, RequestStep(r) PROVE OneCredential'
  BY <1>1, <1>6, <1>7, <1>8, <1>9, <1>10, <1>11
  DEF RequestStep, ForgotFindUser, LoginFindUser, VerifyFind, AuthenticateSession, RevokeOne,
      ForgotCreate, LoginVerify, PasswordReadUser, PasswordReadSelf, PasswordVerify, Fail
<1> QED
  BY <1>1, <1>3, <1>4, <1>5, <1>11
  DEF Next, vars, RegisterAgain, ExpireSession, ExpireChallenge

\* A user past registration has exactly one credential account, and a pending
\* one none, however many registration challenges are verified at once.
THEOREM UsersHaveOneCredential == Spec => []OneCredential
<1>1. Init => OneCredential
  <2> SUFFICES ASSUME Init PROVE OneCredential
    OBVIOUS
  <2>1. \A u \in Users : users[u].status = "absent"
    BY DEF Init, NoUser
  <2>2. \A a \in Accounts, u \in Users : ~IsPasswordAccount(a, u)
    BY DEF Init, NoAccount, IsPasswordAccount
  <2> QED BY <2>1, <2>2 DEF OneCredential
<1>2. TypeOK /\ OneCredential /\ [Next]_vars => OneCredential'
  BY OneCredentialStep
<1> QED BY <1>1, <1>2, AccountTypes, PTL DEF Spec

\* A user who is known keeps the address.  A step that changes the row either
\* bumps the version or completes the registration.
LEMMA UserMoves ==
    ASSUME TypeOK, [Next]_vars, NEW u \in Users, users[u].status # "absent"
    PROVE  \/ users'[u] = users[u]
           \/ /\ users'[u].version = users[u].version + 1
              /\ users'[u].email = users[u].email
              /\ \/ users'[u].status = users[u].status
                 \/ {users[u].status, users'[u].status} \subseteq {"active", "disabled"}
           \/ /\ users'[u].version = users[u].version
              /\ users'[u].email = users[u].email
              /\ users[u].status = "pending" /\ users'[u].status = "active"
<1> DEFINE Moved ==
      \/ users'[u] = users[u]
      \/ /\ users'[u].version = users[u].version + 1
         /\ users'[u].email = users[u].email
         /\ \/ users'[u].status = users[u].status
            \/ {users[u].status, users'[u].status} \subseteq {"active", "disabled"}
      \/ /\ users'[u].version = users[u].version
         /\ users'[u].email = users[u].email
         /\ users[u].status = "pending" /\ users'[u].status = "active"
<1>0. users \in [Users -> UserRow] /\ References /\ Remembered
  BY DEF TypeOK
<1>1. ASSUME UNCHANGED users PROVE Moved
  BY <1>1
<1>2. ASSUME NEW v \in Users, users' = Bumped(v) PROVE Moved
  BY <1>2, BumpedUsers
<1>3. ASSUME NEW v \in Users, NEW e \in Emails, RegisterNew(v, e) PROVE Moved
  BY <1>0, <1>3 DEF RegisterNew
<1>4. ASSUME NEW v \in Users, AdminRevoke(v) PROVE Moved
  BY <1>2, <1>4 DEF AdminRevoke, Invalidate
<1>5. ASSUME NEW v \in Users, NEW status \in {"active", "disabled"}, SetStatus(v, status)
      PROVE  Moved
  BY <1>0, <1>5 DEF SetStatus, UserRow
<1>6. ASSUME NEW r \in Requests, RevokeAll(r) \/ PasswordCommit(r) PROVE Moved
  <2>1. job[r].user \in Users
    BY <1>0, <1>6 DEF RevokeAll, PasswordCommit, Remembered
  <2>2. users' = Bumped(job[r].user)
    BY <1>6 DEF RevokeAll, PasswordCommit, Invalidate
  <2> QED BY <1>2, <2>1, <2>2
<1>7. ASSUME NEW r \in Requests, VerifyReset(r) PROVE Moved
  <2>1. challenges[job[r].challenge].owner \in Users
    BY <1>0, <1>7 DEF VerifyReset, Remembered, References
  <2>2. users' = Bumped(challenges[job[r].challenge].owner)
    BY <1>7 DEF VerifyReset, Invalidate
  <2> QED BY <1>2, <2>1, <2>2
<1>8. ASSUME NEW r \in Requests, VerifyRegister(r) PROVE Moved
  <2> DEFINE v == challenges[job[r].challenge].owner
  <2>1. v \in Users
    BY <1>0, <1>8 DEF VerifyRegister, Remembered, References
  <2>2. users[v].status = "pending"
    BY <1>8 DEF VerifyRegister, ChallengeAllowed
  <2>3. users' = [users EXCEPT ![v].status = "active", ![v].verified = TRUE]
    BY <1>8 DEF VerifyRegister
  <2> HIDE DEF v
  <2>4. /\ users'[v].version = users[v].version /\ users'[v].email = users[v].email
        /\ users'[v].status = "active" /\ \A w \in Users : w # v => users'[w] = users[w]
    BY <1>0, <2>1, <2>3 DEF UserRow
  <2> QED BY <2>1, <2>2, <2>4
<1> HIDE DEF Moved
<1>9. ASSUME NEW r \in Requests, RequestStep(r) PROVE Moved
  BY <1>1, <1>6, <1>7, <1>8, <1>9
  DEF RequestStep, ForgotFindUser, LoginFindUser, VerifyFind, AuthenticateSession, RevokeOne,
      ForgotCreate, LoginVerify, LoginCommit, PasswordReadUser, PasswordReadSelf, PasswordVerify, Fail
<1>10. Moved
  BY <1>1, <1>3, <1>4, <1>5, <1>9
  DEF Next, vars, RegisterAgain, ExpireSession, ExpireChallenge
<1> QED BY <1>10 DEF Moved

\* CreateVerification adds one row and leaves the others alone.
LEMMA CreatedChallenge ==
    ASSUME TypeOK, NEW u, NEW purpose, NEW e, NEW n, CreateChallenge(u, purpose, e, n),
           NEW c \in Challenges
    PROVE  \/ challenges'[c] = challenges[c]
           \/ /\ challenges[c].state = "absent"
              /\ challenges'[c].owner = u /\ challenges'[c].purpose = purpose
              /\ challenges'[c].version = n
BY DEF TypeOK, CreateChallenge

\* A challenge is only ever closed: whom and what it is for stays as inserted.
LEMMA ChallengeMoves ==
    ASSUME TypeOK, [Next]_vars, NEW c \in Challenges, challenges[c].state # "absent"
    PROVE  /\ challenges'[c].owner = challenges[c].owner
           /\ challenges'[c].purpose = challenges[c].purpose
           /\ challenges'[c].email = challenges[c].email
           /\ challenges'[c].version = challenges[c].version
           /\ challenges'[c].state \in {challenges[c].state, "spent"}
<1> DEFINE Kept ==
      /\ challenges'[c].owner = challenges[c].owner
      /\ challenges'[c].purpose = challenges[c].purpose
      /\ challenges'[c].email = challenges[c].email
      /\ challenges'[c].version = challenges[c].version
      /\ challenges'[c].state \in {challenges[c].state, "spent"}
<1>1. ASSUME challenges'[c] = challenges[c] PROVE Kept
  BY <1>1
<1>2. ASSUME NEW d \in Challenges, challenges' = [challenges EXCEPT ![d].state = "spent"] PROVE Kept
  BY <1>2 DEF TypeOK, ChallengeRow
<1> HIDE DEF Kept
<1>3. ASSUME NEW u, NEW purpose, NEW e, NEW n, CreateChallenge(u, purpose, e, n) PROVE Kept
  BY <1>1, <1>3, CreatedChallenge
<1>4. ASSUME NEW r \in Requests, VerifyRegister(r) \/ VerifyReset(r) PROVE Kept
  <2>1. job[r].challenge \in Challenges
    BY <1>4 DEF TypeOK, Remembered, VerifyRegister, VerifyReset
  <2> QED BY <1>2, <1>4, <2>1 DEF VerifyRegister, VerifyReset, Consume
<1>5. ASSUME NEW r \in Requests, RequestStep(r) PROVE Kept
  BY <1>1, <1>3, <1>4, <1>5
  DEF RequestStep, ForgotFindUser, LoginFindUser, VerifyFind, AuthenticateSession, RevokeOne,
      ForgotCreate, LoginVerify, LoginCommit, PasswordReadUser, PasswordReadSelf, PasswordVerify,
      PasswordCommit, RevokeAll, Fail
<1>6. Kept
  BY <1>1, <1>2, <1>3, <1>5
  DEF Next, vars, RegisterNew, RegisterAgain, AdminRevoke, SetStatus, ExpireSession, ExpireChallenge
<1> QED BY <1>6 DEF Kept

\* A new challenge is of a pending user's version, or of what ForgotPassword read.
LEMMA ChallengeBorn ==
    ASSUME TypeOK, [Next]_vars, NEW c \in Challenges,
           challenges[c].state = "absent", challenges'[c].state # "absent"
    PROVE  \/ \E u \in Users : /\ challenges'[c].owner = u
                               /\ challenges'[c].purpose = "register"
                               /\ users'[u].status = "pending"
                               /\ challenges'[c].version = users'[u].version
           \/ \E r \in Requests : /\ pc[r] = "forgotFound"
                                  /\ challenges'[c].owner = job[r].user
                                  /\ challenges'[c].version = job[r].version
<1> DEFINE Born ==
      \/ \E u \in Users : /\ challenges'[c].owner = u
                          /\ challenges'[c].purpose = "register"
                          /\ users'[u].status = "pending"
                          /\ challenges'[c].version = users'[u].version
      \/ \E r \in Requests : /\ pc[r] = "forgotFound"
                             /\ challenges'[c].owner = job[r].user
                             /\ challenges'[c].version = job[r].version
<1>1. challenges' # challenges
  OBVIOUS
<1>2. ASSUME NEW d \in Challenges, OpenChallenge(d),
             challenges' = [challenges EXCEPT ![d].state = "spent"]
      PROVE  FALSE
  BY <1>2 DEF TypeOK, OpenChallenge
<1>3. ASSUME NEW u \in Users, NEW e \in Emails, RegisterNew(u, e) PROVE Born
  <2>1. users'[u].status = "pending" /\ users'[u].version = 1
    BY <1>3 DEF TypeOK, RegisterNew
  <2> QED BY <1>3, <2>1, CreatedChallenge DEF RegisterNew
<1>4. ASSUME NEW u \in Users, NEW e \in Emails, RegisterAgain(u, e) PROVE Born
  BY <1>4, CreatedChallenge DEF RegisterAgain
<1>5. ASSUME NEW r \in Requests, ForgotCreate(r) PROVE Born
  BY <1>5, CreatedChallenge DEF ForgotCreate
<1>6. ASSUME NEW r \in Requests, VerifyRegister(r) \/ VerifyReset(r) PROVE FALSE
  <2>1. job[r].challenge \in Challenges
    BY <1>6 DEF TypeOK, Remembered, VerifyRegister, VerifyReset
  <2> QED BY <1>2, <1>6, <2>1 DEF VerifyRegister, VerifyReset, Consume
<1> HIDE DEF Born
<1>7. ASSUME NEW r \in Requests, RequestStep(r) PROVE Born
  BY <1>1, <1>5, <1>6, <1>7
  DEF RequestStep, ForgotFindUser, LoginFindUser, VerifyFind, AuthenticateSession, RevokeOne,
      LoginVerify, LoginCommit, PasswordReadUser, PasswordReadSelf, PasswordVerify,
      PasswordCommit, RevokeAll, Fail
<1>8. Born
  BY <1>1, <1>2, <1>3, <1>4, <1>7
  DEF Next, vars, AdminRevoke, SetStatus, ExpireSession, ExpireChallenge
<1> QED BY <1>8 DEF Born

\* A request moves by its own steps only, and every one of them sets its label.
LEMMA RequestMoves ==
    ASSUME TypeOK, [Next]_vars, NEW q \in Requests
    PROVE  (pc'[q] = pc[q] /\ job'[q] = job[q]) \/ RequestStep(q)
<1>1. ASSUME NEW r \in Requests, RequestStep(r), r # q PROVE pc'[q] = pc[q] /\ job'[q] = job[q]
  <2>1. ASSUME NEW label, NEW j, Goto(r, label, j) PROVE pc'[q] = pc[q] /\ job'[q] = job[q]
    BY <1>1, <2>1 DEF TypeOK, Goto
  <2>2. ASSUME Done(r) PROVE pc'[q] = pc[q] /\ job'[q] = job[q]
    BY <1>1, <2>2 DEF TypeOK, Done
  <2> QED
    BY <1>1, <2>1, <2>2
    DEF RequestStep, ForgotFindUser, LoginFindUser, VerifyFind, AuthenticateSession, RevokeOne,
        ForgotCreate, VerifyRegister, VerifyReset, LoginVerify, LoginCommit, PasswordReadUser,
        PasswordReadSelf, PasswordVerify, PasswordCommit, RevokeAll, Fail
<1> QED
  BY <1>1
  DEF Next, vars, RegisterNew, RegisterAgain, AdminRevoke, SetStatus, ExpireSession, ExpireChallenge

\* A request of ForgotPassword remembers what it read of an active user.
LEMMA ForgotReads ==
    ASSUME TypeOK, [Next]_vars, NEW r \in Requests, pc'[r] = "forgotFound"
    PROVE  \/ pc[r] = "forgotFound" /\ job'[r] = job[r]
           \/ \E u \in Users : /\ users[u].status = "active" /\ users' = users
                               /\ job'[r].user = u /\ job'[r].version = users[u].version
<1>1. CASE pc'[r] = pc[r] /\ job'[r] = job[r]
  BY <1>1
<1>2. CASE RequestStep(r)
  <2>1. ASSUME NEW u \in Users, ForgotFindUser(r, u)
        PROVE  /\ users[u].status = "active" /\ users' = users
               /\ job'[r].user = u /\ job'[r].version = users[u].version
    <3>1. job'[r] = [NoJob EXCEPT !.user = u, !.version = users[u].version,
                                  !.email = users[u].email]
      BY <2>1 DEF TypeOK, ForgotFindUser, Goto
    <3> QED BY <2>1, <3>1 DEF ForgotFindUser, NoJob
  <2>2. ASSUME NEW label, NEW j, Goto(r, label, j) PROVE label = "forgotFound"
    BY <2>2 DEF TypeOK, Goto
  <2>3. ASSUME Done(r) PROVE FALSE
    BY <2>3 DEF TypeOK, Done
  <2> QED
    BY <1>2, <2>1, <2>2, <2>3
    DEF RequestStep, LoginFindUser, VerifyFind, AuthenticateSession, RevokeOne,
        ForgotCreate, VerifyRegister, VerifyReset, LoginVerify, LoginCommit, PasswordReadUser,
        PasswordReadSelf, PasswordVerify, PasswordCommit, RevokeAll, Fail
<1> QED BY <1>1, <1>2, RequestMoves

\* Every step keeps what is known of challenges.
LEMMA ChallengeStep ==
    ASSUME TypeOK, ChallengeInv, [Next]_vars PROVE ChallengeInv'
<1>1. ASSUME NEW u \in Users, NEW n \in Nat, users[u].status # "absent", n <= users[u].version
      PROVE  /\ users'[u].status # "absent" /\ n <= users'[u].version
             /\ users[u].status \in {"active", "disabled"} =>
                  users'[u].status \in {"active", "disabled"}
  <2>1. users[u].version \in Nat
    BY Columns
  <2> QED BY <1>1, <2>1, UserMoves
<1>2. ASSUME NEW r \in Requests, pc[r] = "forgotFound"
      PROVE  /\ job[r].user \in Users /\ job[r].version \in Nat
             /\ users[job[r].user].status \in {"active", "disabled"}
             /\ job[r].version <= users[job[r].user].version
  BY <1>2, Columns DEF ChallengeInv, TypeOK, Remembered
<1>3. ASSUME NEW c \in Challenges, challenges'[c].state # "absent"
      PROVE  /\ users'[challenges'[c].owner].status # "absent"
             /\ challenges'[c].version <= users'[challenges'[c].owner].version
             /\ challenges'[c].purpose = "reset_password" =>
                  users'[challenges'[c].owner].status \in {"active", "disabled"}
  <2>1. CASE challenges[c].state # "absent"
    <3>1. challenges[c].owner \in Users /\ challenges[c].version \in Nat
      BY <2>1, Columns DEF TypeOK, References
    <3>2. /\ users[challenges[c].owner].status # "absent"
          /\ challenges[c].version <= users[challenges[c].owner].version
          /\ challenges[c].purpose = "reset_password" =>
               users[challenges[c].owner].status \in {"active", "disabled"}
      BY <2>1 DEF ChallengeInv
    <3> QED BY <1>1, <2>1, <3>1, <3>2, ChallengeMoves
  <2>2. CASE challenges[c].state = "absent"
    <3>1. CASE \E r \in Requests : /\ pc[r] = "forgotFound"
                                   /\ challenges'[c].owner = job[r].user
                                   /\ challenges'[c].version = job[r].version
      BY <1>1, <1>2, <3>1
    <3>2. CASE \E u \in Users : /\ challenges'[c].owner = u
                                /\ challenges'[c].purpose = "register"
                                /\ users'[u].status = "pending"
                                /\ challenges'[c].version = users'[u].version
      <4>1. \A u \in Users : users'[u].version \in Nat
        BY AccountTypeStep DEF TypeOK, UserRow
      <4> QED BY <3>2, <4>1
    <3> QED BY <1>3, <2>2, <3>1, <3>2, ChallengeBorn
  <2> QED BY <2>1, <2>2
<1>4. ASSUME NEW r \in Requests, pc'[r] = "forgotFound"
      PROVE  /\ users'[job'[r].user].status \in {"active", "disabled"}
             /\ job'[r].version <= users'[job'[r].user].version
  <2>1. CASE pc[r] = "forgotFound" /\ job'[r] = job[r]
    BY <1>1, <1>2, <2>1
  <2>2. CASE \E u \in Users : /\ users[u].status = "active" /\ users' = users
                              /\ job'[r].user = u /\ job'[r].version = users[u].version
    BY <2>2, Columns
  <2> QED BY <1>4, <2>1, <2>2, ForgotReads
<1> QED BY <1>3, <1>4 DEF ChallengeInv

\* No challenge has a version its user has not reached, and one that sets a new
\* password is of a user past registration, however late it was inserted.
THEOREM ChallengesAreBounded == Spec => []ChallengeInv
<1>1. Init => ChallengeInv
  BY DEF Init, ChallengeInv, NoChallenge
<1>2. TypeOK /\ ChallengeInv /\ [Next]_vars => ChallengeInv'
  BY ChallengeStep
<1> QED BY <1>1, <1>2, AccountTypes, PTL DEF Spec

\* A challenge that would be refused stays refused.
LEMMA RefusedStep ==
    ASSUME TypeOK, ChallengeInv, [Next]_vars, NEW c \in Challenges,
           challenges[c].state # "absent", UsableChallenge(c)'
    PROVE  UsableChallenge(c)
<1> DEFINE u == challenges[c].owner
<1>1. /\ u \in Users /\ users[u].status # "absent"
      /\ challenges[c].version \in Nat /\ users[u].version \in Nat
      /\ challenges[c].version <= users[u].version
      /\ challenges[c].purpose = "reset_password" => users[u].status \in {"active", "disabled"}
  BY Columns DEF TypeOK, References, ChallengeInv
<1>2. /\ challenges'[c].owner = u /\ challenges'[c].purpose = challenges[c].purpose
      /\ challenges'[c].email = challenges[c].email
      /\ challenges'[c].version = challenges[c].version
      /\ challenges'[c].state \in {challenges[c].state, "spent"}
  BY ChallengeMoves
<1>3. /\ challenges[c].state = "open" /\ users'[u].version = challenges[c].version
      /\ challenges[c].purpose = "register" => users'[u].status = "pending"
  BY <1>2 DEF UsableChallenge, OpenChallenge, ChallengeCurrent, ChallengeAllowed
<1>4. challenges[c].purpose \in {"register", "reset_password"}
  BY <1>2 DEF UsableChallenge, ChallengeAllowed
<1> HIDE DEF u
<1>5. users'[u] = users[u]
  BY <1>1, <1>3, <1>4, UserMoves
<1> QED
  BY <1>2, <1>3, <1>5
  DEF UsableChallenge, OpenChallenge, ChallengeCurrent, ChallengeAllowed, u

\* A mail whose link would be refused now is refused for ever.
THEOREM RefusedChallengesStayRefused == Spec => ChallengesNeverRevive
<1>1. TypeOK /\ ChallengeInv /\ [Next]_vars =>
        [\A c \in Challenges :
           challenges[c].state # "absent" /\ ~UsableChallenge(c) => ~UsableChallenge(c)']_vars
  BY RefusedStep
<1> QED BY <1>1, AccountTypes, ChallengesAreBounded, PTL DEF Spec, ChallengesNeverRevive

\* The steps that change a password or a standing revoke the user's sessions
\* and bump the version.
LEMMA ChangeInvalidates ==
    ASSUME TypeOK, [Next]_vars, NEW u \in Users,
           \/ \E a \in Accounts : /\ IsPasswordAccount(a, u)
                                  /\ accounts'[a].version # accounts[a].version
           \/ users[u].status \in {"active", "disabled"} /\ users'[u].status # users[u].status
    PROVE  sessions' = Revoked(u) /\ users'[u].version = users[u].version + 1
<1> DEFINE Cut == sessions' = Revoked(u) /\ users'[u].version = users[u].version + 1
<1>0. /\ users \in [Users -> UserRow] /\ accounts \in [Accounts -> AccountRow]
      /\ References /\ Remembered
  BY DEF TypeOK
<1>1. ASSUME UNCHANGED <<users, accounts>> PROVE FALSE
  BY <1>1
<1>2. ASSUME NEW v \in Users, Invalidate(v), UNCHANGED accounts PROVE FALSE
  BY <1>2, BumpedUsers DEF Invalidate
<1>3. ASSUME NEW v \in Users, Invalidate(v), NEW a \in Accounts, IsPasswordAccount(a, v),
             NEW p \in Passwords, NEW weak \in BOOLEAN, accounts' = ChangedPassword(a, p, weak)
      PROVE  Cut
  <2>1. u = v
    BY <1>3, BumpedUsers, ChangedAccounts DEF Invalidate, IsPasswordAccount
  <2> QED BY <1>3, <2>1, BumpedUsers DEF Invalidate
<1>4. ASSUME NEW v \in Users, NEW e \in Emails, RegisterNew(v, e) PROVE FALSE
  BY <1>0, <1>4 DEF RegisterNew
<1>5. ASSUME NEW v \in Users, NEW status \in {"active", "disabled"}, SetStatus(v, status)
      PROVE  Cut
  <2>1. u = v
    BY <1>0, <1>5 DEF SetStatus
  <2> QED BY <1>0, <1>5, <2>1 DEF SetStatus, UserRow
<1>6. ASSUME NEW v \in Users, AdminRevoke(v) PROVE FALSE
  BY <1>2, <1>6 DEF AdminRevoke
<1>7. ASSUME NEW r \in Requests, RevokeAll(r) PROVE FALSE
  <2>1. job[r].user \in Users
    BY <1>0, <1>7 DEF RevokeAll, Remembered
  <2> QED BY <1>2, <1>7, <2>1 DEF RevokeAll
<1>8. ASSUME NEW r \in Requests, PasswordCommit(r) PROVE Cut
  <2>1. /\ job[r].user \in Users /\ job[r].account \in Accounts
        /\ IsPasswordAccount(job[r].account, job[r].user) /\ Invalidate(job[r].user)
    BY <1>0, <1>8 DEF PasswordCommit, PasswordCurrent, Remembered
  <2>2. PICK p \in Passwords, weak \in BOOLEAN : accounts' = ChangedPassword(job[r].account, p, weak)
    BY <1>8 DEF PasswordCommit
  <2> QED BY <1>3, <2>1, <2>2
<1>9. ASSUME NEW r \in Requests, VerifyReset(r) PROVE Cut
  <2> DEFINE v == challenges[job[r].challenge].owner
  <2>1. v \in Users /\ Invalidate(v)
    BY <1>0, <1>9 DEF VerifyReset, Remembered, References
  <2>2. PICK a \in Accounts, p \in Passwords, weak \in BOOLEAN :
          IsPasswordAccount(a, v) /\ accounts' = ChangedPassword(a, p, weak)
    BY <1>9 DEF VerifyReset
  <2> HIDE DEF v
  <2> QED BY <1>3, <2>1, <2>2
<1>10. ASSUME NEW r \in Requests, LoginCommit(r) PROVE FALSE
  <2>1. /\ job[r] \in Job /\ job[r].account \in Accounts
        /\ accounts' = UpgradePasswordHash(job[r]) /\ UNCHANGED users
    BY <1>10 DEF LoginCommit, TypeOK, Remembered
  <2> QED BY <2>1, UpgradedAccounts
<1>11. ASSUME NEW r \in Requests, VerifyRegister(r) PROVE FALSE
  <2> DEFINE v == challenges[job[r].challenge].owner
  <2>1. v \in Users /\ users[v].status = "pending"
    BY <1>0, <1>11 DEF VerifyRegister, ChallengeAllowed, Remembered, References
  <2>2. users' = [users EXCEPT ![v].status = "active", ![v].verified = TRUE]
    BY <1>11 DEF VerifyRegister
  <2>3. PICK a \in Accounts, p \in Passwords, weak \in BOOLEAN :
          /\ accounts[a].state = "absent"
          /\ accounts' = [accounts EXCEPT ![a] = [state |-> "enabled", owner |-> v, version |-> 1,
                                                  password |-> p, weak |-> weak]]
    BY <1>11 DEF VerifyRegister
  <2> HIDE DEF v
  <2>4. \A w \in Users : w # v => users'[w] = users[w]
    BY <1>0, <2>2
  <2>5. \A b \in Accounts : b # a => accounts'[b] = accounts[b]
    BY <1>0, <2>3
  <2> QED BY <2>1, <2>3, <2>4, <2>5 DEF IsPasswordAccount
<1> HIDE DEF Cut
<1>12. ASSUME NEW r \in Requests, RequestStep(r) PROVE Cut
  BY <1>1, <1>7, <1>8, <1>9, <1>10, <1>11, <1>12
  DEF RequestStep, ForgotFindUser, LoginFindUser, VerifyFind, AuthenticateSession, RevokeOne,
      ForgotCreate, LoginVerify, PasswordReadUser, PasswordReadSelf, PasswordVerify, Fail
<1>13. Cut
  BY <1>1, <1>4, <1>5, <1>6, <1>12
  DEF Next, vars, RegisterAgain, ExpireSession, ExpireChallenge
<1> QED BY <1>13 DEF Cut

\* A change of password or standing leaves its user no valid session and no
\* usable challenge from before the step.
THEOREM ChangesLeaveNothingBehind == Spec => ChangesCutOff
<1>1. ASSUME TypeOK, ChallengeInv, [Next]_vars, NEW u \in Users,
             \/ \E a \in Accounts : /\ IsPasswordAccount(a, u)
                                    /\ accounts'[a].version # accounts[a].version
             \/ users[u].status \in {"active", "disabled"} /\ users'[u].status # users[u].status
      PROVE  /\ \A s \in Sessions : sessions[s].owner = u => ~ValidSession(s)'
             /\ \A c \in Challenges : challenges[c].owner = u => ~UsableChallenge(c)'
  <2>1. sessions' = Revoked(u) /\ users'[u].version = users[u].version + 1
    BY <1>1, ChangeInvalidates
  <2>2. ASSUME NEW s \in Sessions, sessions[s].owner = u PROVE ~ValidSession(s)'
    <3>1. sessions'[s].state = "ended"
      BY <1>1, <2>1, <2>2, RevokedSessions
    <3> QED BY <3>1 DEF ValidSession
  <2>3. ASSUME NEW c \in Challenges, challenges[c].owner = u PROVE ~UsableChallenge(c)'
    <3>1. challenges[c].state # "absent" /\ challenges[c].version <= users[u].version
      BY <1>1, <2>3 DEF TypeOK, References, ChallengeInv
    <3>2. challenges'[c].owner = u /\ challenges'[c].version = challenges[c].version
      BY <1>1, <2>3, <3>1, ChallengeMoves
    <3>3. challenges[c].version \in Nat /\ users[u].version \in Nat
      BY <1>1, Columns
    <3>4. users'[u].version # challenges'[c].version
      BY <2>1, <3>1, <3>2, <3>3
    <3> QED BY <3>2, <3>4 DEF UsableChallenge, ChallengeCurrent
  <2> QED BY <2>2, <2>3
<1>2. TypeOK /\ ChallengeInv /\ [Next]_vars =>
        [\A u \in Users :
           \/ \E a \in Accounts : /\ IsPasswordAccount(a, u)
                                  /\ accounts'[a].version # accounts[a].version
           \/ users[u].status \in {"active", "disabled"} /\ users'[u].status # users[u].status
           => /\ \A s \in Sessions : sessions[s].owner = u => ~ValidSession(s)'
              /\ \A c \in Challenges : challenges[c].owner = u => ~UsableChallenge(c)']_vars
  BY <1>1
<1> QED BY <1>2, AccountTypes, ChallengesAreBounded, PTL DEF Spec, ChangesCutOff

\* A session is only ever ended: whom and what it stands for stays as inserted.
LEMMA SessionMoves ==
    ASSUME TypeOK, [Next]_vars, NEW s \in Sessions, sessions[s].state # "absent"
    PROVE  sessions'[s].owner = sessions[s].owner
<1>0. sessions \in [Sessions -> SessionRow] /\ References /\ Remembered
  BY DEF TypeOK
<1>1. ASSUME UNCHANGED sessions PROVE sessions'[s].owner = sessions[s].owner
  BY <1>1
<1>2. ASSUME NEW u \in Users, sessions' = Revoked(u) PROVE sessions'[s].owner = sessions[s].owner
  BY <1>2, RevokedSessions
<1>3. ASSUME NEW t \in Sessions, sessions' = [sessions EXCEPT ![t].state = "ended"]
      PROVE  sessions'[s].owner = sessions[s].owner
  BY <1>0, <1>3 DEF SessionRow
<1>4. ASSUME NEW r \in Requests, LoginCommit(r) PROVE sessions'[s].owner = sessions[s].owner
  BY <1>0, <1>4 DEF LoginCommit
<1>5. ASSUME NEW r \in Requests, RevokeAll(r) \/ PasswordCommit(r)
      PROVE  sessions'[s].owner = sessions[s].owner
  <2>1. job[r].user \in Users /\ sessions' = Revoked(job[r].user)
    BY <1>0, <1>5 DEF RevokeAll, PasswordCommit, Invalidate, Remembered
  <2> QED BY <1>2, <2>1
<1>6. ASSUME NEW r \in Requests, VerifyReset(r) PROVE sessions'[s].owner = sessions[s].owner
  <2>1. /\ challenges[job[r].challenge].owner \in Users
        /\ sessions' = Revoked(challenges[job[r].challenge].owner)
    BY <1>0, <1>6 DEF VerifyReset, Invalidate, Remembered, References
  <2> QED BY <1>2, <2>1
<1>7. ASSUME NEW r \in Requests, RequestStep(r) PROVE sessions'[s].owner = sessions[s].owner
  BY <1>1, <1>3, <1>4, <1>5, <1>6, <1>7
  DEF RequestStep, ForgotFindUser, LoginFindUser, VerifyFind, AuthenticateSession, RevokeOne,
      ForgotCreate, VerifyRegister, LoginVerify, PasswordReadUser, PasswordReadSelf,
      PasswordVerify, Fail
<1> QED
  BY <1>1, <1>2, <1>3, <1>7
  DEF Next, vars, RegisterNew, RegisterAgain, AdminRevoke, Invalidate, SetStatus, ExpireSession,
      ExpireChallenge

\* Every step keeps the user of a request that of its session: the handlers of a
\* session leave both identities as AuthenticateSession has set them.
LEMMA HolderStep ==
    ASSUME TypeOK, HolderInv, [Next]_vars PROVE HolderInv'
<1> DEFINE Held == {"authenticated", "passwordUser", "passwordSelf", "passwordVerified"}
<1>1. ASSUME NEW q \in Requests, pc'[q] \in Held
      PROVE  \/ /\ pc[q] \in Held
                /\ job'[q].session = job[q].session /\ job'[q].user = job[q].user
             \/ /\ job'[q].session \in Sessions /\ sessions' = sessions
                /\ sessions[job'[q].session].owner = job'[q].user
  <2>1. CASE pc'[q] = pc[q] /\ job'[q] = job[q]
    BY <1>1, <2>1
  <2>2. CASE RequestStep(q)
    <3>1. ASSUME NEW s \in Sessions, AuthenticateSession(q, s)
          PROVE  /\ job'[q].session = s /\ sessions' = sessions
                 /\ sessions[s].owner = job'[q].user
      BY <3>1 DEF TypeOK, AuthenticateSession, Goto, NoJob
    <3>2. ASSUME PasswordReadUser(q)
          PROVE  pc[q] \in Held /\ job'[q].session = job[q].session /\ job'[q].user = job[q].user
      BY <3>2 DEF TypeOK, PasswordReadUser, Goto, Job
    <3>3. ASSUME PasswordReadSelf(q)
          PROVE  pc[q] \in Held /\ job'[q].session = job[q].session /\ job'[q].user = job[q].user
      BY <3>3 DEF TypeOK, PasswordReadSelf, Goto, Job
    <3>4. ASSUME PasswordVerify(q)
          PROVE  pc[q] \in Held /\ job'[q].session = job[q].session /\ job'[q].user = job[q].user
      <4>1. PICK a \in Accounts :
              Goto(q, "passwordVerified",
                   [job[q] EXCEPT !.account = a, !.accountVersion = accounts[a].version,
                                  !.password = accounts[a].password])
        BY <3>4 DEF PasswordVerify
      <4> QED BY <3>4, <4>1 DEF TypeOK, PasswordVerify, Goto, Job
    <3>5. ASSUME NEW label \in {"forgotFound", "loginFound", "verifyFound", "loginVerified"}, NEW j
          PROVE  ~Goto(q, label, j)
      BY <1>1 DEF TypeOK, Goto
    <3>6. ASSUME Done(q) PROVE FALSE
      BY <1>1, <3>6 DEF TypeOK, Done
    <3>7. /\ \A u \in Users : ~ForgotFindUser(q, u) /\ ~LoginFindUser(q, u)
          /\ \A c \in Challenges : ~VerifyFind(q, c)
          /\ ~LoginVerify(q)
      BY <3>5 DEF ForgotFindUser, LoginFindUser, VerifyFind, LoginVerify
    <3>8. /\ \A s \in Sessions : ~RevokeOne(q, s)
          /\ ~ForgotCreate(q) /\ ~VerifyRegister(q) /\ ~VerifyReset(q) /\ ~LoginCommit(q)
          /\ ~PasswordCommit(q) /\ ~RevokeAll(q) /\ ~Fail(q)
      BY <3>6
      DEF RevokeOne, ForgotCreate, VerifyRegister, VerifyReset, LoginCommit, PasswordCommit,
          RevokeAll, Fail
    <3> QED BY <2>2, <3>1, <3>2, <3>3, <3>4, <3>7, <3>8 DEF RequestStep
  <2> QED BY <2>1, <2>2, RequestMoves
<1>2. ASSUME NEW q \in Requests, pc[q] \in Held
      PROVE  sessions'[job[q].session].owner = job[q].user
  <2>1. /\ job[q].session \in Sessions /\ job[q].user \in Users
        /\ sessions[job[q].session].owner = job[q].user
    BY <1>2 DEF TypeOK, Remembered, HolderInv
  <2>2. sessions[job[q].session].state # "absent"
    BY <2>1 DEF TypeOK, References
  <2> QED BY <2>1, <2>2, SessionMoves
<1> QED BY <1>1, <1>2 DEF HolderInv

\* A request acts for the user of the session it was authenticated with, also
\* after that session has ended.
THEOREM RequestsActForTheirSession == Spec => []HolderInv
<1>1. Init => HolderInv
  BY DEF Init, HolderInv
<1>2. TypeOK /\ HolderInv /\ [Next]_vars => HolderInv'
  BY HolderStep
<1> QED BY <1>1, <1>2, AccountTypes, PTL DEF Spec

----------------------------------------------------------------------------
\* The refinement of AccountAuthority

\* The secret of a user is the password of the credential account, if any.
LEMMA SecretOf ==
    OneCredential =>
      \A u \in Users :
        /\ \A a \in Accounts : IsPasswordAccount(a, u) => Secret[u] = accounts[a].password
        /\ (\A a \in Accounts : ~IsPasswordAccount(a, u)) => Secret[u] = NoOne
<1> SUFFICES ASSUME OneCredential, NEW u \in Users
             PROVE  /\ \A a \in Accounts : IsPasswordAccount(a, u) => Secret[u] = accounts[a].password
                    /\ (\A a \in Accounts : ~IsPasswordAccount(a, u)) => Secret[u] = NoOne
  OBVIOUS
<1> DEFINE b == CHOOSE a \in Accounts : IsPasswordAccount(a, u)
<1>1. ASSUME NEW a \in Accounts, IsPasswordAccount(a, u) PROVE b = a
  <2>1. b \in Accounts /\ IsPasswordAccount(b, u)
    BY <1>1
  <2> QED BY <1>1, <2>1 DEF OneCredential
<1>2. Secret[u] = IF \E a \in Accounts : IsPasswordAccount(a, u) THEN accounts[b].password ELSE NoOne
  BY DEF Secret
<1> HIDE DEF b
<1> QED BY <1>1, <1>2

\* The same after a step
LEMMA SecretOfNext ==
    ASSUME OneCredential'
    PROVE  \A u \in Users :
             /\ \A a \in Accounts : IsPasswordAccount(a, u)' => Secret'[u] = accounts'[a].password
             /\ (\A a \in Accounts : ~IsPasswordAccount(a, u)') => Secret'[u] = NoOne
<1>1. (\A u \in Users :
        /\ \A a \in Accounts : IsPasswordAccount(a, u) => Secret[u] = accounts[a].password
        /\ (\A a \in Accounts : ~IsPasswordAccount(a, u)) => Secret[u] = NoOne)'
  BY SecretOf, PTL
<1> QED BY <1>1

\* Secrets stay in a step that leaves states, owners and passwords of accounts.
LEMMA SecretKept ==
    ASSUME OneCredential, OneCredential',
           \A a \in Accounts : /\ accounts'[a].state = accounts[a].state
                               /\ accounts'[a].owner = accounts[a].owner
                               /\ accounts'[a].password = accounts[a].password
    PROVE  Secret' = Secret
<1>1. \A a \in Accounts, u \in Users : IsPasswordAccount(a, u)' <=> IsPasswordAccount(a, u)
  BY DEF IsPasswordAccount
<1>2. ASSUME NEW u \in Users PROVE Secret'[u] = Secret[u]
  BY <1>1, SecretOf, SecretOfNext
<1>3. Secret = [u \in Users |-> Secret[u]] /\ Secret' = [u \in Users |-> Secret'[u]]
  BY DEF Secret
<1> QED BY <1>2, <1>3

\* A grant is unused, given or over.
LEMMA GrantOf ==
    \A s \in Sessions :
      /\ sessions[s].state = "absent" => Grant[s] = Authority!Unused
      /\ ValidSession(s) => Grant[s] = Authority!Given(sessions[s].owner, sessions[s].password)
      /\ sessions[s].state # "absent" /\ ~ValidSession(s) => Grant[s] = Authority!Over
<1> TAKE s \in Sessions
<1>1. sessions[s].state = "absent" => ~ValidSession(s)
  BY DEF ValidSession
<1> QED BY <1>1 DEF Grant, Authority!Unused, Authority!Given, Authority!Over

\* The same after a step
LEMMA GrantOfNext ==
    \A s \in Sessions :
      /\ sessions'[s].state = "absent" => Grant'[s] = Authority!Unused
      /\ ValidSession(s)' => Grant'[s] = Authority!Given(sessions'[s].owner, sessions'[s].password)
      /\ sessions'[s].state # "absent" /\ ~ValidSession(s)' => Grant'[s] = Authority!Over
<1>1. (\A s \in Sessions :
        /\ sessions[s].state = "absent" => Grant[s] = Authority!Unused
        /\ ValidSession(s) => Grant[s] = Authority!Given(sessions[s].owner, sessions[s].password)
        /\ sessions[s].state # "absent" /\ ~ValidSession(s) => Grant[s] = Authority!Over)'
  BY GrantOf, PTL
<1> QED BY <1>1 DEF Authority!Unused, Authority!Given, Authority!Over

\* The grant of a session stays in a step that leaves its row and its user.
LEMMA GrantKept ==
    ASSUME NEW s \in Sessions, sessions'[s] = sessions[s],
           \A u \in Users : sessions[s].owner = u =>
             ((users'[u].status = "active" /\ users'[u].version = sessions[s].version) <=>
              (users[u].status = "active" /\ users[u].version = sessions[s].version))
    PROVE  Grant'[s] = Grant[s]
<1>1. ValidSession(s)' <=> ValidSession(s)
  BY DEF ValidSession
<1>2. ValidSession(s) => sessions[s].state # "absent"
  BY DEF ValidSession
<1> QED BY <1>1, <1>2, GrantOf, GrantOfNext

\* Grant and the withdrawal of grants are functions of sessions.
LEMMA GrantFunctions ==
    /\ Grant = [s \in Sessions |-> Grant[s]] /\ Grant' = [s \in Sessions |-> Grant'[s]]
    /\ \A u : Authority!Withdrawn(u) =
                [s \in Sessions |-> IF Grant[s].user = u THEN Authority!Over ELSE Grant[s]]
BY DEF Grant, Authority!Withdrawn

\* Revoking the sessions of a user withdraws the grants of that user.
LEMMA RevokeWithdraws ==
    ASSUME TypeOK, NEW u \in Users, sessions' = Revoked(u),
           \A v \in Users : v # u => users'[v] = users[v]
    PROVE  Grant' = Authority!Withdrawn(u)
<1>1. ASSUME NEW s \in Sessions
      PROVE  Grant'[s] = IF Grant[s].user = u THEN Authority!Over ELSE Grant[s]
  <2>1. sessions[s].owner \in Users <=> sessions[s].state # "absent"
    BY DEF TypeOK, References
  <2>2. CASE sessions[s].owner = u
    <3>1. sessions'[s].state = "ended"
      BY <2>2, RevokedSessions
    <3>2. Grant'[s] = Authority!Over
      BY <3>1, GrantOfNext DEF ValidSession
    <3>3. ~ValidSession(s) => Grant[s] = Authority!Over
      BY <2>1, <2>2, GrantOf
    <3>4. ValidSession(s) => Grant[s].user = u
      BY <2>2 DEF Grant
    <3> QED BY <3>2, <3>3, <3>4
  <2>3. CASE sessions[s].owner # u
    <3>1. sessions'[s] = sessions[s]
      BY <2>3, RevokedSessions
    <3>2. Grant'[s] = Grant[s]
      BY <2>3, <3>1, GrantKept
    <3>3. Grant[s].user \in {sessions[s].owner, NoOne}
      BY DEF Grant
    <3>4. Grant[s].user # u
      BY <2>3, <3>3, AccountConstants
    <3> QED BY <3>2, <3>4
  <2> QED BY <2>2, <2>3
<1> QED BY <1>1, GrantFunctions

\* Standing is a function of users.
LEMMA StandingOf ==
    /\ \A u \in Users : Standing[u] = users[u].status /\ Standing'[u] = users'[u].status
    /\ Standing = [u \in Users |-> Standing[u]] /\ Standing' = [u \in Users |-> Standing'[u]]
BY DEF Standing

\* The end of one session is the end of its grant, or nothing if it was over.
LEMMA EndSignsOut ==
    ASSUME TypeOK, NEW t \in Sessions, sessions[t].state # "absent",
           sessions' = [sessions EXCEPT ![t].state = "ended"], UNCHANGED users
    PROVE  \/ Grant' = Grant
           \/ Grant[t].state = "given" /\ Grant' = [Grant EXCEPT ![t] = Authority!Over]
<1>1. sessions'[t].state = "ended" /\ \A s \in Sessions : s # t => sessions'[s] = sessions[s]
  BY DEF TypeOK, SessionRow
<1>2. Grant'[t] = Authority!Over
  BY <1>1, GrantOfNext DEF ValidSession
<1>3. ASSUME NEW s \in Sessions, s # t PROVE Grant'[s] = Grant[s]
  BY <1>1, <1>3, GrantKept
<1>4. CASE ValidSession(t)
  <2>1. Grant[t].state = "given"
    BY <1>4 DEF Grant, ValidSession
  <2> QED BY <1>2, <1>3, <2>1, GrantFunctions
<1>5. CASE ~ValidSession(t)
  <2>1. Grant[t] = Authority!Over
    BY <1>5, GrantOf
  <2> QED BY <1>2, <1>3, <2>1, GrantFunctions
<1> QED BY <1>4, <1>5

\* A new password of u is the secret of u; the others keep theirs.
LEMMA SecretChanged ==
    ASSUME OneCredential, OneCredential', NEW u \in Users, NEW a \in Accounts,
           IsPasswordAccount(a, u)',
           \A b \in Accounts, v \in Users : v # u =>
             /\ IsPasswordAccount(b, v)' <=> IsPasswordAccount(b, v)
             /\ IsPasswordAccount(b, v) => accounts'[b].password = accounts[b].password
    PROVE  Secret' = [Secret EXCEPT ![u] = accounts'[a].password]
<1>1. Secret'[u] = accounts'[a].password
  BY SecretOfNext
<1>2. ASSUME NEW v \in Users, v # u PROVE Secret'[v] = Secret[v]
  BY <1>2, SecretOf, SecretOfNext
<1>3. Secret = [v \in Users |-> Secret[v]] /\ Secret' = [v \in Users |-> Secret'[v]]
  BY DEF Secret
<1> QED BY <1>1, <1>2, <1>3

\* Invalidate keeps the standings and withdraws the grants of the user.
LEMMA InvalidateWithdraws ==
    ASSUME TypeOK, NEW u \in Users, Invalidate(u)
    PROVE  Standing' = Standing /\ Grant' = Authority!Withdrawn(u)
<1>1. users' = Bumped(u) /\ sessions' = Revoked(u)
  BY DEF Invalidate
<1>2. \A v \in Users : users'[v].status = users[v].status /\ (v # u => users'[v] = users[v])
  BY <1>1, BumpedUsers
<1>3. Standing' = Standing
  BY <1>2, StandingOf
<1> QED BY <1>1, <1>2, <1>3, RevokeWithdraws

\* ChangePassword and invalidate together change the secret.
LEMMA ChangeIsAtomic ==
    ASSUME TypeOK, OneCredential, OneCredential', NEW u \in Users, Invalidate(u),
           users[u].status = "active", NEW a \in Accounts, IsPasswordAccount(a, u),
           NEW p \in Passwords, NEW weak \in BOOLEAN, accounts' = ChangedPassword(a, p, weak)
    PROVE  Authority!ChangeSecret(u, p)
<1>1. /\ accounts'[a].password = p
      /\ \A b \in Accounts : /\ accounts'[b].state = accounts[b].state
                             /\ accounts'[b].owner = accounts[b].owner
                             /\ b # a => accounts'[b].password = accounts[b].password
  BY ChangedAccounts
<1>2. /\ IsPasswordAccount(a, u)'
      /\ \A b \in Accounts, v \in Users : v # u =>
           /\ IsPasswordAccount(b, v)' <=> IsPasswordAccount(b, v)
           /\ IsPasswordAccount(b, v) => accounts'[b].password = accounts[b].password
  BY <1>1 DEF IsPasswordAccount
<1>3. Secret' = [Secret EXCEPT ![u] = p]
  BY <1>1, <1>2, SecretChanged
<1>4. Standing' = Standing /\ Grant' = Authority!Withdrawn(u) /\ Standing[u] = "active"
  BY InvalidateWithdraws, StandingOf
<1> QED BY <1>3, <1>4 DEF Authority!ChangeSecret

\* Every step is a step of AccountAuthority or changes nothing it speaks of.
LEMMA AuthorityStep ==
    ASSUME TypeOK, CredentialInv, OneCredential, OneCredential', HolderInv, [Next]_vars
    PROVE  [Authority!AuthorityNext]_(Authority!authorityVars)
<1> DEFINE Same == UNCHANGED <<Standing, Secret, Grant>>
<1>0. /\ users \in [Users -> UserRow] /\ accounts \in [Accounts -> AccountRow]
      /\ sessions \in [Sessions -> SessionRow] /\ References /\ Remembered
  BY DEF TypeOK
<1>1. ASSUME UNCHANGED accounts PROVE Secret' = Secret
  BY <1>1, SecretKept
<1>2. ASSUME UNCHANGED <<users, sessions>> PROVE Standing' = Standing /\ Grant' = Grant
  <2>1. \A s \in Sessions : Grant'[s] = Grant[s]
    BY <1>2, GrantKept
  <2> QED BY <1>2, <2>1, GrantFunctions, StandingOf
<1>3. ASSUME UNCHANGED <<users, accounts, sessions>> PROVE Same
  BY <1>1, <1>2, <1>3
<1>4. ASSUME NEW u \in Users, NEW e \in Emails, RegisterNew(u, e) PROVE Authority!Apply(u)
  <2>1. /\ users[u].status = "absent" /\ users'[u].status = "pending"
        /\ \A v \in Users : v # u => users'[v] = users[v]
    BY <1>0, <1>4 DEF RegisterNew
  <2>2. \A s \in Sessions : Grant'[s] = Grant[s]
    BY <1>4, <2>1, GrantKept DEF RegisterNew
  <2>3. Grant' = Grant /\ Secret' = Secret
    BY <1>1, <1>4, <2>2, GrantFunctions DEF RegisterNew
  <2>4. Standing[u] = "absent" /\ Standing' = [Standing EXCEPT ![u] = "pending"]
    BY <2>1, StandingOf
  <2> QED BY <2>3, <2>4 DEF Authority!Apply
<1>5. ASSUME NEW u \in Users, Invalidate(u), UNCHANGED accounts PROVE Authority!SignOutAll(u)
  BY <1>1, <1>5, InvalidateWithdraws DEF Authority!SignOutAll
<1>6. ASSUME NEW u \in Users, NEW status \in {"active", "disabled"}, SetStatus(u, status)
      PROVE  Authority!ChangeStanding(u, status)
  <2>1. /\ users[u].status \in {"active", "disabled"} /\ users'[u].status = status
        /\ \A v \in Users : v # u => users'[v] = users[v]
    BY <1>0, <1>6 DEF SetStatus, UserRow
  <2>2. Standing[u] \in {"active", "disabled"} /\ Standing' = [Standing EXCEPT ![u] = status]
    BY <2>1, StandingOf
  <2>3. Grant' = Authority!Withdrawn(u) /\ Secret' = Secret
    BY <1>1, <1>6, <2>1, RevokeWithdraws DEF SetStatus
  <2> QED BY <2>2, <2>3 DEF Authority!ChangeStanding
<1>7. ASSUME NEW t \in Sessions, sessions[t].state # "absent",
             sessions' = [sessions EXCEPT ![t].state = "ended"], UNCHANGED <<users, accounts>>
      PROVE  Same \/ Authority!SignOut(t)
  <2>1. Standing' = Standing /\ Secret' = Secret
    BY <1>1, <1>7, StandingOf
  <2> QED BY <1>7, <2>1, EndSignsOut DEF Authority!SignOut
<1>8. ASSUME NEW r \in Requests, RevokeAll(r) PROVE \E u \in Users : Authority!SignOutAll(u)
  <2>1. job[r].user \in Users
    BY <1>0, <1>8 DEF RevokeAll, Remembered
  <2> QED BY <1>5, <1>8, <2>1 DEF RevokeAll
<1>9. ASSUME NEW r \in Requests, PasswordCommit(r)
      PROVE  \E u \in Users, p \in Passwords : Authority!ChangeSecret(u, p)
  <2>1. /\ job[r].user \in Users /\ job[r].account \in Accounts /\ Invalidate(job[r].user)
        /\ IsPasswordAccount(job[r].account, job[r].user) /\ ValidSession(job[r].session)
        /\ sessions[job[r].session].owner = job[r].user
    BY <1>0, <1>9 DEF PasswordCommit, PasswordCurrent, Remembered, HolderInv
  <2>2. users[job[r].user].status = "active"
    BY <2>1 DEF ValidSession
  <2>3. PICK p \in Passwords, weak \in BOOLEAN : accounts' = ChangedPassword(job[r].account, p, weak)
    BY <1>9 DEF PasswordCommit
  <2> QED BY <2>1, <2>2, <2>3, ChangeIsAtomic
<1>10. ASSUME NEW r \in Requests, VerifyReset(r)
       PROVE  \E u \in Users, p \in Passwords : Authority!ChangeSecret(u, p)
  <2>1. PICK u \in Users : /\ u = challenges[job[r].challenge].owner
                           /\ Invalidate(u) /\ users[u].status = "active"
    BY <1>0, <1>10 DEF VerifyReset, ChallengeAllowed, Remembered, References
  <2>2. PICK a \in Accounts, p \in Passwords, weak \in BOOLEAN :
          IsPasswordAccount(a, u) /\ accounts' = ChangedPassword(a, p, weak)
    BY <1>10, <2>1 DEF VerifyReset
  <2> QED BY <2>1, <2>2, ChangeIsAtomic
<1>11. ASSUME NEW r \in Requests, LoginCommit(r)
       PROVE  \E u \in Users, s \in Sessions : Authority!SignIn(u, s)
  <2> DEFINE j == job[r]
  <2>1. /\ j \in Job /\ j.user \in Users /\ j.account \in Accounts
        /\ UNCHANGED users /\ accounts' = UpgradePasswordHash(j)
        /\ IsPasswordAccount(j.account, j.user) /\ accounts[j.account].version = j.accountVersion
        /\ users[j.user].status = "active" /\ pc[r] = "loginVerified"
    BY <1>0, <1>11 DEF LoginCommit, LoginCurrent, TypeOK, Remembered
  <2>2. PICK s \in Sessions :
          /\ sessions[s].state = "absent"
          /\ sessions' = [sessions EXCEPT ![s] =
                            [state |-> "live", owner |-> j.user, source |-> j.account,
                             version |-> users[j.user].version, password |-> j.password]]
    BY <1>11 DEF LoginCommit
  <2>3. accounts[j.account].password = j.password
    BY <2>1 DEF CredentialInv, VerifiedCurrent
  <2> HIDE DEF j
  <2>4. /\ sessions'[s].state = "live" /\ sessions'[s].owner = j.user
        /\ sessions'[s].version = users[j.user].version /\ sessions'[s].password = j.password
        /\ \A t \in Sessions : t # s => sessions'[t] = sessions[t]
    BY <1>0, <2>2
  <2>5. ValidSession(s)'
    BY <2>1, <2>4 DEF ValidSession
  <2>6. Secret[j.user] = j.password
    BY <2>1, <2>3, SecretOf
  <2>7. Grant'[s] = Authority!Given(j.user, Secret[j.user])
    BY <2>4, <2>5, <2>6, GrantOfNext
  <2>8. \A t \in Sessions : t # s => Grant'[t] = Grant[t]
    BY <2>1, <2>4, GrantKept
  <2>9. Grant[s] = Authority!Unused
    BY <2>2, GrantOf
  <2>10. Grant' = [Grant EXCEPT ![s] = Authority!Given(j.user, Secret[j.user])]
    BY <2>7, <2>8, GrantFunctions
  <2>11. Secret' = Secret
    BY <2>1, UpgradedAccounts, SecretKept
  <2>12. Standing' = Standing /\ Standing[j.user] = "active"
    BY <2>1, StandingOf
  <2> QED BY <2>1, <2>9, <2>10, <2>11, <2>12 DEF Authority!SignIn
<1>12. ASSUME NEW r \in Requests, VerifyRegister(r)
       PROVE  \E u \in Users, p \in Passwords : Authority!Enrol(u, p)
  <2>1. PICK u \in Users : /\ u = challenges[job[r].challenge].owner
                           /\ users[u].status = "pending" /\ UNCHANGED sessions
    BY <1>0, <1>12 DEF VerifyRegister, ChallengeAllowed, Remembered, References
  <2>2. PICK a \in Accounts, p \in Passwords, weak \in BOOLEAN :
          /\ accounts[a].state = "absent"
          /\ accounts' = [accounts EXCEPT ![a] = [state |-> "enabled", owner |-> u, version |-> 1,
                                                  password |-> p, weak |-> weak]]
    BY <1>12, <2>1 DEF VerifyRegister
  <2>3. users' = [users EXCEPT ![u].status = "active", ![u].verified = TRUE]
    BY <1>12, <2>1 DEF VerifyRegister
  <2>4. users'[u].status = "active" /\ users'[u].version = users[u].version
        /\ \A v \in Users : v # u => users'[v] = users[v]
    BY <1>0, <2>1, <2>3 DEF UserRow
  <2>5. ASSUME NEW s \in Sessions PROVE Grant'[s] = Grant[s]
    <3>1. CASE sessions[s].owner # u
      BY <2>1, <2>4, <3>1, GrantKept
    <3>2. CASE sessions[s].owner = u
      <4>1. sessions[s].state # "absent"
        BY <1>0, <2>1, <3>2 DEF References
      <4>2. sessions[s].source \in Accounts /\ ~IsPasswordAccount(sessions[s].source, u)
        BY <1>0, <2>1, <4>1 DEF References, OneCredential
      <4>3. ~(sessions[s].state = "live" /\ sessions[s].version = users[u].version)
        BY <3>2, <4>1, <4>2 DEF CredentialInv, SessionCurrent
      <4>4. ~ValidSession(s) /\ ~ValidSession(s)'
        BY <2>1, <2>4, <3>2, <4>3 DEF ValidSession
      <4> QED BY <2>1, <4>1, <4>4, GrantOf, GrantOfNext
    <3> QED BY <3>1, <3>2
  <2>6. Grant' = Grant
    BY <2>5, GrantFunctions
  <2>7. Standing[u] = "pending" /\ Standing' = [Standing EXCEPT ![u] = "active"]
    BY <2>1, <2>4, StandingOf
  <2>8. /\ accounts'[a].password = p /\ accounts'[a].state = "enabled" /\ accounts'[a].owner = u
        /\ \A b \in Accounts : b # a => accounts'[b] = accounts[b]
    BY <1>0, <2>2
  <2>9. /\ IsPasswordAccount(a, u)'
        /\ \A b \in Accounts, v \in Users : v # u =>
             /\ IsPasswordAccount(b, v)' <=> IsPasswordAccount(b, v)
             /\ IsPasswordAccount(b, v) => accounts'[b].password = accounts[b].password
    BY <2>1, <2>2, <2>8 DEF IsPasswordAccount
  <2>10. Secret' = [Secret EXCEPT ![u] = accounts'[a].password]
    BY <2>1, <2>9, SecretChanged
  <2> QED BY <2>1, <2>6, <2>7, <2>8, <2>10 DEF Authority!Enrol
<1> HIDE DEF Same
<1>13. ASSUME NEW r \in Requests, RequestStep(r) PROVE Same \/ Authority!AuthorityNext
  <2>1. ASSUME NEW t \in Sessions, RevokeOne(r, t) PROVE Same \/ Authority!SignOut(t)
    BY <1>7, <2>1 DEF RevokeOne
  <2>2. CASE \/ \E u \in Users : ForgotFindUser(r, u) \/ LoginFindUser(r, u)
             \/ \E c \in Challenges : VerifyFind(r, c)
             \/ \E s \in Sessions : AuthenticateSession(r, s)
             \/ ForgotCreate(r) \/ LoginVerify(r) \/ PasswordReadUser(r) \/ PasswordReadSelf(r)
             \/ PasswordVerify(r) \/ Fail(r)
    BY <1>3, <2>2
    DEF ForgotFindUser, LoginFindUser, VerifyFind, AuthenticateSession, ForgotCreate, LoginVerify,
        PasswordReadUser, PasswordReadSelf, PasswordVerify, Fail
  <2> QED
    BY <1>8, <1>9, <1>10, <1>11, <1>12, <1>13, <2>1, <2>2 DEF RequestStep, Authority!AuthorityNext
<1>14. ASSUME NEW t \in Sessions, ExpireSession(t) PROVE Same \/ Authority!SignOut(t)
  BY <1>7, <1>14 DEF ExpireSession
<1>15. ASSUME NEW u \in Users, AdminRevoke(u) PROVE Authority!SignOutAll(u)
  BY <1>5, <1>15 DEF AdminRevoke
<1>16. ASSUME NEW u \in Users, NEW e \in Emails, RegisterAgain(u, e) PROVE Same
  BY <1>3, <1>16 DEF RegisterAgain
<1>17. ASSUME NEW c \in Challenges, ExpireChallenge(c) PROVE Same
  BY <1>3, <1>17 DEF ExpireChallenge
<1>18. ASSUME UNCHANGED vars PROVE Same
  BY <1>3, <1>18 DEF vars
<1>19. Same \/ Authority!AuthorityNext
  BY <1>4, <1>6, <1>13, <1>14, <1>15, <1>16, <1>17, <1>18 DEF Next, Authority!AuthorityNext
<1> QED BY <1>19 DEF Same, Authority!authorityVars

\* Sign-in, with its reads, locks and transactions, behaves as if each request
\* were one instant of AccountAuthority.
THEOREM SessionsImplementAuthority == Spec => ImplementsAuthority
<1>1. Init => Authority!AuthorityInit
  <2> SUFFICES ASSUME Init PROVE Authority!AuthorityInit
    OBVIOUS
  <2>1. Standing = [u \in Users |-> "absent"]
    BY DEF Init, Standing, NoUser
  <2>2. \A a \in Accounts, u \in Users : ~IsPasswordAccount(a, u)
    BY DEF Init, NoAccount, IsPasswordAccount
  <2>3. Secret = [u \in Users |-> NoOne]
    BY <2>2 DEF Secret
  <2>4. \A s \in Sessions : Grant[s] = Authority!Unused
    BY GrantOf DEF Init, NoSession
  <2>5. Grant = [s \in Sessions |-> Authority!Unused]
    BY <2>4, GrantFunctions
  <2> QED BY <2>1, <2>3, <2>5 DEF Authority!AuthorityInit
<1>2. TypeOK /\ CredentialInv /\ OneCredential /\ OneCredential' /\ HolderInv /\ [Next]_vars
        => [Authority!AuthorityNext]_(Authority!authorityVars)
  BY AuthorityStep
<1> QED
  BY <1>1, <1>2, AccountTypes, CredentialsAreCurrent, UsersHaveOneCredential,
     RequestsActForTheirSession, PTL
  DEF Spec, ImplementsAuthority, Authority!AuthoritySpec

----------------------------------------------------------------------------
(***************************************************************************)
(* The expiry and renewal of one session (SessionRenewal), for any numbers *)
(* of requests, any lifetimes, any difference of the clocks and any delay  *)
(* of the statements.                                                      *)
(***************************************************************************)

\* The types of the row, the clock and the requests.
RenewalTypes ==
  /\ now \in Nat /\ lastSeen \in Nat /\ accepted \in Nat
  /\ idleEnd \in Nat /\ end \in Nat
  /\ revoked \in BOOLEAN
  /\ step \in [Visits -> [at : {"idle", "touch", "touching"}, begun : Nat]]

\* A statement under way began at most MaxWait ago.
StatementsAreRecent ==
  \A r \in Visits :
     step[r].at = "touching" => step[r].begun <= now /\ now <= step[r].begun + MaxWait

\* The idle expiry is always what the last renewal made it, and a request that
\* was let in without a renewal came soon after the last one.
RenewalInv ==
  /\ RenewalTypes
  /\ StatementsAreRecent
  /\ lastSeen <= now
  /\ idleEnd = Least(end, lastSeen + Idle)
  /\ accepted <= lastSeen + Renewal + Skew

----------------------------------------------------------------------------
\* The renewal interval is a natural number (min of a minute and IdleTTL/2).
LEMMA RenewalIsNat == Renewal \in Nat
<1>1. Idle \div 2 \in Nat
  BY RenewalConstants
<1> QED
  BY <1>1, RenewalConstants DEF Renewal, Least

\* CreateSession establishes the invariant.
LEMMA RenewalBegins == RenewalInit => RenewalInv
<1> SUFFICES ASSUME RenewalInit PROVE RenewalInv
  OBVIOUS
<1>1. RenewalTypes
  <2>1. now = 0 /\ lastSeen = 0 /\ accepted = 0 /\ idleEnd = Idle /\ end = Absolute
    BY RenewalConstants DEF RenewalInit
  <2>2. step \in [Visits -> [at : {"idle", "touch", "touching"}, begun : Nat]] /\ revoked \in BOOLEAN
    BY DEF RenewalInit, AtRest
  <2> QED
    BY <2>1, <2>2, RenewalConstants DEF RenewalTypes
<1>2. lastSeen <= now /\ accepted <= lastSeen + Renewal + Skew
  BY RenewalConstants, RenewalIsNat DEF RenewalInit
<1>3. idleEnd = Least(end, lastSeen + Idle)
  BY RenewalConstants DEF RenewalInit, Least
<1>4. StatementsAreRecent
  BY DEF RenewalInit, AtRest, StatementsAreRecent
<1> QED
  BY <1>1, <1>2, <1>3, <1>4 DEF RenewalInv

\* Every step keeps it: only TouchSession moves last_seen_at, and it computes the
\* expiry from the same moment.
LEMMA RenewalStep == RenewalInv /\ [RenewalNext]_renewalVars => RenewalInv'
<1> SUFFICES ASSUME RenewalInv, [RenewalNext]_renewalVars PROVE RenewalInv'
  OBVIOUS
<1> USE RenewalConstants, RenewalIsNat
<1>1. ASSUME NEW r \in Visits, NEW d \in -Skew..Skew, Authenticate(r, d) PROVE RenewalInv'
  <2>1. RenewalTypes'
    BY <1>1 DEF RenewalInv, RenewalTypes, Authenticate
  <2>2. accepted' <= lastSeen + Renewal + Skew
    BY <1>1 DEF RenewalInv, RenewalTypes, Authenticate
  <2>3. StatementsAreRecent'
    BY <1>1 DEF RenewalInv, RenewalTypes, StatementsAreRecent, Authenticate
  <2> QED
    BY <1>1, <2>1, <2>2, <2>3 DEF RenewalInv, Authenticate
<1>2. ASSUME NEW r \in Visits, BeginTouch(r) PROVE RenewalInv'
  <2>1. RenewalTypes'
    BY <1>2 DEF RenewalInv, RenewalTypes, BeginTouch
  <2>2. StatementsAreRecent'
    BY <1>2 DEF RenewalInv, RenewalTypes, StatementsAreRecent, BeginTouch
  <2> QED
    BY <1>2, <2>1, <2>2 DEF RenewalInv, BeginTouch
<1>3. ASSUME NEW r \in Visits, Touch(r) PROVE RenewalInv'
  <2>1. PICK t \in Nat : t = step[r].begun /\ t <= now
    BY <1>3 DEF RenewalInv, RenewalTypes, StatementsAreRecent, Touch
  <2>2. /\ step' = [step EXCEPT ![r] = AtRest]
        /\ now' = now /\ end' = end /\ revoked' = revoked
        /\ accepted' = IF ValidAt(t) /\ t > accepted THEN t ELSE accepted
    BY <1>3, <2>1 DEF Touch
  <2>3. StatementsAreRecent'
    BY <2>2 DEF RenewalInv, RenewalTypes, StatementsAreRecent, AtRest
  <2>4. step' \in [Visits -> [at : {"idle", "touch", "touching"}, begun : Nat]]
    BY <2>2 DEF RenewalInv, RenewalTypes, AtRest
  <2>5. CASE ValidAt(t) /\ lastSeen <= t - Renewal
    <3>1. lastSeen' = t /\ idleEnd' = Least(end, t + Idle)
      BY <1>3, <2>1, <2>5 DEF Touch
    <3>2. RenewalTypes'
      BY <2>1, <2>2, <2>4, <3>1 DEF RenewalInv, RenewalTypes, Least
    <3>3. accepted' <= t + Renewal + Skew
      BY <2>1, <2>2, <2>5 DEF RenewalInv, RenewalTypes
    <3> QED
      BY <2>1, <2>2, <2>3, <3>1, <3>2, <3>3 DEF RenewalInv
  <2>6. CASE ~(ValidAt(t) /\ lastSeen <= t - Renewal)
    <3>1. UNCHANGED <<lastSeen, idleEnd>>
      BY <1>3, <2>1, <2>6 DEF Touch
    <3>2. RenewalTypes'
      BY <2>1, <2>2, <2>4, <3>1 DEF RenewalInv, RenewalTypes
    <3>3. accepted' <= lastSeen + Renewal + Skew
      BY <2>1, <2>2, <2>6 DEF RenewalInv, RenewalTypes
    <3> QED
      BY <2>2, <2>3, <3>1, <3>2, <3>3 DEF RenewalInv
  <2> QED
    BY <2>5, <2>6
<1>4. ASSUME NEW r \in Visits, TouchFails(r) PROVE RenewalInv'
  BY <1>4 DEF RenewalInv, RenewalTypes, StatementsAreRecent, TouchFails, AtRest
<1>5. CASE Revoke
  BY <1>5 DEF RenewalInv, RenewalTypes, StatementsAreRecent, Revoke
<1>6. CASE Tick
  BY <1>6 DEF RenewalInv, RenewalTypes, StatementsAreRecent, Tick
<1>7. CASE UNCHANGED renewalVars
  BY <1>7 DEF RenewalInv, RenewalTypes, StatementsAreRecent, renewalVars
<1> QED
  BY <1>1, <1>2, <1>3, <1>4, <1>5, <1>6, <1>7 DEF RenewalNext

\* The invariant holds in every reachable state.
LEMMA RenewalInvariant == RenewalSpec => []RenewalInv
BY RenewalBegins, RenewalStep, PTL DEF RenewalSpec

----------------------------------------------------------------------------
\* A session that requests are let in by lasts for the idle time, less the renewal
\* interval and the difference of the clocks, after each of them
\* (AuthenticateSession, TouchSession).
THEOREM UseKeepsSessionAlive == RenewalSpec => []KeepsAlive
<1>1. RenewalInv => KeepsAlive
  BY RenewalConstants, RenewalIsNat DEF RenewalInv, RenewalTypes, KeepsAlive, Least, Renewal
<1> QED
  BY <1>1, RenewalInvariant, PTL

\* A session that was revoked, passed its absolute end or expired longer ago than
\* a statement may take stays refused: a TouchSession still under way began after
\* the expiry, and its WHERE clause does not find the row.
THEOREM SessionsStayOver == RenewalSpec => RefusedForGood
<1>1. RenewalInv /\ [RenewalNext]_renewalVars => [Over => Over' /\ ~Valid']_renewalVars
  <2> SUFFICES ASSUME RenewalInv, RenewalNext, Over PROVE Over' /\ ~Valid'
    OBVIOUS
  <2> USE RenewalConstants
  <2>1. RenewalInv'
    BY RenewalStep
  <2>2. SUFFICES Over'
    BY <2>1, <2>2 DEF RenewalInv, RenewalTypes, Over, Valid, ValidAt
  <2>3. ASSUME NEW r \in Visits, NEW d \in -Skew..Skew, Authenticate(r, d) PROVE Over'
    BY <2>3 DEF Authenticate, Over
  <2>4. ASSUME NEW r \in Visits, BeginTouch(r) PROVE Over'
    BY <2>4 DEF BeginTouch, Over
  <2>5. ASSUME NEW r \in Visits, Touch(r) PROVE Over'
    <3>1. CASE revoked \/ end <= now
      BY <2>5, <3>1 DEF Touch, Over
    <3>2. CASE idleEnd + MaxWait <= now
      <4>1. PICK t \in Nat : t = step[r].begun /\ now <= t + MaxWait
        BY <2>5 DEF RenewalInv, RenewalTypes, StatementsAreRecent, Touch
      <4>2. ~ValidAt(t)
        BY <3>2, <4>1 DEF RenewalInv, RenewalTypes, ValidAt
      <4> QED
        BY <2>5, <3>2, <4>1, <4>2 DEF Touch, Over
    <3> QED
      BY <3>1, <3>2 DEF Over
  <2>6. ASSUME NEW r \in Visits, TouchFails(r) PROVE Over'
    BY <2>6 DEF TouchFails, Over
  <2>7. CASE Revoke
    BY <2>7 DEF Revoke, Over
  <2>8. CASE Tick
    BY <2>8 DEF Tick, Over, RenewalInv, RenewalTypes
  <2> QED
    BY <2>3, <2>4, <2>5, <2>6, <2>7, <2>8 DEF RenewalNext
<1> QED
  BY <1>1, RenewalInvariant, PTL DEF RenewalSpec, RefusedForGood
=============================================================================
