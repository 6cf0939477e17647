# A TLA+ verification of go-starter-kit

This directory models the concurrent parts of go-starter-kit, checks them with
TLC on small instances and proves their main properties with TLAPS for every
instance. `PROJECT.json` maps every definition to the source lines it models.

## 1. The system

Two processes share one PostgreSQL database: an HTTP API (`cmd/api`) and a
worker (`cmd/worker`), each possibly in several replicas. They exchange no
messages; everything between them, and between two requests, goes through rows.
The database runs at READ COMMITTED.

| Component | State | Operations | What is hard |
|---|---|---|---|
| Mail outbox (`modules/mailoutbox`) | table `mail_outbox`; per worker the claimed row | enqueue, expire, claim, send, complete, retry | several consumers, leases against clocks, crash between send and write back, lost answers, cancellation |
| Distributed lock (`platform/locker`) | advisory lock of a server session; a pool of connections; one watching goroutine per task | `TryRun`, `Run`, `Watch`, `Release` | unknown results of lock and unlock, sessions that die unnoticed, two goroutines on one connection |
| Accounts, passwords and sessions (`modules/account`) | tables `users`, `accounts`, `user_sessions`, `auth_verifications` | register, verify, sign in, change and reset the password, revoke, disable and enable, renew a session | slow hashing between a read and the transaction that uses it; versions that make old sessions, challenges and proofs void; renewal against expiry |
| Accounts, flows (`modules/account`) | table `auth_flows`; the configured providers | OAuth sign-in, link, unlink, reauthenticate, first password, change of address | single use of proofs, late and repeated callbacks, limits on accounts, addresses taken from unconfirmed registrations |
| Rate limits (`modules/account`) | `auth_rate_limits` | count under the address and under the subject | the edges of a window, statements applied late |
| Projects and tasks (`modules/project`, `modules/task`, `pagination`) | one table each | create, read, update, delete, page | pages that are read while rows change |
| Password hasher (`platform/password`) | a bounded number of slots | hash, verify | a cancelled wait for a slot |
| Life cycle of both processes (`app/appfx`, `app/api`, `app/worker`) | started hooks, reported failure, deadlines, the pool | start, fail, signal, drain, stop | failure during start or stop, jobs that do not end |
| Audit, notifications, profile | `audit_events`, `mail_outbox`, a name | one statement each, in the caller's transaction | - |
| HTTP, identity, validation, configuration, telemetry, mail sender, federation | none of their own | stateless | - |

How they interact: account transactions insert rows into `mail_outbox`
(`store.EnqueueMail`), so a mail exists exactly if its transaction committed;
workers take them from there. The authentication middleware reads a session,
and the handler runs later with the identities it found. Administration writes
the same rows as the users themselves. The lock is a library that nothing in
the applications uses yet.

Correctness, per component:

- Outbox: a mail is never at the provider twice at once, is sent at most
  `maxDeliveryAttempts` times, is recorded as sent only after the provider
  accepted it, is recorded as failed only for a reason, a worker whose lease is
  over writes nothing, and every mail reaches an outcome.
- Lock: tasks of one key exclude each other as long as their sessions live, a
  pooled connection holds no lock and has one user, a lost session stops its
  task, a cancelled call returns.
- Accounts: a session that is accepted stands for the user's present password
  and standing, a password changes only by right, and nothing that was issued
  before a change of password or standing works after it. A session in use
  lives on, and one that is over never comes back.
- Flows: a flow moves forward only, a proof is spent once and for what it was
  asked for, a sign-in ends in a session of the user who has the proved identity
  at that moment, nobody has too many accounts or loses the last usable one, and
  an address belongs to whoever confirmed it; a user who came from a provider has
  none until then.
- Rate limits: the number of calls in any stretch of time is bounded, and
  `Retry-After` is kept.
- Hasher: no slot is lost, none is used twice, every call ends.
- Life cycle: a signal or failure ends the process, in time, and the database is
  there for as long as the jobs may use it.
- Lists: a reader misses no more rows than left the list meanwhile.

`PROJECT.json` lists, under "hazards", where in the code each of these could go
wrong and which property would show it.

## 2. Modules

| Module | Models | State |
|---|---|---|
| `MailQueue` | what the outbox promises to code that enqueues | outcome and number of deliveries per mail |
| `MailOutbox` | `mail_outbox.sql`, `delivery.go`, `runner.go`, the hooks of `app/worker/module.go` | clock, table, per worker its place and local variables, cancelled workers, next lease identity, deliveries (history) |
| `Locker` | `runner.go`, `postgres/locker.go`, `postgres/lease.go`, for one key | per caller its place, context, connection and watcher; pool, server sessions, lock holder |
| `AccountAuthority` | what password sign-in promises | standing and secret per user, grants |
| `AccountSessions` | registration, recovery, sign-in, sessions, change of password, administration | four tables; per request its place and what it has read |
| `AuthFlows` | `auth_flows.sql`, `store_flows.go`, `reauthentication.go`, the callback of `federation.go`; base of the next two | users, accounts, sessions, flows, configured providers, row locks; per request its place and what it has read |
| `LinkedAccounts` | `federation.go`, `oauth_start.go`, `linked_accounts.go`, `password.go` | as `AuthFlows` |
| `EmailChange` | `email.go`, and `registration.go` and `challenges.go` as far as addresses go | as `AuthFlows`, and addresses and challenges |
| `SessionRenewal` | `AuthenticateSession`, `TouchSession`, one session in time | clock, the three times of the row, revoked, per request its place |
| `RateLimit` | `rate_limit.go`, `auth_rate_limits.sql` | clock, two buckets, calls |
| `Hasher` | `acquire`, `Hash`, `Verify` | places of the channel, waiters, callers, cancelled callers |
| `Lifecycle` | `appfx/run.go`, `appfx/lifecycle.go`, `appfx/module.go`, `api/server.go`, `worker/module.go` | hooks, deadlines, signal, failure, pool, jobs |
| `Listing` | `project`, `task`, `pagination` | clock, a table, a reader |
| `MC*` | model values and symmetry for TLC | - |
| `*Proofs` | theorems and proofs about the module they are named after: `MailOutbox`, `Locker`, `AccountSessions` (and `SessionRenewal`), `LinkedAccounts`, `EmailChange`, `Lifecycle`, `Listing` | - |
| `LoadLimitsProofs` | theorems and proofs about `RateLimit` and `Hasher` | - |

`LinkedAccounts` and `EmailChange` compose `AuthFlows` with the operations that
spend its proofs; the commits of a password login, of an administrator and the
end of a session are actions of `AuthFlows`, because they change the rows that
flows depend on. `AccountSessions` is the detailed model of those.

Names follow the code: an action carries the name of the function or the query
it stands for. Definitions marked "Faulty variant" are slips of the code that a
property must catch; no specification uses them.

### MailOutbox

A statement is one step on the table, because each runs in a transaction of its
own. `ExpireMail`, `ClaimMail` and `FinishDelivery` are the three statements of
`ProcessOne`; `ExpireLost`, `ClaimLost`, `ClaimNothing` and `FinishLost` are the
same statements when the worker gets an error, whether or not the database
committed. `FOR UPDATE SKIP LOCKED` shows as `LockedRows`: a statement may pass
over rows that another worker's statement holds, so the order of the rows is
only kept among the rest.

`SendDeadline` is the earliest of the send timeout, the validity of the mail and
the end of the lease less `leaseFinishReserve`, on the worker's clock. The worker
may lag behind the database's clock by `ClockLag`, which also covers the time
the sender takes to notice its deadline. `ReserveAssumption` (`ClockLag <
FinishReserve`) is what the five seconds of reserve are for; without it two sends
can overlap. `Tick` waits for a send that is at its end: the sender honours its
context, as `docs/mail-outbox.md` requires of it. The provider may accept a mail
although the call fails.

`Stop` is `OnStop` (the context is cancelled; `deliver` then skips the send and
`finishDelivery` still writes, as its context is not cancelled), `Exit` the end
of `Run`, `Crash` the end of the process at any point.

Left out: recipient, subject and body, `last_error`, metrics and logs.

### Locker

`TryAcquire` is split at its two round trips, since the pool and the server
change in between. `LockFailed` and `UnlockFailed` have two outcomes each: the
statement had its effect on the server, or it had none. `Discard` is
`Hijack().Close`, after which the server ends the session at once or later.
`WatchStep` is the goroutine that runs `lease.Watch`; the caller's own steps and
the watcher's interleave. `SessionEnds` is the server ending a session and
freeing its lock, of which the client knows nothing until a statement fails.

The key is one value: other keys share nothing with it but the pool, whose
exhaustion `PoolUnavailable` allows at any time. Argument checks and the
reentrancy check of `prepare` return before any state and are left out.

### AccountSessions

Before its transaction a handler reads rows with single statements and verifies
or computes a hash; each of these reads is a step of its own, and other requests
run in between (`LoginFindUser`, `LoginVerify`, `PasswordReadUser`,
`PasswordReadSelf`, `PasswordVerify`, `VerifyFind`). The transaction is one step
(`LoginCommit`, `PasswordCommit`, `VerifyRegister`, `VerifyReset`, ...): it takes
the user's row lock first, every writer of a user's rows takes that lock, and so
two of them do not overlap. `ForgotPassword` takes no lock; its two reads are two
steps although they are in one transaction. `Fail` is every other way out.

A hash is the password it was made from and whether its parameters are weak. The
upgrade of a weak hash at sign-in (`UpgradePasswordHash`) writes the password that
was presented, under its guard on the hash that was read.
A session keeps, as history, the password that was presented for it. Expiry may
happen at any moment (`ExpireSession`, `ExpireChallenge`), which covers every
choice of lifetimes. `email_verified_at` and `recovery_enabled` are set together
by `ActivateUser` and are one column. `MaxVersion` bounds `auth_version`.

Left out: mails, audit rows and rate limits written in the same transactions,
and the operator of an administrative action: `RequireAdmin` is answered before
the transaction, which does not ask again.

### AuthFlows, LinkedAccounts, EmailChange

A flow is a row whose status only statements with a guarded `WHERE` move
(`CanClaimFlow`, `CanVerifyFlow`, `CanClaimAuthorization`, `CanFinishFlow`). A
transaction that takes the user's row lock is two steps: the statements up to the
last check (`ConfirmLink`, `Unlink`, `SetPasswordLock`, `VerifyChange`) and the
writes with the commit. The lock is state, so that leaving it out is a mutant
that the properties catch; in `AccountSessions` the same transactions are one
step. A transaction without the lock (`startLinkFlow`, `Reauthenticate`,
`completeBoundFlow`, `ChangeEmail`) is a check and a commit that anything may come
between, and what saves it is the guarded statement at its end. Inserting a row
that refers to a user waits for the user's lock, as its foreign key does.

The reads of `Reauthenticate` before its transaction are one step: the second of
them is repeated in the transaction and compared. `Callback` finds and claims its
flow in one step, because what it compares in between never changes in the row or
is compared by the claim. The provider's answer is an input: an identity in its
namespace, or a failure (`CallbackFails`, which is the deferred `FailFlow`; `Fail`
is the same end without it). `Restart` ends every request and may change which
providers are configured; the version of a configuration is a number and 0 means
that the provider is not configured. One configuration is in force at a time: with
several replicas a rolling restart has two in force together, which is not modelled.
`Issuer` gives an identity one provider id. The code would accept two GitHub ids, which
share one namespace, so that an account could be proved through either; such a
configuration is outside the model.

`Init` of `LinkedAccounts` is an empty database or one user with one or two
accounts as registration, sign-in and linking leave them; other histories of a
user differ only in rows that no statement reads again. Flows and sessions expire
at any moment. The token hash, state and verifier are left out: who
presents a flow's token is its browser.

`EmailChange` starts from an empty database, or with one user who came from a provider
before and is signed out. Users register with an address and a
password, or come from a provider: `FederatedRegister` and `FederatedLogin` are the
commits of `completeLogin`, whose flow is followed in `LinkedAccounts`.
`CreateFederatedUser` leaves the address null, and a first change binds one, with a
proof by the provider. `ReleasePendingEmail` takes the
address from registrations that were never confirmed and waits for their row;
`UpdateUserEmail` fails on the unique index if anyone else holds the address.

### SessionRenewal

`AccountSessions` lets sessions expire at any moment; here one session has its
times. Requests decide by the clock of the process whether to touch (`Skew` bounds
its difference from the database's), and the statement decides again by the
database's. `TouchSession` is two steps, its begin (`BeginTouch`), which fixes `now()`,
and its effect (`Touch`), at most `MaxWait` later: it may wait for the row, and then
tests the row as it is by then with the time of its begin. A request goes on whether
or not the statement found the row.

So a session that only just expired may come back: a renewal that began before the
expiry and commits after it revives a session that another request was refused on in
between. `RefusedForGood` is what remains true: a session that was revoked, reached
its absolute end, or is idle beyond its expiry by `MaxWait`, is refused for ever.

### RateLimit

A call counts its address and then its subject, or its address only (starting a
sign-in, verifying a challenge and the callback). `now()` of a statement is the time at
which it began; it may be applied up to
`MaxWait` later, after statements that began after it. Counts and windows are
scaled down; `CountCap` stands for the 1000000 of the statement. `served` and
`promise` are history. `served` records a call that passed with its window and its
number in the window; that no two have the same, so that counting the set counts the
calls, is a lemma (`PassesAreNew`).

### Hasher

The buffered channel hands a place to the first waiting sender. A `select` whose
two cases are ready takes either. A caller that gives up leaves the queue, and the
others keep their order. `New` computes its dummy hash before there are
callers.

### Lifecycle

Three hooks start in order (telemetry, pool, service) and stop in reverse, which is
what Fx does with their dependencies. Every deadline of the code is one: the start
timeout, `ShutdownTimeout` for the drain, and the stop timeout, which is longer by
`infrastructureShutdownGrace`. Time passes only inside hooks. Jobs are the API's
requests or the worker's consumer; they may use the pool and may ignore their
cancelled context: write backs, audit rows and rollbacks run on contexts that are
not cancelled with the job's.

### Listing

A table has rows of two owners; titles and texts are left out. A reader asks for
page after page with the offset advanced by the limit, as a client of the API does.
`created_at` is when the inserting statement began, and identifiers are random, so
a new row may appear anywhere in the list.

## 3. Runs

| Run | Instance | Checks |
|---|---|---|
| `mail_outbox` | 1 mail, 2 workers, 3 attempts, lease 3, send timeout 2, reserve 2, lag 1, validity 2 or 8, clock to 9 | type invariant, no overlapping sends, sends under a lease, bound on deliveries, failures only when due, stale workers write nothing, refinement of `MailQueue` |
| `mail_liveness` | 2 mails, 1 worker, 2 attempts, batch 1, clock to 5, fair | every mail reaches an outcome |
| `locker` | 2 callers, 3 connections, pool of 2, fair | type invariant, exclusion, clean pool, one user per connection; a lost session stops its task; a cancelled call returns and no attempt hangs |
| `account_sessions` | 2 users, 2 addresses, 2 accounts, 2 sessions, 2 challenges, 2 passwords, 2 requests, versions to 3 | the properties of section 1 and refinement of `AccountAuthority`, with users that must not affect each other |
| `linked_accounts` | 1 user, limit of 2 accounts (3 rows), 3 flows, 2 identities of one provider, 2 requests, linking and first password, versions to 2 | type invariant, limit on accounts, proofs and links stay paired, accounts are added only by proof |
| `sign_in_unlink` | 1 user, 2 accounts, 2 sessions, 2 flows, 1 identity, 2 requests, sign-in, registration and unlinking, versions to 2 | flows move forward, nobody loses the last usable account, sessions are bound to the proved identity |
| `email_change` | 2 users, 2 addresses, 2 challenges, 1 session, 1 provider and identity, 1 proof, 2 requests, versions to 3 | addresses are confirmed or not yet bound, and are bound and move only by confirmed change |
| `rate_limit` | 2 calls at a time, limits 2 (address) and 1 (subject), windows of 2 and 1 seconds of 2 ticks, statements late by 2 ticks, clock to 8 | quota in every stretch of time, honest `Retry-After` |
| `session_renewal` | 3 requests, idle 6, absolute 20, renewal 2, skew 1, statements late by 2, clock to 24 | use keeps a session alive; once over it is refused for ever |
| `hasher` | 4 callers, 2 slots, fair | slots are held exactly; every call ends |
| `lifecycle` | both processes, 2 requests, timeouts of 2 ticks each, fair | the pool outlives jobs, what started is released, the process ends |
| `listing` | 2 owners, 3 rows, pages of 1 or 2, offset to 2, clock to 1, 2 removals | a walk misses no more than was removed |

Why the bounds are enough for the interesting cases. Two workers are what a
lease can go wrong between; three attempts give a first, a middle and a last
one; the clock runs past three leases, and past the shorter validity while a
mail is in hand. Two callers on a pool of two give one that runs and one that is
refused, and a third connection lets a discarded session
live on beside a full pool; fairness does not promise a connection, so that a call may
find the pool exhausted for as long as it waits. For accounts, races are between two requests; versions
to 3 allow two changes (a change and its repetition, or disable and enable). Two
challenges are a registration and a reset of one user, or a registration of each.

For flows, three flows are two proofs and a link, or a proof by a provider and a
link by the same one; two flows of a sign-in or a proof each are what two
concurrent callbacks need; two accounts at a limit of two are full, and three rows
let a faulty version exceed it. `MaxConfig` is 1: a flow compares its version with
the present one for equality only, so a provider that is gone and one that is
configured differently refuse it alike. In `email_change` two challenges are the
registration of a user and that user's change to another address, or a registration,
pending or confirmed, and the first change of a user from a provider to the same
address. Between them the runs leave two things to the theorems:
unlinking is not among the operations of `linked_accounts`, so that the unlink half of
`ProofAuthorises` rests on `ChangesNeedProof`, and `sign_in_unlink` has no links, so that
the edges of `FlowsMoveForward` through "verified" and "claimed" rest on
`FlowsOnlyMoveForward`. `OneCredential` is a property of users with a password:
unlinking, and users from a provider, are outside `AccountSessions`.
In `rate_limit` the clock spans several windows of both buckets and a statement may
be late by a whole window. In `session_renewal` the absolute end comes after three
idle times, and a statement may be late by the renewal interval, more than the code's
request timeout allows for the default lifetimes. In `lifecycle` timeouts of two ticks have a moment before, at and
after each deadline. Three rows on pages of one or two give a walk of several
pages, and pages beyond the largest offset.

Where the model values are interchangeable the cfg says so, and the runs with
symmetry check no liveness.

Deadlock is checked except where behaviours end: in the account, flow and address
runs (identifiers and versions are used up, or every user is disabled), in
`session_renewal` (the clock stops at its bound) and in `lifecycle` (the process
exits).

Fairness:

- `MailOutbox`: the clock moves; a worker that is down is started again (the
  deployment's restart policy); statements and sends that were begun come to an
  end with some result (`databaseTimeout`, `sendTimeout`); and a worker that
  comes back to its scan again and again gets it through once (strong fairness
  on `ExpireMail`, as crashes interrupt it). Neither a claim nor a send is ever
  assumed to succeed. Mails whose validity and last lease do not end before the
  bound of the clock are outside the property.
- `Locker`: the caller's and the watcher's goroutine run on, as statements have
  timeouts; a task whose context is cancelled returns, as the comment on
  `Locker` requires of callbacks. A task that is not cancelled may run for ever, and
  the pool is not assumed ever to have a connection: what ends the wait for one is
  `AcquireTimeout`.
- `Hasher`: every goroutine runs on and the hash functions end. Cancellation and
  new calls are not assumed. Weak fairness is enough because the channel serves its
  waiters in order.
- `Lifecycle`: the goroutine of `runApplication` and the one that closes the pool
  run on, and time passes. No job is assumed to end, and neither a signal nor a
  failure is assumed to come.

## 4. Proofs

All theorems hold for arbitrary sets and bounds under the named assumptions
(`ConstantsAssumption`, `ReserveAssumption`, `LockerConstants`,
`AccountConstants`, `FlowConstants`, `StartConstants`, `RenewalConstants`,
`LifecycleConstants`, `LimitConstants`, `HasherConstants`, `ListingConstants`), which TLC evaluates in every run.

**MailOutbox.** `LeaseInv` strengthens the two properties about sends: a row is
in processing exactly while it carries a lease; a worker's copy of its lease
agrees with the row or is over; no two workers hold one lease; a send ends
strictly before its lease. It is needed because "no overlapping sends" speaks of
two workers and says nothing about a row that a third could claim. `AttemptInv`
counts: a worker that may still call the provider under the row's lease has an
attempt in hand that no delivery has used. From these follow `LeaseSafety`,
`DeliveriesAreBounded`, `FailuresAreDue`, `StaleConsumersCannotWrite` and, with
a step-by-step mapping, `OutboxImplementsQueue`.

**Locker.** `HoldInv`: a holder's session is alive, a caller between acquisition
and release whose session is alive holds the lock, and neither a pooled
connection nor one on which the lock is being tried does. `OneUser` is inductive
with the types and is used to see that a step of one caller does not touch the
connection of another. `TasksAreExclusive` and `PooledConnectionsHoldNoLock`
follow.

**AccountSessions.** `TypeOK` contains that references lead to rows and that a
request keeps what it uses later; both are needed to expand the transactions.
`CredentialInv` is the argument behind the versions: a session is no newer than
its user; a live session of the user's present version was opened with the
password its account has; and what a request has verified is stored still,
unless the account's version moved on. It is inductive because every change of a
password advances the account's version and, through `invalidate`, the user's
version, and ends the user's sessions in the same transaction. It gives
`SessionsHoldTheirPassword` and, as an action property, `PasswordsChangeByRight`.
`UsersHaveOneCredential` is inductive with the types.
`ChallengeInv` adds that no challenge, and no request about to insert one, has a
version that its user has not reached: since versions only grow, a challenge that
was refused for its version stays refused (`RefusedChallengesStayRefused`), and one
that is current loses its version in the very step that changes password or
standing (`ChangesLeaveNothingBehind`). `HolderInv` says that a request acts for
the user of the session it came with.
`SessionsImplementAuthority` is the refinement. The mapping takes the standing of
a user from its row, its secret from its one credential account
(`UsersHaveOneCredential` makes the `CHOOSE` of the mapping harmless), and the
grants from the sessions that `GetValidSession` accepts (`SessionsHoldTheirPassword`
gives them the password they carry). Statements that read, wait or fail stutter;
the commits of registration, sign-in, change and reset of a password and of an
administrator map to the steps of the same meaning, and the end of a session to the
loss of its grant.

**LinkedAccounts.** The proof goes in three layers. First, one lemma per table
(`UserMoves`, `AccountMoves`, `SessionMoves`, `FlowMoves`, `RequestMoves`) says what
any step may do to a row; every later lemma uses these and not the actions.
`FlowsOnlyMoveForward` is nearly one of them. Second, `LinkInv`: types; rows refer
to rows in use; the columns of a flow fit its status (no identity before the
callback, no claim before the claim); and what a request remembers without a lock is
still in use. Third, `LockInv`: what `ConfirmLink`, `Unlink` and `SetPassword` checked
after `LockUser` (the proof, the number of login methods, the other enabled account)
holds until they commit. It is needed because their commits do not look again, and
it is inductive because every transaction that adds, removes or revokes an account
of a user holds that user's lock, and a proof only loses its standing together with
the version of the user or of its account. From it follow `AccountsStayWithinLimit`
(with counting: an insert adds one to a set that was smaller than the limit),
`UnlinkLeavesAccess`, `ChangesNeedProof`; `ProofsStayPaired` adds that the link flow
and its proof are claimed and spent in the same steps, and `SignInsAreBound` uses
that the flow of a callback is of the present configuration, since a restart ends
every callback.

**EmailChange.** Again one lemma per table, then `EmailInv`: rows in use; a challenge
for a new address belongs to the owner of the session that asked; and under the row
lock the version, the address of a registration, and the proof claimed for the
challenge stay what `VerifyChallenge` found (`UnderLock`: nobody but the holder
changes a locked row, since `ReleasePendingEmail` waits for the lock of the
registration whose address it takes). `AddressesAreConfirmed` is inductive with it: a
user who came from a provider never has a challenge of a registration, so nothing but
a change can give such a user an address. `AddressesMoveByRight` follows from one step.

**SessionRenewal.** `RenewalInv` says that `idle_expires_at` is always what the last
renewal made it, and that a request that was let in without a renewal came at most
the renewal interval and the skew after the last one. The second part is what
`KeepsAlive` lacks to be inductive: it ties the history variable to the row.
`SessionsStayOver` needs that no statement under way began more than `MaxWait` ago, so
that one that finds the row valid found a session whose expiry is not that far back.

**Lifecycle.** `HookInv` ties the state of the pool to the hooks, `JobInv` says that
work is accepted only between start and stop of the service and that what is left
afterwards was cancelled, and `DeadlineInv` that whoever stops the service or comes
to the pool still has time for the pool: the drain is shorter than the stop by the
grace, and a rollback starts before the start timeout. `PoolClosesLast` follows from
the first two, `ProcessReleases` needs the third.

**RateLimit.** `LimitInv`: a window ends its length after it began, no statement is
ahead of the clock, and what a refused caller was told is not before the end of the
window it ran into. With it `RetryAfterIsHonest` is a matter of rounding up
(`RoundedUp`): the seconds are computed from the statement's own earlier time, which
only makes them longer. `QuotaInv` adds what `SlidingQuota` needs and does not say:
a call passes before the end of its window plus `MaxWait`, windows are a length
apart, and a window numbers its calls. Hence no three windows meet in one stretch of
time, and the numbers of the calls of one window inject them into `1..Limit`. That
windows are a length apart holds although late statements are applied with an old
`now()`: a window is replaced only by a statement that began after its end.

**Hasher.** `SlotInv` is `SlotsHeld` with the types and with the fact that nobody is
in the queue twice; without it the caller that is served, or gives up, might stay
behind in the queue. The proof counts the holders: a place that is handed on takes
one caller out of the set and puts another in.

**Listing.** `WalkInv` says that the rows which the reader has passed without seeing
them (`Passed`: kept, not seen, and placed before its offset) are no more than the
rows that left the list. Places are distinct and without gaps (`Places`), so that a
row that leaves lets at most one row cross the offset, the one that stood on it, and
rows that are added let none. When a page comes back with no more rows than it shows,
every row of the list is before the next offset (`LastPage`), and what was missed has
been passed.

**Model-checked only.** Liveness (`EventuallyClosed`, `LossNoticed`, `CallsReturn`,
`CallsEnd`, `Ends`) rests on fairness, which the prover does not handle. Every
invariant and every other action property of the runs is proved.

## 5. Not modelled, and why

Stateless code (routes, DTOs, validation, error mapping, identity, logging,
configuration) has no behaviour between steps. The audit trail is append-only and
never read to decide anything; the profile is one column that nothing depends on.
The mail sender, PostgreSQL, pgxpool, Fx and the OAuth provider are external: they
appear as the outcomes their callers must expect. Waits inside PostgreSQL are not
modelled beyond the lock on a user's row: a transaction that its deadlock detector
ends is a request that fails. Locks of several keys at once are their callers'
business. Migration runs before the processes.

## 6. Plan

1. An abstract specification of the distributed lock (one task at a time while its
   session lives) that `Locker` is shown to implement.
2. `LinkedAccounts` against `AccountAuthority`, with federated identities as secrets.
