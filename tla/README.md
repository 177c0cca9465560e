# A TLA+ model of the content platform

The content platform is a Go HTTP server (`internal/`, `cmd/`) whose present
milestone is the identity module: accounts, login sessions with rotating
refresh secrets, profiles, mutes that run out by themselves, and the status
orders of administrators.  All of its state is in three PostgreSQL tables; the
server keeps none.  What is hard about it is therefore concurrency: every
request is a goroutine, every operation is a read without locks, a wait for row
locks, a decision under the locks and a commit, and any of these can interleave
with any other, be cut off, or lose its confirmation.  Around it is the
process itself: a start that can fail half-way and a shutdown that has to drain
the handlers before it closes the database under them.

This directory holds TLA+ modules that model both, TLC runs over small
instances, and TLAPS proofs for instances of every size.

## 1. The system

| Part | State | Operations | Talks to |
|---|---|---|---|
| identity service (`internal/identity/service`) | none | `Register`, `Login`, `Refresh`, `Logout`, `Authenticate`, `Me`, `PublicUser`, `UpdateMe`, `DeleteMe`, `ChangeUserStatus` | the repository through the ports of `ports.go`; clock; token codecs; password hasher |
| identity repository (`internal/infra/postgres/identity`) | none; the tables | `WithinTx`, `LockUsers`, `LockSessions`, `CreateSession`, `RotateSessionToken`, `RevokeLockedSessions`, `RevokeSession`, `UpdateUser`, `RecoverExpiredMute`, `InsertAudit`, `CreateUser`, `Find...` | PostgreSQL: row locks, READ COMMITTED snapshots, CHECKs, one sequence per table |
| identity domain (`internal/identity/domain`) | none | permissions of a status, time truncation, text validation | called by the service |
| token codecs (`internal/infra/token`) | none | sign and verify access tokens; draw, format, parse and match refresh secrets | called by service and middleware |
| authentication middleware (`internal/platform/authn`) | none | verifies the access token only, reads no table | in front of the handlers |
| handlers, HTTP plumbing (`internal/identity/handler`, `internal/platform`) | none | decode, encode, map errors | service |
| health (`internal/system`) | none | liveness; readiness with two concurrent pings under timeouts | PostgreSQL, Redis |
| application (`internal/app`, `cmd/server`) | process: resources, listener, server goroutine | start, serve, shut down | all of the above |
| migrations, configuration, logging | none at run time | | |

**Interactions.**  A handler calls one service operation.  An operation that
changes something calls `WithinTx` with a callback; the callback takes locks on
account rows (always first, in ascending id), then on session rows (ascending
id), reads the clock, decides, and issues its writes; `WithinTx` commits if the
callback returned nil and rolls back otherwise.  Some operations read before
they lock: `Login` (credential), `Refresh` (owner of the session), `Me` and
`PublicUser` (the row shown).  `Logout` is one conditional `UPDATE` without an
explicit lock.  The application owns the database and the Redis client that all
handlers share, and closes both when the HTTP server has ended.

**What is hard, and what makes it right.**

* *Closing an account.*  A ban or a deletion must leave no live session, even
  though a login may have checked the password before it and a session may be
  created while it waits.  (`ClosedAccountsSignedOut`)
* *One-time secrets.*  Racing or retried refreshes with one secret: at most one
  succeeds.  (`SecretUsedOnce`)
* *Mutes that end by themselves.*  Whoever meets an expired mute ends it, and
  writes one audit entry, although several requests may meet it at once and
  two of them use a time sampled before their wait.  (`EveryChangeAudited`,
  `UpdatedAtMonotone`)
* *Locks.*  Orders lock two accounts and several sessions.  (`NoDeadlock`,
  `QueuedAnswered`)
* *Authority.*  An order that waits must be judged by the standing of its
  administrator when it takes effect.  (`AuthorityAtCommit`)
* *Atomicity.*  Decisions under locks may not be stale at the commit; a cut
  transaction leaves nothing; a commit whose confirmation is lost leaves all.
  (`ImplementsPolicy`, a refinement)
* *The schema.*  Under one clock that does not go back, no sequence of legal
  operations runs into the CHECKs on mutes and on the times of a session.  On
  instances whose clocks differ a logout can (see the findings).  (`StoreChecks`;
  `SessionHistory` for what must not be rewritten)
* *Addresses.*  One account per e-mail address, however it is spelled and
  however registrations race or are retried, and open to whoever made it.  (`OneAccountPerAddress`,
  `TakenIsTaken`, `RegisteredCanLogin`)
* *Tokens and clocks.*  An access token is checked against a clock alone, on
  whatever instance it is shown to; how long it outlives its session, and what it
  opens until then, must not depend on how the clocks differ.
  (`TokensWithinSession`, `RevokedTokensExpire`, `RevokedTokensPowerless`,
  `LogoutEndsSession`, `UnauthorizedHasCause`)
* *Connections.*  A transaction keeps its connection while it waits for rows.
  (`PoolNotWedged`, `QueuedAnswered`)
* *Readiness.*  Two pings that can hang, in the time of the slower one.  (`VerdictEarned`,
  `WaitsForTheLonger`, `ProbeAnswered`)
* *One true answer.*  Errors, results and panics all end in one envelope, under
  its status, with its headers and one line in the log.  (`AnswerTruthful`,
  `HeadersFitStatus`, `LoggedAsSent`)
* *The end of the process.*  Exit code 0 only after a clean end; the database
  outlives the connections, unless the listener fails by itself; nothing is left
  open; no handler can hold the end up.  (`CleanExit`, `StoppedBeforeClose`, `NothingLeftOpen`, `Stops`)

The full list of hazards, each with its line and the properties that watch
it, is `hazards` in `PROJECT.json`; the components and their status are
`components`.

## 2. The modules

    IdentityDomain          rules on one row: status, mute, audit, session
      IdentityStore         tables, row locks, write sets, commit
        IdentityService     requests: one action per step of an operation
          IdentityProperties    invariants, action properties, what is inductive
            IdentityProofs      TLAPS: closed accounts, types
              IdentityHistoryProofs     TLAPS: rows, audits, secrets, refinement
                LockingProofs           TLAPS: row locks, the pool
          IdentityRefinement    IdentityService implements AccountPolicy
          PooledService         IdentityService over a pool of connections
            MCPooled            instances for TLC
      AccountPolicy         abstract: every change one atomic step
    MCIdentity              instances for TLC
    AccessTokens            tokens, sessions and clocks, on several instances
      AccessTokensProofs    TLAPS
      MCAccessTokens        instances for TLC
    Registration            Register against the unique index, with its properties
      RegistrationProofs    TLAPS
      MCRegistration        instances for TLC
    ServerLifecycle         start, serving, shutdown, with its properties
      ServerLifecycleProofs     TLAPS
      MCServerLifecycle         instances for TLC
    Readiness               the probe and its two checks, with its properties
      ReadinessProofs       TLAPS
      MCReadiness           instances for TLC
    HTTPPipeline            one request through middleware, handler and back
      HTTPPipelineProofs    TLAPS

### IdentityDomain

Constant-level operators for the code that decides on one row:
`CanLogin`, `CanEditProfile`, `CanDeleteAccount`, `ValidAdministrativeTransition`,
`MuteExpired` / `Recovered` (the conditional `UPDATE` of `RecoverExpiredMute`),
`RecoveryAudit`, `Usable`, `NewSession`, and CHECKs: that on mutes (`MuteCheck`) and
those on the times of a session (`SessionRowChecks`).  A row keeps `status`,
`muted_until` and `updated_at`.  `deleted_at` is left out because a CHECK ties it to
the status.  `created_at` is not kept either: the `INSERT` stamps it together with
`updated_at` and nothing writes it again, and a deletion stamps `deleted_at` with the
time of its `updated_at`, so that the CHECKs of `00002_identity.sql:13-14` say that
`updated_at` does not go back behind its first value, which `UpdatedAtMonotone` covers.

### IdentityStore

The tables `users`, `sessions`, `audits`; the sequence `sessionSeq`; the lock
tables `userLock` and `sessionLock`; the wall clock.  A transaction is named
after its request.  Its writes collect in a write set `ws[r]` that only
`ApplyWrites` makes visible, so that a rollback is the loss of the set and the
release of the locks.  A `SELECT ... FOR UPDATE` takes the locks of its rows one
by one, in the order of the `ORDER BY`.

### IdentityService

One request per goroutine, in stages: `new`, `check` (after an unlocked read),
`users` (locking account rows), `select` (snapshot of the locking select),
`sessions` (locking session rows and rechecking each), `body` (the callback),
`commit`, `revoke` (the statement of a logout), `done`.

| Code | Actions |
|---|---|
| `Login` | `StartLogin`, `LockUser`, `LoginTx`, `Commit` |
| `Refresh` | `StartRefresh`, `LockUser`, `SelectSessions`, `LockSession`, `RefreshTx`, `Commit` |
| `Logout` | `StartLogout`, `RevokeSession` |
| `Authenticate`, `Me` | `StartMe`, `CheckSeen`, `LockUser`, `RecoverTx`, `Commit` |
| `PublicUser` | `StartPublicUser`, `CheckSeen`, `LockUser`, `RecoverTx`, `Commit` |
| `UpdateMe`, `DeleteMe` | `StartProfileTx`, locks, `UpdateMeTx` / `DeleteMeTx`, `Commit` |
| `ChangeUserStatus` | `StartChangeUserStatus`, locks, `ChangeUserStatusTx`, `Commit` |
| context cancelled, statement failed, process gone | `Cut` |
| confirmation lost | `CommitUnconfirmed`, `RevokeUnconfirmed` |

What a callback writes is an operator of the time `t` it samples (`LoginWrites`,
`RefreshWrites`, `RecoverWrites`, `UpdateWrites`, `DeleteWrites`, `StatusWrites`), as
are the conditions under which it writes (`RefreshAdmitted` and its like): the action
takes the time of the clock, and the proofs can ask later what the callback would
decide now for the time it sampled then.

`RevokeLockedSessions` updates the rows that are not revoked yet and fails, with its
transaction, if those are not all it was given (`Revocable`); the failure is `Cut`.

`Authenticate` is `Me` without the view.  An order whose actor is its target, or
whose mute has no end, is refused before any state is read, and is not started.

### AccountPolicy and IdentityRefinement

`AccountPolicy` has the tables and the clock but no requests, locks or
transactions.  Its steps are `SignIn`, `Rotate`, `SignOut`, `Edit`, `Delete`,
`Order`, `EndMute`, `EndMutes`; each is guarded by the account and the sessions
*as they are at that step*.  Only the time a step stamps may lie before it,
never before the last change of the account.  `ImplementsPolicy` says that the
service, with everything but its tables hidden, does only such steps: each
commit is one, although it was decided earlier.

### Registration

`Register` and the `INSERT` of `CreateUser`, in the steps PostgreSQL gives it:
draw an id (`DrawId`), enter the unique index after waiting for undecided entries
of the same address (`EnterIndex`), commit (`Commit`, `CommitUnconfirmed`), or fail
(`Cut`).  `NormalizeEmail` is the constant function `Canonical` from spellings to
spellings, applied twice the same as once.  How an `INSERT` waits for undecided
entries (`Undecided`) is PostgreSQL's doing and taken at its word; nothing is claimed
of when it ends.  `Login` goes through the lookup by address with the comparison of
the password and the first look at the status (`FindCredential`), and the second look
under the lock (`LoginTx`); the account may be banned and opened again (`SetStatus`)
or deleted (`DeleteMe`, which keeps the address) before, between and after.  The
module has its own small account table, because the other operations do not read
addresses and accounts never disappear: `IdentityStore` starts where it ends.

### ServerLifecycle

The main goroutine (`main`) goes through the configuration (`Configure`),
`newWithDependencies`, `Run`, `Serve` and `closeResources`; `server` is the goroutine of `server.Serve`, `serveErrors`
its channel, `conn` the connections with their handlers.  `net/http` is
external and modelled by what `Serve` relies on (see the head of the module).
`failed` says that some error has been joined to the result of `Run`.

When the listener fails by itself at the moment of a signal, both cases of the
`select` of `Serve` are ready and either may run.  If it is the failure, the database
is closed under the handlers without the orderly steps that `src/README.md:503-511`
lists for a signal.  `StoppedBeforeClose` names this case: it is the only one in which
the database goes before a connection, no `Shutdown` was begun in it, and the exit
code is 1.  `closeOnce` is left out: each path through `Run` reaches `closeResources`
once.

### AccessTokens

`IdentityService` has one clock and no tokens.  Here each instance in `Servers`
samples a clock of its own, `offset[i]` away from true time, in ticks finer than
the seconds that the service stores and signs (`Now`).  A token is signed in
`LoginTx` or `RefreshTx` with the end `TokenExpiry`, is `given` to clients by a
confirmed commit, and is verified by `Use`, the middleware, against the clock of
any instance and nothing else.  Behind it are `SampleLogout` / `RevokeSession`,
`ReadMe` / `CheckMe` and `DeleteTx`, which look at the session again or do not.
All sessions belong to one account, whose lock is `holder`; the rows a transaction
has changed stay locked until its commit (`Locked`).  A revocation whose time lies
before the creation of the row fails the CHECK (`RevocationChecks`), which a single
clock excludes.  `endedAt`, `admittedAt` and the `skew` of a token are history, in
true time.  A client that has already left is turned away by the middleware
whatever its token; it reads no answer, so this is left out.

### PooledService

`IdentityService` with `sql.DB` in front: a request is `queued` before its first
statement, `PooledStart` needs a free connection for an operation that reads first,
`Connect` takes one for a transaction or for the statement of a logout, and whatever
ends the request gives it back (`Kept`).  The steps in between are those of
`IdentityService`, unchanged.  `Stalled` names requests that may stop for ever.

### Readiness

`Begin` starts the two checks, each with its own `timer`; a check ends in
`PingAnswers` or `PingFails` and sends its result into the channel `results`;
`Collect` is one round of the loop.  `Tick` is time passing for one probe: no
goroutine that can run is left behind by it.  A driver may outlive the end of its
context: `redis.New` (`redis.go:19-25`) does not set `ContextTimeoutEnabled`, so a read
under way ends with the read timeout of the client.  That the driver of `d` outlives
it by no more than `Grace[d]` is an assumption on the drivers, which no code of this
repository sees to; what `WaitsForTheLonger` adds to it is that the two checks run at
once, so that a probe takes the time of the slower one and not of both.

### HTTPPipeline

The chain of middleware is a stack `Chain`.  A request descends it (`Enter`), makes
the checks of its route in the order of the handler (`CheckGuard`), calls the service
(`CallService`, with any of the errors that operation can return), and returns
through the layers (`Return`); or something panics, and the panic passes the layers
until one recovers it (`Unwind`).  `Written` is the `statusRecorder`: the first status
stands and takes the headers set by then with it.  Two answers are not one envelope
under the id of the request: `ServeMux` redirects a path that is not clean
(`uncleanPath`) by itself, without one, and data that `json.Marshal` refuses
(`unencodable`) becomes an internal error whose envelope lacks the id (`Envelope`).  A
panic comes before the answer: `WriteData` and `writeError` are the last statement of
every path through a handler.  The service never being nil, and
the principal never missing behind the middleware, the guards against both are left
out.

### What the models abstract

* Replies are `ok`, `refused` (any client error) or `internal`.
* Names, biographies, e-mail addresses and passwords carry no data; whether a
  password or a name differs is a choice.  No code changes a password hash or a
  role, so the second comparison of the hash in `Login` is left out and `Admins`
  is a constant.
* A refresh secret is named after the request that drew it.  Requests are
  one-shot; a client that retries is another request.
* Time is in whole seconds, as `NormalizeTime` leaves it, and in `IdentityService`
  one clock serves all and never goes back; `AccessTokens` drops both.  What
  `StoreChecks`, `UpdatedAtMonotone` and the recoveries say is therefore for one
  clock; with several, `updated_at` may go back by as much as they differ.
* An account id that does not exist is `NULL`.  Account rows are never removed.
* PostgreSQL is taken at its word for atomic commits, row locks and READ
  COMMITTED.
* `violation_count` and the reason of an order are not kept.
* A failed opening of the database counts as closing it.

## 3. The runs

Every cfg checks deadlock: `Answered` and `Exited` stutter once everything is
over, so a deadlock reported would be a real one.

| Run | Question | Instance | Distinct states |
|---|---|---|---|
| `sessions` | can a session outlive its account, one secret buy two sessions, the past of a session be rewritten, or requests wait for each other's rows in a circle | 2 accounts (1 admin), 3 requests: login, refresh, logout, delete, status | 341,000 |
| `moderation` | do mutes, orders and late recoveries keep audits and times in order | 3 requests: public, status; 2 seconds | 320,000 |
| `refinement` | is every interleaving of all operations one of atomic steps, can one run into a CHECK, and can an administrator act after the standing is gone | all operations, all statuses, 2 requests, cut anywhere | 418,000 |
| `pool` | can rows and connections be waited for for ever | 2 accounts, 1 session, 2 connections, 3 requests: refresh, logout, delete, status, cut anywhere, no symmetry | 54,000 |
| `pool_stalled` (violation) | does a wait for a lock end if its holder stalls | 2 requests, one of which may stall | |
| `tokens` | how long does a token outlive its session, and when is it turned away | 2 instances, clocks a leeway apart, half-second ticks, 3 requests: login, refresh, logout, ban | 1,510,000 |
| `tokens_clock_set` | what is left of it when a clock is set, requests are cut off and confirmations lost | 1 instance, 3 requests: login, refresh, logout, me, delete | 1,080,000 |
| `tokens_logout` (violation) | does an admitted logout always succeed | 2 instances, 3 requests: login, logout | |
| `registration` | can an address have two accounts or be refused for nothing, and can an account be lost to its owner | 2 addresses, one with 2 spellings, and no address; 3 requests, no symmetry; bans and deletions at any time | 326,000 |
| `lifecycle` | can the process end wrongly, and does it always end | 3 connections, no symmetry | 2,500 |
| `readiness` | can a probe lie, wait for both timeouts in turn, or stay without an answer | 1 probe, PostgreSQL with timeout 3 and grace 1, Redis with 2 and 3 | 4,400 |
| `http` | is every answer the one that belongs to what happened | every route, check, result and panic | 1,500 |

**Bounds.**  A hazard here takes two requests that conflict and at times a third
that changes the ground under both, on one account and the administrator's own;
so three requests, two accounts (orders on each other's account cross in their locks,
although only one of the two can be granted), and `MaxSessions` enough for the seed sessions and one login per
request (`LoginTx` waits for a free id, and always has one).  `MaxTime` is 1
where only the order of instants matters (a mute or a session that has or has
not run out) and 2 where a mute must be set anew after one has expired.
`RefreshTTL` is 1 where sessions are to expire during the run and larger where
they are not.  Seeds let each account start in the statuses the run is about,
with one session for each of two accounts.  `pool` has the administrator's only,
which every request of the run is about.  Lost confirmations and requests cut
off are in `refinement` and `pool`: they multiply the states of `sessions`
threefold, and its invariant is proved with them.  Requests are a symmetry set, except
where liveness is checked.  Time stands still in `pool`: nothing there depends on
it.  Probes share nothing but the dependencies, which may do anything at any time,
so that one probe shows what many would.

For the tokens a second is two ticks, so that an instant can fall inside one, the
clocks of `tokens` are as far apart as the leeway allows (`AtTheLeeway`: three
requests then meet a token from the future that is admitted and one that is not),
those of `tokens_clock_set` further (`BeyondTheLeeway`), and the lifetimes are the
smallest that the configuration admits, one more where a session must outlive a
token.  The timeouts of `readiness` differ, as the defaults do, and so do the graces,
so that the time of either check and their sum can be told apart.  Three requests on a pool of
two connections are the smallest instance in which one holds a row, one waits for it
and one waits for a connection.

**Fairness.**  `PoolFairSpec` assumes weak fairness of `PooledStart(r)`, `Connect(r)`
and `PooledServe(r)` for each request that is not `Stalled`: a goroutine that can go on
does, a free connection is handed to the waiter who came first, and a lock wait whose
row stays free is granted.  `sql.DB` and PostgreSQL queue their waiters and each
request of a run is served once, so that a waiter is overtaken finitely often and
weak fairness suffices.  Nothing is assumed of the start of requests, of `Cut` or of
the clock.  `FairSpec` of the probe assumes that time passes, that a ping returns once
its context has ended, and that the handler is scheduled; nothing of the dependencies
or the client.
`FairSpec` of the lifecycle assumes weak fairness of the
main goroutine, whose every call returns (pings and `Shutdown` have timeouts),
and of `server.Serve`; handlers and clients may hang for ever.

Each property has a mutant: a definition of the code with a plausible bug
(listed under `mutants`; most sit next to the definition they replace) with
which the same run reports the property violated.

**Findings.**  Two runs refute what the documents of the repository say.

* `tokens_logout`, `AdmittedLogoutSucceeds`.  `src/README.md:290` has logout need
  nothing but a valid token, answer 200 also if no row was changed, and be safe to
  retry.  `Logout` stamps `revoked_at` with the clock of its own instance.  If that
  clock is behind the one that opened the session, by less than the 30 seconds for
  which `Verify` forgives it, the time lies before `created_at`, the CHECK of
  `00002_identity.sql:34` fails the `UPDATE`, and the client gets a 500 with the
  session still live.  `LogoutEndsSession` holds all the same: no logout is confirmed
  that did not happen.  `CloseAccount` has the same path: a deletion or a ban asked
  for on such an instance fails as a whole.
* `pool_stalled`, `LockWaitsBounded`.  The design of the identity module
  (`2026-09-01-m2-identity-auth-design.md:693`) has lock waits limited by the deadline
  of the context.  No code gives the context of a request a deadline, and no
  `lock_timeout` is set.  `QueuedAnswered` shows that all requests are answered as long
  as none stalls.

## 4. The proofs

Checked by tlapm 1.4.5, with no trusted step.  Every invariant and action property
that a passing run checks is also a theorem, and so is the refinement; the table of
theorems is `theorems` in `PROJECT.json`.  The assumptions are those the modules
name, which TLC evaluates for each instance: constants have their types; `NULL`,
`SeedSecret` and the names of operations and of answers are none of the values they
stand beside; the accounts are a finite set (`AccountsAssumption`: rows of a table).
Each inductive invariant below was first checked by TLC as an invariant of the
instances of section 3.

**IdentityProofs** is for any set of accounts and requests, any number of sessions,
any `RefreshTTL` > 0.

* `Invariant`: `Spec => []ClosingInv`
* `TypeCorrect`: `Spec => []TypeOK`
* `ClosedAccounts`: `Spec => []ClosedAccountsSignedOut`

`ClosedAccountsSignedOut` is not inductive: it says nothing of a ban that has
chosen its sessions, or of a login that has created one, and not yet committed.
`ClosingInv` adds, for every request: `Ready` (it knows its inputs), `Locked` (it
holds the rows it works on), `Covered` (from the snapshot of `LockSessions` to the
callback, every live session of the account to be closed is a candidate or
locked), `WritesOwned` (its write set touches only what it has locked or
created), `CommitClosesAll` (whatever its commit leaves banned or deleted it
leaves without a live session), and `IdsFresh` (two logins never share an id).
The argument: a session can only become live by a login, which holds the account's
lock; a closing transaction holds the same lock from before its snapshot, so that
`Covered` cannot be broken by another request; `Covered` at the callback gives
`CommitClosesAll`; that is stable until the commit because the rows it speaks of
are locked; and the commit turns it into `ClosedAccountsSignedOut`.  The proof has
one lemma per action, and shares the part about the requests that do not move
(`OthersIntact`).

**IdentityHistoryProofs** is about what happens to a row over time.

* `HistoryInvariant`: `Spec => []HistoryInv`
* `StoreChecked` (`StoreChecks`, under the one clock of this model),
  `SecretsUsedOnce` (`SecretUsedOnce`)
* `SessionsKeepPast` (`SessionHistory`), `UpdatesMonotone` (`UpdatedAtMonotone`),
  `AuthorityKept` (`AuthorityAtCommit`), `ChangesAudited` (`EveryChangeAudited`)
* `Refines`: `Spec => ImplementsPolicy`

The heart of `HistoryInv` is `Decided`: for every transaction between its callback
and its commit there is a past time `t` at which the callback, run again on the
tables *as they are now*, would admit the request again and make the very same
writes (`DecidedAt`), and that is no earlier than the rows it stamps (`StampsRise`).
It survives the steps of others because they leave the locked rows alone
(`Undisturbed`, `DecidedKept`), and at the commit it says what the step does, on the
tables of that instant; so each property of a step is read off one list of moves
(`AccountMoves`, `SessionMoves`, lemma `StepMoves`): an account stays, recovers, is
edited, deleted, or obeys an order; a session is created, rotated, revoked once, or
stays.  `TimesOrdered` (no row is stamped later than now, no muted account was
changed after the end of its mute) is what makes the moves keep `StoreChecks` and
`updated_at` rise, also for the one operation whose `t` was sampled before its wait.
For the audit log, what a commit appends is read back as the chain of
`EveryChangeAudited`.  `SecretsKept` adds, for the secrets: whoever presents one got
it from a request that is over, and a secret once exchanged is not the stored one.
The refinement needs nothing more: `DecidedAt` gives the guard and the effect of the
policy's step, with one lemma per operation (`LoginRefines` ... `StatusRefines`), and
every other step leaves the tables as they are.

**LockingProofs** is about who waits for whom.

* `DeadlockFree`: `Spec => []NoDeadlock`
* `PoolInvariant`: `PoolSpec => []PoolInv`; `PoolTyped` (`PoolTypeOK`), `NeverWedged`
  (`PoolNotWedged`), for any `MaxOpenConns` > 0 and any stalled requests
* `PooledImplements`: `PoolSpec => ImplementsPolicy`; `PooledSafe`:
  `ClosedAccountsSignedOut`, `StoreChecks` and `SecretUsedOnce` over the pool

`LockOrder` says that a request holds no lock before its transaction and none after,
no session before it has all its accounts, and nothing above what it still has to
lock.  Suppose every request of a set waits for another one of it.  If one of them
waits for a session, take the greatest session waited for: its holder is past its
accounts, so it waits for a session that is greater still.  Otherwise all wait for
accounts, and the greatest of those leads to the same contradiction (`NoCircle`;
this is where accounts have to be finite in number).  `PoolInv` adds that every
holder of a row lock has a connection: if no connection is free, their holders would
have to wait for each other's rows, which `NoDeadlock` excludes.  A step of the
pooled service is one of the service or a client that leaves before its first read,
so the rest carries over (`LeaveQuiet`).

**RegistrationProofs** is for any spellings, requests and ids: `AddressesUnique`
(`OneAccountPerAddress`), `RefusalsTrue` (`TakenIsTaken`) and `RegistrationTyped`, from
`RegistrationInv`: an `INSERT` under way owns an unused id (`IdsOwned`), and the
index has every address once, among stored and undecided rows (`EntriesUnique`),
which is what makes a commit safe.  The assumption on `Canonical` is that
normalising is idempotent.  `OwnersCanLogin` (`RegisteredCanLogin`) needs `Stored` as
well: an account has the address and the password of the one registration that made
it, that is the account a client was told of, and the account a login has found is
the one whose password it presents.  A login refused is then one that met this very
account banned or deleted.

**ServerLifecycleProofs** is for any set of connections: `ExitsClean`
(`CleanExit`), `DatabaseClosesLast` (`StoppedBeforeClose`) and `ClosesEverything`
(`NothingLeftOpen`), from `LifeInv`: what exists at each point of the main
goroutine (`Wired`), that nobody adds connections once `server.Serve` is over
(`Served`), and that a shutdown settles every connection or leaves an error
(`Settled`); and `LifeTyped` (`TypeOK`).  `DatabaseClosesLast` does not say that a
process asked to stop closes the database last: it says which process does not.

**AccessTokensProofs** is for any set of instances, clocks that are off by any of
`Offsets` (a set of integers) and may be set, any lifetimes, leeway and length of a
tick, and any requests.

* `TypeCorrect`, `TokensExpireWithSession` (`TokensWithinSession`), `LogoutsEnd`
  (`LogoutEndsSession`), `RevokedPowerless` (`RevokedTokensPowerless`)
* `RejectionsHaveCause`: `Spec => UnauthorizedHasCause`

They come from `TokensInv`.  A token that clients hold is within its session because
it was so when it was signed, and no row ever changes its expiry; for the time
between, `Owned` says the same of the token a transaction is about to hand out and
of the rows it is about to write: each is live, or new.  That is stable because
`Staged` gives the account's lock to one transaction from its callback to its end,
so that only Logout can end a session meanwhile, and Logout waits for the rows of a
pending commit.  `Stood` (whoever has seen its session live was admitted before its
end) turns into `RevokedTokensPowerless` when the answer is given; `Dated` (no token
is signed ahead of the clock that signs it) and the arithmetic of whole seconds
(`WholeSeconds`) give the cause of a rejection.

The second part adds `RevokedTokensRunOut` (`RevokedTokensExpire`),
when `Offsets` has a least and a greatest member.  `ExpiryInv` adds to `TokensInv` that a token lasts at most
`AccessTTL` (`Brief`), that it was signed before its session ended (`SignedInTime`),
and that only requests with a token have been admitted.  Most steps hand out
nothing, end nothing and admit nobody (`Quiet`); what is left is the admission, the
commit and the logout.

**ReadinessProofs** is for any number of probes, any timeouts and any graces:
`ReadinessTyped` (`TypeOK`, with room in the channel for every result),
`VerdictsEarned` (`VerdictEarned`) and `WaitBounded` (`WaitsForTheLonger`).
`VerdictEarned` speaks of answered probes only.  `ReadinessInv` says of the others
where each result is: a check has sent one, which is in the channel or in the map
and says what was heard (`Once`); the map is complete exactly when the handler has
answered (`Decided`); and the timeout of a check that waits has been running since
the request arrived (`Timed`), so that the age of a probe is bounded by that of any
check it still waits for.

**HTTPPipelineProofs** is for every request on a connection: `PipelineTyped`,
`AnswersTruthful`, `ChallengesSent` (`HeadersFitStatus`), `RequestsLogged`
(`LoggedAsSent`).  The three speak of a request that is over; `PipelineInv` says
what has been written and logged at each layer on the way in (`Descending`: nothing)
and on the way out (`Returning`: one envelope, or the redirect, and the log entry
above the access log).  The routes, their checks and their errors play no part in it: it holds for
whatever a handler may answer.

**Only model-checked**: the liveness properties `QueuedAnswered`,
`ProbeAnswered` and `Stops`, which are out of the prover's
reach (fairness and ENABLED), and the two findings, whose counterexamples are runs.

## 5. Not modelled, and the plan

Left out for good:

* password hashing, whose verdict is a choice; that a stored hash is bound to the
  configured cost is an invariant of the deployment (comment at
  `bcrypt.go:53`);
* signatures, encodings and parsing of tokens, text validation, what is valid JSON,
  logging, the reading of the environment: sequential functions of their input,
  without state, whose outcome is a choice in the models;
* `cmd/migrate`: one goroutine that calls a library;
* the test kit.

Nothing in the code bounds how long a handler may wait for a lock (see the findings).
The composition of `AccessTokens` with all of `IdentityService` is not checked: the
tokens meet the tables only through sessions and the state of one account, which
`AccessTokens` keeps.

Next theorems: that `AccountPolicy` by itself keeps closed accounts signed out, rows
checked and audits chained, so that these follow from the refinement; the safety half
of the liveness properties (who is under way always has something to wait for: a
connection, a row, a timer, a result); that a refused or failed request of the service
has left the tables alone.
