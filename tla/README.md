# A verification project for LedgerMint

LedgerMint is a marketplace for digital collectibles: a Go (Echo) backend over
PostgreSQL in `src/repo/backend`, and a React front end in `src/repo/frontend`
that keeps no authoritative state. This directory holds TLA+ models of the
backend, TLC runs that check them on small instances, and TLAPS proofs about
most of them. Paths below are relative to `src/repo/backend/internal/`.

## 1. Inventory

The backend is one process. Every HTTP request runs in a goroutine of its own;
handlers share the PostgreSQL tables through one connection pool, an in-process
cache (`cache/hot_cache.go`), in-memory rate-limit buckets and a cached
"set-up complete" flag. Seven tickers started by `cmd/server/main.go` run the
background workers. Apart from order placement no operation uses a transaction:
a handler is a sequence of autocommitted SQL statements, and between any two of
them every other handler and worker may run. That is where this system is hard.

| Component | State | Operations | Interacts with | What is hard | What makes it correct |
|---|---|---|---|---|---|
| Orders (`service/order_service.go`, `store/order_store.go`, `model/order.go`) | `orders`, `order_state_transitions`, `collectible_tx_history` | Create, TransitionStatus (confirm, process, complete, cancel), ApproveRefund, OpenArbitration, UpdateFulfillment | Catalogue (reads it outside the transaction), notifications and analytics (goroutines), advisory locks | placements that overlap, retries with one key, status read before it is overwritten, failures between statements | one order per key, one active order per collectible, the state machine, a log that tells the truth |
| Checkout resources (`pgxpool`, advisory locks, `emitEvent`) | pool connections, lock queue | Begin, lock, nested pool query, rollback | Orders, A/B tests | a transaction that waits for the pool that waits for the transaction | every placement is answered |
| Notifications (`service/notification_service.go`, `store/notification_store.go`, `worker/notification_retry.go`) | `notifications`, preferences | Send, worker tick, manual Retry, MarkRead | Orders, messages, reviews | the worker's batch read against the manual retry, crash between delivery and update | delivered once, retries bounded, nothing stuck |
| Sessions (`service/auth_service.go`, `store/user_store.go`) | `refresh_tokens` | Login, Refresh, Logout, clean-up | Users | concurrent refreshes of one token, logout during a refresh | one live token per family, an ended session stays ended |
| Login attempts (`service/auth_service.go`, `store/user_store.go`) | `login_attempts`, `is_locked`, `locked_until` | Login, the expiry of a lock, Unlock | Set-up, users | counted before it is recorded, locked on an old count, unlocked in two statements | a bounded number of guesses, a lock for a cause, no lock for ever |
| Catalogue and cache (`service/collectible_service.go`, `cache/hot_cache.go`) | `collectibles`, cache entries | Get, List, Create, Update, Hide, Publish | Orders | a slow reader stores what it read before an invalidation; an edit writes a row it read earlier | only bounded staleness, and a moderation that no edit undoes |
| IP rules (`middleware/ipfilter.go`, `handler/admin_handler.go`) | `ip_rules`, a cache entry | the filter in front of every request, create, delete | the same cache | as the catalogue | a change takes effect |
| A/B tests (`service/abtest_service.go`, `worker/abtest_evaluator.go`) | `ab_tests` | Create, Update, Complete, Rollback, evaluator | Analytics | two actors end one test, an edit overlaps its end, a tick works on an old list | an ended test never runs again, one active test per experiment, overdue tests end |
| Set-up (`handler/setup_handler.go`, `middleware/setup.go`) | `users`, `user_roles`, a cached flag | bootstrap, gate | Users | check-then-create without a transaction, a flag that is never taken back | a bootstrap makes the first administrator only (the code does not ensure it, finding 4) |
| Users and administration (`service/user_service.go`, `handler/user_handler.go`) | `users`, `user_roles`, `audit_logs` | create, roles, unlock, profile | Set-up, login attempts | roles removed under a gate that remembers | |
| Rate limits (`middleware/ratelimit.go`) | a map of token buckets | getLimiter, Allow, cleanup | in front of login, orders, messages, listings | eviction against refill, a limiter looked up and evicted before it is asked | forgetting a bucket gives nothing away |
| Messages (`handler/message_handler.go`, `service/message_service.go`) | `messages`, `message_attachments` | Send, list, download | Orders, both limiters | a message and its attachment are two statements, a client that posts again | no second copy and no torn message without an error |
| Migrations (`cmd/server/main.go`) | `schema_migrations`, the schema | start-up | everything | a stop between running a file and recording it, a check whose error is ignored | a server that serves has the whole schema, and it comes back |
| Scheduler (`worker/scheduler.go`) | one ticker per job | start, tick, stop | all workers | a tick that fails or outlasts its interval | a tick never overlaps itself, an error ends one tick only |
| Analytics jobs, HTTP middleware, configuration and cryptography, front end | tables of their own, recomputed or appended | single statements, pure functions | | nothing that spans two steps | |

`PROJECT.json` lists every component with its sources and status, and under
"hazards" what is hard to test in this code, at the line where it bites, with
the properties that cover it.

## 2. The models and the code

One action is one SQL statement (or one wait) of a request handler or worker,
together with the Go code up to the next statement. PostgreSQL runs at READ
COMMITTED, so a statement is atomic and sees what is committed when it starts;
the uncommitted rows of a transaction are in a local variable of the handler
(`Orders!draft`). A goroutine is a model value (`Creator`, `Mover`, `Handler`,
`Reader`, `Seller`, `Admin`, `Sender`) whose program counter says which statement comes
next. Whatever a handler can be refused for before it changes anything is
either a guard of its first action or a choice of that action. Ids, names,
prices and texts are model values.

**OrderBook** is the abstract specification: a placement is one step that finds
the collectible free and the key unused, and an order moves along the state
machine.

**Orders** (`service/order_service.go`, `store/order_store.go`,
`model/order.go`) is what the code does. `Submit`, `LookupKey`,
`ReadCollectible`, `AcquireLock`, `CheckActive`, `Insert`, `Commit` are the
statements of `Create`; `Load`, `WriteStatus`, `RecordTransition`,
`RecordTransfer` those of `TransitionStatus`; `ApproveRefund`,
`OpenArbitration` and `UpdateFulfillment` write or announce once; `Effects`
records what they did and `MaxCalls` bounds how often they are called. `Insert` models the
unique index on (buyer, key): it waits for an uncommitted row with the key and
fails on a committed one. `CreateFails` and `MoveFails` end a handler between
any two statements: a failed statement, a cancelled request or a crash; the
first rolls back, the second cannot. `Commit` may also lose its answer.
`ReadCollectible` may reject at any time, because an administrator can hide a
collectible at any time. The advisory lock is derived from `cpc` (a handler
holds the lock of its collectible from `AcquireLock` to the end of its
transaction); `LockOf` maps collectibles to lock keys because `hashtext` has
32 bits and may map two ids to one. `spawned` records notifications whose
goroutine was started; what becomes of them is the Notifications module.
`torn` is a history variable: the orders one of whose transitions was ended by
`MoveFails` after its UPDATE.
`SerialPerOrder` is a switch about the environment, not the code: TRUE restricts
clients to one transition request per order at a time. `Orders!Book` is the
INSTANCE that maps `status` and `placed` to those of OrderBook.

**Checkout** models the same placement with what Orders abstracts from: pool
connections and the wait for the lock, which collectibles with one hash share
(`LockOf`, `owner` is kept per lock). `Begin` takes a connection, `Lock`
waits while keeping it, and `Report` (`emitEvent`, which looks up the running
A/B tests through the pool and with `context.Background()`) needs a second
one before `Rollback` returns the first. `Cancel` is a client that goes away.
Handlers that use the pool for single statements take and return one
connection in one step (`FreeConn` is their guard).

**Notifications** (`service/notification_service.go`,
`store/notification_store.go`, `worker/notification_retry.go`,
`worker/scheduler.go`) is the job with its two batches: `Tick` reads the pending
rows, `ReadFailed` the failed ones whose backoff has passed, `Attempt` calls the
delivery hook, `Record` overwrites the row from what the batch said.
`RecordFails`, `ReadFails` and `Crash` are the faults; `RetryRead` and
`ResetToPending` the manual retry. Time is abstracted to the event that matters,
`BackoffPasses`. The server starts the job without a delivery hook, so
deliveries always succeed there; the model lets the hook fail, as the job's
tests and its code allow for.

**Sessions** (`service/auth_service.go`, `store/user_store.go`,
`handler/auth_handler.go`) keeps the rows of `refresh_tokens`. `RefreshRead`,
`RevokeToken` and `Issue` are the three statements of `Refresh` that matter;
`RevokeFamily` is the answer to a token that had been revoked. `Login` and
`Logout` are one statement each, as far as tokens go. `RefreshFails` ends a
refresh anywhere: what was revoked stays revoked. `Cleanup` is the hourly job;
it may delete any expired token, since the model does not count the thirty days.
`closed`, `late` and `forked` are history variables: which families a logout or
a reuse has ended, what was under way then, and which tokens two refreshes held
at once.

**Accounts** (`service/auth_service.go`, `store/user_store.go`,
`handler/setup_handler.go`, `middleware/setup.go`, `handler/user_handler.go`):
`Login` passes the gate, `FindUser` reads the row and its lock, `CountBefore`
counts the recent failures of the account and of the address and checks the
password, `RecordFailure`, `CountAfter` and `Lock` are the statements after a
wrong one, `Clear` the one after a right one; `Release` lifts an expired lock.
`Unlock` is the administrator's pair of statements. `Bootstrap`, `CreateAdmin`,
`GrantAdmin` are the set-up, `Open` its check, `Pass` the gate with the answer
it remembers. `Fails` ends a handler between any two statements, `Restart`
forgets the gate's answer. `failures` holds the rows of `login_attempts` that a
window can still reach, each with its age in ticks and a number (`nth`) in place of
its id; `straddles` says whose `windowStart` is a tick old. `late` (the logins that a
clearing overtook) and `fresh` (failures since the last clearing) are history variables. One client address is modelled, shared by everybody.

**Catalog** (`service/collectible_service.go`, `store/collectible_store.go`,
`cache/hot_cache.go`, `middleware/ipfilter.go`, `handler/admin_handler.go`):
the cache and its two users. A reader misses, queries and stores in three
steps. A writer writes, for an edit or a moderation after a read (`BeginEdit`,
`BeginModeration`), and drops its keys (`Invalidate`): every collectible and
list, or the rules. A statement may report an error and still have taken
effect (a cancelled request). `moderated` and `late` are history variables: the
status each collectible was last given on purpose, and which readers and
entries hold something that was read before a write that has dropped them
since. All editable columns are one column, since `Update` always writes them
together. The table starts empty; `InsertRow` is `Create`.

**Migrations** (`cmd/server/main.go` 229-287): a start checks, executes and
records one file after the other. `Stop` ends the process anywhere,
`NoDirectory` is a start that does not see the files, `Overlook` the check whose
error is ignored. What a file does is its effect being in the schema or not;
`Repeatable` are the files that can run again over their own effect, `Undoes`
the effects that a file removes (013 deletes what 014 restored).

**Server** puts Catalog into a process that starts by way of Migrations: it is
the composition of the two with the crash that empties the cache and ends every
request. Requests are only served when `boot` is up.

**TokenBuckets** is the abstract specification of a rate limiter: one bucket per
key, for ever. **RateLimits** (`middleware/ratelimit.go`) is the map that makes
limiters on demand (`GetLimiter`), asks them (`Allow`, `Refuse`) and drops idle
ones (`Cleanup`); credit is counted in ticks, so that a fraction of a token is a
whole number. `since` and `passed` observe a stretch of time, for `RateBound`.
The map is lost when the process ends; the modules are about one process.

**Messages** (`handler/message_handler.go`, `service/message_service.go`,
`store/message_store.go`) composes RateLimits with the handler behind it:
`FindLimiter` and `AskLimiter` for the user's limiter and then the address's,
`Scan` for type and personal data, `ReadOrder`, `InsertMessage`,
`InsertAttachment`. `Fails` ends a request with an error, which may hide that
its statement took effect. A client posts its draft again after anything but a
success (`Post`), at most `MaxTries` times.

**ABTests** (`service/abtest_service.go`, `store/analytics_store.go`,
`worker/abtest_evaluator.go`): administrators' requests read and write in two
steps; the evaluator lists the running tests, then completes, judges or rolls
back one after the other on the strength of that list. `Skip` is a failed
statement for one test, `Crash` a restart, `NameIsFree` the partial unique index
of migration 017. The conversion rates only matter through the verdict, which
`Judge` chooses freely.

`MC*` modules give the constants their values. `*Proofs` modules hold theorems.
Operators marked "Mutant" are wrong variants of a definition: `PROJECT.json`
says which property each of them would break.

## 3. What the runs show

| Run | Instance | Shows |
|---|---|---|
| `orders_serial` | 1 collectible, 2 buyers, 1 key each, 2 creators, 1 mover, faults, 1 refund, arbitration or fulfilment call | With transitions of one order one after the other, and everything else racing and failing: the order book is implemented (`ImplementsBook`), no collectible has two active orders (`SingleActiveOrder`), one order per (buyer, key) (`OneOrderPerKey`), nothing is announced or transferred twice (`NothingDoneTwice`), a settled order stays settled (`SettlementIsFinal`), every logged transition is an edge of the state machine (`LogIsLegal`). The log of an order nobody works on tells its whole history and every status of it was announced, unless one of its own transitions failed after its UPDATE (`LogTellsStatus`) |
| `orders_oversell` | as `orders_serial`, 2 movers, transitions may overlap | violates `SingleActiveOrder`, finding 1 |
| `orders_replay` | as `orders_serial`, no faults | violates `ReplayIsNotOversold`, finding 2 |
| `checkout_ample` | 3 placements, 3 collectibles of which 2 share a lock, 4 connections, cancellations | With a connection to spare, every placement is answered, also one that waits for a lock which placements of another collectible keep taking (`Answered`) and every report finds its second connection (`ReportFindsConnection`) |
| `checkout_exhausted` | 4 placements, 1 collectible, 4 connections | violates `Answered`, finding 3 |
| `notifications` | 2 notifications, batches of 1, 2 retries, 1 manual retry each, 1 fault | Deliveries and attempts are accounted for (`DeliveriesAccounted`, `AttemptsBounded`), every notification ends (`Settles`), a manual retry that is not overwritten is attempted (`PendingRetryIsPickedUp`) |
| `sessions` | 1 user, 2 families, 4 tokens, 2 refreshes, faults | A session has one live token unless two refreshes held the same one (`OneLivePerSession`); after a logout or a reuse only what was under way survives (`ClosedSessionsEnd`) |
| `accounts` | 2 names, 2 handlers, thresholds 2 and 3, window of 1 tick, lockout of 2, faults, restarts | The wrong passwords within a window stay below the threshold plus what is under way (`FailuresBounded`); an account is locked for new failures or by a login that a clearing overtook (`LockHasCause`) and not for ever (`LockoutEnds`) |
| `accounts_bootstrap` | as `accounts` | violates `BootstrapCloses`, finding 4 |
| `catalog` | 2 migration files, 1 collectible and the list, 2 values, 1 rule, 1 reader, 1 seller, 1 administrator, crashes | A stale entry comes from a slow reader or a write that reported an error (`InvalidationIsEffective`), goes away (`StaleIsTransient`), and an edit never undoes a moderation (`ModerationSurvives`), across restarts. A server that serves has the whole schema unless a start was blind (`ServingIsMigrated`); it comes back unless a file is left torn that cannot be repeated (`BootsAgain`) |
| `abtests` | 3 tests, 2 experiments, 1 administrator, end dates 0 and 1 | An ended test never runs again (`EndedIsFinal`), one active test per experiment (`OneActivePerName`), overdue tests end (`OverdueTestsEnd`) |
| `messages` | 1 user and 1 address with 2 tabs, 4 kinds of draft, 2 posts each, both limiters, evictions, faults | Every stored row is accounted for by a success, a request under way or an error its sender was told, so that nothing is stored twice or torn behind a clean record (`EveryRowIsAccountedFor`); the limiters implement buckets that are never forgotten (`ImplementsBuckets`) |

Each module's `TypeOK` is checked by one of its runs (`ServerTypeOK` contains
those of Catalog and Migrations, `MessagesTypeOK` that of RateLimits). Each property of a passing
run is broken by a plausible mistake in the code (the mutants of
`PROJECT.json`).

### Findings

1. **A race of transitions oversells** (`orders_oversell`).
   `TransitionStatus` (`service/order_service.go:151-156`) checks the status it
   read and then overwrites whatever the row holds by now. Cancel and confirm
   both read `pending`; cancel writes; another buyer places an order; confirm
   writes: two active orders of one collectible. `model/order_oversell_test.go`
   calls the state machine the last line of defence. When the transitions of one
   order do not overlap there is no other way to oversell: that is what
   `orders_serial` checks and the theorem `NeverOversold` proves. Nor is there
   when they do overlap, as long as no UPDATE overwrites a final status
   (`OversellingNeedsRevival`); an UPDATE that names the status it expects would
   see to that, and to more (`FreshWritesImplementBook`).
2. **A retry is told it was outsold by itself** (`orders_replay`). The key is
   looked up before the lock and not again under it, so a retry that overtakes
   its original's commit gets `ERR_OVERSOLD`; the comment in
   `model/order_oversell_test.go` and `docs/design.md` promise the same answer.
3. **Concurrent placements can stop the checkout** (`checkout_exhausted`). A
   failing placement reports inside its transaction through a second connection;
   if all others belong to placements that wait for its lock, nobody goes on.
   `docs/design.md` promises a timeout, the code sets none. One connection more
   than placements is enough (`checkout_ample`, `ReportsAreServed`).

4. **Two first administrators** (`accounts_bootstrap`). `Bootstrap`
   (`handler/setup_handler.go:33-64`) asks whether there is an administrator,
   creates the user and grants the role in separate statements that nothing
   ties together: of two requests that overlap, both are answered 201. The
   comment above it (30-31) says that "once an admin has been created this endpoint
   returns 409", `docs/api-spec.md:184` "creates first admin only if no admin
   exists". `SecondNeedsOverlap` proves that it takes an overlap: if no role is
   granted while a bootstrap is under way, none makes a second administrator.

### Other disagreements with a document

These have no run of their own. The properties of the passing runs are
worded so that they exclude them, by a history variable or an antecedent that is
named here.

- *Transitions.* `docs/design.md:175` promises an event and a notification for
  each status change. A transition that fails between its UPDATE and the INSERT
  (`service/order_service.go:156-189`) leaves a status with neither, for good.
  `LogTellsStatus` excludes exactly the orders this happened to (`torn`).
- *Manual retries.* The worker overwrites a row from a batch it read before a
  manual retry, which loses the retry although it was accepted. The comment in
  `service/notification_service.go:129` ("so the worker picks it up on the next
  tick") and `docs/design.md:198` ("schedules immediate processing") say
  otherwise. `PendingRetryIsPickedUp` is about the rows no batch holds.
- *Logout.* `docs/design.md:129` has a logout invalidate the refresh token. A
  logout whose UPDATE fails (`service/auth_service.go:261`) is answered like one
  that succeeded; the model leaves that failing statement out. A refresh that
  overlaps a logout stores a live token afterwards (`late` in Sessions).
- *Rate limits.* The comments of `middleware/ratelimit.go` ("10 requests per 15
  minutes", "30 per minute") and `docs/design.md:133-136` state one number per
  period. A key that was quiet gets its burst, which is that number, and within the
  period as much again. `RateBound` states what the code keeps, burst plus
  earnings, and is proved (`RateIsBounded`, `RouteRateIsBounded`); no run claims
  the documented number. `docs/design.md:137` has the address limits at half the
  user limits, the code sets them to the double.
- *Set-up.* The repository's `README.md:59` calls the bootstrap disabled after the
  first administrator. It is open again when the last one was removed, while the
  gate goes on letting everybody through until the process restarts.
- *Cache.* `docs/design.md:254` deletes an entry immediately on an update. A reader
  slower than the write stores the old row afterwards, and a write that reports
  an error drops nothing (`late` in Catalog); `StaleIsTransient` says that this
  passes.

### Behaviours that contradict no document

- *Orders and catalogue.* Two overlapping edits of a collectible lose the
  earlier one; the collectible of a completed order can be sold again by the
  same seller; a `Create` whose answer was lost lists an item without a contract
  twice when it is repeated.
- *A/B tests.* A concurrent completion and rollback both succeed and the later
  wins; the evaluator ends a test on the end date it listed, although it was
  extended since; a test created for the future stays a draft for ever.
- *Sessions.* Two overlapping refreshes of one token leave a session with two
  live tokens (`forked`); a refresh that fails after its first write leaves the
  client without a token, and repeating it ends the session as a reuse.
- *Accounts.* A login that was under way locks an account again just after an
  administrator unlocked it (`late`); overlapping logins try as many passwords
  beyond the threshold as there are of them.
- *Messages.* A message whose answer was lost, or whose attachment failed, is
  stored again when it is posted again (`errors`).
- *Migrations.* A stop between a file and its record makes every later start
  fail, unless the file can be repeated, until somebody records it by hand; a
  start whose check failed or that saw no files serves all the same (`blind`).
- *Analytics.* The anomaly detector reports the same excess at every tick, and
  none whose events were not recorded.

## 4. Bounds, fairness, and why they are enough

Two goroutines per kind of handler are enough for every read-check-write race,
since one such race has two parties; three parties (two transitions and a
placement, an edit, a moderation and a reader) are covered by the mix of
kinds. `OrderId` has two members: a second active order, or a second order with
one key, is a violation already. `MaxLog` bounds the transitions logged for one
order; four rows are the longest path of the state machine, and the runs with
a finding stop at three. `MaxCalls = 1` has a refund, an
arbitration or a fulfilment call beside the transitions; one call of each kind
writes or announces all that it can. Buyers, creators and ids are
interchangeable in the runs without liveness, which use that as symmetry. In
`notifications` the batches are smaller than the number of rows, so that rows
wait for the next tick; `MaxRetries = 2` has a
first, a middle and a last retry; manual retries and faults must be bounded, as
either can go on for ever. `MaxTime = 1` has an end date that has passed and
one that has not. In `sessions` two refreshes hold the same token or two of one
session, and four tokens are two rotations of one family or one of each.
`Conns = 4` is the smallest default of pgxpool.

In `accounts` the thresholds are 2 for an account and 3 for the address, so that
two logins in flight can overshoot the first and, with logins under unknown
names, the second; the window is one tick, so that failures are new, about to leave the
window, or gone; the lockout is two ticks, as it is longer than the window in
the code. A request straddles at most one tick. Only one of the names logs in
and only the other is managed, which keeps the product of both small; the
bootstrap takes either. In `catalog` two files are enough for a record of an
effect that is not there and for a file that undoes a later one; a seller's
edit and an administrator's moderation or rule change race, with a reader
between. One rule is there or not, which is what a filter can be wrong about.
In `messages` two tabs of one user share both limiters; the address's is the
tighter one, so that a request pays the first and is refused by the second.
Two posts of each draft are a retry after any answer; four ids are one per post.
`Idle` equals the refill time of the slower bucket, the listing limiters' case,
and `Window` is as long.

The proofs of section 5 hold for every value of these constants.

Fairness:

- *Checkout*: strong fairness of each handler's steps, since both the pool and
  PostgreSQL serve their waiters in order: a pool connection or an advisory lock
  that is taken and released by others in between comes to everybody. No fairness
  of `Arrive` and `Cancel`: clients owe nothing. Fairness does not help in
  `checkout_exhausted`: there nobody can take a step.
- *Notifications*: weak fairness of the worker (a ticker every minute), of time
  and of a retry request in flight. `MaxFaults` bounds the faults, so that
  there is a last one; delivery itself may fail for ever.
- *Server*: weak fairness of a reader's and a writer's request in flight, of the
  expiry of entries, which is the TTL of `hot_cache.go`, and of `StartUp`: a
  start that has begun goes on, and somebody starts a process that ended
  (`docker-compose.yml` has no restart policy, so that is an assumption about
  the operator). `BootsAgain` says under which further conditions that helps:
  from some time on the process is not stopped half-way and its checks succeed.
- *Accounts*: weak fairness of the handlers' steps and of time. No fairness of
  logins or unlocks: a lockout must end by itself.
- *ABTests*: weak fairness of ticks and of the remaining evaluation of a list,
  and strong fairness of `CompleteOverdue`: the UPDATE of one test does not fail
  at every tick although it may fail at any one.

Deadlock is checked except in `notifications`, where every notification
may be settled, and in `checkout_exhausted`, whose deadlock is the finding.

## 5. What is proved

All theorems hold for every value of the constants that satisfies the module's
named assumption, which says what the constants are and, for Accounts and the
limiters, how the code's durations compare. Assumptions about the environment
(`SerialPerOrder`) stand in the theorems that need them.

- **OrdersProofs.** `TypeCorrect`, `KeysAreIdempotent` (also when transitions
  race), and, assuming `SerialPerOrder`, `OrdersImplementBook` and
  `NeverOversold`; and without it `FreshWritesImplementBook` and
  `OversellingNeedsRevival`. `OneOrderPerKey` is not inductive: the invariant needs that
  a draft has the id of no committed row or other draft, that its key is free
  and that no other uncommitted row has it (`PlaceInv`), which the waiting
  INSERT preserves. For the refinement, a job's status is still the row's until
  the job writes (`JobsOK`), jobs of one order exclude each other (`SerialOK`),
  and a creator past its check holds a lock under which its collectible has no
  active order (`CheckOK`); this last part is what the oversell race breaks:
  a transition that resurrects an order takes no lock. Each step of Orders is
  then a step of OrderBook or a stutter, and `NeverOversold` follows from the
  book's own invariant. What the refinement needs of the transitions is that each
  UPDATE overwrites the status its request has read (`FreshWrites`), of which
  `SerialOK` is one cause: `FreshWritesImplementBook` assumes just that of the
  behaviour. To rule out overselling alone even less will do, that no
  UPDATE overwrites a final status (`NothingRevived`); `CoreInv`, which has no
  part about overlaps, is inductive under it, and `OversellingNeedsRevival`
  follows. Both conditions are on steps and hold of many behaviours of the
  code, `orders_oversell` shows one where they do not.
  `LogsAreLegal` needs no assumption about clients: `LogOK` says that every row
  is an edge whatever status it overwrote, and that a status is only announced,
  or about to be transferred, once the log tells of it. `SettlementsAreFinal`
  needs that nothing is revived, and is stated for serial transitions.
  `NothingIsDoneTwice` needs serial transitions. That a log leaves no status twice is not inductive, but
  the statuses have a rank that every edge of the state machine raises: by
  `OnceOK` the logged ranks rise (`Rising`), all rows are below the status the
  order has, or below the one a mover has read and not yet logged (`Below`),
  and a transfer is only written by the mover whose own status is the row's. So
  faults may leave gaps in a log and never a repetition. `LogsTellTheStatus`
  assumes serial transitions, and nothing about faults: by `TaleOK` the log of an
  order that is not `torn` is a chain (`Chained`) that ends in the status, or in the
  status that the one mover between the UPDATE and the INSERT has overwritten,
  and by `ToldOK` every logged status was announced, or is about to be once the
  transfer was tried.
- **AccountsProofs.** `TypeCorrect`, `SecondNeedsOverlap`, `LocksHaveCauses`,
  `FailuresAreBounded`. `SecondNeedsOverlap`: a bootstrap under way found no
  administrator, and there still is none (`SetupOK`), which is inductive as long
  as no role is granted beside a bootstrap (`GrantsAlone`, a condition on steps
  that `accounts_bootstrap` shows the code not to ensure).
  `LocksHaveCauses`: while a name has fewer than `MaxUser` failures since it was
  cleared, its rows are no more than those (`RowsCounted`), so that a login not
  overtaken by the clearing cannot count its way to a lock. `FailuresAreBounded` takes
  the longest argument. Rows of the window and the logins that may still add
  one are counted together (`Within`): a login that counts before its password
  is checked has seen the rows there are, so that the sum stays below the
  threshold plus the handlers (`UserBound`, `AddressBound`). A login that
  releases an expired lock skips that count. That it finds no recent row is
  `LockedOK`: a login that had passed the lock unseen when it was set straddles
  the next tick and has ended at the one after, so its rows have left the window
  when the lock expires. That is where `Span < Lockout` of `AccountsAssumption`
  comes in (`failureWindow` and `lockoutDuration` of `service/auth_service.go`);
  with a lockout shorter than the window (1 and 2 ticks, say) the bound is false.
  The lemmas under "The rows" are about cardinalities of ageing sets.
- **CheckoutProofs.** `TypeCorrect` and `ReportsAreServed`: with fewer handlers
  than connections a report finds one. The invariant is that `inUse` is the
  number of handlers in a transaction, over the cardinality facts of
  FiniteSetTheorems.
- **NotificationsProofs.** `TypeCorrect`, `DeliveriesAreAccounted`,
  `AttemptsAreBounded`. The bounds are kept by potential functions: what a row's
  status, its place in the batch and an attempt in flight still entitle it to,
  added to what it has had, never exceeds what sends, retries and faults have
  paid for (`DeliveriesPaid`, `AttemptsPaid`); `BatchOK` says that a
  batch entry agrees with its row's retry count, and with its status unless a
  manual retry changed that meanwhile.
- **SessionsProofs.** `TypeCorrect`, `OneTokenPerSession`,
  `ClosingIsEffective`. Tokens alone do not say why a family has one live token:
  `RotationOK` counts a refresh that is about to issue as the token it will
  store, so that a family has one live token or one such refresh, unless it
  forked. `LateOK` says the same of a closed family: its live tokens and its
  refreshes under way are in `late`.
- **ServerProofs**, the cache. `TypeCorrect`, `OnlyLateIsStale`,
  `ModerationPrevails` are about Catalog alone. `FreshOK`, key by key: without
  an outstanding invalidation of a key its entry, and the value a reader is
  about to store for it, is the table's or in `late`. The four writes are
  treated at once: `WriteEffect` says what one leaves in the tables,
  `WriteFrame` what it does besides, and `KeysDiffer` that a write to the
  catalogue leaves the rules' entry right and the reverse.
- **ServerProofs**, the start-up. `ServerStartsUp` (the server implements
  Migrations), `ServerTypeCorrect`, `ServesMigrated`, `ServerOnlyLateIsStale`,
  `ServerModerationPrevails`. `BootInv`: files are executed in order
  (`Ordered`), and unless a start was blind a record is of a file whose effect
  is there (`Honest`). `StepSplits` shows that a step of the process is a step of
  Migrations and one of Catalog, or a crash; `CrashIsClean` that an empty cache
  and no requests satisfy the catalogue's invariants, whose other steps come
  from the first part.
- **MessagesProofs**, the limiters. `RateIsBounded`, `LimitersImplementBuckets`
  are about RateLimits alone. The invariant adds to the types that a limiter's
  credit is its age or its burst (`CreditFollowsAge`), so that what is dropped
  is full as long as a bucket refills within `Idle`; that a limiter about to be
  asked was seen just now and is still in the map (`GotIsFresh`); and that what
  was let through and what is left come from the burst and from time
  (`Account`). TokenBuckets is implemented under the mapping of an absent
  limiter to a full bucket.
- **MessagesProofs**, the route. `RouteUsesLimiters`: every step of the handler
  is one of the limiters or leaves them alone, so `RouteRateIsBounded` and
  `RouteImplementsBuckets` follow from the limiters' own theorems.
  `MessagesTypeCorrect` and `RowsAreAccountedFor` share an invariant, sender by
  sender: what a request has passed when it is at a statement (`Routed`; it is
  there because of a post that has not been charged with an error), and what
  there is of its rows without the one it holds (`Accounted`): no more than the
  promise and the errors, of which the errors alone pay for those without their
  attachment. `EveryRowIsAccountedFor` counts the row that is held, and is not
  inductive: at `InsertAttachment` its bounds do not tell that the row that is
  completed was among the incomplete ones.
- **ABTestsProofs.** `TypeCorrect`, `EndedTestsStayEnded`, `NamesAreExclusive`.
  A verdict in flight, and the evaluator's list, are of tests that are not
  drafts (in `TypeOK`); by `StatusEffect` every step either creates a row whose
  name is free or leaves fewer active ones.

Only model-checked: the liveness properties (`Answered`, `Settles`, `PendingRetryIsPickedUp`,
`StaleIsTransient`, `OverdueTestsEnd`, `LockoutEnds`, `BootsAgain`), since the
prover knows neither fairness nor ENABLED. Every invariant and every safety
property of the passing runs is stated by a theorem. The properties of the runs
with a finding are false, and a TLC counterexample is their proof. No module
declares a RECURSIVE operator.

## 6. Plan

Done, in this order: OrderBook and Orders with their refinement, Checkout,
Notifications, Catalog, ABTests, Sessions, and the proofs of each; then Accounts
(logins, lockout and set-up), TokenBuckets and RateLimits with their refinement,
Messages over RateLimits, Migrations, and Server, which composes Migrations and
Catalog with crashes; the IP rules and `Create` in Catalog; refunds,
arbitration and fulfilment in Orders.

Then the proofs of what the runs check: `NothingDoneTwice` and `LogTellsStatus`
of Orders, the safety of Accounts, `EveryRowIsAccountedFor` and the composition of
Messages with RateLimits, and of Server with Migrations.

Next, most important first:

1. A composition of Orders' `spawned` with Notifications: a transition reaches
   its parties, and a party is told of nothing that did not happen.
2. That one family of Sessions implements a session with one token.
3. That the notification job implements a queue whose rows are taken once per
   attempt.

## 7. What is not modelled, and why

- View counts and reviews: an increment and an append that no other operation
  reads. `MarkRead` and `MarkAllRead`: nothing else reads the flag.
- Notification preferences and templates: they decide whether `Send` stores a
  row, which in the model it need not.
- Profiles, the roles other than administrator, and the audit rows: single
  statements per request whose results only their own reads show.
- A/B result rows (appended, read by one query) and the conversion arithmetic.
- Analytics jobs (roll-ups, metrics, the anomaly detector) recompute or append to
  tables of their own from queries; nothing depends on what they do halfway.
- The match of an address against the IP rules, the personal-data patterns and
  text extraction, HTTP filters without state, answer formats, configuration and
  cryptography are pure functions. `DISABLE_RATE_LIMIT`, the switch of the test
  suites, is taken as off.
- The front end keeps no authoritative state.
- Several server processes: the deployment runs one, and the in-process cache
  and rate limits presume it.
