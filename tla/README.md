# True North Ledger: TLA+ models and proofs

True North Ledger is a multi-tenant audit system: a NestJS API over PostgreSQL and Redis
(`apps/ledger-api`), an Angular client (`apps/ledger-web`) and shared zod contracts (`libs`).
Domain services (orders, inventory, devices, users) keep current state in their own tables
and append an event to a hash-chained, append-only ledger for every change.

## 1. The system

### Components, their state and their operations

| Component | State | Operations |
| --- | --- | --- |
| Ledger events (`ledger-events/`) | table `ledger_events`: per tenant a chain of rows (`chain_sequence`, `previous_hash`, `event_hash`), append-only by trigger, `UNIQUE (tenant_id, chain_sequence)` | `appendEvent` (own transaction, or a caller's), `verifyChain`, list and find |
| Orders (`orders/`) | table `orders` (status, timestamps, unique order number and idempotency key) | create, update status, cancel, timeline, proof, verify proof |
| Inventory (`inventory/`) | table `inventory_items` (`quantity`, `reserved_quantity`, status, location, metadata) | create, import, reserve, release, release expired, move, bulk move, adjust, change status, remove, scan, anomaly and alert detection |
| Devices (`devices/`) | tables `devices` (status, key hash, failure count) and `device_nonces` | register, authenticate, suspend, reactivate, revoke, heartbeat, single event, batch, inventory scan, audit |
| Auth (`auth/`) | users, roles, service tokens (tables); refresh token ids and token cache (process memory); blacklist (Redis and memory) | login, refresh, logout, service token issue / revoke / verify, role changes, deactivation |
| Rate limiting (`auth/redis-throttler.storage.ts`, `rate-limit.guard.ts`) | counters and blocks in Redis, or in process memory once Redis has failed | increment |
| Notifications gateway (`notifications/`) | sockets, rooms, subscriptions | connect, subscribe, unsubscribe, emit, disconnect |
| Orders gateway (`orders/orders.gateway.ts`) | sockets in the room of their tenant, a map of clients | connect, emit, ping with acknowledgement, disconnect |
| Web client: session, interceptor | session and local storage, refresh timer, the user shown | login, refresh, logout, retry on 401 |
| Web client: live notifications, order pages | socket state, timers, subscriptions; rows shown, filter, page | connect, reconnect, recover missed events; load, browse, apply events |
| Web client: other pages | page signals | render, forms, one request per button |
| Metrics, health, configuration (`config/`) | counters in memory | record, expose |
| Contracts (`libs/*`), deployment, e2e tests | none | zod schemas, compose files, scripts |

### How they interact

A controller checks token, permissions and rate limit and calls one domain service. The
service reads a row, checks it, saves it, and then calls `LedgerEventsService.appendEvent`.
The save and the append are two transactions, except in a device batch, which passes its own
transaction to `appendEvent`. `appendEvent` reads the head of the tenant's chain at READ
COMMITTED, inserts the next row, and relies on the unique constraint to refuse one of two
appends that read the same head; the refusal becomes a `ConflictException` that nobody
retries. After the insert it calls the notifications gateway, which emits to the rooms of the
tenant. The web client holds a socket per gateway, and refills over HTTP what it missed.

### What is hard

- Every await is an interleaving point: reads, saves and appends of different requests mix.
- A row is saved before its event is appended, so a failure between the two leaves a change
  the ledger does not explain. A retry meets that state.
- Rows are loaded, checked and saved without a lock or a version.
- Several clocks order events: `timestamp` (when the append is called), `created_at` (when its
  transaction begins), the commit, and in the client the browser's time.
- Nonces, reservations, tokens, blocks and blacklist entries expire.
- Security state is partly in process memory: a restart forgets it.
- In the client, answers, events, timers and other tabs change one state in any order.

## 2. Modules

| Module | What it is |
| --- | --- |
| `LedgerHash` | the hash chain as data: what a row commits to, and `verifyChain` as a set of failing rows |
| `LedgerLog` | the abstract ledger: one log per tenant that only grows at its end |
| `LedgerChain` | `appendEvent` over the table `ledger_events`; implements `LedgerLog` |
| `Orders` | `OrdersService`: create, status changes, events, timeline and proof |
| `DeviceIngest` | `DevicesService`: single events, batches, nonces, their appends and scans |
| `DeviceRegistry` | `DevicesService`: registration, status, heartbeats, audit events; device authentication |
| `Inventory` | `InventoryService`: every operation on an item's row, the sweep, detection and alerts |
| `AuthService` | `AuthService`, `TokenBlacklistService` and the guards |
| `Throttler` | `RateLimitGuard` over `RedisThrottlerStorage` |
| `WebSession` | the client's `AuthService` and interceptor in several tabs, with the API's auth endpoints |
| `Notifications` | the client's `NotificationService` with the components that use it, and its socket at `NotificationsGateway` |
| `OrderBoard` | the order list and detail pages, `OrderRealtimeService` and `OrdersGateway` |
| `...Proofs` | the theorems about a module, eight of them |
| `MC...` | one per module: model values, the requests that are made, symmetry |

How a module corresponds to the code:

- **An action is the code from one await to the next.** A request `r` has a program counter
  `pc[r]`; whatever other requests may do happens between two of its actions. Local variables
  that live over an await are state (`head`, `seen`, `base`, `entity`, `job`); the others are
  not. In the client an action is a handler: of a click, a timer, an answer or a socket event.
- **A table is a variable with the committed rows.** `LedgerChain` and `DeviceIngest` have
  transactions that stay open over several steps (`pending`; `held`, `purged`, `keys`,
  `staged`), with READ COMMITTED visibility, waits on uncommitted keys and, in
  `DeviceIngest`, PostgreSQL's deadlock detection. The other services write with single
  statements.
- **`save()` of an entity that was loaded before is two steps.** TypeORM selects the row again
  (`Reload`), and then updates the columns in which the entity differs from that row
  (`Write`). This decides which half of a concurrent change survives.
- **`appendEvent`, seen from another service, adds an event or throws.** `LedgerChain` has it
  in full; `Orders`, `Inventory` and `AuthService` use what it promises, `DeviceIngest` has it
  step by step, because a batch calls it inside its own transaction, and `DeviceRegistry` as a
  race for the head of the chain, because one heartbeat starts two appends at a time.
- **Failure.** A statement, an append, Redis, the network or the process may fail at every
  await (`Fail`, `Rollback`, `Crash`, `Restart`, `Unavailable`, `LinkLost`, `SocketLost`).
  Memory then stays as it is, or is emptied; what is committed stays.
- **History variables** (`stale`, `overlapped`, `overtaken`, `lost`, `owing`, `epoch`, `late`,
  `clean`, `barred`, `told`, `passed`, `noted`, `owed`) record what has happened so that a
  property can speak of it. No guard reads them, except that `epoch` counts against `MaxExpiry`.

`LedgerChain`: a writer `w` is a transaction in flight. `Begin` is the call, `ReadHead` the
`findOne` of the head, `Insert` the `save` (guarded by the CHECK constraints and the unique
key), `Conflict` error 23505, `Commit`, `Respond` the continuation that notifies and answers.
In mode `batch` the caller's transaction goes on with `NextInBatch`, and `Insert` notifies at
once, as line 234 does. A hash is the list of fields it commits to: SHA-256 is taken to be
free of collisions.

`Orders`: `Create`, `LookupFound`/`LookupNone`, `ChooseNumber`, `InsertOrder` follow
`persistOrder`; `Change`, `Reload`, `Write` follow `changeStatus`; `Stamp`, `BeginAppend`,
`Record` are the append with the two times an event gets: `timestamp` when `appendEvent` is
called and `created_at` when its transaction begins.

`DeviceIngest`: `Ingest`, `Purge`, `Reserve`, `Replayed` are `reserveNonce`; `ReadHead`,
`Insert`, `Conflict` the append; `ScanInsert` the append of `scanItem`, on its own connection;
`NextItem`, `Finish` the loop of a batch and its commit. `nonce[e]` gets old by `Expire`.

`DeviceRegistry`: `Call`, `Authenticate`/`Refuse`, `Limit` are the guards of the controller;
`Load`, `Reload`, `Write` a status change or a heartbeat, `Insert` a registration; `Answer`
starts the audit events, each of which reads the head of the chain and appends on its own
(`AuditRead`, `AuditAppend`, `AuditLost`).

`Inventory`: `Load` loads the row and checks it (`Allowed`), `Reload` and `Write` save what
`Entity` computed, `AppendEvent` records the `Delta`; `AppendAnomaly` is the second event of a
scan at a wrong place; `Add` and `Insert` create, `Sweep` is the release of expired
reservations, and the detections are a request that reads all rows and appends its findings.

`AuthService`: one account, its login sessions (refresh token ids in memory), access tokens
and the blacklist (memory and Redis), the account's record (memory and table), service tokens
(memory and table). `Arrive`, `CheckRedis`, `Permit` are the guards every request goes through;
`Logout`, `BlacklistInRedis`, `AppendLogout`, `ChangeUser`, `Reload`, `Write`, `ChangeToken`,
`SaveToken` the handlers; `Restart` is `onModuleInit` of a new process.

`Throttler`: calls with one key. Each Redis command of `incrementRedis` is an action
(`Exists`, `ExistsCounter`, `BlockedIncr`, `Incr`, `PExpire`, `SetBlock`), `Local` is
`incrementLocal`, `ClientGone` what is left of a call whose client another call has closed.
Times are what is left of them and get less with `Tick`.

`WebSession`: `calls` are the HTTP calls under way, one place for each tab's timer refresh and
`Slots` for the rest. `Serve` is the API, `Answer` the continuation in the tab: for an API call
that got 401 the interceptor's refresh (`renew`) and then the retry.

`Notifications`: `state` is `connectionStateSubject`, `manager` what socket.io does below it;
`Connected`, `ConnectError`, `Lost`, `Offline`, `Online`, `FailTimerFires` are the handlers,
`Mount` and `Unmount` the components that connect, subscribe and disconnect the shared service.
An append is `AppendBegins`, `AppendCommits` or `AppendFails`, and `EmitLedgerEvent`: after the
commit, or before it in a batch. Appends are numbered as they begin, since `created_at` is the
database's `now()`, the start of the transaction; they commit in any order. A time of the browser
is such a number too, off by up to `MaxSkew` (`BrowserTime`): it is what `Lost` notes in `since`.
`FindAll` is the read of a recovery, `Recovered` its filter by `created_at`.

`OrderBoard`: `SocketAccepted`, `Rejected`, `Disconnected`, `PingTimeout` are the gateway; `Create`,
`Change`, `Set`, `Emit`, `List`, `Get` the API as the pages see it; `ListEvent`, `ApplyOrder`,
`DetailEvent`, `ListAnswered`, `DetailAnswered`, `Browse` the pages.

## 3. What is checked

| Run | Bounds | Shows |
| --- | --- | --- |
| `ledger_chain` | 2 tenants, 2 writers, 3 events, both kinds of transaction | `verifyChain` finds no failure; what was acknowledged is recorded; clients of own transactions are told of committed events; the table implements the append-only log; every append ends |
| `orders` | 3 requests, 2 orders, 2 numbers, 1 key | creation is idempotent, the ledger explains the status, an order changed serially has a valid proof |
| `device_ingest` | 2 requests of 7 kinds (single, batches of two in both orders, a scan), 2 nonces, 2 expiries, 2 foreign appends | a nonce admits one request per window, batches are all or nothing, every request is answered |
| `device_registry` | 2 requests, 2 ids for 1 name, threshold 2, counts up to 3 | no heartbeat let in before a suspension or revocation, and loading after it, undoes it; a change of status has its audit event on the way |
| `inventory` | 3 requests of 13 kinds, 2 items, quantities up to 2 | the ledger adds up to the stock, the columns of a row fit together, a reservation ends only by a release or a due sweep |
| `auth_service` | 3 requests of 12 kinds, 1 session of 2 token pairs, 1 service token, 1 restart | one refresh token per session, a logout ends the session and its access token, deactivations and revocations hold across failures and restarts |
| `rate_limit` | 3 calls, limit 2, window 2 ticks, block 3 ticks | at most twice the limit passes in any span of one window; an announced block is kept while Redis answers |
| `web_session` | 2 tabs, 1 call besides the refreshes, 2 pairs, 1 reload or restart | a shown session has its refresh scheduled; a retry carries the token its own refresh brought; a dead session ends |
| `notifications` | the centre and two pages, 1 append, 3 tries, 2 recoveries at a time, a clock that is off by 1 append | the connection settles; an answered recovery gives what was committed during the outage and had not begun before the time noted |
| `order_board` | 2 orders, 1 per page, 2 connections, 2 calls, the filter "any" then "confirmed" | settled pages are current unless news was lost or late; a socket registered after it is gone is removed |

Two runs look for a violation of what a document says, and find it (`PROJECT.json`,
`findings`):

| Run | The document says | The code |
| --- | --- | --- |
| `device_ingest_scan_batch` | batch requests return results per item (the example has a scan) | the scan's append waits for the batch's own uncommitted row, for ever |
| `web_session_logout` | logout revokes the refresh token and ends the session | the client clears the session before it posts, the call has no access token and is refused; the refresh token stays live |

**Why the bounds are enough.** Nearly every race in this code is between two requests at one
row, key or chain; a third request is there to change the row, or the chain, between the two (a
stale save needs a load, a foreign write and a save). In `device_ingest` the foreign writers of
the chain (`MaxOther`) take the third one's place, and a deadlock needs two batches. Two
tenants show that chains do not mix, two items that a sweep works through several, two tabs
that storage is shared and lost. The block of `rate_limit` is longer than its window, so that
the counter can expire first. `order_board` has pages of one row so that an order can be on
another page. One append is enough in `notifications`, since the emission and the recovery's
filter look at each event by itself: it can begin, commit and be emitted before, during and
after an outage, and a clock that is off by one append can hide it or not. That several appends
commit the other way round is covered by the proof alone. Values are only compared: two order
numbers, nonces or locations are a collision and its absence. Requests, events and ids are
interchangeable and are symmetry sets in runs that check no liveness. `PROJECT.json` names,
for every property of every passing run, a mutated definition with which TLC finds the
property violated at the same bounds.

**Deadlock** checking is off everywhere: requests are made a bounded number of times and the
system rests when all have been answered.

**Fairness.**

- `LedgerChain!FairSpec` and `DeviceIngest!FairSpec` ask weak fairness of each request's next
  step, and nothing of the arrival of requests, of failures or of time. The event loop runs
  every continuation whose promise has resolved, PostgreSQL answers every statement that does
  not wait for a lock, and it breaks every cycle of locks it can see (`DeadlockVictim`). It
  cannot see a wait inside the process, which is why `device_ingest_scan_batch` has no answer
  under the same fairness.
- `WebSession!FairSpec`: a timer that is set fires, a call is answered (a failure is an
  answer), and the answer is handled. Nobody has to click, reload or restart.
- `Notifications!LiveFairSpec`: an attempt to connect ends one way or the other, and the failure
  timer fires. Not that connections succeed, nor that socket.io tries again.
- `OrderBoard!Fairness`: the heartbeat's interval fires and a socket that is no longer
  connected does not acknowledge its ping.

**What the good properties leave out.** Saves without a lock or a version make several
promises false in general. The passing properties state exactly what remains true: on rows no
stale save has hit (`stale`, `overtaken`), for orders whose event got in (`lost`) and whose
appends did not overlap (`overlapped`), for deactivations that no role assignment overlapped
(`clean`), for pages whose news was not lost (`late`), and for appends that had not begun before
the time at which the client noted a loss (`noted`). Section 5 lists what happens otherwise.

## 4. What is proved

Eight modules hold proofs; each theorem holds for every value of the constants, from the
assumptions its module names. Every state machine has its types proved (`TypeCorrect`,
`LiveTypeCorrect`, `BoardTypeCorrect`), and so are all the safety invariants and action
properties the passing runs check.

| Module | Theorem | Property |
| --- | --- | --- |
| `LedgerChainProofs` | `ChainInvariant` | the inductive invariant `ChainInv` |
| | `ChainAlwaysVerifies` | `ChainVerifies`: `verifyChain` reports no failure for any tenant |
| | `AcknowledgedIsRecorded` | `AckedDurable`: an append that was answered is in the chain |
| | `NotifiedIsRecorded` | `NotifiedDurable` |
| | `ChainImplementsLog` | `ImplementsLog`: each step appends to one tenant's log or changes none |
| `OrdersProofs` | `CreationIdempotent` | `IdempotentCreate` |
| | `LedgerExplainsStatus` | `StatusExplained`: for each status, what the ledger and the appends under way say of entering and leaving it is what the row says |
| | `SerialProofsValid` | `SerialProofValid`: an order changed serially has a valid proof |
| `DeviceIngestProofs` | `NoncesUsedOnce`, `BatchesAtomic` | `OncePerWindow`, `BatchAtomic` |
| `DeviceRegistryProofs` | `ChangesAudited`, `BarsHold` | `ChangeAudited`, `BarHolds` |
| `InventoryProofs` | `EventsExplainStock` | `StockExplained`: the ledger adds up to the stock |
| | `RowsFit`, `ReservationsEnd` | `RowConsistent`, `ReservationEnds` |
| `AuthServiceProofs` | `RefreshTokensRotate`, `LogoutsEndSessions`, `LogoutsHold`, `DeactivationsHold`, `RevocationsHold` | `OneRefreshToken`, `SessionEnds`, `LogoutHolds`, `DeactivationHolds`, `RevocationHolds` |
| `ThrottlerProofs` | `LimitHolds` | `WithinLimit`: no store lets more than twice the limit through in a span of one window |
| | `BlocksHold` | `BlockHolds` |
| `WebClientProofs` | `RefreshesScheduled`, `RetriesFresh` | `RefreshScheduled`, `RetryIsFresh` |
| | `OutagesRecovered` | `OutageRecovered`, for any error of the clock and any order of commits |
| | `PagesCurrent` | `PageCurrent`: settled pages are current unless news was lost or late |

`WebClientProofs` extends the three modules of the client. They share no state and no action,
and their names differ (`TypeOK`, `LiveTypeOK`, `BoardTypeOK`; `calls` of the session,
`requests` of the order pages), so that one module can speak of all three.

### The arguments

**The chain.** `ChainVerifies` is not inductive: it says nothing of the rows open transactions
have inserted, nor of the head a transaction has read and will link to. `ChainInv` adds that.
For every tenant the committed rows are a good chain (`CommittedGood`: sequences 1..n, no two
equal, each row linked to its predecessor); so are the rows each transaction sees
(`VisibleGood`); an uncommitted row has neither the key of a committed row nor that of another
transaction's row, and the head that was read is still there at the time of the insert
(`PendingSound`); what is about to be answered is committed (`DoneRecorded`). Action by action:

- *Insert.* The head read is a visible row but may be old. If it is not the top, the next
  sequence belongs to a row that is visible (`GoodDown`: a good chain has every sequence up to
  its top). If that row is committed the key is taken and the insert refused; if it is the
  writer's own, `PendingSound` puts it at or below the head. So an insert that goes through
  continues the chain (`InsertContinues`), and a continued good chain is good (`GoodExtend`).
- *Commit.* Two transactions of one tenant never both have uncommitted rows
  (`PendingExclusive`): each chain starts right above the committed top (`JustAbove`), so both
  would hold that key. Hence the commit moves the visible rows of one transaction to all.
- *Everything else* only drops pending rows or reads.

`ChainAlwaysVerifies` then counts: in a good chain the rows below a row are as many as its
sequence less one (`GoodPlace`), and the row read just before it is its predecessor. For
`ChainImplementsLog` the log of a tenant is the function from positions to events of its good
chain; a commit keeps every position and adds at least one.

**Creation of orders.** `CreateInv` says that no two orders have one key (`KeysDistinct`, kept
by the unique index at each insert and by every update, which leaves the key alone) and that a
creation past its insert, or answered, has the order that carries its key (`CreationsKeyed`).
Two answered creations with one key then have one order, whichever way each got it.

**Statuses.** `StatusExplained` counts, for an order and a status, the events and the owed events
that enter it and that leave it. A save moves the row and makes one event owing; the append moves
that event from what is owed to the ledger. Each of the four sets (`EventsTo`, `EventsFrom`,
`OwingTo`, `OwingFrom`) gains or loses at most one element in a step. For this to be so
`StatusInv` adds that what is counted is finite, that no event is recorded twice
(`EventsDistinct`), that a change under way is one the lifecycle allows from what its request
loaded (`Allowed`), and that the row of an order that is not stale is never behind what a request
has loaded of it (`Forward`), so that the status an event says it left is the one the row had.

**Proofs of serial orders.** An order is serial while none of its appends overlapped and none was
lost. For such an order `SerialOrder` says: one request at most is on it, and has loaded the row
as it is (`Own`); the times it has taken for its event are later than those of every event
recorded; the last event entered the status of the row, or the one that request will say it left
(`LastExplains`); and the recorded events are a sound proof, which an event that comes last and
leaves that status keeps sound (`Appended`).

**Nonces.** `NonceInv` tracks claims on the current life of a nonce: an event recorded, or a
request on its way to record it, under one reservation. Each transaction's deleted and
inserted nonce rows are its own (`Locks`); a claim on the current life has its row, committed
or inserted by the claiming transaction (`Backed`); so a second claim under the same
reservation cannot begin (`OneClaim`). A purge starts a new life, and `Locks` keeps it from
rows others hold.

**Batches.** `Batches` says that an unfinished batch has what it is through with in its own
staged rows and nothing in the log; the commit moves them all at once.

**Devices.** `ChangesAudited` follows each debt from the save to the event that pays it: only
the append or the loss of that event ends the debt. `BarsHold` rests on `Saving`: a heartbeat
that loaded a barred row, or loaded one nobody has changed since, wants the status to stay.
The case that remains is a row changed after it was loaded, which `BarHolds` names.

**Inventory.** `RowInv` adds to the types what a request has checked (`LoadSound`: the entity
to be saved comes from a row that allowed the operation; `TodoSound` the same for a sweep's
list). On a row without stale saves, the row to be updated is the row that was checked.

**Stock.** The row of an item is ahead of the ledger by what the requests that have saved it still
owe, and that is a sum over a set, which a fold defines by recursion. `SumsTo` says it without:
the sum of `S` is `t` if every relation that starts with the empty set and 0, and goes on by adding
one element and what it owes, relates `S` to `t`. Its laws (the empty set sums to 0 only, one
element more or less) follow from one chosen relation each. `StockInv` says for each item
that nothing stale has hit that the saved requests on it sum to row less ledger.

**Sessions and tokens.** `SessionInv`: a logout past its first step has removed every refresh
token of its session, which cannot be issued another (`LogoutDone`), and its access token is
in the process' memory until a restart (`BlockedHere`). `BarInv` follows a deactivation that
no assignment overlaps through memory, select and update; `RevokeInv` a revocation, using that
a token id is made up once and known only from the answer to its creation.

**Blocks.** `Blocking`: while Redis is used, its block lasts at least as long as any waiting
client was told, and no call of such a client has got past the check. The types need
`Expiring`: a counter without expiry has at most one call on its way to give it one, and
cannot go away before, so no `PEXPIRE` meets a counter that is gone.

**The limit.** `passed[s][i]` counts the calls store `s` has let through in this tick and the `i`
before it. `LocalWindow` and `RedisWindow` say that those of the current window are at most its
counter and at most the limit, that those of the window before are older than it and at most the
limit again, and that whatever came before is older than a window is long. So a span of one
window meets at most two. The counter of Redis gets its expiry by a command of its own, and
may be older than its expiry says (`MadeAt`), and the call that made it may still be waiting for
that command (`Pending`).

**The client's session.** `SessionInv` of `WebClientProofs` gives each tab's refresh its own
place among the calls; a session is shown only together with its timer or that refresh, and
the access token a retry carries is the one its refresh has stored in the step before.

**Recoveries.** `LiveInv` follows what is owed from the loss to the answer. The client holds what
its clock said at the notice (`Noted`): an error while connecting keeps it, so that a long outage
is asked for from its beginning. A recovery that was asked for carries that time, and what it owes
was committed before it was asked for, so the rows have it once the table is read, whatever order
the commits had (`Covers`). What had not begun before that time then passes the filter.

**The order pages.** `BoardInv` first orders what is known by rank, since a status only moves
forward: no line, answer or event is newer than the row (`Known`), and a page says one thing of
an order (`PageOK`). Then each line that is shown is `Told`: it is right, or late, or an event or
an unsent change of that order is still to come (`Awaited`); on the detail page the order may
instead be being read again (`Reading`). An event that reaches the page is perhaps the last one
awaited, of its own order only; what it leaves wrong is late by then. The lemmas it rests on say
what `Filter`, `Ranked`, `Slice` and `RemoveAt` return; that a filter has its n-th index
(`RankTaken`) is a least-number argument from the library's well-founded order of the naturals.

**Only model-checked:** liveness (`AppendsEnd`, `EveryRequestAnswered`, `DeadSessionEnds`,
`Settles`, `GhostsRemoved`), which is out of the prover's reach.

## 5. Assumptions and limits

- One API process, as the production compose file runs. In particular no other process makes
  a stale copy of service tokens or user records.
- The migrations have run: `UQ_ledger_events_tenant_chain_sequence` and the other unique
  indexes exist. (With TypeORM's `synchronize` in development the constraint on the chain is
  not created, and the mutant `KeyTaken_NoUnique` is what happens.) The chain is empty at the
  start: rows back-filled by the migration have MD5 links, which `verifyChain` reports.
- A statement that fails has not been executed. A commit whose answer is lost is in
  `LedgerChain` a `Commit` followed by a `Crash`.
- Redis keeps what it was given until it expires.
- In `Inventory`, a caller of `create` does not supply `reservationExpiresAt` in the metadata,
  and imports, bulk moves and scan batches are that many requests one after the other.
- In `DeviceIngest` the change a scan makes to the item's row is left to `Inventory`; only its
  append matters there.
- In `AuthService` permissions follow from the account being active; the table of roles is
  not modelled.
- In `Notifications` an append is a transaction with one event; the other events of a batch have
  its `created_at` and its commit. The error of the browser's clock may differ from one notice to
  the next. `MaxFetches` bounds the recoveries under way by delaying a reconnect; recoveries
  touch nothing but what has been shown.
- `Throttler` models one key, `WebSession` one user, `Notifications` one tab and its current
  socket, `OrderBoard` one tab among other users. Statuses of orders are three in
  `OrderBoard`: one that can still change, one later, one final.

What the models reach that differs from a document, or that a reader should know of, and has
no run of its own:

*Ledger and orders*

- In a caller's transaction `appendEvent` notifies at each insert, before the commit; a
  rollback may follow (`ledger-events.service.ts:234`; `ledger-model.md:42`).
- A change checked on a stale copy overwrites a terminal status (`orders.service.ts:352`;
  `order-management.md:59`).
- Two overlapping appends of one order are ordered by `created_at` against their timestamps;
  the order's own proof fails for good (`orders.service.ts:395`; `order-management.md:149`).
- `persistOrder` returns an existing order on a retry even when the first try failed after the
  save, so `ORDER_CREATED` is never recorded and the proof of that order can never verify
  (`orders.service.ts:197`; `order-management.md:73`). A change of status whose append fails
  after the save is likewise not in the ledger (`:361`).
- `verifyProof` checks hashes, times and the first event, not that the transitions are allowed
  ones (`orders.service.ts:593`; `order-management.md:157`).

*Inventory and devices*

- Two reservations that load before either saves are both granted (`inventory.service.ts:341`;
  `inventory-management.md:74`). A sweep that collected several expired reservations can
  release a newer one (`inventory.service.ts:411`; `inventory-management.md:80`). Two saves of
  one row mix their columns; a save whose append fails changes stock the ledger does not explain.
- A scan that names no location clears the mismatch of an earlier one
  (`inventory.service.ts:680`), while a move does not clear it (`inventory-management.md:112`),
  and each detection records the same finding again.
- A single event whose append fails has used up its nonce: the retry is answered 409 and the
  event is never recorded (`devices.service.ts:420`; `device-event-ingestion-guide.md:182`).
- A heartbeat that loaded its device before a revocation can save over it, and two degraded
  heartbeats can count as one (`devices.service.ts:362`, `:366`). The two audit events of an
  auto-suspension race for one place in the chain; the loser is logged and gone.

*Auth and rate limiting*

- A deactivation and a role assignment of one account that overlap can leave the table and the
  memory different, so the account's state changes at the next restart
  (`auth.service.ts:661`). A change whose statement fails is answered with an error, and holds in
  memory until a restart undoes it (`:374`).
- After a logout while Redis is down, a restart forgets the blacklist and the access token
  works again until it expires (`token-blacklist.service.ts:51`).
- A crash between `INCR` and `PEXPIRE`, or a blocked call's `INCR` just after its counter has
  expired, leaves a counter that never expires: the limit then does not reset
  (`redis-throttler.storage.ts:106`; `SPRINT-1-TASKS.md:197`). A call that runs while another
  closes the client is let through uncounted (`:104`). The bucket in memory forgets a block
  with its window (`:135`).

*Web client*

- A refresh answered after a logout brings the session back; two calls that fail with 401
  together sign the user out, since the second refresh fails and clears the session the first
  has saved; a late 401 of a logout clears a session signed in to since; any error of the
  retried call clears the session; a failed timer refresh clears it without leaving the page.
- After an outage of more than six seconds the client shows `failed`, and the reconnect that
  follows recovers nothing. After `failed` or a disconnect by another page the client
  connects without its old subscriptions and shows `connected`
  (`live-operations-visual-state-model.md:11`). What is appended between the loss of a link
  and its notice is never recovered. A subscription that arrives before a slow verification
  has ended closes the socket.
- A loss is noted with the browser's `new Date()` (`notification.service.ts:161`), and the
  recovery keeps what has a `created_at` no earlier than that (`:297`), which is when the append's
  transaction began. An append that is open at the notice and commits after it, or that begins
  just after it while the browser's clock is ahead, is emitted to rooms the tab is not in, and
  the filter drops it from the answer (`SPRINT-5-TASKS.md:234`). A device batch is open longest:
  all its events carry the time it began. A clock that is behind only recovers more.
- An order of another page whose status changes is put first on the page and counted again.
  An event is matched with the form's filter, although the list may not have been loaded with
  it. An answer of the list read before a change, but handled after its event, overwrites the
  newer row for good. The pages are not loaded again after a reconnect, and a socket the
  gateway closes does not reconnect. The key of a creation has the time in it, so a form sent
  again after a lost answer makes a second order.
- A socket of the orders gateway that is registered after it has gone stays until the next
  heartbeat; the notifications gateway has no heartbeat, and it stays for ever.

## 6. Not modelled

Reads and their mapping to responses, the OpenAPI and metrics code, the health endpoint, role
tables, the tenant guard, zod schemas (they appear as the sets of requests), migrations (their
constraints are guards), the device, inventory, dashboard and scan pages, deployment, scripts
and tests: they keep no state that several steps share. Of the notifications gateway the count
of subscription attempts and the map of all clients are left out, of the auth service which
role gives which permission.

## 7. What could be added

- From `ChainInv`, what the chain is for: a row that is changed, removed or put elsewhere in a
  good chain is reported by `verifyChain`.
- `Orders` over `LedgerLog` in place of its own set of events, and an order as an atomic state
  machine, which `Orders` implements as long as requests do not overlap.
- The notifications gateway with several sockets of several tenants: no event leaves its
  tenant, subscriptions and rooms agree.
