# Verification of the DOKI booking engine

TLA+ specifications of `doki-core-backend` (the two-tier hold and its HTTP handler,
the allocation ledger, the idempotency middleware, identity and property
administration, the daily allocation sweep and the search), the TLC configurations
that check them on small instances, and theorems about them that the TLA+ proof
system checks for every value of the constants.

All paths below are relative to the repository root (`src/` in `PROJECT.json`).

## 1. The system and its parts

DOKI sells hotel rooms. A booking starts with a short-lived *hold*, taken in two
layers: Redis counts the units of a room type per night (Layer 1, fast, volatile),
PostgreSQL keeps the reservation and the daily allocation ledger (Layer 2,
authoritative). A background worker expires holds and extends the ledger.

| Component | State | Operations | Talks to |
| --- | --- | --- | --- |
| Redis hold store (`inventory_hold_adapter.go`, two Lua scripts) | per night a counter key with a TTL; per token a list of the counters it incremented, with a TTL | `AcquireFastHold` (one script per night, rollback when one is refused or errs), `ReleaseFastHold` | called by the hold service and the sweeper |
| Hold service (`hold_service.go`) | none of its own | `CreateHold`: acquire, persist, compensate | hold store, reservation repository |
| Reservation repository (`reservation_repo.go`) | `reservation.reservations`, one row per hold | `CreateHold`, `CreateReservation`, `Get...`, `UpdateStatus`, `GetExpiredHolds`, `MarkReservationExpired` | PostgreSQL |
| Hold sweeper and worker (`hold_sweeper.go`, `hold_expiry_worker.go`) | the batch it is processing | `SweepExpiredHolds` on a 15 s ticker | repository, hold store |
| Allocation ledger (`inventory_repo.go`, migration 3) | `inventory.daily_allocations` with `chk_inventory_bounds` | `CommitAllocation`, `BatchUpsertDailyAllocations`, `GetDailyAllocations`, `AcquireHold`/`ReleaseHold` (take nothing) | PostgreSQL |
| Rolling allocation (`allocation_service.go`, `allocation_sweeper.go`) | none | `GenerateRollingAllocations`, `ProcessAllActiveProperties`, daily | ledger, property repository |
| Idempotency middleware (`idempotency.go`) | response and lock keys in Redis | wraps `POST /v1/reservations/hold` | Redis, hold handler |
| Search (`search_handler.go`) | none | one availability query, grouped and paged in Go | PostgreSQL |
| Hold handler, router (`hold_handler.go`, `router.go`) | none | validation, capacity lookup, statuses, guards of the routes | hold service, middleware |
| Property administration (`property/service.go`, `property_repo.go`, `admin_property_handler.go`) | property, room type, room tables | create with the owner's assignment, read-modify-write update, list | PostgreSQL, user repository |
| Identity, JWT, RBAC (`auth_service.go`, `user_repo.go`, `jwt.go`, `auth.go`, `rbac.go`) | users, assignments; tokens, kept by their holders | register, login, role and scope checks | PostgreSQL |
| Money (`money.go`) | none | 64-bit arithmetic in minor units; the program calls `NewMoney` only | everybody |

What is hard about it:

* **Interleaving.** A stay is acquired night by night, one atomic script each;
  other acquisitions, rollbacks and sweeps run in between.
* **Retries of what was done.** Any EVALSHA error, also a lost reply, is retried
  as EVAL. A night may be taken twice under one token.
* **Two stores, no transaction.** Redis, then PostgreSQL, then a compensation; a
  process may die between any two of them, and any call may fail or be carried
  out with its answer lost.
* **Time.** Counters, token lists and rows expire independently. The sweeper
  looks at a row exactly when its token is about to vanish, or has vanished.
* **Replicas.** Several workers poll the same rows.
* **Check, then act.** The ledger is checked in Go on the rows of one statement and
  changed by another; the idempotency key is read in one call and locked in another;
  a property is read, merged and written back; a guard looks at a token that was
  issued before the tables changed.
* **Errors that are dropped.** The owner's assignment, the rollback of a hold, a
  sweep's error, `rows.Err`: the caller is told of success, or a later run must make
  up for it.

What must be true of each component (the list behind the properties):

* hold store: no night oversold; a call grants all its nights or none; calls and
  releases neither lose units nor make them up; a valid hold can be released in full;
* service and sweeper: an answered hold is never taken away and never promised
  twice; a failed request leaves nothing behind; an overdue row ends; replicas that
  process a row twice do no harm;
* ledger: the bounds hold, commits are all-or-nothing, no deadlock, the nightly
  upsert never disturbs what is sold;
* rolling allocation: a sweep that reports success has provided its whole horizon,
  one that fails is made up for, and no sold unit is touched;
* search: guests are shown exactly what `CommitAllocation` would sell, each property
  once on the pages of one answer of the query, and on the same page of every answer
  but where a page ends between properties of one name;
* idempotency: one execution per key, and retries see its response;
* administration and RBAC: a token claims no more than the tables say, rows change
  for entitled people only, an owner reaches what was created for him, an update
  keeps what it was not asked to change.

## 2. Modules

| Module | What it is |
| --- | --- |
| `RoomPool` | abstract specification: rooms are granted for whole stays, never beyond capacity, and holds end |
| `FastHold` | the Redis hold store of one room type and `AcquireFastHold`/`ReleaseFastHold` |
| `FastHoldProofs` | theorems about `FastHold` |
| `HoldLifecycle` | extends `FastHold` by `CreateHold`, the reservation rows and the sweeper replicas |
| `HoldLifecycleProofs` | theorems about `HoldLifecycle`, among them that it implements `FastHold` |
| `Ledger` | abstract specification: stays are sold and nights provided, each call at one instant |
| `Allocation` | the daily allocation ledger of one room type: `CommitAllocation` and `GenerateRollingAllocations` as PostgreSQL transactions |
| `AllocationProofs` | theorems about `Allocation`, among them that it implements `Ledger` |
| `Idempotency` | `IdempotencyMiddleware` and the requests of one key |
| `IdempotencyProofs` | theorems about `Idempotency` |
| `Access` | roles, the route table of `/v1/admin`, the guards, the statuses of errors |
| `BackOffice` | extends `Access` by accounts, logins and tokens, and by the handlers that create and update properties, room types and rooms |
| `BackOfficeProofs` | theorems about `BackOffice` |
| `Storefront` | catalogue, ledgers of several room types, the allocation sweep over them, and the search; instantiates `Ledger` once per room type |
| `StorefrontProofs` | theorems about the sweep and the ledgers of `Storefront` |
| `SearchProofs` | theorems about the search of `Storefront` |
| `HoldDesk` | extends `HoldLifecycle` by what `HoldHandler.CreateHold` does around it |
| `HoldDeskProofs` | theorems about `HoldDesk`, among them that it implements `HoldLifecycle` |
| `MCFastHold`, `MCHoldLifecycle`, `MCAllocation`, `MCIdempotency`, `MCBackOffice`, `MCStorefront`, `MCHoldDesk` | instances for TLC, with symmetry where it is sound |

`FastHold`, `HoldLifecycle` and `HoldDesk` are composed (each extends the one before).
The ledger is not wired to them yet in the program: nothing calls `CommitAllocation`,
so `Allocation` and `Storefront` take its calls as they come. `Storefront` has a
transaction on one room type's ledger as one step; that this is sound is what
`Allocation` shows (`ImplementsLedger`): both implement `Ledger`, `Storefront` once for
each room type (`BooksAreKept`, `StorefrontKeepsLedger`). `BackOffice` and `Storefront` meet in the status of a property and the
room types it has: the first has who may change them and how, the second only that
they change. The middleware's only effect on `CreateHold` is how often it is called,
so `Idempotency` has the handler as one step.

### FastHold

| Code | Specification |
| --- | --- |
| counter key `inv:hold:..:night` and its TTL | `count[k]`, `countTTL[k]`; 0 life means no key |
| token list `inv:token:..` and its TTL | entries of `index` (`<<token, night, attempt>>`), `tokenTTL[r]` |
| the goroutine in `AcquireFastHold`: its position, loop variable and stay | `pc[r]`, `night[r]`, `stay[r]` |
| `expiresAt`, fixed before the loop | `expires[r]`, in ticks from now |
| `inventory_hold.lua` | `HoldScript` = `Admits`, `Take` |
| `inventory_release.lua` | `ReleaseScript`, `Refund` |
| EVALSHA, then EVAL on any error | `pc` `"sha"`, then `"eval"` |
| rollback with its error dropped | `UndoDone`, `UndoError` |

`Faults` says what may go wrong: `"lost"` - a script runs but the caller sees an
error; `"down"` - it does not run; `"crash"` - the calling process dies. Time is
relative: a TTL is the number of ticks left and `Tick` ages everything at once.
`SlowAcquire` says whether the clock may tick while nights are being acquired,
that is whether an acquisition may straddle a tick.

A request and the token it draws are one identity. It may serve another request
once its token has left Redis and is no longer a valid hold, so the number of
requests *served* is unbounded, the number alive at a time is not.

### HoldLifecycle

Every action is an action of `FastHold` or leaves its variables alone (this is
proved), and adds `svc[r]` (where `CreateHold` is), `row[r]` (the status column),
`batch[w]` and `at[w]` (the rows a worker has fetched, and where it is with the
first). `GetExpiredHolds` runs on the pool outside a transaction, so fetching is
one atomic step that locks nothing afterwards. `UpdateStatus` is the guarded form;
its caller, a later step of the booking, is not in the repository yet, so it may
come at any time after the hold was answered. `PersistConflict` is the unique
violation of a booking reference that another row has (`DK-` and eight random
characters): it needs no fault. `ServiceCrash` is the death of the API process inside
`AcquireFastHold` or between the Redis hold and the end of `CreateHold`. The rows have
no age beyond being due, so a fetch takes the due rows in any order (the code's `ORDER BY
hold_expires_at` is one of them), and at most `BatchSize` of them, fewer when
others are locked at that instant.

### Allocation

| Code | Specification |
| --- | --- |
| table `inventory.daily_allocations` | `ledger`; `NoRow` for a night without a row |
| what a transaction wrote and has not committed | `wrote[p]` |
| row locks of the transaction | `held[p]`; rows its statement has still to lock: `todo[p]` |
| SELECT .. ORDER BY stay_date FOR UPDATE | `Begin` (snapshot), `LockRow` per row |
| bounds check, row count, early returns | `fits[s]`, `Check` |
| UPDATE, `chk_inventory_bounds`, `RowsAffected` | `Update` |
| COMMIT, deferred ROLLBACK | `Commit`, `CommitChunk`; `End` |
| chunks of `AllocationBatchChunkSize` | `FirstFew`, `Rest` |
| INSERT .. ON CONFLICT .. WHERE allocated_count = 0 | `Upserted`, `Upsert` |

The Go loop returns at the first full row, but pgx reads the result to its end
before it rolls back, and the server goes on locking rows meanwhile; the model
therefore locks all rows and then refuses. What is modelled of PostgreSQL is READ
COMMITTED: each statement sees the rows committed when it begins, a locking
statement waits for a row's owner and then sees the newest version, all locks go at
the end of the transaction. The migration gives every constraint the model uses.
`Faults`: `"down"` - a statement fails or the connection or process dies, and the
server rolls back; `"lost"` - COMMIT is done, its answer is lost.

### Idempotency

`resp` and `lockTTL` are the two Redis keys; `pc[r]` is where a request is in the
middleware, one step per Redis call (`GetHit`/`GetMiss`, `TakeLock`/`Conflict`/
`FailOpen`, `Handle`, `Save`, `Unlock`). The handler's small JSON answers stay in
the server's write buffer until the middleware returns, so the client has its
answer (`got[r]`) after the deferred DEL. A panic of the handler skips the SET like
a 5xx and is one (`"error"`). `before` and `failed` are history variables: which
requests had been answered when this one arrived, and which met a Redis error.
`SlowHandler` says whether a handler may outlive ticks of the lock's TTL.

### Access and BackOffice

| Code | Specification |
| --- | --- |
| `identity.app_user` by phone number | `account` |
| `property.user_property_assignment` | `assigned` |
| the tables of schema `property` | `property` (`NoRow` where there is none), `roomType`, `room` |
| what a JWT says; who holds one | `token[u]`: `role`, `props` |
| where a handler of two statements is, its request, the row it read | `pc[c]`, `req[c]`, `seen[c]` |
| `router.go` 133-172 | `Route`, `Scoped` |
| `AuthMiddleware`, `RequirePropertyScope`, `RequireRoles` | `Admits`, `Refusal`, `TurnAway` |
| errors of a service, `errors.Is` in a handler, status | `Objections`, `Known`, `StatusOf`, `Status` |
| `POST /auth/register`, `/auth/login` | `Register`, `Login`; `Expire` is the token's time to live |
| `POST /admin/properties` | `InsertProperty`, then `AssignOwner` |
| `PUT /admin/properties/{id}` | `ReadProperty`, then `WriteProperty` of `Merged` |
| `GET /admin/properties/{id}`, room types, rooms | `GetProperty`, `CreateRoomType`, `CreateRoom` |

A handler with one statement is one step; creating and updating a property are two
each, since no transaction spans them. `Ways` says how a statement ends: heard,
failed (`"down"`), done with its answer lost (`"lost"`); `"crash"` ends all requests
in progress, `"cut"` breaks the connection while the assignments of a login are read,
which `GetUserPropertyAssignments` does not notice. Of a property's fields the name
and the status are kept, which stand for all that an update may name or leave out.
`last` is the latest request that wrote or was answered, `orphans` a history variable:
the properties one of whose creating statements failed. A code, a name or a label is
a member of a small set. What is created is trimmed before it is looked at, so there
the members stand for what is left; an update looks first, so its name may be `""` (not
named), `Blank` (named, and nothing left of it) or a name, and `TrimSpace` is part of
`Merged`.

### Storefront

| Code | Specification |
| --- | --- |
| status of properties, room types there are | `status`, `offered` |
| `inventory.daily_allocations` of all room types | `rows[t][night]` |
| the loops of `ProcessAllActiveProperties` | `at`, `queue` (properties still to do), `types` (of the first of them) |
| `ListProperties` with its clamp, `ListRoomTypesByProperty` | `ListProperties`, `Limit`, `ListRoomTypes` |
| `GenerateRollingAllocations` of one room type | `Generate`, `Provided`, `Window` |
| an error anywhere, dropped by `Run`; a dead worker | `SweepFails`, after any number of nights of a room type |
| the query | `QueryRows`: the lists it may answer with (`Matches` is HAVING, `Left` is MIN, `InOrder` is ORDER BY) |
| `for rows.Next()`; `propertyMap`, `orderedPropertyIDs` | `Grouped`, a row at a time by `AfterRow`; its fields `rooms`, `ids` |
| slicing, defaults of the parameters, the handler | `Slice`; `Guests`, `Page`, `PageSize`; `SearchProperties` |

`promised` and `began` are history variables of a sweep: the room types that the
properties it listed had, and the day it began. Constants say what never changes: the
property, the rate and the bed count of a room type, its units, and the place of a
property's name in the alphabet, where namesakes share a place. The search changes
nothing and is an operator, evaluated in every state. PostgreSQL may answer with rows
of equal name and rate in any order, so `QueryRows` is a set of lists and every one is
looked at. The code sends the query again for every page, and nothing makes the
database break a tie as it did before. `SearchIsExact` therefore speaks of one answer
and of two: the pages cut from one (`ExactPages`) show every property once; where one
page of an answer has all properties of a name, each is on that page of any other answer
and on no other page (`PagesAgree`). Without that condition on names TLC finds two
namesakes on either side of the end of a page that change places.

### HoldDesk

`TurnAway` refuses a request whose `Body` does not pass the checks, `Post` starts
`CreateHold` with `Capacity` (100: the handler's fallback, since `NewRouter` hands it
no property repository), `Handle` is a step of `CreateHold`; `answer[r]` is the status
it ends in. `conflict` has the requests for which `errors.Is` will find
`ErrInventoryUnavailable` or `ErrConflict`, which both are 409: a night is sold out, or
the booking reference is taken, and no failed compensation has hidden that error in
its own (`hold_service.go:108` formats it with `%v`). Any other error is 500. A process
that dies before it has written the status gives no answer.

## 3. Runs

| Run | Instance | Shows |
| --- | --- | --- |
| `fast_hold` | 3 requests, 2 nights, capacity 2, TTL 2, lost replies and crashes | `NoOversell`, `Covered`, `OnlyExpiryLeaks`, `HeldIsReleasable`; `ImplementsPool`: the store implements `RoomPool` |
| `fast_hold_straddle` | 3 requests, capacity 1, no faults, slow acquisitions | **violation** of `NoOversell` |
| `hold_desk` | 3 requests to the handler, 2 workers, 2 nights, 1 room, TTL 1, lost replies | `NoDoublePromise`, `PromiseKept`, `NothingLeftBehind`, and `AnswersAreTrue`: 201 means a row and rooms, 400, 409 and 422 mean neither |
| `hold_lifecycle_live` | 2 requests, 1 worker, all faults, slow acquisitions, fairness | `EveryHoldEnds`, `SelfHealing`, and `PromiseKept` under all faults |
| `sweep_reclaims` | 2 requests, 1 worker, no faults | **violation**: units are not reclaimed by the sweep |
| `allocation` | 2 sales, 2 generators, 3 nights in chunks of 2, 1 or 2 units, failures and lost COMMITs | `CheckHolds`, `AllOrNothing`, `NoWaitCycle`, `HorizonProvided`; `ImplementsLedger`: the transactions are serializable |
| `allocation_live` | 2 sales, 1 generator, 2 days, fairness | `CallsEnd` |
| `idempotency` | 3 requests, all faults, fairness | `OneAtATime`, `RetryIsReplayed`, `LockIsFreed` |
| `exactly_once` | 2 requests, no faults | **violation**: both execute |
| `back_office` | 2 people (owners, managers), 2 properties, 2 codes, 2 requests at a time, all faults | `TokensAreBacked`, `OwnerCanReach`, `OnlyByStaff`, `UnaskedIsKept` |
| `storefront` | 2 hotels of one name with 3 room types, 2 days, horizon of 2, 1 sale, failing sweeps, fairness | `SearchIsExact`, `SweepProvides`, `BooksAreKept`, `HorizonMoves` |
| `exhaustion` | 3 requests, 2 units, capacity 100, no faults | **violation**: three holds of two units |

Bounds. Two nights are the least for which a stay can be taken in part, overlap
another in part and be rolled back. Three requests on capacity 1 or 2 are the
least for which one is refused while two hold, and for which a wrong release hands
the unit of one hold to another. A TTL of 2 ticks lets holds be of different age on one counter; `hold_desk`
does with 1, because with one room no counter ever has two holds.
A batch of 1 makes two replicas meet on a row, a batch of 2 makes a worker carry
rows while others change.
Three nights in chunks of two give a full chunk and a rest, and stays that overlap
in part; two sales and two generators are the least for every pair of kinds to wait
for each other, and totals of 1 and 2 let a generator lower what another has raised.
Three requests with one key are the least for which one deletes the lock of a second and a third gets in.
Two people and two requests are the least for which one changes what the other has
read or was issued a token for. The constraint `FewRows` stops `back_office` after two
room types, rooms and updates in progress together, enough for a second of the same code
or number, for a room whose type is of another property, and for two updates that read
one row; `OneField` has each update name one field, since `Merged` treats them one by
one. Its roles are owners and managers; headquarters
pass every guard and would hide what the others may not do. The theorems have no
such bounds and cover all roles.
Two hotels of one name whose room types alternate in the order of rates make the
rows of two properties alternate; three room types and two days let a sweep fail
between any two, be overtaken by midnight, and be followed by another. The limit the sweep
asks for (3) is above `ListMax` and falls back to `ListDefault`, but that is as long as
the list: no run cuts it, and what is left out (the properties behind the first twenty)
is seen in `Limit` only. A page size of one (`SizeMax`) makes the search turn pages, with
both hotels of the name on either side of a page's end, while sizes out of range fall
back to two, where both are on one page.
The theorems lift what they state to every value.

Symmetry: requests and workers are interchangeable in the safety runs; the
liveness and violation runs use none. Sales are interchangeable, and so are
generators, in `allocation`; people, properties, codes and requests in `back_office`,
whose states are compared without `last` (`VIEW`): no guard looks at it, and action
properties are checked of every step. In `hold_desk` states are compared without the
stays of holds that have run out (`VIEW`): only an acquisition and a valid hold look at
a stay, a release goes by the token's entries in Redis.

Deadlock is checked in every run: time can always pass, and in `Allocation` a
generator can always run again.

### Fairness

`Fairness` in `HoldLifecycle` assumes that time passes; that a request being
served goes on (a goroutine is scheduled; both clients have timeouts, so each call
ends, perhaps in an error, which is an action too); that the worker's ticker
(15 s, `cmd/worker/main.go:98`) fires and its sweep goes on; and, by strong
fairness of `SweepRelease` and `SweepMark`, that a worker which comes to these
statements again and again is not failed or killed there every time. Nothing is
assumed of requests coming, of rows being confirmed or of faults happening.

`Fairness` in `Allocation`: a transaction whose next step needs no lock takes it, and
a row lock that becomes free again and again is granted (PostgreSQL queues the
waiters of a row). `FairSpec` in `Idempotency`: a request being served goes on, and
time passes; faults are allowed, never forced.

`Fairness` in `Storefront`: the worker's ticker (24 h, `cmd/worker/main.go:97`) fires
again and again and a sweep that has begun goes on; and after some time no statement
of a sweep fails any more. The second is an assumption about the database, not about
the code: a sweep that fails every day at the same room type never gets to the ones
after it. Nothing is assumed of administration and sales, nor that days pass. The
days end at `LastDay`, so `HorizonMoves` says that the horizon catches up with the
last day after any failures before.

## 4. Findings

1. **Straddling acquisition** (`fast_hold_straddle`; README.md:219). Each night's
   script renews the life of the token list, but not of the nights taken before.
   When an acquisition straddles a tick, an earlier counter dies before the token
   list. If somebody recreates it, the late release of the first token takes that
   somebody's unit, and the room is granted again. Without such acquisitions this
   is impossible, for every instance (theorem `NeverOversold`).
2. **The sweep reclaims nothing** (`sweep_reclaims`; PROGRESS.md:81). A row becomes
   due when its token list expires. The release then finds no list; if other holds
   have kept the counter alive, the unit stays taken until the counter expires.
3. **Executed twice** (`exactly_once`; idempotency.go:44). The response is read before
   the lock is taken and not again after it. A request that misses while the first is
   in the handler and takes the lock after the first is done executes again. No fault
   and no slow handler is needed; what the middleware does guarantee is
   `OneAtATime` and `RetryIsReplayed`.
4. **A hundred holds for two units** (`exhaustion`; test/e2e/search_and_hold_test.go:280).
   `router.go:104` gives the hold handler no property repository, so its capacity is
   always the fallback of 100 and Layer 1 refuses nobody before that.

Known limitations met while modelling, with no run of their own:

* *Replicas fetch the same row* (reservation_repo.go:213, against PROGRESS.md:80).
  `FOR UPDATE SKIP LOCKED` outside a transaction guards the SELECT only. The model has
  it, and it does no harm: `PromiseKept` and `NoDoublePromise` hold with two replicas.
* *A confirmed row may be overwritten with EXPIRED* (reservation_repo.go:244): the
  sweeper's UPDATE does not look at the status its SELECT saw. Nothing in the program
  confirms a row yet.
* *Only twenty properties are swept* (property_repo.go:177): the sweep asks for 1000
  active properties, a limit above 100 is clamped to 20, and the list is ordered by
  name. The others never get allocations, against "all active hotels"
  (allocation_service.go:91). `HorizonMoves` is stated of the first page.
* *A new room type is not seeded*: `SeedNewRoomTypeInventory` "is triggered when a new
  room type is created" (allocation_service.go:79), and nothing calls it. The room type
  is on sale after the next sweep.
* *A page may repeat or miss a hotel* (search_handler.go:98, 155, 158): namesakes whose
  cheapest rooms cost the same have no order of their own, and every page is a query of
  its own. Where a page ends between them, a guest may see one twice and the other not at
  all. `SearchIsExact` is what holds: each answer's pages are exact, and two answers
  agree on all other properties (`PagesAgree`). Nor is anything promised to a guest who
  turns pages while rooms are sold. Far beyond the last page, `(page - 1) * pageSize`
  exceeds 64 bits and `start` is negative.
* *More than 32767 guests are an error* (search_handler.go:75, 143): `guests` is any
  number in Go and compared with a SMALLINT column, so the query fails and the answer is
  500. `EverySearchExact` is stated up to that number.
* *An update may blank a name* (property/service.go:83, also city and region): it is tested
  before it is trimmed, so `"  "` is written as `""`, although creation refuses that
  ("Code, name, city, and region are required fields", admin_property_handler.go:75).
  `BackOfficeTypeOK` has such rows, and says no more than that names are trimmed.
* *Anybody may register as headquarters* (auth_handler.go:35): the role is taken from the
  request, and `HQ_ADMIN` passes every guard. `Register` has it; `OnlyByStaff` speaks of
  the roles people have, not of how they came by them.
* *A conflict may be told as an error* (hold_service.go:108): a compensation that fails
  replaces `ErrConflict` by an error that only quotes it, and 409 becomes 500.
* *The search does not see holds*: it subtracts what the ledger has sold, not what Redis
  holds, so guests are shown rooms that a hold will refuse.
* *A cut result looks complete* (search_handler.go:167, user_repo.go:95): `rows.Err` is not
  looked at. A search shows fewer hotels; a login issues a token with fewer properties
  (never with more: `TokensAreBacked`).
* *Updates are lost* (property/service.go:78): the second of two updates writes back
  what it read of the fields it does not name, whatever the first has changed of them.
  `UnaskedIsKept` is what is left: a field that nobody changed in between stays.
* *An owner may never be assigned* (property/service.go:61, property_repo.go:55): the error
  is dropped and the answer is 201; or the INSERT is done, its answer is lost or the
  process dies, and the assignment is never tried. `OwnerCanReach` excuses these cases
  (`orphans`) and says that there are no others.
* *Refusals of a service are 500*: the packages `property` and `identity` have sentinels of
  the same names as `domain`'s, and the handlers look for `domain`'s with `errors.Is`.
  An empty name or a wrong password is answered 500, not 400 or 401 (`Objections`).
* *A supervisor passes every property's scope* (rbac.go:80): the region is left to the
  service or the query, and neither looks at it.

## 5. Proofs

`tlapm` proves every obligation of the proof modules, from the named assumptions on
the constants, which say no more than that there are finitely many requests, sales,
properties and room types, that the numbers are positive, that a call is a sale or a generator but not
both, and that the value for "nobody" is not a person.

| Theorem | States | Proviso |
| --- | --- | --- |
| `TypeCorrect` | `Spec => []TypeOK` | |
| `HoldsAreReleasable` | `Spec => []HeldIsReleasable` | |
| `NeverOversold` | `Spec => []NoOversell` | `~ SlowAcquire` |
| `ReleasesAreCovered` | `Spec => []Covered` | `~ SlowAcquire` |
| `CallsDoNotLeak` | `Spec => OnlyExpiryLeaks` | `~ SlowAcquire` |
| `StoreImplementsPool` | `Spec => ImplementsPool` | `~ SlowAcquire` |
| `LifeTypeCorrect` | `LifeSpec => []LifeTypeOK` | |
| `ImplementsFastHold` | `LifeSpec => Spec` | |
| `PromisesAreKept` | `LifeSpec => []PromiseKept` | |
| `NeverDoublePromised` | `LifeSpec => []NoDoublePromise` | `~ SlowAcquire` |
| `FailuresLeaveNothing` | `LifeSpec => []NothingLeftBehind` | `Faults \subseteq {"lost"}` |
| `AllocTypeCorrect` | `Spec => []AllocTypeOK` | |
| `ChecksHold` | `Spec => []CheckHolds` | |
| `HorizonIsProvided` | `Spec => []HorizonProvided` | |
| `NoDeadlock` | `Spec => []NoWaitCycle` | |
| `LedgerIsImplemented` | `Spec => ImplementsLedger` | |
| `SoldAsAWhole` | `Spec => []AllOrNothing` | |
| `IdempTypeCorrect` | `Spec => []IdempTypeOK` | |
| `LockExcludes` | `Spec => []OneAtATime` | `~ SlowHandler` |
| `RetriesAreReplayed` | `Spec => []RetryIsReplayed` | |
| `BackOfficeTypeCorrect` | `Spec => []BackOfficeTypeOK` | |
| `TokensBacked` | `Spec => []TokensAreBacked` | |
| `OwnersReach` | `Spec => []OwnerCanReach` | |
| `StaffOnly` | `Spec => OnlyByStaff` | |
| `UnaskedKept` | `Spec => UnaskedIsKept` | |
| `StorefrontTypeCorrect` | `Spec => []StorefrontTypeOK` | |
| `SweepsProvide` | `Spec => SweepProvides` | |
| `BooksKept` | `Spec => BooksAreKept` | |
| `StorefrontKeepsLedger` | `Spec => Books(u)!Spec`, for every room type `u` | |
| `EverySearchExact` | `Spec => []EverySearchIsExact`: for every stay, region and page size the query has an answer, the pages of one are exact, those of two agree | at most 32767 guests |
| `SearchExact` | `Spec => []SearchIsExact` | |
| `DeskTypeCorrect` | `DeskSpec => []DeskTypeOK` | |
| `DeskImplementsLife` | `DeskSpec => LifeSpec` | |
| `YesIsAlwaysTrue` | `DeskSpec => [](\A r \in Request : YesIsTrue(r))` | |
| `AnswersAreAlwaysTrue` | `DeskSpec => []AnswersAreTrue` | `"down" \notin Faults` |
| `LookingUpWouldDo` | `DeskSpec => []WithinUnits` | `~ SlowAcquire`, `Capacity <= Units` |

The provisos are not for convenience: without `~ SlowAcquire` run
`fast_hold_straddle` violates `NoOversell`, and with Redis down or a dead process a
failed request does leave a token behind, which only its TTL removes; a guest who was
refused with 409 while Redis was down may have units taken for that long, which TLC
shows for `AnswersAreTrue` as soon as `Faults` has `"down"`. That the code violates
`WithinUnits` (run `exhaustion`) is due to `Capacity <= Units` alone. Without
`~ SlowHandler` a lock expires under a handler and another request takes it.

**Argument for FastHold.** `ListInv` is about token lists: a list that has entries
is alive (`TokensLive`); a running call has pushed nothing beyond its night, and at
its night at most what an EVALSHA with a lost reply pushed (`Frontier`), so each
push is a new entry; it has pushed all nights behind it (`Prefix`); hence the hold it
ends in is releasable. `CountInv` adds the counters: while a call runs, its keys
have their full life (`FullLife`, this is where the clock must stand still), so no
counter dies before a list that names it (`Backed`), so every entry is backed by a
unit (`Covered`). Then the valid holds of a night inject into its entries, these
are at most its counter, and the counter is at most the capacity. `NoOversell` is
not inductive by itself: nothing in it relates tokens to counters.

**Argument for HoldLifecycle.** Each action is a step of `FastHold` or a stutter
(`LifeStepIsStep`; a sweeper's head row is a request because a busy worker has a
row, `Busy`). `InOrder` says of each request that only its own service call runs its
acquisition, that its row comes last, that an answered hold with time left is
untouched and that a marked row is overdue; `BatchOverdue` says that what a worker
holds is written and overdue. Together they are inductive and give `PromiseKept`
from `HeldIsReleasable`, and `NoDoublePromise` because promised holds are valid
holds of Redis.

**Argument for HoldDesk.** The handler adds variables only (`DeskStepIsLifeStep`), so
`LifeInv`, `PromiseKept` and `NoOversell` hold behind it. `AtDesk` ties the answers to
them: 201 was given where `CreateHold` returned after its INSERT, 400 and 422 where it
never began, 409 where it ended with one of two errors. A request with such an error
(`conflict`) is being undone, by the rollback or the compensation, until it is over, and
never gets a row (`RefusedIsUndone`). `RefusedIsClean` then says that the 409 comes after
the release script has run: in the compensation because an error of it would have hidden
the conflict, in the rollback, whose error is dropped, because Redis can be reached.
`LookingUpWouldDo` is a counterfactual: nothing but the fallback capacity is in the way
of what the repository's test asks for.

**Argument for Allocation.** `AInv` says of each transaction what it has locked and
what it knows of those rows: a sale that is past its check knows that each has room,
a generator that every night behind its chunk is provided. Locks exclude each other
(`Exclusive`) and a step changes only rows its transaction has locked, so nobody's
knowledge is disturbed by another's step: lemma `Compose` says this once, for all
actions. `CheckHolds` and `HorizonProvided` are then read off. For `NoDeadlock`,
locks are taken upwards, so of any waiting set the member that holds the highest
night waits for nobody in it. `SoldAsAWhole` carries the set of committed sales
along; only `Commit` and a `CommitUnheard` of a sale add to it, one unit on each
night of the stay. Every commit is one step of `Ledger`, and all else stutters.

**Argument for Idempotency.** `LockInv`: who is between SETNX and DEL has a living
lock, because the clock stands still; so SETNX fails for the others and a DEL deletes
the request's own lock. `CacheInv` and `RetryInv`: an answer to be kept is in Redis
before it is sent and nothing removes it, so a later request whose GET works hits.

**Argument for BackOffice.** Guards look at tokens, properties speak of tables. The
bridge is that accounts and assignments only grow (`TablesGrow`) and that property rows
stay and keep their owner (`RowsStay`, `WrittenRow`), so what a token said when it was
issued is true for ever: `TokensAreBacked`. `CallsAreEntitled` carries it over the gap
between the two statements of a request: who waits to write an update was admitted,
hence is headquarters or an assigned owner, and the row is there. Neither `BackOfficeTypeOK`
(is the row that is written back a row?) nor `OnlyByStaff` is inductive without it. For
`OwnersReach`, an owner without assignment is excused by a creation in progress or by
`orphans`; each step that ends the one excuse gives the assignment or the other.

**Argument for Storefront.** `SweepProvides` speaks of the step with which a sweep
returns nil, so the invariant has to say all along what is still to come: `Kept` says
that each room type the sweep is to serve is on sale for the horizon already, or ahead
of the sweep, among the types of the property it is at or at home in a property behind
that in its queue. At the end of the queue nothing is ahead. Three facts carry it. A
list that the database returns has every element of the set it lists (an injection
between finite sets of one size is a surjection, lemma `Listing`), so nothing is left
out by a list of a property's types, and the properties of a first page are all the
sweep is to serve. Rows that are there stay there, whatever is sold or fails
(`RowsStep`). And midnight only moves `today` away from `began`, so that the horizon
asked of a room type shrinks (`KeptMeanwhile`) and the one that is generated covers it
(`GenerateServes`). For `BooksKept`, only a sale and an upsert change rows, each of one
room type; an upsert that fails leaves the nights of its first chunks, which is a
smaller `Provide` of `Ledger`.

`StorefrontKeepsLedger` adds that the rows begin as those of
`Ledger` do, so that it is implemented as a whole, once per room type.

**Argument for the search.** `Within` (no night has more sold than its total, a night
without a row has neither) is the only invariant of the system that is needed: with it
the query's HAVING finds a room type just when `CommitAllocation` would accept the stay
(`FoundIsSellable`: no night is missing from the count, and the least of what remains is
above zero), and that least, which exists because a non-empty set of naturals has one,
is the number of times the stay can still be sold. The rest is about the Go code and
holds in every state. The loop over the rows is a recursive function, and its invariant
(`LoopRuns`, `AllGrouped`, by the least number of rows for which it would fail, lemma
`Least`: the library's induction theorems cannot be instantiated) says that after `i` rows `ids` lists each property met once, in the order of its first row, and
`rooms[p]` the room types of `p` in the order of theirs; so the order by name, then rate,
survives grouping although rows of two namesakes alternate. The slices of all pages cover
the list and do not meet (`PageOf`, `PagesApart`: division with remainder by the page
size), and one page more than there are properties is enough to see them all. Of two
answers: in a list sorted by name without repetitions, those with an earlier name come
first and are as many as there are (`ComeFirst`), so the properties of a name have the
same places in every answer (`PlacesOfName`). If all these places are on one page, that
page of any other answer has the property wherever among them it is (`AnswersAgree`).
That the query has an answer at all (`QueryAnswers`) is that a finite set can be sorted.

Only model-checked: `EveryHoldEnds`, `SelfHealing`, `CallsEnd`, `LockIsFreed` and
`HorizonMoves`, since liveness under fairness is out of the prover's reach. Each inductive
invariant was checked with TLC first.

## 6. What is not modelled

* A script that Redis carries out only after the caller's rollback (a call that
  timed out but is still in flight), and the loss of keys by eviction or failover.
* The single-string token format of `inventory_release.lua:9-19`: nothing writes it.
* Retries inside the Redis client: go-redis may send one EVALSHA, EVAL or SETNX again
  when the connection breaks (`MaxRetries` has its default), so one call may run more
  than once. The model has one retry, EVALSHA then EVAL, and a SETNX runs once.
* Differences between the clocks of Redis, API and worker beyond `SlowAcquire`.
* Several room types in `FastHold` and `Allocation`: keys and rows carry property and
  room type, so they are independent. `Storefront` has several.
* `blocked_count` and `rate_minor`: no statement sets the first, and no guard reads
  the second. Stays of broken days (`Hours()/24`): the callers pass whole dates.
* Deletion of a property or room type, which cascades to its ledger rows: no statement
  of the program deletes anything.
* The 24 hour life of a cached response: a retry after it is a new request.
* `InventoryRepository.AcquireHold`, `ReleaseHold`, `GetDailyAllocations`,
  `CreateReservation`, `GetRoomTypeByID`, `ListRoomsByProperty`, `GetByID`,
  `RequireRegionalScope`: nothing in the program reaches them, and they change nothing
  (`CreateReservation` apart).
* E-mail addresses as a second login name; password hashes and signatures: a token is
  what was issued, a password is right or wrong. Deactivation of an account:
  `is_active` is true from the INSERT on.
* `Money`: the program calls `NewMoney` only, which keeps its two arguments. `Add`, `Sub`,
  `Multiply` and `Percentage` are called by tests.
* Billing: type declarations without operations.
* Start-up, logging, metrics, health probes, SQL text, DTOs.

## 7. What may come next

1. The payment step, once it is in the program: it will confirm rows (and make the
   overwritten status above matter) and call `CommitAllocation`, so that `HoldLifecycle`
   and `Allocation` can be composed.
2. `FastHold` with calls still in flight after a timeout, and with lost keys.
3. A search whose rows end early: what is shown must be true, though not all is shown.
4. `Money` against unbounded arithmetic, once prices are computed.
