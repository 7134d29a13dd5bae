# hifumi-backend: TLA+ specifications, model checking and proofs

`study-list-api` is the synchronisation backend of a study-list application.
Every user (an *owner*) has several devices; each device keeps its records
locally under a *baseline id* and sends mutations to the server. The server
keeps, per owner, one log of changes (the *lineage* of the current baseline),
tells devices what was applied, what lost a conflict and what it already knew,
and lets a device replace the lineage with its local snapshot. This directory
holds the specifications of that system, the TLC configurations that check
them, and TLAPS proofs.

## 1. The system

### Components, state and operations

| Component | Source | State | Operations |
| --- | --- | --- | --- |
| Owner sync transaction | `internal/sync/service.go`, `internal/store/mysql/store.go`, `migrations/001_sync_core.up.sql` | nine tables keyed by owner: head and lineage, operations, records, receipts, resolutions, archive changes and heads, outbox | `Exchange`, `Diff`, `ResolveBaseline`, `ReadFeedPage` |
| Request validation | `internal/sync/validation.go` | none | envelope checks before the rate limit; mutation and snapshot checks inside the transaction |
| Progress day | `internal/sync/progress.go` | a column of `sync_heads` | `deriveProgressDay` over all records |
| Outbox publisher | `internal/store/mysql/outbox.go` | `realtime_outbox.published_at_ms` | `publishOne`: lock a row, publish, mark |
| Redis client | `internal/realtime/redis.go` | rate windows, a sorted set of connection leases per owner, the hint channel | fixed window, acquire / refresh / release, publish / subscribe |
| WakeHub | `internal/realtime/wake_hub.go` | subscriptions with a one-slot signal channel | `Register`, `Publish`, `Unregister`, `Close` |
| WebSocket hub | `internal/realtime/hub.go` | peers with a 32-slot send channel | `Register`, `Broadcast`, `Unregister` |
| SSE stream | `internal/httpapi/sse.go` | one cursor per stream | catch up, wake on a hint, reconcile every 30 s, heartbeat, expire |
| WebSocket endpoint | `internal/httpapi/websocket.go`, `frames.go` | reader, writer and lease goroutine per connection | RPC frames, hints, close status |
| HTTP API | `internal/httpapi/server.go` | none | sync endpoints, session, login callback, health |
| Profiles | `internal/store/mysql/profile.go` | `user_profiles` | `UpsertProfile` |
| Sessions and OAuth | `internal/auth/*.go` | signed tokens | sign, verify, exchange a code |
| Schema migration | `migrations/migrate.go` | `schema_migrations`, an advisory lock | `Up`, `Check` |
| Process lifecycle | `cmd/study-list-api/main.go` | contexts of server, streams and loops | `serve`, `migrate`, shutdown |
| Configuration, protobuf, packaging | `internal/config`, `api/sync/v1`, `Dockerfile`, `deploy/` | none | parsed or generated once |

### How they interact

A sync request is validated, charged to a Redis rate window, and runs **one
MySQL transaction**: `WithOwnerTransaction` inserts the owner row if needed,
locks it with `SELECT ... FOR UPDATE`, and runs the operation; the deferred
`Rollback` undoes it on any error. A commit that changed the log leaves a row
in `realtime_outbox`; a background loop of every replica publishes it to Redis
and marks it; every replica's subscriber wakes the SSE streams (`WakeHub`) and
sends the hint to the WebSocket peers (`Hub`). Streams never take data from a
hint: they read the next page from MySQL.

### What is hard

* **Failure and retry.** The commit may be durable although the client sees an
  error, and a device sends the same batch again. Receipts per `op_id` must
  give the same answers without a second write.
* **Replacing a lineage.** `USE_LOCAL` deletes five tables' worth of state and
  starts the cursors at 1, while other devices still hold cursors and baseline
  ids of the old lineage, and an immutable archive is keyed by
  (baseline, cursor).
* **Derived state.** Records, receipts, archive, archive head, progress day and
  the outbox are all functions of the log, each maintained by statements of its
  own.
* **Delivery.** Hints are duplicated, reordered and lost; streams race with
  commits, with replaced lineages, with expiry, with shutdown.
* **Bounds.** 8 leases per owner across replicas with their own clocks, 32-slot
  queues, 512 KiB responses that are measured before the commit (`Diff`) or
  after it (`Exchange`, `ResolveBaseline`).

### What makes each component correct

* Owner transaction: the log has no gap; records are the fold of the log;
  receipts point at the log; the archive holds every lineage completely and
  never changes; no baseline comes back once it was archived; an answer names
  only what is committed.
* Progress day: equal to its derivation from the records in every commit, and
  always derivable.
* Outbox and streams: the last event is the current head; a stream sends the
  changes of one lineage in order and without gaps, and eventually all of them.
* Leases: never more than 8; an expired lease stays expired.
* Owner lock: one transaction of an owner at a time, no lost version, and
  everyone who waits gets a turn or is rolled back.
* WakeHub: no send on a closed channel, no lost wake-up, nobody waits on a hub
  that is closed.
* WebSockets: a committed request is answered or its connection ends; an end has
  its true reason; a hint reaches every active peer with room.
* Process: an orderly exit cuts nothing short, and only a client that stalls a
  plain request makes it need its timeout.
* Migration: `Check` succeeds only on a complete schema; a crash can be
  repaired by running again.

## 2. The modules

| Module | Models | Kind |
| --- | --- | --- |
| `SyncStore` | the tables of one owner and the statements on them | operators, no variables |
| `SyncService` | `Exchange`, `Diff`, `ResolveBaseline` as transactions over them | state machine |
| `ChangeLog` | what the tables promise a device that keeps (baseline, cursor) | abstract specification |
| `FeedLog` | what the commits of one owner look like to the event pipeline | abstract specification |
| `HintPipeline` | outbox publishers, Redis, hint subscribers, over `FeedLog` | state machine |
| `EventStream` | SSE streams and the wake hub, over `HintPipeline` | state machine |
| `ConnectionLease` | the leases of one owner in Redis and the handlers that hold them | state machine |
| `Migration` | `migrate` processes under the advisory lock, and the schema check of `serve` | state machine |
| `OwnerLock` | InnoDB's locks of one owner row under sync transactions and profile upserts | state machine |
| `WakeHub` | the wake hub with its lock and channels, and the streams that wait on it | state machine |
| `Process` | `serve` from its first request to its exit, over `WakeHub` | state machine |
| `WsConnection` | the WebSockets of one owner and the hub that sends them hints | state machine |
| `SyncServiceProofs` | types and log of `SyncService`, and the lemmas about the statements of `SyncStore` | proofs |
| `SyncArchiveProofs` | archive, answers and refinements of `SyncService` | proofs |
| `EventStreamProofs` | theorems about `EventStream`, and how it stands on `HintPipeline` and `FeedLog` | proofs |
| `ProcessProofs` | theorems about `WakeHub` and `Process` | proofs |
| `ConnectionLeaseProofs`, `MigrationProofs`, `OwnerLockProofs`, `WsConnectionProofs` | theorems about the module of that name | proofs |
| `MCSyncBatches`, `MCSyncResolve`, `MCHintPipeline`, `MCEventStream`, `MCConnectionLease`, `MCMigration`, `MCOwnerLock`, `MCProcess`, `MCWsConnection` | instances for TLC | model checking |

How they compose: `SyncService` is the detailed model of what one owner
commits and implements both `ChangeLog` and `FeedLog`. The event pipeline is
built on `FeedLog` instead of `SyncService`, so its state space is that of the
pipeline: `HintPipeline` EXTENDS `FeedLog`, `EventStream` EXTENDS
`HintPipeline`. That each of them implements the one below it is proved, so that
`FeedLog` is the specification in which transactions, publishers and streams
meet. `Process` EXTENDS `WakeHub`: each of its steps is a step of the
hub or leaves it alone, which `ProcessImplementsWakeHub` proves. `WakeHub` is
the inside of what `EventStream` takes as one flag per stream. `OwnerLock` is the
inside of the serial transactions `SyncService` assumes. `ConnectionLease`,
`Migration` and `WsConnection` share no state with the rest: an RPC on a
WebSocket is to `SyncService` a request like any other.

### SyncStore and SyncService

`db` holds the committed tables of the owner, a record of functions: `head` and
`lineage` are the row of `sync_heads`, `ops` is `sync_operations` by cursor,
`records` is `sync_records` by entity key, `receipts` by op_id, `resolutions`
by request id, `archive` by (baseline, cursor), `archiveHeads` by baseline, and
`outbox` the rows of `realtime_outbox` in order. `work` is what the open
transaction sees; `phase`, `req`, `batch` and `reply` are the progress, the
request, the locals and the result of the handler.

*One owner, one open transaction.* Every statement of the code carries
`owner_key`, so owners share nothing, and the row lock on `sync_owners` is the
first thing a transaction takes, so an owner's transactions are serial
(`OwnerLock` shows how far that goes). What stays concurrent is what clients see:
requests of several devices in any order, stale baselines, retries of requests
whose answer was lost.

*One step per mutation.* A transaction is not one atomic step: it advances
mutation by mutation (`ReplayMutation`, `ConflictMutation`, `ApplyMutation`,
the rejections), and `Abort` may roll it back between any two. A batch that
repeats an op_id, or writes the same key twice, therefore sees its own earlier
writes, as in the code. `FinishExchange`, `FinishDiff` and `FinishImport` are
the tail of the handler with `finalizeMutationBatch` (increment the lineage,
derive the progress day, archive, archive head, outbox row) inside the step.

*Two commits.* `Commit` makes `work` durable and only then measures the
response of `Exchange` and `ResolveBaseline`, as `handleSyncHTTP` does; `Diff`
is measured before (`RejectLargeDiff` rolls back). `CommitUnknown` is a durable
commit whose caller gets an error.

*Abstractions.* Device ids, timestamps and value bytes decide nothing and are left
out. A mutation carries in `day` the date `deriveProgressDay` finds in it: none, a
day, or `Underivable` for a key `PathUnescape` rejects. `LongDays` are the dates
longer than `progress_day VARCHAR(64)`: the UPDATE fails if the latest date is one
(MySQL's default, strict mode), and only then, while an underivable key always
fails (`ProgressDayFails`). `valid` says whether `validateMutation` accepts it.
The size of a response is its number of Changes. Entity keys are numbers, because
the import sorts by key. Operation ids and baselines are model values; `Minted`
are the ids `randomBaselineID` may return, and a client can only name a minted id
the server has told it (`Sendable`). The rows of a page are a set: the code sorts
them by cursor.

### ChangeLog

Three variables: the current lineage, its log, and everything ever published
under (lineage, cursor). A step either appends to the log or switches to a
lineage under which nothing was published. `SyncService!ImplementsChangeLog`
maps `lineage` to `db.lineage.baseline`, `log` to `sync_operations` and
`published` to `sync_archive_changes`: a device that remembers a baseline and a
cursor is never shown a different change under the same pair.

### FeedLog

Four variables: the current lineage, the last cursor of every lineage, the
lineages with an archive head, and the number of outbox rows. A batch extends
the current lineage (or creates the first one) and leaves one row, an import
moves to a lineage that is not archived and leaves one row, and `ensureLineage`
creates a lineage and leaves none: a stream on another baseline learns of that
only by reconciliation. The content of a change is left out because `ChangeLog`
says that (lineage, cursor) identifies it. `SyncService!ImplementsFeedLog` maps
`rows` to the length of `db.outbox`, the others to head, log and archive heads.

### HintPipeline

`LockRow` is `SELECT ... FOR UPDATE SKIP LOCKED` of the oldest row no other
publisher holds; `PublishHint`, `MarkPublished` and `PublishFails` are the rest
of `publishOne`; `PublisherRollback` is every failure after the lock, the death
of the process included. A row is published before it is marked, so it may be
published twice, and publishers overtake each other. A hint reaches the
processes subscribed at that moment; `LoseSubscription` takes what was not
handled with it. `missed` is a history variable: the hints a process did not get.

### EventStream

`stream[s]` is the handler of one connection: `leased` (before
`wakeHub.Register`), `read` (before the next `ReadFeedPage`), `write` (an event
in hand), `wait` (the select loop), `closed`. Reading and writing are separate
steps, so commits, imports, hints and crashes come between a snapshot and its
event and between two pages of one catch-up. `ReadPage` gives the Changes of the
page any sizes and lets the event take `BoundedPrefix` of them; a stream whose
next Change does not fit can only fail. `BoundedPrefix` is the binary search of
`boundedFeedResponse` itself, a recursive function of the variables of its loop
(`Search`), which `PrefixIsLongest` compares with the longest prefix. (The event
is measured by the sum of the sizes of its Changes: the envelope is a constant.)
`wake` is the one-slot channel: `Deliver` sets it for every registered stream
of the process, `WakeUp` clears it before it reads. `from`, `asOf` and `sent`
are history: the cursor asked for, the outbox rows at the last read, and the
changes written so far.

### ConnectionLease

`lease` is the sorted set, `conn` the handler of each connection: its phase, the
next tick of `refreshLease`, and its last call with the clock reading it
carries. A call is issued in one step and executed by Redis in another, up to
`MaxDelay` later, possibly twice (the client library repeats a command whose
answer was lost), possibly after its caller gave up. `NotAcquired` leaves a slot
behind that nobody releases, as the code does. Clocks differ by `Skew`. Time
passes (`Tick`) only when no handler is overdue, except those that have been
stalled (`late`): for these nothing is promised but that their lease does not
come back.

### Migration

One action per statement that changes something MySQL keeps: `GET_LOCK`, the
statements, the dirty row. `Fails` after any of them covers an error, the
deadline and the death of the process; the session ends and with it the lock
(`ReleaseLock`).

### OwnerLock

`shared`, `exclusive` and `profile` are who holds which lock, `row` is whether the
owner has a row or who is inserting it. A request that nothing conflicts with is
granted at once, any other waits. `INSERT IGNORE` inserts the row (`InsertOwner`),
shares an existing one (`ShareOwner`) or waits for the transaction that has it
(`AwaitShare`). When an inserter is rolled back, the shared requests that wait for
its row become shared locks of the gap (`Waiting`, `End`), and each of their
owners has to insert; a transaction that begins then waits to insert too, but
without a lock (`AwaitInsert`), so it delays nobody. `SELECT ... FOR UPDATE` asks
for the row exclusively (`LockOwner`, `OwnerLocked`); `UpsertProfile` keeps the
shared lock and locks its profile row. `Victim` is InnoDB's deadlock detection:
one transaction of a smallest cycle is rolled back. `Rollback` is every other
failure, at any point. Two rules are wider than InnoDB's: requests are granted in
any order, so a shared one may pass an exclusive one that waits, and any
transaction of a cycle may be the victim. Gaps shared with other owners are left
out. The lock rules are InnoDB's, modelled from its documentation, and the
definitions that contain nothing else are marked external in `PROJECT.json`.

### WakeHub

Sections under the write lock (`Register`, `Unregister`, `Close`) are one step
that needs `rlock = {}`; `Publish` holds the lock shared and is one step per
channel, between which streams take wake-ups and other publishers send. `chan`
is the channel of each subscription: a step that would send on, or close, a
closed one sets `panicked`. `owed` is a history variable: the streams that a
publication has found and that have not read the feed since.

### Process

`main` is where `serve` is, `cancelled` the contexts that are done. A stream's
context is done when that of the streams or that of the requests is, also if it
was cancelled before the stream was opened (`context.AfterFunc`). `Shutdown`
closes the listener and waits for `Serving`: streams, plain requests and
upgrades under way, but not for a WebSocket, whose connection is hijacked.
`CancelRequests`, `CloseHub` and `Exit` are what follows and the deferred calls.
A plain request waits for its client twice, for its body (`ReadBody`) and to have
its answer taken (`WriteAnswer`). The server sets no deadline for either, and
`cancelRequests` comes after `Shutdown`.

### WsConnection

`at` is the reader, `writer` and `lease` the other two goroutines; they meet in
the queue, in `errors` (the two error channels), in `done` (the context, and who
cancelled it first) and in `broken` (the library's connection). `ReadFrame`
receives a frame of one of six kinds; the select between frames (`SeeError`,
`SeeNoError`) and each kind's handler are actions of their own, and an RPC is
three steps: admitted, committed, answered. `Answer` that finds the queue full
ends the connection; errors and hints that find it full are dropped. A hint is
broadcast to one peer per step, over a copy of the peers taken under the lock, so
peers register, leave and change their activity in between. `scope` never
changes: it bounds which connections of a behaviour open, fail and send.

## 3. The runs

| Run | Instance | Distinct states | Shows |
| --- | --- | --- | --- |
| `batches` | `MCSyncBatches` | 92 877 | answers, pages and archive versions of batches |
| `resolve` | `MCSyncResolve` | 978 166 | agreement of the tables across replaced lineages; `SyncService` implements `ChangeLog` and `FeedLog` |
| `hints` | `MCHintPipeline` | 7 572 | every outbox row is published in the end |
| `streams` | `MCEventStream` | 340 686 | no gap, honest `ready`, no lost wake-up, longest prefix; an open stream catches up or ends |
| `leases` | `MCConnectionLease` | 241 404 | never more leases than allowed; a punctual connection keeps its lease, a lost one stays lost |
| `migration` | `MCMigration` | 184 | `Check` means complete, clean is final, the lock is freed |
| `owner_lock` | `MCOwnerLock` | 3 400 | no version is lost, logins lose no deadlock, every wait ends |
| `process` | `MCProcess` | 197 000 | no panic, no lost publication, an orderly exit cuts nothing and needs no timeout unless a client stalls |
| `websocket` | `MCWsConnection` | 306 711 | answers, reasons of ends, hints, and nothing that hangs |
| `known_op` | `MCSyncResolve` | (stops at the violation) | a divergence from the documentation, section 5 |
| `owner_lock_upgrade` | `MCOwnerLock` | (stops at the violation) | a deadlock two Diffs can run into, section 5 |
| `shutdown_sockets` | `MCProcess` | (stops at the violation) | a divergence from the documentation, section 5 |

**`batches`.** Two baselines (one to mismatch), three op_ids, two keys and
eighteen batches chosen for their relations: a first write, a rival based on
nothing, the rival re-based on the version that won, a deletion, an op_id twice in
a batch, a batch whose last mutation is invalid or makes the derivation fail, and
a date that fits only while another record has a later one. The campaign starts
after all dates, so a record always decides. Two Changes fit a response, so
three-mutation batches overflow it. Every batch is sent as `Diff` and as
`Exchange` with three cursors and two page limits. The state space is finite
because three op_ids are at most three operations; it contains every order of the
batches, with rollback and unknown commit in between.

**`resolve`.** Two device baselines and one minted id, two op_ids, two keys, two
request ids. One request id is sent with every combination of local and expected
baseline, expected version 0..1 and three snapshots, so it is retried and reused
with other data; the other one brings the broken snapshots (a key twice, an op_id
twice, invalid, underivable, too long a date) and `USE_SERVER`. `Diff` batches on
all baselines run in between. With one minted id a lineage is forked once; the
next fork finds no fresh id and can only abort. One fork is enough for what the
properties speak of (a second lineage under an archived id, a device that returns
with the old baseline), because the archive does not distinguish forked from
device-minted ids. One Change fits a response, so that the size check after the
commit is hit.

All properties of the sync runs are safety properties and their specification
states no fairness: a client may stop sending at any time, and a transaction
that does not proceed is rolled back. Deadlock is checked: in every state a
request can begin, proceed, abort or be delivered.

**`hints`.** Two publishers, three rows, one subscriber. Three rows let a
publisher skip a locked one and take the next. The run stops when all rows are
published, so deadlock is not checked.

**`streams`.** One stream that is opened again and again on one
of two baselines with cursor 0 or 1, pages of two changes, lineages of up to
three, two outbox rows. A catch-up takes up to three pages, a lineage can be
replaced between two of them, a row can still be unpublished, be delivered
late, twice or not at all. Two lineages are enough to be replaced once between
two pages of the same stream; a third would be indistinguishable from the second
to it. Streams of one owner do not influence each other. `PrefixIsLongest` is
checked for all pages of one to six Changes of size 1, 3 or 7 and a limit of 5:
whole pages that fit, first Changes that do not, and every length of the binary
search up to three halvings.

**`leases`.** The tick is 12.5 s: TTL 6, period 2, one tick of delay, and a clock
that is one tick ahead, the most `ClockAssumption` allows here. Two connections
compete for one lease over more than two TTLs, so that abandoned leases are
purged and an abandoned key expires. Connections end and time is bounded, so
deadlock is not checked.

**`migration`.** Two migrators and three statements: none, some or all of them
are executed when a run fails.

**`owner_lock`, `owner_lock_upgrade`.** Two sync transactions and two profile
upserts, with and without a row. Two of each kind make every cycle there is: two
upgrades, two inserters after a rollback, and both kinds mixed.
`owner_lock_upgrade` has two sync transactions of an owner that exists and no
profile upserts, as the test it is about. All transactions end, so deadlock is not
checked.

**`process`, `shutdown_sockets`.** Two streams of one owner, so that one
publication walks two channels while one of them leaves; another owner without
streams; one plain request and one WebSocket. The process exits, so deadlock is
not checked.

**`websocket`.** A queue of one slot, where two messages of any kind compete, and
one hint, which comes from the second connection. Either one connection is open
and its lease, session, request context and client may fail, or two are, which
only leave and stall, and one of which sends a frame. One frame per connection is
enough: between frames the reader keeps no state but the queue and `committed`,
and the theorems of section 4 hold for any number. Connections end, so deadlock
is not checked.

### Fairness

* `HintFairness`: strong fairness of lock, publish and mark. `RunOutbox` retries
  every 500 ms for ever; that a retry succeeds again and again, although any
  single one may fail, is an assumption about MySQL and Redis. Weak fairness
  would not do: a failure releases the row, so no step stays enabled.
* `EventStream!Fairness`: weak fairness of register, read, write and of the
  reconcile ticker. The handler is one goroutine that does nothing else, and Go's
  select serves a ready ticker in the end. Nothing is assumed of hints,
  publishers or subscriptions: `StreamCatchesUp` shows that the ticker suffices.
* `Migration!FairSpec`: a run of `Up` goes on until it returns, because its
  context has a deadline of two minutes. Runs are not assumed to be repeated.
* `OwnerLock!FairSpec`: a statement that is not blocked returns, and InnoDB
  detects every cycle. No rollback is assumed.
* `Process!Fairness`: handlers, publications and `serve` run on. Strong where a
  write lock is needed (`Register`, `Unregister`, `Close`): `sync.RWMutex` lets no
  new reader in while a writer waits, so publications cannot keep a writer out.
  Weak for a plain request that has its body and for an upgrade: the stores
  answer. Writes to a stream have a deadline of 10 s (`sseWriteTimeout`), so a
  cancelled one ends. `ReadBody` and `WriteAnswer` are the client's, and not fair.
  No signal, no timeout and no leaving client is assumed; `ShutdownNeedsNoTimeout`
  names the one thing that may hold up the exit, a request that waits for its
  client for ever.
* `WsConnection!Fairness`: weak fairness of the reader's steps that wait for
  nobody, of the reports of writer and lease, and of a broadcast under way. That a
  client reads or sends, or that a write returns, is not assumed.

## 4. The proofs

`SyncServiceProofs` proves, for every set of baselines, op_ids, keys and
requests that satisfies the assumptions of `SyncStore` and `SyncService`:

* `TypeCorrect`: `Spec => []TypeOK`. `TypeOK` is inductive as it stands; its
  conjuncts relating `phase` to `req`, to `batch.target` and to the lineage of
  the open transaction are there for that.
* `LogIsAlwaysContiguous`, `RecordsAreAlwaysLatest`, `ReceiptsAlwaysPointAtLog`.
  The three are not inductive one by one: that a record is the latest operation
  on its key after an append needs the new cursor to be above all others, and a
  conflict's receipt points at the log only because the record it is taken from
  does. Their conjunction, `LogAgrees(d)`, is proved preserved by every
  statement of `SyncStore` and then by every action for both `db` and `work`
  (`LogInductive`), in `SyncServiceProofs`.

The assumptions are those the modules declare: device and minted baselines are
disjoint and differ from NULL, entity keys are comparable, the campaign start
is a day that fits its column, and requests have the fields of their kind.

`SyncArchiveProofs` proves the rest of what the sync runs check:

* *The archive.* `ArchiveIsAscending`, `ArchiveKeysAreFree`, `ArchiveIsImmutable`,
  `ProgressDayIsFresh`, `HintsAreAlwaysCurrent` and `ResolutionsAlwaysBelong` come
  from one invariant, `HistoryInv`. `History(db)` says how the committed tables
  hang together: the archive has exactly the cursors up to the heads of its
  baselines, the current lineage is archived as it is or nothing ever was,
  versions ascend, the last event is the head. `Transaction` says what the open
  transaction has changed of them so far, which is nothing of the archive until
  its last step; an import works under a baseline that the archive does not have.
  The collision the code must avoid is excluded by exactly that: `ResultBaselines`
  offers an archived baseline to no import, and a batch inserts above the last
  archived cursor.
* *The refinements.* `SyncImplementsChangeLog`: every commit maps to an append, to
  a switch to an unpublished lineage, or to a stutter (`Outcome`), and everything
  else leaves `db` alone. `SyncImplementsFeedLog` has two hypotheses, that op_ids
  and baselines are finite sets: the bounds `MaxHead` and `MaxRows` of `FeedLog`
  are made of their cardinalities. `HeadsBounded` supplies the count: a log
  repeats no op_id, and the events of one baseline have different cursors.
* *The answers.* `DiffAcksAreCanonical` and `ExchangePagesAreComplete` need
  `AnswerInv`, which follows a batch mutation by mutation: the acks answer the
  first mutations in their order, each with a receipt in `work` and its canonical
  Change in the log, and every Change out of order is that of a conflict. At the
  commit `work` becomes `db`, and the reply carries them over.

`EventStreamProofs` proves, for any streams, processes and publishers, any page
limit, event limit and sizes:

* `PrefixesStayLongest`. `SizeOf` and `Search` are recursive functions, so there
  are three things to prove: that a function with the defining equation exists
  (`SumExists`, `SearchExists`), that it is the only one that matters
  (`SearchAnswers`), and what it computes. All three go by least counterexample,
  from the well-foundedness of the natural numbers (`LeastNatural`). The loop
  itself is in `Answers`: what an iteration leaves to be found is what there was
  to be found before it (`IterationKeepsAnswer`), where the upper half may be
  dropped because sizes are positive (`SizeOfGrows`).
* `StreamsAreWellTyped`, `StreamsAreGapless`, `ReadyIsTrue` and
  `NoWakeUpIsLost` from the invariant `IInv`. Each of its parts is there for one
  step: `PageAgrees` carries the snapshot of a page over to its write, because
  the feed may have moved in between; `TipsAreArchived` keeps a stream at the head
  when the owner's first request creates the lineage without an event; `Settled`
  says that a stream which reads no further page stood at the head of its last
  snapshot; `Woken` says that every later row is unpublished, in the inbox of the
  process, missed or has set `wake`, and that a row a publisher is about to mark
  has already reached the process, without which marking it would break the rest.
* `StreamsRunOnPipeline` (a crash is a lost subscription, or nothing if there was
  none: `InboxInv`) and `PipelineRunsOnFeed`.

`ConnectionLeaseProofs` proves, for any finite set of connections, any clocks,
limit, TTL and horizon:

* `LeasesAreBounded`: only the acquire script adds a member, and it counts
  before it adds. The other steps leave a subset of the members.
* `OpenConnectionsHoldLeases`, under `ClockAssumption`. The invariant `LInv`
  says where a punctual handler stands: while it waits, its call is at most
  `MaxDelay` old; between ticks its score is at least `Floor`, computed from the
  next tick. `Margin` then shows that no process sees that score expired.
  `ClockAssumption` is TTL/3 + 2 * `MaxDelay` + (difference of clocks) < TTL. The
  delay counts twice: the ticker starts when the *answer* to the acquire
  arrives, so the first refresh is later, relative to its predecessor, than any
  other one. With the TTL of 75 s, twice the delay plus the difference of the
  clocks must stay below 50 s.
* `LeasesStayLost`, an action property, from what the scripts do to a member
  (`ExecuteEffect`), and `LeaseTypeCorrect`.

With the first two, at most `MaxLeases` punctual connections are open at a time.

`MigrationProofs` proves `ServersFindEveryTable` and `CleanStaysClean` for any
number of migrators, servers and statements. `CleanMeansComplete` needs
`AppliedSoFar` (the loop's prefix is executed), and `CleanIsFinal` needs
`NotCleanUnderWay`: between the read of the flag and its write nobody else
cleans the row, which is what the lock in `TypeOK` gives.

`OwnerLockProofs`, for any sets of transactions: `WritersTakeTurns` and
`CommitsCount` from the invariant `LockInv`, which says that an exclusive lock
excludes all others, that a working sync transaction has it, and that whoever
inserts the row has it (hence nobody has when the waiting requests become locks of
the gap).
`UpsertsLoseNoDeadlock` from `WaitInv`: a transaction with the exclusive lock of
the owner, or with the profile, waits for nobody in a cycle, so the only wait of
an upsert that can be part of one is that for the insertion of the owner; and
`VictimsHoldLocks`, who is in a smallest cycle has a lock, so it has waited for an
inserter that was rolled back.

`ProcessProofs`, for any subscriptions, owners and publishers: `HubNeverPanics`
(a subscription in the hub has an open channel, one of a closed hub a closed
one), `PublicationsArrive` (what a publisher still has to send is registered as
long as it holds the lock shared) and `ClosedHubIsEmpty`, of the hub alone;
`ProcessImplementsWakeHub`, step by step, transfers them to the process
(`ProcessHubIsSafe`); `OrderlyExit` needs that requests are cancelled only on the
way out and that a drained server accepts nothing (`ExitInv`).

`WsConnectionProofs`, for any connections, hints and capacity:
`WebSocketTypeCorrect`, `RequestsAreAnswered`, `LossesAreReported` and
`HintsArrive`. The argument has two halves. `MessagesStay`: no step loses a
message between queue, writer and client, because a writer that is idle holds
none (`IdleInv`). And what the three goroutines owe each other: a request
committed before the one under way has its result on its way (`AnswerInv`); an
error is in its channel before its goroutine cancels the context, and only the
reader that ends with it takes it out (`LossInv`); hints are owed only to active
peers that were registered (`HintInv`).

## 5. Where code and documentation disagree

`known_op`: the README of the repository (line 89) says that a repeated op_id
is answered with its authoritative Change. The code looks an op_id up in
`sync_receipts`, and the `USE_LOCAL` import writes op_ids to `sync_operations`
without a receipt. A device that sends such a mutation again with a base
version at or above its cursor gets HTTP 500 on every attempt (the unique key
`uq_sync_operations_op` rejects the insert); with a lower base version it is
told it lost a conflict with itself.

`owner_lock_upgrade`: `internal/integration/backend_integration_test.go` (lines
132-151) runs two Diffs of an owner that exists at once and fails if one of them
does. `WithOwnerTransaction` runs `INSERT IGNORE` first, which takes a shared lock
on the existing row, and then `SELECT ... FOR UPDATE`: if both transactions hold
the shared lock, each waits for the other, InnoDB rolls one back, and its client
gets HTTP 500. The data stay right (`EveryCommitCounts`, `AllEnd`): what is lost
is an attempt, which the client has to repeat.

`shutdown_sockets`: the README of the repository (line 188) says that after
SIGTERM the exit of WebSockets is completed within the timeout.
`http.Server.Shutdown` neither waits for hijacked connections nor closes them,
`cancelRequests` comes after it, and `serve` returns at once: the process ends
with WebSocket handlers running, which have neither sent a close frame nor
released their lease.

## 6. Only model-checked

Every invariant, action property and refinement of the runs above that hold is
also proved. What stays with TLC are the liveness properties,
`EveryRowIsPublished`, `StreamCatchesUp`, `LockIsFreed`, `AllEnd`,
`ShutdownNeedsNoTimeout`, `FailureEndsConnection` and `BroadcastEnds`: the prover
does not reason about ENABLED, so it cannot use fairness. The three violations of
section 5 are counterexamples and need no proof. That `ImplementsChangeLog` and
`ImplementsFeedLog` say enough, namely that the abstract specifications can make
every step, is seen in the runs and not stated as a theorem.

## 7. Not modelled

* **Session tokens and OAuth**: signing, verification and one remote call. The
  server keeps no state of a session or of a login under way.
* **Configuration, startup, healthcheck**: read once, before anything runs
  concurrently.
* **Generated protobuf code, packaging, deployment.**
* **Routing, CORS, origin checks, health and session endpoints**: functions of
  one request.
* **Rate windows**: one atomic script per call. Their outcomes are in
  `WsConnection!Rpc`; the counter is not, because nothing of the synchronised data
  depends on it.
* **Profile fields**: the last writer wins, and no document says which of two
  logins should. `UpsertProfile` is modelled for its locks.
* **Which bytes are valid**: JSON, base64, JavaScript truthiness in
  `deriveProgressDay`. A mutation or frame belongs to one of the kinds that the
  code tells apart.

Of the owner transaction: client timestamps and their clamping (never read back
by the server), and the branch of `ensureLineage` for tables that have operations
but no lineage, which no transaction of this code leaves (it is in
`EnsureLineage`, and unreachable).

Of the event pipeline: the rows of other owners (they delay a row, they do not
change what happens to it), and a single hint dropped from a live subscription
(the same for a stream as losing it with the subscription).

Of the process: a panic in a handler (the recovery middleware answers and goes
on) and WebSocket peers of other owners, which share only the lock of the hub.

## 8. What could follow

1. `Device`: a client's retries against `SyncService`, for the two hazards that
   depend on it (a duplicate resolution after a reset to version 0, progress past
   a 413). The client is not in this repository.
2. The safety half of the liveness arguments as theorems: that a step exists
   towards each goal is what is left of them without ENABLED.
