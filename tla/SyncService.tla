---------------------------- MODULE SyncService ----------------------------
(***************************************************************************)
(* The owner transaction of study-list-api: Service.Exchange, Diff and     *)
(* ResolveBaseline (internal/sync/service.go) over the tables of one owner *)
(* (internal/store/mysql/store.go).                                        *)
(*                                                                         *)
(* db is what MySQL has committed for the owner, work the tables as the    *)
(* open transaction sees them.  Owners share no row, and the lock on the   *)
(* sync_owners row lets one transaction of an owner run at a time, so the  *)
(* module models a single owner and a single open transaction; the         *)
(* transaction still advances one mutation at a time, because it may be    *)
(* rolled back between any two statements.                                 *)
(***************************************************************************)
EXTENDS SyncStore

CONSTANTS
    RequestIds,         \* request_id values of resolutions
    MaxResponseChanges, \* Changes that fit in a 512 KiB response
    Requests            \* the requests clients send

\* The requests that pass validateExchangeRequest, validateDiffRequest and
\* validateResolveEnvelope, which look at no mutation beyond its numbers.
ExchangeRequest == [kind : {"exchange"}, baseline : Baselines, muts : Seq(Mutation),
                    cursor : Nat, limit : Nat \ {0}]
DiffRequest == [kind : {"diff"}, baseline : Baselines, muts : Seq(Mutation)]
ResolveRequest == [kind : {"resolve"}, id : RequestIds, baseline : Baselines,
                   expected : Baselines, expectedVersion : Nat,
                   choice : {"use_local", "use_server"}, muts : Seq(Mutation)]

ASSUME MaxResponseAssumption == MaxResponseChanges \in Nat
ASSUME RequestsAssumption ==
    Requests \subseteq ExchangeRequest \cup DiffRequest \cup ResolveRequest

VARIABLES
    db,     \* the committed tables of the owner
    work,   \* the tables as the open transaction sees them; db outside one
    phase,  \* where the transaction stands
    req,    \* the request being served
    batch,  \* the locals of applyMutations and of the USE_LOCAL import
    reply   \* the result handed to the HTTP or WebSocket layer

vars == <<db, work, phase, req, batch, reply>>

-----------------------------------------------------------------------------
(* Replies. *)

NoReply == [status |-> "none", baseline |-> NoBaseline, version |-> 0, head |-> 0,
            acks |-> <<>>, canonical |-> <<>>, changes |-> {}, next |-> 0,
            hasMore |-> FALSE, reset |-> FALSE]

ErrorReply(code) == [NoReply EXCEPT !.status = code]

\* The lineage metadata every response carries.
LineageReply(d, status) ==
    [NoReply EXCEPT !.status = status, !.baseline = d.lineage.baseline,
                    !.version = d.lineage.version, !.head = d.head]

MismatchReply(d, r) ==
    [LineageReply(d, "mismatch") EXCEPT !.next = IF r.kind = "exchange" THEN r.cursor ELSE 0]

Page(d, r) == PullOperations(d, r.cursor, r.limit)

\* changes is a set: the code sorts them by cursor and identifies them by
\* cursor and key, so order and repetition carry nothing.
ExchangeReply(d, r, b) ==
    [LineageReply(d, "ok") EXCEPT
        !.acks = b.acks,
        !.changes = Page(d, r) \cup {b.forced[i] : i \in DOMAIN b.forced},
        !.next = MaxCursor(Page(d, r), r.cursor),
        !.hasMore = Cardinality(PullOperations(d, r.cursor, r.limit + 1)) > r.limit,
        !.reset = r.cursor > d.head]

DiffReply(d, b) ==
    [LineageReply(d, "ok") EXCEPT !.acks = b.acks, !.canonical = b.canonical]

\* resolveResult, with the records of the current lineage unless stale.
ResolveReply(d, stale) ==
    IF stale THEN LineageReply(d, "stale")
    ELSE [LineageReply(d, "ok") EXCEPT !.changes = Rows(d.records)]

\* validateDiffResponseSize, before the commit.
DiffResponseTooLarge(b) == Len(b.canonical) > MaxResponseChanges

\* handleSyncHTTP marshals Exchange and Resolve responses after the commit.
ResponseTooLarge(rep) == Cardinality(rep.changes) > MaxResponseChanges

-----------------------------------------------------------------------------
(* The transaction. *)

NoRequest == [kind |-> "none"]

EmptyBatch == [next |-> 1, acks |-> <<>>, canonical |-> <<>>, forced |-> <<>>,
               fresh |-> <<>>, todo |-> {}, target |-> NoBaseline]

Init ==
    /\ db = FreshOwner
    /\ work = FreshOwner
    /\ phase = "idle"
    /\ req = NoRequest
    /\ batch = EmptyBatch
    /\ reply = NoReply

InTransaction == phase \in {"mutations", "resolve", "import", "commit"}

\* fn returned an error: the deferred Rollback discards the transaction.
Fail(code) ==
    /\ work' = db
    /\ phase' = "replied"
    /\ batch' = EmptyBatch
    /\ reply' = ErrorReply(code)
    /\ UNCHANGED <<db, req>>

\* fn returned nil with rep as its result: Commit is next.
Finish(d, rep) ==
    /\ work' = d
    /\ phase' = "commit"
    /\ reply' = rep
    /\ UNCHANGED <<db, req, batch>>

\* A client can name a minted baseline only once the server has told it.
Named(r) == {r.baseline} \cup (IF r.kind = "resolve" THEN {r.expected} ELSE {})
Sendable(r) == Named(r) \cap Minted \subseteq DOMAIN db.archiveHeads

\* WithOwnerTransaction locks the owner; ensureLineage and the comparison of
\* baselines come first in all three operations.
Begin(r) ==
    /\ phase = "idle"
    /\ Sendable(r)
    /\ \E lineage \in EnsureLineage(db, r.baseline) :
        LET d == [db EXCEPT !.lineage = lineage]
        IN /\ work' = d
           /\ IF r.kind = "resolve"
              THEN phase' = "resolve" /\ reply' = NoReply
              ELSE IF lineage.baseline # r.baseline
              THEN phase' = "commit" /\ reply' = MismatchReply(d, r)
              ELSE phase' = "mutations" /\ reply' = NoReply
    /\ req' = r
    /\ batch' = EmptyBatch
    /\ UNCHANGED db

-----------------------------------------------------------------------------
(* applyMutations: one step per mutation. *)

Processing == phase = "mutations" /\ batch.next \in DOMAIN req.muts

Current == req.muts[batch.next]

RejectInvalidMutation ==
    /\ Processing
    /\ ~Current.valid
    /\ Fail("invalid_argument")

Ack(op, receipt) == [op |-> op, cursor |-> receipt.cursor,
                     conflict |-> receipt.conflict, applied |-> receipt.applied]

\* The op_id has a receipt: its outcome is repeated and nothing is written.
ReplayMutation ==
    /\ Processing
    /\ Current.valid
    /\ Current.op \in DOMAIN work.receipts
    /\ LET receipt == work.receipts[Current.op]
       IN IF receipt.cursor \notin DOMAIN work.ops
          THEN Fail("internal")
          ELSE /\ batch' = [batch EXCEPT !.next = @ + 1,
                                         !.acks = Append(@, Ack(Current.op, receipt)),
                                         !.canonical = Append(@, work.ops[receipt.cursor])]
               /\ UNCHANGED <<db, work, phase, req, reply>>

IsConflict(d, m) == m.key \in DOMAIN d.records /\ d.records[m.key].cursor > m.base

\* The record moved on since the version the mutation is based on.
ConflictMutation ==
    /\ Processing
    /\ Current.valid
    /\ Current.op \notin DOMAIN work.receipts
    /\ IsConflict(work, Current)
    /\ LET existing == work.records[Current.key]
           receipt == [cursor |-> existing.cursor, conflict |-> TRUE, applied |-> FALSE]
       IN /\ work' = InsertReceipt(work, Current.op, receipt)
          /\ batch' = [batch EXCEPT !.next = @ + 1,
                                    !.acks = Append(@, Ack(Current.op, receipt)),
                                    !.canonical = Append(@, existing),
                                    !.forced = Append(@, existing)]
    /\ UNCHANGED <<db, phase, req, reply>>

ApplyMutation ==
    /\ Processing
    /\ Current.valid
    /\ Current.op \notin DOMAIN work.receipts
    /\ ~IsConflict(work, Current)
    /\ ~OpIdTaken(work, Current.op)
    /\ LET change == MutationChange(Current, NextCursor(work))
           receipt == [cursor |-> change.cursor, conflict |-> FALSE, applied |-> TRUE]
       IN /\ work' = InsertReceipt(AppendAndUpsert(work, change), Current.op, receipt)
          /\ batch' = [batch EXCEPT !.next = @ + 1,
                                    !.acks = Append(@, Ack(Current.op, receipt)),
                                    !.canonical = Append(@, change),
                                    !.fresh = Append(@, change)]
    /\ UNCHANGED <<db, phase, req, reply>>

\* No receipt, but the op_id is in the log: the insert violates
\* uq_sync_operations_op.  The client sees the same 500 as for "internal".
RejectTakenOpId ==
    /\ Processing
    /\ Current.valid
    /\ Current.op \notin DOMAIN work.receipts
    /\ ~IsConflict(work, Current)
    /\ OpIdTaken(work, Current.op)
    /\ Fail("op_id_taken")

BatchDone == phase = "mutations" /\ batch.next \notin DOMAIN req.muts

FailFinalize ==
    /\ BatchDone
    /\ FinalizeFails(work, batch.fresh)
    /\ Fail("internal")

FinishExchange ==
    /\ BatchDone
    /\ req.kind = "exchange"
    /\ ~FinalizeFails(work, batch.fresh)
    /\ LET d == FinalizeMutationBatch(work, batch.fresh)
       IN Finish(d, ExchangeReply(d, req, batch))

FinishDiff ==
    /\ BatchDone
    /\ req.kind = "diff"
    /\ ~FinalizeFails(work, batch.fresh)
    /\ ~DiffResponseTooLarge(batch)
    /\ LET d == FinalizeMutationBatch(work, batch.fresh)
       IN Finish(d, DiffReply(d, batch))

RejectLargeDiff ==
    /\ BatchDone
    /\ req.kind = "diff"
    /\ ~FinalizeFails(work, batch.fresh)
    /\ DiffResponseTooLarge(batch)
    /\ Fail("response_too_large")

-----------------------------------------------------------------------------
(* ResolveBaseline. *)

\* newResolutionReceipt.
Resolution(d, r) ==
    [baseline |-> r.baseline, expected |-> r.expected,
     expectedVersion |-> r.expectedVersion, choice |-> r.choice,
     resultBaseline |-> d.lineage.baseline, resultVersion |-> d.lineage.version]

SameResolutionRequest(receipt, r) ==
    /\ receipt.baseline = r.baseline
    /\ receipt.expected = r.expected
    /\ receipt.expectedVersion = r.expectedVersion
    /\ receipt.choice = r.choice

InsertResolution(d, r) == [d EXCEPT !.resolutions = Put(@, r.id, Resolution(d, r))]

ReceiptIsCurrent(d, receipt) ==
    /\ d.lineage.baseline = receipt.resultBaseline
    /\ d.lineage.version = receipt.resultVersion

AlreadyResolved == phase = "resolve" /\ req.id \in DOMAIN work.resolutions

ResolveAgain ==
    /\ AlreadyResolved
    /\ LET receipt == work.resolutions[req.id]
       IN /\ SameResolutionRequest(receipt, req)
          /\ Finish(work, ResolveReply(work, ~ReceiptIsCurrent(work, receipt)))

RejectReusedRequestId ==
    /\ AlreadyResolved
    /\ ~SameResolutionRequest(work.resolutions[req.id], req)
    /\ Fail("failed_precondition")

\* The compare of the baseline compare-and-set.
ExpectationHolds(d, r) ==
    /\ d.lineage.baseline = r.expected
    /\ d.lineage.version = r.expectedVersion

ResolveStale ==
    /\ phase = "resolve" /\ ~AlreadyResolved
    /\ ~ExpectationHolds(work, req)
    /\ Finish(work, ResolveReply(work, TRUE))

Deciding(choice) ==
    /\ phase = "resolve" /\ ~AlreadyResolved
    /\ ExpectationHolds(work, req)
    /\ req.choice = choice

ResolveUseServer ==
    /\ Deciding("use_server")
    /\ LET d == InsertResolution(work, req)
       IN Finish(d, ResolveReply(d, FALSE))

\* validateLocalSnapshot: valid mutations, no entity_key twice.
ValidSnapshot(muts) ==
    /\ \A i \in DOMAIN muts : muts[i].valid
    /\ \A i, j \in DOMAIN muts : muts[i].key = muts[j].key => i = j

RejectSnapshot ==
    /\ Deciding("use_local")
    /\ ~ValidSnapshot(req.muts)
    /\ Fail("invalid_argument")

\* Mutant: the local baseline is taken as it is.
AlwaysLocalBaseline(d, local) == {local}

\* The result baseline: a local id that has an archive head already was a
\* cloud lineage, so the snapshot forks to an id randomBaselineID has not
\* returned before.
ResultBaselines(d, local) ==
    IF local \in DOMAIN d.archiveHeads
    THEN Minted \ (DOMAIN d.archiveHeads \cup {d.lineage.baseline})
    ELSE {local}

BeginImport ==
    /\ Deciding("use_local")
    /\ ValidSnapshot(req.muts)
    /\ \E target \in ResultBaselines(work, req.baseline) :
        batch' = [batch EXCEPT !.target = target,
                               !.todo = {req.muts[i] : i \in DOMAIN req.muts}]
    /\ work' = ClearCurrentBaseline(work)
    /\ phase' = "import"
    /\ UNCHANGED <<db, req, reply>>

\* The loop over the snapshot sorted by entity_key.
Smallest(muts) == {m \in muts : \A n \in muts : m.key <= n.key}

ImportMutation ==
    /\ phase = "import"
    /\ \E m \in Smallest(batch.todo) :
        LET change == MutationChange(m, NextCursor(work))
        IN /\ ~OpIdTaken(work, m.op)
           /\ work' = AppendAndUpsert(work, change)
           /\ batch' = [batch EXCEPT !.todo = @ \ {m}, !.fresh = Append(@, change)]
    /\ UNCHANGED <<db, phase, req, reply>>

\* validateLocalSnapshot lets an op_id occur twice; the second insert fails.
RejectRepeatedOpId ==
    /\ phase = "import"
    /\ \E m \in Smallest(batch.todo) : OpIdTaken(work, m.op)
    /\ Fail("op_id_taken")

ImportDone == phase = "import" /\ batch.todo = {}

\* Mutant: the progress day of the replaced lineage is kept.
ImportedKeepsDay(d, target, fresh) ==
    [baseline |-> target, version |-> IF fresh = <<>> THEN 0 ELSE 1, day |-> d.lineage.day]

\* SetLineage.
ImportedLineage(d, target, fresh) ==
    [baseline |-> target, version |-> IF fresh = <<>> THEN 0 ELSE 1,
     day |-> DeriveProgressDay(d.records)]

ImportFails(d, target, fresh) ==
    ProgressDayFails(d.records) \/ ArchiveCollides(d, target, fresh)

FailImport ==
    /\ ImportDone
    /\ ImportFails(work, batch.target, batch.fresh)
    /\ Fail("internal")

FinishImport ==
    /\ ImportDone
    /\ ~ImportFails(work, batch.target, batch.fresh)
    /\ LET set == [work EXCEPT !.lineage = ImportedLineage(work, batch.target, batch.fresh)]
           d == Publish(InsertResolution(set, req), batch.fresh)
       IN Finish(d, ResolveReply(d, FALSE))

-----------------------------------------------------------------------------
(* Outcome of the transaction. *)

\* The response sizes of Exchange and Resolve are checked when the
\* transaction has already committed.
Commit ==
    /\ phase = "commit"
    /\ db' = work
    /\ phase' = "replied"
    /\ batch' = EmptyBatch
    /\ reply' = IF req.kind # "diff" /\ ResponseTooLarge(reply)
                THEN ErrorReply("response_too_large") ELSE reply
    /\ UNCHANGED <<work, req>>

\* The commit is durable, but tx.Commit reports an error (connection lost).
CommitUnknown ==
    /\ phase = "commit"
    /\ db' = work
    /\ phase' = "replied"
    /\ batch' = EmptyBatch
    /\ reply' = ErrorReply("internal")
    /\ UNCHANGED <<work, req>>

\* A store error, a cancelled context or a crash before the commit.
Abort == InTransaction /\ Fail("internal")

\* The client takes the reply, or never sees it; either way it may send the
\* same request again.
Deliver ==
    /\ phase = "replied"
    /\ phase' = "idle"
    /\ req' = NoRequest
    /\ batch' = EmptyBatch
    /\ reply' = NoReply
    /\ UNCHANGED <<db, work>>

Next ==
    \/ \E r \in Requests : Begin(r)
    \/ RejectInvalidMutation
    \/ ReplayMutation
    \/ ConflictMutation
    \/ ApplyMutation
    \/ RejectTakenOpId
    \/ FailFinalize
    \/ FinishExchange
    \/ FinishDiff
    \/ RejectLargeDiff
    \/ ResolveAgain
    \/ RejectReusedRequestId
    \/ ResolveStale
    \/ ResolveUseServer
    \/ RejectSnapshot
    \/ BeginImport
    \/ ImportMutation
    \/ RejectRepeatedOpId
    \/ FailImport
    \/ FinishImport
    \/ Commit
    \/ CommitUnknown
    \/ Abort
    \/ Deliver

Spec == Init /\ [][Next]_vars

-----------------------------------------------------------------------------
(* Types. *)

IsTable(f, keys, rows) == DOMAIN f \subseteq keys /\ \A k \in DOMAIN f : f[k] \in rows

Cursors == Nat \ {0}
Receipt == [cursor : Nat, conflict : BOOLEAN, applied : BOOLEAN]
ResolutionReceipt ==
    [baseline : Baselines, expected : Baselines, expectedVersion : Nat,
     choice : {"use_local", "use_server"}, resultBaseline : Baselines, resultVersion : Nat]
Event == [baseline : Baselines, cursor : Nat, version : Nat]
MutationAck == [op : OpIds, cursor : Nat, conflict : BOOLEAN, applied : BOOLEAN]

LineageOK(lineage) ==
    /\ DOMAIN lineage = {"baseline", "version", "day"}
    /\ lineage.baseline \in Baselines \cup {NoBaseline}
    /\ lineage.version \in Nat

OwnerTablesOK(d) ==
    /\ DOMAIN d = {"head", "lineage", "ops", "records", "receipts", "resolutions",
                   "archive", "archiveHeads", "outbox"}
    /\ d.head \in Nat
    /\ LineageOK(d.lineage)
    /\ IsTable(d.ops, Cursors, Change)
    /\ IsTable(d.records, EntityKeys, Change)
    /\ IsTable(d.receipts, OpIds, Receipt)
    /\ IsTable(d.resolutions, RequestIds, ResolutionReceipt)
    /\ IsTable(d.archive, Baselines \X Cursors, [change : Change, version : Nat])
    /\ IsTable(d.archiveHeads, Baselines, [cursor : Nat, version : Nat])
    /\ d.outbox \in Seq(Event)

BatchOK(b) ==
    b \in [next : Cursors, acks : Seq(MutationAck), canonical : Seq(Change),
           forced : Seq(Change), fresh : Seq(Change), todo : SUBSET Mutation,
           target : Baselines \cup {NoBaseline}]

\* The committed tables, the tables of the open transaction and the locals of
\* its batch have the shapes of the schema and of mutationBatch, and the
\* phase fits the request: ensureLineage has always run before any of them.
TypeOK ==
    /\ OwnerTablesOK(db)
    /\ OwnerTablesOK(work)
    /\ phase \in {"idle", "mutations", "resolve", "import", "commit", "replied"}
    /\ phase # "idle" => req \in Requests
    /\ phase = "mutations" => req.kind \in {"exchange", "diff"}
    /\ phase \in {"resolve", "import"} => req.kind = "resolve"
    /\ InTransaction => work.lineage.baseline \in Baselines
    /\ BatchOK(batch)
    /\ phase = "import" => batch.target \in Baselines
    /\ DOMAIN reply = DOMAIN NoReply

-----------------------------------------------------------------------------
(* Safety of the owner's tables. *)

LogIsContiguous(d) ==
    /\ DOMAIN d.ops = 1..d.head
    /\ \A c \in DOMAIN d.ops : d.ops[c].cursor = c

OpIdsAreUnique(d) ==
    \A b, c \in DOMAIN d.ops : d.ops[b].op = d.ops[c].op => b = c

\* The log of a lineage has no gap up to its head, each operation carries its
\* own cursor, and no op_id is in it twice.  Clients advance their cursor
\* only over consecutive Changes, so a gap would stop every device.
LogContiguous ==
    \A d \in {db, work} : LogIsContiguous(d) /\ OpIdsAreUnique(d)

RecordsAreTheLatest(d) ==
    /\ DOMAIN d.records = {d.ops[c].key : c \in DOMAIN d.ops}
    /\ \A k \in DOMAIN d.records :
        /\ d.records[k].key = k
        /\ d.records[k].cursor \in DOMAIN d.ops
        /\ d.records[k] = d.ops[d.records[k].cursor]
        /\ \A c \in DOMAIN d.ops : d.ops[c].key = k => c <= d.records[k].cursor

\* sync_records is the fold of sync_operations: for every key in the log the
\* last operation on it, and nothing else, across applied mutations, imported
\* snapshots and the deletion of a lineage.  A resolve reply (records) and the
\* feed (operations) therefore describe the same state.
RecordsAreLatest == \A d \in {db, work} : RecordsAreTheLatest(d)

ReceiptsPoint(d) ==
    \A op \in DOMAIN d.receipts :
        LET receipt == d.receipts[op]
        IN /\ receipt.cursor \in DOMAIN d.ops
           /\ receipt.applied => d.ops[receipt.cursor].op = op
           /\ receipt.conflict <=> ~receipt.applied

\* Every receipt points at an operation of the current log, its own when it
\* was applied: a replayed op_id always finds its canonical Change, also after
\* a lineage was replaced.  (A lost one may point at its own operation too:
\* an op_id a snapshot imported has no receipt and can lose to itself.)
ReceiptsPointAtLog == \A d \in {db, work} : ReceiptsPoint(d)

\* Inside an archived lineage versions never decrease along the cursors, the
\* last change carries the version of the head, and versions start at 1:
\* (baseline, version), which ResolveBaseline compares, identifies a prefix.
ArchiveVersionsAscend ==
    /\ \A x, y \in DOMAIN db.archive :
        x[1] = y[1] /\ x[2] < y[2] => db.archive[x].version <= db.archive[y].version
    /\ \A b \in DOMAIN db.archiveHeads :
        LET head == db.archiveHeads[b]
        IN /\ head.version <= head.cursor
           /\ head.version = 0 <=> head.cursor = 0
           /\ head.cursor > 0 => db.archive[<<b, head.cursor>>].version = head.version

\* sync_heads.progress_day is always derivable from, and equal to what is
\* derived from, the committed records: a record that cannot be derived, or a
\* latest date that does not fit, would make every later batch of the owner fail.
ProgressDayFresh ==
    /\ ~ProgressDayFails(db.records)
    /\ db.lineage.day = DeriveProgressDay(db.records)

\* Every commit that moved the log left a hint: the last outbox event is the
\* current head and version of the current lineage, and the events of one
\* baseline ascend, so a subscriber that wakes on any later event sees no
\* older state announced.
LastHintIsCurrent ==
    /\ db.lineage.baseline \in DOMAIN db.archiveHeads =>
        /\ db.outbox # <<>>
        /\ db.outbox[Len(db.outbox)] = [baseline |-> db.lineage.baseline, cursor |-> db.head,
                                        version |-> db.lineage.version]
    /\ \A i, j \in DOMAIN db.outbox :
        i < j /\ db.outbox[i].baseline = db.outbox[j].baseline =>
            /\ db.outbox[i].cursor < db.outbox[j].cursor
            /\ db.outbox[i].version < db.outbox[j].version

\* A stored resolution belongs to the current lineage and to a version it has
\* reached, so a retried resolution is answered with the lineage it produced.
ResolutionsBelongToLineage ==
    \A d \in {db, work} : \A id \in DOMAIN d.resolutions :
        phase # "import" =>
            /\ d.resolutions[id].resultBaseline = d.lineage.baseline
            /\ d.resolutions[id].resultVersion <= d.lineage.version

\* The archive insert never meets its primary key: the fork to a fresh
\* baseline in ResolveBaseline is exactly what the archive needs.
ArchiveNeverCollides ==
    /\ BatchDone => ~ArchiveCollides(work, work.lineage.baseline, batch.fresh)
    /\ ImportDone => ~ArchiveCollides(work, batch.target, batch.fresh)

-----------------------------------------------------------------------------
(* What a step may never do. *)

\* sync_archive_changes is immutable: a committed row stays as it is.
ArchiveImmutable ==
    [][\A x \in DOMAIN db.archive :
        x \in DOMAIN db'.archive /\ db'.archive[x] = db.archive[x]]_db

-----------------------------------------------------------------------------
(* Refinement. *)

\* The committed tables implement ChangeLog: sync_operations is its log, the
\* archive what it has published.
ChangeLogOfOwner ==
    INSTANCE ChangeLog WITH
        Lineages <- Baselines,
        NoLineageId <- NoBaseline,
        lineage <- db.lineage.baseline,
        log <- db.ops,
        published <- [x \in DOMAIN db.archive |-> db.archive[x].change]

\* Every commit of an owner transaction is a step of ChangeLog or changes
\* nothing a device can see through its baseline and cursor.
ImplementsChangeLog == ChangeLogOfOwner!Spec

\* The committed tables implement FeedLog, whose bounds are taken from the
\* number of op_ids and of baselines: a lineage has no more operations than
\* there are op_ids.
FeedLogOfOwner ==
    INSTANCE FeedLog WITH
        Lineages <- Baselines,
        NoLineage <- NoBaseline,
        MaxBatch <- Cardinality(OpIds),
        MaxHead <- Cardinality(OpIds),
        MaxRows <- Cardinality(OpIds) * Cardinality(Baselines) + Cardinality(Baselines),
        lineage <- db.lineage.baseline,
        tip <- [b \in Baselines |->
                    IF b \in DOMAIN db.archiveHeads THEN db.archiveHeads[b].cursor ELSE 0],
        archived <- DOMAIN db.archiveHeads,
        rows <- Len(db.outbox)

\* Every commit of an owner transaction is a step of FeedLog: the head moves,
\* or the lineage is replaced by one without an archive head, exactly when a
\* row is left in the outbox.
ImplementsFeedLog == FeedLogOfOwner!FeedSpec

-----------------------------------------------------------------------------
(* Replies. *)

Answered(kind) == phase = "replied" /\ req.kind = kind /\ reply.status = "ok"

\* README, sync API: every ack of a Diff has its canonical Change, whose
\* cursor is the ack's; an applied ack's Change is the operation itself, and
\* Change and receipt are both committed.
DiffAcksCanonical ==
    Answered("diff") =>
        /\ Len(reply.acks) = Len(req.muts)
        /\ Len(reply.canonical) = Len(req.muts)
        /\ \A i \in DOMAIN req.muts :
            LET ack == reply.acks[i]
                canonical == reply.canonical[i]
            IN /\ ack.op = req.muts[i].op
               /\ ack.op \in DOMAIN db.receipts
               /\ canonical.cursor = ack.cursor
               /\ ack.cursor \in DOMAIN db.ops
               /\ db.ops[ack.cursor] = canonical
               /\ ack.applied => canonical.op = ack.op
               /\ ack.conflict <=> ~ack.applied

\* An Exchange page has every operation between the client's cursor and the
\* next one, hasMore says exactly whether operations are left, and what is
\* beyond the page is a Change some ack of the same response points at.
ExchangePageComplete ==
    Answered("exchange") =>
        /\ \A c \in DOMAIN db.ops : req.cursor < c /\ c <= reply.next => db.ops[c] \in reply.changes
        /\ ~reply.reset => (reply.hasMore <=> reply.next < db.head)
        /\ reply.reset <=> req.cursor > db.head
        /\ reply.hasMore => reply.next > req.cursor
        /\ \A change \in reply.changes :
            \/ change.cursor \in (req.cursor + 1)..reply.next
            \/ \E i \in DOMAIN reply.acks :
                reply.acks[i].conflict /\ reply.acks[i].cursor = change.cursor

\* README, sync API: a replayed op_id returns its authoritative Change.  An
\* op_id that the current log holds is never refused for being there.
KnownOpIdIsReplayed ==
    phase = "replied" /\ req.kind = "diff" => reply.status # "op_id_taken"
=============================================================================
