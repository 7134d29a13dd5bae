----------------------------- MODULE SyncStore -----------------------------
(***************************************************************************)
(* The tables of one owner and the statements a transaction runs on them:  *)
(* internal/store/mysql/store.go, with the pure parts of                   *)
(* internal/sync/service.go and internal/sync/progress.go that compute the *)
(* rows.  A table is a function on the keys of its rows; the timestamps,   *)
(* device ids and value bytes of the rows decide nothing and are left out. *)
(***************************************************************************)
EXTENDS Integers, Sequences, FiniteSets

CONSTANTS
    Devices,       \* baseline ids minted by devices (baseline_ + 16 bytes)
    Minted,        \* baseline ids randomBaselineID may return
    NoBaseline,    \* sync_heads.baseline_id IS NULL
    OpIds,         \* op_id values
    EntityKeys,    \* entity_key values, in the order of ORDER BY entity_key
    CampaignStart, \* campaignStart, as a day number
    LongDays       \* dates longer than progress_day

Baselines == Devices \cup Minted

ASSUME BaselinesAssumption == /\ Devices \cap Minted = {}
                              /\ NoBaseline \notin Baselines
ASSUME EntityKeysAssumption == EntityKeys \subseteq Nat
ASSUME CampaignStartAssumption == CampaignStart \in Nat \ LongDays

\* What a record contributes to the progress day: nothing, a date, or the
\* error of a key that PathUnescape rejects.
NoDay == 0
Underivable == -1
Days == {NoDay, Underivable} \cup (Nat \ {0})

Mutation == [op : OpIds, key : EntityKeys, base : Nat, day : Days, valid : BOOLEAN]
Change == [cursor : Nat \ {0}, op : OpIds, key : EntityKeys, day : Days]

-----------------------------------------------------------------------------
Put(table, key, row) ==
    [k \in DOMAIN table \cup {key} |-> IF k = key THEN row ELSE table[k]]

Empty == [x \in {} |-> x]

NoLineage == [baseline |-> NoBaseline, version |-> 0, day |-> CampaignStart]

FreshOwner ==
    [head |-> 0, lineage |-> NoLineage, ops |-> Empty, records |-> Empty,
     receipts |-> Empty, resolutions |-> Empty, archive |-> Empty,
     archiveHeads |-> Empty, outbox |-> <<>>]

\* Mutant: the cursor is read before the update.
NextCursorReadFirst(d) == d.head

\* NextCursor: the head moves by one and is read back.
NextCursor(d) == d.head + 1

MutationChange(m, c) == [cursor |-> c, op |-> m.op, key |-> m.key, day |-> m.day]

\* uq_sync_operations_op (owner_key, op_id) rejects a second row.
OpIdTaken(d, op) == \E c \in DOMAIN d.ops : d.ops[c].op = op

\* NextCursor, AppendOperation and UpsertRecord of one mutation.
AppendAndUpsert(d, change) ==
    [d EXCEPT !.head = change.cursor,
              !.ops = Put(@, change.cursor, change),
              !.records = Put(@, change.key, change)]

\* Mutant: no receipt is kept.
InsertNoReceipt(d, op, receipt) == d

InsertReceipt(d, op, receipt) == [d EXCEPT !.receipts = Put(@, op, receipt)]

\* Mutants: one table, or the head, survives the deletion of the lineage, and
\* the archive does not.
ClearButHead(d) ==
    [d EXCEPT !.ops = Empty, !.records = Empty, !.receipts = Empty, !.resolutions = Empty]
ClearButRecords(d) ==
    [d EXCEPT !.head = 0, !.ops = Empty, !.receipts = Empty, !.resolutions = Empty]
ClearButReceipts(d) ==
    [d EXCEPT !.head = 0, !.ops = Empty, !.records = Empty, !.resolutions = Empty]
ClearButResolutions(d) ==
    [d EXCEPT !.head = 0, !.ops = Empty, !.records = Empty, !.receipts = Empty]
ClearWithArchive(d) ==
    [d EXCEPT !.head = 0, !.ops = Empty, !.records = Empty, !.receipts = Empty,
              !.resolutions = Empty, !.archive = Empty]

\* The archive outlives the lineage; so do the outbox and, until SetLineage,
\* the lineage columns of sync_heads.
ClearCurrentBaseline(d) ==
    [d EXCEPT !.head = 0, !.ops = Empty, !.records = Empty,
              !.receipts = Empty, !.resolutions = Empty]

Rows(table) == {table[k] : k \in DOMAIN table}

DayOf(records) == {r.day : r \in Rows(records)} \ {NoDay}

\* deriveProgressDay: the latest date any live record mentions.
DeriveProgressDay(records) ==
    IF DayOf(records) = {} THEN CampaignStart
    ELSE CHOOSE d \in DayOf(records) : \A e \in DayOf(records) : e <= d

\* One key that cannot be decoded fails the derivation, but only the latest date
\* has to fit the column it is written to.
ProgressDayFails(records) ==
    Underivable \in DayOf(records) \/ DeriveProgressDay(records) \in LongDays

\* Mutant: LIMIT is one row too generous.
PullOneMore(d, cursor, n) ==
    {d.ops[c] : c \in {x \in DOMAIN d.ops :
        /\ x > cursor
        /\ Cardinality({y \in DOMAIN d.ops : cursor < y /\ y < x}) <= n}}

\* PullOperations: the first n operations after cursor.
PullOperations(d, cursor, n) ==
    {d.ops[c] : c \in {x \in DOMAIN d.ops :
        /\ x > cursor
        /\ Cardinality({y \in DOMAIN d.ops : cursor < y /\ y < x}) < n}}

MaxCursor(changes, default) ==
    IF changes = {} THEN default
    ELSE CHOOSE c \in {x.cursor : x \in changes} : \A x \in changes : x.cursor <= c

\* Mutant: the progress day keeps its old value.
IncrementVersionOnly(d) == [d.lineage EXCEPT !.version = @ + 1]

IncrementLineage(d) ==
    [d.lineage EXCEPT !.version = @ + 1, !.day = DeriveProgressDay(d.records)]

\* ArchiveChange for every change of a batch, all under one server version.
ArchiveChanges(d, fresh) ==
    [x \in DOMAIN d.archive \cup {<<d.lineage.baseline, fresh[i].cursor>> : i \in DOMAIN fresh} |->
        IF x \in DOMAIN d.archive THEN d.archive[x]
        ELSE [change |-> fresh[CHOOSE i \in DOMAIN fresh : fresh[i].cursor = x[2]],
              version |-> d.lineage.version]]

\* The primary key of sync_archive_changes rejects a second row.
ArchiveCollides(d, baseline, fresh) ==
    \E i \in DOMAIN fresh : <<baseline, fresh[i].cursor>> \in DOMAIN d.archive

UpsertArchiveHead(d) ==
    Put(d.archiveHeads, d.lineage.baseline, [cursor |-> d.head, version |-> d.lineage.version])

\* Mutant: no event for a batch that wrote no operation.
PublishOnlyChanges(d, fresh) ==
    [d EXCEPT !.archive = ArchiveChanges(d, fresh),
              !.archiveHeads = UpsertArchiveHead(d),
              !.outbox = IF fresh = <<>> THEN @
                         ELSE Append(@, [baseline |-> d.lineage.baseline, cursor |-> d.head,
                                         version |-> d.lineage.version])]

\* ArchiveChange*, UpsertArchiveHead and InsertRealtimeEvent, in this order at
\* the end of every batch that changed the log.
Publish(d, fresh) ==
    [d EXCEPT !.archive = ArchiveChanges(d, fresh),
              !.archiveHeads = UpsertArchiveHead(d),
              !.outbox = Append(@, [baseline |-> d.lineage.baseline, cursor |-> d.head,
                                    version |-> d.lineage.version])]

\* Mutant: the archive is written before the version is incremented.
ArchiveThenIncrement(d, fresh) ==
    IF fresh = <<>> THEN d
    ELSE LET e == Publish(d, fresh) IN [e EXCEPT !.lineage = IncrementLineage(e)]

\* finalizeMutationBatch.
FinalizeMutationBatch(d, fresh) ==
    IF fresh = <<>> THEN d
    ELSE Publish([d EXCEPT !.lineage = IncrementLineage(d)], fresh)

FinalizeFails(d, fresh) ==
    /\ fresh # <<>>
    /\ ProgressDayFails(d.records) \/ ArchiveCollides(d, d.lineage.baseline, fresh)

\* ensureLineage: the stored lineage, or the one the first request creates.
EnsureLineage(d, requested) ==
    IF d.lineage.baseline # NoBaseline THEN {d.lineage}
    ELSE IF d.head = 0
         THEN {[baseline |-> requested, version |-> 0, day |-> CampaignStart]}
         ELSE {[baseline |-> b, version |-> 0, day |-> DeriveProgressDay(d.records)] : b \in Minted}
=============================================================================
