------------------------- MODULE SyncServiceProofs -------------------------
(***************************************************************************)
(* Theorems about the owner transaction, for every set of baselines,       *)
(* op_ids, keys and requests.  First what the statements of SyncStore      *)
(* leave of the tables: their shapes, and the agreement of log, records    *)
(* and receipts.  Then the transaction, one step per action of Next.       *)
(***************************************************************************)
EXTENDS SyncService, TLAPS

\* A new owner has well-formed, empty tables.
LEMMA FreshOwnerShape == OwnerTablesOK(FreshOwner)
BY CampaignStartAssumption
   DEF OwnerTablesOK, FreshOwner, LineageOK, NoLineage, IsTable, Empty

\* A table stays a table when a row is written.
LEMMA PutShape ==
    ASSUME NEW keys, NEW rows, NEW f, IsTable(f, keys, rows), NEW k \in keys, NEW r \in rows
    PROVE  IsTable(Put(f, k, r), keys, rows)
BY DEF IsTable, Put

\* mutationChange builds a Change under the given cursor.
LEMMA MutationChangeShape ==
    ASSUME NEW m \in Mutation, NEW c \in Cursors
    PROVE  /\ MutationChange(m, c) \in Change
           /\ MutationChange(m, c).cursor = c
           /\ MutationChange(m, c).op = m.op
           /\ MutationChange(m, c).key = m.key
BY DEF Mutation, MutationChange, Change, Cursors

\* Appending an operation and upserting its record keep the tables well formed.
LEMMA AppendAndUpsertShape ==
    ASSUME NEW d, OwnerTablesOK(d), NEW change \in Change
    PROVE  /\ OwnerTablesOK(AppendAndUpsert(d, change))
           /\ AppendAndUpsert(d, change).lineage = d.lineage
<1>1. change.cursor \in Cursors /\ change.cursor \in Nat /\ change.key \in EntityKeys
  BY DEF Change, Cursors
<1>2. IsTable(Put(d.ops, change.cursor, change), Cursors, Change)
  BY <1>1, PutShape DEF OwnerTablesOK
<1>3. IsTable(Put(d.records, change.key, change), EntityKeys, Change)
  BY <1>1, PutShape DEF OwnerTablesOK
<1> QED
  BY <1>1, <1>2, <1>3 DEF OwnerTablesOK, AppendAndUpsert

\* So does a receipt.
LEMMA InsertReceiptShape ==
    ASSUME NEW d, OwnerTablesOK(d), NEW op \in OpIds, NEW receipt \in Receipt
    PROVE  /\ OwnerTablesOK(InsertReceipt(d, op, receipt))
           /\ InsertReceipt(d, op, receipt).lineage = d.lineage
<1>1. IsTable(Put(d.receipts, op, receipt), OpIds, Receipt)
  BY PutShape DEF OwnerTablesOK
<1> QED
  BY <1>1 DEF OwnerTablesOK, InsertReceipt

\* So does the deletion of the lineage.
LEMMA ClearShape ==
    ASSUME NEW d, OwnerTablesOK(d)
    PROVE  /\ OwnerTablesOK(ClearCurrentBaseline(d))
           /\ ClearCurrentBaseline(d).lineage = d.lineage
BY DEF OwnerTablesOK, ClearCurrentBaseline, IsTable, Empty

\* So do archive, archive head and event.
LEMMA PublishShape ==
    ASSUME NEW d, OwnerTablesOK(d), d.lineage.baseline \in Baselines,
           NEW fresh \in Seq(Change)
    PROVE  /\ OwnerTablesOK(Publish(d, fresh))
           /\ Publish(d, fresh).lineage = d.lineage
<1> DEFINE A == ArchiveChanges(d, fresh)
<1>1. \A i \in DOMAIN fresh : fresh[i] \in Change /\ fresh[i].cursor \in Cursors
  <2>1. ASSUME NEW i \in DOMAIN fresh PROVE fresh[i] \in Change
    OBVIOUS
  <2>2. \A c \in Change : c.cursor \in Cursors
    BY DEF Change, Cursors
  <2> QED
    BY <2>1, <2>2
<1>2. DOMAIN A \subseteq Baselines \X Cursors
  BY <1>1 DEF ArchiveChanges, OwnerTablesOK, IsTable
<1>3. ASSUME NEW x \in DOMAIN A
      PROVE  A[x] \in [change : Change, version : Nat]
  <2>1. CASE x \in DOMAIN d.archive
    BY <2>1 DEF ArchiveChanges, OwnerTablesOK, IsTable
  <2>2. CASE x \notin DOMAIN d.archive
    <3>1. PICK j \in DOMAIN fresh : x = <<d.lineage.baseline, fresh[j].cursor>>
      BY <2>2 DEF ArchiveChanges
    <3>2. x[2] = fresh[j].cursor
      BY <3>1
    <3> DEFINE i == CHOOSE i \in DOMAIN fresh : fresh[i].cursor = x[2]
    <3>3. i \in DOMAIN fresh
      BY <3>2
    <3>4. A[x] = [change |-> fresh[i], version |-> d.lineage.version]
      BY <2>2 DEF ArchiveChanges
    <3> HIDE DEF i
    <3> QED
      BY <3>3, <3>4, <1>1 DEF OwnerTablesOK, LineageOK
  <2> QED
    BY <2>1, <2>2
<1>4. IsTable(UpsertArchiveHead(d), Baselines, [cursor : Nat, version : Nat])
  BY PutShape DEF UpsertArchiveHead, OwnerTablesOK, LineageOK
<1>5. [baseline |-> d.lineage.baseline, cursor |-> d.head, version |-> d.lineage.version] \in Event
  BY DEF Event, OwnerTablesOK, LineageOK
<1> QED
  BY <1>2, <1>3, <1>4, <1>5 DEF Publish, OwnerTablesOK, IsTable

\* So does a new lineage row.
LEMMA LineageShape ==
    ASSUME NEW d, OwnerTablesOK(d), NEW lineage, LineageOK(lineage)
    PROVE  OwnerTablesOK([d EXCEPT !.lineage = lineage])
BY DEF OwnerTablesOK

\* So does the end of a batch, which keeps the baseline.
LEMMA FinalizeShape ==
    ASSUME NEW d, OwnerTablesOK(d), d.lineage.baseline \in Baselines,
           NEW fresh \in Seq(Change)
    PROVE  /\ OwnerTablesOK(FinalizeMutationBatch(d, fresh))
           /\ FinalizeMutationBatch(d, fresh).lineage.baseline = d.lineage.baseline
<1>1. CASE fresh = <<>>
  BY <1>1 DEF FinalizeMutationBatch
<1>2. CASE fresh # <<>>
  <2> DEFINE e == [d EXCEPT !.lineage = IncrementLineage(d)]
  <2>1. LineageOK(IncrementLineage(d)) /\ IncrementLineage(d).baseline = d.lineage.baseline
    BY DEF OwnerTablesOK, LineageOK, IncrementLineage
  <2>2. OwnerTablesOK(e) /\ e.lineage.baseline = d.lineage.baseline
    BY <2>1, LineageShape DEF OwnerTablesOK
  <2> QED
    BY <1>2, <2>2, PublishShape DEF FinalizeMutationBatch
<1> QED
  BY <1>1, <1>2
-----------------------------------------------------------------------------
(* Agreement of log, records and receipts. *)

LogAgrees(d) ==
    /\ LogIsContiguous(d)
    /\ OpIdsAreUnique(d)
    /\ RecordsAreTheLatest(d)
    /\ ReceiptsPoint(d)

\* Log, records and receipts agree when all are empty.
LEMMA EmptyLogAgrees ==
    ASSUME NEW d, d.head = 0, d.ops = Empty, d.records = Empty, d.receipts = Empty
    PROVE  LogAgrees(d)
<1>1. DOMAIN Empty = {} /\ 1..0 = {}
  BY DEF Empty
<1> QED
  BY <1>1 DEF LogAgrees, LogIsContiguous, OpIdsAreUnique, RecordsAreTheLatest, ReceiptsPoint

\* The agreement depends on head, log, records and receipts only.
LEMMA SameLogAgrees ==
    ASSUME NEW d, d.head \in Nat, LogAgrees(d), NEW e, e.head = d.head, e.ops = d.ops,
           e.records = d.records, e.receipts = d.receipts
    PROVE  LogAgrees(e)
BY DEF LogAgrees, LogIsContiguous, OpIdsAreUnique, RecordsAreTheLatest, ReceiptsPoint

\* The append of a change with the next cursor and an unused op_id.
LEMMA AppendAgrees ==
    ASSUME NEW d, OwnerTablesOK(d), LogAgrees(d), NEW m \in Mutation, ~OpIdTaken(d, m.op)
    PROVE  LET change == MutationChange(m, NextCursor(d))
           IN /\ change \in Change
              /\ change.cursor = d.head + 1
              /\ AppendAndUpsert(d, change).ops = Put(d.ops, d.head + 1, change)
              /\ LogAgrees(AppendAndUpsert(d, change))
<1> DEFINE change == MutationChange(m, NextCursor(d))
           e == AppendAndUpsert(d, change)
<1>1. d.head \in Nat /\ NextCursor(d) \in Cursors /\ NextCursor(d) = d.head + 1
  BY DEF OwnerTablesOK, NextCursor, Cursors
<1>2. /\ change \in Change
      /\ change.cursor = d.head + 1
      /\ change.op = m.op
      /\ change.key = m.key
  BY <1>1, MutationChangeShape
<1> HIDE DEF change
<1>3. /\ e.head = d.head + 1
      /\ e.ops = Put(d.ops, d.head + 1, change)
      /\ e.records = Put(d.records, m.key, change)
      /\ e.receipts = d.receipts
  BY <1>2 DEF AppendAndUpsert, OwnerTablesOK
<1> HIDE DEF e
<1>4. /\ DOMAIN d.ops = 1..d.head
      /\ \A c \in DOMAIN d.ops : d.ops[c].cursor = c /\ d.ops[c].op # m.op
  BY DEF LogAgrees, LogIsContiguous, OpIdTaken
<1>5. /\ DOMAIN e.ops = DOMAIN d.ops \cup {d.head + 1}
      /\ e.ops[d.head + 1] = change
      /\ \A c \in DOMAIN d.ops : e.ops[c] = d.ops[c] /\ c # d.head + 1
  <2>1. \A c \in DOMAIN d.ops : c # d.head + 1
    BY <1>1, <1>4
  <2> QED
    BY <2>1, <1>3 DEF Put
<1>6. /\ DOMAIN e.records = DOMAIN d.records \cup {m.key}
      /\ e.records[m.key] = change
      /\ \A k \in DOMAIN d.records : k # m.key => e.records[k] = d.records[k]
  BY <1>3 DEF Put
<1>7. LogIsContiguous(e)
  <2>1. (1..d.head) \cup {d.head + 1} = 1..(d.head + 1)
    BY <1>1
  <2>2. DOMAIN e.ops = 1..e.head
    BY <2>1, <1>3, <1>4, <1>5
  <2> QED
    BY <2>2, <1>2, <1>4, <1>5 DEF LogIsContiguous
<1>8. OpIdsAreUnique(e)
  BY <1>2, <1>4, <1>5 DEF OpIdsAreUnique, LogAgrees
<1>9. RecordsAreTheLatest(e)
  <2>1. DOMAIN e.records = {e.ops[c].key : c \in DOMAIN e.ops}
    <3>1. DOMAIN d.records = {d.ops[c].key : c \in DOMAIN d.ops}
      BY DEF LogAgrees, RecordsAreTheLatest
    <3> QED
      BY <3>1, <1>2, <1>5, <1>6
  <2>2. ASSUME NEW k \in DOMAIN e.records
        PROVE  /\ e.records[k].key = k
               /\ e.records[k].cursor \in DOMAIN e.ops
               /\ e.records[k] = e.ops[e.records[k].cursor]
               /\ \A c \in DOMAIN e.ops : e.ops[c].key = k => c <= e.records[k].cursor
    <3>1. CASE k = m.key
      <4>1. \A c \in DOMAIN e.ops : c <= d.head + 1
        BY <1>1, <1>4, <1>5
      <4> QED
        BY <3>1, <4>1, <1>2, <1>5, <1>6
    <3>2. CASE k # m.key
      <4>1. k \in DOMAIN d.records /\ e.records[k] = d.records[k]
        BY <3>2, <1>6
      <4>2. /\ d.records[k].key = k
            /\ d.records[k].cursor \in DOMAIN d.ops
            /\ d.records[k] = d.ops[d.records[k].cursor]
            /\ \A c \in DOMAIN d.ops : d.ops[c].key = k => c <= d.records[k].cursor
        BY <4>1 DEF LogAgrees, RecordsAreTheLatest
      <4> QED
        BY <3>2, <4>1, <4>2, <1>2, <1>5
    <3> QED
      BY <3>1, <3>2
  <2> QED
    BY <2>1, <2>2 DEF RecordsAreTheLatest
<1>10. ReceiptsPoint(e)
  BY <1>3, <1>5 DEF ReceiptsPoint, LogAgrees
<1> QED
  BY <1>2, <1>3, <1>7, <1>8, <1>9, <1>10 DEF LogAgrees, e, change

\* The insert of a receipt that points into the log.
LEMMA ReceiptAgrees ==
    ASSUME NEW d, OwnerTablesOK(d), LogAgrees(d), NEW op, NEW receipt,
           receipt.cursor \in DOMAIN d.ops,
           receipt.applied => d.ops[receipt.cursor].op = op,
           receipt.conflict <=> ~receipt.applied
    PROVE  LogAgrees(InsertReceipt(d, op, receipt))
<1> DEFINE e == InsertReceipt(d, op, receipt)
<1>1. /\ e.head = d.head
      /\ e.ops = d.ops
      /\ e.records = d.records
      /\ e.receipts = Put(d.receipts, op, receipt)
  BY DEF InsertReceipt, OwnerTablesOK
<1> HIDE DEF e
<1>2. ReceiptsPoint(e)
  <2> SUFFICES ASSUME NEW p \in DOMAIN e.receipts
               PROVE  /\ e.receipts[p].cursor \in DOMAIN e.ops
                      /\ e.receipts[p].applied => e.ops[e.receipts[p].cursor].op = p
                      /\ e.receipts[p].conflict <=> ~e.receipts[p].applied
    BY DEF ReceiptsPoint
  <2>1. CASE p = op
    BY <2>1, <1>1 DEF Put
  <2>2. CASE p # op
    <3>1. p \in DOMAIN d.receipts /\ e.receipts[p] = d.receipts[p]
      BY <2>2, <1>1 DEF Put
    <3> QED
      BY <3>1, <1>1 DEF LogAgrees, ReceiptsPoint
  <2> QED
    BY <2>1, <2>2
<1>3. LogIsContiguous(e) /\ OpIdsAreUnique(e) /\ RecordsAreTheLatest(e)
  <2>1. d.head \in Nat
    BY DEF OwnerTablesOK
  <2> QED
    BY <2>1, <1>1 DEF LogAgrees, LogIsContiguous, OpIdsAreUnique, RecordsAreTheLatest
<1> QED
  BY <1>2, <1>3 DEF LogAgrees, e

-----------------------------------------------------------------------------
(* The transaction. *)

\* The requests of the instance have the fields their kind is served by.
LEMMA RequestShape ==
    ASSUME NEW r \in Requests
    PROVE  /\ r.baseline \in Baselines
           /\ r.muts \in Seq(Mutation)
           /\ r.kind \in {"exchange", "diff", "resolve"}
           /\ r.kind = "resolve" =>
                /\ r.id \in RequestIds
                /\ r.expected \in Baselines
                /\ r.expectedVersion \in Nat
                /\ r.choice \in {"use_local", "use_server"}
BY RequestsAssumption DEF ExchangeRequest, DiffRequest, ResolveRequest

\* The batch a transaction starts with is well formed.
LEMMA EmptyBatchShape == BatchOK(EmptyBatch)
BY DEF BatchOK, EmptyBatch, Cursors

\* ensureLineage returns a lineage of the schema, with a baseline id.
LEMMA EnsureLineageShape ==
    ASSUME NEW d, OwnerTablesOK(d), NEW b \in Baselines, NEW lineage \in EnsureLineage(d, b)
    PROVE  LineageOK(lineage) /\ lineage.baseline \in Baselines
<1>1. CASE d.lineage.baseline # NoBaseline
  BY <1>1 DEF EnsureLineage, LineageOK, OwnerTablesOK
<1>2. CASE d.lineage.baseline = NoBaseline
  <2>1. PICK id \in Baselines :
            \E day : lineage = [baseline |-> id, version |-> 0, day |-> day]
    BY <1>2 DEF EnsureLineage, Baselines
  <2> QED
    BY <2>1 DEF LineageOK
<1> QED
  BY <1>1, <1>2

\* Every reply has the same fields.
LEMMA ReplyShape ==
    /\ DOMAIN NoReply = DOMAIN NoReply
    /\ \A code : DOMAIN ErrorReply(code) = DOMAIN NoReply
    /\ \A d, r : DOMAIN MismatchReply(d, r) = DOMAIN NoReply
    /\ \A d, r, b : DOMAIN ExchangeReply(d, r, b) = DOMAIN NoReply
    /\ \A d, b : DOMAIN DiffReply(d, b) = DOMAIN NoReply
    /\ \A d, s : DOMAIN ResolveReply(d, s) = DOMAIN NoReply
BY DEF NoReply, ErrorReply, MismatchReply, ExchangeReply, DiffReply, ResolveReply, LineageReply

\* A rollback keeps the types.
LEMMA FailType ==
    ASSUME TypeOK, InTransaction, NEW code, Fail(code)
    PROVE  TypeOK'
BY EmptyBatchShape, ReplyShape DEF TypeOK, Fail, InTransaction

\* So does the hand-over of well-formed tables and a reply to the commit.
LEMMA FinishType ==
    ASSUME TypeOK, InTransaction, NEW d, OwnerTablesOK(d), d.lineage.baseline \in Baselines,
           NEW rep, DOMAIN rep = DOMAIN NoReply, Finish(d, rep)
    PROVE  TypeOK'
BY DEF TypeOK, Finish, InTransaction

\* The mutation in hand is a mutation of the schema.
LEMMA CurrentShape ==
    ASSUME TypeOK, Processing
    PROVE  /\ Current \in Mutation
           /\ Current.op \in OpIds
           /\ Current.key \in EntityKeys
<1>1. req.muts \in Seq(Mutation)
  BY RequestShape DEF TypeOK, Processing
<1>2. Current \in Mutation
  BY <1>1 DEF Processing, Current
<1> QED
  BY <1>2 DEF Mutation

\* Receipts and acks of an outcome are well formed.
LEMMA ReceiptShape ==
    ASSUME NEW op \in OpIds, NEW c \in Nat, NEW conflict \in BOOLEAN, NEW applied \in BOOLEAN
    PROVE  LET receipt == [cursor |-> c, conflict |-> conflict, applied |-> applied]
           IN receipt \in Receipt /\ Ack(op, receipt) \in MutationAck
BY DEF Receipt, Ack, MutationAck

\* One more mutation is answered.
LEMMA BatchStepShape ==
    ASSUME NEW b, BatchOK(b), NEW ack \in MutationAck, NEW change \in Change
    PROVE  /\ BatchOK([b EXCEPT !.next = @ + 1, !.acks = Append(@, ack),
                                !.canonical = Append(@, change)])
           /\ BatchOK([b EXCEPT !.next = @ + 1, !.acks = Append(@, ack),
                                !.canonical = Append(@, change), !.forced = Append(@, change)])
           /\ BatchOK([b EXCEPT !.next = @ + 1, !.acks = Append(@, ack),
                                !.canonical = Append(@, change), !.fresh = Append(@, change)])
<1>1. b.next \in Cursors => b.next + 1 \in Cursors
  BY DEF Cursors
<1>2. /\ b.acks \in Seq(MutationAck) => Append(b.acks, ack) \in Seq(MutationAck)
      /\ \A s \in Seq(Change) : Append(s, change) \in Seq(Change)
  OBVIOUS
<1> QED
  BY <1>1, <1>2 DEF BatchOK

\* Begin opens a well-formed transaction.
LEMMA BeginType ==
    ASSUME TypeOK, NEW r \in Requests, Begin(r)
    PROVE  TypeOK'
<1>1. PICK lineage \in EnsureLineage(db, r.baseline) :
        /\ work' = [db EXCEPT !.lineage = lineage]
        /\ phase' \in {"resolve", "commit", "mutations"}
        /\ phase' = "resolve" <=> r.kind = "resolve"
        /\ reply' = NoReply \/ reply' = MismatchReply([db EXCEPT !.lineage = lineage], r)
  BY DEF Begin
<1>2. LineageOK(lineage) /\ lineage.baseline \in Baselines
  BY EnsureLineageShape, RequestShape DEF TypeOK
<1>3. OwnerTablesOK(work') /\ work'.lineage = lineage
  BY <1>1, <1>2, LineageShape DEF TypeOK, OwnerTablesOK
<1>4. db' = db /\ req' = r /\ batch' = EmptyBatch
  BY DEF Begin
<1>5. DOMAIN reply' = DOMAIN NoReply
  BY <1>1, ReplyShape
<1> QED
  BY <1>1, <1>2, <1>3, <1>4, <1>5, RequestShape, EmptyBatchShape DEF TypeOK, InTransaction

\* The three outcomes of a mutation keep the types.
LEMMA MutationType ==
    ASSUME TypeOK, ReplayMutation \/ ConflictMutation \/ ApplyMutation
    PROVE  TypeOK'
<1> USE CurrentShape
<1>1. Processing /\ InTransaction
  BY DEF ReplayMutation, ConflictMutation, ApplyMutation, Processing, InTransaction
<1>2. CASE ReplayMutation
  <2> DEFINE receipt == work.receipts[Current.op]
  <2>1. receipt \in Receipt
    BY <1>2, <1>1 DEF ReplayMutation, TypeOK, OwnerTablesOK, IsTable
  <2>2. Ack(Current.op, receipt) \in MutationAck
    BY <2>1, <1>1 DEF Receipt, Ack, MutationAck
  <2>3. CASE receipt.cursor \notin DOMAIN work.ops
    BY <2>3, <1>1, <1>2, FailType DEF ReplayMutation
  <2>4. CASE receipt.cursor \in DOMAIN work.ops
    <3> DEFINE canonical == work.ops[receipt.cursor]
    <3>1. canonical \in Change
      BY <2>4 DEF TypeOK, OwnerTablesOK, IsTable
    <3>2. /\ batch' = [batch EXCEPT !.next = @ + 1,
                                    !.acks = Append(@, Ack(Current.op, receipt)),
                                    !.canonical = Append(@, canonical)]
          /\ UNCHANGED <<db, work, phase, req, reply>>
      BY <2>4, <1>2 DEF ReplayMutation
    <3> HIDE DEF canonical, receipt
    <3>3. BatchOK(batch')
      BY <2>2, <3>1, <3>2, BatchStepShape DEF TypeOK
    <3> QED
      BY <3>2, <3>3, <1>1 DEF TypeOK, InTransaction, Processing
  <2> QED
    BY <2>3, <2>4
<1>3. CASE ConflictMutation
  <2> DEFINE existing == work.records[Current.key]
             receipt == [cursor |-> existing.cursor, conflict |-> TRUE, applied |-> FALSE]
  <2>1. existing \in Change /\ existing.cursor \in Nat
    BY <1>3 DEF ConflictMutation, IsConflict, TypeOK, OwnerTablesOK, IsTable, Change
  <2>2. receipt \in Receipt /\ Ack(Current.op, receipt) \in MutationAck
    BY <2>1, <1>1, ReceiptShape
  <2>3. /\ work' = InsertReceipt(work, Current.op, receipt)
        /\ batch' = [batch EXCEPT !.next = @ + 1,
                                  !.acks = Append(@, Ack(Current.op, receipt)),
                                  !.canonical = Append(@, existing),
                                  !.forced = Append(@, existing)]
        /\ UNCHANGED <<db, phase, req, reply>>
    BY <1>3 DEF ConflictMutation
  <2> HIDE DEF receipt, existing
  <2>4. OwnerTablesOK(work') /\ work'.lineage = work.lineage
    BY <2>2, <2>3, <1>1, InsertReceiptShape DEF TypeOK
  <2>5. BatchOK(batch')
    BY <2>1, <2>2, <2>3, BatchStepShape DEF TypeOK
  <2> QED
    BY <2>3, <2>4, <2>5, <1>1 DEF TypeOK, InTransaction, Processing
<1>4. CASE ApplyMutation
  <2> DEFINE change == MutationChange(Current, NextCursor(work))
             receipt == [cursor |-> change.cursor, conflict |-> FALSE, applied |-> TRUE]
  <2>1. change \in Change /\ change.cursor \in Nat
    <3>1. NextCursor(work) \in Cursors
      BY DEF TypeOK, OwnerTablesOK, NextCursor, Cursors
    <3> QED
      BY <3>1, <1>1, MutationChangeShape DEF Cursors
  <2>2. receipt \in Receipt /\ Ack(Current.op, receipt) \in MutationAck
    BY <2>1, <1>1, ReceiptShape
  <2>3. /\ work' = InsertReceipt(AppendAndUpsert(work, change), Current.op, receipt)
        /\ batch' = [batch EXCEPT !.next = @ + 1,
                                  !.acks = Append(@, Ack(Current.op, receipt)),
                                  !.canonical = Append(@, change),
                                  !.fresh = Append(@, change)]
        /\ UNCHANGED <<db, phase, req, reply>>
    BY <1>4 DEF ApplyMutation
  <2> HIDE DEF receipt, change
  <2>4. OwnerTablesOK(work') /\ work'.lineage = work.lineage
    BY <2>1, <2>2, <2>3, <1>1, InsertReceiptShape, AppendAndUpsertShape DEF TypeOK
  <2>5. BatchOK(batch')
    BY <2>1, <2>2, <2>3, BatchStepShape DEF TypeOK
  <2> QED
    BY <2>3, <2>4, <2>5, <1>1 DEF TypeOK, InTransaction, Processing
<1> QED
  BY <1>2, <1>3, <1>4

\* The deletion of the lineage and the import loop keep the types.
LEMMA ImportType ==
    ASSUME TypeOK, BeginImport \/ ImportMutation
    PROVE  TypeOK'
<1>1. CASE BeginImport
  <2>1. phase = "resolve" /\ req \in Requests /\ InTransaction
    BY <1>1 DEF BeginImport, Deciding, TypeOK, InTransaction
  <2>2. PICK target \in ResultBaselines(work, req.baseline) :
          batch' = [batch EXCEPT !.target = target,
                                 !.todo = {req.muts[i] : i \in DOMAIN req.muts}]
    BY <1>1 DEF BeginImport
  <2>3. target \in Baselines
    BY <2>1, RequestShape DEF ResultBaselines, Baselines
  <2>4. {req.muts[i] : i \in DOMAIN req.muts} \subseteq Mutation
    <3>1. req.muts \in Seq(Mutation)
      BY <2>1, RequestShape
    <3> QED
      BY <3>1
  <2>5. BatchOK(batch') /\ batch'.target = target
    BY <2>2, <2>3, <2>4 DEF TypeOK, BatchOK
  <2>6. OwnerTablesOK(work') /\ work'.lineage = work.lineage
    BY <1>1, ClearShape DEF BeginImport, TypeOK
  <2> QED
    BY <1>1, <2>1, <2>3, <2>5, <2>6 DEF BeginImport, TypeOK, InTransaction
<1>2. CASE ImportMutation
  <2>1. PICK m \in Smallest(batch.todo) :
          /\ work' = AppendAndUpsert(work, MutationChange(m, NextCursor(work)))
          /\ batch' = [batch EXCEPT !.todo = @ \ {m},
                                    !.fresh = Append(@, MutationChange(m, NextCursor(work)))]
    BY <1>2 DEF ImportMutation
  <2> DEFINE change == MutationChange(m, NextCursor(work))
  <2>2. m \in Mutation
    BY DEF Smallest, TypeOK, BatchOK
  <2>3. change \in Change
    <3>1. NextCursor(work) \in Cursors
      BY DEF TypeOK, OwnerTablesOK, NextCursor, Cursors
    <3> QED
      BY <3>1, <2>2, MutationChangeShape
  <2>4. /\ work' = AppendAndUpsert(work, change)
        /\ batch' = [batch EXCEPT !.todo = @ \ {m}, !.fresh = Append(@, change)]
    BY <2>1
  <2> HIDE DEF change
  <2>5. OwnerTablesOK(work') /\ work'.lineage = work.lineage
    BY <2>3, <2>4, AppendAndUpsertShape DEF TypeOK
  <2>6. Append(batch.fresh, change) \in Seq(Change)
    BY <2>3 DEF TypeOK, BatchOK
  <2>7. BatchOK(batch') /\ batch'.target = batch.target
    BY <2>4, <2>6 DEF TypeOK, BatchOK
  <2> QED
    BY <1>2, <2>5, <2>7 DEF ImportMutation, TypeOK, InTransaction
<1> QED
  BY <1>1, <1>2

\* A stored resolution keeps the tables well formed.
LEMMA InsertResolutionShape ==
    ASSUME NEW d, OwnerTablesOK(d), d.lineage.baseline \in Baselines,
           NEW r \in Requests, r.kind = "resolve"
    PROVE  /\ OwnerTablesOK(InsertResolution(d, r))
           /\ InsertResolution(d, r).lineage = d.lineage
<1>1. Resolution(d, r) \in ResolutionReceipt
  BY RequestShape DEF Resolution, ResolutionReceipt, OwnerTablesOK, LineageOK
<1>2. IsTable(Put(d.resolutions, r.id, Resolution(d, r)), RequestIds, ResolutionReceipt)
  BY <1>1, RequestShape, PutShape DEF OwnerTablesOK
<1> QED
  BY <1>2 DEF InsertResolution, OwnerTablesOK

\* What FinishImport leaves of the tables, before the commit.
Imported ==
    Publish(InsertResolution(
                [work EXCEPT !.lineage = ImportedLineage(work, batch.target, batch.fresh)], req),
            batch.fresh)

\* The tables of a finished import are well formed.
LEMMA ImportedShape ==
    ASSUME TypeOK, phase = "import"
    PROVE  /\ OwnerTablesOK(Imported)
           /\ Imported.lineage = ImportedLineage(work, batch.target, batch.fresh)
           /\ Imported.lineage.baseline \in Baselines
<1> DEFINE lineage == ImportedLineage(work, batch.target, batch.fresh)
           d == [work EXCEPT !.lineage = lineage]
<1>1. LineageOK(lineage) /\ lineage.baseline \in Baselines
  BY DEF ImportedLineage, LineageOK, TypeOK
<1>2. OwnerTablesOK(d) /\ d.lineage = lineage
  BY <1>1, LineageShape DEF TypeOK, OwnerTablesOK
<1> HIDE DEF d, lineage
<1>3. OwnerTablesOK(InsertResolution(d, req)) /\ InsertResolution(d, req).lineage = lineage
  BY <1>1, <1>2, InsertResolutionShape DEF TypeOK
<1>4. batch.fresh \in Seq(Change)
  BY DEF TypeOK, BatchOK
<1> QED
  BY <1>1, <1>3, <1>4, PublishShape DEF Imported, d, lineage

\* The actions that hand over to the commit keep the types.
LEMMA FinishActionsType ==
    ASSUME TypeOK,
           FinishExchange \/ FinishDiff \/ ResolveAgain \/ ResolveStale
             \/ ResolveUseServer \/ FinishImport
    PROVE  TypeOK'
<1>1. InTransaction /\ work.lineage.baseline \in Baselines /\ OwnerTablesOK(work)
  BY DEF TypeOK, InTransaction, FinishExchange, FinishDiff, BatchDone, ResolveAgain,
         AlreadyResolved, ResolveStale, ResolveUseServer, Deciding, FinishImport, ImportDone
<1>2. /\ OwnerTablesOK(FinalizeMutationBatch(work, batch.fresh))
      /\ FinalizeMutationBatch(work, batch.fresh).lineage.baseline \in Baselines
  BY <1>1, FinalizeShape DEF TypeOK, BatchOK
<1>3. CASE FinishExchange
  BY <1>1, <1>2, <1>3, FinishType, ReplyShape DEF FinishExchange
<1>4. CASE FinishDiff
  BY <1>1, <1>2, <1>4, FinishType, ReplyShape DEF FinishDiff
<1>5. CASE ResolveAgain
  BY <1>1, <1>5, FinishType, ReplyShape DEF ResolveAgain
<1>6. CASE ResolveStale
  BY <1>1, <1>6, FinishType, ReplyShape DEF ResolveStale
<1>7. CASE ResolveUseServer
  <2>1. req \in Requests /\ req.kind = "resolve"
    BY <1>7 DEF ResolveUseServer, Deciding, TypeOK
  <2> QED
    BY <1>1, <1>7, <2>1, InsertResolutionShape, FinishType, ReplyShape DEF ResolveUseServer
<1>8. CASE FinishImport
  <2>1. phase = "import" /\ Finish(Imported, ResolveReply(Imported, FALSE))
    BY <1>8 DEF FinishImport, ImportDone, Imported
  <2> QED
    BY <1>1, <2>1, ImportedShape, FinishType, ReplyShape
<1> QED
  BY <1>3, <1>4, <1>5, <1>6, <1>7, <1>8

\* The actions that roll back.
Rollback ==
    RejectInvalidMutation \/ RejectTakenOpId \/ FailFinalize \/ RejectLargeDiff
      \/ RejectReusedRequestId \/ RejectSnapshot \/ RejectRepeatedOpId \/ FailImport \/ Abort

\* Every error path is a rollback.
LEMMA RollbackFails ==
    ASSUME Rollback
    PROVE  InTransaction /\ \E code : Fail(code)
BY DEF Rollback, RejectInvalidMutation, RejectTakenOpId, FailFinalize, RejectLargeDiff,
       RejectReusedRequestId, RejectSnapshot, RejectRepeatedOpId, FailImport, Abort,
       Processing, BatchDone, AlreadyResolved, Deciding, ImportDone, InTransaction

\* Commit, an unknown commit and the delivery keep the types.
LEMMA OutcomeType ==
    ASSUME TypeOK, Commit \/ CommitUnknown \/ Deliver
    PROVE  TypeOK'
BY EmptyBatchShape, ReplyShape DEF TypeOK, Commit, CommitUnknown, Deliver, InTransaction

\* The type invariant is inductive.
LEMMA TypeInductive == TypeOK /\ [Next]_vars => TypeOK'
<1> SUFFICES ASSUME TypeOK, [Next]_vars PROVE TypeOK'
  OBVIOUS
<1>1. CASE \E r \in Requests : Begin(r)
  BY <1>1, BeginType
<1>2. CASE ReplayMutation \/ ConflictMutation \/ ApplyMutation
  BY <1>2, MutationType
<1>3. CASE BeginImport \/ ImportMutation
  BY <1>3, ImportType
<1>4. CASE FinishExchange \/ FinishDiff \/ ResolveAgain \/ ResolveStale
             \/ ResolveUseServer \/ FinishImport
  BY <1>4, FinishActionsType
<1>5. CASE Rollback
  BY <1>5, RollbackFails, FailType
<1>6. CASE Commit \/ CommitUnknown \/ Deliver
  BY <1>6, OutcomeType
<1>7. CASE UNCHANGED vars
  BY <1>7 DEF vars, TypeOK, InTransaction
<1> QED
  BY <1>1, <1>2, <1>3, <1>4, <1>5, <1>6, <1>7 DEF Next, Rollback

\* Committed tables, open transaction and batch always have their types.
THEOREM TypeCorrect == Spec => []TypeOK
<1>1. Init => TypeOK
  BY FreshOwnerShape, EmptyBatchShape DEF Init, TypeOK, InTransaction
<1> QED
  BY <1>1, TypeInductive, PTL DEF Spec
-----------------------------------------------------------------------------
(* The log, the records and the receipts of the committed tables and of     *)
(* the open transaction agree after every step: no strengthening beyond the *)
(* three properties themselves is needed, since each statement pair         *)
(* (AppendOperation, UpsertRecord) and each receipt restores them.          *)

LogInv == LogAgrees(db) /\ LogAgrees(work)

\* A rollback restores tables that agree.
LEMMA FailLog ==
    ASSUME LogInv, NEW code, Fail(code)
    PROVE  LogInv'
BY DEF LogInv, Fail

\* Archive, archive head and event leave the log alone.
LEMMA PublishKeepsLog ==
    ASSUME NEW d, OwnerTablesOK(d), NEW fresh
    PROVE  /\ Publish(d, fresh).head = d.head
           /\ Publish(d, fresh).ops = d.ops
           /\ Publish(d, fresh).records = d.records
           /\ Publish(d, fresh).receipts = d.receipts
BY DEF Publish, OwnerTablesOK

\* So does a new lineage row.
LEMMA LineageKeepsLog ==
    ASSUME NEW d, OwnerTablesOK(d), NEW lineage, LineageOK(lineage),
           NEW e, e = [d EXCEPT !.lineage = lineage]
    PROVE  /\ OwnerTablesOK(e)
           /\ e.head = d.head
           /\ e.ops = d.ops
           /\ e.records = d.records
           /\ e.receipts = d.receipts
BY DEF OwnerTablesOK

\* So does the end of a batch.
LEMMA FinalizeKeepsLog ==
    ASSUME NEW d, OwnerTablesOK(d), LogAgrees(d), NEW fresh
    PROVE  LogAgrees(FinalizeMutationBatch(d, fresh))
<1>1. CASE fresh = <<>>
  BY <1>1 DEF FinalizeMutationBatch
<1>2. CASE fresh # <<>>
  <2> DEFINE e == [d EXCEPT !.lineage = IncrementLineage(d)]
  <2>1. LineageOK(IncrementLineage(d))
    BY DEF OwnerTablesOK, LineageOK, IncrementLineage
  <2>2. /\ OwnerTablesOK(e)
        /\ e.head = d.head /\ e.ops = d.ops /\ e.records = d.records /\ e.receipts = d.receipts
    BY <2>1, LineageKeepsLog
  <2>3. FinalizeMutationBatch(d, fresh) = Publish(e, fresh)
    BY <1>2 DEF FinalizeMutationBatch
  <2> HIDE DEF e
  <2>4. d.head \in Nat
    BY DEF OwnerTablesOK
  <2> QED
    BY <2>2, <2>3, <2>4, PublishKeepsLog, SameLogAgrees
<1> QED
  BY <1>1, <1>2

\* The three outcomes of a mutation keep log, records and receipts in agreement.
LEMMA MutationLog ==
    ASSUME TypeOK, LogInv, ReplayMutation \/ ConflictMutation \/ ApplyMutation
    PROVE  LogInv'
<1>1. /\ Processing
      /\ Current \in Mutation /\ Current.op \in OpIds
      /\ OwnerTablesOK(work) /\ LogAgrees(work)
  BY CurrentShape DEF ReplayMutation, ConflictMutation, ApplyMutation, TypeOK, LogInv
<1>2. CASE ReplayMutation
  BY <1>2, FailLog DEF ReplayMutation, LogInv
<1>3. CASE ConflictMutation
  <2> DEFINE existing == work.records[Current.key]
             receipt == [cursor |-> existing.cursor, conflict |-> TRUE, applied |-> FALSE]
  <2>1. existing.cursor \in DOMAIN work.ops
    BY <1>1, <1>3 DEF ConflictMutation, IsConflict, LogAgrees, RecordsAreTheLatest
  <2>2. /\ receipt.cursor = existing.cursor
        /\ receipt.conflict = TRUE
        /\ receipt.applied = FALSE
    OBVIOUS
  <2>3. work' = InsertReceipt(work, Current.op, receipt) /\ db' = db
    BY <1>3 DEF ConflictMutation
  <2> HIDE DEF receipt
  <2>4. LogAgrees(work')
    BY <1>1, <2>1, <2>2, <2>3, ReceiptAgrees
  <2> QED
    BY <2>3, <2>4 DEF LogInv
<1>4. CASE ApplyMutation
  <2> DEFINE change == MutationChange(Current, NextCursor(work))
             receipt == [cursor |-> change.cursor, conflict |-> FALSE, applied |-> TRUE]
             d == AppendAndUpsert(work, change)
  <2>1. /\ change \in Change
        /\ change.cursor = work.head + 1
        /\ d.ops = Put(work.ops, work.head + 1, change)
        /\ LogAgrees(d)
    BY <1>1, <1>4, AppendAgrees DEF ApplyMutation
  <2>2. change.op = Current.op
    BY DEF MutationChange
  <2>3. /\ receipt.cursor = change.cursor
        /\ receipt.conflict = FALSE
        /\ receipt.applied = TRUE
    OBVIOUS
  <2>4. work' = InsertReceipt(d, Current.op, receipt) /\ db' = db
    BY <1>4 DEF ApplyMutation
  <2> HIDE DEF receipt, change
  <2>5. OwnerTablesOK(d)
    BY <1>1, <2>1, AppendAndUpsertShape
  <2> HIDE DEF d
  <2>6. receipt.cursor \in DOMAIN d.ops /\ d.ops[receipt.cursor] = change
    BY <2>1, <2>3 DEF Put
  <2>7. LogAgrees(work')
    BY <2>1, <2>2, <2>3, <2>4, <2>5, <2>6, ReceiptAgrees
  <2> QED
    BY <2>4, <2>7 DEF LogInv
<1> QED
  BY <1>2, <1>3, <1>4

\* So do the deletion of the lineage and each imported mutation.
LEMMA ImportLog ==
    ASSUME TypeOK, LogInv, BeginImport \/ ImportMutation
    PROVE  LogInv'
<1>1. CASE BeginImport
  <2>1. db' = db /\ work' = ClearCurrentBaseline(work)
    BY <1>1 DEF BeginImport
  <2>2. LogAgrees(ClearCurrentBaseline(work))
    BY EmptyLogAgrees DEF ClearCurrentBaseline, TypeOK, OwnerTablesOK
  <2> QED
    BY <2>1, <2>2 DEF LogInv
<1>2. CASE ImportMutation
  <2>1. PICK m \in Smallest(batch.todo) :
          /\ ~OpIdTaken(work, m.op)
          /\ work' = AppendAndUpsert(work, MutationChange(m, NextCursor(work)))
          /\ db' = db
    BY <1>2 DEF ImportMutation
  <2>2. m \in Mutation
    BY DEF Smallest, TypeOK, BatchOK
  <2> QED
    BY <2>1, <2>2, AppendAgrees DEF LogInv, TypeOK
<1> QED
  BY <1>1, <1>2

\* So do the actions that hand over to the commit.
LEMMA FinishLog ==
    ASSUME TypeOK, LogInv,
           FinishExchange \/ FinishDiff \/ ResolveAgain \/ ResolveStale
             \/ ResolveUseServer \/ FinishImport
    PROVE  LogInv'
<1>1. OwnerTablesOK(work) /\ LogAgrees(work) /\ work.head \in Nat
  BY DEF TypeOK, LogInv, OwnerTablesOK
<1>2. CASE FinishExchange \/ FinishDiff
  BY <1>1, <1>2, FinalizeKeepsLog DEF FinishExchange, FinishDiff, Finish, LogInv
<1>3. CASE ResolveAgain \/ ResolveStale
  BY <1>3 DEF ResolveAgain, ResolveStale, Finish, LogInv
<1>4. CASE ResolveUseServer
  <2> DEFINE e == InsertResolution(work, req)
  <2>1. e.head = work.head /\ e.ops = work.ops /\ e.records = work.records /\ e.receipts = work.receipts
    BY <1>1 DEF InsertResolution, OwnerTablesOK
  <2>2. work' = e /\ db' = db
    BY <1>4 DEF ResolveUseServer, Finish
  <2> HIDE DEF e
  <2> QED
    BY <1>1, <2>1, <2>2, SameLogAgrees DEF LogInv
<1>5. CASE FinishImport
  <2>1. phase = "import" /\ work' = Imported /\ db' = db
    BY <1>5 DEF FinishImport, ImportDone, Imported, Finish
  <2> DEFINE lineage == ImportedLineage(work, batch.target, batch.fresh)
             d == [work EXCEPT !.lineage = lineage]
             e == InsertResolution(d, req)
  <2>2. LineageOK(lineage) /\ lineage.baseline \in Baselines
    BY <2>1 DEF ImportedLineage, LineageOK, TypeOK
  <2> HIDE DEF lineage
  <2>3. /\ OwnerTablesOK(d) /\ d.lineage = lineage
        /\ d.head = work.head /\ d.ops = work.ops
        /\ d.records = work.records /\ d.receipts = work.receipts
    BY <1>1, <2>2, LineageKeepsLog DEF OwnerTablesOK
  <2> HIDE DEF d
  <2>4. /\ OwnerTablesOK(e)
        /\ e.head = d.head /\ e.ops = d.ops /\ e.records = d.records /\ e.receipts = d.receipts
    <3>1. req \in Requests /\ req.kind = "resolve"
      BY <2>1 DEF TypeOK
    <3>2. OwnerTablesOK(e)
      BY <3>1, <2>2, <2>3, InsertResolutionShape
    <3> QED
      BY <3>2, <2>3 DEF InsertResolution, OwnerTablesOK
  <2>5. work' = Publish(e, batch.fresh)
    BY <2>1 DEF Imported, d, lineage
  <2> HIDE DEF e
  <2>6. LogAgrees(work')
    BY <1>1, <2>3, <2>4, <2>5, PublishKeepsLog, SameLogAgrees
  <2> QED
    BY <2>1, <2>6 DEF LogInv
<1> QED
  BY <1>2, <1>3, <1>4, <1>5

\* So does Begin, which only writes the lineage.
LEMMA BeginLog ==
    ASSUME TypeOK, LogInv, NEW r \in Requests, Begin(r)
    PROVE  LogInv'
<1>1. PICK lineage \in EnsureLineage(db, r.baseline) : work' = [db EXCEPT !.lineage = lineage]
  BY DEF Begin
<1>2. OwnerTablesOK(db) /\ db.head \in Nat /\ LineageOK(lineage) /\ db' = db
  BY EnsureLineageShape, RequestShape DEF TypeOK, OwnerTablesOK, Begin
<1>3. /\ work'.head = db.head /\ work'.ops = db.ops
      /\ work'.records = db.records /\ work'.receipts = db.receipts
  BY <1>1, <1>2 DEF OwnerTablesOK
<1> QED
  BY <1>2, <1>3, SameLogAgrees DEF LogInv

\* The agreement of log, records and receipts is inductive.
LEMMA LogInductive == TypeOK /\ LogInv /\ [Next]_vars => LogInv'
<1> SUFFICES ASSUME TypeOK, LogInv, [Next]_vars PROVE LogInv'
  OBVIOUS
<1>1. CASE \E r \in Requests : Begin(r)
  BY <1>1, BeginLog
<1>2. CASE ReplayMutation \/ ConflictMutation \/ ApplyMutation
  BY <1>2, MutationLog
<1>3. CASE BeginImport \/ ImportMutation
  BY <1>3, ImportLog
<1>4. CASE FinishExchange \/ FinishDiff \/ ResolveAgain \/ ResolveStale
             \/ ResolveUseServer \/ FinishImport
  BY <1>4, FinishLog
<1>5. CASE Rollback
  BY <1>5, RollbackFails, FailLog
<1>6. CASE Commit \/ CommitUnknown \/ Deliver
  BY <1>6 DEF Commit, CommitUnknown, Deliver, LogInv
<1>7. CASE UNCHANGED vars
  BY <1>7 DEF vars, LogInv
<1> QED
  BY <1>1, <1>2, <1>3, <1>4, <1>5, <1>6, <1>7 DEF Next, Rollback

\* Log, records and receipts always agree.
LEMMA LogAlwaysAgrees == Spec => []LogInv
<1>1. Init => LogInv
  BY EmptyLogAgrees DEF Init, FreshOwner, LogInv
<1> QED
  BY <1>1, LogInductive, TypeCorrect, PTL DEF Spec

\* The log of a lineage has no gap, no repeated op_id, and each operation
\* its own cursor, committed and inside a transaction.
THEOREM LogIsAlwaysContiguous == Spec => []LogContiguous
<1>1. LogInv => LogContiguous
  BY DEF LogInv, LogAgrees, LogContiguous
<1> QED
  BY <1>1, LogAlwaysAgrees, PTL

\* The records are always the fold of the log.
THEOREM RecordsAreAlwaysLatest == Spec => []RecordsAreLatest
<1>1. LogInv => RecordsAreLatest
  BY DEF LogInv, LogAgrees, RecordsAreLatest
<1> QED
  BY <1>1, LogAlwaysAgrees, PTL

\* A replayed op_id always finds its canonical Change.
THEOREM ReceiptsAlwaysPointAtLog == Spec => []ReceiptsPointAtLog
<1>1. LogInv => ReceiptsPointAtLog
  BY DEF LogInv, LogAgrees, ReceiptsPointAtLog
<1> QED
  BY <1>1, LogAlwaysAgrees, PTL
=============================================================================
