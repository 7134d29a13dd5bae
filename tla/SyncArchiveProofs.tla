-------------------------- MODULE SyncArchiveProofs --------------------------
(***************************************************************************)
(* What an owner's transactions leave to the devices: the archive, its     *)
(* heads, the outbox, the resolutions and the progress day, how every      *)
(* commit is a step of ChangeLog and of FeedLog, and what the answers say  *)
(* of the tables they were computed from.                                  *)
(*                                                                         *)
(* The committed tables satisfy History.  An open transaction is related   *)
(* to the tables it began with (Transaction), and what it hands over to    *)
(* the commit to the tables it will replace (Outcome).                     *)
(***************************************************************************)
EXTENDS SyncServiceProofs, FiniteSetTheorems

-----------------------------------------------------------------------------
(* The inductive invariant. *)

\* Every lineage with an archive head is archived up to that head, no other
\* one at all.
ArchiveReachesHeads(d) ==
    /\ \A x \in DOMAIN d.archive :
        x[1] \in DOMAIN d.archiveHeads /\ x[2] <= d.archiveHeads[x[1]].cursor
    /\ \A b \in DOMAIN d.archiveHeads : \A c \in 1..d.archiveHeads[b].cursor :
        <<b, c>> \in DOMAIN d.archive

\* The current lineage is archived as it is, or nothing ever was.
LineageIsArchived(d) ==
    IF d.lineage.baseline \in DOMAIN d.archiveHeads
    THEN /\ d.archiveHeads[d.lineage.baseline] = [cursor |-> d.head, version |-> d.lineage.version]
         /\ \A c \in 1..d.head : d.archive[<<d.lineage.baseline, c>>].change = d.ops[c]
    ELSE /\ d.head = 0 /\ d.lineage.version = 0
         /\ DOMAIN d.archiveHeads = {}
         /\ d.outbox = <<>>

\* ArchiveVersionsAscend, of any tables.
VersionsAscend(d) ==
    /\ \A x, y \in DOMAIN d.archive :
        x[1] = y[1] /\ x[2] < y[2] => d.archive[x].version <= d.archive[y].version
    /\ \A b \in DOMAIN d.archiveHeads :
        LET head == d.archiveHeads[b]
        IN /\ head.version <= head.cursor
           /\ head.version = 0 <=> head.cursor = 0
           /\ head.cursor > 0 => d.archive[<<b, head.cursor>>].version = head.version

\* LastHintIsCurrent, of any tables, and no event of a lineage without head.
HintsAreCurrent(d) ==
    /\ d.lineage.baseline \in DOMAIN d.archiveHeads =>
        /\ d.outbox # <<>>
        /\ d.outbox[Len(d.outbox)] = [baseline |-> d.lineage.baseline, cursor |-> d.head,
                                      version |-> d.lineage.version]
    /\ \A i, j \in DOMAIN d.outbox :
        i < j /\ d.outbox[i].baseline = d.outbox[j].baseline =>
            /\ d.outbox[i].cursor < d.outbox[j].cursor
            /\ d.outbox[i].version < d.outbox[j].version
    /\ \A i \in DOMAIN d.outbox :
        /\ d.outbox[i].baseline \in DOMAIN d.archiveHeads
        /\ d.outbox[i].cursor <= d.archiveHeads[d.outbox[i].baseline].cursor
        /\ d.outbox[i].version <= d.archiveHeads[d.outbox[i].baseline].version

ResolutionsBelong(d) ==
    \A id \in DOMAIN d.resolutions :
        /\ d.resolutions[id].resultBaseline = d.lineage.baseline
        /\ d.resolutions[id].resultVersion <= d.lineage.version

DayIsFresh(d) ==
    /\ ~ProgressDayFails(d.records)
    /\ d.lineage.day = DeriveProgressDay(d.records)

\* What holds of the committed tables.
History(d) ==
    /\ d.ops \in Seq(Change)
    /\ ArchiveReachesHeads(d)
    /\ LineageIsArchived(d)
    /\ VersionsAscend(d)
    /\ HintsAreCurrent(d)
    /\ ResolutionsBelong(d)
    /\ DayIsFresh(d)

\* The lineage ensureLineage returns to a transaction that began with d.
Ensured(d, lineage) ==
    IF d.lineage.baseline # NoBaseline THEN lineage = d.lineage
    ELSE \E b \in Baselines : lineage = [baseline |-> b, version |-> 0, day |-> CampaignStart]

\* The tables other transactions and the devices learn the log from.
SameArchive(d, e) ==
    /\ e.archive = d.archive
    /\ e.archiveHeads = d.archiveHeads
    /\ e.outbox = d.outbox

\* The log of e is that of d, and its lineage, too, unless it is the first.
Quiet(d, e) ==
    /\ SameArchive(d, e)
    /\ Ensured(d, e.lineage)
    /\ e.head = d.head /\ e.ops = d.ops /\ e.records = d.records
    /\ ResolutionsBelong(e)

\* e has more operations in the same lineage.
Grown(d, e) ==
    /\ d.lineage.baseline \in {e.lineage.baseline, NoBaseline}
    /\ e.lineage.version = d.lineage.version + 1
    /\ d.head < e.head
    /\ \A c \in 1..d.head : e.ops[c] = d.ops[c]

\* e has a lineage that was never published.
Replaced(d, e) ==
    /\ e.lineage.baseline \notin DOMAIN d.archiveHeads
    /\ e.lineage.version = IF e.head = 0 THEN 0 ELSE 1

\* e has published its whole log, its head and one event.
Announced(d, e) ==
    LET b == e.lineage.baseline
        new == {<<b, c>> : c \in 1..e.head} \ DOMAIN d.archive
    IN /\ DOMAIN e.archive = DOMAIN d.archive \cup new
       /\ \A x \in DOMAIN d.archive : e.archive[x] = d.archive[x]
       /\ \A x \in new : e.archive[x] = [change |-> e.ops[x[2]], version |-> e.lineage.version]
       /\ e.archiveHeads = Put(d.archiveHeads, b, [cursor |-> e.head, version |-> e.lineage.version])
       /\ e.outbox = Append(d.outbox, [baseline |-> b, cursor |-> e.head,
                                       version |-> e.lineage.version])

\* What a transaction that began with d may commit.
Outcome(d, e) ==
    \/ Quiet(d, e)
    \/ /\ Grown(d, e) \/ Replaced(d, e)
       /\ e.lineage.baseline \in Baselines
       /\ Announced(d, e)
       /\ ResolutionsBelong(e)
       /\ DayIsFresh(e)

\* The changes the open batch has to publish are those after cursor n.
FreshAfter(n) ==
    /\ n <= work.head
    /\ Len(batch.fresh) = work.head - n
    /\ \A i \in 1..Len(batch.fresh) : batch.fresh[i] = work.ops[n + i]

\* Where a batch stands.
InBatch ==
    /\ SameArchive(db, work)
    /\ work.resolutions = db.resolutions
    /\ Ensured(db, work.lineage)
    /\ \A c \in 1..db.head : work.ops[c] = db.ops[c]
    /\ FreshAfter(db.head)
    /\ batch.fresh = <<>> => work.ops = db.ops /\ work.records = db.records

\* Where an import stands.
InImport ==
    /\ SameArchive(db, work)
    /\ work.resolutions = Empty
    /\ Ensured(db, work.lineage)
    /\ batch.target \notin DOMAIN db.archiveHeads
    /\ FreshAfter(0)

\* The open transaction and the tables it began with.
Transaction ==
    /\ work.ops \in Seq(Change)
    /\ phase \in {"idle", "replied"} => work = db
    /\ phase = "mutations" => InBatch
    /\ phase = "resolve" => Quiet(db, work) /\ batch.fresh = <<>>
    /\ phase = "import" => InImport
    /\ phase = "commit" => Outcome(db, work)

HistoryInv == History(db) /\ Transaction

-----------------------------------------------------------------------------
(* A committed outcome satisfies History. *)

\* NULL names no archive head.
LEMMA NoBaselineHead ==
    ASSUME NEW d, OwnerTablesOK(d)
    PROVE  NoBaseline \notin DOMAIN d.archiveHeads
BY BaselinesAssumption DEF OwnerTablesOK, IsTable

\* A log without operations has no record, hence the first progress day.
LEMMA EmptyLogDay ==
    ASSUME NEW d, LogAgrees(d), d.head = 0
    PROVE  ~ProgressDayFails(d.records) /\ DeriveProgressDay(d.records) = CampaignStart
<1>1. DOMAIN d.ops = {}
  BY DEF LogAgrees, LogIsContiguous
<1>2. DOMAIN d.records = {}
  BY <1>1 DEF LogAgrees, RecordsAreTheLatest
<1>3. DayOf(d.records) = {}
  BY <1>2 DEF DayOf, Rows
<1> QED
  BY <1>3, CampaignStartAssumption DEF ProgressDayFails, DeriveProgressDay

\* Without a publication the archive and the lineage stay as they were.
LEMMA QuietHistory ==
    ASSUME NEW d, OwnerTablesOK(d), LogAgrees(d), History(d),
           NEW e, e.ops \in Seq(Change), Quiet(d, e)
    PROVE  History(e)
<1>1. CASE d.lineage.baseline # NoBaseline
  <2>1. e.lineage = d.lineage
    BY <1>1 DEF Quiet, Ensured
  <2> QED
    BY <2>1 DEF Quiet, SameArchive, History, ArchiveReachesHeads, LineageIsArchived,
                VersionsAscend, HintsAreCurrent, DayIsFresh
<1>2. CASE d.lineage.baseline = NoBaseline
  <2>1. d.head = 0 /\ DOMAIN d.archiveHeads = {} /\ d.outbox = <<>>
    BY <1>2, NoBaselineHead DEF History, LineageIsArchived
  <2>2. e.lineage.version = 0 /\ e.lineage.day = CampaignStart
    <3>1. PICK b \in Baselines :
            e.lineage = [baseline |-> b, version |-> 0, day |-> CampaignStart]
      BY <1>2 DEF Quiet, Ensured
    <3> QED
      BY <3>1
  <2>3. DayIsFresh(e)
    BY <2>1, <2>2, EmptyLogDay DEF Quiet, DayIsFresh
  <2>4. LineageIsArchived(e) /\ HintsAreCurrent(e)
    BY <2>1, <2>2 DEF Quiet, SameArchive, LineageIsArchived, HintsAreCurrent
  <2> QED
    BY <2>3, <2>4 DEF Quiet, SameArchive, History, ArchiveReachesHeads, VersionsAscend
<1> QED
  BY <1>1, <1>2

\* The lineage of an announced outcome is the one before, which grew, or has
\* never been published.
LEMMA AnnouncedLineage ==
    ASSUME NEW d, OwnerTablesOK(d), LogAgrees(d), History(d),
           NEW e, OwnerTablesOK(e), Grown(d, e) \/ Replaced(d, e)
    PROVE  LET b == e.lineage.baseline
           IN /\ b \in DOMAIN d.archiveHeads =>
                    /\ d.lineage.baseline = b
                    /\ d.archiveHeads[b] = [cursor |-> d.head, version |-> d.lineage.version]
                    /\ e.lineage.version = d.lineage.version + 1
                    /\ d.head < e.head
                    /\ Grown(d, e)
              /\ b \notin DOMAIN d.archiveHeads =>
                    /\ e.lineage.version = IF e.head = 0 THEN 0 ELSE 1
                    /\ \A x \in DOMAIN d.archive : x[1] # b
                    /\ Grown(d, e) => d.head = 0
<1> DEFINE b == e.lineage.baseline
<1>1. d.head \in Nat /\ e.head \in Nat /\ d.lineage.version \in Nat
  BY DEF OwnerTablesOK, LineageOK
<1>2. CASE b \in DOMAIN d.archiveHeads
  <2>1. Grown(d, e)
    BY <1>2 DEF Replaced
  <2>2. d.lineage.baseline # NoBaseline
    BY <1>2, NoBaselineHead DEF History, LineageIsArchived
  <2> QED
    BY <1>2, <2>1, <2>2 DEF Grown, History, LineageIsArchived
<1>3. CASE b \notin DOMAIN d.archiveHeads
  <2>1. \A x \in DOMAIN d.archive : x[1] # b
    BY <1>3 DEF History, ArchiveReachesHeads
  <2>2. ASSUME Grown(d, e)
        PROVE  d.head = 0 /\ d.lineage.version = 0
    <3>1. d.lineage.baseline \notin DOMAIN d.archiveHeads
      BY <1>3, <2>2, NoBaselineHead DEF Grown
    <3> QED
      BY <3>1 DEF History, LineageIsArchived
  <2> QED
    BY <1>1, <1>3, <2>1, <2>2 DEF Grown, Replaced
<1> QED
  BY <1>2, <1>3

\* An announced outcome satisfies each part of History.
LEMMA AnnouncedHistory ==
    ASSUME NEW d, OwnerTablesOK(d), LogAgrees(d), History(d),
           NEW e, OwnerTablesOK(e), LogAgrees(e), e.ops \in Seq(Change),
           e.lineage.baseline \in Baselines,
           Grown(d, e) \/ Replaced(d, e), Announced(d, e),
           ResolutionsBelong(e), DayIsFresh(e)
    PROVE  History(e)
<1> DEFINE b == e.lineage.baseline
           v == e.lineage.version
           n == e.head
           new == {<<b, c>> : c \in 1..n} \ DOMAIN d.archive
<1>1. /\ d.head \in Nat /\ n \in Nat /\ d.lineage.version \in Nat /\ v \in Nat
      /\ DOMAIN d.archive \subseteq Baselines \X Cursors
      /\ \A x \in DOMAIN d.archive : d.archive[x].version \in Nat
      /\ \A p \in DOMAIN d.archiveHeads :
            d.archiveHeads[p].cursor \in Nat /\ d.archiveHeads[p].version \in Nat
      /\ d.outbox \in Seq(Event)
  BY DEF OwnerTablesOK, LineageOK, IsTable
<1>2. /\ DOMAIN e.archive = DOMAIN d.archive \cup new
      /\ \A x \in DOMAIN d.archive : e.archive[x] = d.archive[x]
      /\ \A x \in new : e.archive[x] = [change |-> e.ops[x[2]], version |-> v]
      /\ DOMAIN e.archiveHeads = DOMAIN d.archiveHeads \cup {b}
      /\ e.archiveHeads[b] = [cursor |-> n, version |-> v]
      /\ \A p \in DOMAIN d.archiveHeads : p # b => e.archiveHeads[p] = d.archiveHeads[p]
  BY DEF Announced, Put
<1>3. /\ b \in DOMAIN d.archiveHeads =>
            /\ d.lineage.baseline = b
            /\ d.archiveHeads[b] = [cursor |-> d.head, version |-> d.lineage.version]
            /\ v = d.lineage.version + 1
            /\ d.head < n
            /\ Grown(d, e)
      /\ b \notin DOMAIN d.archiveHeads =>
            /\ v = IF n = 0 THEN 0 ELSE 1
            /\ \A x \in DOMAIN d.archive : x[1] # b
  BY AnnouncedLineage
<1>4. \A x \in DOMAIN d.archive :
        x[1] \in DOMAIN d.archiveHeads /\ x[2] <= d.archiveHeads[x[1]].cursor
  BY DEF History, ArchiveReachesHeads
<1>5. \A x \in new : x[1] = b /\ x[2] \in 1..n
  OBVIOUS
<1>6. \A c \in 1..n : <<b, c>> \in DOMAIN e.archive
  BY <1>2
<1>12. \A x \in new : e.archive[x].change = e.ops[x[2]] /\ e.archive[x].version = v
  <2> SUFFICES ASSUME NEW x \in new
               PROVE  e.archive[x].change = e.ops[x[2]] /\ e.archive[x].version = v
    OBVIOUS
  <2> HIDE DEF new
  <2>1. e.archive[x] = [change |-> e.ops[x[2]], version |-> v]
    BY <1>2
  <2> QED
    BY <2>1
<1> HIDE DEF new
\* What the archive holds of b already ends at d.head, under lower versions.
<1>7. ASSUME NEW x \in DOMAIN d.archive, x[1] = b
      PROVE  /\ b \in DOMAIN d.archiveHeads
             /\ x[2] <= d.head
             /\ d.archive[x].version <= d.lineage.version
  <2>1. b \in DOMAIN d.archiveHeads
    BY <1>7, <1>3
  <2>2. x[2] <= d.head /\ x[2] \in Cursors /\ x = <<b, x[2]>>
    BY <1>7, <2>1, <1>1, <1>3, <1>4
  <2>3. d.head > 0 /\ <<b, d.head>> \in DOMAIN d.archive
    BY <2>1, <2>2, <1>1, <1>3 DEF Cursors, History, ArchiveReachesHeads
  <2>4. d.archive[<<b, d.head>>].version = d.lineage.version
    BY <2>1, <2>3, <1>1, <1>3 DEF History, VersionsAscend
  <2>5. CASE x[2] = d.head
    BY <2>1, <2>2, <2>4, <2>5, <1>1
  <2>6. CASE x[2] < d.head
    <3>1. d.archive[x].version <= d.archive[<<b, d.head>>].version
      BY <1>7, <2>3, <2>6 DEF History, VersionsAscend
    <3> QED
      BY <3>1, <2>1, <2>2, <2>4
  <2> QED
    BY <2>2, <2>5, <2>6, <1>1 DEF Cursors
<1>8. ArchiveReachesHeads(e)
  <2>1. ASSUME NEW x \in DOMAIN e.archive
        PROVE  x[1] \in DOMAIN e.archiveHeads /\ x[2] <= e.archiveHeads[x[1]].cursor
    <3>1. CASE x \in new
      BY <3>1, <1>1, <1>2, <1>5
    <3>2. CASE x \in DOMAIN d.archive /\ x[1] = b
      <4>1. x[2] \in Nat
        BY <3>2, <1>1 DEF Cursors
      <4> QED
        BY <3>2, <4>1, <1>1, <1>2, <1>3, <1>7
    <3>3. CASE x \in DOMAIN d.archive /\ x[1] # b
      BY <3>3, <1>2, <1>4
    <3> QED
      BY <3>1, <3>2, <3>3, <1>2
  <2>2. ASSUME NEW p \in DOMAIN e.archiveHeads, NEW c \in 1..e.archiveHeads[p].cursor
        PROVE  <<p, c>> \in DOMAIN e.archive
    <3>1. CASE p = b
      BY <3>1, <1>2, <1>6
    <3>2. CASE p # b
      BY <3>2, <1>2 DEF History, ArchiveReachesHeads
    <3> QED
      BY <3>1, <3>2
  <2> QED
    BY <2>1, <2>2 DEF ArchiveReachesHeads
<1>9. LineageIsArchived(e)
  <2>1. ASSUME NEW c \in 1..n
        PROVE  e.archive[<<b, c>>].change = e.ops[c]
    <3>1. CASE <<b, c>> \in new
      BY <3>1, <1>12
    <3>2. CASE <<b, c>> \in DOMAIN d.archive
      <4>1. b \in DOMAIN d.archiveHeads /\ c \in 1..d.head
        BY <3>2, <1>1, <1>7
      <4>2. d.archive[<<b, c>>].change = d.ops[c] /\ e.ops[c] = d.ops[c]
        BY <4>1, <1>3 DEF History, LineageIsArchived, Grown
      <4> QED
        BY <3>2, <4>2, <1>2
    <3> QED
      BY <3>1, <3>2, <1>2, <1>6
  <2> QED
    BY <2>1, <1>2 DEF LineageIsArchived
<1>10. VersionsAscend(e)
  <2>1. ASSUME NEW x \in DOMAIN e.archive, NEW y \in DOMAIN e.archive,
               x[1] = y[1], x[2] < y[2]
        PROVE  e.archive[x].version <= e.archive[y].version
    <3>1. CASE x \in DOMAIN d.archive /\ y \in DOMAIN d.archive
      BY <2>1, <3>1, <1>2 DEF History, VersionsAscend
    <3>2. CASE x \in DOMAIN d.archive /\ y \in new
      <4>1. x[1] = b /\ e.archive[x] = d.archive[x] /\ e.archive[y].version = v
        BY <2>1, <3>2, <1>2, <1>5, <1>12
      <4>2. d.archive[x].version <= d.lineage.version /\ v = d.lineage.version + 1
        BY <3>2, <4>1, <1>3, <1>7
      <4> QED
        BY <3>2, <4>1, <4>2, <1>1
    <3>3. CASE x \in new /\ y \in DOMAIN d.archive
      <4>1. x[1] = b /\ y[1] = b /\ x[2] \in 1..n
        BY <2>1, <3>3, <1>5
      <4>2. y[2] <= d.head /\ b \in DOMAIN d.archiveHeads /\ y[2] \in Nat
        BY <3>3, <4>1, <1>1, <1>7 DEF Cursors
      <4>3. x[2] \in 1..d.archiveHeads[b].cursor
        BY <2>1, <4>1, <4>2, <1>1, <1>3
      <4>4. <<b, x[2]>> \in DOMAIN d.archive
        BY <4>2, <4>3 DEF History, ArchiveReachesHeads
      <4> QED
        BY <3>3, <4>4 DEF new
    <3>4. CASE x \in new /\ y \in new
      BY <3>4, <1>1, <1>12
    <3> QED
      BY <3>1, <3>2, <3>3, <3>4, <1>2
  <2>2. ASSUME NEW p \in DOMAIN e.archiveHeads
        PROVE  LET head == e.archiveHeads[p]
               IN /\ head.version <= head.cursor
                  /\ head.version = 0 <=> head.cursor = 0
                  /\ head.cursor > 0 => e.archive[<<p, head.cursor>>].version = head.version
    <3>1. CASE p # b
      <4>1. p \in DOMAIN d.archiveHeads /\ e.archiveHeads[p] = d.archiveHeads[p]
        BY <3>1, <1>2
      <4>2. d.archiveHeads[p].cursor > 0 => <<p, d.archiveHeads[p].cursor>> \in DOMAIN d.archive
        BY <4>1, <1>1 DEF History, ArchiveReachesHeads
      <4> QED
        BY <4>1, <4>2, <1>2 DEF History, VersionsAscend
    <3>2. CASE p = b
      <4>1. v <= n /\ (v = 0 <=> n = 0)
        <5>1. CASE b \in DOMAIN d.archiveHeads
          <6>1. d.archiveHeads[b].version <= d.archiveHeads[b].cursor
            BY <5>1 DEF History, VersionsAscend
          <6>2. d.lineage.version <= d.head
            BY <5>1, <6>1, <1>3
          <6> QED
            BY <5>1, <6>2, <1>1, <1>3
        <5>2. CASE b \notin DOMAIN d.archiveHeads
          BY <5>2, <1>1, <1>3
        <5> QED
          BY <5>1, <5>2
      <4>2. ASSUME n > 0
            PROVE  e.archive[<<b, n>>].version = v
        <5>1. <<b, n>> \notin DOMAIN d.archive
          <6> SUFFICES ASSUME <<b, n>> \in DOMAIN d.archive PROVE FALSE
            OBVIOUS
          <6>1. b \in DOMAIN d.archiveHeads /\ n <= d.head
            BY <1>7
          <6> QED
            BY <6>1, <1>1, <1>3
        <5>2. <<b, n>> \in new
          BY <4>2, <5>1, <1>1 DEF new
        <5> QED
          BY <5>2, <1>12
      <4> QED
        BY <3>2, <4>1, <4>2, <1>2
    <3> QED
      BY <3>1, <3>2
  <2> QED
    BY <2>1, <2>2 DEF VersionsAscend
<1>11. HintsAreCurrent(e)
  <2> DEFINE event == [baseline |-> b, cursor |-> n, version |-> v]
             k == Len(d.outbox)
  <2>1. /\ event \in Event
        /\ event.baseline = b /\ event.cursor = n /\ event.version = v
    BY <1>1 DEF Event
  <2>2. e.outbox = Append(d.outbox, event)
    BY DEF Announced
  <2> HIDE DEF event
  <2>3. /\ k \in Nat /\ Len(e.outbox) = k + 1
        /\ DOMAIN e.outbox = 1..(k + 1)
        /\ e.outbox[k + 1] = event
        /\ \A i \in 1..k : e.outbox[i] = d.outbox[i] /\ i \in DOMAIN d.outbox
        /\ e.outbox # <<>>
    BY <2>1, <2>2, <1>1
  <2>4. \A i \in 1..k :
          /\ d.outbox[i].baseline \in DOMAIN d.archiveHeads
          /\ d.outbox[i].cursor <= d.archiveHeads[d.outbox[i].baseline].cursor
          /\ d.outbox[i].version <= d.archiveHeads[d.outbox[i].baseline].version
          /\ d.outbox[i].cursor \in Nat /\ d.outbox[i].version \in Nat
    <3> SUFFICES ASSUME NEW i \in 1..k
                 PROVE  /\ d.outbox[i].baseline \in DOMAIN d.archiveHeads
                        /\ d.outbox[i].cursor <= d.archiveHeads[d.outbox[i].baseline].cursor
                        /\ d.outbox[i].version <= d.archiveHeads[d.outbox[i].baseline].version
                        /\ d.outbox[i].cursor \in Nat /\ d.outbox[i].version \in Nat
      OBVIOUS
    <3>1. i \in DOMAIN d.outbox
      BY <2>3
    <3>2. d.outbox[i] \in Event
      BY <3>1, <1>1
    <3>3. d.outbox[i].cursor \in Nat /\ d.outbox[i].version \in Nat
      BY <3>2 DEF Event
    <3> QED
      BY <3>1, <3>3 DEF History, HintsAreCurrent
  <2>5. \A i \in 1..k : d.outbox[i].baseline = b =>
            d.outbox[i].cursor < n /\ d.outbox[i].version < v
    <3> SUFFICES ASSUME NEW i \in 1..k, d.outbox[i].baseline = b
                 PROVE  d.outbox[i].cursor < n /\ d.outbox[i].version < v
      OBVIOUS
    <3>1. /\ b \in DOMAIN d.archiveHeads
          /\ d.outbox[i].cursor <= d.head
          /\ d.outbox[i].version <= d.lineage.version
      BY <2>4, <1>3
    <3> QED
      BY <3>1, <2>4, <1>1, <1>3
  <2>6. ASSUME NEW i \in DOMAIN e.outbox, NEW j \in DOMAIN e.outbox, i < j,
               e.outbox[i].baseline = e.outbox[j].baseline
        PROVE  /\ e.outbox[i].cursor < e.outbox[j].cursor
               /\ e.outbox[i].version < e.outbox[j].version
    <3>1. i \in 1..k /\ (j \in 1..k \/ j = k + 1)
      BY <2>3, <2>6
    <3>2. CASE j \in 1..k
      BY <2>3, <2>6, <3>1, <3>2 DEF History, HintsAreCurrent
    <3>3. CASE j = k + 1
      BY <2>1, <2>3, <2>5, <2>6, <3>1, <3>3
    <3> QED
      BY <3>1, <3>2, <3>3
  <2>7. ASSUME NEW i \in DOMAIN e.outbox
        PROVE  /\ e.outbox[i].baseline \in DOMAIN e.archiveHeads
               /\ e.outbox[i].cursor <= e.archiveHeads[e.outbox[i].baseline].cursor
               /\ e.outbox[i].version <= e.archiveHeads[e.outbox[i].baseline].version
    <3>1. i \in 1..k \/ i = k + 1
      BY <2>3
    <3>2. CASE i = k + 1
      BY <3>2, <2>1, <2>3, <1>1, <1>2
    <3>3. CASE i \in 1..k /\ d.outbox[i].baseline = b
      <4>1. e.outbox[i].baseline = b /\ e.outbox[i].cursor < n /\ e.outbox[i].version < v
        BY <3>3, <2>3, <2>5
      <4>2. e.outbox[i].cursor \in Nat /\ e.outbox[i].version \in Nat
        BY <3>3, <2>3, <2>4
      <4>3. e.archiveHeads[b].cursor = n /\ e.archiveHeads[b].version = v
        BY <1>2
      <4> QED
        BY <4>1, <4>2, <4>3, <1>1, <1>2
    <3>4. CASE i \in 1..k /\ d.outbox[i].baseline # b
      BY <3>4, <2>3, <2>4, <1>2
    <3> QED
      BY <3>1, <3>2, <3>3, <3>4
  <2> QED
    BY <2>1, <2>3, <2>6, <2>7 DEF HintsAreCurrent, event
<1> QED
  BY <1>8, <1>9, <1>10, <1>11 DEF History

\* So every outcome does.
LEMMA OutcomeHistory ==
    ASSUME NEW d, OwnerTablesOK(d), LogAgrees(d), History(d),
           NEW e, OwnerTablesOK(e), LogAgrees(e), e.ops \in Seq(Change), Outcome(d, e)
    PROVE  History(e)
BY QuietHistory, AnnouncedHistory DEF Outcome

-----------------------------------------------------------------------------
(* The open transaction. *)

\* With no field of the tables but the lineage written, the tables are known.
LEMMA NewLineageRow ==
    ASSUME NEW d, OwnerTablesOK(d), NEW lineage
    PROVE  LET e == [d EXCEPT !.lineage = lineage]
           IN /\ e.lineage = lineage
              /\ e.head = d.head /\ e.ops = d.ops /\ e.records = d.records
              /\ e.receipts = d.receipts /\ e.resolutions = d.resolutions
              /\ SameArchive(d, e)
BY DEF OwnerTablesOK, SameArchive

\* ensureLineage keeps the lineage, or begins the first one, without a day
\* that could be wrong.
LEMMA EnsureLineageEnsures ==
    ASSUME NEW d, OwnerTablesOK(d), LogAgrees(d), History(d),
           NEW b \in Baselines, NEW lineage \in EnsureLineage(d, b)
    PROVE  Ensured(d, lineage)
<1>1. d.lineage.baseline = NoBaseline => d.head = 0
  BY NoBaselineHead DEF History, LineageIsArchived
<1> QED
  BY <1>1 DEF EnsureLineage, Ensured

\* An ensured lineage that is not the old one is the first one.
LEMMA EnsuredLineage ==
    ASSUME NEW d, OwnerTablesOK(d), History(d), NEW lineage, Ensured(d, lineage)
    PROVE  /\ lineage.version = d.lineage.version
           /\ d.lineage.baseline \in {lineage.baseline, NoBaseline}
           /\ lineage.baseline \in Baselines \/ lineage = d.lineage
           /\ \/ lineage = d.lineage
              \/ d.lineage.baseline = NoBaseline /\ DOMAIN d.resolutions = {}
<1>1. CASE d.lineage.baseline # NoBaseline
  BY <1>1 DEF Ensured
<1>2. CASE d.lineage.baseline = NoBaseline
  <2>1. PICK b \in Baselines :
          lineage = [baseline |-> b, version |-> 0, day |-> CampaignStart]
    BY <1>2 DEF Ensured
  <2>2. d.lineage.version = 0
    BY <1>2, NoBaselineHead DEF History, LineageIsArchived
  <2>3. DOMAIN d.resolutions = {}
    <3> SUFFICES ASSUME NEW id \in DOMAIN d.resolutions PROVE FALSE
      OBVIOUS
    <3>1. d.resolutions[id].resultBaseline \in Baselines
      BY DEF OwnerTablesOK, IsTable, ResolutionReceipt
    <3> QED
      BY <3>1, <1>2, BaselinesAssumption DEF History, ResolutionsBelong
  <2> QED
    BY <1>2, <2>1, <2>2, <2>3
<1> QED
  BY <1>1, <1>2

\* So the resolutions of the tables belong to an ensured lineage as well.
LEMMA EnsuredResolutions ==
    ASSUME NEW d, OwnerTablesOK(d), History(d),
           NEW e, Ensured(d, e.lineage), e.resolutions = d.resolutions
    PROVE  ResolutionsBelong(e)
<1>1. CASE e.lineage = d.lineage
  BY <1>1 DEF History, ResolutionsBelong
<1>2. CASE DOMAIN d.resolutions = {}
  BY <1>2 DEF ResolutionsBelong
<1> QED
  BY <1>1, <1>2, EnsuredLineage

\* A new transaction has written nothing but, perhaps, the first lineage.
LEMMA BeginTransaction ==
    ASSUME TypeOK, LogInv, HistoryInv, NEW r \in Requests, Begin(r)
    PROVE  Transaction'
<1>1. PICK lineage \in EnsureLineage(db, r.baseline) :
        /\ work' = [db EXCEPT !.lineage = lineage]
        /\ phase' \in {"resolve", "commit", "mutations"}
  BY DEF Begin
<1>2. OwnerTablesOK(db) /\ LogAgrees(db) /\ History(db) /\ db.head \in Nat
  BY DEF TypeOK, LogInv, HistoryInv, OwnerTablesOK
<1>3. Ensured(db, lineage)
  BY <1>2, EnsureLineageEnsures, RequestShape
<1>4. /\ work'.lineage = lineage
      /\ work'.head = db.head /\ work'.ops = db.ops /\ work'.records = db.records
      /\ work'.resolutions = db.resolutions
      /\ SameArchive(db, work')
  BY <1>1, <1>2, NewLineageRow
<1>5. db' = db /\ batch'.fresh = <<>>
  BY DEF Begin, EmptyBatch
<1>6. ResolutionsBelong(work')
  BY <1>2, <1>3, <1>4, EnsuredResolutions
<1>7. Quiet(db', work') /\ work'.ops \in Seq(Change)
  BY <1>2, <1>3, <1>4, <1>5, <1>6 DEF Quiet, History
<1>8. InBatch'
  <2>1. FreshAfter(db.head)'
    BY <1>2, <1>4, <1>5 DEF FreshAfter
  <2> QED
    BY <2>1, <1>2, <1>3, <1>4, <1>5 DEF InBatch
<1> QED
  BY <1>1, <1>5, <1>7, <1>8 DEF Transaction, Outcome

\* An operation with the next cursor appends to the log.
LEMMA AppendedLog ==
    ASSUME NEW d, OwnerTablesOK(d), LogAgrees(d), d.ops \in Seq(Change),
           NEW change \in Change, change.cursor = d.head + 1
    PROVE  LET e == AppendAndUpsert(d, change)
           IN /\ e.ops \in Seq(Change)
              /\ e.head = d.head + 1
              /\ e.ops[d.head + 1] = change
              /\ \A c \in 1..d.head : e.ops[c] = d.ops[c]
              /\ e.lineage = d.lineage /\ e.resolutions = d.resolutions
              /\ SameArchive(d, e)
<1> DEFINE e == AppendAndUpsert(d, change)
           n == d.head
<1>1. n \in Nat /\ DOMAIN d.ops = 1..n
  BY DEF OwnerTablesOK, LogAgrees, LogIsContiguous
<1>2. /\ e.ops = Put(d.ops, n + 1, change)
      /\ e.head = n + 1 /\ e.lineage = d.lineage /\ e.resolutions = d.resolutions
      /\ SameArchive(d, e)
  BY DEF AppendAndUpsert, OwnerTablesOK, SameArchive
<1> HIDE DEF e, n
<1>3. \A c \in 1..n : d.ops[c] \in Change /\ c # n + 1
  BY <1>1
<1>4. DOMAIN e.ops = 1..(n + 1)
  <2>1. (1..n) \cup {n + 1} = 1..(n + 1)
    BY <1>1
  <2> QED
    BY <2>1, <1>1, <1>2 DEF Put
<1>5. /\ e.ops[n + 1] = change
      /\ \A c \in 1..n : e.ops[c] = d.ops[c]
  BY <1>1, <1>2, <1>3 DEF Put
<1>6. e.ops = [c \in 1..(n + 1) |-> e.ops[c]]
  BY <1>2, <1>4 DEF Put
<1>7. \A c \in 1..(n + 1) : e.ops[c] \in Change
  <2> SUFFICES ASSUME NEW c \in 1..(n + 1) PROVE e.ops[c] \in Change
    OBVIOUS
  <2>1. c \in 1..n \/ c = n + 1
    BY <1>1
  <2> QED
    BY <2>1, <1>3, <1>5
<1>8. e.ops \in [1..(n + 1) -> Change]
  BY <1>6, <1>7
<1>9. e.ops \in Seq(Change)
  BY <1>1, <1>8
<1> QED
  BY <1>2, <1>5, <1>9 DEF e, n

\* An append is one more fresh change after the same cursor.
LEMMA AppendedFresh ==
    ASSUME TypeOK, LogInv, NEW n \in Nat, FreshAfter(n), NEW m \in Mutation,
           ~OpIdTaken(work, m.op), work.ops \in Seq(Change),
           NEW change, change = MutationChange(m, NextCursor(work)),
           work'.head = AppendAndUpsert(work, change).head,
           work'.ops = AppendAndUpsert(work, change).ops,
           batch'.fresh = Append(batch.fresh, change)
    PROVE  /\ work'.ops \in Seq(Change)
           /\ FreshAfter(n)'
           /\ batch'.fresh # <<>>
           /\ \A c \in 1..work.head : work'.ops[c] = work.ops[c]
<1> DEFINE e == AppendAndUpsert(work, change)
           k == Len(batch.fresh)
<1>1. OwnerTablesOK(work) /\ LogAgrees(work) /\ work.head \in Nat /\ batch.fresh \in Seq(Change)
  BY DEF TypeOK, LogInv, OwnerTablesOK, BatchOK
<1>2. change \in Change /\ change.cursor = work.head + 1
  BY <1>1, AppendAgrees
<1>3. /\ e.ops \in Seq(Change)
      /\ e.head = work.head + 1
      /\ e.ops[work.head + 1] = change
      /\ \A c \in 1..work.head : e.ops[c] = work.ops[c]
  BY <1>1, <1>2, AppendedLog
<1> HIDE DEF e
<1>4. /\ n <= work.head
      /\ k = work.head - n
      /\ \A i \in 1..k : batch.fresh[i] = work.ops[n + i]
  BY DEF FreshAfter
<1>5. /\ k \in Nat /\ Len(batch'.fresh) = k + 1
      /\ batch'.fresh[k + 1] = change
      /\ \A i \in 1..k : batch'.fresh[i] = batch.fresh[i]
      /\ batch'.fresh # <<>>
  BY <1>1, <1>2
<1>6. ASSUME NEW i \in 1..(k + 1)
      PROVE  batch'.fresh[i] = work'.ops[n + i]
  <2>1. CASE i = k + 1
    <3>1. n + i = work.head + 1
      BY <2>1, <1>1, <1>4
    <3> QED
      BY <2>1, <3>1, <1>3, <1>5 DEF e
  <2>2. CASE i # k + 1
    <3>1. i \in 1..k /\ n + i \in 1..work.head
      BY <2>2, <1>1, <1>4, <1>5
    <3> QED
      BY <3>1, <1>3, <1>4, <1>5 DEF e
  <2> QED
    BY <2>1, <2>2
<1>7. n <= work'.head /\ Len(batch'.fresh) = work'.head - n
  BY <1>1, <1>3, <1>4, <1>5 DEF e
<1> QED
  BY <1>3, <1>5, <1>6, <1>7 DEF FreshAfter, e

\* A rollback leaves nothing of the transaction.
LEMMA FailTransaction ==
    ASSUME HistoryInv, NEW code, Fail(code)
    PROVE  Transaction'
BY DEF HistoryInv, History, Transaction, Fail

\* Each outcome of a mutation leaves the batch as described.
LEMMA MutationTransaction ==
    ASSUME TypeOK, LogInv, HistoryInv, ReplayMutation \/ ConflictMutation \/ ApplyMutation
    PROVE  Transaction'
<1>1. /\ Processing /\ phase = "mutations"
      /\ Current \in Mutation /\ Current.op \in OpIds
      /\ OwnerTablesOK(work) /\ LogAgrees(work) /\ work.head \in Nat /\ db.head \in Nat
  BY CurrentShape DEF ReplayMutation, ConflictMutation, ApplyMutation, TypeOK, LogInv,
                      Processing, OwnerTablesOK
<1>2. InBatch /\ work.ops \in Seq(Change)
  BY <1>1 DEF HistoryInv, Transaction
<1>3. CASE ReplayMutation
  <2>1. CASE \E code : Fail(code)
    BY <2>1, FailTransaction
  <2>2. CASE UNCHANGED <<db, work, phase>> /\ batch'.fresh = batch.fresh
    BY <2>2, <1>1, <1>2 DEF Transaction, InBatch, FreshAfter
  <2>3. BatchOK(batch)
    BY DEF TypeOK
  <2> QED
    BY <1>3, <2>1, <2>2, <2>3 DEF ReplayMutation, BatchOK
<1>4. CASE ConflictMutation
  <2>1. PICK receipt : work' = InsertReceipt(work, Current.op, receipt)
    BY <1>4 DEF ConflictMutation
  <2>2. db' = db /\ phase' = phase /\ batch'.fresh = batch.fresh
    BY <1>4 DEF ConflictMutation, TypeOK, BatchOK
  <2>3. /\ work'.head = work.head /\ work'.ops = work.ops /\ work'.records = work.records
        /\ work'.lineage = work.lineage /\ work'.resolutions = work.resolutions
        /\ work'.archive = work.archive /\ work'.archiveHeads = work.archiveHeads
        /\ work'.outbox = work.outbox
    BY <2>1, <1>1 DEF InsertReceipt, OwnerTablesOK
  <2> QED
    BY <2>2, <2>3, <1>1, <1>2 DEF Transaction, InBatch, FreshAfter, SameArchive
<1>5. CASE ApplyMutation
  <2> DEFINE change == MutationChange(Current, NextCursor(work))
             e == AppendAndUpsert(work, change)
  <2>1. PICK receipt : work' = InsertReceipt(e, Current.op, receipt)
    BY <1>5 DEF ApplyMutation
  <2>2. /\ ~OpIdTaken(work, Current.op)
        /\ db' = db /\ phase' = phase /\ batch'.fresh = Append(batch.fresh, change)
    BY <1>5 DEF ApplyMutation, TypeOK, BatchOK
  <2>3. change \in Change /\ change.cursor = work.head + 1
    BY <1>1, <2>2, AppendAgrees
  <2>4. OwnerTablesOK(e)
    BY <1>1, <2>3, AppendAndUpsertShape
  <2>5. /\ e.lineage = work.lineage /\ e.resolutions = work.resolutions
        /\ SameArchive(work, e)
    BY <1>1, <1>2, <2>3, AppendedLog
  <2>6. /\ work'.head = e.head /\ work'.ops = e.ops
        /\ work'.lineage = e.lineage /\ work'.resolutions = e.resolutions
        /\ SameArchive(e, work')
    BY <2>1, <2>4 DEF InsertReceipt, OwnerTablesOK, SameArchive
  <2>7. /\ work'.ops \in Seq(Change)
        /\ FreshAfter(db.head)'
        /\ batch'.fresh # <<>>
        /\ \A c \in 1..work.head : work'.ops[c] = work.ops[c]
    <3>1. FreshAfter(db.head)
      BY <1>2 DEF InBatch
    <3>2. FreshAfter(db.head)' <=> /\ db.head <= work'.head
                                   /\ Len(batch'.fresh) = work'.head - db.head
                                   /\ \A i \in 1..Len(batch'.fresh) :
                                        batch'.fresh[i] = work'.ops[db.head + i]
      BY <2>2 DEF FreshAfter
    <3> HIDE DEF change
    <3> QED
      BY <1>1, <1>2, <2>2, <2>6, <3>1, <3>2, AppendedFresh DEF change, FreshAfter
  <2>8. \A c \in 1..db.head : work'.ops[c] = db.ops[c]
    <3>1. db.head <= work.head
      BY <1>2 DEF InBatch, FreshAfter
    <3> QED
      BY <3>1, <2>7, <1>1, <1>2 DEF InBatch
  <2> HIDE DEF e, change
  <2> QED
    BY <2>2, <2>5, <2>6, <2>7, <2>8, <1>1, <1>2 DEF Transaction, InBatch, SameArchive
<1> QED
  BY <1>3, <1>4, <1>5

\* The baseline an import takes has no archive head.
LEMMA ResultBaselineIsNew ==
    ASSUME NEW d, NEW b \in Baselines, NEW target \in ResultBaselines(d, b)
    PROVE  target \notin DOMAIN d.archiveHeads
BY DEF ResultBaselines

\* The import clears the lineage and writes its log from the first cursor on.
LEMMA ImportTransaction ==
    ASSUME TypeOK, LogInv, HistoryInv, BeginImport \/ ImportMutation
    PROVE  Transaction'
<1>1. OwnerTablesOK(work) /\ LogAgrees(work) /\ work.head \in Nat /\ work.ops \in Seq(Change)
  BY DEF TypeOK, LogInv, OwnerTablesOK, HistoryInv, Transaction
<1>2. CASE BeginImport
  <2>1. phase = "resolve" /\ phase' = "import" /\ db' = db /\ req \in Requests
    BY <1>2 DEF BeginImport, Deciding, TypeOK
  <2>2. Quiet(db, work) /\ batch.fresh = <<>>
    BY <2>1 DEF HistoryInv, Transaction
  <2>3. PICK target \in ResultBaselines(work, req.baseline) :
          batch' = [batch EXCEPT !.target = target,
                                 !.todo = {req.muts[i] : i \in DOMAIN req.muts}]
    BY <1>2 DEF BeginImport
  <2>4. batch'.fresh = <<>> /\ batch'.target = target
    BY <2>2, <2>3 DEF TypeOK, BatchOK
  <2>5. target \notin DOMAIN db.archiveHeads
    BY <2>1, <2>2, RequestShape, ResultBaselineIsNew DEF Quiet, SameArchive
  <2>6. work' = ClearCurrentBaseline(work)
    BY <1>2 DEF BeginImport
  <2>7. /\ work'.head = 0 /\ work'.ops = Empty /\ work'.resolutions = Empty
        /\ work'.lineage = work.lineage /\ SameArchive(work, work')
    BY <2>6, <1>1 DEF ClearCurrentBaseline, OwnerTablesOK, SameArchive
  <2>8. work'.ops \in Seq(Change)
    <3>1. Empty = <<>>
      BY DEF Empty
    <3> QED
      BY <3>1, <2>7
  <2>9. FreshAfter(0)'
    BY <2>4, <2>7 DEF FreshAfter
  <2> QED
    BY <2>1, <2>2, <2>4, <2>5, <2>7, <2>8, <2>9 DEF Transaction, InImport, Quiet, SameArchive
<1>3. CASE ImportMutation
  <2>1. phase = "import" /\ phase' = phase /\ db' = db
    BY <1>3 DEF ImportMutation
  <2>2. InImport
    BY <2>1 DEF HistoryInv, Transaction
  <2>3. PICK m \in Smallest(batch.todo) :
          /\ ~OpIdTaken(work, m.op)
          /\ work' = AppendAndUpsert(work, MutationChange(m, NextCursor(work)))
          /\ batch' = [batch EXCEPT !.todo = @ \ {m},
                                    !.fresh = Append(@, MutationChange(m, NextCursor(work)))]
    BY <1>3 DEF ImportMutation
  <2> DEFINE change == MutationChange(m, NextCursor(work))
  <2>4. m \in Mutation /\ batch'.fresh = Append(batch.fresh, change)
                       /\ batch'.target = batch.target
    BY <2>3 DEF Smallest, TypeOK, BatchOK
  <2>5. change \in Change /\ change.cursor = work.head + 1
    BY <1>1, <2>3, <2>4, AppendAgrees
  <2>6. work'.lineage = work.lineage /\ work'.resolutions = work.resolutions
        /\ SameArchive(work, work')
    BY <1>1, <2>3, <2>5, AppendedLog
  <2> HIDE DEF change
  <2>7. work'.ops \in Seq(Change) /\ FreshAfter(0)'
    BY <1>1, <2>2, <2>3, <2>4, AppendedFresh DEF InImport, change
  <2> QED
    BY <2>1, <2>2, <2>4, <2>6, <2>7 DEF Transaction, InImport, SameArchive
<1> QED
  BY <1>2, <1>3

-----------------------------------------------------------------------------
(* The hand-over to the commit. *)

\* No key of the archive is taken by a change that is about to be published.
LEMMA NoCollision ==
    ASSUME NEW d, OwnerTablesOK(d), History(d), NEW b,
           \/ b \notin DOMAIN d.archiveHeads
           \/ b = d.lineage.baseline,
           NEW fresh, \A i \in DOMAIN fresh : fresh[i].cursor \in Nat,
           b = d.lineage.baseline => \A i \in DOMAIN fresh : d.head < fresh[i].cursor
    PROVE  \A i \in DOMAIN fresh : <<b, fresh[i].cursor>> \notin DOMAIN d.archive
<1> SUFFICES ASSUME NEW i \in DOMAIN fresh, <<b, fresh[i].cursor>> \in DOMAIN d.archive
             PROVE  FALSE
  OBVIOUS
<1>1. b \in DOMAIN d.archiveHeads /\ fresh[i].cursor <= d.archiveHeads[b].cursor
  BY DEF History, ArchiveReachesHeads
<1>2. b = d.lineage.baseline /\ d.archiveHeads[b].cursor = d.head
  BY <1>1 DEF History, LineageIsArchived
<1> QED
  BY <1>1, <1>2 DEF OwnerTablesOK

\* The fresh changes carry the cursors after n.
LEMMA FreshCursors ==
    ASSUME TypeOK, LogInv, NEW n \in Nat, FreshAfter(n)
    PROVE  /\ DOMAIN batch.fresh = 1..(work.head - n)
           /\ \A i \in DOMAIN batch.fresh : batch.fresh[i].cursor = n + i
           /\ \A i \in DOMAIN batch.fresh : batch.fresh[i] = work.ops[n + i]
           /\ (batch.fresh = <<>>) <=> (work.head = n)
<1>1. work.head \in Nat /\ batch.fresh \in Seq(Change)
  BY DEF TypeOK, OwnerTablesOK, BatchOK
<1>2. DOMAIN batch.fresh = 1..(work.head - n) /\ n <= work.head
  BY <1>1 DEF FreshAfter
<1>3. \A i \in DOMAIN batch.fresh : batch.fresh[i] = work.ops[n + i]
  BY <1>1, <1>2 DEF FreshAfter
<1>4. \A i \in DOMAIN batch.fresh : n + i \in 1..work.head
  BY <1>1, <1>2
<1>5. \A c \in 1..work.head : work.ops[c].cursor = c
  BY DEF LogInv, LogAgrees, LogIsContiguous
<1>6. (batch.fresh = <<>>) <=> (work.head = n)
  BY <1>1 DEF FreshAfter
<1> QED
  BY <1>2, <1>3, <1>4, <1>5, <1>6

\* Publish announces the log of e, if the fresh changes are what the archive
\* lacks of it.
LEMMA PublishAnnounces ==
    ASSUME NEW d, NEW e, OwnerTablesOK(e), SameArchive(d, e), NEW fresh,
           \A i \in DOMAIN fresh :
                fresh[i].cursor \in 1..e.head /\ fresh[i] = e.ops[fresh[i].cursor],
           \A c \in 1..e.head :
                \/ <<e.lineage.baseline, c>> \in DOMAIN d.archive
                \/ \E i \in DOMAIN fresh : fresh[i].cursor = c
    PROVE  LET p == Publish(e, fresh)
           IN /\ Announced(d, p)
              /\ p.lineage = e.lineage /\ p.head = e.head /\ p.ops = e.ops
              /\ p.records = e.records /\ p.resolutions = e.resolutions
<1> DEFINE p == Publish(e, fresh)
           b == e.lineage.baseline
           v == e.lineage.version
           new == {<<b, c>> : c \in 1..e.head} \ DOMAIN d.archive
<1>1. /\ p.lineage = e.lineage /\ p.head = e.head /\ p.ops = e.ops
      /\ p.records = e.records /\ p.resolutions = e.resolutions
      /\ p.archive = ArchiveChanges(e, fresh)
      /\ p.archiveHeads = Put(d.archiveHeads, b, [cursor |-> e.head, version |-> v])
      /\ p.outbox = Append(d.outbox, [baseline |-> b, cursor |-> e.head, version |-> v])
  BY DEF Publish, OwnerTablesOK, SameArchive, UpsertArchiveHead
<1> HIDE DEF p
<1>2. DOMAIN p.archive = DOMAIN d.archive \cup {<<b, fresh[i].cursor>> : i \in DOMAIN fresh}
  BY <1>1 DEF ArchiveChanges, SameArchive
<1>3. ASSUME NEW x \in new
      PROVE  \E i \in DOMAIN fresh : x = <<b, fresh[i].cursor>> /\ x[2] = fresh[i].cursor
  <2>1. PICK c \in 1..e.head : x = <<b, c>> /\ x \notin DOMAIN d.archive
    OBVIOUS
  <2>2. PICK i \in DOMAIN fresh : fresh[i].cursor = c
    BY <2>1
  <2> QED
    BY <2>1, <2>2
<1>4. DOMAIN p.archive = DOMAIN d.archive \cup new
  <2>1. ASSUME NEW i \in DOMAIN fresh
        PROVE  <<b, fresh[i].cursor>> \in DOMAIN d.archive \cup new
    <3>1. fresh[i].cursor \in 1..e.head
      OBVIOUS
    <3> QED
      BY <3>1
  <2> QED
    BY <2>1, <1>2, <1>3
<1>5. \A x \in DOMAIN d.archive : p.archive[x] = d.archive[x]
  BY <1>1 DEF ArchiveChanges, SameArchive
<1>6. ASSUME NEW x \in new
      PROVE  p.archive[x] = [change |-> e.ops[x[2]], version |-> v]
  <2> DEFINE i == CHOOSE i \in DOMAIN fresh : fresh[i].cursor = x[2]
  <2>1. i \in DOMAIN fresh /\ fresh[i].cursor = x[2]
    BY <1>3
  <2>2. p.archive[x] = [change |-> fresh[i], version |-> v]
    BY <1>1, <1>4 DEF ArchiveChanges, SameArchive
  <2> HIDE DEF i
  <2>3. fresh[i] = e.ops[x[2]]
    BY <2>1
  <2> QED
    BY <2>2, <2>3
<1> QED
  BY <1>1, <1>4, <1>5, <1>6 DEF Announced, p

\* A resolution that is stored belongs to the lineage it is stored with.
LEMMA StoredResolution ==
    ASSUME NEW d, OwnerTablesOK(d), ResolutionsBelong(d), NEW r
    PROVE  LET e == InsertResolution(d, r)
           IN /\ ResolutionsBelong(e)
              /\ SameArchive(d, e)
              /\ e.lineage = d.lineage /\ e.head = d.head
              /\ e.ops = d.ops /\ e.records = d.records
<1> DEFINE e == InsertResolution(d, r)
<1>1. /\ e.resolutions = Put(d.resolutions, r.id, Resolution(d, r))
      /\ SameArchive(d, e)
      /\ e.lineage = d.lineage /\ e.head = d.head
      /\ e.ops = d.ops /\ e.records = d.records
  BY DEF InsertResolution, OwnerTablesOK, SameArchive
<1> HIDE DEF e
<1>2. /\ Resolution(d, r).resultBaseline = d.lineage.baseline
      /\ Resolution(d, r).resultVersion = d.lineage.version
      /\ d.lineage.version \in Nat
  BY DEF Resolution, OwnerTablesOK, LineageOK
<1>3. ASSUME NEW id \in DOMAIN e.resolutions
      PROVE  /\ e.resolutions[id].resultBaseline = d.lineage.baseline
             /\ e.resolutions[id].resultVersion <= d.lineage.version
  <2>1. CASE id = r.id
    BY <2>1, <1>1, <1>2 DEF Put
  <2>2. CASE id # r.id
    BY <2>2, <1>1 DEF Put, ResolutionsBelong
  <2> QED
    BY <2>1, <2>2
<1> QED
  BY <1>1, <1>3 DEF ResolutionsBelong, e

\* Up to its head, the log a transaction began with is in the archive.
LEMMA OldLogIsArchived ==
    ASSUME NEW d, OwnerTablesOK(d), History(d), NEW lineage, Ensured(d, lineage)
    PROVE  \A c \in 1..d.head : <<lineage.baseline, c>> \in DOMAIN d.archive
<1>1. CASE d.lineage.baseline \in DOMAIN d.archiveHeads
  <2>1. lineage = d.lineage /\ d.archiveHeads[d.lineage.baseline].cursor = d.head
    BY <1>1, NoBaselineHead DEF Ensured, History, LineageIsArchived
  <2> QED
    BY <1>1, <2>1 DEF History, ArchiveReachesHeads
<1>2. CASE d.lineage.baseline \notin DOMAIN d.archiveHeads
  BY <1>2 DEF History, LineageIsArchived
<1> QED
  BY <1>1, <1>2

\* A batch hands over a log that grew, announced, or an unchanged one.
LEMMA BatchOutcome ==
    ASSUME TypeOK, LogInv, HistoryInv, BatchDone, ~FinalizeFails(work, batch.fresh)
    PROVE  LET d == FinalizeMutationBatch(work, batch.fresh)
           IN d.ops \in Seq(Change) /\ Outcome(db, d)
<1> DEFINE d == FinalizeMutationBatch(work, batch.fresh)
<1>1. /\ OwnerTablesOK(work) /\ OwnerTablesOK(db) /\ History(db)
      /\ work.head \in Nat /\ db.head \in Nat /\ db.lineage.version \in Nat
      /\ work.ops \in Seq(Change) /\ InBatch /\ work.lineage.baseline \in Baselines
  BY DEF TypeOK, HistoryInv, Transaction, BatchDone, OwnerTablesOK, LineageOK, InTransaction
<1>2. /\ SameArchive(db, work) /\ Ensured(db, work.lineage)
      /\ ResolutionsBelong(work) /\ FreshAfter(db.head)
  BY <1>1, EnsuredResolutions DEF InBatch
<1>3. /\ DOMAIN batch.fresh = 1..(work.head - db.head)
      /\ \A i \in DOMAIN batch.fresh :
            batch.fresh[i].cursor = db.head + i /\ batch.fresh[i] = work.ops[db.head + i]
      /\ (batch.fresh = <<>>) <=> (work.head = db.head)
      /\ db.head <= work.head
  BY <1>1, <1>2, FreshCursors DEF FreshAfter
<1>4. CASE batch.fresh = <<>>
  <2>1. d = work
    BY <1>4 DEF FinalizeMutationBatch
  <2>2. Quiet(db, work)
    BY <1>1, <1>2, <1>3, <1>4 DEF InBatch, Quiet
  <2> QED
    BY <1>1, <2>1, <2>2 DEF Outcome
<1>5. CASE batch.fresh # <<>>
  <2> DEFINE lineage == IncrementLineage(work)
             e == [work EXCEPT !.lineage = lineage]
  <2>1. /\ lineage.baseline = work.lineage.baseline
        /\ lineage.version = work.lineage.version + 1
        /\ lineage.day = DeriveProgressDay(work.records)
        /\ LineageOK(lineage)
    BY <1>1 DEF IncrementLineage, OwnerTablesOK, LineageOK
  <2>2. d = Publish(e, batch.fresh)
    BY <1>5 DEF FinalizeMutationBatch
  <2> HIDE DEF lineage
  <2>3. /\ e.lineage = lineage
        /\ e.head = work.head /\ e.ops = work.ops /\ e.records = work.records
        /\ e.resolutions = work.resolutions /\ SameArchive(work, e)
        /\ OwnerTablesOK(e)
    BY <1>1, <2>1, NewLineageRow, LineageShape
  <2> HIDE DEF e
  <2>4. SameArchive(db, e)
    BY <1>2, <2>3 DEF SameArchive
  <2>5. \A c \in 1..db.head : <<e.lineage.baseline, c>> \in DOMAIN db.archive
    BY <1>1, <1>2, <2>1, <2>3, OldLogIsArchived
  <2> HIDE DEF d
  <2>6. /\ Announced(db, d)
        /\ d.lineage = lineage /\ d.head = work.head /\ d.ops = work.ops
        /\ d.records = work.records /\ d.resolutions = work.resolutions
    <3>1. \A i \in DOMAIN batch.fresh :
              /\ batch.fresh[i].cursor \in 1..e.head
              /\ batch.fresh[i] = e.ops[batch.fresh[i].cursor]
      BY <1>1, <1>3, <2>3
    <3>2. ASSUME NEW c \in 1..e.head
          PROVE  \/ <<e.lineage.baseline, c>> \in DOMAIN db.archive
                 \/ \E i \in DOMAIN batch.fresh : batch.fresh[i].cursor = c
      <4>1. CASE c \in 1..db.head
        BY <4>1, <2>5
      <4>2. CASE c \notin 1..db.head
        <5>1. c - db.head \in DOMAIN batch.fresh /\ db.head + (c - db.head) = c
          BY <4>2, <1>1, <1>3, <2>3
        <5> QED
          BY <5>1, <1>3
      <4> QED
        BY <4>1, <4>2
    <3> QED
      BY <2>2, <2>3, <2>4, <3>1, <3>2, PublishAnnounces
  <2>7. Grown(db, d)
    <3>1. /\ work.lineage.version = db.lineage.version
          /\ db.lineage.baseline \in {work.lineage.baseline, NoBaseline}
      BY <1>1, <1>2, EnsuredLineage
    <3>2. db.head < work.head
      BY <1>1, <1>3, <1>5
    <3> QED
      BY <1>1, <2>1, <2>6, <3>1, <3>2 DEF Grown, InBatch
  <2>8. DayIsFresh(d)
    BY <1>5, <2>1, <2>6 DEF DayIsFresh, FinalizeFails
  <2>9. ResolutionsBelong(d)
    <3>1. \A id \in DOMAIN work.resolutions : work.resolutions[id].resultVersion \in Nat
      BY <1>1 DEF OwnerTablesOK, IsTable, ResolutionReceipt
    <3>2. work.lineage.version \in Nat
      BY <1>1 DEF OwnerTablesOK, LineageOK
    <3> QED
      BY <1>2, <2>1, <2>6, <3>1, <3>2 DEF ResolutionsBelong
  <2> QED
    BY <1>1, <2>1, <2>6, <2>7, <2>8, <2>9 DEF Outcome, d
<1> QED
  BY <1>4, <1>5

\* An import hands over a lineage that was never published, announced.
LEMMA ImportOutcome ==
    ASSUME TypeOK, LogInv, HistoryInv, ImportDone, ~ImportFails(work, batch.target, batch.fresh)
    PROVE  Imported.ops \in Seq(Change) /\ Outcome(db, Imported)
<1>1. /\ OwnerTablesOK(work) /\ OwnerTablesOK(db) /\ work.head \in Nat
      /\ work.ops \in Seq(Change) /\ InImport /\ batch.target \in Baselines
      /\ phase = "import" /\ req \in Requests /\ req.kind = "resolve"
  BY DEF TypeOK, HistoryInv, Transaction, ImportDone, OwnerTablesOK
<1>2. /\ DOMAIN batch.fresh = 1..work.head
      /\ \A i \in DOMAIN batch.fresh :
            batch.fresh[i].cursor = i /\ batch.fresh[i] = work.ops[i]
      /\ (batch.fresh = <<>>) <=> (work.head = 0)
  BY <1>1, FreshCursors DEF InImport
<1> DEFINE lineage == ImportedLineage(work, batch.target, batch.fresh)
           set == [work EXCEPT !.lineage = lineage]
           e == InsertResolution(set, req)
<1>3. /\ lineage.baseline = batch.target
      /\ lineage.version = IF work.head = 0 THEN 0 ELSE 1
      /\ lineage.day = DeriveProgressDay(work.records)
      /\ LineageOK(lineage)
  BY <1>1, <1>2 DEF ImportedLineage, LineageOK
<1>4. Imported = Publish(e, batch.fresh)
  BY DEF Imported
<1> HIDE DEF lineage
<1>5. /\ set.lineage = lineage
      /\ set.head = work.head /\ set.ops = work.ops /\ set.records = work.records
      /\ set.resolutions = Empty /\ SameArchive(work, set)
      /\ OwnerTablesOK(set)
  BY <1>1, <1>3, NewLineageRow, LineageShape DEF InImport
<1> HIDE DEF set
<1>6. ResolutionsBelong(set)
  BY <1>5 DEF ResolutionsBelong, Empty
<1>7. /\ e.lineage = lineage
      /\ e.head = work.head /\ e.ops = work.ops /\ e.records = work.records
      /\ ResolutionsBelong(e) /\ SameArchive(set, e)
      /\ OwnerTablesOK(e)
  BY <1>1, <1>3, <1>5, <1>6, StoredResolution, InsertResolutionShape
<1> HIDE DEF e
<1>8. SameArchive(db, e)
  BY <1>1, <1>5, <1>7 DEF SameArchive, InImport
<1>9. /\ Announced(db, Imported)
      /\ Imported.lineage = lineage /\ Imported.head = work.head /\ Imported.ops = work.ops
      /\ Imported.records = work.records /\ Imported.resolutions = e.resolutions
  <2>1. \A i \in DOMAIN batch.fresh :
            /\ batch.fresh[i].cursor \in 1..e.head
            /\ batch.fresh[i] = e.ops[batch.fresh[i].cursor]
    BY <1>1, <1>2, <1>7
  <2>2. \A c \in 1..e.head : \E i \in DOMAIN batch.fresh : batch.fresh[i].cursor = c
    BY <1>1, <1>2, <1>7
  <2> QED
    BY <1>4, <1>7, <1>8, <2>1, <2>2, PublishAnnounces
<1>10. Replaced(db, Imported)
  BY <1>1, <1>3, <1>9 DEF Replaced, InImport
<1>11. DayIsFresh(Imported)
  BY <1>3, <1>9 DEF DayIsFresh, ImportFails
<1>12. ResolutionsBelong(Imported)
  BY <1>7, <1>9 DEF ResolutionsBelong
<1> QED
  BY <1>1, <1>3, <1>9, <1>10, <1>11, <1>12 DEF Outcome

\* What reaches the commit is an outcome of the tables it began with.
LEMMA FinishTransaction ==
    ASSUME TypeOK, LogInv, HistoryInv,
           FinishExchange \/ FinishDiff \/ ResolveAgain \/ ResolveStale
             \/ ResolveUseServer \/ FinishImport
    PROVE  Transaction'
<1>1. ASSUME NEW d, d.ops \in Seq(Change), Outcome(db, d), NEW rep, Finish(d, rep)
      PROVE  Transaction'
  BY <1>1 DEF Transaction, Finish
<1>2. CASE FinishExchange \/ FinishDiff
  <2> DEFINE d == FinalizeMutationBatch(work, batch.fresh)
  <2>1. BatchDone /\ ~FinalizeFails(work, batch.fresh) /\ \E rep : Finish(d, rep)
    BY <1>2 DEF FinishExchange, FinishDiff
  <2> QED
    BY <2>1, <1>1, BatchOutcome
<1>3. ASSUME phase = "resolve"
      PROVE  Quiet(db, work) /\ work.ops \in Seq(Change) /\ OwnerTablesOK(work)
  BY <1>3 DEF HistoryInv, Transaction, TypeOK
<1>4. CASE ResolveAgain \/ ResolveStale
  <2>1. phase = "resolve" /\ \E rep : Finish(work, rep)
    BY <1>4 DEF ResolveAgain, ResolveStale, AlreadyResolved
  <2> QED
    BY <2>1, <1>1, <1>3 DEF Outcome
<1>5. CASE ResolveUseServer
  <2> DEFINE d == InsertResolution(work, req)
  <2>1. phase = "resolve" /\ \E rep : Finish(d, rep)
    BY <1>5 DEF ResolveUseServer, Deciding
  <2>2. /\ ResolutionsBelong(d) /\ SameArchive(work, d) /\ d.lineage = work.lineage
        /\ d.head = work.head /\ d.ops = work.ops /\ d.records = work.records
    BY <1>3, <2>1, StoredResolution DEF Quiet
  <2> HIDE DEF d
  <2>3. Quiet(db, d)
    BY <1>3, <2>1, <2>2 DEF Quiet, SameArchive
  <2> QED
    BY <2>1, <2>2, <2>3, <1>1, <1>3 DEF Outcome
<1>6. CASE FinishImport
  <2>1. /\ ImportDone /\ ~ImportFails(work, batch.target, batch.fresh)
        /\ Finish(Imported, ResolveReply(Imported, FALSE))
    BY <1>6 DEF FinishImport, Imported
  <2> QED
    BY <2>1, <1>1, ImportOutcome
<1> QED
  BY <1>2, <1>4, <1>5, <1>6

\* History and Transaction are preserved by every step.
LEMMA HistoryInductive == TypeOK /\ LogInv /\ HistoryInv /\ [Next]_vars => HistoryInv'
<1> SUFFICES ASSUME TypeOK, LogInv, HistoryInv, [Next]_vars PROVE HistoryInv'
  OBVIOUS
\* db is replaced by a commit only, and by an outcome.
<1>1. CASE Commit \/ CommitUnknown
  <2>1. phase = "commit" /\ phase' = "replied" /\ db' = work /\ work' = work
    BY <1>1 DEF Commit, CommitUnknown
  <2>2. Outcome(db, work) /\ work.ops \in Seq(Change)
    BY <2>1 DEF HistoryInv, Transaction
  <2>3. History(work)
    BY <2>2, OutcomeHistory DEF TypeOK, LogInv, HistoryInv
  <2> QED
    BY <2>1, <2>2, <2>3 DEF HistoryInv, Transaction
<1>2. ASSUME db' = db, Transaction' PROVE HistoryInv'
  BY <1>2 DEF HistoryInv
<1>3. CASE \E r \in Requests : Begin(r)
  BY <1>2, <1>3, BeginTransaction DEF Begin
<1>4. CASE ReplayMutation \/ ConflictMutation \/ ApplyMutation
  BY <1>2, <1>4, MutationTransaction DEF ReplayMutation, ConflictMutation, ApplyMutation, Fail
<1>5. CASE BeginImport \/ ImportMutation
  BY <1>2, <1>5, ImportTransaction DEF BeginImport, ImportMutation
<1>6. CASE FinishExchange \/ FinishDiff \/ ResolveAgain \/ ResolveStale
             \/ ResolveUseServer \/ FinishImport
  BY <1>2, <1>6, FinishTransaction
     DEF FinishExchange, FinishDiff, ResolveAgain, ResolveStale, ResolveUseServer,
         FinishImport, Finish
<1>7. CASE Rollback
  BY <1>2, <1>7, RollbackFails, FailTransaction DEF Fail
<1>8. CASE Deliver
  BY <1>8 DEF Deliver, HistoryInv, Transaction
<1>9. CASE UNCHANGED vars
  BY <1>9 DEF vars, HistoryInv, Transaction, InBatch, InImport, FreshAfter
<1> QED
  BY <1>1, <1>3, <1>4, <1>5, <1>6, <1>7, <1>8, <1>9 DEF Next, Rollback

\* A new owner has no history.
LEMMA HistoryInit == Init => HistoryInv
<1> SUFFICES ASSUME Init PROVE HistoryInv
  OBVIOUS
<1>1. /\ db.head = 0 /\ db.ops = <<>> /\ db.lineage = NoLineage /\ db.records = Empty
      /\ db.archive = Empty /\ db.archiveHeads = Empty /\ db.outbox = <<>>
      /\ db.resolutions = Empty
      /\ work = db /\ phase = "idle"
  BY DEF Init, FreshOwner, Empty
<1>2. DOMAIN Empty = {}
  BY DEF Empty
<1>3. db.lineage.version = 0 /\ db.lineage.day = CampaignStart
  BY <1>1 DEF NoLineage
<1>4. DayIsFresh(db)
  BY <1>1, <1>2, <1>3, CampaignStartAssumption
  DEF DayIsFresh, ProgressDayFails, DeriveProgressDay, DayOf, Rows
<1>5. /\ ArchiveReachesHeads(db) /\ LineageIsArchived(db) /\ VersionsAscend(db)
      /\ ResolutionsBelong(db)
  BY <1>1, <1>2, <1>3
     DEF ArchiveReachesHeads, LineageIsArchived, VersionsAscend, ResolutionsBelong
<1>6. HintsAreCurrent(db)
  BY <1>1, <1>2 DEF HintsAreCurrent
<1>7. db.ops \in Seq(Change)
  BY <1>1
<1> QED
  BY <1>1, <1>4, <1>5, <1>6, <1>7 DEF HistoryInv, Transaction, History

\* The three invariants together always hold.
LEMMA HistoryAlways == Spec => [](TypeOK /\ LogInv /\ HistoryInv)
BY HistoryInit, HistoryInductive, TypeCorrect, LogAlwaysAgrees, PTL DEF Spec

\* ArchiveChange and UpsertArchiveHead: under one baseline the versions of the
\* archive ascend with the cursors, up to the archive head.
THEOREM ArchiveIsAscending == Spec => []ArchiveVersionsAscend
<1>1. HistoryInv => ArchiveVersionsAscend
  BY DEF HistoryInv, History, VersionsAscend, ArchiveVersionsAscend
<1> QED
  BY <1>1, HistoryAlways, PTL

\* deriveProgressDay: progress_day is that of the committed records, and no
\* committed record fails it.
THEOREM ProgressDayIsFresh == Spec => []ProgressDayFresh
<1>1. HistoryInv => ProgressDayFresh
  BY DEF HistoryInv, History, DayIsFresh, ProgressDayFresh
<1> QED
  BY <1>1, HistoryAlways, PTL

\* InsertRealtimeEvent: the last event is the current head, and the events of
\* a baseline ascend.
THEOREM HintsAreAlwaysCurrent == Spec => []LastHintIsCurrent
<1>1. HistoryInv => LastHintIsCurrent
  BY DEF HistoryInv, History, HintsAreCurrent, LastHintIsCurrent
<1> QED
  BY <1>1, HistoryAlways, PTL

\* newResolutionReceipt: a stored resolution names the current lineage.
THEOREM ResolutionsAlwaysBelong == Spec => []ResolutionsBelongToLineage
<1>1. TypeOK /\ HistoryInv => ResolutionsBelongToLineage
  <2> SUFFICES ASSUME TypeOK, HistoryInv, phase # "import"
               PROVE  ResolutionsBelong(db) /\ ResolutionsBelong(work)
    BY DEF ResolutionsBelongToLineage, ResolutionsBelong
  <2>1. OwnerTablesOK(db) /\ History(db) /\ ResolutionsBelong(db)
    BY DEF TypeOK, HistoryInv, History
  <2>2. CASE phase \in {"idle", "replied"}
    BY <2>1, <2>2 DEF HistoryInv, Transaction
  <2>3. CASE phase = "mutations"
    BY <2>1, <2>3, EnsuredResolutions DEF HistoryInv, Transaction, InBatch
  <2>4. CASE phase = "resolve"
    BY <2>1, <2>4 DEF HistoryInv, Transaction, Quiet
  <2>5. CASE phase = "commit"
    BY <2>1, <2>5 DEF HistoryInv, Transaction, Outcome, Quiet
  <2> QED
    BY <2>1, <2>2, <2>3, <2>4, <2>5 DEF TypeOK
<1> QED
  BY <1>1, HistoryAlways, PTL

\* ResolveBaseline and finalizeMutationBatch: the archive never refuses a
\* change for its primary key.
THEOREM ArchiveKeysAreFree == Spec => []ArchiveNeverCollides
<1>1. TypeOK /\ LogInv /\ HistoryInv => ArchiveNeverCollides
  <2> SUFFICES ASSUME TypeOK, LogInv, HistoryInv PROVE ArchiveNeverCollides
    OBVIOUS
  <2>1. OwnerTablesOK(db) /\ History(db) /\ db.head \in Nat /\ work.head \in Nat
    BY DEF TypeOK, HistoryInv, OwnerTablesOK
  <2>2. ASSUME BatchDone
        PROVE  ~ArchiveCollides(work, work.lineage.baseline, batch.fresh)
    <3> DEFINE b == work.lineage.baseline
    <3>1. InBatch
      BY <2>2 DEF BatchDone, HistoryInv, Transaction
    <3>2. \A i \in DOMAIN batch.fresh :
            batch.fresh[i].cursor \in Nat /\ db.head < batch.fresh[i].cursor
      BY <2>1, <3>1, FreshCursors DEF InBatch
    <3>3. b \notin DOMAIN db.archiveHeads \/ b = db.lineage.baseline
      BY <2>1, <3>1, NoBaselineHead DEF InBatch, Ensured, History, LineageIsArchived
    <3>4. work.archive = db.archive
      BY <3>1 DEF InBatch, SameArchive
    <3> QED
      BY <2>1, <3>2, <3>3, <3>4, NoCollision DEF ArchiveCollides
  <2>3. ASSUME ImportDone
        PROVE  ~ArchiveCollides(work, batch.target, batch.fresh)
    <3>1. InImport
      BY <2>3 DEF ImportDone, HistoryInv, Transaction
    <3>2. \A x \in DOMAIN db.archive : x[1] # batch.target
      BY <2>1, <3>1 DEF InImport, History, ArchiveReachesHeads
    <3>3. work.archive = db.archive
      BY <3>1 DEF InImport, SameArchive
    <3>4. \A c : <<batch.target, c>> \notin DOMAIN db.archive
      BY <3>2
    <3> QED
      BY <3>3, <3>4 DEF ArchiveCollides
  <2> QED
    BY <2>2, <2>3 DEF ArchiveNeverCollides
<1> QED
  BY <1>1, HistoryAlways, PTL

-----------------------------------------------------------------------------
(* What a commit is to the devices. *)

\* db changes by a commit only, into an outcome of what it was.
LEMMA CommitsAreOutcomes ==
    TypeOK /\ LogInv /\ HistoryInv /\ [Next]_vars => db' = db \/ Outcome(db, db')
<1> SUFFICES ASSUME TypeOK, LogInv, HistoryInv, [Next]_vars, db' # db
             PROVE  Outcome(db, db')
  OBVIOUS
<1>1. CASE Commit \/ CommitUnknown
  BY <1>1 DEF Commit, CommitUnknown, HistoryInv, Transaction
<1>2. CASE Rollback
  BY <1>2, RollbackFails DEF Fail
<1>3. CASE ~(Commit \/ CommitUnknown \/ Rollback)
  <2>1. db' = db
    BY <1>3 DEF Next, vars, Rollback, Begin, ReplayMutation, ConflictMutation, ApplyMutation,
                FinishExchange, FinishDiff, ResolveAgain, ResolveStale, ResolveUseServer,
                BeginImport, ImportMutation, FinishImport, Deliver, Finish, Fail
  <2> QED
    BY <2>1
<1> QED
  BY <1>1, <1>2, <1>3

\* sync_archive_changes: no commit changes or deletes an archived row.
THEOREM ArchiveIsImmutable == Spec => ArchiveImmutable
<1>1. TypeOK /\ LogInv /\ HistoryInv /\ [Next]_vars =>
        [\A x \in DOMAIN db.archive :
            x \in DOMAIN db'.archive /\ db'.archive[x] = db.archive[x]]_db
  <2> SUFFICES ASSUME TypeOK, LogInv, HistoryInv, [Next]_vars, db' # db,
                      NEW x \in DOMAIN db.archive
               PROVE  x \in DOMAIN db'.archive /\ db'.archive[x] = db.archive[x]
    OBVIOUS
  <2>1. Outcome(db, db')
    BY CommitsAreOutcomes
  <2> QED
    BY <2>1 DEF Outcome, Quiet, SameArchive, Announced
<1> QED
  BY <1>1, HistoryAlways, PTL DEF Spec, ArchiveImmutable

\* What is published after an announced outcome is what was, and the log.
LEMMA AnnouncedIsPublished ==
    ASSUME TypeOK', LogInv', HistoryInv', Announced(db, db')
    PROVE  [x \in DOMAIN db'.archive |-> db'.archive[x].change] =
                ChangeLogOfOwner!PublishedWith(db'.lineage.baseline, db'.ops)
<1> DEFINE b == db'.lineage.baseline
           new == {<<b, c>> : c \in 1..db'.head} \ DOMAIN db.archive
           published == [x \in DOMAIN db.archive |-> db.archive[x].change]
           now == [x \in DOMAIN db'.archive |-> db'.archive[x].change]
           with == [x \in DOMAIN published \cup ({b} \X DOMAIN db'.ops) |->
                        IF x \in DOMAIN published THEN published[x] ELSE db'.ops[x[2]]]
<1>1. DOMAIN db'.ops = 1..db'.head
  BY DEF LogInv, LogAgrees, LogIsContiguous
<1>2. /\ DOMAIN db'.archive = DOMAIN db.archive \cup new
      /\ \A x \in DOMAIN db.archive : db'.archive[x] = db.archive[x]
      /\ \A x \in new : db'.archive[x] = [change |-> db'.ops[x[2]],
                                          version |-> db'.lineage.version]
  BY DEF Announced
<1>3. DOMAIN now = DOMAIN with
  <2>1. {b} \X DOMAIN db'.ops = {<<b, c>> : c \in 1..db'.head}
    BY <1>1
  <2> QED
    BY <1>2, <2>1
<1>4. ASSUME NEW x \in DOMAIN now PROVE now[x] = with[x]
  <2>1. CASE x \in DOMAIN db.archive
    BY <2>1, <1>2, <1>3, <1>4
  <2>2. CASE x \notin DOMAIN db.archive
    <3>1. x \in new
      BY <2>2, <1>2
    <3> HIDE DEF new
    <3>2. db'.archive[x] = [change |-> db'.ops[x[2]], version |-> db'.lineage.version]
      BY <3>1, <1>2
    <3>3. db'.archive[x].change = db'.ops[x[2]]
      BY <3>2
    <3> QED
      BY <2>2, <3>3, <1>3, <1>4
  <2> QED
    BY <2>1, <2>2
<1>5. now = with
  BY <1>3, <1>4
<1> QED
  BY <1>5 DEF ChangeLogOfOwner!PublishedWith

\* Every outcome is a step of ChangeLog, or nothing a device can see.
LEMMA OutcomeIsChangeLogStep ==
    ASSUME TypeOK, LogInv, HistoryInv, TypeOK', LogInv', HistoryInv', Outcome(db, db')
    PROVE  [ChangeLogOfOwner!Next]_(ChangeLogOfOwner!vars)
<1> DEFINE b == db'.lineage.baseline
           published == [x \in DOMAIN db.archive |-> db.archive[x].change]
<1>1. /\ OwnerTablesOK(db) /\ LogAgrees(db) /\ History(db) /\ OwnerTablesOK(db')
      /\ db.ops \in Seq(Change) /\ db'.ops \in Seq(Change)
      /\ DOMAIN db.ops = 1..db.head /\ DOMAIN db'.ops = 1..db'.head
      /\ db.head \in Nat /\ db'.head \in Nat
  BY DEF TypeOK, LogInv, HistoryInv, History, LogAgrees, LogIsContiguous, OwnerTablesOK
<1>2. NoBaseline \notin Baselines
  BY BaselinesAssumption
<1>3. Len(db.ops) = db.head /\ Len(db'.ops) = db'.head
  BY <1>1
<1>4. CASE Quiet(db, db')
  <2>1. db'.ops = db.ops /\ db'.archive = db.archive /\ Ensured(db, db'.lineage)
    BY <1>4 DEF Quiet, SameArchive
  <2>2. CASE db.lineage.baseline # NoBaseline
    <3>1. db'.lineage = db.lineage
      BY <2>1, <2>2 DEF Ensured
    <3> QED
      BY <2>1, <3>1 DEF ChangeLogOfOwner!vars
  <2>3. CASE db.lineage.baseline = NoBaseline
    <3>1. b \in Baselines
      <4>1. PICK c \in Baselines :
              db'.lineage = [baseline |-> c, version |-> 0, day |-> CampaignStart]
        BY <2>1, <2>3 DEF Ensured
      <4> QED
        BY <4>1
    <3>2. db.head = 0
      BY <1>1, <2>3, NoBaselineHead DEF History, LineageIsArchived
    <3>3. DOMAIN db'.ops = {}
      <4>1. DOMAIN db.ops = 1..0
        BY <1>1, <3>2
      <4> QED
        BY <2>1, <4>1
    <3>4. [x \in DOMAIN db'.archive |-> db'.archive[x].change] =
                ChangeLogOfOwner!PublishedWith(b, db'.ops)
      BY <2>1, <3>3 DEF ChangeLogOfOwner!PublishedWith
    <3>5. ChangeLogOfOwner!SwitchLineage
      BY <1>2, <2>3, <3>1, <3>3, <3>4 DEF ChangeLogOfOwner!SwitchLineage
    <3> QED
      BY <3>5 DEF ChangeLogOfOwner!Next
  <2> QED
    BY <2>2, <2>3
<1>5. CASE ~Quiet(db, db')
  <2>1. /\ Grown(db, db') \/ Replaced(db, db')
        /\ b \in Baselines /\ Announced(db, db')
    BY <1>5 DEF Outcome
  <2>2. [x \in DOMAIN db'.archive |-> db'.archive[x].change] =
                ChangeLogOfOwner!PublishedWith(b, db'.ops)
    BY <2>1, AnnouncedIsPublished
  <2>3. CASE db.lineage.baseline = b
    <3>1. db.head <= db'.head /\ \A c \in 1..db.head : db'.ops[c] = db.ops[c]
      <4>1. CASE b \in DOMAIN db.archiveHeads
        <5>1. Grown(db, db')
          BY <4>1, <2>1 DEF Replaced
        <5> QED
          BY <1>1, <5>1 DEF Grown
      <4>2. CASE b \notin DOMAIN db.archiveHeads
        BY <1>1, <2>3, <4>2 DEF History, LineageIsArchived
      <4> QED
        BY <4>1, <4>2
    <3>2. ChangeLogOfOwner!Extends(db'.ops)
      BY <1>1, <1>3, <3>1 DEF ChangeLogOfOwner!Extends
    <3> QED
      BY <1>2, <2>1, <2>2, <2>3, <3>2 DEF ChangeLogOfOwner!Next, ChangeLogOfOwner!AppendEntries
  <2>4. CASE db.lineage.baseline # b
    <3>1. \A x \in DOMAIN db.archive : x[1] # b
      BY <1>1, <2>1, <2>4, AnnouncedLineage
    <3>2. \A c : <<b, c>> \notin DOMAIN db.archive
      BY <3>1
    <3> QED
      BY <2>1, <2>2, <2>4, <3>2 DEF ChangeLogOfOwner!Next, ChangeLogOfOwner!SwitchLineage
  <2> QED
    BY <2>3, <2>4
<1> QED
  BY <1>4, <1>5

\* The commits of WithOwnerTransaction are the steps ChangeLog describes: a
\* pair of baseline and cursor is never used for two changes.
THEOREM SyncImplementsChangeLog == Spec => ImplementsChangeLog
<1>1. Init => ChangeLogOfOwner!Init
  <2> SUFFICES ASSUME Init PROVE ChangeLogOfOwner!Init
    OBVIOUS
  <2>1. /\ db.lineage = NoLineage /\ db.ops = Empty /\ db.archive = Empty
    BY DEF Init, FreshOwner
  <2>2. db.lineage.baseline = NoBaseline
    BY <2>1 DEF NoLineage
  <2> QED
    BY <2>1, <2>2 DEF Empty, ChangeLogOfOwner!Init
<1>2. /\ TypeOK /\ LogInv /\ HistoryInv /\ [Next]_vars
      /\ TypeOK' /\ LogInv' /\ HistoryInv'
      => [ChangeLogOfOwner!Next]_(ChangeLogOfOwner!vars)
  <2> SUFFICES ASSUME TypeOK, LogInv, HistoryInv, [Next]_vars, TypeOK', LogInv', HistoryInv'
               PROVE  [ChangeLogOfOwner!Next]_(ChangeLogOfOwner!vars)
    OBVIOUS
  <2>1. CASE db' = db
    BY <2>1 DEF ChangeLogOfOwner!vars
  <2>2. CASE Outcome(db, db')
    BY <2>2, OutcomeIsChangeLogStep
  <2> QED
    BY <2>1, <2>2, CommitsAreOutcomes
<1> QED
  BY <1>1, <1>2, HistoryAlways, PTL DEF Spec, ImplementsChangeLog, ChangeLogOfOwner!Spec

-----------------------------------------------------------------------------
(* The bounds of FeedLog hold of finitely many op_ids and baselines. *)

\* As many values as there are places.
LEMMA InjectiveLength ==
    ASSUME NEW n \in Nat, NEW T, IsFiniteSet(T), NEW f \in [1..n -> T],
           \A i, j \in 1..n : f[i] = f[j] => i = j
    PROVE  n <= Cardinality(T)
<1>1. f \in Injection(1..n, T)
  BY DEF Injection, IsInjective
<1>2. Cardinality(1..n) = n
  BY FS_Interval
<1> QED
  BY <1>1, <1>2, FS_Injection

\* uq_sync_operations_op: a log is no longer than there are op_ids.
LEMMA LogIsBounded ==
    ASSUME IsFiniteSet(OpIds), NEW d, OwnerTablesOK(d), LogAgrees(d)
    PROVE  d.head <= Cardinality(OpIds)
<1> DEFINE f == [c \in 1..d.head |-> d.ops[c].op]
<1>1. /\ d.head \in Nat /\ DOMAIN d.ops = 1..d.head
      /\ \A c \in 1..d.head : d.ops[c] \in Change
  BY DEF OwnerTablesOK, IsTable, LogAgrees, LogIsContiguous
<1>2. \A c \in 1..d.head : d.ops[c].op \in OpIds
  BY <1>1 DEF Change
<1>3. f \in [1..d.head -> OpIds]
  BY <1>2
<1>4. \A i, j \in 1..d.head : f[i] = f[j] => i = j
  BY <1>1 DEF LogAgrees, OpIdsAreUnique
<1> HIDE DEF f
<1> QED
  BY <1>1, <1>3, <1>4, InjectiveLength

\* An archive head is the head a log had.
HeadsBounded(d) ==
    \A b \in DOMAIN d.archiveHeads : d.archiveHeads[b].cursor <= Cardinality(OpIds)

LEMMA HeadsStayBounded ==
    ASSUME IsFiniteSet(OpIds), NEW d, HeadsBounded(d),
           NEW e, OwnerTablesOK(e), LogAgrees(e), Outcome(d, e)
    PROVE  HeadsBounded(e)
<1>1. CASE Quiet(d, e)
  BY <1>1 DEF Quiet, SameArchive, HeadsBounded
<1>2. CASE Announced(d, e)
  <2>1. e.head <= Cardinality(OpIds)
    BY LogIsBounded
  <2>2. ASSUME NEW b \in DOMAIN e.archiveHeads
        PROVE  e.archiveHeads[b].cursor <= Cardinality(OpIds)
    <3>1. CASE b = e.lineage.baseline
      BY <1>2, <2>1, <3>1 DEF Announced, Put
    <3>2. CASE b # e.lineage.baseline
      BY <1>2, <3>2 DEF Announced, Put, HeadsBounded
    <3> QED
      BY <3>1, <3>2
  <2> QED
    BY <2>2 DEF HeadsBounded
<1> QED
  BY <1>1, <1>2 DEF Outcome

\* The events of a baseline have distinct cursors: no more events than there
\* are baselines with a cursor.
LEMMA OutboxIsBounded ==
    ASSUME IsFiniteSet(OpIds), IsFiniteSet(Baselines),
           NEW d, OwnerTablesOK(d), HintsAreCurrent(d), HeadsBounded(d)
    PROVE  Len(d.outbox) <= Cardinality(OpIds) * Cardinality(Baselines) + Cardinality(Baselines)
<1> DEFINE n == Len(d.outbox)
           o == Cardinality(OpIds)
           T == Baselines \X (0..o)
           f == [i \in 1..n |-> <<d.outbox[i].baseline, d.outbox[i].cursor>>]
<1>1. o \in Nat /\ Cardinality(Baselines) \in Nat
  BY FS_CardinalityType
<1>2. n \in Nat /\ DOMAIN d.outbox = 1..n /\ \A i \in 1..n : d.outbox[i] \in Event
  BY DEF OwnerTablesOK
<1>3. ASSUME NEW i \in 1..n
      PROVE  d.outbox[i].baseline \in Baselines /\ d.outbox[i].cursor \in 0..o
  <2>1. d.outbox[i].baseline \in Baselines /\ d.outbox[i].cursor \in Nat
    BY <1>2 DEF Event
  <2>2. /\ d.outbox[i].baseline \in DOMAIN d.archiveHeads
        /\ d.outbox[i].cursor <= d.archiveHeads[d.outbox[i].baseline].cursor
    BY <1>2 DEF HintsAreCurrent
  <2>3. d.archiveHeads[d.outbox[i].baseline].cursor \in Nat
    BY <2>2 DEF OwnerTablesOK, IsTable
  <2> QED
    BY <1>1, <2>1, <2>2, <2>3 DEF HeadsBounded
<1>4. f \in [1..n -> T]
  BY <1>3
<1>5. ASSUME NEW i \in 1..n, NEW j \in 1..n, f[i] = f[j]
      PROVE  i = j
  <2>1. d.outbox[i].baseline = d.outbox[j].baseline /\ d.outbox[i].cursor = d.outbox[j].cursor
    BY <1>5
  <2>2. ~(i < j) /\ ~(j < i)
    BY <1>2, <1>3, <2>1 DEF HintsAreCurrent
  <2> QED
    BY <1>2, <2>2
<1>6. IsFiniteSet(0..o) /\ Cardinality(0..o) = o + 1
  BY <1>1, FS_Interval
<1>7. IsFiniteSet(T) /\ Cardinality(T) = Cardinality(Baselines) * (o + 1)
  BY <1>6, FS_Product
<1> HIDE DEF f, T
<1>8. n <= Cardinality(T)
  BY <1>2, <1>4, <1>5, <1>7, InjectiveLength
<1> HIDE DEF n, o
<1>9. ASSUME NEW x \in Nat, NEW y \in Nat PROVE x * (y + 1) = y * x + x
  OBVIOUS
<1> QED
  BY <1>1, <1>7, <1>8, <1>9 DEF n, o

\* tip of FeedLog: the archive head of every baseline, 0 without one.
Tip(d) == [b \in Baselines |->
            IF b \in DOMAIN d.archiveHeads THEN d.archiveHeads[b].cursor ELSE 0]

\* Every outcome is a step of FeedLog within its bounds, or leaves no row.
LEMMA OutcomeIsFeedStep ==
    ASSUME IsFiniteSet(OpIds), IsFiniteSet(Baselines),
           TypeOK, LogInv, HistoryInv,
           TypeOK', LogInv', HistoryInv', HeadsBounded(db'), Outcome(db, db')
    PROVE  [FeedLogOfOwner!FeedNext]_(FeedLogOfOwner!feedVars)
<1> DEFINE b == db'.lineage.baseline
           o == Cardinality(OpIds)
<1>1. /\ OwnerTablesOK(db) /\ LogAgrees(db) /\ History(db)
      /\ OwnerTablesOK(db') /\ LogAgrees(db') /\ History(db')
      /\ db.head \in Nat /\ db'.head \in Nat
      /\ db.outbox \in Seq(Event)
  BY DEF TypeOK, LogInv, HistoryInv, OwnerTablesOK
<1>2. o \in Nat /\ db'.head <= o
  BY <1>1, FS_CardinalityType, LogIsBounded
<1>3. CASE Quiet(db, db')
  <2>1. /\ db'.outbox = db.outbox /\ db'.archiveHeads = db.archiveHeads
        /\ Ensured(db, db'.lineage)
    BY <1>3 DEF Quiet, SameArchive
  <2>2. CASE db.lineage.baseline # NoBaseline
    <3>1. db'.lineage = db.lineage
      BY <2>1, <2>2 DEF Ensured
    <3> QED
      BY <2>1, <3>1 DEF FeedLogOfOwner!feedVars
  <2>3. CASE db.lineage.baseline = NoBaseline
    <3>1. b \in Baselines
      <4>1. PICK c \in Baselines :
              db'.lineage = [baseline |-> c, version |-> 0, day |-> CampaignStart]
        BY <2>1, <2>3 DEF Ensured
      <4> QED
        BY <4>1
    <3>2. FeedLogOfOwner!StartLineage(b)
      BY <2>1, <2>3 DEF FeedLogOfOwner!StartLineage
    <3> QED
      BY <3>1, <3>2 DEF FeedLogOfOwner!FeedNext
  <2> QED
    BY <2>2, <2>3
<1>4. CASE ~Quiet(db, db')
  <2>1. /\ Grown(db, db') \/ Replaced(db, db')
        /\ b \in Baselines /\ Announced(db, db')
    BY <1>4 DEF Outcome
  <2>2. Len(db'.outbox) = Len(db.outbox) + 1
    BY <1>1, <2>1 DEF Announced
  <2>3. Len(db.outbox) < o * Cardinality(Baselines) + Cardinality(Baselines)
    <3>1. Len(db'.outbox) <= o * Cardinality(Baselines) + Cardinality(Baselines)
      BY <1>1, OutboxIsBounded DEF History
    <3>2. o * Cardinality(Baselines) + Cardinality(Baselines) \in Nat
      BY <1>2, FS_CardinalityType
    <3>3. Len(db.outbox) \in Nat
      BY <1>1
    <3> QED
      BY <2>2, <3>1, <3>2, <3>3
  <2>4. /\ DOMAIN db'.archiveHeads = DOMAIN db.archiveHeads \cup {b}
        /\ db'.archiveHeads[b].cursor = db'.head
        /\ \A c \in DOMAIN db.archiveHeads :
              c # b => db'.archiveHeads[c] = db.archiveHeads[c]
    BY <2>1 DEF Announced, Put
  <2>5. Tip(db') = [Tip(db) EXCEPT ![b] = db'.head]
    BY <2>1, <2>4 DEF Tip
  <2>6. CASE b \in DOMAIN db.archiveHeads
    <3>1. /\ db.lineage.baseline = b
          /\ db.archiveHeads[b] = [cursor |-> db.head, version |-> db.lineage.version]
          /\ db.head < db'.head
      BY <1>1, <2>1, <2>6, AnnouncedLineage
    <3>2. Tip(db)[b] = db.head
      BY <2>1, <2>6, <3>1 DEF Tip
    <3>3. PICK c \in Baselines, n \in 1..o : c = b /\ n = db'.head - db.head
      BY <1>1, <1>2, <2>1, <3>1
    <3>4. Tip(db)[c] + n = db'.head
      BY <1>1, <3>2, <3>3
    <3>5. FeedLogOfOwner!CommitBatch(c, n)
      BY <1>2, <2>2, <2>3, <2>4, <2>5, <3>1, <3>3, <3>4 DEF FeedLogOfOwner!CommitBatch, Tip
    <3> QED
      BY <3>3, <3>5 DEF FeedLogOfOwner!FeedNext
  <2>7. CASE b \notin DOMAIN db.archiveHeads
    <3>1. PICK c \in Baselines, n \in 0..o : c = b /\ n = db'.head
      BY <1>1, <1>2, <2>1
    <3>2. FeedLogOfOwner!CommitImport(c, n)
      BY <1>2, <2>2, <2>3, <2>4, <2>5, <2>7, <3>1 DEF FeedLogOfOwner!CommitImport, Tip
    <3> QED
      BY <3>1, <3>2 DEF FeedLogOfOwner!FeedNext
  <2> QED
    BY <2>6, <2>7
<1> QED
  BY <1>3, <1>4

\* insertRealtimeEvent and UpsertArchiveHead: with finitely many op_ids and
\* baselines, what the publisher and the streams read of the tables changes
\* as FeedLog says.
THEOREM SyncImplementsFeedLog ==
    ASSUME IsFiniteSet(OpIds), IsFiniteSet(Baselines)
    PROVE  Spec => ImplementsFeedLog
<1>1. Init => HeadsBounded(db) /\ FeedLogOfOwner!FeedInit
  <2> SUFFICES ASSUME Init PROVE HeadsBounded(db) /\ FeedLogOfOwner!FeedInit
    OBVIOUS
  <2>1. db.lineage = NoLineage /\ db.archiveHeads = Empty /\ db.outbox = <<>>
    BY DEF Init, FreshOwner
  <2>2. db.lineage.baseline = NoBaseline /\ DOMAIN db.archiveHeads = {} /\ Len(db.outbox) = 0
    BY <2>1 DEF NoLineage, Empty
  <2> QED
    BY <2>2 DEF HeadsBounded, FeedLogOfOwner!FeedInit
<1>2. /\ TypeOK /\ LogInv /\ HistoryInv /\ [Next]_vars
      /\ TypeOK' /\ LogInv' /\ HistoryInv' /\ HeadsBounded(db)
      => HeadsBounded(db)' /\ [FeedLogOfOwner!FeedNext]_(FeedLogOfOwner!feedVars)
  <2> SUFFICES ASSUME TypeOK, LogInv, HistoryInv, [Next]_vars,
                      TypeOK', LogInv', HistoryInv', HeadsBounded(db)
               PROVE  HeadsBounded(db') /\ [FeedLogOfOwner!FeedNext]_(FeedLogOfOwner!feedVars)
    OBVIOUS
  <2>1. CASE db' = db
    BY <2>1 DEF FeedLogOfOwner!feedVars
  <2>2. CASE Outcome(db, db')
    <3>1. HeadsBounded(db')
      BY <2>2, HeadsStayBounded DEF TypeOK, LogInv
    <3> QED
      BY <2>2, <3>1, OutcomeIsFeedStep
  <2> QED
    BY <2>1, <2>2, CommitsAreOutcomes
<1> QED
  BY <1>1, <1>2, HistoryAlways, PTL DEF Spec, ImplementsFeedLog, FeedLogOfOwner!FeedSpec

-----------------------------------------------------------------------------
(* The answers. *)

\* The acks of a batch and their canonical Changes are what d holds.
AcksAgree(d, acks, canonical) ==
    /\ Len(canonical) = Len(acks)
    /\ \A i \in 1..Len(acks) :
        /\ acks[i].op \in DOMAIN d.receipts
        /\ acks[i].cursor \in DOMAIN d.ops
        /\ d.ops[acks[i].cursor] = canonical[i]
        /\ canonical[i].cursor = acks[i].cursor
        /\ acks[i].applied => canonical[i].op = acks[i].op
        /\ acks[i].conflict <=> ~acks[i].applied

\* The acks answer the first mutations, in their order.
AcksFollow(muts, acks) ==
    /\ Len(acks) <= Len(muts)
    /\ \A i \in 1..Len(acks) : acks[i].op = muts[i].op

\* Every Change that is sent out of order is that of a conflict.
ForcedAgree(forced, acks) ==
    \A j \in 1..Len(forced) : \E i \in 1..Len(acks) :
        acks[i].conflict /\ acks[i].cursor = forced[j].cursor

\* Where the answer to a batch stands.
BatchAnswered ==
    /\ batch.next = Len(batch.acks) + 1
    /\ AcksFollow(req.muts, batch.acks)
    /\ AcksAgree(work, batch.acks, batch.canonical)
    /\ ForcedAgree(batch.forced, batch.acks)

DiffAnswer ==
    /\ Len(reply.acks) = Len(req.muts)
    /\ AcksFollow(req.muts, reply.acks)
    /\ AcksAgree(work, reply.acks, reply.canonical)

\* ExchangePageComplete, of the tables that are committed with the answer.
ExchangeAnswer ==
    /\ \A c \in DOMAIN work.ops :
        req.cursor < c /\ c <= reply.next => work.ops[c] \in reply.changes
    /\ ~reply.reset => (reply.hasMore <=> reply.next < work.head)
    /\ reply.reset <=> req.cursor > work.head
    /\ reply.hasMore => reply.next > req.cursor
    /\ \A change \in reply.changes :
        \/ change.cursor \in (req.cursor + 1)..reply.next
        \/ \E i \in DOMAIN reply.acks :
            reply.acks[i].conflict /\ reply.acks[i].cursor = change.cursor

AnswerInv ==
    /\ phase = "mutations" => BatchAnswered
    /\ phase \in {"commit", "replied"} /\ reply.status = "ok" =>
        /\ req.kind = "diff" => DiffAnswer
        /\ req.kind = "exchange" => ExchangeAnswer

\* Where a page of up to n operations after cursor k ends.
PageEnd(d, k, n) ==
    IF d.head <= k THEN k ELSE IF d.head <= k + n THEN d.head ELSE k + n

LEMMA PageEndType ==
    ASSUME NEW d, d.head \in Nat, NEW k \in Nat, NEW n \in Nat
    PROVE  /\ PageEnd(d, k, n) \in Nat /\ k <= PageEnd(d, k, n)
           /\ PageEnd(d, k, n) <= d.head \/ PageEnd(d, k, n) = k
BY DEF PageEnd

\* The number of operations of a contiguous log in a range of cursors.
LEMMA RangeCardinality ==
    ASSUME NEW a \in Nat, NEW m \in Nat, a <= m
    PROVE  Cardinality((a + 1)..m) = m - a
<1>1. Cardinality((a + 1)..m) = IF a + 1 > m THEN 0 ELSE m - (a + 1) + 1
  BY FS_Interval
<1> QED
  BY <1>1

\* LIMIT: the operations after cursor k, up to n of them.
LEMMA PullIsRange ==
    ASSUME NEW d, LogAgrees(d), d.head \in Nat, NEW k \in Nat, NEW n \in Nat
    PROVE  PullOperations(d, k, n) = {d.ops[c] : c \in (k + 1)..PageEnd(d, k, n)}
<1> DEFINE m == PageEnd(d, k, n)
<1>1. DOMAIN d.ops = 1..d.head
  BY DEF LogAgrees, LogIsContiguous
<1>2. ASSUME NEW x \in 1..d.head, x > k
      PROVE  Cardinality({y \in DOMAIN d.ops : k < y /\ y < x}) = x - 1 - k
  <2>1. {y \in DOMAIN d.ops : k < y /\ y < x} = (k + 1)..(x - 1)
    BY <1>1, <1>2
  <2>2. x - 1 \in Nat /\ k <= x - 1
    BY <1>2
  <2> QED
    BY <2>1, <2>2, RangeCardinality
<1>3. {x \in DOMAIN d.ops : x > k /\ Cardinality({y \in DOMAIN d.ops : k < y /\ y < x}) < n}
        = (k + 1)..m
  <2>1. ASSUME NEW x \in 1..d.head, x > k
        PROVE  Cardinality({y \in DOMAIN d.ops : k < y /\ y < x}) < n <=> x \in (k + 1)..m
    BY <1>2, <2>1 DEF PageEnd
  <2>2. ASSUME NEW x \in (k + 1)..m
        PROVE  x \in 1..d.head /\ x > k
    BY DEF PageEnd
  <2> QED
    BY <1>1, <2>1, <2>2
<1> QED
  BY <1>3 DEF PullOperations

\* Every operation is one Change.
LEMMA PageCardinality ==
    ASSUME NEW d, LogAgrees(d), d.head \in Nat, NEW k \in Nat, NEW n \in Nat
    PROVE  Cardinality(PullOperations(d, k, n)) = PageEnd(d, k, n) - k
<1> DEFINE m == PageEnd(d, k, n)
           S == (k + 1)..m
           T == PullOperations(d, k, n)
           f == [c \in S |-> d.ops[c]]
<1>1. m \in Nat /\ k <= m /\ (m <= d.head \/ m = k)
  BY PageEndType
<1> HIDE DEF m
<1>2. T = {d.ops[c] : c \in S}
  BY PullIsRange DEF m
<1>3. \A c \in S : d.ops[c].cursor = c
  BY <1>1 DEF LogAgrees, LogIsContiguous
<1>4. f \in [S -> T] /\ (\A x, y \in S : f[x] = f[y] => x = y) /\ \A t \in T : \E x \in S : f[x] = t
  BY <1>2, <1>3
<1>5. IsFiniteSet(S)
  BY <1>1, FS_Interval
<1>6. Cardinality(S) = m - k
  BY <1>1, RangeCardinality
<1> HIDE DEF S, T, f
<1>7. f \in Bijection(S, T)
  BY <1>4 DEF Bijection, Injection, Surjection, IsInjective
<1>8. ExistsBijection(S, T)
  BY <1>7 DEF ExistsBijection
<1> QED
  BY <1>5, <1>6, <1>8, FS_Bijection DEF T, m

\* Service.pull: the cursor of the last operation of the page, or the
\* client's.
LEMMA PageNext ==
    ASSUME NEW d, LogAgrees(d), d.head \in Nat, NEW k \in Nat, NEW n \in Nat
    PROVE  MaxCursor(PullOperations(d, k, n), k) = PageEnd(d, k, n)
<1> DEFINE m == PageEnd(d, k, n)
           S == (k + 1)..m
           T == PullOperations(d, k, n)
<1>1. m \in Nat /\ k <= m /\ (m <= d.head \/ m = k)
  BY PageEndType
<1> HIDE DEF m
<1>2. T = {d.ops[c] : c \in S}
  BY PullIsRange DEF m
<1> HIDE DEF T
<1>3. \A c \in (k + 1)..m : d.ops[c].cursor = c
  BY <1>1 DEF LogAgrees, LogIsContiguous
<1>4. CASE m = k
  <2>1. T = {}
    BY <1>2, <1>4
  <2> QED
    BY <1>4, <2>1 DEF MaxCursor, T, m
<1>5. CASE m # k
  <2>1. m \in (k + 1)..m
    BY <1>1, <1>5
  <2>2. d.ops[m] \in T /\ d.ops[m].cursor = m
    BY <1>2, <1>3, <2>1
  <2>3. \A x \in T : x.cursor \in (k + 1)..m
    BY <1>2, <1>3
  <2>4. \A c \in {x.cursor : x \in T} : (\A x \in T : x.cursor <= c) <=> c = m
    BY <1>1, <2>2, <2>3
  <2>5. m \in {x.cursor : x \in T} /\ T # {}
    BY <2>2
  <2>6. (CHOOSE c \in {x.cursor : x \in T} : \A x \in T : x.cursor <= c) = m
    BY <2>4, <2>5
  <2> QED
    BY <2>5, <2>6 DEF MaxCursor, T, m
<1> QED
  BY <1>4, <1>5

\* A finished batch has answered every mutation.
LEMMA FinishedBatch ==
    ASSUME TypeOK, AnswerInv, BatchDone
    PROVE  BatchAnswered /\ Len(batch.acks) = Len(req.muts)
<1>1. BatchAnswered
  BY DEF AnswerInv, BatchDone
<1>2. req.muts \in Seq(Mutation) /\ batch.acks \in Seq(MutationAck)
  BY RequestShape DEF TypeOK, BatchDone, BatchOK
<1>3. DOMAIN req.muts = 1..Len(req.muts) /\ Len(req.muts) \in Nat /\ Len(batch.acks) \in Nat
  BY <1>2
<1> QED
  BY <1>1, <1>3 DEF BatchAnswered, AcksFollow, BatchDone

\* The end of a batch moves neither the log nor the receipts.
LEMMA FinalizeKeepsRows ==
    ASSUME NEW d, OwnerTablesOK(d), NEW fresh
    PROVE  LET e == FinalizeMutationBatch(d, fresh)
           IN e.head = d.head /\ e.ops = d.ops /\ e.receipts = d.receipts
<1>1. CASE fresh = <<>>
  BY <1>1 DEF FinalizeMutationBatch
<1>2. CASE fresh # <<>>
  <2> DEFINE e == [d EXCEPT !.lineage = IncrementLineage(d)]
  <2>1. LineageOK(IncrementLineage(d))
    BY DEF OwnerTablesOK, LineageOK, IncrementLineage
  <2>2. /\ OwnerTablesOK(e)
        /\ e.head = d.head /\ e.ops = d.ops /\ e.records = d.records /\ e.receipts = d.receipts
    BY <2>1, LineageKeepsLog
  <2>3. FinalizeMutationBatch(d, fresh) = Publish(e, fresh)
    BY <1>2 DEF FinalizeMutationBatch
  <2> HIDE DEF e
  <2> QED
    BY <2>2, <2>3, PublishKeepsLog
<1> QED
  BY <1>1, <1>2

\* The Diff response repeats the acks and Changes of its batch.
LEMMA DiffAnswers ==
    ASSUME TypeOK, LogInv, AnswerInv, FinishDiff
    PROVE  DiffAnswer'
<1> DEFINE d == FinalizeMutationBatch(work, batch.fresh)
<1>1. BatchDone /\ Finish(d, DiffReply(d, batch)) /\ OwnerTablesOK(work)
  BY DEF FinishDiff, TypeOK
<1>2. BatchAnswered /\ Len(batch.acks) = Len(req.muts)
  BY <1>1, FinishedBatch
<1>3. d.ops = work.ops /\ d.receipts = work.receipts
  BY <1>1, FinalizeKeepsRows
<1> HIDE DEF d
<1>4. /\ work' = d /\ req' = req
      /\ reply'.acks = batch.acks /\ reply'.canonical = batch.canonical
  BY <1>1 DEF Finish, DiffReply, LineageReply, NoReply
<1> QED
  BY <1>2, <1>3, <1>4 DEF DiffAnswer, BatchAnswered, AcksAgree

\* The Exchange response is the page after the client's cursor, with the
\* records its lost mutations have met.
LEMMA ExchangeAnswers ==
    ASSUME TypeOK, LogInv, AnswerInv, FinishExchange
    PROVE  ExchangeAnswer'
<1> DEFINE d == FinalizeMutationBatch(work, batch.fresh)
           page == Page(d, req)
           forced == {batch.forced[i] : i \in DOMAIN batch.forced}
<1>1. /\ BatchDone /\ Finish(d, ExchangeReply(d, req, batch))
      /\ OwnerTablesOK(work) /\ LogAgrees(work) /\ req \in Requests /\ req.kind = "exchange"
  BY DEF FinishExchange, TypeOK, LogInv, BatchDone
<1>2. BatchAnswered
  BY <1>1, FinishedBatch
<1>3. d.head = work.head /\ d.ops = work.ops
  BY <1>1, FinalizeKeepsRows
<1>4. OwnerTablesOK(d) /\ LogAgrees(d) /\ d.head \in Nat
  <2>1. OwnerTablesOK(d)
    BY <1>1, FinalizeShape DEF TypeOK, BatchDone, BatchOK, InTransaction
  <2> QED
    BY <2>1, <1>1, FinalizeKeepsLog DEF OwnerTablesOK
<1>5. req.cursor \in Nat /\ req.limit \in Nat \ {0}
  BY <1>1, RequestsAssumption DEF ExchangeRequest, DiffRequest, ResolveRequest
<1> HIDE DEF d
<1>6. /\ work' = d /\ req' = req
      /\ reply'.acks = batch.acks
      /\ reply'.changes = page \cup forced
      /\ reply'.next = MaxCursor(page, req.cursor)
      /\ reply'.hasMore <=>
            Cardinality(PullOperations(d, req.cursor, req.limit + 1)) > req.limit
      /\ reply'.reset <=> req.cursor > d.head
  BY <1>1 DEF Finish, ExchangeReply, LineageReply, NoReply
<1> DEFINE next == PageEnd(d, req.cursor, req.limit)
<1>7. /\ next \in Nat /\ req.cursor <= next
      /\ next <= d.head \/ next = req.cursor
      /\ page = {d.ops[c] : c \in (req.cursor + 1)..next}
      /\ req.cursor <= d.head => (reply'.hasMore <=> next < d.head)
      /\ reply'.hasMore => next > req.cursor
      /\ reply'.next = next
  <2>1. page = {d.ops[c] : c \in (req.cursor + 1)..next}
    BY <1>4, <1>5, PullIsRange DEF Page
  <2>2. reply'.next = next
    BY <1>4, <1>5, <1>6, PageNext DEF Page
  <2>3. Cardinality(PullOperations(d, req.cursor, req.limit + 1)) =
            PageEnd(d, req.cursor, req.limit + 1) - req.cursor
    <3>1. req.limit + 1 \in Nat
      BY <1>5
    <3> QED
      BY <3>1, <1>4, <1>5, PageCardinality
  <2> HIDE DEF page
  <2> DEFINE after == PageEnd(d, req.cursor, req.limit + 1)
  <2>4. reply'.hasMore <=> after - req.cursor > req.limit
    BY <1>6, <2>3
  <2>5. /\ next \in Nat /\ req.cursor <= next
        /\ next <= d.head \/ next = req.cursor
        /\ req.cursor <= d.head => next <= d.head
        /\ after - req.cursor > req.limit => next < d.head /\ next > req.cursor
        /\ next < d.head => after - req.cursor > req.limit \/ d.head <= req.cursor
    BY <1>4, <1>5 DEF PageEnd
  <2> HIDE DEF next, after
  <2>6. /\ req.cursor <= d.head => (reply'.hasMore <=> next < d.head)
        /\ reply'.hasMore => next > req.cursor
    BY <1>4, <1>5, <2>4, <2>5
  <2> QED
    BY <2>1, <2>2, <2>5, <2>6
<1>8. ASSUME NEW change \in forced
      PROVE  \E i \in DOMAIN batch.acks :
                batch.acks[i].conflict /\ batch.acks[i].cursor = change.cursor
  <2>1. batch.forced \in Seq(Change) /\ batch.acks \in Seq(MutationAck)
    BY DEF TypeOK, BatchOK
  <2> QED
    BY <2>1, <1>2 DEF BatchAnswered, ForcedAgree
<1>9. ASSUME NEW change \in page
      PROVE  change.cursor \in (req.cursor + 1)..next
  <2>1. PICK c \in (req.cursor + 1)..next : change = d.ops[c]
    BY <1>7
  <2>2. d.ops[c].cursor = c
    BY <1>4, <1>5, <1>7 DEF LogAgrees, LogIsContiguous
  <2> QED
    BY <2>1, <2>2
<1>10. ASSUME NEW c \in DOMAIN d.ops, req.cursor < c, c <= next
       PROVE  d.ops[c] \in page
  <2>1. c \in (req.cursor + 1)..next
    BY <1>4, <1>5, <1>7, <1>10 DEF LogAgrees, LogIsContiguous
  <2> QED
    BY <2>1, <1>7
<1> HIDE DEF page, forced, next
<1>11. /\ \A c \in DOMAIN work'.ops :
            req'.cursor < c /\ c <= reply'.next => work'.ops[c] \in reply'.changes
       /\ \A change \in reply'.changes :
            \/ change.cursor \in (req'.cursor + 1)..reply'.next
            \/ \E i \in DOMAIN reply'.acks :
                reply'.acks[i].conflict /\ reply'.acks[i].cursor = change.cursor
  BY <1>6, <1>7, <1>8, <1>9, <1>10
<1>12. /\ ~reply'.reset => (reply'.hasMore <=> reply'.next < work'.head)
       /\ reply'.reset <=> req'.cursor > work'.head
       /\ reply'.hasMore => reply'.next > req'.cursor
  BY <1>4, <1>5, <1>6, <1>7
<1> QED
  BY <1>11, <1>12 DEF ExchangeAnswer

\* One more mutation is answered; what the earlier acks say stays true while
\* the log and the receipts only grow.
LEMMA OneMoreAck ==
    ASSUME TypeOK, BatchAnswered, Processing, req' = req,
           DOMAIN work.receipts \subseteq DOMAIN work'.receipts,
           \A c \in DOMAIN work.ops : c \in DOMAIN work'.ops /\ work'.ops[c] = work.ops[c],
           NEW ack \in MutationAck, NEW change \in Change,
           ack.op = Current.op, ack.op \in DOMAIN work'.receipts,
           ack.cursor \in DOMAIN work'.ops, work'.ops[ack.cursor] = change,
           change.cursor = ack.cursor, ack.applied => change.op = ack.op,
           ack.conflict <=> ~ack.applied,
           batch'.next = batch.next + 1,
           batch'.acks = Append(batch.acks, ack),
           batch'.canonical = Append(batch.canonical, change),
           \/ batch'.forced = batch.forced
           \/ ack.conflict /\ batch'.forced = Append(batch.forced, change)
    PROVE  BatchAnswered'
<1> DEFINE n == Len(batch.acks)
<1>1. /\ batch.acks \in Seq(MutationAck) /\ batch.canonical \in Seq(Change)
      /\ batch.forced \in Seq(Change) /\ req.muts \in Seq(Mutation)
  BY RequestShape DEF TypeOK, BatchOK, Processing
<1>2. /\ n \in Nat /\ batch.next = n + 1 /\ n <= Len(req.muts)
      /\ Len(batch.canonical) = n
      /\ n + 1 \in 1..Len(req.muts)
      /\ Current = req.muts[n + 1]
  BY <1>1 DEF BatchAnswered, AcksFollow, AcksAgree, Processing, Current
<1>3. /\ Len(batch'.acks) = n + 1 /\ Len(batch'.canonical) = n + 1
      /\ batch'.acks[n + 1] = ack /\ batch'.canonical[n + 1] = change
      /\ \A i \in 1..n : batch'.acks[i] = batch.acks[i]
      /\ \A i \in 1..n : batch'.canonical[i] = batch.canonical[i]
  BY <1>1, <1>2
<1>4. 1..(n + 1) = 1..n \cup {n + 1}
  BY <1>2
<1> HIDE DEF n
<1>5. Len(batch'.acks) <= Len(req.muts) /\ \A i \in 1..(n + 1) : batch'.acks[i].op = req.muts[i].op
  BY <1>2, <1>3, <1>4 DEF BatchAnswered, AcksFollow, n
<1>6. ASSUME NEW i \in 1..(n + 1)
      PROVE  /\ batch'.acks[i].op \in DOMAIN work'.receipts
             /\ batch'.acks[i].cursor \in DOMAIN work'.ops
             /\ work'.ops[batch'.acks[i].cursor] = batch'.canonical[i]
             /\ batch'.canonical[i].cursor = batch'.acks[i].cursor
             /\ batch'.acks[i].applied => batch'.canonical[i].op = batch'.acks[i].op
             /\ batch'.acks[i].conflict <=> ~batch'.acks[i].applied
  <2>1. CASE i = n + 1
    BY <2>1, <1>3
  <2>2. CASE i \in 1..n
    <3>1. /\ batch.acks[i].op \in DOMAIN work.receipts
          /\ batch.acks[i].cursor \in DOMAIN work.ops
          /\ work.ops[batch.acks[i].cursor] = batch.canonical[i]
          /\ batch.canonical[i].cursor = batch.acks[i].cursor
          /\ batch.acks[i].applied => batch.canonical[i].op = batch.acks[i].op
          /\ batch.acks[i].conflict <=> ~batch.acks[i].applied
      BY <2>2 DEF BatchAnswered, AcksAgree, n
    <3> QED
      BY <2>2, <3>1, <1>3
  <2> QED
    BY <2>1, <2>2, <1>4
<1>7. ForcedAgree(batch.forced, batch'.acks)
  <2> SUFFICES ASSUME NEW j \in 1..Len(batch.forced)
               PROVE  \E i \in 1..(n + 1) : /\ batch'.acks[i].conflict
                                            /\ batch'.acks[i].cursor = batch.forced[j].cursor
    BY <1>3 DEF ForcedAgree
  <2>1. PICK i \in 1..n : batch.acks[i].conflict /\ batch.acks[i].cursor = batch.forced[j].cursor
    BY DEF BatchAnswered, ForcedAgree, n
  <2> QED
    BY <2>1, <1>3, <1>4
<1>8. ForcedAgree(batch'.forced, batch'.acks)
  <2>1. CASE batch'.forced = batch.forced
    BY <2>1, <1>7
  <2>2. CASE ack.conflict /\ batch'.forced = Append(batch.forced, change)
    <3> SUFFICES ASSUME NEW j \in 1..Len(batch'.forced)
                 PROVE  \E i \in 1..(n + 1) : /\ batch'.acks[i].conflict
                                              /\ batch'.acks[i].cursor = batch'.forced[j].cursor
      BY <1>3 DEF ForcedAgree
    <3>1. CASE j = Len(batch.forced) + 1
      <4>1. batch'.forced[j] = change
        BY <1>1, <2>2, <3>1
      <4> QED
        BY <4>1, <2>2, <1>3, <1>4
    <3>2. CASE j # Len(batch.forced) + 1
      <4>1. j \in 1..Len(batch.forced) /\ batch'.forced[j] = batch.forced[j]
        BY <1>1, <2>2, <3>2
      <4> QED
        BY <4>1, <1>7, <1>3 DEF ForcedAgree
    <3> QED
      BY <3>1, <3>2
  <2> QED
    BY <2>1, <2>2
<1> QED
  BY <1>2, <1>3, <1>5, <1>6, <1>8 DEF BatchAnswered, AcksFollow, AcksAgree

\* An ack repeats its receipt.
LEMMA AckOfReceipt ==
    ASSUME NEW op \in OpIds, NEW receipt \in Receipt
    PROVE  LET ack == Ack(op, receipt)
           IN /\ ack \in MutationAck
              /\ ack.op = op
              /\ ack.cursor = receipt.cursor
              /\ ack.conflict <=> receipt.conflict
              /\ ack.applied <=> receipt.applied
BY DEF Ack, MutationAck, Receipt

\* A replayed, a lost and an applied mutation are each answered by what the
\* tables hold.
LEMMA MutationAnswers ==
    ASSUME TypeOK, LogInv, AnswerInv, ReplayMutation \/ ConflictMutation \/ ApplyMutation
    PROVE  AnswerInv'
<1>1. /\ Processing /\ phase = "mutations"
      /\ Current \in Mutation /\ Current.op \in OpIds /\ Current.key \in EntityKeys
      /\ OwnerTablesOK(work) /\ LogAgrees(work) /\ BatchAnswered
  BY CurrentShape DEF ReplayMutation, ConflictMutation, ApplyMutation, TypeOK, LogInv,
                      Processing, AnswerInv
<1>2. BatchOK(batch)
  BY DEF TypeOK
<1>3. CASE ReplayMutation
  <2> DEFINE receipt == work.receipts[Current.op]
             ack == Ack(Current.op, receipt)
  <2>1. /\ receipt \in Receipt /\ receipt.cursor \in DOMAIN work.ops
        /\ receipt.applied => work.ops[receipt.cursor].op = Current.op
        /\ receipt.conflict <=> ~receipt.applied
        /\ Current.op \in DOMAIN work.receipts
    BY <1>1, <1>3 DEF ReplayMutation, LogAgrees, ReceiptsPoint, OwnerTablesOK, IsTable
  <2>2. /\ ack \in MutationAck /\ ack.op = Current.op /\ ack.cursor = receipt.cursor
        /\ ack.conflict <=> receipt.conflict
        /\ ack.applied <=> receipt.applied
    BY <1>1, <2>1, AckOfReceipt
  <2>3. work.ops[receipt.cursor] \in Change /\ work.ops[receipt.cursor].cursor = receipt.cursor
    BY <1>1, <2>1 DEF LogAgrees, LogIsContiguous, OwnerTablesOK, IsTable
  <2>4. /\ batch' = [batch EXCEPT !.next = @ + 1, !.acks = Append(@, ack),
                                  !.canonical = Append(@, work.ops[receipt.cursor])]
        /\ work' = work /\ phase' = phase /\ req' = req
    BY <1>3, <2>1 DEF ReplayMutation
  <2>5. /\ batch'.next = batch.next + 1
        /\ batch'.acks = Append(batch.acks, ack)
        /\ batch'.canonical = Append(batch.canonical, work.ops[receipt.cursor])
        /\ batch'.forced = batch.forced
    BY <1>2, <2>4 DEF BatchOK
  <2> HIDE DEF ack, receipt
  <2>6. BatchAnswered'
    BY <1>1, <2>1, <2>2, <2>3, <2>4, <2>5, OneMoreAck
  <2> QED
    BY <1>1, <2>4, <2>6 DEF AnswerInv
<1>4. CASE ConflictMutation
  <2> DEFINE existing == work.records[Current.key]
             receipt == [cursor |-> existing.cursor, conflict |-> TRUE, applied |-> FALSE]
             ack == Ack(Current.op, receipt)
  <2>1. /\ existing \in Change /\ existing.cursor \in DOMAIN work.ops /\ existing.cursor \in Nat
        /\ work.ops[existing.cursor] = existing
    BY <1>1, <1>4 DEF ConflictMutation, IsConflict, LogAgrees, RecordsAreTheLatest,
                      OwnerTablesOK, IsTable, Change
  <2>2. /\ work' = InsertReceipt(work, Current.op, receipt)
        /\ batch' = [batch EXCEPT !.next = @ + 1, !.acks = Append(@, ack),
                                  !.canonical = Append(@, existing),
                                  !.forced = Append(@, existing)]
        /\ phase' = phase /\ req' = req
    BY <1>4 DEF ConflictMutation
  <2>3. /\ batch'.next = batch.next + 1
        /\ batch'.acks = Append(batch.acks, ack)
        /\ batch'.canonical = Append(batch.canonical, existing)
        /\ batch'.forced = Append(batch.forced, existing)
    BY <1>2, <2>2 DEF BatchOK
  <2> HIDE DEF existing
  <2>4. receipt \in Receipt /\ receipt.cursor = existing.cursor
                            /\ receipt.conflict /\ ~receipt.applied
    BY <2>1 DEF Receipt
  <2> HIDE DEF receipt
  <2>5. work'.ops = work.ops /\ work'.receipts = Put(work.receipts, Current.op, receipt)
    BY <1>1, <2>2 DEF InsertReceipt, OwnerTablesOK
  <2>6. DOMAIN work'.receipts = DOMAIN work.receipts \cup {Current.op}
    BY <2>5 DEF Put
  <2>7. /\ ack \in MutationAck /\ ack.op = Current.op /\ ack.cursor = receipt.cursor
        /\ ack.conflict <=> receipt.conflict
        /\ ack.applied <=> receipt.applied
    BY <1>1, <2>4, AckOfReceipt
  <2> HIDE DEF ack
  <2>8. BatchAnswered'
    BY <1>1, <2>1, <2>2, <2>3, <2>4, <2>5, <2>6, <2>7, OneMoreAck
  <2> QED
    BY <1>1, <2>2, <2>8 DEF AnswerInv
<1>5. CASE ApplyMutation
  <2> DEFINE change == MutationChange(Current, NextCursor(work))
             receipt == [cursor |-> change.cursor, conflict |-> FALSE, applied |-> TRUE]
             ack == Ack(Current.op, receipt)
             e == AppendAndUpsert(work, change)
  <2>1. change.op = Current.op
    BY DEF MutationChange
  <2>2. /\ change \in Change /\ change.cursor = work.head + 1
        /\ e.ops = Put(work.ops, work.head + 1, change)
    BY <1>1, <1>5, AppendAgrees DEF ApplyMutation
  <2>3. /\ work' = InsertReceipt(e, Current.op, receipt)
        /\ batch' = [batch EXCEPT !.next = @ + 1, !.acks = Append(@, ack),
                                  !.canonical = Append(@, change),
                                  !.fresh = Append(@, change)]
        /\ phase' = phase /\ req' = req
    BY <1>5 DEF ApplyMutation
  <2>4. /\ batch'.next = batch.next + 1
        /\ batch'.acks = Append(batch.acks, ack)
        /\ batch'.canonical = Append(batch.canonical, change)
        /\ batch'.forced = batch.forced
    BY <1>2, <2>3 DEF BatchOK
  <2>5. e.receipts = work.receipts
    BY <1>1 DEF AppendAndUpsert, OwnerTablesOK
  <2> HIDE DEF change
  <2>6. OwnerTablesOK(e)
    BY <1>1, <2>2, AppendAndUpsertShape
  <2>7. receipt \in Receipt /\ receipt.cursor = change.cursor
                            /\ ~receipt.conflict /\ receipt.applied
    BY <2>2 DEF Receipt, Change
  <2> HIDE DEF receipt, e
  <2>8. work'.ops = e.ops /\ work'.receipts = Put(e.receipts, Current.op, receipt)
    BY <2>3, <2>6 DEF InsertReceipt, OwnerTablesOK
  <2>9. DOMAIN work'.receipts = DOMAIN work.receipts \cup {Current.op}
    BY <2>5, <2>8 DEF Put
  <2>10. /\ ack \in MutationAck /\ ack.op = Current.op /\ ack.cursor = receipt.cursor
         /\ ack.conflict <=> receipt.conflict
         /\ ack.applied <=> receipt.applied
    BY <1>1, <2>7, AckOfReceipt
  <2> HIDE DEF ack
  <2>11. /\ change.cursor \in DOMAIN work'.ops /\ work'.ops[change.cursor] = change
         /\ \A c \in DOMAIN work.ops : c \in DOMAIN work'.ops /\ work'.ops[c] = work.ops[c]
    <3>1. work.head \in Nat /\ DOMAIN work.ops = 1..work.head
      BY <1>1 DEF OwnerTablesOK, LogAgrees, LogIsContiguous
    <3> QED
      BY <3>1, <2>2, <2>8 DEF Put
  <2>12. BatchAnswered'
    BY <1>1, <2>1, <2>2, <2>3, <2>4, <2>7, <2>9, <2>10, <2>11, OneMoreAck
  <2> QED
    BY <1>1, <2>3, <2>12 DEF AnswerInv
<1> QED
  BY <1>3, <1>4, <1>5

\* A rollback answers with an error.
LEMMA RollbackIsError ==
    ASSUME Rollback
    PROVE  phase' = "replied" /\ reply'.status # "ok"
<1>1. PICK code : code # "ok" /\ Fail(code)
  BY DEF Rollback, RejectInvalidMutation, RejectTakenOpId, FailFinalize, RejectLargeDiff,
         RejectReusedRequestId, RejectSnapshot, RejectRepeatedOpId, FailImport, Abort
<1>2. ErrorReply(code).status = code
  BY DEF ErrorReply, NoReply
<1> QED
  BY <1>1, <1>2 DEF Fail

\* A new batch has answered nothing, a mismatch is no answer.
LEMMA BeginAnswers ==
    ASSUME TypeOK, NEW r \in Requests, Begin(r)
    PROVE  AnswerInv'
<1>1. PICK lineage :
        IF r.kind = "resolve" THEN phase' = "resolve"
        ELSE IF lineage.baseline # r.baseline
             THEN phase' = "commit" /\ \E d : reply' = MismatchReply(d, r)
             ELSE phase' = "mutations"
  BY DEF Begin
<1>2. batch' = EmptyBatch /\ req' = r
  BY DEF Begin
<1>3. \A d : MismatchReply(d, r).status = "mismatch"
  BY DEF MismatchReply, LineageReply, NoReply
<1>4. BatchAnswered'
  <2>1. batch'.next = 1 /\ batch'.acks = <<>> /\ batch'.canonical = <<>> /\ batch'.forced = <<>>
    BY <1>2 DEF EmptyBatch
  <2>2. Len(req'.muts) \in Nat
    BY <1>2, RequestShape
  <2> QED
    BY <2>1, <2>2 DEF BatchAnswered, AcksFollow, AcksAgree, ForcedAgree
<1> QED
  BY <1>1, <1>3, <1>4 DEF AnswerInv

\* Every step keeps the answers true of the tables.
LEMMA AnswersInductive ==
    TypeOK /\ LogInv /\ HistoryInv /\ AnswerInv /\ [Next]_vars => AnswerInv'
<1> SUFFICES ASSUME TypeOK, LogInv, HistoryInv, AnswerInv, [Next]_vars PROVE AnswerInv'
  OBVIOUS
<1>1. CASE Commit \/ CommitUnknown
  <2>1. /\ phase = "commit" /\ phase' = "replied" /\ work' = work /\ req' = req
        /\ reply' = reply \/ \E code \in {"response_too_large", "internal"} : reply' = ErrorReply(code)
    BY <1>1 DEF Commit, CommitUnknown
  <2>2. \A code : ErrorReply(code).status = code
    BY DEF ErrorReply, NoReply
  <2> QED
    BY <2>1, <2>2 DEF AnswerInv, DiffAnswer, ExchangeAnswer
<1>2. CASE \E r \in Requests : Begin(r)
  BY <1>2, BeginAnswers
<1>3. CASE ReplayMutation \/ ConflictMutation \/ ApplyMutation
  BY <1>3, MutationAnswers
<1>4. CASE FinishDiff
  <2>1. phase' = "commit" /\ req'.kind = "diff"
    BY <1>4 DEF FinishDiff, Finish
  <2> QED
    BY <1>4, <2>1, DiffAnswers DEF AnswerInv
<1>5. CASE FinishExchange
  <2>1. phase' = "commit" /\ req'.kind = "exchange"
    BY <1>5 DEF FinishExchange, Finish
  <2> QED
    BY <1>5, <2>1, ExchangeAnswers DEF AnswerInv
<1>6. CASE ResolveAgain \/ ResolveStale \/ ResolveUseServer \/ BeginImport \/ ImportMutation
             \/ FinishImport
  <2>1. req.kind = "resolve" /\ req' = req /\ phase' # "mutations"
    BY <1>6 DEF TypeOK, ResolveAgain, ResolveStale, ResolveUseServer, BeginImport, ImportMutation,
                FinishImport, AlreadyResolved, Deciding, ImportDone, Finish
  <2> QED
    BY <2>1 DEF AnswerInv
<1>7. CASE Rollback
  BY <1>7, RollbackIsError DEF AnswerInv
<1>8. CASE Deliver
  BY <1>8 DEF Deliver, AnswerInv
<1>9. CASE UNCHANGED vars
  BY <1>9 DEF vars, AnswerInv, BatchAnswered, DiffAnswer, ExchangeAnswer
<1> QED
  BY <1>1, <1>2, <1>3, <1>4, <1>5, <1>6, <1>7, <1>8, <1>9 DEF Next, Rollback

LEMMA AnswersAlways == Spec => [](TypeOK /\ HistoryInv /\ AnswerInv)
<1>1. Init => AnswerInv
  BY DEF Init, AnswerInv
<1> QED
  BY <1>1, AnswersInductive, HistoryAlways, PTL DEF Spec

\* Service.Diff: an acknowledged mutation has a committed receipt and its
\* canonical Change, whatever the batch repeats or loses.
THEOREM DiffAcksAreCanonical == Spec => []DiffAcksCanonical
<1>1. TypeOK /\ HistoryInv /\ AnswerInv => DiffAcksCanonical
  <2> SUFFICES ASSUME TypeOK, HistoryInv, AnswerInv, Answered("diff")
               PROVE  /\ Len(reply.acks) = Len(req.muts)
                      /\ Len(reply.canonical) = Len(req.muts)
                      /\ \A i \in DOMAIN req.muts :
                            LET ack == reply.acks[i]
                                canonical == reply.canonical[i]
                            IN /\ ack.op = req.muts[i].op
                               /\ ack.op \in DOMAIN db.receipts
                               /\ canonical.cursor = ack.cursor
                               /\ ack.cursor \in DOMAIN db.ops
                               /\ db.ops[ack.cursor] = canonical
                               /\ ack.applied => canonical.op = ack.op
                               /\ ack.conflict <=> ~ack.applied
    BY DEF DiffAcksCanonical
  <2>1. work = db /\ DiffAnswer /\ req \in Requests
    BY DEF HistoryInv, Transaction, AnswerInv, Answered, TypeOK
  <2>2. DOMAIN req.muts = 1..Len(req.muts)
    BY <2>1, RequestShape
  <2> QED
    BY <2>1, <2>2 DEF DiffAnswer, AcksFollow, AcksAgree
<1> QED
  BY <1>1, AnswersAlways, PTL

\* Service.Exchange: a page leaves no operation out up to its next cursor,
\* and hasMore and reset say what is left.
THEOREM ExchangePagesAreComplete == Spec => []ExchangePageComplete
<1>1. HistoryInv /\ AnswerInv => ExchangePageComplete
  BY DEF HistoryInv, Transaction, AnswerInv, Answered, ExchangeAnswer, ExchangePageComplete
<1> QED
  BY <1>1, AnswersAlways, PTL
=============================================================================
