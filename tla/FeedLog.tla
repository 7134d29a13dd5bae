------------------------------ MODULE FeedLog ------------------------------
(***************************************************************************)
(* What the commits of one owner look like to the event pipeline: which    *)
(* lineage is current, how far each lineage goes, which lineages are       *)
(* archived, and how many rows realtime_outbox has.  ChangeLog says that a *)
(* change is identified by its lineage and cursor, so its content is left  *)
(* out.  SyncService implements this specification; HintPipeline and       *)
(* EventStream are built on it.                                            *)
(***************************************************************************)
EXTENDS Integers, FiniteSets

CONSTANTS
    Lineages,   \* baseline ids
    NoLineage,  \* no request of the owner has been served yet
    MaxBatch,   \* bound: changes in one commit
    MaxHead,    \* bound: changes in one lineage
    MaxRows     \* bound: rows of realtime_outbox

ASSUME NoLineageAssumption == NoLineage \notin Lineages
ASSUME BoundsAssumption == {MaxBatch, MaxHead, MaxRows} \subseteq Nat

VARIABLES
    lineage,   \* the current lineage, or NoLineage
    tip,       \* the last cursor of every lineage
    archived,  \* the lineages that have an archive head
    rows       \* realtime_outbox has the rows 1..rows

feedVars == <<lineage, tip, archived, rows>>

\* sync_heads.cursor.
HeadCursor == IF lineage = NoLineage THEN 0 ELSE tip[lineage]

FeedInit ==
    /\ lineage = NoLineage
    /\ tip = [b \in Lineages |-> 0]
    /\ archived = {}
    /\ rows = 0

\* ensureLineage creates the lineage of the first request, and no event.
StartLineage(b) ==
    /\ lineage = NoLineage
    /\ lineage' = b
    /\ UNCHANGED <<tip, archived, rows>>

\* A batch of Exchange or Diff applied n mutations; the first one of an owner
\* creates the lineage in the same transaction.
CommitBatch(b, n) ==
    /\ lineage \in {b, NoLineage}
    /\ tip[b] + n <= MaxHead
    /\ rows < MaxRows
    /\ lineage' = b
    /\ tip' = [tip EXCEPT ![b] = @ + n]
    /\ archived' = archived \cup {b}
    /\ rows' = rows + 1

\* USE_LOCAL replaced the lineage by a snapshot of n records, under a baseline
\* that no archive head names.
CommitImport(b, n) ==
    /\ b \notin archived
    /\ n <= MaxHead
    /\ rows < MaxRows
    /\ lineage' = b
    /\ tip' = [tip EXCEPT ![b] = n]
    /\ archived' = archived \cup {b}
    /\ rows' = rows + 1

FeedNext ==
    \E b \in Lineages :
        \/ StartLineage(b)
        \/ \E n \in 1..MaxBatch : CommitBatch(b, n)
        \/ \E n \in 0..MaxBatch : CommitImport(b, n)

\* The feed has a lineage before it has anything else, and every row of the
\* outbox belongs to an archived lineage.
FeedTypeOK ==
    /\ lineage \in Lineages \cup {NoLineage}
    /\ tip \in [Lineages -> Nat]
    /\ archived \subseteq Lineages
    /\ rows \in Nat
    /\ lineage = NoLineage => archived = {}

FeedSpec == FeedInit /\ [][FeedNext]_feedVars
=============================================================================
