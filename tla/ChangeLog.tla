----------------------------- MODULE ChangeLog -----------------------------
(***************************************************************************)
(* What the owner's tables promise to a device that keeps a baseline id    *)
(* and a cursor: a log that only grows while its lineage lasts, and        *)
(* published entries that mean the same for ever, so that no pair          *)
(* <<baseline, cursor>> is ever used for two different changes.            *)
(***************************************************************************)
EXTENDS Naturals, Sequences

CONSTANTS Lineages, NoLineageId

VARIABLES
    lineage,   \* the current lineage, or NoLineageId
    log,       \* its changes, in cursor order
    published  \* <<lineage, cursor>> -> change, for all lineages ever

vars == <<lineage, log, published>>

\* published extended with the whole of a log.
PublishedWith(id, entries) ==
    [x \in DOMAIN published \cup ({id} \X DOMAIN entries) |->
        IF x \in DOMAIN published THEN published[x] ELSE entries[x[2]]]

Init ==
    /\ lineage = NoLineageId
    /\ log = <<>>
    /\ published = [x \in {} |-> x]

Extends(entries) ==
    /\ Len(log) <= Len(entries)
    /\ \A c \in DOMAIN log : entries[c] = log[c]

\* The current lineage grows; its published entries stay.
AppendEntries ==
    /\ lineage # NoLineageId
    /\ lineage' = lineage
    /\ Extends(log')
    /\ published' = PublishedWith(lineage, log')

\* The log is replaced, under a lineage nothing was ever published for.
SwitchLineage ==
    /\ lineage' \in Lineages
    /\ {c \in DOMAIN log' : <<lineage', c>> \in DOMAIN published} = {}
    /\ lineage' # lineage
    /\ published' = PublishedWith(lineage', log')

Next == AppendEntries \/ SwitchLineage

Spec == Init /\ [][Next]_vars
=============================================================================
