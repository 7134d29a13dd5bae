--------------------------- MODULE MCSyncBatches ---------------------------
(***************************************************************************)
(* Exchange and Diff batches of two devices on one lineage, with a third   *)
(* baseline id to mismatch: conflicting, replayed, re-based, invalid and   *)
(* underivable mutations, repeated inside a batch and across batches.      *)
(***************************************************************************)
EXTENDS SyncService

CONSTANTS b1, b2, o1, o2, o3

MCDevices == {b1, b2}
MCOpIds == {o1, o2, o3}

M(op, key, base, day) == [op |-> op, key |-> key, base |-> base, day |-> day, valid |-> TRUE]

\* A first write, a write that loses to it or comes before it, the same
\* mutation re-based on the version that won, a deletion, and bad ones: a key that
\* cannot be decoded, a date that fits only while another record has a later one,
\* and what validateMutation rejects.
First == M(o1, 1, 0, 3)
Rival == M(o2, 1, 0, 2)
Rebased == M(o2, 1, 1, 2)
Other == M(o3, 2, 0, 2)
Erase == M(o3, 1, 2, NoDay)
Poison == M(o3, 2, 0, Underivable)
Long == M(o2, 2, 0, 1)
Malformed == [Other EXCEPT !.valid = FALSE]

Batches ==
    {<<>>} \cup {<<m>> : m \in {First, Rival, Rebased, Other, Erase, Poison, Long}}
        \cup {<<First, Rival>>, <<Rival, First>>, <<First, First>>, <<First, Rebased>>,
              <<Other, Erase>>, <<Rival, Malformed>>, <<First, Poison>>, <<First, Long>>,
              <<Rival, Other, First>>, <<First, Rebased, Erase>>}

MCRequests ==
    {[kind |-> "diff", baseline |-> b, muts |-> s] : b \in MCDevices, s \in Batches}
    \cup {[kind |-> "exchange", baseline |-> b, muts |-> s, cursor |-> c, limit |-> n] :
            b \in MCDevices, s \in Batches, c \in {0, 1, 3}, n \in {1, 2}}
=============================================================================
