---------------------------- MODULE MCOwnerLock ----------------------------
(***************************************************************************)
(* Sync transactions and profile upserts of one owner, with and without a  *)
(* row.                                                                    *)
(***************************************************************************)
EXTENDS OwnerLock

CONSTANTS t1, t2, p1, p2

Syncs == {t1, t2}
Profiles == {p1, p2}

\* The owner has synced before.
ExistingOwner == row = Present

SpecExistingOwner == Init /\ ExistingOwner /\ [][Next]_vars
=============================================================================
