----------------------------- MODULE OwnerLock -----------------------------
(***************************************************************************)
(* The transactions of one owner and the InnoDB locks of its row of        *)
(* sync_owners (WithOwnerTransaction of internal/store/mysql/store.go,     *)
(* UpsertProfile of internal/store/mysql/profile.go).                      *)
(*                                                                         *)
(* INSERT IGNORE locks the row it inserts exclusively.  When the row is    *)
(* there, or another transaction is inserting it, it asks for a shared     *)
(* lock; a request that waits for an inserter becomes a shared lock of the *)
(* gap when the inserter is rolled back.  SELECT ... FOR UPDATE asks for   *)
(* the row exclusively.  InnoDB rolls back one transaction of every cycle  *)
(* of waiting ones.  Requests are granted in any order here.               *)
(***************************************************************************)
EXTENDS Naturals, FiniteSets

CONSTANTS
    SyncTxs,      \* calls of WithOwnerTransaction
    ProfileTxs,   \* calls of UpsertProfile
    Absent,       \* the owner has no row
    Present       \* the owner has a committed row

Txs == SyncTxs \cup ProfileTxs

ASSUME TxsAssumption ==
    /\ SyncTxs \cap ProfileTxs = {}
    /\ {Absent, Present} \cap Txs = {}
    /\ Absent # Present

VARIABLES
    row,         \* Absent, Present, or the transaction that is inserting it
    shared,      \* the transactions with a shared lock of the row, or of its gap
    exclusive,   \* the transactions with an exclusive lock of the row
    profile,     \* the transactions with the lock of the row of user_profiles
    phase,       \* how far each transaction is
    version,     \* serverVersion of the owner, as committed
    saw          \* serverVersion, as each transaction has read it

vars == <<row, shared, exclusive, profile, phase, version, saw>>

Init ==
    /\ row \in {Absent, Present}
    /\ shared = {} /\ exclusive = {} /\ profile = {}
    /\ phase = [t \in Txs |-> "begin"]
    /\ version = 0
    /\ saw = [t \in Txs |-> 0]

Ended == {"committed", "failed", "victim"}

Enter(t, p) == phase' = [phase EXCEPT ![t] = p]

-----------------------------------------------------------------------------
(* INSERT IGNORE INTO sync_owners.  A request that nothing conflicts with  *)
(* is granted at once, any other waits.                                    *)

Holders == shared \cup exclusive

\* There is no row and nobody else has locked its gap: t inserts it.
InsertOwner(t) ==
    /\ phase[t] \in {"begin", "inserting"}
    /\ row = Absent /\ Holders \subseteq {t}
    /\ row' = t
    /\ exclusive' = {t}
    /\ Enter(t, "ensured")
    /\ UNCHANGED <<shared, profile, version, saw>>

\* The row is there: t shares it.
ShareOwner(t) ==
    /\ phase[t] \in {"begin", "ensuring", "inserting"}
    /\ row = Present /\ exclusive = {}
    /\ shared' = shared \cup {t}
    /\ Enter(t, "ensured")
    /\ UNCHANGED <<row, exclusive, profile, version, saw>>

\* Another transaction has the row: t asks for a shared lock and waits.
AwaitShare(t) ==
    /\ phase[t] = "begin"
    /\ row # Absent /\ exclusive # {}
    /\ Enter(t, "ensuring")
    /\ UNCHANGED <<row, shared, exclusive, profile, version, saw>>

\* Others share the gap of the absent row: t waits to insert, without a lock.
AwaitInsert(t) ==
    /\ phase[t] = "begin"
    /\ row = Absent /\ shared # {}
    /\ Enter(t, "inserting")
    /\ UNCHANGED <<row, shared, exclusive, profile, version, saw>>

EnsureOwner(t) == InsertOwner(t) \/ ShareOwner(t) \/ AwaitShare(t) \/ AwaitInsert(t)

-----------------------------------------------------------------------------
(* SELECT ... FOR UPDATE, the work, COMMIT or ROLLBACK. *)

\* Others have locked the row: t waits.
LockOwner(t) ==
    /\ t \in SyncTxs /\ phase[t] = "ensured"
    /\ ~(Holders \subseteq {t})
    /\ Enter(t, "locking")
    /\ UNCHANGED <<row, shared, exclusive, profile, version, saw>>

WantsOwner(t) == phase[t] = "locking" \/ (t \in SyncTxs /\ phase[t] = "ensured")

\* Mutant: a locking read that shares the row (FOR SHARE).
OwnerSharedOnly(t) ==
    /\ WantsOwner(t)
    /\ exclusive \subseteq {t}
    /\ shared' = shared \cup {t}
    /\ saw' = [saw EXCEPT ![t] = version]
    /\ Enter(t, "working")
    /\ UNCHANGED <<row, exclusive, profile, version>>

\* The owner is locked; the work reads the head of the owner.
OwnerLocked(t) ==
    /\ WantsOwner(t)
    /\ Holders \subseteq {t}
    /\ exclusive' = {t}
    /\ saw' = [saw EXCEPT ![t] = version]
    /\ Enter(t, "working")
    /\ UNCHANGED <<row, shared, profile, version>>

\* Mutant: UpsertProfile locks the owner FOR UPDATE, too.
WriteProfileExclusively(t) ==
    /\ t \in ProfileTxs
    /\ phase[t] = "ensured"
    /\ Enter(t, "locking")
    /\ UNCHANGED <<row, shared, exclusive, profile, version, saw>>

\* UpsertProfile goes on without an exclusive lock of the owner.
WriteProfile(t) ==
    /\ t \in ProfileTxs
    /\ phase[t] = "ensured"
    /\ Enter(t, "upserting")
    /\ UNCHANGED <<row, shared, exclusive, profile, version, saw>>

ProfileLocked(t) ==
    /\ phase[t] = "upserting" /\ profile = {}
    /\ profile' = {t}
    /\ Enter(t, "working")
    /\ UNCHANGED <<row, shared, exclusive, version, saw>>

\* Mutant: the rollback of a failed transaction is forgotten.
EndWithoutRollback(t, result) ==
    /\ Enter(t, result)
    /\ IF result = "committed"
       THEN /\ shared' = shared \ {t} /\ exclusive' = exclusive \ {t}
            /\ profile' = profile \ {t}
            /\ row' = IF row = t THEN Present ELSE row
       ELSE UNCHANGED <<row, shared, exclusive, profile>>
    /\ UNCHANGED saw

\* The requests that wait for the row t has inserted.
Waiting(t) == {u \in Txs \ {t} : row = t /\ phase[u] = "ensuring"}

\* The locks of t are released, and a row it has inserted is there or gone: then
\* those who wait for it get a shared lock of the gap and have to insert it.
End(t, result) ==
    /\ LET heirs == IF result = "committed" THEN {} ELSE Waiting(t)
       IN /\ shared' = (shared \ {t}) \cup heirs
          /\ phase' = [u \in Txs |-> IF u = t THEN result
                                     ELSE IF u \in heirs THEN "inserting"
                                     ELSE phase[u]]
    /\ exclusive' = exclusive \ {t}
    /\ profile' = profile \ {t}
    /\ row' = IF row # t THEN row ELSE IF result = "committed" THEN Present ELSE Absent
    /\ UNCHANGED saw

\* A sync transaction writes the version it has computed.
Commit(t) ==
    /\ phase[t] = "working"
    /\ version' = IF t \in SyncTxs THEN saw[t] + 1 ELSE version
    /\ End(t, "committed")

\* The work fails, the request is cancelled, the connection or a wait for a
\* lock times out: the deferred rollback.
Rollback(t) ==
    /\ phase[t] \notin Ended \cup {"begin"}
    /\ End(t, "failed")
    /\ UNCHANGED version

\* The transactions that t waits for.
Blockers(t) ==
    CASE phase[t] = "ensuring" -> exclusive \ {t}
      [] phase[t] = "inserting" -> (IF row = Absent THEN Holders ELSE exclusive) \ {t}
      [] phase[t] = "locking" -> Holders \ {t}
      [] phase[t] = "upserting" -> profile \ {t}
      [] OTHER -> {}

\* Every transaction of C waits for another one of C.
Stuck(C) == C # {} /\ \A t \in C : Blockers(t) \cap C # {}

\* InnoDB's detection: one transaction of a cycle is rolled back.
Victim(t) ==
    /\ \E C \in SUBSET Txs :
        /\ t \in C /\ Stuck(C)
        /\ \A D \in SUBSET C : Stuck(D) => D = C
    /\ End(t, "victim")
    /\ UNCHANGED version

Step(t) ==
    \/ EnsureOwner(t) \/ LockOwner(t) \/ OwnerLocked(t)
    \/ WriteProfile(t) \/ ProfileLocked(t) \/ Commit(t)

Next == \E t \in Txs : Step(t) \/ Rollback(t) \/ Victim(t)

Spec == Init /\ [][Next]_vars

\* Statements that are not blocked return, and every cycle is detected.
FairSpec == Spec /\ \A t \in Txs : WF_vars(Step(t)) /\ WF_vars(\E u \in Txs : Victim(u))

-----------------------------------------------------------------------------
(* Properties. *)

Phases == {"begin", "ensuring", "inserting", "ensured", "locking", "upserting", "working"}

\* Locks are held by transactions that are under way.
TypeOK ==
    /\ row \in {Absent, Present} \cup Txs
    /\ phase \in [Txs -> Phases \cup Ended]
    /\ version \in Nat
    /\ saw \in [Txs -> Nat]
    /\ shared \cup exclusive \cup profile \subseteq {t \in Txs : phase[t] \notin Ended}

\* WithOwnerTransaction runs fn for one transaction of the owner at a time,
\* and the version fn has read stays the committed one until it commits,
\* although profile upserts hold shared locks of the same row.
OneWriter ==
    \A t \in SyncTxs : phase[t] = "working" =>
        /\ \A u \in SyncTxs \ {t} : phase[u] # "working"
        /\ saw[t] = version

\* Test of two concurrent Diffs: versions are handed out once each; no commit
\* overwrites what another one has committed.
EveryCommitCounts ==
    [][\A t \in SyncTxs :
        phase'[t] = "committed" /\ phase[t] # "committed" => version' = version + 1]_vars

\* UpsertProfile shares the owner row with others and locks the profile last:
\* it loses a deadlock only against others that have waited with it for an
\* inserter that was rolled back, and that compete for the row with it.
ProfilesDoNotUpgrade ==
    [][\A t \in ProfileTxs :
        phase'[t] = "victim" /\ phase[t] # "victim" =>
            phase[t] = "inserting" /\ row = Absent /\ t \in shared]_vars

\* Every transaction ends: nobody waits for ever for a lock of a transaction
\* that has ended or of one that waits for it.
AllEnd == \A t \in Txs : phase[t] # "begin" ~> phase[t] \in Ended

\* internal/integration/backend_integration_test.go, two concurrent Diffs of
\* an owner that exists: a transaction does not fail because of the other one.
ConcurrentDiffsSucceed == \A t \in SyncTxs : phase[t] # "victim"
=============================================================================
