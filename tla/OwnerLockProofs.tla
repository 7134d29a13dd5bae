-------------------------- MODULE OwnerLockProofs --------------------------
(***************************************************************************)
(* WithOwnerTransaction serialises the writers of an owner, for any number *)
(* of sync transactions and profile upserts.                               *)
(***************************************************************************)
EXTENDS OwnerLock, TLAPS

\* Who holds the exclusive lock holds the only lock, and a sync transaction
\* that works on the owner holds it; who inserts the row holds it; the profile is
\* locked by upserts.
LockInv ==
    /\ \A t \in exclusive : Holders \subseteq {t}
    /\ row \in Txs => exclusive = {row}
    /\ \A t \in SyncTxs : phase[t] = "working" => t \in exclusive /\ saw[t] = version
    /\ \A t \in SyncTxs : phase[t] # "upserting"

IInv == TypeOK /\ LockInv

LEMMA InitIInv == Init => IInv
    BY TxsAssumption DEF Init, IInv, TypeOK, LockInv, Holders, Txs, Phases, Ended

\* The end of a transaction keeps the locks of the others.
LEMMA EndKeepsIInv ==
    ASSUME IInv, NEW t \in Txs, NEW result \in Ended, End(t, result),
           \/ version' = version
           \/ /\ t \in SyncTxs /\ phase[t] = "working"
              /\ version' = saw[t] + 1
    PROVE  IInv'
<1> DEFINE heirs == IF result = "committed" THEN {} ELSE Waiting(t)
<1>1. /\ shared' = (shared \ {t}) \cup heirs
      /\ phase' = [u \in Txs |-> IF u = t THEN result
                                 ELSE IF u \in heirs THEN "inserting" ELSE phase[u]]
      /\ exclusive' = exclusive \ {t} /\ profile' = profile \ {t} /\ saw' = saw
    BY DEF End
<1>2. heirs \subseteq Txs \ {t} /\ (heirs # {} => row = t)
    BY DEF Waiting
<1> HIDE DEF heirs
<1>3. version' \in Nat
    BY DEF IInv, TypeOK
<1>4. phase' \in [Txs -> Phases \cup Ended] /\ saw' \in [Txs -> Nat]
    BY <1>1 DEF IInv, TypeOK, Phases
<1>5. shared' \cup exclusive' \cup profile' \subseteq {u \in Txs : phase'[u] \notin Ended}
    BY <1>1, <1>2 DEF IInv, TypeOK, Ended
<1>6. TypeOK'
    BY <1>3, <1>4, <1>5 DEF IInv, TypeOK, End
<1>7. LockInv'
    <2>1. \A u \in exclusive' : Holders' \subseteq {u}
        BY <1>1, <1>2 DEF IInv, LockInv, Holders
    <2>2. row' \in Txs => exclusive' = {row'}
        BY <1>1, TxsAssumption DEF IInv, LockInv, End
    <2>3. ASSUME NEW u \in SyncTxs, phase'[u] = "working"
          PROVE  u \in exclusive' /\ saw'[u] = version'
        <3>1. u # t /\ phase[u] = "working" /\ u \in Txs
            BY <2>3, <1>1 DEF Ended, Txs
        <3>2. u \in exclusive /\ saw[u] = version
            BY <3>1 DEF IInv, LockInv
        <3>3. ~(t \in SyncTxs /\ phase[t] = "working")
            BY <3>1, <3>2 DEF IInv, LockInv, Holders
        <3>4. QED BY <3>1, <3>2, <3>3 DEF End
    <2>4. \A u \in SyncTxs : phase'[u] # "upserting"
        BY <1>1 DEF IInv, LockInv, Ended, Txs
    <2>5. QED BY <2>1, <2>2, <2>3, <2>4 DEF LockInv
<1>8. QED BY <1>6, <1>7 DEF IInv

LEMMA NextIInv == IInv /\ [Next]_vars => IInv'
<1> SUFFICES ASSUME IInv, [Next]_vars PROVE IInv'
    OBVIOUS
<1> USE DEF IInv
<1>1. CASE UNCHANGED vars
    BY <1>1 DEF vars, TypeOK, LockInv, Holders
<1>2. ASSUME NEW t \in Txs, AwaitShare(t) \/ AwaitInsert(t) PROVE IInv'
    BY <1>2 DEF AwaitShare, AwaitInsert, Enter, TypeOK, LockInv, Holders, Phases, Ended, Txs
<1>3. ASSUME NEW t \in Txs, ShareOwner(t) PROVE IInv'
    BY <1>3, TxsAssumption DEF ShareOwner, Enter, TypeOK, LockInv, Holders, Phases, Ended, Txs
<1>4. ASSUME NEW t \in Txs, InsertOwner(t) PROVE IInv'
    BY <1>4 DEF InsertOwner, Enter, TypeOK, LockInv, Holders, Phases, Ended, Txs
<1>5. ASSUME NEW t \in Txs, LockOwner(t) PROVE IInv'
    BY <1>5 DEF LockOwner, Enter, TypeOK, LockInv, Holders, Phases, Ended, Txs
<1>6. ASSUME NEW t \in Txs, OwnerLocked(t) PROVE IInv'
    <2>1. TypeOK'
        BY <1>6 DEF OwnerLocked, WantsOwner, Enter, TypeOK, Phases, Ended
    <2>2. LockInv'
        BY <1>6 DEF OwnerLocked, WantsOwner, Enter, TypeOK, LockInv, Holders, Phases, Ended, Txs
    <2>3. QED BY <2>1, <2>2
<1>7. ASSUME NEW t \in Txs, WriteProfile(t) PROVE IInv'
    BY <1>7, TxsAssumption DEF WriteProfile, Enter, TypeOK, LockInv, Holders, Phases, Ended, Txs
<1>8. ASSUME NEW t \in Txs, ProfileLocked(t) PROVE IInv'
    <2>1. TypeOK'
        BY <1>8 DEF ProfileLocked, Enter, TypeOK, Phases, Ended
    <2>2. t \notin SyncTxs
        BY <1>8 DEF ProfileLocked, LockInv
    <2>3. LockInv'
        BY <1>8, <2>2 DEF ProfileLocked, Enter, TypeOK, LockInv, Holders
    <2>4. QED BY <2>1, <2>3
<1>9. ASSUME NEW t \in Txs, Commit(t) PROVE IInv'
    BY <1>9, EndKeepsIInv DEF Commit, Ended
<1>10. ASSUME NEW t \in Txs, Rollback(t) PROVE IInv'
    BY <1>10, EndKeepsIInv DEF Rollback, Ended
<1>11. ASSUME NEW t \in Txs, Victim(t) PROVE IInv'
    BY <1>11, EndKeepsIInv DEF Victim, Ended
<1>12. QED
    BY <1>1, <1>2, <1>3, <1>4, <1>5, <1>6, <1>7, <1>8, <1>9, <1>10, <1>11
       DEF Next, Step, EnsureOwner

LEMMA Invariance == Spec => []IInv
    BY InitIInv, NextIInv, PTL DEF Spec

\* WithOwnerTransaction runs fn for one transaction of an owner at a time, and
\* what fn has read of the head stays committed until it commits.
THEOREM WritersTakeTurns == Spec => [](TypeOK /\ OneWriter)
<1>1. IInv => TypeOK /\ OneWriter
    BY DEF IInv, LockInv, OneWriter, Holders
<1>2. QED BY <1>1, Invariance, PTL

\* Every commit of a sync transaction adds one version to what is committed.
THEOREM CommitsCount == Spec => EveryCommitCounts
<1>1. IInv /\ [Next]_vars =>
        [\A t \in SyncTxs :
            phase'[t] = "committed" /\ phase[t] # "committed" => version' = version + 1]_vars
    <2> SUFFICES ASSUME IInv, Next, NEW t \in SyncTxs,
                        phase'[t] = "committed", phase[t] # "committed"
                 PROVE  version' = version + 1
        BY DEF vars
    <2>1. PICK u \in Txs : Step(u) \/ Rollback(u) \/ Victim(u)
        BY DEF Next
    <2>2. t \in Txs
        BY DEF Txs
    <2>3. Commit(u) /\ u = t
        BY <2>1, <2>2 DEF Step, EnsureOwner, InsertOwner, ShareOwner, AwaitShare,
            AwaitInsert, LockOwner, OwnerLocked, WriteProfile, ProfileLocked, Commit, Rollback,
            Victim, End, Enter, IInv, TypeOK
    <2>4. QED BY <2>3 DEF Commit, IInv, LockInv
<1>2. QED BY <1>1, Invariance, PTL DEF Spec, EveryCommitCounts

\* Who has the exclusive lock, or the lock of the profile, waits for the owner
\* no more; and an upsert never asks for the owner exclusively, but to insert it.
WaitInv ==
    /\ \A t \in exclusive : phase[t] \in {"ensured", "locking", "upserting", "working"}
    /\ \A t \in profile : phase[t] = "working"
    /\ \A t \in ProfileTxs : phase[t] # "locking"

LEMMA InitWaitInv == Init => WaitInv
    BY DEF Init, WaitInv, Txs

LEMMA NextWaitInv == IInv /\ WaitInv /\ [Next]_vars => WaitInv'
<1> SUFFICES ASSUME IInv, WaitInv, [Next]_vars PROVE WaitInv'
    OBVIOUS
<1>1. phase \in [Txs -> Phases \cup Ended] /\ shared \cup exclusive \cup profile \subseteq Txs
    BY DEF IInv, TypeOK
<1>2. CASE UNCHANGED vars
    BY <1>2 DEF vars, WaitInv
<1>3. ASSUME NEW t \in Txs, AwaitShare(t) \/ AwaitInsert(t) PROVE WaitInv'
    BY <1>1, <1>3 DEF AwaitShare, AwaitInsert, Enter, WaitInv, Txs
<1>4. ASSUME NEW t \in Txs, ShareOwner(t) PROVE WaitInv'
    BY <1>1, <1>4 DEF ShareOwner, Enter, WaitInv, Txs
<1>5. ASSUME NEW t \in Txs, InsertOwner(t) PROVE WaitInv'
    BY <1>1, <1>5 DEF InsertOwner, Enter, WaitInv, Txs
<1>6. ASSUME NEW t \in Txs, LockOwner(t) PROVE WaitInv'
    BY <1>1, <1>6, TxsAssumption DEF LockOwner, Enter, WaitInv, Txs
<1>7. ASSUME NEW t \in Txs, OwnerLocked(t) PROVE WaitInv'
    BY <1>1, <1>7 DEF OwnerLocked, WantsOwner, Enter, WaitInv, Txs
<1>8. ASSUME NEW t \in Txs, WriteProfile(t) PROVE WaitInv'
    BY <1>1, <1>8 DEF WriteProfile, Enter, WaitInv, Txs
<1>9. ASSUME NEW t \in Txs, ProfileLocked(t) PROVE WaitInv'
    BY <1>1, <1>9 DEF ProfileLocked, Enter, WaitInv, Txs
<1>10. ASSUME NEW t \in Txs, NEW result \in Ended, End(t, result) PROVE WaitInv'
    BY <1>1, <1>10 DEF End, Waiting, Ended, WaitInv, Txs
<1>11. QED
    BY <1>2, <1>3, <1>4, <1>5, <1>6, <1>7, <1>8, <1>9, <1>10
       DEF Next, Step, EnsureOwner, Commit, Rollback, Victim, Ended

LEMMA WaitInvariance == Spec => []WaitInv
    BY InitWaitInv, NextWaitInv, Invariance, PTL DEF Spec

\* Who has no lock keeps nobody waiting, and is in no smallest set of stuck ones.
LEMMA VictimsHoldLocks ==
    ASSUME NEW C \in SUBSET Txs, Stuck(C), \A D \in SUBSET C : Stuck(D) => D = C,
           NEW t \in C
    PROVE  t \in Holders \cup profile
<1> SUFFICES ASSUME t \notin Holders \cup profile PROVE FALSE
    OBVIOUS
<1>1. \A x \in C : t \notin Blockers(x)
    BY DEF Blockers, Holders
<1>2. Blockers(t) \cap C # {}
    BY DEF Stuck
<1>3. Stuck(C \ {t})
    BY <1>1, <1>2 DEF Stuck
<1>4. QED BY <1>3

\* UpsertProfile is rolled back by InnoDB only while it competes to insert the
\* owner after a rollback: in every other wait the transaction it waits for waits
\* for nobody, or nobody waits for it.
THEOREM UpsertsLoseNoDeadlock == Spec => ProfilesDoNotUpgrade
<1>1. IInv /\ WaitInv /\ [Next]_vars =>
        [\A t \in ProfileTxs :
            phase'[t] = "victim" /\ phase[t] # "victim" =>
                phase[t] = "inserting" /\ row = Absent /\ t \in shared]_vars
    <2> SUFFICES ASSUME IInv, WaitInv, Next, NEW t \in ProfileTxs,
                        phase'[t] = "victim", phase[t] # "victim"
                 PROVE  phase[t] = "inserting" /\ row = Absent /\ t \in shared
        BY DEF vars
    <2>1. PICK u \in Txs : Step(u) \/ Rollback(u) \/ Victim(u)
        BY DEF Next
    <2>2. t \in Txs /\ phase \in [Txs -> Phases \cup Ended]
        BY DEF Txs, IInv, TypeOK
    <2>3. Victim(u) /\ u = t
        BY <2>1, <2>2 DEF Step, EnsureOwner, InsertOwner, ShareOwner, AwaitShare, AwaitInsert,
            LockOwner, OwnerLocked, WriteProfile, ProfileLocked, Commit, Rollback, Victim, End,
            Enter
    <2>4. PICK C \in SUBSET Txs : t \in C /\ Stuck(C) /\ \A D \in SUBSET C : Stuck(D) => D = C
        BY <2>3 DEF Victim
    <2>5. \A x \in C : Blockers(x) \cap C # {}
        BY <2>4 DEF Stuck
    \* The holder of a profile waits for nobody.
    <2>6. \A x \in profile : x \notin C
        BY <2>5 DEF WaitInv, Blockers
    <2>7. \A x \in C : phase[x] # "upserting"
        BY <2>5, <2>6 DEF Blockers
    \* Nor does the holder of the exclusive lock of the owner.
    <2>8. \A x \in exclusive : x \notin C
        <3> SUFFICES ASSUME NEW x \in exclusive, x \in C PROVE FALSE
            OBVIOUS
        <3>1. phase[x] \in {"ensured", "locking", "working"}
            BY <2>7 DEF WaitInv
        <3>2. Holders \ {x} = {}
            BY DEF IInv, LockInv
        <3>3. Blockers(x) = {}
            BY <3>1, <3>2 DEF Blockers
        <3>4. QED BY <2>5, <3>3
    <2>9. phase[t] # "ensuring"
        BY <2>4, <2>5, <2>8 DEF Blockers
    <2>10. phase[t] # "locking" /\ phase[t] # "upserting"
        BY <2>4, <2>7 DEF WaitInv
    <2>11. phase[t] = "inserting" /\ row = Absent
        BY <2>4, <2>5, <2>8, <2>9, <2>10 DEF Blockers
    <2>12. t \in Holders \cup profile
        BY <2>4, VictimsHoldLocks
    <2>13. t \in shared
        BY <2>4, <2>6, <2>8, <2>12 DEF Holders
    <2>14. QED BY <2>11, <2>13
<1>2. QED BY <1>1, Invariance, WaitInvariance, PTL DEF Spec, ProfilesDoNotUpgrade
=============================================================================
