--------------------------- MODULE MCSyncResolve ---------------------------
(***************************************************************************)
(* Resolutions that replace the lineage of an owner, interleaved with the  *)
(* batches of devices that still hold the old one: two device baselines    *)
(* and one minted one, retried and reused request ids, snapshots that are  *)
(* empty, unsorted, invalid, without a progress day or that repeat a key   *)
(* or an op_id.                                                            *)
(***************************************************************************)
EXTENDS SyncService

CONSTANTS a, b, m, o1, o2, r1, r2

MCDevices == {a, b}
MCMinted == {m}
MCOpIds == {o1, o2}
MCRequestIds == {r1, r2}

M(op, key, base, day) == [op |-> op, key |-> key, base |-> base, day |-> day, valid |-> TRUE]

First == M(o1, 1, 1, 3)
Rival == M(o2, 1, 0, 2)
Later == M(o2, 2, 1, 2)
Long == M(o2, 2, 1, 1)

Snapshots == {<<>>, <<First>>, <<Later, First>>}
BadSnapshots == {<<First, Rival>>, <<[First EXCEPT !.valid = FALSE]>>,
                 <<M(o1, 2, 0, NoDay), First>>, <<M(o1, 1, 0, Underivable)>>, <<Long>>}

Resolve(id, local, expected, version, choice, muts) ==
    [kind |-> "resolve", id |-> id, baseline |-> local, expected |-> expected,
     expectedVersion |-> version, choice |-> choice, muts |-> muts]

MCRequests ==
    {[kind |-> "diff", baseline |-> x, muts |-> s] :
        x \in Baselines, s \in {<<First>>, <<Rival>>, <<Later>>}}
    \cup {Resolve(r1, x, y, v, "use_local", s) :
            x \in Baselines, y \in Baselines, v \in 0..1, s \in Snapshots}
    \cup {Resolve(r2, a, b, 1, "use_local", s) : s \in {<<>>, <<First>>, <<First, Long>>} \cup BadSnapshots}
    \cup {Resolve(r2, x, x, v, "use_server", <<>>) : x \in {a, m}, v \in 0..2}
=============================================================================
