-------------------------- MODULE ConnectionLease --------------------------
(***************************************************************************)
(* The connection leases of one owner: a sorted set in Redis, changed by   *)
(* the scripts of internal/realtime/redis.go, and the handlers of          *)
(* internal/httpapi (sse.go, websocket.go) that acquire, refresh and       *)
(* release an entry of it.                                                 *)
(*                                                                         *)
(* Every score is computed from the clock of the process that sends the    *)
(* command, before it is sent.  Connection ids are never used twice.       *)
(***************************************************************************)
EXTENDS Integers, FiniteSets

CONSTANTS
    Connections,
    Skew,       \* how far the clock of a connection's process is ahead
    MaxLeases,  \* maxConnectionsPerOwner
    TTL,        \* DefaultLeaseTTL
    MaxDelay,   \* Redis runs a command this soon, or never
    MaxTime     \* bound: ticks of the clock

Period == TTL \div 3

ASSUME LeaseAssumption ==
    /\ IsFiniteSet(Connections)
    /\ MaxLeases \in Nat \ {0}
    /\ {TTL, MaxDelay, MaxTime} \subseteq Nat
    /\ Skew \in [Connections -> Nat]

\* The clocks agree well enough for a lease that is refreshed in time.  The
\* answer to the acquire starts the ticker, so the first refresh may reach
\* Redis Period + 2 * MaxDelay after the score of the acquire was computed.
ASSUME ClockAssumption ==
    /\ MaxDelay < Period
    /\ \A c, d \in Connections : Period + 2 * MaxDelay + Skew[c] - Skew[d] < TTL

VARIABLES
    now,     \* real time
    lease,   \* the sorted set: the score of each connection, or NoLease
    conn,    \* the handler of each connection
    late     \* history: connections whose process has been stalled

vars == <<now, lease, conn, late>>

NoLease == -1

\* call is the last acquire or refresh, sent at call.at; due is the next tick
\* of refreshLease.
New == [phase |-> "new", due |-> 0, call |-> [op |-> "none", at |-> 0], answer |-> "none"]

Init ==
    /\ now = 0
    /\ lease = [c \in Connections |-> NoLease]
    /\ conn = [c \in Connections |-> New]
    /\ late = {}

Waiting(c) == conn[c].phase \in {"acquiring", "refreshing"}
Open(c) == conn[c].phase \in {"open", "refreshing"}

\* Only the handler of c moves, to h.
Step(c, h) ==
    /\ conn' = [conn EXCEPT ![c] = h]
    /\ UNCHANGED <<now, lease, late>>

\* The handler of c is over, but its last call may still be on its way.
Done(c) == [conn[c] EXCEPT !.phase = "done", !.due = 0, !.answer = "none"]

Call(c, phase, op) ==
    Step(c, [conn[c] EXCEPT !.phase = phase, !.call = [op |-> op, at |-> now], !.answer = "none"])

-----------------------------------------------------------------------------
(* The scripts: the sorted set after the call of c, and the answer. *)

Held(l) == {c \in Connections : l[c] # NoLease}

Score(c) == conn[c].call.at + Skew[c] + TTL

\* ZREMRANGEBYSCORE -inf now.
Purged(c) ==
    [d \in Connections |-> IF lease[d] <= conn[c].call.at + Skew[c] THEN NoLease ELSE lease[d]]

\* Mutant: one lease too many.
AcquireOneMore(c, l, answer) ==
    IF Cardinality(Held(Purged(c))) > MaxLeases
    THEN l = Purged(c) /\ answer = "no"
    ELSE l = [Purged(c) EXCEPT ![c] = Score(c)] /\ answer = "yes"

Acquire(c, l, answer) ==
    IF Cardinality(Held(Purged(c))) >= MaxLeases
    THEN l = Purged(c) /\ answer = "no"
    ELSE l = [Purged(c) EXCEPT ![c] = Score(c)] /\ answer = "yes"

\* Mutant: the key is kept alive, the score is not renewed.
RefreshKeyOnly(c, l, answer) ==
    l = lease /\ answer = (IF lease[c] = NoLease THEN "no" ELSE "yes")

\* Mutant: ZADD without looking for the member.
RefreshAnyway(c, l, answer) == l = [lease EXCEPT ![c] = Score(c)] /\ answer = "yes"

Refresh(c, l, answer) ==
    IF lease[c] = NoLease
    THEN l = lease /\ answer = "no"
    ELSE l = [lease EXCEPT ![c] = Score(c)] /\ answer = "yes"

\* Redis runs the call of c: in time, whether or not c still waits, and once
\* more if the client library sends it again because the answer was lost.
Execute(c) ==
    /\ conn[c].call.op # "none"
    /\ now <= conn[c].call.at + MaxDelay
    /\ \E answer \in {"yes", "no"} :
        /\ \/ conn[c].call.op = "acquire" /\ Acquire(c, lease', answer)
           \/ conn[c].call.op = "refresh" /\ Refresh(c, lease', answer)
        /\ conn' = [conn EXCEPT ![c].answer = IF Waiting(c) THEN answer ELSE "none"]
    /\ UNCHANGED <<now, late>>

\* PEXPIRE drops the key 2 * TTL after the last acquire or refresh.
KeyExpires ==
    /\ Held(lease) # {}
    /\ \A c \in Held(lease) : now >= lease[c] - Skew[c] + TTL
    /\ lease' = [c \in Connections |-> NoLease]
    /\ UNCHANGED <<now, conn, late>>

-----------------------------------------------------------------------------
(* The handler of a connection and its refreshLease goroutine. *)

Connect(c) == conn[c].phase = "new" /\ Call(c, "acquiring", "acquire")

Acquired(c) ==
    /\ conn[c].phase = "acquiring" /\ conn[c].answer = "yes"
    /\ Step(c, [conn[c] EXCEPT !.phase = "open", !.due = now + Period, !.answer = "none"])

\* Refused (429), or the answer did not arrive (503): nothing is released.
NotAcquired(c) ==
    /\ conn[c].phase = "acquiring"
    /\ Step(c, Done(c))

RefreshTick(c) ==
    /\ conn[c].phase = "open" /\ now >= conn[c].due
    /\ Call(c, "refreshing", "refresh")

\* The next tick; ticks that were missed are dropped but one.
Refreshed(c) ==
    /\ conn[c].phase = "refreshing" /\ conn[c].answer = "yes"
    /\ Step(c, [conn[c] EXCEPT !.phase = "open", !.due = @ + Period, !.answer = "none"])

\* The lease disappeared or Redis did not answer; or the client, the session
\* or the server ended the connection.
Close(c) ==
    /\ Open(c)
    /\ conn[c].answer # "yes"
    /\ Step(c, [Done(c) EXCEPT !.phase = "closing"])

Release(c) ==
    /\ conn[c].phase = "closing"
    /\ lease' = [lease EXCEPT ![c] = NoLease]
    /\ conn' = [conn EXCEPT ![c] = Done(c)]
    /\ UNCHANGED <<now, late>>

\* The release fails, or the process dies.
Vanish(c) ==
    /\ conn[c].phase \notin {"new", "done"}
    /\ Step(c, Done(c))

\* The process of c is not scheduled in time from now on.
Stall(c) ==
    /\ c \notin late
    /\ Open(c)
    /\ late' = late \cup {c}
    /\ UNCHANGED <<now, lease, conn>>

\* Nobody has overslept: a refresh is sent when it is due, and a caller does
\* not wait for longer than MaxDelay.
Punctual(c) ==
    /\ conn[c].phase = "open" => now < conn[c].due
    /\ Waiting(c) => now < conn[c].call.at + MaxDelay

\* A call that nobody waits for and Redis cannot run any more is forgotten.
Forget(h) ==
    IF h.phase \notin {"acquiring", "refreshing"} /\ now >= h.call.at + MaxDelay
    THEN [h EXCEPT !.call = New.call]
    ELSE h

Tick ==
    /\ now < MaxTime
    /\ \A c \in Connections \ late : Punctual(c)
    /\ now' = now + 1
    /\ conn' = [c \in Connections |-> Forget(conn[c])]
    /\ UNCHANGED <<lease, late>>

Next ==
    \/ \E c \in Connections :
        \/ Connect(c)
        \/ Execute(c)
        \/ Acquired(c)
        \/ NotAcquired(c)
        \/ RefreshTick(c)
        \/ Refreshed(c)
        \/ Close(c)
        \/ Release(c)
        \/ Vanish(c)
        \/ Stall(c)
    \/ KeyExpires
    \/ Tick

Spec == Init /\ [][Next]_vars

-----------------------------------------------------------------------------
(* Properties. *)

\* The sorted set and the handlers; an answer is there only for a handler that
\* waits for it.
TypeOK ==
    /\ now \in 0..MaxTime
    /\ lease \in [Connections -> {NoLease} \cup Nat]
    /\ late \subseteq Connections
    /\ conn \in [Connections ->
            [phase : {"new", "acquiring", "open", "refreshing", "closing", "done"},
             due : Nat, call : [op : {"none", "acquire", "refresh"}, at : 0..MaxTime],
             answer : {"none", "yes", "no"}]]
    /\ \A c \in Connections : conn[c].answer # "none" => Waiting(c)

\* README, SSE events: at most 8 leases per owner, whatever processes with
\* different clocks acquire, repeat, refresh, release and leave behind.
LeaseBound == Cardinality(Held(lease)) <= MaxLeases

\* refreshLease, every TTL / 3: a connection that is refreshed in time keeps
\* its lease until it is closed, although others purge the set by clocks that
\* are ahead.  With LeaseBound, at most 8 such connections are open.
OpenHoldsLease == \A c \in Connections \ late : Open(c) => lease[c] # NoLease

\* refreshLeaseScript: a lease that expired, or was released, comes back only
\* by the acquire of its own connection; a refresh that arrives late does not
\* take a slot that was given away.
NoResurrection ==
    [][\A c \in Connections :
        lease[c] = NoLease /\ lease'[c] # NoLease => conn[c].call.op = "acquire"]_vars
=============================================================================
