----------------------- MODULE ConnectionLeaseProofs -----------------------
(***************************************************************************)
(* The bound on the leases of an owner, and that a connection refreshed in *)
(* time keeps its lease, for any connections, clocks, limit and TTL that   *)
(* satisfy LeaseAssumption and ClockAssumption.                            *)
(***************************************************************************)
EXTENDS ConnectionLease, FiniteSetTheorems, TLAPS

Handlers ==
    [phase : {"new", "acquiring", "open", "refreshing", "closing", "done"},
     due : Nat, call : [op : {"none", "acquire", "refresh"}, at : 0..MaxTime],
     answer : {"none", "yes", "no"}]

\* The constants are natural numbers.
LEMMA Constants ==
    /\ Period \in Nat /\ TTL \in Nat /\ MaxDelay \in Nat /\ MaxTime \in Nat
    /\ \A c \in Connections : Skew[c] \in Nat
  <1>1. TTL \in Nat /\ MaxDelay \in Nat /\ MaxTime \in Nat
    BY LeaseAssumption
  <1>2. TTL \div 3 \in Nat
    BY <1>1
  <1> QED
    BY <1>1, <1>2, LeaseAssumption DEF Period

\* What an executed script does to the sorted set: a member is left alone,
\* purged by the clock of the caller, or is the caller with its new score.
LEMMA ExecuteEffect ==
    ASSUME TypeOK, NEW c \in Connections, Execute(c)
    PROVE  /\ lease' \in [Connections -> {NoLease} \cup Nat]
           /\ \A d \in Connections \ {c} :
                lease'[d] # lease[d] =>
                    lease'[d] = NoLease /\ lease[d] <= conn[c].call.at + Skew[c]
           /\ \/ lease'[c] = lease[c]
              \/ lease'[c] = Score(c)
              \/ lease'[c] = NoLease /\ lease[c] <= conn[c].call.at + Skew[c]
           /\ conn'[c].answer = "yes" => lease'[c] = Score(c)
  <1> USE Constants DEF TypeOK
  <1>1. PICK answer \in {"yes", "no"} :
          /\ \/ conn[c].call.op = "acquire" /\ Acquire(c, lease', answer)
             \/ conn[c].call.op = "refresh" /\ Refresh(c, lease', answer)
          /\ conn' = [conn EXCEPT ![c].answer = IF Waiting(c) THEN answer ELSE "none"]
    BY DEF Execute
  <1>2. Score(c) \in Nat /\ conn[c].call.at + Skew[c] \in Nat
    BY DEF Score
  <1>3. Purged(c) \in [Connections -> {NoLease} \cup Nat]
    BY DEF Purged
  <1>4. CASE conn[c].call.op = "acquire" /\ Acquire(c, lease', answer)
    BY <1>1, <1>2, <1>3, <1>4 DEF Acquire, Purged
  <1>5. CASE conn[c].call.op = "refresh" /\ Refresh(c, lease', answer)
    BY <1>1, <1>2, <1>5 DEF Refresh
  <1> QED
    BY <1>1, <1>4, <1>5

\* Every step keeps the types.
LEMMA TypeStep == TypeOK /\ [Next]_vars => TypeOK'
  <1> SUFFICES ASSUME TypeOK, [Next]_vars PROVE TypeOK'
    OBVIOUS
  <1> USE Constants DEF TypeOK, Waiting
  <1>1. ASSUME NEW c \in Connections, Connect(c) PROVE TypeOK'
    BY <1>1 DEF Connect, Call, Step
  <1>2. ASSUME NEW c \in Connections, Execute(c) PROVE TypeOK'
    <2>1. lease' \in [Connections -> {NoLease} \cup Nat]
      BY <1>2, ExecuteEffect
    <2>2. PICK answer \in {"yes", "no"} :
            conn' = [conn EXCEPT ![c].answer = IF Waiting(c) THEN answer ELSE "none"]
      BY <1>2 DEF Execute
    <2>3. now' = now /\ late' = late
      BY <1>2 DEF Execute
    <2> QED
      BY <2>1, <2>2, <2>3
  <1>3. ASSUME NEW c \in Connections, Acquired(c) PROVE TypeOK'
    <2> DEFINE h == [conn[c] EXCEPT !.phase = "open", !.due = now + Period, !.answer = "none"]
    <2>1. now + Period \in Nat
      OBVIOUS
    <2>2. h \in Handlers
      BY <2>1 DEF Handlers
    <2>3. conn' = [conn EXCEPT ![c] = h] /\ UNCHANGED <<now, lease, late>>
      BY <1>3 DEF Acquired, Step
    <2> HIDE DEF h
    <2>4. conn' \in [Connections -> Handlers]
      BY <2>2, <2>3 DEF Handlers
    <2>5. h.answer = "none"
      BY DEF h
    <2> QED
      BY <2>3, <2>4, <2>5 DEF Handlers
  <1>4. ASSUME NEW c \in Connections, NotAcquired(c) PROVE TypeOK'
    BY <1>4 DEF NotAcquired, Done, Step
  <1>5. ASSUME NEW c \in Connections, RefreshTick(c) PROVE TypeOK'
    BY <1>5 DEF RefreshTick, Call, Step
  <1>6. ASSUME NEW c \in Connections, Refreshed(c) PROVE TypeOK'
    <2> DEFINE h == [conn[c] EXCEPT !.phase = "open", !.due = @ + Period, !.answer = "none"]
    <2>1. conn[c].due + Period \in Nat
      OBVIOUS
    <2>2. h \in Handlers
      BY <2>1 DEF Handlers
    <2>3. conn' = [conn EXCEPT ![c] = h] /\ UNCHANGED <<now, lease, late>>
      BY <1>6 DEF Refreshed, Step
    <2> HIDE DEF h
    <2>4. conn' \in [Connections -> Handlers]
      BY <2>2, <2>3 DEF Handlers
    <2>5. h.answer = "none"
      BY DEF h
    <2> QED
      BY <2>3, <2>4, <2>5 DEF Handlers
  <1>7. ASSUME NEW c \in Connections, Close(c) PROVE TypeOK'
    BY <1>7 DEF Close, Done, Step
  <1>8. ASSUME NEW c \in Connections, Release(c) PROVE TypeOK'
    BY <1>8 DEF Release, Done
  <1>9. ASSUME NEW c \in Connections, Vanish(c) PROVE TypeOK'
    BY <1>9 DEF Vanish, Done, Step
  <1>10. ASSUME NEW c \in Connections, Stall(c) PROVE TypeOK'
    BY <1>10 DEF Stall
  <1>11. CASE KeyExpires
    BY <1>11 DEF KeyExpires
  <1>12. CASE Tick
    BY <1>12 DEF Tick, Forget, New
  <1>13. CASE UNCHANGED vars
    BY <1>13 DEF vars
  <1> QED
    BY <1>1, <1>2, <1>3, <1>4, <1>5, <1>6, <1>7, <1>8, <1>9, <1>10, <1>11, <1>12, <1>13
    DEF Next

\* The sorted set, the handlers and the history keep their types.
THEOREM LeaseTypeCorrect == Spec => []TypeOK
  <1>1. Init => TypeOK
    BY Constants DEF Init, TypeOK, New
  <1> QED
    BY <1>1, TypeStep, PTL DEF Spec

-----------------------------------------------------------------------------
(* The bound. *)

\* Only the acquire script adds a member, and it counts before it adds.
LEMMA BoundStep == TypeOK /\ LeaseBound /\ [Next]_vars => LeaseBound'
  <1> SUFFICES ASSUME TypeOK, LeaseBound, [Next]_vars PROVE LeaseBound'
    OBVIOUS
  <1>0. \A S \in SUBSET Connections :
            IsFiniteSet(S) /\ Cardinality(S) \in Nat
    BY LeaseAssumption, FS_Subset, FS_CardinalityType
  <1>1. Held(lease) \subseteq Connections /\ Held(lease') \subseteq Connections
    BY DEF Held
  <1>2. MaxLeases \in Nat
    BY LeaseAssumption
  <1>3. ASSUME Held(lease') \subseteq Held(lease) PROVE LeaseBound'
    <2>1. Cardinality(Held(lease')) <= Cardinality(Held(lease))
      BY <1>0, <1>1, <1>3, FS_Subset
    <2> QED
      BY <2>1, <1>0, <1>1, <1>2 DEF LeaseBound
  <1>4. ASSUME NEW c \in Connections, Execute(c) PROVE LeaseBound'
    <2>1. PICK answer \in {"yes", "no"} :
            \/ Acquire(c, lease', answer)
            \/ Refresh(c, lease', answer)
      BY <1>4 DEF Execute
    <2>2. CASE Refresh(c, lease', answer)
      <3>1. Held(lease') \subseteq Held(lease)
        BY <2>2 DEF Refresh, Held, TypeOK
      <3> QED
        BY <3>1, <1>3
    <2>3. CASE Acquire(c, lease', answer) /\ Cardinality(Held(Purged(c))) >= MaxLeases
      <3>1. Held(lease') \subseteq Held(lease)
        BY <2>3 DEF Acquire, Purged, Held
      <3> QED
        BY <3>1, <1>3
    <2>4. CASE Acquire(c, lease', answer) /\ ~(Cardinality(Held(Purged(c))) >= MaxLeases)
      <3>1. lease' = [Purged(c) EXCEPT ![c] = Score(c)]
        BY <2>4 DEF Acquire
      <3>2. Held(lease') \subseteq Held(Purged(c)) \cup {c}
        BY <3>1 DEF Held, Purged
      <3>3. Held(Purged(c)) \subseteq Connections
        BY DEF Held
      <3>4. Cardinality(Held(Purged(c)) \cup {c}) <= Cardinality(Held(Purged(c))) + 1
        BY <1>0, <3>3, FS_AddElement
      <3>5. Cardinality(Held(lease')) <= Cardinality(Held(Purged(c)) \cup {c})
        BY <1>0, <3>2, <3>3, FS_Subset
      <3>6. /\ Cardinality(Held(Purged(c))) \in Nat
            /\ Cardinality(Held(Purged(c)) \cup {c}) \in Nat
            /\ Cardinality(Held(lease')) \in Nat
        BY <1>0, <1>1, <3>3
      <3> QED
        BY <2>4, <3>4, <3>5, <3>6, <1>2 DEF LeaseBound
    <2> QED
      BY <2>1, <2>2, <2>3, <2>4
  <1>5. ASSUME NEW c \in Connections, Release(c) PROVE LeaseBound'
    <2>1. Held(lease') \subseteq Held(lease)
      BY <1>5 DEF Release, Held, TypeOK
    <2> QED
      BY <2>1, <1>3
  <1>6. CASE KeyExpires
    <2>1. Held(lease') \subseteq Held(lease)
      BY <1>6 DEF KeyExpires, Held
    <2> QED
      BY <2>1, <1>3
  <1>7. ASSUME lease' = lease PROVE LeaseBound'
    BY <1>7 DEF LeaseBound, Held
  <1>8. \/ \E c \in Connections : Execute(c) \/ Release(c)
        \/ KeyExpires
        \/ lease' = lease
    BY DEF Next, vars, Step, Call, Connect, Acquired, NotAcquired, RefreshTick,
           Refreshed, Close, Vanish, Stall, Tick
  <1> QED
    BY <1>4, <1>5, <1>6, <1>7, <1>8

\* README, SSE events: never more leases than allowed, whatever is repeated,
\* late or left behind.
THEOREM LeasesAreBounded == Spec => []LeaseBound
  <1>1. Init => LeaseBound
    <2> SUFFICES ASSUME Init PROVE LeaseBound
      OBVIOUS
    <2>1. Held(lease) = {}
      BY DEF Init, Held
    <2> QED
      BY <2>1, FS_EmptySet, LeaseAssumption DEF LeaseBound
  <1> QED
    BY <1>1, BoundStep, LeaseTypeCorrect, PTL DEF Spec

\* refreshLeaseScript: only an acquire brings a lease back.
THEOREM LeasesStayLost == Spec => NoResurrection
  <1>1. TypeOK /\ [Next]_vars =>
            [\A c \in Connections :
                lease[c] = NoLease /\ lease'[c] # NoLease => conn[c].call.op = "acquire"]_vars
    <2> SUFFICES ASSUME TypeOK, [Next]_vars, NEW c \in Connections,
                        lease[c] = NoLease, lease'[c] # NoLease
                 PROVE  conn[c].call.op = "acquire"
      OBVIOUS
    <2>1. \/ \E d \in Connections : Execute(d) \/ Release(d)
          \/ KeyExpires
          \/ lease' = lease
      BY DEF Next, vars, Step, Call, Connect, Acquired, NotAcquired, RefreshTick,
             Refreshed, Close, Vanish, Stall, Tick
    <2>2. PICK d \in Connections : Execute(d)
      BY <2>1 DEF Release, KeyExpires, TypeOK
    <2>3. d = c
      BY <2>2, ExecuteEffect
    <2> QED
      BY <2>2, <2>3 DEF Execute, Refresh
  <1> QED
    BY <1>1, LeaseTypeCorrect, PTL DEF Spec, NoResurrection
-----------------------------------------------------------------------------
(* A connection that is refreshed in time keeps its lease. *)

\* The lowest score that an open connection can have before its next tick.
Floor(c) == conn[c].due - Period - MaxDelay + Skew[c] + TTL

\* Either the acquire has been answered, or the connection is open.
Owner(c) ==
    \/ conn[c].phase = "acquiring" /\ conn[c].answer = "yes"
    \/ Open(c)

\* Where a punctual handler stands between its ticks, and what score it has.
Timely(c) ==
    /\ Waiting(c) => now <= conn[c].call.at + MaxDelay
    /\ conn[c].phase = "acquiring" /\ conn[c].answer = "yes" => lease[c] = Score(c)
    /\ conn[c].phase = "open" =>
         /\ now <= conn[c].due
         /\ lease[c] >= Floor(c)
         /\ conn[c].call.op # "none" => conn[c].call.at >= conn[c].due - Period - MaxDelay
    /\ conn[c].phase = "refreshing" =>
         /\ conn[c].call.at = conn[c].due
         /\ lease[c] >= Floor(c)
         /\ conn[c].answer = "yes" => lease[c] = Score(c)

LInv ==
    /\ TypeOK
    /\ \A c \in Connections : conn[c].call.at <= now
    /\ \A c \in Connections \ late : Timely(c)

\* The clocks agree: no process sees the score of such a connection expired.
LEMMA Margin ==
    ASSUME LInv, NEW c \in Connections \ late, Owner(c)
    PROVE  /\ \A d \in Connections : lease[c] > now + Skew[d]
           /\ lease[c] # NoLease
           /\ now < lease[c] - Skew[c] + TTL
  <1> USE Constants DEF LInv, TypeOK
  <1>1. Timely(c)
    OBVIOUS
  <1>2. now \in Nat /\ conn[c].due \in Nat /\ conn[c].call.at \in Nat
        /\ lease[c] \in Int /\ Skew[c] \in Nat
    BY DEF NoLease
  <1>3. \A d \in Connections : Period + 2 * MaxDelay + Skew[d] - Skew[c] < TTL
    BY ClockAssumption
  <1>4. CASE conn[c].phase = "acquiring" /\ conn[c].answer = "yes"
    <2>1. lease[c] = conn[c].call.at + Skew[c] + TTL /\ now <= conn[c].call.at + MaxDelay
      BY <1>1, <1>4 DEF Timely, Waiting, Score
    <2> QED
      BY <2>1, <1>2, <1>3 DEF NoLease
  <1>5. CASE Open(c)
    <2>1. lease[c] >= Floor(c) /\ now <= conn[c].due + MaxDelay
      BY <1>1, <1>2, <1>5 DEF Timely, Waiting, Open
    <2> QED
      BY <2>1, <1>2, <1>3 DEF Floor, NoLease
  <1> QED
    BY <1>4, <1>5 DEF Owner

\* What the handler of c, the sorted set and time may change without making it
\* less punctual.
LEMMA TimelyFrame ==
    ASSUME NEW c \in Connections, Timely(c), now' = now, conn'[c] = conn[c],
           Owner(c) => lease'[c] = lease[c]
    PROVE  Timely(c)'
  BY DEF Timely, Owner, Waiting, Open, Score, Floor

\* Executing a script keeps every punctual handler punctual.
LEMMA ExecuteTimely ==
    ASSUME LInv, NEW d \in Connections, Execute(d), NEW c \in Connections \ late
    PROVE  Timely(c)'
  <1> USE Constants
  <1>1. TypeOK /\ Timely(c) /\ conn[d].call.at <= now
    BY DEF LInv
  <1>2. now' = now /\ late' = late
    BY DEF Execute
  <1>3. \A e \in Connections \ {d} : conn'[e] = conn[e]
    BY <1>1 DEF Execute, TypeOK
  <1>4. Owner(c) => ~(lease[c] <= conn[d].call.at + Skew[d])
    <2> SUFFICES ASSUME Owner(c) PROVE ~(lease[c] <= conn[d].call.at + Skew[d])
      OBVIOUS
    <2>1. lease[c] > now + Skew[d]
      BY Margin
    <2>2. now \in Int /\ conn[d].call.at \in Int /\ Skew[d] \in Int /\ lease[c] \in Int
      BY <1>1 DEF TypeOK, NoLease
    <2> QED
      BY <2>1, <2>2, <1>1
  <1>5. CASE c # d
    <2>1. Owner(c) => lease'[c] = lease[c]
      BY <1>1, <1>4, <1>5, ExecuteEffect
    <2> QED
      BY <1>1, <1>2, <1>3, <1>5, <2>1, TimelyFrame
  <1>6. CASE c = d
    <2>1. /\ Owner(c) => lease'[c] \in {lease[c], Score(c)}
          /\ conn'[c].answer = "yes" => lease'[c] = Score(c)
      BY <1>1, <1>4, <1>6, ExecuteEffect
    <2>2. /\ conn'[c].phase = conn[c].phase
          /\ conn'[c].due = conn[c].due
          /\ conn'[c].call = conn[c].call
          /\ conn[c].call.op # "none"
      BY <1>1, <1>6 DEF Execute, TypeOK
    <2>3. conn[c].due \in Int /\ conn[c].call.at \in Int /\ Skew[c] \in Int
      BY <1>1 DEF TypeOK
    <2>4. Score(c)' = Score(c) /\ Floor(c)' = Floor(c)
      BY <2>2 DEF Score, Floor
    <2>5. Open(c) => Score(c) >= Floor(c)
      BY <1>1, <2>2, <2>3 DEF Open, Timely, Score, Floor
    <2>6. Open(c) => lease'[c] >= Floor(c)
      BY <1>1, <2>1, <2>5 DEF Timely, Open, Owner
    <2> QED
      BY <1>1, <1>2, <2>1, <2>2, <2>4, <2>6 DEF Timely, Waiting, Open
  <1> QED
    BY <1>5, <1>6

\* A step of the handler of d leaves every other handler punctual.
LEMMA OthersTimely ==
    ASSUME LInv, NEW d \in Connections, NEW h, Step(d, h), NEW c \in Connections \ late, c # d
    PROVE  Timely(c)'
  BY TimelyFrame DEF LInv, Step, TypeOK

\* Every step keeps punctual handlers punctual.
LEMMA TimelyStep == LInv /\ [Next]_vars => LInv'
  <1> SUFFICES ASSUME LInv, [Next]_vars PROVE LInv'
    OBVIOUS
  <1> USE Constants
  <1>0. TypeOK /\ TypeOK'
    BY TypeStep DEF LInv
  <1> DEFINE Rest ==
        /\ \A c \in Connections : conn[c].call.at <= now
        /\ \A c \in Connections \ late : Timely(c)
  <1>1. ASSUME NEW d \in Connections, Connect(d) PROVE Rest'
    <2>1. Timely(d)'
      BY <1>0, <1>1 DEF Connect, Call, Step, Timely, Waiting, TypeOK
    <2>2. \A c \in Connections : conn'[c].call.at <= now'
      BY <1>0, <1>1 DEF Connect, Call, Step, LInv, TypeOK
    <2> QED
      BY <1>1, <2>1, <2>2, OthersTimely DEF Connect, Call, Step
  <1>2. ASSUME NEW d \in Connections, Execute(d) PROVE Rest'
    <2>1. \A c \in Connections : conn'[c].call.at <= now'
      BY <1>0, <1>2 DEF Execute, LInv, TypeOK
    <2>2. late' = late
      BY <1>2 DEF Execute
    <2> QED
      BY <1>2, <2>1, <2>2, ExecuteTimely
  <1>3. ASSUME NEW d \in Connections, Acquired(d) PROVE Rest'
    <2>1. ASSUME d \notin late PROVE Timely(d)'
      <3>1. /\ lease[d] = conn[d].call.at + Skew[d] + TTL
            /\ now <= conn[d].call.at + MaxDelay
        BY <1>3, <2>1 DEF Acquired, LInv, Timely, Waiting, Score
      <3>2. /\ conn'[d].phase = "open" /\ conn'[d].due = now + Period
            /\ conn'[d].call = conn[d].call
            /\ lease' = lease /\ now' = now
        BY <1>0, <1>3 DEF Acquired, Step, TypeOK
      <3>3. now \in Int /\ conn[d].call.at \in Int /\ Skew[d] \in Int
        BY <1>0 DEF TypeOK
      <3> QED
        BY <3>1, <3>2, <3>3 DEF Timely, Waiting, Floor
    <2>2. \A c \in Connections : conn'[c].call.at <= now'
      BY <1>0, <1>3 DEF Acquired, Step, LInv, TypeOK
    <2> QED
      BY <1>3, <2>1, <2>2, OthersTimely DEF Acquired, Step
  <1>4. ASSUME NEW d \in Connections, NotAcquired(d) \/ Close(d) \/ Vanish(d) PROVE Rest'
    <2>1. PICK h : Step(d, h) /\ h.phase \in {"done", "closing"} /\ h.call = conn[d].call
      <3>1. Done(d).phase = "done" /\ Done(d).call = conn[d].call
        BY <1>0 DEF Done, TypeOK
      <3>2. /\ [Done(d) EXCEPT !.phase = "closing"].phase = "closing"
            /\ [Done(d) EXCEPT !.phase = "closing"].call = conn[d].call
        BY <1>0 DEF Done, TypeOK
      <3>3. CASE Step(d, Done(d))
        BY <3>1, <3>3
      <3>4. CASE Step(d, [Done(d) EXCEPT !.phase = "closing"])
        BY <3>2, <3>4
      <3> QED
        BY <1>4, <3>3, <3>4 DEF NotAcquired, Close, Vanish
    <2>2. Timely(d)'
      BY <1>0, <2>1 DEF Step, Timely, Waiting, TypeOK
    <2>3. \A c \in Connections : conn'[c].call.at <= now'
      BY <1>0, <2>1 DEF Step, LInv, TypeOK
    <2> QED
      BY <2>1, <2>2, <2>3, OthersTimely DEF Step
  <1>5. ASSUME NEW d \in Connections, RefreshTick(d) PROVE Rest'
    <2>1. ASSUME d \notin late PROVE Timely(d)'
      <3>1. now <= conn[d].due /\ now >= conn[d].due /\ lease[d] >= Floor(d)
        BY <1>5, <2>1 DEF RefreshTick, LInv, Timely
      <3>2. /\ conn'[d].phase = "refreshing" /\ conn'[d].due = conn[d].due
            /\ conn'[d].call.at = now /\ conn'[d].answer = "none"
            /\ lease' = lease /\ now' = now
        BY <1>0, <1>5 DEF RefreshTick, Call, Step, TypeOK
      <3>3. now \in Int /\ conn[d].due \in Int
        BY <1>0 DEF TypeOK
      <3> QED
        BY <3>1, <3>2, <3>3 DEF Timely, Waiting, Floor
    <2>2. \A c \in Connections : conn'[c].call.at <= now'
      BY <1>0, <1>5 DEF RefreshTick, Call, Step, LInv, TypeOK
    <2> QED
      BY <1>5, <2>1, <2>2, OthersTimely DEF RefreshTick, Call, Step
  <1>6. ASSUME NEW d \in Connections, Refreshed(d) PROVE Rest'
    <2>1. ASSUME d \notin late PROVE Timely(d)'
      <3>1. /\ conn[d].call.at = conn[d].due
            /\ lease[d] = conn[d].call.at + Skew[d] + TTL
            /\ now <= conn[d].call.at + MaxDelay
        BY <1>6, <2>1 DEF Refreshed, LInv, Timely, Waiting, Score
      <3>2. /\ conn'[d].phase = "open" /\ conn'[d].due = conn[d].due + Period
            /\ conn'[d].call = conn[d].call
            /\ lease' = lease /\ now' = now
        BY <1>0, <1>6 DEF Refreshed, Step, TypeOK
      <3>3. now \in Int /\ conn[d].due \in Int /\ Skew[d] \in Int
        BY <1>0 DEF TypeOK
      <3> QED
        BY <3>1, <3>2, <3>3, ClockAssumption DEF Timely, Waiting, Floor
    <2>2. \A c \in Connections : conn'[c].call.at <= now'
      BY <1>0, <1>6 DEF Refreshed, Step, LInv, TypeOK
    <2> QED
      BY <1>6, <2>1, <2>2, OthersTimely DEF Refreshed, Step
  <1>7. ASSUME NEW d \in Connections, Release(d) PROVE Rest'
    <2>1. Timely(d)'
      BY <1>0, <1>7 DEF Release, Done, Timely, Waiting, TypeOK
    <2>2. ASSUME NEW c \in Connections \ late, c # d PROVE Timely(c)'
      BY <1>0, <1>7, <2>2, TimelyFrame DEF Release, LInv, TypeOK
    <2>3. \A c \in Connections : conn'[c].call.at <= now'
      BY <1>0, <1>7 DEF Release, Done, LInv, TypeOK
    <2> QED
      BY <1>7, <2>1, <2>2, <2>3 DEF Release
  <1>8. ASSUME NEW d \in Connections, Stall(d) PROVE Rest'
    <2>1. ASSUME NEW c \in Connections \ late PROVE Timely(c)'
      BY <1>8, <2>1, TimelyFrame DEF Stall, LInv
    <2> QED
      BY <1>8, <2>1 DEF Stall, LInv
  <1>9. ASSUME KeyExpires PROVE Rest'
    <2>1. ASSUME NEW c \in Connections \ late PROVE ~Owner(c)
      <3> SUFFICES ASSUME Owner(c) PROVE FALSE
        OBVIOUS
      <3>1. lease[c] # NoLease /\ now < lease[c] - Skew[c] + TTL
        BY Margin
      <3>2. now >= lease[c] - Skew[c] + TTL
        BY <1>9, <3>1 DEF KeyExpires, Held
      <3>3. now \in Int /\ lease[c] \in Int
        BY <1>0 DEF TypeOK, NoLease
      <3> QED
        BY <3>1, <3>2, <3>3
    <2>2. ASSUME NEW c \in Connections \ late PROVE Timely(c)'
      BY <1>9, <2>1, TimelyFrame DEF KeyExpires, LInv
    <2>3. late' = late /\ \A c \in Connections : conn'[c].call.at <= now'
      BY <1>9 DEF KeyExpires, LInv
    <2> QED
      BY <2>2, <2>3
  <1>10. ASSUME Tick PROVE Rest'
    <2>1. ASSUME NEW c \in Connections
          PROVE  /\ conn'[c].phase = conn[c].phase /\ conn'[c].due = conn[c].due
                 /\ conn'[c].answer = conn[c].answer
                 /\ \/ conn'[c].call = conn[c].call
                    \/ conn'[c].call = [op |-> "none", at |-> 0] /\ ~Waiting(c)
      BY <1>0, <1>10 DEF Tick, Forget, New, Waiting, TypeOK
    <2>2. now \in Nat /\ now' = now + 1 /\ lease' = lease /\ late' = late
      BY <1>0, <1>10 DEF Tick, TypeOK
    <2>3. \A c \in Connections : conn'[c].call.at <= now'
      <3> SUFFICES ASSUME NEW c \in Connections PROVE conn'[c].call.at <= now'
        OBVIOUS
      <3>1. conn[c].call.at <= now /\ conn[c].call.at \in Nat
        BY <1>0 DEF LInv, TypeOK
      <3> QED
        BY <2>1, <2>2, <3>1
    <2>4. ASSUME NEW c \in Connections \ late PROVE Timely(c)'
      <3>1. Punctual(c) /\ Timely(c)
        BY <1>10 DEF Tick, LInv
      <3>2. conn[c].due \in Int /\ conn[c].call.at \in Int
        BY <1>0 DEF TypeOK
      <3>3. Waiting(c) => now' <= conn'[c].call.at + MaxDelay /\ conn'[c].call = conn[c].call
        BY <2>1, <2>2, <3>1, <3>2 DEF Punctual
      <3>4. conn[c].phase = "open" => now' <= conn'[c].due
        BY <2>1, <2>2, <3>1, <3>2 DEF Punctual
      <3>5. Waiting(c)' = Waiting(c) /\ Floor(c)' = Floor(c)
        BY <2>1 DEF Waiting, Floor
      <3>6. Waiting(c) => Score(c)' = Score(c)
        BY <3>3 DEF Score
      <3>7. CASE conn[c].phase = "open"
        <4>1. \/ conn'[c].call = conn[c].call
              \/ conn'[c].call.op = "none"
          BY <2>1
        <4> QED
          BY <2>1, <2>2, <3>1, <3>4, <3>5, <3>7, <4>1 DEF Timely, Waiting
      <3>8. CASE Waiting(c)
        BY <2>1, <2>2, <3>1, <3>3, <3>5, <3>6, <3>8 DEF Timely, Waiting
      <3> QED
        BY <2>1, <3>5, <3>7, <3>8 DEF Timely, Waiting
    <2> QED
      BY <2>2, <2>3, <2>4
  <1>11. ASSUME UNCHANGED vars PROVE Rest'
    <2>1. ASSUME NEW c \in Connections \ late PROVE Timely(c)'
      <3>1. Timely(c) /\ now' = now /\ conn' = conn /\ lease' = lease
        BY <1>11 DEF vars, LInv
      <3> QED
        BY <3>1, TimelyFrame
    <2>2. late' = late /\ \A c \in Connections : conn'[c].call.at <= now'
      BY <1>11 DEF vars, LInv
    <2> QED
      BY <2>1, <2>2
  <1>12. Rest'
    BY <1>1, <1>2, <1>3, <1>4, <1>5, <1>6, <1>7, <1>8, <1>9, <1>10, <1>11 DEF Next
  <1> QED
    BY <1>0, <1>12 DEF LInv

\* refreshLease, every TTL / 3: a connection that is refreshed in time keeps
\* its lease until it is closed, if the clocks agree as ClockAssumption says.
THEOREM OpenConnectionsHoldLeases == Spec => []OpenHoldsLease
  <1>1. Init => LInv
    <2> SUFFICES ASSUME Init PROVE LInv
      OBVIOUS
    <2>1. TypeOK
      BY Constants DEF Init, TypeOK, New
    <2>2. \A c \in Connections : conn[c] = New
      BY DEF Init
    <2> QED
      BY <2>1, <2>2 DEF Init, LInv, Timely, Waiting, New
  <1>2. LInv => OpenHoldsLease
    BY Margin DEF OpenHoldsLease, Owner
  <1> QED
    BY <1>1, <1>2, TimelyStep, PTL DEF Spec
=============================================================================
