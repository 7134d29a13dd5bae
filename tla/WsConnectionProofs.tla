------------------------ MODULE WsConnectionProofs ------------------------
(***************************************************************************)
(* What a WebSocket owes its client: the result of a committed request,    *)
(* the hints of other connections, and the true reason of its end.  For    *)
(* any number of connections and hints and any capacity of the queue.      *)
(***************************************************************************)
EXTENDS WsConnection, TLAPS

Ended == {"closing", "closed", "gone"}

\* A writer that waits for the queue holds no message.
IdleInv == \A c \in Connections : writer[c] = "idle" => out[c] = Other

\* Every request committed before the one that is being answered.
AnswerInv ==
    \A c \in Connections : \A n \in committed[c] :
        at[c] \in Ended \cup {"failed"} \/ Has(c, Result(n))
            \/ (at[c] = "answering" /\ n = sent[c])

\* An error is in its channel before its goroutine cancels the context, and
\* only the reader takes it out, to end with it.
LossInv ==
    \A c \in Connections :
        /\ writer[c] = "reported" /\ at[c] \notin Ended => "write" \in errors[c]
        /\ lease[c] = "reported" /\ at[c] \notin Ended => "lease" \in errors[c]
        /\ done[c] \in {"writer", "lease"} /\ at[c] \notin Ended => errors[c] # {}
        /\ cause[c] = "context" => done[c] # "nobody"
        /\ cause[c] # "none" => at[c] \in Ended \cup {"failed"}

\* A hint is owed only to active peers that have been registered.
HintInv ==
    \A c \in Connections :
        /\ ~active[c] \/ at[c] = "new" => owed[c] = {}
        /\ c \in hub => at[c] # "new"
        /\ \A h \in owed[c] : c # Origin[h]

IInv ==
    /\ TypeOK /\ IdleInv
    /\ AnswerInv
    /\ LossInv /\ LossIsReported
    /\ HintInv /\ HintsReachPeers

LEMMA InitIInv == Init => IInv
    BY DEF Init, IInv, TypeOK, IdleInv, AnswerInv, LossInv, LossIsReported, HintInv, HintsReachPeers,
        Messages, Statuses, Places

-----------------------------------------------------------------------------
(* Messages and the queue.                                                 *)

LEMMA OtherIsNeither ==
    /\ \A n \in Nat : Result(n) \in Messages /\ Result(n) # Other
    /\ \A h \in Hints : HintMessage(h) \in Messages /\ HintMessage(h) # Other
    /\ Other \in Messages
    BY DEF Messages, Result, HintMessage, Other

LEMMA AppendAdds ==
    ASSUME NEW S, NEW q \in Seq(S), NEW m \in S
    PROVE  ToSet(Append(q, m)) = ToSet(q) \cup {m}
<1> DEFINE r == Append(q, m)
<1>1. /\ DOMAIN r = DOMAIN q \cup {Len(q) + 1}
      /\ \A i \in DOMAIN q : r[i] = q[i]
      /\ r[Len(q) + 1] = m
    OBVIOUS
<1>2. ToSet(r) = ToSet(q) \cup {m}
    BY <1>1 DEF ToSet
<1>3. QED BY <1>2

LEMMA HeadAndTail ==
    ASSUME NEW S, NEW q \in Seq(S), q # <<>>
    PROVE  /\ Head(q) \in S /\ Tail(q) \in Seq(S)
           /\ ToSet(q) \subseteq {Head(q)} \cup ToSet(Tail(q))
<1>1. Head(q) \in S /\ Tail(q) \in Seq(S) /\ Head(q) = q[1]
    OBVIOUS
<1>2. ASSUME NEW i \in DOMAIN q PROVE q[i] \in {Head(q)} \cup ToSet(Tail(q))
    <2>1. CASE i = 1
        BY <2>1, <1>1
    <2>2. CASE i # 1
        <3>1. i - 1 \in DOMAIN Tail(q) /\ Tail(q)[i - 1] = q[i]
            BY <2>2
        <3>2. QED BY <3>1 DEF ToSet
    <2>3. QED BY <2>1, <2>2
<1>3. QED BY <1>1, <1>2 DEF ToSet

\* Offer loses nothing, and adds its message if there is room.
LEMMA OfferEffect ==
    ASSUME TypeOK, NEW c \in Connections, NEW m \in Messages, Offer(c, m)
    PROVE  /\ queue' \in [Connections -> Seq(Messages)]
           /\ \A d \in Connections : ToSet(queue[d]) \subseteq ToSet(queue'[d])
           /\ Room(c) => m \in ToSet(queue'[c])
<1>1. queue[c] \in Seq(Messages)
    BY DEF TypeOK
<1>2. ToSet(Append(queue[c], m)) = ToSet(queue[c]) \cup {m}
    BY <1>1, AppendAdds
<1>3. CASE Room(c)
    BY <1>1, <1>2, <1>3 DEF Offer, TypeOK
<1>4. CASE ~Room(c)
    BY <1>4 DEF Offer, TypeOK
<1>5. QED BY <1>3, <1>4

-----------------------------------------------------------------------------
(* Types.                                                                  *)

Waits(c) ==
    \/ Open(c) \/ \E f \in Frames : ReadFrame(c, f)
    \/ \E why \in {"peer", "network"} : ReadFails(c, why)
    \/ ContextRead(c)

\* Steps of the reader that offer nothing to the queue.
Silent(c) ==
    \/ SeeError(c) \/ SeeNoError(c) \/ FatalFrame(c) \/ SetActive(c) \/ Commit(c)
    \/ CloseConnection(c) \/ Unregister(c)

\* Steps that may offer an answer.
Answers(c) ==
    Ping(c) \/ InvalidFrame(c) \/ Rpc(c) \/ NoCommit(c) \/ Answer(c) \/ AnswerTooLarge(c)

Ending(c) == Expire(c) \/ ServerCancels(c)

LEMMA Cases ==
    ASSUME Next
    PROVE  \/ \E c \in Connections :
                Waits(c) \/ Silent(c) \/ Answers(c) \/ Writer(c) \/ Lease(c) \/ Ending(c)
           \/ \E h \in Hints : BroadcastStart(h)
           \/ \E c \in Connections : BroadcastTo(c)
           \/ BroadcastEnd
    BY DEF Next, Step, Waits, Silent, Answers, Ending, Reader, Broadcasting

LEMMA CancelType ==
    ASSUME TypeOK, NEW c \in Connections,
           NEW who \in {"reader", "writer", "lease", "server"}, Cancel(c, who)
    PROVE  done' \in [Connections -> {"nobody", "reader", "writer", "lease", "server"}]
<1>1. CASE done[c] = "nobody"
    BY <1>1 DEF TypeOK, Cancel
<1>2. CASE done[c] # "nobody"
    BY <1>2 DEF TypeOK, Cancel
<1>3. QED BY <1>1, <1>2

LEMMA CommittedType ==
    ASSUME TypeOK, NEW c \in Connections, UNCHANGED committed \/ AddCommitted(c)
    PROVE  committed' \in [Connections -> SUBSET Nat]
<1>1. committed[c] \cup {sent[c]} \in SUBSET Nat
    BY DEF TypeOK
<1>2. CASE UNCHANGED committed
    BY <1>2 DEF TypeOK
<1>3. CASE AddCommitted(c)
    <2> DEFINE S == committed[c] \cup {sent[c]}
    <2>1. committed' = [committed EXCEPT ![c] = S]
        BY <1>3 DEF AddCommitted
    <2> HIDE DEF S
    <2>2. committed' \in [Connections -> SUBSET Nat]
        BY <1>1, <2>1 DEF TypeOK, S
    <2>3. QED BY <2>2
<1>4. QED BY <1>2, <1>3

LEMMA ErrorsType ==
    ASSUME TypeOK, NEW c \in Connections, NEW S \in SUBSET {"write", "lease"},
           errors' = [errors EXCEPT ![c] = S]
    PROVE  errors' \in [Connections -> SUBSET {"write", "lease"}]
    BY DEF TypeOK

LEMMA WaitsType ==
    ASSUME TypeOK, NEW c \in Connections, Waits(c)
    PROVE  TypeOK'
<1>1. CASE Open(c)
    BY <1>1 DEF TypeOK, Open, Goes, Places, Statuses, writerVars, endVars, hintVars
<1>2. ASSUME NEW f \in Frames, ReadFrame(c, f) PROVE TypeOK'
    BY <1>2 DEF TypeOK, ReadFrame, Places, writerVars, endVars, hintVars, peerVars
<1>3. ASSUME NEW why, ReadFails(c, why) PROVE TypeOK'
    BY <1>3 DEF TypeOK, ReadFails, Goes, Places, writerVars, hintVars, peerVars
<1>4. QED BY <1>1, <1>2, <1>3 DEF Waits, ContextRead

LEMMA SilentType ==
    ASSUME TypeOK, NEW c \in Connections, Silent(c)
    PROVE  TypeOK'
<1>1. CASE SeeError(c)
    <2>1. PICK e \in errors[c] : Ends(c, e) /\ errors' = [errors EXCEPT ![c] = errors[c] \ {e}]
        BY <1>1 DEF SeeError
    <2>2. errors[c] \ {e} \in SUBSET {"write", "lease"} /\ e \in {"write", "lease"}
        BY DEF TypeOK
    <2>3. errors' \in [Connections -> SUBSET {"write", "lease"}]
        BY <2>1, <2>2, ErrorsType
    <2>4. QED
      BY <1>1, <2>1, <2>2, <2>3 DEF TypeOK, SeeError, Ends, Goes, Places, Statuses, writerVars, hintVars, peerVars
<1>2. CASE SeeNoError(c)
    BY <1>2, CancelType DEF TypeOK, SeeNoError, Ends, Goes, Places, Statuses, writerVars, hintVars, peerVars
<1>3. CASE FatalFrame(c)
    BY <1>3 DEF TypeOK, FatalFrame, Handles, Ends, Goes, Places, Statuses, writerVars, endVars,
        hintVars, peerVars
<1>4. CASE SetActive(c)
    BY <1>4 DEF TypeOK, SetActive, Handles, Goes, Places, writerVars, endVars
<1>5. CASE Commit(c)
    BY <1>5 DEF TypeOK, Commit, AddCommitted, Goes, Places, writerVars, endVars, hintVars, peerVars
<1>6. CASE CloseConnection(c)
    BY <1>6, CancelType DEF TypeOK, CloseConnection, Goes, Places, writerVars, hintVars, peerVars
<1>7. CASE Unregister(c)
    BY <1>7 DEF TypeOK, Unregister, Goes, Places, writerVars, endVars, hintVars
<1>8. QED BY <1>1, <1>2, <1>3, <1>4, <1>5, <1>6, <1>7 DEF Silent

LEMMA AnswersType ==
    ASSUME TypeOK, NEW c \in Connections, Answers(c)
    PROVE  TypeOK'
<1>1. ASSUME NEW m \in Messages, Offer(c, m) PROVE queue' \in [Connections -> Seq(Messages)]
    BY <1>1, OfferEffect
<1>2. Other \in Messages /\ Result(sent[c]) \in Messages
    BY OtherIsNeither DEF TypeOK
<1>3. CASE Ping(c)
    <2>0. queue' \in [Connections -> Seq(Messages)]
        BY <1>1, <1>2, <1>3 DEF Ping
    <2>1. /\ at[c] = "got"
          /\ (Goes(c, "reading") /\ UNCHANGED status) \/ Ends(c, "slow")
          /\ UNCHANGED <<sent, cause, committed, writerVars, endVars, hub, active, hintVars>>
        BY <1>3 DEF Ping, Handles
    <2>2. CASE Goes(c, "reading") /\ UNCHANGED status
        BY <2>0, <2>1, <2>2 DEF TypeOK, Goes, Places, writerVars, endVars, hintVars
    <2>3. CASE Ends(c, "slow")
        BY <2>0, <2>1, <2>3 DEF TypeOK, Ends, Goes, Places, Statuses, writerVars, endVars, hintVars
    <2>4. QED BY <2>1, <2>2, <2>3
<1>33. CASE InvalidFrame(c)
    BY <1>1, <1>2, <1>33 DEF TypeOK, InvalidFrame, Handles, Goes, Places, writerVars, endVars, hintVars
<1>4. ASSUME Refuse(c), at[c] \in {"got", "transaction"} PROVE TypeOK'
    BY <1>1, <1>2, <1>4 DEF TypeOK, Refuse, Goes, Places, writerVars, endVars, hintVars
<1>5. ASSUME Fail(c), committed' \in [Connections -> SUBSET Nat] PROVE TypeOK'
    BY <1>1, <1>2, <1>5 DEF TypeOK, Fail, Ends, Goes, Places, Statuses, writerVars, endVars, hintVars
<1>6. UNCHANGED committed \/ AddCommitted(c) => committed' \in [Connections -> SUBSET Nat]
    BY CommittedType
<1>7. CASE Rpc(c)
    <2>1. CASE Goes(c, "transaction") /\ UNCHANGED <<sent, cause, status, committed, writerVars,
                                                     endVars, peerVars, hintVars>>
        BY <1>7, <2>1 DEF TypeOK, Rpc, Handles, Goes, Places, writerVars, endVars, hintVars, peerVars
    <2>2. QED BY <1>4, <1>5, <1>6, <1>7, <2>1 DEF Rpc, Handles
<1>8. CASE NoCommit(c)
    BY <1>4, <1>5, <1>6, <1>8 DEF NoCommit
<1>9. CASE Answer(c)
    <2>0. queue' \in [Connections -> Seq(Messages)]
        BY <1>1, <1>2, <1>9 DEF Answer
    <2>1. /\ at[c] = "answering"
          /\ (Goes(c, "reading") /\ UNCHANGED status) \/ Ends(c, "internal")
          /\ UNCHANGED <<sent, cause, committed, writerVars, endVars, hub, active, hintVars>>
        BY <1>9 DEF Answer
    <2>2. CASE Goes(c, "reading") /\ UNCHANGED status
        BY <2>0, <2>1, <2>2 DEF TypeOK, Goes, Places, writerVars, endVars, hintVars
    <2>3. CASE Ends(c, "internal")
        BY <2>0, <2>1, <2>3 DEF TypeOK, Ends, Goes, Places, Statuses, writerVars, endVars, hintVars
    <2>4. QED BY <2>1, <2>2, <2>3
<1>10. CASE AnswerTooLarge(c)
    BY <1>5, <1>6, <1>10 DEF AnswerTooLarge
<1>11. QED BY <1>3, <1>33, <1>7, <1>8, <1>9, <1>10 DEF Answers

LEMMA GoroutinesType ==
    ASSUME TypeOK, NEW c \in Connections, Writer(c) \/ Lease(c) \/ Ending(c)
    PROVE  TypeOK'
<1>1. CASE Take(c)
    <2>1. queue[c] \in Seq(Messages) /\ queue[c] # <<>>
        BY <1>1 DEF Take, TypeOK
    <2>2. Head(queue[c]) \in Messages /\ Tail(queue[c]) \in Seq(Messages)
        BY <2>1, HeadAndTail
    <2>3. QED
        BY <1>1, <2>2 DEF TypeOK, Take, Writes, readerVars, endVars, hintVars
<1>2. CASE Written(c)
    <2>1. out[c] \in Messages /\ Other \in Messages
        BY OtherIsNeither DEF TypeOK
    <2>2. delivered[c] \cup ({out[c]} \ {Other}) \in SUBSET Messages
        BY <2>1 DEF TypeOK
    <2>3. delivered' \in [Connections -> SUBSET Messages]
        BY <1>2, <2>2 DEF TypeOK, Written
    <2>4. QED
        BY <1>2, <2>1, <2>3 DEF TypeOK, Written, Writes, readerVars, endVars, hintVars, peerVars
<1>3. CASE WriteFails(c)
    BY <1>3 DEF TypeOK, WriteFails, Writes, readerVars, hintVars, peerVars
<1>4. CASE ReportWrite(c)
    <2>1. errors[c] \cup {"write"} \in SUBSET {"write", "lease"}
        BY DEF TypeOK
    <2>2. errors' \in [Connections -> SUBSET {"write", "lease"}]
        BY <1>4, <2>1, ErrorsType DEF ReportWrite
    <2>3. QED
        BY <1>4, <2>2 DEF TypeOK, ReportWrite, Writes, readerVars, hintVars, peerVars
<1>5. CASE StopWriter(c)
    <2>1. done' \in [Connections -> {"nobody", "reader", "writer", "lease", "server"}]
        BY <1>5, CancelType DEF StopWriter, TypeOK
    <2>2. writer' \in [Connections -> {"idle", "writing", "failed", "reported", "stopped"}]
        <3>1. writer' = [writer EXCEPT ![c] = "stopped"]
            BY <1>5 DEF StopWriter, Writes
        <3>2. QED BY <3>1 DEF TypeOK
    <2>3. QED
        BY <1>5, <2>1, <2>2 DEF TypeOK, StopWriter, readerVars, hintVars, peerVars
<1>6. CASE LeaseFails(c)
    BY <1>6 DEF TypeOK, LeaseFails, Leases, readerVars, writerVars, hintVars, peerVars
<1>7. CASE ReportLease(c)
    <2>1. errors[c] \cup {"lease"} \in SUBSET {"write", "lease"}
        BY DEF TypeOK
    <2>2. errors' \in [Connections -> SUBSET {"write", "lease"}]
        BY <1>7, <2>1, ErrorsType DEF ReportLease
    <2>3. QED
        BY <1>7, <2>2 DEF TypeOK, ReportLease, Leases, readerVars, writerVars, hintVars, peerVars
<1>8. CASE StopLease(c)
    <2>1. done' \in [Connections -> {"nobody", "reader", "writer", "lease", "server"}]
        BY <1>8, CancelType DEF StopLease, TypeOK
    <2>2. lease' \in [Connections -> {"held", "failed", "reported", "stopped"}]
        <3>1. lease' = [lease EXCEPT ![c] = "stopped"]
            BY <1>8 DEF StopLease, Leases
        <3>2. QED BY <3>1 DEF TypeOK
    <2>3. QED
        BY <1>8, <2>1, <2>2 DEF TypeOK, StopLease, readerVars, writerVars, hintVars, peerVars
<1>9. CASE Expire(c)
    BY <1>9 DEF TypeOK, Expire, readerVars, writerVars, hintVars, peerVars
<1>10. CASE ServerCancels(c)
    BY <1>10, CancelType DEF TypeOK, ServerCancels, readerVars, writerVars, hintVars, peerVars
<1>11. QED
    BY <1>1, <1>2, <1>3, <1>4, <1>5, <1>6, <1>7, <1>8, <1>9, <1>10 DEF Writer, Lease, Ending

LEMMA BroadcastType ==
    ASSUME TypeOK,
           \/ \E h \in Hints : BroadcastStart(h)
           \/ \E c \in Connections : BroadcastTo(c)
           \/ BroadcastEnd
    PROVE  TypeOK'
<1>1. ASSUME NEW h \in Hints, BroadcastStart(h) PROVE TypeOK'
    BY <1>1 DEF TypeOK, BroadcastStart, readerVars, writerVars, endVars, peerVars
<1>2. ASSUME NEW c \in Connections, BroadcastTo(c) PROVE TypeOK'
    <2>1. queue' \in [Connections -> Seq(Messages)]
        <3>1. HintMessage(hint) \in Messages
            BY <1>2, OtherIsNeither DEF BroadcastTo, TypeOK
        <3>2. QED BY <1>2, <3>1, OfferEffect DEF BroadcastTo, TypeOK
    <2>2. QED BY <1>2, <2>1 DEF TypeOK, BroadcastTo, readerVars, writerVars, endVars
<1>3. CASE BroadcastEnd
    BY <1>3 DEF TypeOK, BroadcastEnd, readerVars, writerVars, endVars, peerVars
<1>4. QED BY <1>1, <1>2, <1>3

LEMMA NextType ==
    ASSUME TypeOK, [Next]_<<scope, vars>>
    PROVE  TypeOK'
<1>1. CASE UNCHANGED <<scope, vars>>
    BY <1>1 DEF TypeOK, vars, readerVars, writerVars, endVars, peerVars, hintVars
<1>2. CASE Next
    BY <1>2, Cases, WaitsType, SilentType, AnswersType, GoroutinesType, BroadcastType
<1>3. QED BY <1>1, <1>2

-----------------------------------------------------------------------------
(* No step loses a message: it waits in the queue, is written, or has       *)
(* arrived.                                                                *)

LEMMA TransportCases ==
    ASSUME TypeOK, [Next]_<<scope, vars>>
    PROVE  \/ UNCHANGED <<queue, out, delivered>>
           \/ \E c \in Connections : \E m \in Messages :
                Offer(c, m) /\ UNCHANGED <<out, delivered>>
           \/ \E c \in Connections : Take(c) \/ Written(c)
<1> DEFINE Goal ==
        \/ UNCHANGED <<queue, out, delivered>>
        \/ \E c \in Connections : \E m \in Messages :
             Offer(c, m) /\ UNCHANGED <<out, delivered>>
        \/ \E c \in Connections : Take(c) \/ Written(c)
<1>1. CASE UNCHANGED <<scope, vars>>
    BY <1>1 DEF vars, peerVars, writerVars
<1>2. ASSUME NEW c \in Connections, Waits(c) \/ Silent(c) PROVE Goal
    BY <1>2 DEF Waits, ContextRead, Silent, Open, ReadFrame, ReadFails, SeeError, SeeNoError,
        FatalFrame, SetActive, Commit, CloseConnection, Unregister, peerVars, writerVars
<1>3. ASSUME NEW c \in Connections, Answers(c) PROVE Goal
    <2>1. Other \in Messages /\ Result(sent[c]) \in Messages
        BY OtherIsNeither DEF TypeOK
    <2>2. QED
        BY <1>3, <2>1 DEF Answers, Ping, InvalidFrame, Rpc, NoCommit, Answer, AnswerTooLarge,
            Refuse, Fail, peerVars, writerVars
<1>4. ASSUME NEW c \in Connections, Writer(c) \/ Lease(c) \/ Ending(c) PROVE Goal
    BY <1>4 DEF Writer, Lease, Ending, WriteFails, ReportWrite, StopWriter, LeaseFails,
        ReportLease, StopLease, Expire, ServerCancels, peerVars, writerVars
<1>5. ASSUME NEW h \in Hints, BroadcastStart(h) PROVE Goal
    BY <1>5 DEF BroadcastStart, peerVars, writerVars
<1>6. ASSUME NEW c \in Connections, BroadcastTo(c) PROVE Goal
    <2>1. HintMessage(hint) \in Messages
        BY <1>6, OtherIsNeither DEF BroadcastTo, TypeOK
    <2>2. QED BY <1>6, <2>1 DEF BroadcastTo, writerVars
<1>7. CASE BroadcastEnd
    BY <1>7 DEF BroadcastEnd, peerVars, writerVars
<1>8. QED BY <1>1, <1>2, <1>3, <1>4, <1>5, <1>6, <1>7, Cases

LEMMA NextIdle ==
    ASSUME TypeOK, IdleInv, [Next]_<<scope, vars>>
    PROVE  IdleInv'
<1>1. CASE UNCHANGED <<scope, vars>>
    BY <1>1 DEF IdleInv, vars, writerVars
<1>2. ASSUME NEW c \in Connections, Waits(c) \/ Silent(c) PROVE UNCHANGED <<writer, out>>
    BY <1>2 DEF Waits, ContextRead, Silent, Open, ReadFrame, ReadFails, SeeError, SeeNoError,
        FatalFrame, SetActive, Commit, CloseConnection, Unregister, writerVars
<1>3. ASSUME NEW c \in Connections, Answers(c) PROVE UNCHANGED <<writer, out>>
    BY <1>3 DEF Answers, Ping, InvalidFrame, Rpc, NoCommit, Answer, AnswerTooLarge,
        Refuse, Fail, writerVars
<1>4. ASSUME NEW c \in Connections, Lease(c) \/ Ending(c) PROVE UNCHANGED <<writer, out>>
    BY <1>4 DEF Lease, Ending, LeaseFails, ReportLease, StopLease, Expire, ServerCancels, writerVars
<1>5. ASSUME NEW c \in Connections, Writer(c) PROVE IdleInv'
    BY <1>5 DEF Writer, Take, Written, WriteFails, ReportWrite, StopWriter, Writes, IdleInv, TypeOK
<1>6. ASSUME NEW c \in Connections, BroadcastTo(c) PROVE UNCHANGED <<writer, out>>
    BY <1>6 DEF BroadcastTo, writerVars
<1>7. ASSUME NEW h \in Hints, BroadcastStart(h) PROVE UNCHANGED <<writer, out>>
    BY <1>7 DEF BroadcastStart, writerVars
<1>8. BroadcastEnd => UNCHANGED <<writer, out>>
    BY DEF BroadcastEnd, writerVars
<1>9. UNCHANGED <<writer, out>> => IdleInv'
    BY DEF IdleInv
<1>10. QED BY <1>1, <1>2, <1>3, <1>4, <1>5, <1>6, <1>7, <1>8, <1>9, Cases

LEMMA MessagesStay ==
    ASSUME TypeOK, IdleInv, [Next]_<<scope, vars>>, NEW d \in Connections, NEW m, m # Other, Has(d, m)
    PROVE  Has(d, m)'
<1>1. CASE UNCHANGED <<queue, out, delivered>>
    BY <1>1 DEF Has
<1>2. ASSUME NEW c \in Connections, NEW n \in Messages, Offer(c, n), UNCHANGED <<out, delivered>>
      PROVE  Has(d, m)'
    <2>1. ToSet(queue[d]) \subseteq ToSet(queue'[d])
        BY <1>2, OfferEffect
    <2>2. QED BY <1>2, <2>1 DEF Has
<1>3. ASSUME NEW c \in Connections, Take(c) PROVE Has(d, m)'
    <2>1. CASE c = d
        <3>1. queue[c] \in Seq(Messages) /\ queue[c] # <<>>
            BY <1>3 DEF Take, TypeOK
        <3>2. ToSet(queue[c]) \subseteq {Head(queue[c])} \cup ToSet(Tail(queue[c]))
            BY <3>1, HeadAndTail
        <3>3. /\ out'[c] = Head(queue[c]) /\ queue'[c] = Tail(queue[c]) /\ delivered' = delivered
              /\ writer[c] = "idle"
            BY <1>3 DEF Take, Writes, TypeOK
        <3>4. out[c] = Other
            BY <3>3 DEF IdleInv
        <3>5. QED BY <2>1, <3>2, <3>3, <3>4 DEF Has
    <2>2. CASE c # d
        BY <1>3, <2>2 DEF Take, TypeOK, Has
    <2>3. QED BY <2>1, <2>2
<1>4. ASSUME NEW c \in Connections, Written(c) PROVE Has(d, m)'
    BY <1>4 DEF Written, TypeOK, Has, peerVars
<1>5. QED BY <1>1, <1>2, <1>3, <1>4, TransportCases

-----------------------------------------------------------------------------
(* Committed requests.                                                     *)

\* What a step does to the reader of d: it ends, it stays, it goes on with
\* another frame, it commits, or it has offered the result.
ReaderCase(d) ==
    \/ at'[d] \in Ended \cup {"failed"}
    \/ at'[d] = at[d] /\ committed'[d] = committed[d] /\ sent'[d] = sent[d]
    \/ at[d] \notin Ended \cup {"failed", "answering"} /\ committed'[d] = committed[d]
    \/ /\ at[d] = "transaction" /\ at'[d] = "answering" /\ sent'[d] = sent[d]
       /\ committed'[d] = committed[d] \cup {sent[d]}
    \/ /\ at[d] = "answering" /\ sent'[d] = sent[d] /\ committed'[d] = committed[d]
       /\ Has(d, Result(sent[d]))'

LEMMA WaitsReader ==
    ASSUME TypeOK, NEW c \in Connections, NEW d \in Connections, Waits(c)
    PROVE  ReaderCase(d)
<1>1. CASE Open(c)
    BY <1>1 DEF TypeOK, ReaderCase, Open, Goes, Ended
<1>2. ASSUME NEW f \in Frames, ReadFrame(c, f) PROVE ReaderCase(d)
    BY <1>2 DEF TypeOK, ReaderCase, ReadFrame, Ended
<1>3. ASSUME NEW why, ReadFails(c, why) PROVE ReaderCase(d)
    BY <1>3 DEF TypeOK, ReaderCase, ReadFails, Goes, Ended
<1>4. QED BY <1>1, <1>2, <1>3 DEF Waits, ContextRead

LEMMA SilentReader ==
    ASSUME TypeOK, NEW c \in Connections, NEW d \in Connections, Silent(c)
    PROVE  ReaderCase(d)
<1>1. CASE SeeError(c)
    BY <1>1 DEF TypeOK, ReaderCase, SeeError, Ends, Goes, Ended
<1>2. CASE SeeNoError(c)
    BY <1>2 DEF TypeOK, ReaderCase, SeeNoError, Ends, Goes, Ended
<1>3. CASE FatalFrame(c)
    BY <1>3 DEF TypeOK, ReaderCase, FatalFrame, Ends, Goes, Ended
<1>4. CASE SetActive(c)
    BY <1>4 DEF TypeOK, ReaderCase, SetActive, Handles, Goes, Ended
<1>5. CASE Commit(c)
    BY <1>5 DEF TypeOK, ReaderCase, Commit, AddCommitted, Goes, Ended
<1>6. CASE CloseConnection(c)
    BY <1>6 DEF TypeOK, ReaderCase, CloseConnection, Goes, Ended
<1>7. CASE Unregister(c)
    BY <1>7 DEF TypeOK, ReaderCase, Unregister, Goes, Ended
<1>8. QED BY <1>1, <1>2, <1>3, <1>4, <1>5, <1>6, <1>7 DEF Silent

LEMMA AnswersReader ==
    ASSUME TypeOK, NEW c \in Connections, NEW d \in Connections, Answers(c)
    PROVE  ReaderCase(d)
<1>1. CASE Ping(c)
    BY <1>1 DEF TypeOK, ReaderCase, Ping, Handles, Ends, Goes, Ended
<1>2. CASE InvalidFrame(c)
    BY <1>2 DEF TypeOK, ReaderCase, InvalidFrame, Handles, Goes, Ended
<1>3. ASSUME Refuse(c), at[c] \in {"got", "transaction"} PROVE ReaderCase(d)
    BY <1>3 DEF TypeOK, ReaderCase, Refuse, Goes, Ended
<1>4. ASSUME Fail(c), UNCHANGED committed \/ AddCommitted(c) PROVE ReaderCase(d)
    BY <1>4 DEF TypeOK, ReaderCase, Fail, AddCommitted, Ends, Goes, Ended
<1>5. CASE Rpc(c)
    <2>1. CASE Goes(c, "transaction") /\ UNCHANGED <<sent, cause, status, committed, writerVars,
                                                     endVars, peerVars, hintVars>>
        BY <1>5, <2>1 DEF TypeOK, ReaderCase, Rpc, Handles, Goes, Ended
    <2>2. QED BY <1>3, <1>4, <1>5, <2>1 DEF Rpc, Handles
<1>6. CASE NoCommit(c)
    BY <1>3, <1>4, <1>6 DEF NoCommit
<1>7. CASE Answer(c)
    <2>1. Result(sent[c]) \in Messages
        BY OtherIsNeither DEF TypeOK
    <2>2. Room(c) => Result(sent[c]) \in ToSet(queue'[c])
        BY <1>7, <2>1, OfferEffect DEF Answer
    <2>3. at[c] = "answering" /\ UNCHANGED <<sent, committed>>
        BY <1>7 DEF Answer
    <2>4. (Room(c) /\ Goes(c, "reading")) \/ Ends(c, "internal")
        BY <1>7 DEF Answer
    <2>5. CASE Room(c) /\ Goes(c, "reading")
        <3>1. Has(c, Result(sent[c]))'
            BY <2>2, <2>3, <2>5 DEF Has
        <3>2. QED BY <2>3, <2>5, <3>1 DEF TypeOK, ReaderCase, Goes
    <2>6. CASE Ends(c, "internal")
        BY <2>3, <2>6 DEF TypeOK, ReaderCase, Ends, Goes, Ended
    <2>7. QED BY <2>4, <2>5, <2>6
<1>8. CASE AnswerTooLarge(c)
    BY <1>4, <1>8 DEF AnswerTooLarge
<1>9. QED BY <1>1, <1>2, <1>5, <1>6, <1>7, <1>8 DEF Answers

LEMMA NextReader ==
    ASSUME TypeOK, [Next]_<<scope, vars>>, NEW d \in Connections
    PROVE  ReaderCase(d)
<1>1. UNCHANGED <<at, committed, sent>> => ReaderCase(d)
    BY DEF ReaderCase
<1>2. UNCHANGED <<scope, vars>> => UNCHANGED <<at, committed, sent>>
    BY DEF vars, readerVars
<1>3. ASSUME NEW c \in Connections, Writer(c) PROVE UNCHANGED <<at, committed, sent>>
    BY <1>3 DEF Writer, Take, Written, WriteFails, ReportWrite, StopWriter, readerVars
<1>4. ASSUME NEW c \in Connections, Lease(c) \/ Ending(c) PROVE UNCHANGED <<at, committed, sent>>
    BY <1>4 DEF Lease, Ending, LeaseFails, ReportLease, StopLease, Expire, ServerCancels, readerVars
<1>5. ASSUME NEW h \in Hints, BroadcastStart(h) PROVE UNCHANGED <<at, committed, sent>>
    BY <1>5 DEF BroadcastStart, readerVars
<1>6. ASSUME NEW c \in Connections, BroadcastTo(c) PROVE UNCHANGED <<at, committed, sent>>
    BY <1>6 DEF BroadcastTo, readerVars
<1>7. BroadcastEnd => UNCHANGED <<at, committed, sent>>
    BY DEF BroadcastEnd, readerVars
<1>8. QED
    BY <1>1, <1>2, <1>3, <1>4, <1>5, <1>6, <1>7, Cases, WaitsReader, SilentReader, AnswersReader

LEMMA NextAnswer ==
    ASSUME TypeOK, IdleInv, AnswerInv, [Next]_<<scope, vars>>
    PROVE  AnswerInv'
<1> SUFFICES ASSUME NEW d \in Connections, NEW n \in committed'[d],
                    at'[d] \notin Ended \cup {"failed"}
             PROVE  Has(d, Result(n))' \/ (at'[d] = "answering" /\ n = sent'[d])
    BY DEF AnswerInv
<1>1. ReaderCase(d)
    BY NextReader
<1>2. ASSUME n \in Nat, Has(d, Result(n)) PROVE Has(d, Result(n))'
    BY <1>2, MessagesStay, OtherIsNeither
<1>3. committed[d] \subseteq Nat
    BY DEF TypeOK
<1>4. \A k \in committed[d] : at[d] \in Ended \cup {"failed"} \/ Has(d, Result(k))
                                \/ (at[d] = "answering" /\ k = sent[d])
    BY DEF AnswerInv
<1>5. CASE at'[d] = at[d] /\ committed'[d] = committed[d] /\ sent'[d] = sent[d]
    BY <1>2, <1>3, <1>4, <1>5
<1>6. CASE at[d] \notin Ended \cup {"failed", "answering"} /\ committed'[d] = committed[d]
    BY <1>2, <1>3, <1>4, <1>6
<1>7. CASE /\ at[d] = "transaction" /\ at'[d] = "answering" /\ sent'[d] = sent[d]
           /\ committed'[d] = committed[d] \cup {sent[d]}
    BY <1>2, <1>3, <1>4, <1>7 DEF Ended
<1>8. CASE /\ at[d] = "answering" /\ sent'[d] = sent[d] /\ committed'[d] = committed[d]
           /\ Has(d, Result(sent[d]))'
    BY <1>2, <1>3, <1>4, <1>8 DEF Ended
<1>9. QED BY <1>1, <1>5, <1>6, <1>7, <1>8 DEF ReaderCase

-----------------------------------------------------------------------------
(* Losses.                                                                 *)

LossPart(c) ==
    /\ writer[c] = "reported" /\ at[c] \notin Ended => "write" \in errors[c]
    /\ lease[c] = "reported" /\ at[c] \notin Ended => "lease" \in errors[c]
    /\ done[c] \in {"writer", "lease"} /\ at[c] \notin Ended => errors[c] # {}
    /\ cause[c] = "context" => done[c] # "nobody"
    /\ cause[c] # "none" => at[c] \in Ended \cup {"failed"}
    /\ status[c] # "none" /\ cause[c] = "context" /\ done[c] \in {"writer", "lease"} =>
          status[c] \in {"write", "lease"}

LEMMA LossParts == LossInv /\ LossIsReported <=> \A c \in Connections : LossPart(c)
    BY DEF LossInv, LossIsReported, LossPart

LEMMA ReaderLoss ==
    ASSUME TypeOK, NEW c \in Connections, NEW d \in Connections, LossPart(d),
           Waits(c) \/ Silent(c)
    PROVE  LossPart(d)'
<1>0. status[d] # "none" <=> at[d] \in Ended
    BY DEF TypeOK, Ended
<1>1. CASE Open(c)
    BY <1>0, <1>1 DEF TypeOK, LossPart, Open, Goes, Ended, writerVars, endVars
<1>2. ASSUME NEW f \in Frames, ReadFrame(c, f) PROVE LossPart(d)'
    BY <1>0, <1>2 DEF TypeOK, LossPart, ReadFrame, Ended, writerVars, endVars
<1>3. ASSUME NEW why, ReadFails(c, why) PROVE LossPart(d)'
    BY <1>0, <1>3 DEF TypeOK, LossPart, ReadFails, Goes, Ended, writerVars
<1>4. CASE SeeError(c)
    <2>1. PICK e \in errors[c] : Ends(c, e) /\ errors' = [errors EXCEPT ![c] = errors[c] \ {e}]
        BY <1>4 DEF SeeError
    <2>2. e \in {"write", "lease"}
        BY DEF TypeOK
    <2>3. UNCHANGED <<writer, lease, done, cause>>
        BY <1>4 DEF SeeError, writerVars
    <2>4. QED BY <1>0, <2>1, <2>2, <2>3 DEF TypeOK, LossPart, Ends, Goes, Ended
<1>5. CASE SeeNoError(c)
    <2>1. at[c] = "failed" /\ errors[c] = {}
        BY <1>5 DEF SeeNoError
    <2>2. \E code : Ends(c, code)
        BY <1>5 DEF SeeNoError
    <2>3. UNCHANGED <<writer, lease, errors, cause>>
        BY <1>5 DEF SeeNoError, writerVars
    <2>4. Cancel(c, "reader") \/ done' = done
        BY <1>5 DEF SeeNoError
    <2>5. CASE c = d
        BY <1>0, <2>1, <2>2, <2>3, <2>4, <2>5 DEF TypeOK, LossPart, Ends, Goes, Ended, Cancel
    <2>6. CASE c # d
        BY <2>2, <2>3, <2>4, <2>6 DEF TypeOK, LossPart, Ends, Goes, Cancel
    <2>7. QED BY <2>5, <2>6
<1>6. CASE FatalFrame(c)
    BY <1>0, <1>6 DEF TypeOK, LossPart, FatalFrame, Handles, Ends, Goes, Ended, writerVars, endVars
<1>7. CASE SetActive(c)
    BY <1>0, <1>7 DEF TypeOK, LossPart, SetActive, Handles, Goes, Ended, writerVars, endVars
<1>8. CASE Commit(c)
    BY <1>0, <1>8 DEF TypeOK, LossPart, Commit, Goes, Ended, writerVars, endVars
<1>9. CASE CloseConnection(c)
    BY <1>0, <1>9 DEF TypeOK, LossPart, CloseConnection, Cancel, Goes, Ended, writerVars
<1>10. CASE Unregister(c)
    BY <1>0, <1>10 DEF TypeOK, LossPart, Unregister, Goes, Ended, writerVars, endVars
<1>11. QED
    BY <1>1, <1>2, <1>3, <1>4, <1>5, <1>6, <1>7, <1>8, <1>9, <1>10 DEF Waits, ContextRead, Silent

LEMMA AnswersLoss ==
    ASSUME TypeOK, NEW c \in Connections, NEW d \in Connections, LossPart(d), Answers(c)
    PROVE  LossPart(d)'
<1>1. /\ at[c] \in {"got", "transaction", "answering"}
      /\ UNCHANGED <<writer, lease, errors, done, cause>>
    BY DEF Answers, Ping, InvalidFrame, Rpc, NoCommit, Answer, AnswerTooLarge, Refuse, Fail,
        Handles, writerVars, endVars
<1>2. \/ \E code : Ends(c, code)
      \/ \E place \in {"reading", "transaction"} : Goes(c, place) /\ UNCHANGED status
    BY DEF Answers, Ping, InvalidFrame, Rpc, NoCommit, Answer, AnswerTooLarge, Refuse, Fail
<1>3. status[d] # "none" <=> at[d] \in Ended
    BY DEF TypeOK, Ended
<1>4. QED BY <1>1, <1>2, <1>3 DEF TypeOK, LossPart, Ends, Goes, Ended

LEMMA GoroutinesLoss ==
    ASSUME TypeOK, NEW c \in Connections, NEW d \in Connections, LossPart(d),
           Writer(c) \/ Lease(c) \/ Ending(c)
    PROVE  LossPart(d)'
<1>0. status[d] # "none" <=> at[d] \in Ended
    BY DEF TypeOK, Ended
<1>1. CASE Take(c)
    BY <1>1 DEF TypeOK, LossPart, Take, Writes, readerVars, endVars
<1>2. CASE Written(c)
    BY <1>2 DEF TypeOK, LossPart, Written, Writes, readerVars, endVars
<1>3. CASE WriteFails(c)
    BY <1>3 DEF TypeOK, LossPart, WriteFails, Writes, readerVars
<1>4. CASE ReportWrite(c)
    BY <1>4 DEF TypeOK, LossPart, ReportWrite, Writes, readerVars
<1>5. CASE StopWriter(c)
    <2>1. /\ writer' = [writer EXCEPT ![c] = "stopped"]
          /\ (writer[c] = "reported" /\ Cancel(c, "writer")) \/ done' = done
          /\ UNCHANGED <<lease, errors, at, cause, status>>
        BY <1>5 DEF StopWriter, Writes, readerVars
    <2>2. QED BY <1>0, <2>1 DEF TypeOK, LossPart, Cancel, Ended
<1>6. CASE LeaseFails(c)
    BY <1>6 DEF TypeOK, LossPart, LeaseFails, Leases, readerVars, writerVars
<1>7. CASE ReportLease(c)
    BY <1>7 DEF TypeOK, LossPart, ReportLease, Leases, readerVars, writerVars
<1>8. CASE StopLease(c)
    <2>1. /\ lease' = [lease EXCEPT ![c] = "stopped"]
          /\ (lease[c] = "reported" /\ Cancel(c, "lease")) \/ done' = done
          /\ UNCHANGED <<writer, errors, at, cause, status>>
        BY <1>8 DEF StopLease, Leases, readerVars, writerVars
    <2>2. QED BY <1>0, <2>1 DEF TypeOK, LossPart, Cancel, Ended
<1>9. CASE Expire(c)
    BY <1>9 DEF LossPart, Expire, readerVars, writerVars
<1>10. CASE ServerCancels(c)
    BY <1>10 DEF TypeOK, LossPart, ServerCancels, Cancel, readerVars, writerVars
<1>11. QED
    BY <1>1, <1>2, <1>3, <1>4, <1>5, <1>6, <1>7, <1>8, <1>9, <1>10 DEF Writer, Lease, Ending

LEMMA NextLoss ==
    ASSUME TypeOK, LossInv, LossIsReported, [Next]_<<scope, vars>>
    PROVE  LossInv' /\ LossIsReported'
<1>1. SUFFICES ASSUME NEW d \in Connections PROVE LossPart(d)'
    BY DEF LossPart, LossInv, LossIsReported
<1>2. LossPart(d)
    BY LossParts
<1>3. UNCHANGED <<scope, vars>> => LossPart(d)'
    BY <1>2 DEF LossPart, vars, readerVars, writerVars, endVars
<1>4. ASSUME NEW h \in Hints, BroadcastStart(h) PROVE LossPart(d)'
    BY <1>2, <1>4 DEF LossPart, BroadcastStart, readerVars, writerVars, endVars
<1>5. ASSUME NEW c \in Connections, BroadcastTo(c) PROVE LossPart(d)'
    BY <1>2, <1>5 DEF LossPart, BroadcastTo, readerVars, writerVars, endVars
<1>6. BroadcastEnd => LossPart(d)'
    BY <1>2 DEF LossPart, BroadcastEnd, readerVars, writerVars, endVars
<1>7. QED
    BY <1>2, <1>3, <1>4, <1>5, <1>6, Cases, ReaderLoss, AnswersLoss, GoroutinesLoss

-----------------------------------------------------------------------------
(* Hints.                                                                  *)

HintPart(c) ==
    /\ ~active[c] \/ at[c] = "new" => owed[c] = {}
    /\ c \in hub => at[c] # "new"
    /\ \A h \in owed[c] : c # Origin[h]
    /\ c \in hub /\ c \notin slow =>
          \A h \in owed[c] : Has(c, HintMessage(h)) \/ (h = hint /\ c \in todo)

LEMMA HintParts ==
    TypeOK => (HintInv /\ HintsReachPeers <=> \A c \in Connections : HintPart(c))
    BY DEF TypeOK, HintInv, HintsReachPeers, HintPart

\* A step of no broadcast that leaves the peer where it is.
HintQuiet(d) ==
    /\ UNCHANGED hintVars /\ active'[d] = active[d]
    /\ at[d] # "new" => at'[d] # "new"
    /\ d \in hub' => d \in hub \/ (at[d] = "new" /\ at'[d] # "new")
    /\ at'[d] = "new" => at[d] = "new"

LEMMA QuietKeepsHints ==
    ASSUME TypeOK, IdleInv, [Next]_<<scope, vars>>, NEW d \in Connections, HintPart(d),
           HintQuiet(d)
    PROVE  HintPart(d)'
<1>1. owed'[d] = owed[d] /\ owed[d] \subseteq Hints /\ hint' = hint /\ todo' = todo /\ slow' = slow
    BY DEF HintQuiet, TypeOK, hintVars
<1>2. ASSUME NEW h \in owed[d], Has(d, HintMessage(h)) PROVE Has(d, HintMessage(h))'
    <2>1. HintMessage(h) # Other
        BY <1>1, OtherIsNeither
    <2>2. QED BY <1>2, <2>1, MessagesStay
<1>3. QED BY <1>1, <1>2 DEF HintPart, HintQuiet

LEMMA WaitsQuiet ==
    ASSUME TypeOK, NEW c \in Connections, NEW d \in Connections, HintPart(d), Waits(c)
    PROVE  HintQuiet(d)
<1>1. CASE Open(c)
    BY <1>1 DEF TypeOK, HintQuiet, Open, Goes
<1>2. ASSUME NEW f \in Frames, ReadFrame(c, f) PROVE HintQuiet(d)
    BY <1>2 DEF TypeOK, HintQuiet, ReadFrame, peerVars
<1>3. ASSUME NEW why, ReadFails(c, why) PROVE HintQuiet(d)
    BY <1>3 DEF TypeOK, HintQuiet, ReadFails, Goes, peerVars
<1>4. QED BY <1>1, <1>2, <1>3 DEF Waits, ContextRead

LEMMA SilentQuiet ==
    ASSUME TypeOK, NEW c \in Connections, NEW d \in Connections, HintPart(d), Silent(c),
           ~SetActive(c)
    PROVE  HintQuiet(d)
<1>1. CASE SeeError(c)
    BY <1>1 DEF TypeOK, HintQuiet, SeeError, Ends, Goes, peerVars
<1>2. CASE SeeNoError(c)
    BY <1>2 DEF TypeOK, HintQuiet, SeeNoError, Ends, Goes, peerVars
<1>3. CASE FatalFrame(c)
    BY <1>3 DEF TypeOK, HintQuiet, FatalFrame, Ends, Goes, Handles, peerVars
<1>4. CASE Commit(c)
    BY <1>4 DEF TypeOK, HintQuiet, Commit, Goes, peerVars
<1>5. CASE CloseConnection(c)
    BY <1>5 DEF TypeOK, HintQuiet, CloseConnection, Goes, peerVars
<1>6. CASE Unregister(c)
    BY <1>6 DEF TypeOK, HintQuiet, Unregister, Goes
<1>7. QED BY <1>1, <1>2, <1>3, <1>4, <1>5, <1>6 DEF Silent

LEMMA AnswersQuiet ==
    ASSUME TypeOK, NEW c \in Connections, NEW d \in Connections, HintPart(d), Answers(c)
    PROVE  HintQuiet(d)
<1>1. /\ at[c] # "new"
      /\ UNCHANGED <<hintVars, active, hub>>
    BY DEF Answers, Ping, InvalidFrame, Rpc, NoCommit, Answer, AnswerTooLarge, Refuse, Fail,
        Handles, peerVars
<1>2. \E place \in {"reading", "transaction", "closing"} : Goes(c, place)
    BY DEF Answers, Ping, InvalidFrame, Rpc, NoCommit, Answer, AnswerTooLarge, Refuse, Fail, Ends
<1>3. QED BY <1>1, <1>2 DEF TypeOK, HintQuiet, Goes

LEMMA GoroutinesQuiet ==
    ASSUME TypeOK, NEW c \in Connections, NEW d \in Connections,
           Writer(c) \/ Lease(c) \/ Ending(c)
    PROVE  HintQuiet(d)
<1>1. UNCHANGED <<hintVars, active, hub, at>>
    BY DEF Writer, Take, Written, WriteFails, ReportWrite, StopWriter, Lease, LeaseFails,
        ReportLease, StopLease, Ending, Expire, ServerCancels, peerVars, readerVars
<1>2. QED BY <1>1 DEF HintQuiet

LEMMA NextHints ==
    ASSUME TypeOK, IdleInv, HintInv, HintsReachPeers, [Next]_<<scope, vars>>
    PROVE  HintInv' /\ HintsReachPeers'
<1>1. SUFFICES ASSUME NEW d \in Connections PROVE HintPart(d)'
    <2>1. \A d \in hub' : d \in Connections
        BY NextType DEF TypeOK
    <2>2. QED BY <2>1 DEF HintInv, HintsReachPeers, HintPart
<1>2. HintPart(d)
    BY HintParts
<1>3. HintQuiet(d) => HintPart(d)'
    BY <1>2, QuietKeepsHints
<1>4. UNCHANGED <<scope, vars>> => HintQuiet(d)
    BY DEF HintQuiet, vars, hintVars, peerVars, readerVars
<1>5. ASSUME NEW m, m # Other, Has(d, m) PROVE Has(d, m)'
    BY <1>5, MessagesStay
<1>6. \A h \in owed[d] : HintMessage(h) # Other
    BY OtherIsNeither DEF TypeOK
<1>7. ASSUME NEW c \in Connections, SetActive(c) PROVE HintPart(d)'
    <2>1. /\ UNCHANGED <<hub, hint, todo, slow>>
          /\ at[c] = "got" /\ at' = [at EXCEPT ![c] = "reading"]
        BY <1>7 DEF SetActive, Handles, Goes
    <2>2. PICK f \in {"activity", "inactivity"} :
            /\ active' = [active EXCEPT ![c] = (f = "activity")]
            /\ owed' = IF f = "activity" THEN owed ELSE [owed EXCEPT ![c] = {}]
        BY <1>7 DEF SetActive
    <2>3. CASE c # d
        BY <1>2, <1>5, <1>6, <2>1, <2>2, <2>3 DEF TypeOK, HintPart
    <2>4. CASE c = d /\ f = "activity"
        <3>1. active'[d] /\ owed' = owed
            BY <2>2, <2>4 DEF TypeOK
        <3>2. QED BY <1>2, <1>5, <1>6, <2>1, <2>4, <3>1 DEF TypeOK, HintPart
    <2>5. CASE c = d /\ f = "inactivity"
        <3>1. owed'[d] = {}
            BY <2>2, <2>5 DEF TypeOK
        <3>2. QED BY <1>2, <2>1, <2>5, <3>1 DEF TypeOK, HintPart
    <2>6. QED BY <2>2, <2>3, <2>4, <2>5
<1>8. ASSUME NEW h \in Hints, BroadcastStart(h) PROVE HintPart(d)'
    <2>1. /\ hint = NoHint /\ hint' = h /\ todo' = hub
          /\ UNCHANGED <<hub, active, at, slow>>
          /\ owed'[d] = IF d \in Recipients(h) THEN owed[d] \cup {h} ELSE owed[d]
        BY <1>8 DEF BroadcastStart, peerVars, readerVars
    <2>2. owed[d] \subseteq Hints /\ NoHint \notin Hints
        BY NoHintAssumption DEF TypeOK
    <2>3. QED BY <1>2, <1>5, <1>6, <2>1, <2>2 DEF HintPart, Recipients
<1>9. ASSUME NEW c \in Connections, BroadcastTo(c) PROVE HintPart(d)'
    <2>1. /\ UNCHANGED <<hub, active, at, hint, owed>> /\ todo' = todo \ {c}
          /\ slow \subseteq slow'
          /\ hint # NoHint
        BY <1>9 DEF BroadcastTo, readerVars
    <2>2. ASSUME c = d, hint \in owed[d], d \in hub, d \notin slow'
          PROVE  Has(d, HintMessage(hint))'
        <3>1. HintMessage(hint) \in Messages
            BY <2>1, OtherIsNeither DEF TypeOK
        <3>2. ~Skipped(d)
            BY <1>2, <2>2 DEF HintPart, Skipped
        <3>3. Offer(d, HintMessage(hint)) /\ Room(d)
            BY <1>9, <2>2, <3>2 DEF BroadcastTo, TypeOK
        <3>4. HintMessage(hint) \in ToSet(queue'[d])
            BY <3>1, <3>3, OfferEffect
        <3>5. QED BY <2>1, <3>4 DEF Has, HintMessage
    <2>3. QED BY <1>2, <1>5, <1>6, <2>1, <2>2 DEF HintPart
<1>10. ASSUME BroadcastEnd PROVE HintPart(d)'
    BY <1>2, <1>5, <1>6, <1>10 DEF HintPart, BroadcastEnd, peerVars, readerVars
<1>11. QED
    BY <1>2, <1>3, <1>4, <1>7, <1>8, <1>9, <1>10, Cases, WaitsQuiet, SilentQuiet, AnswersQuiet,
        GoroutinesQuiet

-----------------------------------------------------------------------------
LEMMA NextIInv == IInv /\ [Next]_<<scope, vars>> => IInv'
    BY NextType, NextIdle, NextAnswer, NextLoss, NextHints DEF IInv

LEMMA Safety == Spec => []IInv
    BY InitIInv, NextIInv, PTL DEF Spec

\* Reader, writer and lease keep their state in its types, and a connection
\* has a close status exactly from the moment its reader ends.
THEOREM WebSocketTypeCorrect == Spec => []TypeOK
<1>1. IInv => TypeOK
    BY DEF IInv
<1>2. QED BY Safety, <1>1, PTL

\* processWebSocketRPC: a committed request is answered or its connection
\* ends, whatever else fills the queue.
THEOREM RequestsAreAnswered == Spec => []CommittedIsAnswered
<1>1. IInv => CommittedIsAnswered
    BY DEF IInv, AnswerInv, CommittedIsAnswered, Ended
<1>2. QED BY Safety, <1>1, PTL

\* webSocket: a reader that the failing lease or writer has interrupted ends
\* with that failure.
THEOREM LossesAreReported == Spec => []LossIsReported
<1>1. IInv => LossIsReported
    BY DEF IInv
<1>2. QED BY Safety, <1>1, PTL

\* Broadcast: every active peer that is not full gets every hint of others.
THEOREM HintsArrive == Spec => []HintsReachPeers
<1>1. IInv => HintsReachPeers
    BY DEF IInv
<1>2. QED BY Safety, <1>1, PTL

=============================================================================
