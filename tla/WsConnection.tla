---------------------------- MODULE WsConnection ----------------------------
(***************************************************************************)
(* The WebSockets of one owner in one process (internal/httpapi/           *)
(* websocket.go) and the hub that sends them hints (internal/realtime/     *)
(* hub.go).                                                                *)
(*                                                                         *)
(* A connection is three goroutines: the reader, which handles one frame   *)
(* after another and decides how the connection ends, the writer, which    *)
(* drains the bounded queue of the peer, and the one that refreshes the    *)
(* lease.  They meet in the queue, in two error channels and in a context. *)
(***************************************************************************)
EXTENDS SequencesExt, Naturals

CONSTANTS
    Connections,
    Hints,
    Origin,     \* the connection whose commit a hint announces, if any of ours
    NoHint,
    Capacity,   \* of Peer.Send: 32
    Scopes      \* bound: what the connections of one behaviour may do

ASSUME NoHintAssumption == NoHint \notin Hints
ASSUME CapacityAssumption == Capacity \in Nat

\* The connections that are opened, those whose lease, session or request may
\* end, and how many frames each one sends.
ASSUME ScopesAssumption ==
    Scopes \subseteq [open : SUBSET Connections, faulty : SUBSET Connections,
                      frames : [Connections -> Nat]]

VARIABLES
    scope,      \* never changes
    hub,        \* the registered peers
    active,     \* Peer.active
    queue,      \* Peer.Send
    at,         \* where the reader is
    frame,      \* the kind of the frame it handles
    sent,       \* the number of that frame
    cause,      \* why Read failed
    status,     \* the close status
    committed,  \* the frames whose transaction was committed
    writer,     \* where the writer is
    out,        \* the message it writes, or failed to write
    delivered,  \* the results and hints the client has
    lease,      \* where the goroutine of the lease is
    errors,     \* what is in writeErrors and leaseErrors
    done,       \* who cancelled the context first
    expired,    \* the session is over
    broken,     \* the connection of the library is closed
    hint,       \* the hint that is broadcast
    todo,       \* the peers it is still to be sent to
    shown,      \* the hints broadcast so far
    owed,       \* history: hints whose broadcast found the peer, and found it
                \* active until now
    slow        \* history: the peers that a hint found full

readerVars == <<at, frame, sent, cause, status, committed>>
writerVars == <<writer, out, delivered>>
endVars == <<lease, errors, done, expired, broken>>
peerVars == <<hub, active, queue>>
hintVars == <<hint, todo, shown, owed, slow>>
vars == <<readerVars, writerVars, endVars, peerVars, hintVars>>

\* Messages: a hint, the result of a frame, a pong or an error.
Other == <<"other">>
Result(n) == <<"result", n>>
HintMessage(h) == <<"hint", h>>
Messages == {Other} \cup {Result(n) : n \in Nat} \cup {HintMessage(h) : h \in Hints}

Init ==
    /\ scope \in Scopes
    /\ hub = {}
    /\ active = [c \in Connections |-> TRUE]
    /\ queue = [c \in Connections |-> <<>>]
    /\ at = [c \in Connections |-> "new"]
    /\ frame = [c \in Connections |-> "none"]
    /\ sent = [c \in Connections |-> 0]
    /\ cause = [c \in Connections |-> "none"]
    /\ status = [c \in Connections |-> "none"]
    /\ committed = [c \in Connections |-> {}]
    /\ writer = [c \in Connections |-> "idle"]
    /\ out = [c \in Connections |-> Other]
    /\ delivered = [c \in Connections |-> {}]
    /\ lease = [c \in Connections |-> "held"]
    /\ errors = [c \in Connections |-> {}]
    /\ done = [c \in Connections |-> "nobody"]
    /\ expired = [c \in Connections |-> FALSE]
    /\ broken = [c \in Connections |-> FALSE]
    /\ hint = NoHint /\ todo = {} /\ shown = {}
    /\ owed = [c \in Connections |-> {}]
    /\ slow = {}

-----------------------------------------------------------------------------
(* What the goroutines share. *)

Room(c) == Len(queue[c]) < Capacity

\* enqueueWS whose result is ignored: a message that does not fit is dropped.
Offer(c, m) == queue' = IF Room(c) THEN [queue EXCEPT ![c] = Append(@, m)] ELSE queue

\* cancel; only the first call has an effect.
Cancel(c, who) == done' = [done EXCEPT ![c] = IF @ = "nobody" THEN who ELSE @]

\* The frame is the reader's own until it goes on.
Goes(c, place) ==
    /\ at' = [at EXCEPT ![c] = place]
    /\ frame' = [frame EXCEPT ![c] = "none"]

Ends(c, code) ==
    /\ Goes(c, "closing")
    /\ status' = [status EXCEPT ![c] = code]

-----------------------------------------------------------------------------
(* The reader. *)

\* The upgrade is done: the peer is registered, the goroutines run.
Open(c) ==
    /\ c \in scope.open /\ at[c] = "new"
    /\ Goes(c, "reading")
    /\ hub' = hub \cup {c}
    /\ UNCHANGED <<active, queue, sent, cause, status, committed,
                   writerVars, endVars, hintVars>>

Frames == {"ping", "activity", "inactivity", "invalid", "fatal", "rpc"}

\* "fatal" frames carry a close code: binary, too large, no JSON.
ReadFrame(c, f) ==
    /\ at[c] = "reading" /\ done[c] = "nobody" /\ ~expired[c] /\ ~broken[c]
    /\ sent[c] < scope.frames[c]
    /\ at' = [at EXCEPT ![c] = "got"]
    /\ frame' = [frame EXCEPT ![c] = f]
    /\ sent' = [sent EXCEPT ![c] = @ + 1]
    /\ UNCHANGED <<cause, status, committed, writerVars, endVars, peerVars, hintVars>>

\* Read fails because its context is done, the writer's failure has closed
\* the connection, the peer has sent a close frame, or the network failed.
\* Any failure closes the connection of the library.
ReadFails(c, why) ==
    /\ at[c] = "reading"
    /\ \/ why = "context" /\ done[c] # "nobody"
       \/ why = "session" /\ expired[c]
       \/ why = "connection" /\ broken[c]
       \/ why \in {"peer", "network"}
    /\ Goes(c, "failed")
    /\ cause' = [cause EXCEPT ![c] = IF why \in {"context", "peer"} THEN why ELSE "other"]
    /\ broken' = [broken EXCEPT ![c] = TRUE]
    /\ UNCHANGED <<sent, status, committed, writerVars, lease, errors, done, expired,
                   peerVars, hintVars>>

\* The select after Read, with or without a frame: an error of the writer or
\* of the lease comes first.
SeeError(c) ==
    /\ at[c] \in {"got", "failed"}
    /\ \E e \in errors[c] :
        /\ Ends(c, e)
        /\ errors' = [errors EXCEPT ![c] = @ \ {e}]
    /\ UNCHANGED <<sent, cause, committed, writerVars, lease, done, expired, broken,
                   peerVars, hintVars>>

\* No error is waiting: the session, the peer, or nobody in particular.
SeeNoError(c) ==
    /\ at[c] = "failed" /\ errors[c] = {}
    /\ Ends(c, CASE expired[c] -> "expired"
                 [] ~expired[c] /\ cause[c] = "peer" -> "peer"
                 [] OTHER -> "normal")
    /\ IF expired[c] THEN Cancel(c, "reader") ELSE done' = done
    /\ UNCHANGED <<sent, cause, committed, writerVars, lease, errors, expired, broken,
                   peerVars, hintVars>>

Handles(c, f) == at[c] = "got" /\ errors[c] = {} /\ frame[c] = f

FatalFrame(c) ==
    /\ Handles(c, "fatal")
    /\ Ends(c, "protocol")
    /\ UNCHANGED <<sent, cause, committed, writerVars, endVars, peerVars, hintVars>>

\* A ping that finds the queue full ends the connection.
Ping(c) ==
    /\ Handles(c, "ping")
    /\ Offer(c, Other)
    /\ IF Room(c) THEN Goes(c, "reading") /\ UNCHANGED status ELSE Ends(c, "slow")
    /\ UNCHANGED <<sent, cause, committed, writerVars, endVars, hub, active, hintVars>>

InvalidFrame(c) ==
    /\ Handles(c, "invalid")
    /\ Offer(c, Other)
    /\ Goes(c, "reading")
    /\ UNCHANGED <<sent, cause, status, committed, writerVars, endVars, hub, active,
                   hintVars>>

SetActive(c) ==
    /\ \E f \in {"activity", "inactivity"} :
        /\ Handles(c, f)
        /\ active' = [active EXCEPT ![c] = (f = "activity")]
        /\ owed' = IF f = "activity" THEN owed ELSE [owed EXCEPT ![c] = {}]
    /\ Goes(c, "reading")
    /\ UNCHANGED <<sent, cause, status, committed, writerVars, endVars, hub, queue,
                   hint, todo, shown, slow>>

-----------------------------------------------------------------------------
(* processWebSocketRPC. *)

\* The request is answered with an error, and the connection stays.
Refuse(c) ==
    /\ Offer(c, Other)
    /\ Goes(c, "reading")
    /\ UNCHANGED <<sent, cause, status, committed, writerVars, endVars, hub, active,
                   hintVars>>

\* INTERNAL is the answer, and the connection ends.
Fail(c) ==
    /\ Offer(c, Other)
    /\ Ends(c, "internal")
    /\ UNCHANGED <<sent, cause, writerVars, endVars, hub, active, hintVars>>

\* Invalid, rate limited, Redis not available, or admitted.
Rpc(c) ==
    /\ Handles(c, "rpc")
    /\ \/ Refuse(c)
       \/ Fail(c) /\ UNCHANGED committed
       \/ /\ Goes(c, "transaction")
          /\ UNCHANGED <<sent, cause, status, committed, writerVars, endVars, peerVars,
                         hintVars>>

AddCommitted(c) == committed' = [committed EXCEPT ![c] = @ \cup {sent[c]}]

Commit(c) ==
    /\ at[c] = "transaction"
    /\ AddCommitted(c)
    /\ Goes(c, "answering")
    /\ UNCHANGED <<sent, cause, status, writerVars, endVars, peerVars, hintVars>>

\* An OperationError, or any other error, after which the commit is unknown.
NoCommit(c) ==
    /\ at[c] = "transaction"
    /\ \/ Refuse(c)
       \/ Fail(c) /\ (UNCHANGED committed \/ AddCommitted(c))

\* Mutant: a result that does not fit the queue is dropped like an error.
AnswerOrDrop(c) ==
    /\ at[c] = "answering"
    /\ Offer(c, Result(sent[c]))
    /\ Goes(c, "reading")
    /\ UNCHANGED <<status, sent, cause, committed, writerVars, endVars, hub, active,
                   hintVars>>

\* A result that does not fit the queue ends the connection.
Answer(c) ==
    /\ at[c] = "answering"
    /\ Offer(c, Result(sent[c]))
    /\ IF Room(c) THEN Goes(c, "reading") /\ UNCHANGED status ELSE Ends(c, "internal")
    /\ UNCHANGED <<sent, cause, committed, writerVars, endVars, hub, active, hintVars>>

\* The result exceeds a frame.
AnswerTooLarge(c) ==
    /\ at[c] = "answering"
    /\ Fail(c)
    /\ UNCHANGED committed

-----------------------------------------------------------------------------
(* The deferred calls of webSocket. *)

CloseConnection(c) ==
    /\ at[c] = "closing"
    /\ Goes(c, "closed")
    /\ Cancel(c, "reader")
    /\ broken' = [broken EXCEPT ![c] = TRUE]
    /\ UNCHANGED <<sent, cause, status, committed, writerVars, lease, errors, expired,
                   peerVars, hintVars>>

Unregister(c) ==
    /\ at[c] = "closed"
    /\ Goes(c, "gone")
    /\ hub' = hub \ {c}
    /\ UNCHANGED <<active, queue, sent, cause, status, committed, writerVars, endVars,
                   hintVars>>

-----------------------------------------------------------------------------
(* The writer. *)

Writes(c, from, to) ==
    /\ at[c] # "new" /\ writer[c] = from
    /\ writer' = [writer EXCEPT ![c] = to]

Take(c) ==
    /\ Writes(c, "idle", "writing")
    /\ queue[c] # <<>>
    /\ out' = [out EXCEPT ![c] = Head(queue[c])]
    /\ queue' = [queue EXCEPT ![c] = Tail(@)]
    /\ UNCHANGED <<delivered, hub, active, readerVars, endVars, hintVars>>

Written(c) ==
    /\ Writes(c, "writing", "idle")
    /\ done[c] = "nobody" /\ ~broken[c]
    /\ delivered' = [delivered EXCEPT ![c] = @ \cup ({out[c]} \ {Other})]
    /\ out' = [out EXCEPT ![c] = Other]
    /\ UNCHANGED <<readerVars, endVars, peerVars, hintVars>>

\* The network failed or the context is done; the library closes the connection.
WriteFails(c) ==
    /\ Writes(c, "writing", "failed")
    /\ broken' = [broken EXCEPT ![c] = TRUE]
    /\ UNCHANGED <<out, delivered, readerVars, lease, errors, done, expired, peerVars, hintVars>>

ReportWrite(c) ==
    /\ Writes(c, "failed", "reported")
    /\ errors' = [errors EXCEPT ![c] = @ \cup {"write"}]
    /\ UNCHANGED <<out, delivered, readerVars, lease, done, expired, broken, peerVars, hintVars>>

StopWriter(c) ==
    /\ \/ Writes(c, "reported", "stopped") /\ Cancel(c, "writer")
       \/ Writes(c, "idle", "stopped") /\ done[c] # "nobody" /\ done' = done
    /\ UNCHANGED <<out, delivered, readerVars, lease, errors, expired, broken, peerVars, hintVars>>

-----------------------------------------------------------------------------
(* The goroutine of the lease. *)

Leases(c, from, to) ==
    /\ at[c] # "new" /\ lease[c] = from
    /\ lease' = [lease EXCEPT ![c] = to]

\* A refresh fails, or finds the lease gone.
LeaseFails(c) ==
    /\ c \in scope.faulty
    /\ Leases(c, "held", "failed")
    /\ UNCHANGED <<errors, done, expired, broken, readerVars, writerVars, peerVars, hintVars>>

\* Mutant: the context is cancelled and the error is not reported.
CancelUnreported(c) ==
    /\ Leases(c, "failed", "reported")
    /\ Cancel(c, "lease")
    /\ UNCHANGED <<errors, expired, broken, readerVars, writerVars, peerVars, hintVars>>

ReportLease(c) ==
    /\ Leases(c, "failed", "reported")
    /\ errors' = [errors EXCEPT ![c] = @ \cup {"lease"}]
    /\ UNCHANGED <<done, expired, broken, readerVars, writerVars, peerVars, hintVars>>

\* Mutant: the reader is left to find the error after its next frame.
StopLeaseQuietly(c) ==
    /\ \/ Leases(c, "reported", "stopped")
       \/ Leases(c, "held", "stopped") /\ done[c] # "nobody"
    /\ UNCHANGED <<done, errors, expired, broken, readerVars, writerVars, peerVars, hintVars>>

StopLease(c) ==
    /\ \/ Leases(c, "reported", "stopped") /\ Cancel(c, "lease")
       \/ Leases(c, "held", "stopped") /\ done[c] # "nobody" /\ done' = done
    /\ UNCHANGED <<errors, expired, broken, readerVars, writerVars, peerVars, hintVars>>

-----------------------------------------------------------------------------
(* Time, and the process. *)

Expire(c) ==
    /\ c \in scope.faulty /\ at[c] # "new" /\ ~expired[c]
    /\ expired' = [expired EXCEPT ![c] = TRUE]
    /\ UNCHANGED <<lease, errors, done, broken, readerVars, writerVars, peerVars, hintVars>>

\* cancelRequests of serve: the context of the request ends.
ServerCancels(c) ==
    /\ c \in scope.faulty /\ at[c] # "new" /\ done[c] = "nobody"
    /\ Cancel(c, "server")
    /\ UNCHANGED <<lease, errors, expired, broken, readerVars, writerVars, peerVars, hintVars>>

-----------------------------------------------------------------------------
(* Hub.Broadcast, called by the goroutine that receives the hints of all   *)
(* owners.  The peers are copied under the lock and served without it.     *)

Recipients(h) == {c \in hub : active[c] /\ c # Origin[h]}

BroadcastStart(h) ==
    /\ hint = NoHint /\ h \notin shown
    /\ hint' = h
    /\ todo' = hub
    /\ shown' = shown \cup {h}
    /\ owed' = [c \in Connections |-> IF c \in Recipients(h) THEN owed[c] \cup {h} ELSE owed[c]]
    /\ UNCHANGED <<slow, peerVars, readerVars, writerVars, endVars>>

Skipped(c) == c = Origin[hint] \/ ~active[c]

\* Mutant: a peer that is skipped ends the loop.
BroadcastUntilSkipped(c) ==
    /\ hint # NoHint /\ c \in todo
    /\ todo' = IF Skipped(c) THEN {} ELSE todo \ {c}
    /\ IF Skipped(c) THEN UNCHANGED <<queue, slow>>
       ELSE /\ Offer(c, HintMessage(hint))
            /\ slow' = IF Room(c) THEN slow ELSE slow \cup {c}
    /\ UNCHANGED <<hint, shown, owed, hub, active, readerVars, writerVars, endVars>>

\* Mutant: the send waits for a slot.
BroadcastBlocking(c) ==
    /\ hint # NoHint /\ c \in todo
    /\ Skipped(c) \/ Room(c)
    /\ todo' = todo \ {c}
    /\ IF Skipped(c) THEN UNCHANGED <<queue, slow>>
       ELSE Offer(c, HintMessage(hint)) /\ UNCHANGED slow
    /\ UNCHANGED <<hint, shown, owed, hub, active, readerVars, writerVars, endVars>>

BroadcastTo(c) ==
    /\ hint # NoHint /\ c \in todo
    /\ todo' = todo \ {c}
    /\ IF Skipped(c) THEN UNCHANGED <<queue, slow>>
       ELSE /\ Offer(c, HintMessage(hint))
            /\ slow' = IF Room(c) THEN slow ELSE slow \cup {c}
    /\ UNCHANGED <<hint, shown, owed, hub, active, readerVars, writerVars, endVars>>

BroadcastEnd ==
    /\ hint # NoHint /\ todo = {}
    /\ hint' = NoHint
    /\ UNCHANGED <<todo, shown, owed, slow, peerVars, readerVars, writerVars, endVars>>

-----------------------------------------------------------------------------
ContextRead(c) == \E why \in {"context", "session", "connection"} : ReadFails(c, why)

\* The steps of the reader that wait for nobody.
Reader(c) ==
    \/ SeeError(c) \/ SeeNoError(c)
    \/ FatalFrame(c) \/ Ping(c) \/ InvalidFrame(c) \/ SetActive(c)
    \/ Rpc(c) \/ Commit(c) \/ NoCommit(c) \/ Answer(c) \/ AnswerTooLarge(c)
    \/ CloseConnection(c) \/ Unregister(c)

Writer(c) == Take(c) \/ Written(c) \/ WriteFails(c) \/ ReportWrite(c) \/ StopWriter(c)

Lease(c) == LeaseFails(c) \/ ReportLease(c) \/ StopLease(c)

Broadcasting == (\E c \in Connections : BroadcastTo(c)) \/ BroadcastEnd

Step ==
    \/ \E c \in Connections :
        \/ Open(c)
        \/ \E f \in Frames : ReadFrame(c, f)
        \/ \E why \in {"peer", "network"} : ReadFails(c, why)
        \/ ContextRead(c)
        \/ Reader(c) \/ Writer(c) \/ Lease(c)
        \/ Expire(c) \/ ServerCancels(c)
    \/ \E h \in Hints : BroadcastStart(h)
    \/ Broadcasting

Next == Step /\ UNCHANGED scope

Spec == Init /\ [][Next]_<<scope, vars>>

\* Goroutines run on unless they wait for the client or for a tick: Read
\* returns once its context is done, calls of Redis and MySQL return, errors
\* are reported.  That a client ever reads what is written is not assumed.
Fairness ==
    /\ \A c \in Connections :
        /\ WF_vars(ContextRead(c)) /\ WF_vars(Reader(c))
        /\ WF_vars(ReportWrite(c) \/ StopWriter(c)) /\ WF_vars(ReportLease(c) \/ StopLease(c))
    /\ WF_vars(Broadcasting)

FairSpec == Spec /\ Fairness

-----------------------------------------------------------------------------
(* Properties. *)

Statuses == {"none", "write", "lease", "expired", "peer", "normal", "protocol", "slow", "internal"}
Places == {"new", "reading", "got", "failed", "transaction", "answering", "closing", "closed", "gone"}

\* A connection has a close status from the moment its reader ends.
TypeOK ==
    /\ hub \subseteq Connections /\ todo \subseteq Connections /\ slow \subseteq Connections
    /\ active \in [Connections -> BOOLEAN]
    /\ queue \in [Connections -> Seq(Messages)]
    /\ at \in [Connections -> Places]
    /\ frame \in [Connections -> Frames \cup {"none"}]
    /\ sent \in [Connections -> Nat]
    /\ cause \in [Connections -> {"none", "context", "peer", "other"}]
    /\ status \in [Connections -> Statuses]
    /\ committed \in [Connections -> SUBSET Nat]
    /\ writer \in [Connections -> {"idle", "writing", "failed", "reported", "stopped"}]
    /\ out \in [Connections -> Messages]
    /\ delivered \in [Connections -> SUBSET Messages]
    /\ lease \in [Connections -> {"held", "failed", "reported", "stopped"}]
    /\ errors \in [Connections -> SUBSET {"write", "lease"}]
    /\ done \in [Connections -> {"nobody", "reader", "writer", "lease", "server"}]
    /\ expired \in [Connections -> BOOLEAN] /\ broken \in [Connections -> BOOLEAN]
    /\ hint \in Hints \cup {NoHint} /\ shown \subseteq Hints
    /\ owed \in [Connections -> SUBSET Hints]
    /\ \A c \in Connections : status[c] # "none" <=> at[c] \in {"closing", "closed", "gone"}

\* The message is with the client, being written, or queued.
Has(c, m) == m \in delivered[c] \cup {out[c]} \cup ToSet(queue[c])

\* processWebSocketRPC: while a connection goes on, the result of every
\* request it has committed is with the client or on its way, behind any
\* number of hints and pongs: a client that is not answered is disconnected
\* and can ask again, it does not wait on an open connection.
CommittedIsAnswered ==
    \A c \in Connections :
        at[c] \in {"reading", "got"} => \A n \in committed[c] : Has(c, Result(n))

\* webSocket: when the failing lease or writer cancels the context and Read
\* fails for it, the reader finds the error and closes the connection with
\* it, never as if the peer or nobody had ended it.
LossIsReported ==
    \A c \in Connections :
        status[c] # "none" /\ cause[c] = "context" /\ done[c] \in {"writer", "lease"} =>
            status[c] \in {"write", "lease"}

\* Broadcast: a hint reaches every active peer that was registered when its
\* broadcast began, except its origin and peers that were full, whatever the
\* other peers do meanwhile.
HintsReachPeers ==
    \A c \in hub \ slow : \A h \in owed[c] :
        Has(c, HintMessage(h)) \/ (h = hint /\ c \in todo)

\* README, events: a connection whose lease fails is closed; so is one whose
\* writer has failed or whose session has expired, whatever the client does.
FailureEndsConnection ==
    \A c \in Connections :
        lease[c] = "failed" \/ writer[c] = "failed" \/ expired[c] ~> at[c] = "gone"

\* Broadcast: a slow peer does not block the hints of all users.
BroadcastEnds == hint # NoHint ~> hint = NoHint
=============================================================================
