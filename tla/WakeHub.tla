------------------------------ MODULE WakeHub ------------------------------
(***************************************************************************)
(* The hub that wakes event streams (internal/realtime/wake_hub.go): its   *)
(* RWMutex, the one-slot channels it sends on and closes, the publishers   *)
(* that hold the lock shared while they send, and the streams that         *)
(* register, wait and unregister (events of internal/httpapi/sse.go).      *)
(*                                                                         *)
(* A critical section under the write lock is one step.  A publication is  *)
(* a step per channel, between which streams and other publishers run.     *)
(***************************************************************************)
EXTENDS FiniteSets

CONSTANTS
    Subscriptions,  \* one per stream
    Owners,
    Owner,          \* the owner of a subscription
    Publishers      \* goroutines that call Publish

ASSUME OwnerAssumption == Owner \in [Subscriptions -> Owners]

VARIABLES
    byOwner,    \* the registered subscriptions
    closed,     \* the hub was closed
    chan,       \* the channel of each subscription
    signal,     \* whether a wake-up is in its slot
    todo,       \* the subscriptions each publisher still has to send to
    rlock,      \* the publishers that hold the lock shared
    stream,     \* the handler of each subscription
    owed,       \* history: streams a publication has found and that have not
                \* read the feed since
    panicked    \* history: a send on a closed channel, or a second close

hubVars == <<byOwner, closed, chan, signal, todo, rlock, stream, owed, panicked>>

HubInit ==
    /\ byOwner = {} /\ closed = FALSE
    /\ chan = [s \in Subscriptions |-> "none"]
    /\ signal = [s \in Subscriptions |-> FALSE]
    /\ todo = [p \in Publishers |-> {}]
    /\ rlock = {}
    /\ stream = [s \in Subscriptions |-> "new"]
    /\ owed = {}
    /\ panicked = FALSE

-----------------------------------------------------------------------------
(* Critical sections under the write lock. *)

CloseChannels(S) ==
    /\ chan' = [s \in Subscriptions |-> IF s \in S THEN "closed" ELSE chan[s]]
    /\ panicked' = (panicked \/ \E s \in S : chan[s] = "closed")

\* Mutant: a hub that was closed registers as before.
RegisterAlways(s) ==
    /\ stream[s] = "new" /\ rlock = {}
    /\ stream' = [stream EXCEPT ![s] = "reading"]
    /\ byOwner' = byOwner \cup {s}
    /\ chan' = [chan EXCEPT ![s] = "open"]
    /\ UNCHANGED <<closed, signal, todo, rlock, owed, panicked>>

\* The first catch-up of the stream follows.
Register(s) ==
    /\ stream[s] = "new" /\ rlock = {}
    /\ stream' = [stream EXCEPT ![s] = "reading"]
    /\ byOwner' = IF closed THEN byOwner ELSE byOwner \cup {s}
    /\ chan' = [chan EXCEPT ![s] = IF closed THEN "closed" ELSE "open"]
    /\ UNCHANGED <<closed, signal, todo, rlock, owed, panicked>>

\* Mutant: the channel is closed whether or not s is still registered.
UnregisterAlways(s) ==
    /\ stream[s] = "leaving" /\ rlock = {}
    /\ stream' = [stream EXCEPT ![s] = "gone"]
    /\ byOwner' = byOwner \ {s}
    /\ CloseChannels({s})
    /\ UNCHANGED <<closed, signal, todo, rlock, owed>>

Unregister(s) ==
    /\ stream[s] = "leaving" /\ rlock = {}
    /\ stream' = [stream EXCEPT ![s] = "gone"]
    /\ byOwner' = byOwner \ {s}
    /\ CloseChannels({s} \cap byOwner)
    /\ UNCHANGED <<closed, signal, todo, rlock, owed>>

Close ==
    /\ ~closed /\ rlock = {}
    /\ closed' = TRUE
    /\ byOwner' = {}
    /\ CloseChannels(byOwner)
    /\ UNCHANGED <<signal, todo, rlock, stream, owed>>

-----------------------------------------------------------------------------
(* Publish, under the shared lock. *)

PublishStart(p, o) ==
    /\ p \notin rlock /\ ~closed
    /\ rlock' = rlock \cup {p}
    /\ todo' = [todo EXCEPT ![p] = {s \in byOwner : Owner[s] = o}]
    /\ owed' = owed \cup todo'[p]
    /\ UNCHANGED <<byOwner, closed, chan, signal, stream, panicked>>

\* Mutant: a channel without a slot: a stream that is not receiving misses it.
PublishToWaiting(p, s) ==
    /\ s \in todo[p]
    /\ todo' = [todo EXCEPT ![p] = @ \ {s}]
    /\ signal' = [signal EXCEPT ![s] = @ \/ stream[s] = "waiting"]
    /\ panicked' = (panicked \/ chan[s] = "closed")
    /\ UNCHANGED <<byOwner, closed, chan, rlock, stream, owed>>

\* A send that never blocks; a full slot stays as it is.
PublishTo(p, s) ==
    /\ s \in todo[p]
    /\ todo' = [todo EXCEPT ![p] = @ \ {s}]
    /\ signal' = [signal EXCEPT ![s] = TRUE]
    /\ panicked' = (panicked \/ chan[s] = "closed")
    /\ UNCHANGED <<byOwner, closed, chan, rlock, stream, owed>>

PublishEnd(p) ==
    /\ p \in rlock /\ todo[p] = {}
    /\ rlock' = rlock \ {p}
    /\ UNCHANGED <<byOwner, closed, chan, signal, todo, stream, owed, panicked>>

-----------------------------------------------------------------------------
(* The handler of a stream. *)

Goes(s, phase) == stream' = [stream EXCEPT ![s] = phase]

\* Receives the wake-up that is in the slot, and reads the feed.
Wake(s) ==
    /\ stream[s] = "waiting" /\ signal[s]
    /\ Goes(s, "reading")
    /\ signal' = [signal EXCEPT ![s] = FALSE]
    /\ owed' = owed \ {s}
    /\ UNCHANGED <<byOwner, closed, chan, todo, rlock, panicked>>

\* The slot is empty and the channel closed: the handler returns.
SeeClosed(s) ==
    /\ stream[s] = "waiting" /\ ~signal[s] /\ chan[s] = "closed"
    /\ Goes(s, "leaving")
    /\ UNCHANGED <<byOwner, closed, chan, signal, todo, rlock, owed, panicked>>

FeedRead(s) ==
    /\ stream[s] = "reading"
    /\ Goes(s, "waiting")
    /\ UNCHANGED <<byOwner, closed, chan, signal, todo, rlock, owed, panicked>>

\* The stream ends for a reason of its own.
Leave(s) ==
    /\ stream[s] \in {"reading", "waiting"}
    /\ Goes(s, "leaving")
    /\ UNCHANGED <<byOwner, closed, chan, signal, todo, rlock, owed, panicked>>

Publishing(p) ==
    \/ \E o \in Owners : PublishStart(p, o)
    \/ \E s \in Subscriptions : PublishTo(p, s)
    \/ PublishEnd(p)

Handler(s) == Wake(s) \/ SeeClosed(s) \/ FeedRead(s)

HubNext ==
    \/ \E s \in Subscriptions : Register(s) \/ Unregister(s) \/ Handler(s) \/ Leave(s)
    \/ \E p \in Publishers : Publishing(p)
    \/ Close

HubSpec == HubInit /\ [][HubNext]_hubVars

-----------------------------------------------------------------------------
(* Properties. *)

\* Publishers that have sends left hold the lock, and only streams that have
\* registered have a channel.
HubTypeOK ==
    /\ byOwner \subseteq Subscriptions
    /\ closed \in BOOLEAN /\ panicked \in BOOLEAN
    /\ chan \in [Subscriptions -> {"none", "open", "closed"}]
    /\ signal \in [Subscriptions -> BOOLEAN]
    /\ todo \in [Publishers -> SUBSET Subscriptions]
    /\ rlock \subseteq Publishers
    /\ stream \in [Subscriptions -> {"new", "reading", "waiting", "leaving", "gone"}]
    /\ owed \subseteq Subscriptions
    /\ \A p \in Publishers \ rlock : todo[p] = {}
    /\ \A s \in Subscriptions : chan[s] = "none" <=> stream[s] = "new"

\* wake_hub.go, Unregister and Close: safe to call concurrently with Publish
\* and with each other: no channel is sent on after, or closed twice.
NoPanic == ~panicked

\* wake_hub.go, Publish: a stream that a publication has found registered has
\* a wake-up in its slot when the publication is over, until it reads the feed
\* again, whatever it was doing and however many publications were coalesced.
NoPublicationIsLost ==
    \A s \in owed : signal[s] \/ \E p \in rlock : s \in todo[p]

\* wake_hub.go, Register and Close: a hub that was closed keeps no channel
\* open.  No publication and no second Close would ever reach it, and its
\* stream would wait until its client leaves, also if it registers later.
ClosedHubHoldsNobody ==
    closed => \A s \in Subscriptions : chan[s] # "open"
=============================================================================
