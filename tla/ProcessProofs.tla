--------------------------- MODULE ProcessProofs ---------------------------
(***************************************************************************)
(* The hub: no send and no close panics, no publication is lost and a      *)
(* closed hub keeps no channel open, for any number of streams, owners and *)
(* publishers.  The process: it uses its hub as WakeHub describes, so this *)
(* holds in every process; and an orderly exit cuts no handler.            *)
(***************************************************************************)
EXTENDS Process, TLAPS

\* The registered subscriptions are those with an open channel, and the lock
\* keeps them registered while a publisher has sends left.
HubInv ==
    /\ \A s \in Subscriptions : s \in byOwner <=> chan[s] = "open"
    /\ \A p \in Publishers : todo[p] \subseteq byOwner
    /\ closed => byOwner = {}

HubIInv == HubTypeOK /\ HubInv /\ NoPanic /\ NoPublicationIsLost

LEMMA HubInitIInv == HubInit => HubIInv
    BY DEF HubInit, HubIInv, HubTypeOK, HubInv, NoPanic, NoPublicationIsLost

\* While nobody holds the lock shared, no send is left.
LEMMA UnlockedMeansDone ==
    ASSUME HubTypeOK, rlock = {}
    PROVE  \A p \in Publishers : todo[p] = {}
    BY DEF HubTypeOK

\* The steps that leave the hub, its channels and the publishers alone.
LEMMA HandlerSteps ==
    ASSUME HubIInv, NEW s \in Subscriptions, Handler(s) \/ Leave(s)
    PROVE  HubIInv'
<1>1. HubTypeOK'
    BY DEF HubIInv, Handler, Wake, SeeClosed, FeedRead, Leave, Goes, HubTypeOK
<1>2. HubInv' /\ NoPanic'
    BY DEF HubIInv, Handler, Wake, SeeClosed, FeedRead, Leave, HubInv, NoPanic
<1>3. NoPublicationIsLost'
    BY DEF HubIInv, Handler, Wake, SeeClosed, FeedRead, Leave, NoPublicationIsLost, HubTypeOK
<1>4. QED BY <1>1, <1>2, <1>3 DEF HubIInv

LEMMA PublisherSteps ==
    ASSUME HubIInv, NEW p \in Publishers, Publishing(p)
    PROVE  HubIInv'
<1>1. ASSUME NEW o \in Owners, PublishStart(p, o) PROVE HubIInv'
    <2>1. HubTypeOK'
        BY <1>1 DEF HubIInv, PublishStart, HubTypeOK
    <2>2. HubInv' /\ NoPanic'
        BY <1>1 DEF HubIInv, PublishStart, HubInv, NoPanic, HubTypeOK
    <2>3. todo'[p] \subseteq owed' /\ p \in rlock' /\ p \in Publishers
        BY <1>1 DEF PublishStart
    <2>4. \A q \in rlock : q \in rlock' /\ todo'[q] = todo[q]
        BY <1>1 DEF HubIInv, PublishStart, HubTypeOK
    <2>5. NoPublicationIsLost'
        BY <1>1, <2>3, <2>4 DEF HubIInv, PublishStart, NoPublicationIsLost
    <2>6. QED BY <2>1, <2>2, <2>5 DEF HubIInv
<1>2. ASSUME NEW s \in Subscriptions, PublishTo(p, s) PROVE HubIInv'
    <2>1. HubTypeOK'
        BY <1>2 DEF HubIInv, PublishTo, HubTypeOK
    <2>2. HubInv' /\ NoPanic'
        BY <1>2 DEF HubIInv, PublishTo, HubInv, NoPanic, HubTypeOK
    <2>3. NoPublicationIsLost'
        BY <1>2 DEF HubIInv, PublishTo, NoPublicationIsLost, HubTypeOK
    <2>4. QED BY <2>1, <2>2, <2>3 DEF HubIInv
<1>3. ASSUME PublishEnd(p) PROVE HubIInv'
    BY <1>3 DEF HubIInv, PublishEnd, HubTypeOK, HubInv, NoPanic, NoPublicationIsLost
<1>4. QED BY <1>1, <1>2, <1>3 DEF Publishing

LEMMA HubNextIInv == HubIInv /\ [HubNext]_hubVars => HubIInv'
<1> SUFFICES ASSUME HubIInv, [HubNext]_hubVars PROVE HubIInv'
    OBVIOUS
<1>1. CASE UNCHANGED hubVars
    BY <1>1 DEF hubVars, HubIInv, HubTypeOK, HubInv, NoPanic, NoPublicationIsLost
<1>2. ASSUME NEW s \in Subscriptions, Register(s) PROVE HubIInv'
    <2>1. \A p \in Publishers : todo[p] = {}
        BY <1>2, UnlockedMeansDone DEF HubIInv, Register
    <2>2. HubTypeOK'
        BY <1>2 DEF HubIInv, Register, HubTypeOK
    <2>3. chan[s] = "none"
        BY <1>2 DEF HubIInv, Register, HubTypeOK
    <2>4. HubInv' /\ NoPanic'
        BY <1>2, <2>1, <2>3 DEF HubIInv, Register, HubInv, NoPanic, HubTypeOK
    <2>5. NoPublicationIsLost'
        BY <1>2 DEF HubIInv, Register, NoPublicationIsLost
    <2>6. QED BY <2>2, <2>4, <2>5 DEF HubIInv
<1>3. ASSUME NEW s \in Subscriptions, Unregister(s) PROVE HubIInv'
    <2>1. \A p \in Publishers : todo[p] = {}
        BY <1>3, UnlockedMeansDone DEF HubIInv, Unregister
    <2>2. HubTypeOK'
        BY <1>3 DEF HubIInv, Unregister, CloseChannels, HubTypeOK, HubInv
    <2>3. HubInv' /\ NoPanic'
        BY <1>3, <2>1 DEF HubIInv, Unregister, CloseChannels, HubInv, NoPanic, HubTypeOK
    <2>4. NoPublicationIsLost'
        BY <1>3 DEF HubIInv, Unregister, NoPublicationIsLost
    <2>5. QED BY <2>2, <2>3, <2>4 DEF HubIInv
<1>4. ASSUME Close PROVE HubIInv'
    <2>1. \A p \in Publishers : todo[p] = {}
        BY <1>4, UnlockedMeansDone DEF HubIInv, Close
    <2>2. HubTypeOK'
        BY <1>4 DEF HubIInv, Close, CloseChannels, HubTypeOK, HubInv
    <2>3. HubInv' /\ NoPanic'
        BY <1>4, <2>1 DEF HubIInv, Close, CloseChannels, HubInv, NoPanic, HubTypeOK
    <2>4. NoPublicationIsLost'
        BY <1>4 DEF HubIInv, Close, NoPublicationIsLost
    <2>5. QED BY <2>2, <2>3, <2>4 DEF HubIInv
<1>5. QED
    BY <1>1, <1>2, <1>3, <1>4, HandlerSteps, PublisherSteps DEF HubNext

LEMMA HubInvariance == HubSpec => []HubIInv
    BY HubInitIInv, HubNextIInv, PTL DEF HubSpec

\* No channel of the hub is sent on after it was closed, or closed twice.
THEOREM HubNeverPanics == HubSpec => [](HubTypeOK /\ NoPanic)
<1>1. HubIInv => HubTypeOK /\ NoPanic
    BY DEF HubIInv
<1>2. QED BY <1>1, HubInvariance, PTL

\* A publication leaves a wake-up with every stream it has found.
THEOREM PublicationsArrive == HubSpec => []NoPublicationIsLost
<1>1. HubIInv => NoPublicationIsLost
    BY DEF HubIInv
<1>2. QED BY <1>1, HubInvariance, PTL

\* A hub that was closed keeps no channel open, whenever its stream registers.
THEOREM ClosedHubIsEmpty == HubSpec => []ClosedHubHoldsNobody
<1>1. HubIInv => ClosedHubHoldsNobody
    BY DEF HubIInv, HubInv, ClosedHubHoldsNobody
<1>2. QED BY <1>1, HubInvariance, PTL

-----------------------------------------------------------------------------
(* The process.                                                            *)

\* What is between the drained server and the exit.
Returning == {"returning", "requestsCancelled", "hubClosed", "exited"}

ProcessTypeOK ==
    /\ main \in {"serving", "stopping", "streamsClosed", "draining"} \cup Returning
    /\ outcome \in {"none", "drained", "timeout", "failed"}
    /\ cancelled \subseteq {"root", "streams", "requests"}
    /\ accepted \subseteq Subscriptions
    /\ request \in [Requests -> {"none", "reading", "running", "writing", "answered", "cut"}]
    /\ socket \in [WebSockets -> {"none", "upgrading", "hijacked", "ended"}]

\* Requests are cancelled only on the way out, which begins with an outcome;
\* once the server is drained no handler that it knows begins again.
ExitInv ==
    /\ main \in Returning <=> outcome # "none"
    /\ "requests" \in cancelled => main \in Returning
    /\ outcome = "drained" => ~Serving
    /\ outcome \notin {"timeout", "failed"} => \A r \in Requests : request[r] # "cut"

PInv == ProcessTypeOK /\ ExitInv

\* The steps of handlers.
StreamSteps(s) ==
    \/ Accept(s) \/ Refuse(s) \/ OpenStream(s)
    \/ StreamCancelled(s) \/ StreamGoesOn(s) \/ StreamEnds(s)
RequestSteps(r) == BeginRequest(r) \/ ReadBody(r) \/ EndRequest(r) \/ WriteAnswer(r)
SocketSteps(w) == BeginUpgrade(w) \/ Upgrade(w) \/ EndSocket(w)
MainSteps == Signal \/ ListenerFails \/ Timeout \/ Serve

-----------------------------------------------------------------------------
(* Every step of the process is a step of the hub, or none.                *)

LEMMA StepIsHubStep == [Next]_vars => [HubNext]_hubVars
<1> SUFFICES ASSUME [Next]_vars PROVE [HubNext]_hubVars
    OBVIOUS
<1>1. CASE UNCHANGED vars
    BY <1>1 DEF vars
<1>2. ASSUME NEW s \in Subscriptions, StreamSteps(s) PROVE [HubNext]_hubVars
    BY <1>2 DEF StreamSteps, Accept, Refuse, OpenStream, StreamCancelled, StreamGoesOn,
        StreamEnds, HubNext
<1>3. ASSUME NEW p \in Publishers, HintArrives(p) PROVE [HubNext]_hubVars
    BY <1>3 DEF HintArrives, HubNext
<1>4. ASSUME NEW r \in Requests, RequestSteps(r) PROVE [HubNext]_hubVars
    BY <1>4 DEF RequestSteps, BeginRequest, ReadBody, EndRequest, WriteAnswer, SetRequest
<1>5. ASSUME NEW w \in WebSockets, SocketSteps(w) PROVE [HubNext]_hubVars
    BY <1>5 DEF SocketSteps, BeginUpgrade, Upgrade, EndSocket, SetSocket
<1>6. ASSUME MainSteps PROVE [HubNext]_hubVars
    BY <1>6 DEF MainSteps, Signal, ListenerFails, Timeout, Serve, SeeSignal, CloseStreams,
        Shutdown, Drained, CancelRequests, CloseHub, Exit, HubNext
<1>7. QED
    BY <1>1, <1>2, <1>3, <1>4, <1>5, <1>6
    DEF Next, StreamSteps, RequestSteps, SocketSteps, MainSteps

\* The process drives its WakeHub only through steps that WakeHub describes.
THEOREM ProcessImplementsWakeHub == Spec => HubSpec
<1>1. Init => HubInit
    BY DEF Init
<1>2. QED BY <1>1, StepIsHubStep, PTL DEF Spec, HubSpec

\* What the WakeHub promises holds while a process serves and shuts down.
THEOREM ProcessHubIsSafe == Spec => [](NoPanic /\ NoPublicationIsLost /\ ClosedHubHoldsNobody)
    BY ProcessImplementsWakeHub, HubNeverPanics, PublicationsArrive, ClosedHubIsEmpty, PTL

-----------------------------------------------------------------------------
(* The order of main's calls.                                              *)

LEMMA InitPInv == Init => PInv
    BY DEF Init, PInv, ProcessTypeOK, ExitInv, Returning

\* Streams that are gone stay gone.
LEMMA GoneStaysGone ==
    ASSUME HubTypeOK, [HubNext]_hubVars
    PROVE  \A s \in Subscriptions : stream[s] = "gone" => stream'[s] = "gone"
<1>1. CASE UNCHANGED hubVars
    BY <1>1 DEF hubVars
<1>2. ASSUME NEW t \in Subscriptions,
             Register(t) \/ Unregister(t) \/ Handler(t) \/ Leave(t)
      PROVE  \A s \in Subscriptions : stream[s] = "gone" => stream'[s] = "gone"
    BY <1>2 DEF HubTypeOK, Register, Unregister, Handler, Wake, SeeClosed, FeedRead, Leave, Goes
<1>3. ASSUME NEW p \in Publishers, Publishing(p) PROVE stream' = stream
    BY <1>3 DEF Publishing, PublishStart, PublishTo, PublishEnd
<1>4. ASSUME Close PROVE stream' = stream
    BY <1>4 DEF Close
<1>5. QED BY <1>1, <1>2, <1>3, <1>4 DEF HubNext

LEMMA NextPInv == HubTypeOK /\ PInv /\ [Next]_vars => PInv'
<1> SUFFICES ASSUME HubTypeOK, PInv, [Next]_vars PROVE PInv'
    OBVIOUS
<1>0. \A s \in Subscriptions : stream[s] = "gone" => stream'[s] = "gone"
    BY StepIsHubStep, GoneStaysGone
<1>1. CASE UNCHANGED vars
    BY <1>1 DEF vars, hubVars, processVars, PInv, ProcessTypeOK, ExitInv, Serving
<1>2. ASSUME NEW s \in Subscriptions, StreamSteps(s) PROVE PInv'
    <2>1. CASE Accept(s)
        BY <2>1 DEF PInv, ProcessTypeOK, ExitInv, Serving, Accept, Listening, Returning, hubVars
    <2>2. CASE Refuse(s)
        BY <2>2 DEF PInv, ProcessTypeOK, ExitInv, Serving, Refuse, hubVars
    <2>3. CASE UNCHANGED processVars
        BY <2>3, <1>0 DEF processVars, PInv, ProcessTypeOK, ExitInv, Serving
    <2>4. QED
        BY <1>2, <2>1, <2>2, <2>3
        DEF StreamSteps, OpenStream, StreamCancelled, StreamGoesOn, StreamEnds
<1>3. ASSUME NEW p \in Publishers, HintArrives(p) PROVE PInv'
    BY <1>3, <1>0 DEF HintArrives, processVars, PInv, ProcessTypeOK, ExitInv, Serving
<1>4. ASSUME NEW r \in Requests, RequestSteps(r) PROVE PInv'
    BY <1>4 DEF RequestSteps, BeginRequest, ReadBody, EndRequest, WriteAnswer, SetRequest, Listening, PInv,
        ProcessTypeOK, ExitInv, Serving, Returning, hubVars
<1>5. ASSUME NEW w \in WebSockets, SocketSteps(w) PROVE PInv'
    BY <1>5 DEF SocketSteps, BeginUpgrade, Upgrade, EndSocket, SetSocket, Listening, PInv,
        ProcessTypeOK, ExitInv, Serving, Returning, hubVars
<1>6. ASSUME MainSteps PROVE PInv'
    <2>1. CASE Signal \/ SeeSignal \/ CloseStreams \/ Shutdown
        BY <2>1 DEF Signal, SeeSignal, CloseStreams, Shutdown, Go, Cancel, PInv, ProcessTypeOK,
            ExitInv, Serving, Returning, hubVars
    <2>2. CASE ListenerFails \/ Timeout \/ Drained
        BY <2>2 DEF ListenerFails, Timeout, Drained, Go, PInv, ProcessTypeOK, ExitInv, Serving,
            Returning, hubVars
    <2>3. CASE CancelRequests \/ Exit
        BY <2>3 DEF CancelRequests, Exit, Go, Cancel, PInv, ProcessTypeOK, ExitInv, Serving,
            Returning, hubVars
    <2>4. CASE CloseHub
        BY <2>4, <1>0 DEF CloseHub, Go, PInv, ProcessTypeOK, ExitInv, Serving, Returning
    <2>5. QED BY <1>6, <2>1, <2>2, <2>3, <2>4 DEF MainSteps, Serve
<1>7. QED
    BY <1>1, <1>2, <1>3, <1>4, <1>5, <1>6
    DEF Next, StreamSteps, RequestSteps, SocketSteps, MainSteps

\* The requests and streams that Shutdown drains are finished when a process
\* exits in order, and no request was cancelled before.
THEOREM OrderlyExit == Spec => []OrderlyExitCutsNothing
<1>1. PInv => OrderlyExitCutsNothing
    BY DEF PInv, ProcessTypeOK, ExitInv, OrderlyExitCutsNothing, Returning
<1>2. Spec => []HubTypeOK
    BY ProcessImplementsWakeHub, HubNeverPanics, PTL
<1>3. QED BY <1>1, <1>2, InitPInv, NextPInv, PTL DEF Spec
=============================================================================
