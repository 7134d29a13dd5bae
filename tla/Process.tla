------------------------------ MODULE Process ------------------------------
(***************************************************************************)
(* One server process from its first request to its exit (serve of         *)
(* cmd/study-list-api/main.go): the contexts serve cancels, the order in   *)
(* which it ends streams, requests and the WakeHub, and the handlers that  *)
(* run meanwhile: event streams, plain requests and WebSockets.            *)
(*                                                                         *)
(* http.Server.Shutdown closes the listener and waits for the handlers it  *)
(* knows.  A WebSocket has taken its connection away from the server       *)
(* ("hijacked"), so Shutdown neither waits for it nor cancels it.          *)
(***************************************************************************)
EXTENDS WakeHub

CONSTANTS
    Requests,   \* plain requests
    WebSockets  \* requests for /v1/ws

VARIABLES
    main,       \* where serve is
    cancelled,  \* the contexts that are done: of root, streams, requests
    accepted,   \* streams whose handler has begun
    request,    \* the handler of each plain request
    socket,     \* the handler of each WebSocket
    outcome     \* history: how serve came to return

processVars == <<main, cancelled, accepted, request, socket, outcome>>
vars == <<hubVars, processVars>>

Init ==
    /\ HubInit
    /\ main = "serving" /\ outcome = "none"
    /\ cancelled = {} /\ accepted = {}
    /\ request = [r \in Requests |-> "none"]
    /\ socket = [w \in WebSockets |-> "none"]

Running == main # "exited"

\* The listener is open until Shutdown, or the listener itself, closes it.
Listening == main \in {"serving", "stopping", "streamsClosed"}

-----------------------------------------------------------------------------
(* Streams.  Their context ends with that of their request and with the    *)
(* one that CloseStreams cancels, whichever comes first, and at once when  *)
(* it was cancelled before they were opened (context.AfterFunc).           *)

Accept(s) ==
    /\ Listening /\ stream[s] = "new"
    /\ accepted' = accepted \cup {s}
    /\ UNCHANGED <<hubVars, main, cancelled, request, socket, outcome>>

\* Not authenticated, or no lease: the handler answers and returns.
Refuse(s) ==
    /\ Running /\ s \in accepted /\ stream[s] = "new"
    /\ accepted' = accepted \ {s}
    /\ UNCHANGED <<hubVars, main, cancelled, request, socket, outcome>>

OpenStream(s) ==
    /\ Running /\ s \in accepted
    /\ Register(s)
    /\ UNCHANGED processVars

StreamContextDone == cancelled \cap {"streams", "requests"} # {}

StreamCancelled(s) ==
    /\ Running /\ StreamContextDone
    /\ Leave(s)
    /\ UNCHANGED processVars

StreamGoesOn(s) ==
    /\ Running
    /\ Handler(s) \/ Unregister(s)
    /\ UNCHANGED processVars

\* Its client leaves, its session ends, its lease or a write fails.
StreamEnds(s) ==
    /\ Running
    /\ Leave(s)
    /\ UNCHANGED processVars

\* runHintSubscriber.
HintArrives(p) ==
    /\ Running
    /\ Publishing(p)
    /\ UNCHANGED processVars

-----------------------------------------------------------------------------
(* Plain requests and WebSockets. *)

SetRequest(r, state) ==
    /\ request' = [request EXCEPT ![r] = state]
    /\ UNCHANGED <<hubVars, main, cancelled, accepted, socket, outcome>>

BeginRequest(r) ==
    /\ Listening /\ request[r] = "none"
    /\ \E state \in {"reading", "running"} : SetRequest(r, state)

\* The body has arrived, or its client has left; no deadline ends the wait.
ReadBody(r) ==
    /\ Running /\ request[r] = "reading"
    /\ SetRequest(r, "running")

\* A request whose context is done fails at its next call of a store.
EndRequest(r) ==
    /\ Running /\ request[r] = "running"
    /\ \/ SetRequest(r, "writing")
       \/ "requests" \in cancelled /\ SetRequest(r, "cut")

\* The client has taken the answer or left; no deadline ends this wait, either.
WriteAnswer(r) ==
    /\ Running /\ request[r] = "writing"
    /\ SetRequest(r, "answered")

SetSocket(w, state) ==
    /\ socket' = [socket EXCEPT ![w] = state]
    /\ UNCHANGED <<hubVars, main, cancelled, accepted, request, outcome>>

BeginUpgrade(w) ==
    /\ Listening /\ socket[w] = "none"
    /\ SetSocket(w, "upgrading")

\* websocket.Accept hijacks the connection; a refused upgrade ends there.
Upgrade(w) ==
    /\ Running /\ socket[w] = "upgrading"
    /\ \E state \in {"hijacked", "ended"} : SetSocket(w, state)

EndSocket(w) ==
    /\ Running /\ socket[w] = "hijacked"
    /\ SetSocket(w, "ended")

-----------------------------------------------------------------------------
(* serve. *)

Go(from, to) ==
    /\ main = from /\ main' = to
    /\ UNCHANGED <<accepted, request, socket>>

Cancel(context) == cancelled' = cancelled \cup {context}

\* SIGTERM, SIGINT, or the outbox publisher has stopped.
Signal ==
    /\ main = "serving" /\ "root" \notin cancelled
    /\ Cancel("root")
    /\ UNCHANGED <<hubVars, main, accepted, request, socket, outcome>>

SeeSignal ==
    /\ "root" \in cancelled
    /\ Go("serving", "stopping")
    /\ UNCHANGED <<hubVars, cancelled, outcome>>

\* ListenAndServe fails: serve returns the error at once.
ListenerFails ==
    /\ Go("serving", "returning")
    /\ outcome' = "failed"
    /\ UNCHANGED <<hubVars, cancelled>>

\* Mutant: streams are left to Shutdown.
CloseStreamsLater ==
    /\ Go("stopping", "streamsClosed")
    /\ UNCHANGED <<hubVars, cancelled, outcome>>

\* Mutant: all requests are cancelled together with the streams.
CloseStreamsAndRequests ==
    /\ Go("stopping", "streamsClosed")
    /\ cancelled' = cancelled \cup {"streams", "requests"}
    /\ UNCHANGED <<hubVars, outcome>>

CloseStreams ==
    /\ Go("stopping", "streamsClosed")
    /\ Cancel("streams")
    /\ UNCHANGED <<hubVars, outcome>>

Shutdown ==
    /\ Go("streamsClosed", "draining")
    /\ UNCHANGED <<hubVars, cancelled, outcome>>

\* The handlers that Shutdown waits for.
Serving ==
    \/ \E s \in accepted : stream[s] # "gone"
    \/ \E r \in Requests : request[r] \in {"reading", "running", "writing"}
    \/ \E w \in WebSockets : socket[w] = "upgrading"

Drained ==
    /\ ~Serving
    /\ Go("draining", "returning")
    /\ outcome' = "drained"
    /\ UNCHANGED <<hubVars, cancelled>>

\* SHUTDOWN_TIMEOUT has passed.
Timeout ==
    /\ Serving
    /\ Go("draining", "returning")
    /\ outcome' = "timeout"
    /\ UNCHANGED <<hubVars, cancelled>>

\* cancelRequests, after Shutdown or deferred.
CancelRequests ==
    /\ Go("returning", "requestsCancelled")
    /\ Cancel("requests")
    /\ UNCHANGED <<hubVars, outcome>>

\* The deferred wakeHub.Close, which waits for publications under way.
CloseHub ==
    /\ Go("requestsCancelled", "hubClosed")
    /\ Close
    /\ UNCHANGED <<cancelled, outcome>>

\* The stores are closed and main returns, with every goroutine that is left.
Exit ==
    /\ Go("hubClosed", "exited")
    /\ UNCHANGED <<hubVars, cancelled, outcome>>

Serve ==
    \/ SeeSignal \/ CloseStreams \/ Shutdown \/ Drained
    \/ CancelRequests \/ CloseHub \/ Exit

Next ==
    \/ \E s \in Subscriptions :
        \/ Accept(s) \/ Refuse(s) \/ OpenStream(s)
        \/ StreamCancelled(s) \/ StreamGoesOn(s) \/ StreamEnds(s)
    \/ \E p \in Publishers : HintArrives(p)
    \/ \E r \in Requests : BeginRequest(r) \/ ReadBody(r) \/ EndRequest(r) \/ WriteAnswer(r)
    \/ \E w \in WebSockets : BeginUpgrade(w) \/ Upgrade(w) \/ EndSocket(w)
    \/ Signal \/ ListenerFails \/ Timeout
    \/ Serve

Spec == Init /\ [][Next]_vars

\* What has begun runs on: serve, handlers, publications.  The stores answer, so
\* that a plain request gets to its answer once it has its body, and an upgrade
\* ends.  Nothing is assumed of clients: one may never send its body or take its
\* answer.  A stream ends once its context is done, a WebSocket may stay.
\* sync.RWMutex lets no new reader in while a writer waits, so a writer gets
\* the lock although publications go on.  No signal and no timeout is assumed.
Fairness ==
    /\ SF_vars(Serve)
    /\ \A s \in Subscriptions :
        /\ WF_vars(StreamCancelled(s))
        /\ SF_vars(OpenStream(s) \/ Refuse(s)) /\ SF_vars(Unregister(s) /\ StreamGoesOn(s))
    /\ \A p \in Publishers :
        WF_vars(HintArrives(p) /\ ((\E s \in Subscriptions : PublishTo(p, s)) \/ PublishEnd(p)))
    /\ \A r \in Requests : WF_vars(EndRequest(r))
    /\ \A w \in WebSockets : WF_vars(Upgrade(w))

FairSpec == Spec /\ Fairness

-----------------------------------------------------------------------------
(* Properties. *)

\* The order of main's calls: nothing that Shutdown drains is cancelled or
\* left running unless its time is over or the listener failed.  A stream
\* that is cut keeps its lease, a request may be committed and unanswered.
OrderlyExitCutsNothing ==
    outcome \notin {"timeout", "failed"} =>
        /\ \A r \in Requests : request[r] # "cut"
        /\ main = "exited" => ~Serving

\* server.go, CloseStreams: "must be called before http.Server.Shutdown, so
\* that Shutdown does not wait for streams to end by themselves": a process
\* that got its signal exits although SHUTDOWN_TIMEOUT may never pass and no
\* client of a stream leaves, streams that are just being opened included.  Only
\* the client of a plain request can hold it up, and only if it never sends its
\* body or never takes its answer.
ShutdownNeedsNoTimeout ==
    main = "stopping" ~>
        \/ main = "exited"
        \/ \E r \in Requests : [](request[r] \in {"reading", "writing"})

\* README, production: the exit of WebSockets is completed within the timeout.
WebSocketsExitFirst ==
    main = "exited" /\ outcome = "drained" =>
        \A w \in WebSockets : socket[w] # "hijacked"
=============================================================================
