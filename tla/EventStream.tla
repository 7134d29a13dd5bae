---------------------------- MODULE EventStream ----------------------------
(***************************************************************************)
(* The SSE streams of one owner (internal/httpapi/sse.go) with the WakeHub *)
(* of their process (internal/realtime/wake_hub.go), over the commits of   *)
(* FeedLog and the hints of HintPipeline.                                  *)
(*                                                                         *)
(* A stream reads one page per MySQL transaction and writes it before it   *)
(* reads the next one, so commits, replaced lineages and hints come        *)
(* between any two pages and between a read and its write.                 *)
(***************************************************************************)
EXTENDS HintPipeline, Sequences, FiniteSetsExt

CONSTANTS
    Streams,    \* the connections that may be open
    Home,       \* the process that serves a stream
    PageLimit,  \* sseFeedPageLimit
    Sizes,      \* the encoded sizes of a change
    MaxEvent,   \* MaxProtobufBytes: the encoded size of an event's changes
    MaxCursor,  \* bound: the cursors clients ask for
    MaxPage     \* bound: the pages on which the search is checked

ASSUME HomeAssumption == Home \in [Streams -> Subscribers]
ASSUME PageLimitAssumption == PageLimit \in Nat \ {0}
ASSUME SizesAssumption == Sizes \subseteq Nat \ {0} /\ MaxEvent \in Nat
ASSUME StreamBoundsAssumption == {MaxCursor, MaxPage} \subseteq Nat

VARIABLE
    stream      \* the handler of each connection, and what it has written

vars == <<feedVars, hintVars, stream>>

NoPage == [event |-> "none", upto |-> 0, more |-> FALSE, head |-> 0]

Closed == [phase |-> "closed", baseline |-> NoLineage, from |-> 0, cursor |-> 0,
           initial |-> TRUE, page |-> NoPage, wake |-> FALSE, asOf |-> 0, sent |-> <<>>]

Init ==
    /\ FeedInit
    /\ HintInit
    /\ stream = [s \in Streams |-> Closed]

\* The phases in which the stream is registered with the wake hub.
Registered(s) == stream[s].phase \in {"read", "write", "wait"}

\* The handler of s goes on as st.
Go(s, st) ==
    /\ stream' = [stream EXCEPT ![s] = st]
    /\ UNCHANGED <<feedVars, hintVars>>

-----------------------------------------------------------------------------
(* Opening. *)

\* The request is valid and the lease acquired.
Open(s, b, c) ==
    /\ stream[s].phase = "closed"
    /\ Go(s, [Closed EXCEPT !.phase = "leased", !.baseline = b, !.from = c, !.cursor = c])

\* wakeHub.Register, then the first page.
Register(s) ==
    /\ stream[s].phase = "leased"
    /\ Go(s, [stream[s] EXCEPT !.phase = "read"])

-----------------------------------------------------------------------------
(* sendFeed: ReadFeedPage, then one event, then the next page. *)

Event(name, upto, more, head) == [event |-> name, upto |-> upto, more |-> more, head |-> head]

\* Mutant: the lineage is compared on the first page only.
MismatchAtStart(st) == lineage \notin {NoLineage, st.baseline} /\ st.sent = <<>>

\* The snapshot belongs to another lineage; an owner without one has none.
Mismatch(st) == lineage \notin {NoLineage, st.baseline}

\* The changes of the page after st.cursor, and whether there are more.
HasMore(st) == HeadCursor - st.cursor > PageLimit
Available(st) == IF HasMore(st) THEN PageLimit ELSE HeadCursor - st.cursor

\* The size of an event with the first k changes of a page.
SizeOf(size, k) ==
    LET sum[i \in 0..Len(size)] == IF i = 0 THEN 0 ELSE sum[i - 1] + size[i]
    IN sum[k]

\* The variables of the search loop on a page of n changes.
SearchStates(n) == [low : 1..n + 1, high : 0..n, best : 0..n]

Middle(at) == at.low + (at.high - at.low) \div 2

\* Mutant: the last candidate is not tried.
BoundedPrefixOptimistic(size) ==
    LET n == Len(size)
        search[at \in SearchStates(n)] ==
            IF at.low >= at.high THEN at.best
            ELSE IF SizeOf(size, Middle(at)) <= MaxEvent
            THEN search[[at EXCEPT !.best = Middle(at), !.low = Middle(at) + 1]]
            ELSE search[[at EXCEPT !.high = Middle(at) - 1]]
    IN IF SizeOf(size, n) <= MaxEvent THEN n ELSE search[[low |-> 1, high |-> n, best |-> 0]]

\* What the loop leaves in best, from any values of its variables.
Search(size) ==
    LET search[at \in SearchStates(Len(size))] ==
            IF at.low > at.high THEN at.best
            ELSE IF SizeOf(size, Middle(at)) <= MaxEvent
            THEN search[[at EXCEPT !.best = Middle(at), !.low = Middle(at) + 1]]
            ELSE search[[at EXCEPT !.high = Middle(at) - 1]]
    IN search

\* How many changes of the page an event takes: a binary search for the
\* longest prefix that fits, 0 when not even the first change does.
BoundedPrefix(size) ==
    LET n == Len(size)
    IN IF SizeOf(size, n) <= MaxEvent THEN n
       ELSE Search(size)[[low |-> 1, high |-> n, best |-> 0]]

\* Mutant: HasMore of the page decides, although not all of it was sent.
ChangesPageAsRead(st, k) == Event("changes", st.cursor + k, HasMore(st), HeadCursor)

\* boundedFeedResponse sends the first k changes of the page.
ChangesPage(st, k) ==
    Event("changes", st.cursor + k, k < Available(st) \/ HasMore(st), HeadCursor)

\* The event that a snapshot taken now makes the stream write; none if the
\* first change of the page exceeds the limit (then only FeedFails is left).
NextEvents(st) ==
    IF Mismatch(st) THEN {Event("baseline_mismatch", st.cursor, FALSE, HeadCursor)}
    ELSE IF st.cursor > HeadCursor THEN {Event("reset_required", 0, FALSE, HeadCursor)}
    ELSE IF st.cursor = HeadCursor THEN {Event("ready", st.cursor, FALSE, HeadCursor)}
    ELSE {ChangesPage(st, k) :
            k \in {BoundedPrefix(size) : size \in [1..Available(st) -> Sizes]} \ {0}}

\* Mutant: notifications that came during the catch-up are drained after it.
WaitDrained(st) ==
    [st EXCEPT !.phase = "wait", !.initial = FALSE, !.page = NoPage, !.wake = FALSE]

\* Mutant: the last page is kept.
WaitKeepsPage(st) == [st EXCEPT !.phase = "wait", !.initial = FALSE]

\* Back to the select loop.
Wait(st) == [st EXCEPT !.phase = "wait", !.initial = FALSE, !.page = NoPage]

\* One short snapshot transaction.  A catch-up that finds nothing writes
\* "ready" on the first time and nothing later.
ReadPage(s) ==
    LET st == [stream[s] EXCEPT !.asOf = rows]
    IN /\ st.phase = "read"
       /\ \E e \in NextEvents(st) :
            Go(s, IF e.event = "ready" /\ ~st.initial THEN Wait(st)
                  ELSE [st EXCEPT !.phase = "write", !.page = e])

\* "changes" was written: the next page, or "ready", or back to waiting.
WriteChanges(s) ==
    LET st == stream[s]
        written == [st EXCEPT !.cursor = st.page.upto,
                              !.sent = @ \o [i \in 1..(st.page.upto - st.cursor) |->
                                                <<st.baseline, st.cursor + i>>]]
    IN /\ st.phase = "write" /\ st.page.event = "changes"
       /\ Go(s, IF st.page.more THEN [written EXCEPT !.phase = "read", !.page = NoPage]
                ELSE IF st.initial
                THEN [written EXCEPT !.page = Event("ready", st.page.upto, FALSE, st.page.head)]
                ELSE Wait(written))

WriteReady(s) ==
    /\ stream[s].phase = "write" /\ stream[s].page.event = "ready"
    /\ Go(s, Wait(stream[s]))

\* baseline_mismatch and reset_required end the stream.
WriteTerminal(s) ==
    /\ stream[s].phase = "write"
    /\ stream[s].page.event \in {"baseline_mismatch", "reset_required"}
    /\ Go(s, Closed)

\* The page could not be read ("unavailable" is the last event), or the event
\* could not be written within its deadline.
FeedFails(s) ==
    /\ stream[s].phase \in {"read", "write"}
    /\ Go(s, Closed)

-----------------------------------------------------------------------------
(* The select loop. *)

\* A notification is taken before the page is read.
WakeUp(s) ==
    /\ stream[s].phase = "wait" /\ stream[s].wake
    /\ Go(s, [stream[s] EXCEPT !.phase = "read", !.wake = FALSE])

\* Mutant: the ticker writes a heartbeat and reads nothing.
ReconcileHeartbeat(s) ==
    /\ stream[s].phase = "wait"
    /\ Go(s, stream[s])

\* The 30 s ticker.
Reconcile(s) ==
    /\ stream[s].phase = "wait"
    /\ Go(s, [stream[s] EXCEPT !.phase = "read"])

\* The client left, the server shuts down, the session expired, the lease was
\* lost, a heartbeat could not be written, or the hub was closed.
End(s) ==
    /\ stream[s].phase = "wait"
    /\ Go(s, Closed)

\* runHintSubscriber: WakeHub.Publish wakes all streams of the process, and a
\* notification that is still pending swallows the new one.
Deliver(q) ==
    /\ \E row \in inbox[q] : TakeHint(q, row)
    /\ stream' = [s \in Streams |->
                    IF Home[s] = q /\ Registered(s) THEN [stream[s] EXCEPT !.wake = TRUE]
                    ELSE stream[s]]
    /\ UNCHANGED feedVars

\* The process dies, with its streams and its subscription.
Crash(q) ==
    /\ subscribed' = [subscribed EXCEPT ![q] = FALSE]
    /\ inbox' = [inbox EXCEPT ![q] = {}]
    /\ missed' = [missed EXCEPT ![q] = @ \cup inbox[q]]
    /\ stream' = [s \in Streams |-> IF Home[s] = q THEN Closed ELSE stream[s]]
    /\ UNCHANGED <<feedVars, unpublished, publisher>>

Handler(s) ==
    \/ \E b \in Lineages, c \in 0..MaxCursor : Open(s, b, c)
    \/ Register(s)
    \/ ReadPage(s)
    \/ WriteChanges(s)
    \/ WriteReady(s)
    \/ WriteTerminal(s)
    \/ FeedFails(s)
    \/ WakeUp(s)
    \/ Reconcile(s)
    \/ End(s)

Next ==
    \/ Commit /\ UNCHANGED stream
    \/ Pipeline /\ UNCHANGED <<feedVars, stream>>
    \/ \E s \in Streams : Handler(s)
    \/ \E q \in Subscribers : Deliver(q) \/ Crash(q)

Spec == Init /\ [][Next]_vars

\* A handler keeps running: it registers, reads and writes unless it ends, and
\* the ticker of its select loop is served in the end.  No fairness of hints,
\* publishers or subscriptions is assumed.
Fairness ==
    \A s \in Streams :
        /\ WF_vars(Register(s))
        /\ WF_vars(ReadPage(s))
        /\ WF_vars(WriteChanges(s) \/ WriteReady(s) \/ WriteTerminal(s))
        /\ WF_vars(Reconcile(s))

FairSpec == Spec /\ Fairness

-----------------------------------------------------------------------------
(* Properties. *)

Events == {"none", "changes", "ready", "baseline_mismatch", "reset_required"}

\* Every connection is closed or in a phase of events, with a page in hand
\* exactly while it writes one.
TypeOK ==
    /\ FeedTypeOK
    /\ HintTypeOK
    /\ stream \in [Streams ->
            [phase : {"closed", "leased", "read", "write", "wait"},
             baseline : Lineages \cup {NoLineage}, from : Nat, cursor : Nat,
             initial : BOOLEAN, wake : BOOLEAN, asOf : Nat, sent : Seq(Lineages \X Nat),
             page : [event : Events, upto : Nat, more : BOOLEAN, head : Nat]]]
    /\ \A s \in Streams :
        /\ stream[s].phase # "closed" <=> stream[s].baseline \in Lineages
        /\ stream[s].phase = "write" <=> stream[s].page.event # "none"

\* README, SSE events: Changes are sent in ascending cursor order and without
\* gaps from the cursor the client named, all of them from the lineage the
\* client named and committed, although the lineage may be replaced between
\* two pages.
StreamIsGapless ==
    \A s \in Streams :
        LET st == stream[s]
        IN /\ st.sent = [i \in 1..(st.cursor - st.from) |-> <<st.baseline, st.from + i>>]
           /\ st.sent # <<>> => st.cursor <= tip[st.baseline]

\* README, SSE events: "ready" is sent only when the stream has sent every
\* Change up to the head of the snapshot it is based on, once per connection.
ReadyMeansCaughtUp ==
    \A s \in Streams :
        stream[s].page.event = "ready" =>
            /\ stream[s].initial
            /\ stream[s].cursor = stream[s].page.head

\* The current lineage has changes, or a replacement, that the stream has not
\* told its client, and that a row of the outbox announces.
Behind(st) ==
    \/ lineage = st.baseline /\ st.cursor # HeadCursor
    \/ Mismatch(st) /\ lineage \in archived

\* A waiting stream that is behind has a wake-up coming: it is pending, or a
\* row written after the stream's last read is still to be published or
\* handled, or Redis lost it (then the ticker is all that is left).
NoLostWakeUp ==
    \A s \in Streams :
        LET st == stream[s]
        IN st.phase = "wait" /\ Behind(st) =>
            \/ st.wake
            \/ \E row \in (st.asOf + 1)..rows :
                row \in unpublished \cup inbox[Home[s]] \cup missed[Home[s]]

LongestPrefixes ==
    \A n \in 1..MaxPage : \A size \in [1..n -> Sizes] :
        BoundedPrefix(size) = Max({0} \cup {k \in 1..n : SizeOf(size, k) <= MaxEvent})

\* boundedFeedResponse: whenever a stream reads a page, its event takes the
\* longest prefix that fits the limit, for up to MaxPage changes of any sizes.
\* A shorter one could be empty, and the stream would end although its next
\* change fits; a longer one would exceed what a client accepts.
PrefixIsLongest == \A s \in Streams : stream[s].phase = "read" => LongestPrefixes

CaughtUp(st) == st.phase = "wait" /\ ~Mismatch(st) /\ st.cursor = HeadCursor

\* README, realtime: a stream that stays open reaches the head of its lineage,
\* or tells its client that the lineage is another one, although any hint may
\* be lost.
StreamCatchesUp ==
    \A s \in Streams :
        stream[s].phase # "closed" ~> stream[s].phase = "closed" \/ CaughtUp(stream[s])
=============================================================================
