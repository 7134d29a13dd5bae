---------------------------- MODULE HintPipeline ----------------------------
(***************************************************************************)
(* From the outbox to the processes that hold event streams: RunOutbox     *)
(* (internal/store/mysql/outbox.go) publishes each row of realtime_outbox  *)
(* through Redis and marks it, SubscribeHints (internal/realtime/redis.go) *)
(* receives what is published while it is subscribed.                      *)
(*                                                                         *)
(* Every serve process runs one publisher and one subscriber; they share   *)
(* nothing but MySQL and Redis, so the two sets are separate.  A hint is   *)
(* the number of its row: for an event stream it carries nothing more.     *)
(***************************************************************************)
EXTENDS FeedLog

CONSTANTS Publishers, Subscribers

VARIABLES
    unpublished,  \* rows with published_at_ms IS NULL
    publisher,    \* the row each publisher has locked, and whether it was sent
    subscribed,   \* which subscribers Redis delivers to
    inbox,        \* hints delivered to a subscriber and not handled yet
    missed        \* history: hints a subscriber was not there for, or lost

hintVars == <<unpublished, publisher, subscribed, inbox, missed>>

Idle == [row |-> 0, sent |-> FALSE]

HintInit ==
    /\ unpublished = {}
    /\ publisher = [p \in Publishers |-> Idle]
    /\ subscribed = [q \in Subscribers |-> FALSE]
    /\ inbox = [q \in Subscribers |-> {}]
    /\ missed = [q \in Subscribers |-> {}]

\* A commit leaves its row, if any, unpublished.
Commit ==
    /\ FeedNext
    /\ unpublished' = unpublished \cup ((rows + 1)..rows')
    /\ UNCHANGED <<publisher, subscribed, inbox, missed>>

Locked == {publisher[p].row : p \in Publishers}

\* FOR UPDATE SKIP LOCKED, ORDER BY id LIMIT 1.
LockRow(p) ==
    /\ publisher[p] = Idle
    /\ \E row \in unpublished \ Locked :
        /\ \A other \in unpublished \ Locked : row <= other
        /\ publisher' = [publisher EXCEPT ![p] = [row |-> row, sent |-> FALSE]]
    /\ UNCHANGED <<unpublished, subscribed, inbox, missed>>

\* PUBLISH reaches the processes that are subscribed at that moment.
Redis(row) ==
    /\ inbox' = [q \in Subscribers |-> IF subscribed[q] THEN inbox[q] \cup {row} ELSE inbox[q]]
    /\ missed' = [q \in Subscribers |-> IF subscribed[q] THEN missed[q] ELSE missed[q] \cup {row}]

ToSend(p) == publisher[p].row # 0 /\ ~publisher[p].sent

PublishHint(p) ==
    /\ ToSend(p)
    /\ Redis(publisher[p].row)
    /\ publisher' = [publisher EXCEPT ![p].sent = TRUE]
    /\ UNCHANGED <<unpublished, subscribed>>

\* PublishHint returned an error, before or after Redis took the hint: the
\* row keeps published_at_ms NULL.
PublishFails(p) ==
    /\ ToSend(p)
    /\ \/ Redis(publisher[p].row)
       \/ UNCHANGED <<inbox, missed>>
    /\ publisher' = [publisher EXCEPT ![p] = Idle]
    /\ UNCHANGED <<unpublished, subscribed>>

\* Mutant: the row is found published, but not marked.
ReleaseUnmarked(p) ==
    /\ publisher[p].sent
    /\ publisher' = [publisher EXCEPT ![p] = Idle]
    /\ UNCHANGED <<unpublished, subscribed, inbox, missed>>

MarkPublished(p) ==
    /\ publisher[p].sent
    /\ unpublished' = unpublished \ {publisher[p].row}
    /\ publisher' = [publisher EXCEPT ![p] = Idle]
    /\ UNCHANGED <<subscribed, inbox, missed>>

\* The update or the commit failed, or the process died: MySQL rolls back and
\* the row is published once more.
PublisherRollback(p) ==
    /\ publisher[p] # Idle
    /\ publisher' = [publisher EXCEPT ![p] = Idle]
    /\ UNCHANGED <<unpublished, subscribed, inbox, missed>>

\* runHintSubscriber (re)subscribes.
Subscribe(q) ==
    /\ ~subscribed[q]
    /\ subscribed' = [subscribed EXCEPT ![q] = TRUE]
    /\ UNCHANGED <<unpublished, publisher, inbox, missed>>

\* The connection to Redis breaks, and takes along what was not handled yet.
LoseSubscription(q) ==
    /\ subscribed[q]
    /\ subscribed' = [subscribed EXCEPT ![q] = FALSE]
    /\ missed' = [missed EXCEPT ![q] = @ \cup inbox[q]]
    /\ inbox' = [inbox EXCEPT ![q] = {}]
    /\ UNCHANGED <<unpublished, publisher>>

\* The subscriber takes a hint; what it does with it is up to EventStream.
TakeHint(q, row) ==
    /\ row \in inbox[q]
    /\ inbox' = [inbox EXCEPT ![q] = @ \ {row}]
    /\ UNCHANGED <<unpublished, publisher, subscribed, missed>>

Pipeline ==
    \/ \E p \in Publishers :
        \/ LockRow(p)
        \/ PublishHint(p)
        \/ PublishFails(p)
        \/ MarkPublished(p)
        \/ PublisherRollback(p)
    \/ \E q \in Subscribers :
        \/ Subscribe(q)
        \/ LoseSubscription(q)

HintTypeOK ==
    /\ unpublished \subseteq 1..rows
    /\ publisher \in [Publishers -> [row : 0..rows, sent : BOOLEAN]]
    /\ subscribed \in [Subscribers -> BOOLEAN]
    /\ inbox \in [Subscribers -> SUBSET (1..rows)]
    /\ missed \in [Subscribers -> SUBSET (1..rows)]

-----------------------------------------------------------------------------
(* The pipeline by itself. *)

pipelineVars == <<feedVars, hintVars>>

HintNext ==
    \/ Commit
    \/ Pipeline /\ UNCHANGED feedVars
    \/ \E q \in Subscribers : (\E row \in inbox[q] : TakeHint(q, row)) /\ UNCHANGED feedVars

\* RunOutbox retries for ever; that Redis takes a hint and MySQL a commit again
\* and again is assumed of them.
HintFairness ==
    \A p \in Publishers :
        /\ SF_pipelineVars(LockRow(p) /\ UNCHANGED feedVars)
        /\ SF_pipelineVars(PublishHint(p) /\ UNCHANGED feedVars)
        /\ SF_pipelineVars(MarkPublished(p) /\ UNCHANGED feedVars)

PipelineInit == FeedInit /\ HintInit

HintSpec == PipelineInit /\ [][HintNext]_pipelineVars /\ HintFairness

\* README, realtime: a failed publication is retried until it succeeds; every
\* row of the outbox is published in the end, whatever other publishers hold,
\* roll back or publish twice.
EveryRowIsPublished ==
    \A row \in 1..MaxRows : row \in unpublished ~> row \notin unpublished
=============================================================================
