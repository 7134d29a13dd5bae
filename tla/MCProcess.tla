----------------------------- MODULE MCProcess -----------------------------
(***************************************************************************)
(* Two streams of one owner, another owner without streams, the publisher  *)
(* of the process, one plain request and one WebSocket.                    *)
(***************************************************************************)
EXTENDS Process

CONSTANTS s1, s2, o1, o2, p1, r1, w1

MCSubscriptions == {s1, s2}
MCOwners == {o1, o2}
MCOwner == [s \in MCSubscriptions |-> o1]
MCPublishers == {p1}
MCRequests == {r1}
MCWebSockets == {w1}
=============================================================================
