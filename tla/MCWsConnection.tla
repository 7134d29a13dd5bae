--------------------------- MODULE MCWsConnection ---------------------------
(***************************************************************************)
(* A queue with one slot, so that two messages of any kind fill it, and    *)
(* the hint of a commit of c2 or of another process.  Either one           *)
(* connection is open and may fail in every way, or two are, one of which  *)
(* sends a frame, and they leave or stall as they like.                    *)
(***************************************************************************)
EXTENDS WsConnection

CONSTANTS c1, c2, h1

MCConnections == {c1, c2}
MCHints == {h1}
MCOrigin == [h \in MCHints |-> c2]
OneFrame(c) == [d \in MCConnections |-> IF d = c THEN 1 ELSE 0]
MCScopes == {[open |-> {c1}, faulty |-> {c1}, frames |-> OneFrame(c1)],
             [open |-> {c1, c2}, faulty |-> {}, frames |-> OneFrame(c1)]}
=============================================================================
