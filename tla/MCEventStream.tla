--------------------------- MODULE MCEventStream ---------------------------
(***************************************************************************)
(* One stream that may be opened again and again on any of two lineages    *)
(* and at any cursor, while batches and imports are committed and their    *)
(* hints are published, lost, delayed and repeated.  Pages of two changes  *)
(* and lineages of three make a catch-up take more than one page.          *)
(***************************************************************************)
EXTENDS EventStream

CONSTANTS a, b, p, q, s

MCLineages == {a, b}
MCPublishers == {p}
MCSubscribers == {q}
MCStreams == {s}
MCHome == [x \in MCStreams |-> q]
=============================================================================
