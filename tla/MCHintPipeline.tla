-------------------------- MODULE MCHintPipeline ---------------------------
(***************************************************************************)
(* Two publishers that compete for three rows and one subscriber that      *)
(* comes and goes.  One lineage is enough: a row is a number.              *)
(***************************************************************************)
EXTENDS HintPipeline

CONSTANTS a, p1, p2, q

MCLineages == {a}
MCPublishers == {p1, p2}
MCSubscribers == {q}
=============================================================================
