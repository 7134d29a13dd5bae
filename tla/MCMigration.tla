---------------------------- MODULE MCMigration ----------------------------
(***************************************************************************)
(* Two migrators, one server and three of the ten statements: none, some   *)
(* or all of them are executed when a run fails.                           *)
(***************************************************************************)
EXTENDS Migration

CONSTANTS m1, m2, s

MCMigrators == {m1, m2}
MCServers == {s}
=============================================================================
