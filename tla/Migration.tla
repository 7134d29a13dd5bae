----------------------------- MODULE Migration -----------------------------
(***************************************************************************)
(* migrations.Up and migrations.Check (migrations/migrate.go): several     *)
(* "migrate" processes under a MySQL advisory lock, each of which may fail *)
(* or die between any two statements, and "serve" processes that check the *)
(* schema before they start.  MySQL commits every DDL statement by itself. *)
(***************************************************************************)
EXTENDS Integers

CONSTANTS
    Migrators, Servers,
    Nobody,      \* the advisory lock is free
    Statements   \* how many statements follow the one for schema_migrations

ASSUME NobodyAssumption == Nobody \notin Migrators
ASSUME StatementsAssumption == Statements \in Nat \ {0}

VARIABLES
    lock,     \* the session that holds the advisory lock
    schema,   \* schema_migrations: "absent", "empty", or its row "dirty", "clean"
    created,  \* the statements whose table exists
    up,       \* each migrator: where it is, and the statement it runs next
    serving   \* the servers that passed Check

vars == <<lock, schema, created, up, serving>>

Tables == 1..Statements

Init ==
    /\ lock = Nobody
    /\ schema = "absent"
    /\ created = {}
    /\ up = [m \in Migrators |-> [at |-> "idle", statement |-> 1]]
    /\ serving = {}

At(m, step) == up[m].at = step
Move(m, step) == up' = [up EXCEPT ![m] = [at |-> step, statement |-> 1]]

Start(m) ==
    /\ At(m, "idle")
    /\ Move(m, "locking")
    /\ UNCHANGED <<lock, schema, created, serving>>

\* Mutant: GET_LOCK of a name of one's own.
GetLockAlways(m) ==
    /\ At(m, "locking")
    /\ lock' = m
    /\ Move(m, "locked")
    /\ UNCHANGED <<schema, created, serving>>

GetLock(m) ==
    /\ At(m, "locking") /\ lock = Nobody
    /\ lock' = m
    /\ Move(m, "locked")
    /\ UNCHANGED <<schema, created, serving>>

\* After 30 s, or if the connection breaks.
LockTimeout(m) ==
    /\ At(m, "locking")
    /\ Move(m, "idle")
    /\ UNCHANGED <<lock, schema, created, serving>>

\* statements[0], IF NOT EXISTS.
CreateSchemaMigrations(m) ==
    /\ At(m, "locked")
    /\ schema' = IF schema = "absent" THEN "empty" ELSE schema
    /\ Move(m, "reading")
    /\ UNCHANGED <<lock, created, serving>>

ReadDirty(m) ==
    /\ At(m, "reading")
    /\ Move(m, IF schema = "clean" THEN "returning" ELSE "marking")
    /\ UNCHANGED <<lock, schema, created, serving>>

MarkDirty(m) ==
    /\ At(m, "marking")
    /\ schema' = "dirty"
    /\ Move(m, "applying")
    /\ UNCHANGED <<lock, created, serving>>

\* statements[1:], CREATE TABLE IF NOT EXISTS each.
ApplyStatement(m) ==
    /\ At(m, "applying") /\ up[m].statement \in Tables
    /\ created' = created \cup {up[m].statement}
    /\ up' = [up EXCEPT ![m].statement = @ + 1]
    /\ UNCHANGED <<lock, schema, serving>>

MarkClean(m) ==
    /\ At(m, "applying") /\ up[m].statement \notin Tables
    /\ schema' = "clean"
    /\ Move(m, "returning")
    /\ UNCHANGED <<lock, created, serving>>

\* A statement fails, the context expires, or the process dies: what was
\* executed stays.
Fails(m) ==
    /\ up[m].at \in {"locked", "reading", "marking", "applying"}
    /\ Move(m, "returning")
    /\ UNCHANGED <<lock, schema, created, serving>>

\* Mutant: only a run that left the schema clean unlocks.
ReleaseIfClean(m) ==
    /\ At(m, "returning")
    /\ lock' = IF schema = "clean" THEN Nobody ELSE lock
    /\ Move(m, "idle")
    /\ UNCHANGED <<schema, created, serving>>

\* RELEASE_LOCK, or the end of the session.
ReleaseLock(m) ==
    /\ At(m, "returning")
    /\ lock' = Nobody
    /\ Move(m, "idle")
    /\ UNCHANGED <<schema, created, serving>>

\* Mutant: the row alone is enough.
CheckVersion(s) ==
    /\ schema \in {"dirty", "clean"}
    /\ serving' = serving \cup {s}
    /\ UNCHANGED <<lock, schema, created, up>>

Check(s) ==
    /\ schema = "clean"
    /\ serving' = serving \cup {s}
    /\ UNCHANGED <<lock, schema, created, up>>

Up(m) ==
    \/ GetLock(m)
    \/ LockTimeout(m)
    \/ CreateSchemaMigrations(m)
    \/ ReadDirty(m)
    \/ MarkDirty(m)
    \/ ApplyStatement(m)
    \/ MarkClean(m)
    \/ Fails(m)
    \/ ReleaseLock(m)

Next ==
    \/ \E m \in Migrators : Start(m) \/ Up(m)
    \/ \E s \in Servers : Check(s)

Spec == Init /\ [][Next]_vars

\* A run of Up goes on until it returns: every statement has the deadline of
\* migrate's context.  Nobody needs to start a run again.
FairSpec == Spec /\ \A m \in Migrators : WF_vars(Up(m))

-----------------------------------------------------------------------------
(* Properties. *)

\* The lock is held by the migrator that works, and by no other.
TypeOK ==
    /\ lock \in Migrators \cup {Nobody}
    /\ schema \in {"absent", "empty", "dirty", "clean"}
    /\ created \subseteq Tables
    /\ up \in [Migrators ->
            [at : {"idle", "locking", "locked", "reading", "marking", "applying", "returning"},
             statement : 1..(Statements + 1)]]
    /\ serving \subseteq Servers
    /\ \A m \in Migrators : up[m].at \notin {"idle", "locking"} <=> lock = m

\* README, startup: the application only checks the schema version; a server
\* that passed Check finds every table, whichever run was interrupted where.
ServingMeansComplete == serving # {} => created = Tables

\* Up returns early when the row is clean: a clean schema is complete, and a
\* second migrator does not mark it dirty under the servers that run on it
\* (/readyz repeats Check).
CleanMeansComplete == schema = "clean" => created = Tables
CleanIsFinal == [][schema = "clean" => schema' = "clean"]_vars

\* The deferred RELEASE_LOCK: a failed run does not lock the next ones out.
LockIsFreed == \A m \in Migrators : lock = m ~> lock = Nobody
=============================================================================
