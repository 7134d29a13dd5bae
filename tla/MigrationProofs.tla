-------------------------- MODULE MigrationProofs --------------------------
(***************************************************************************)
(* A server that passed Check has a complete schema, for any number of     *)
(* migrators, servers and statements.                                      *)
(***************************************************************************)
EXTENDS Migration, TLAPS

\* What was executed so far is there, whoever executed it before.
AppliedSoFar ==
    \A m \in Migrators : At(m, "applying") =>
        \A i \in Tables : i < up[m].statement => i \in created

\* The run that is about to mark the row dirty, or has marked it, found it not
\* clean, and nobody cleans it in between: this is what the lock is for.
NotCleanUnderWay ==
    \A m \in Migrators : up[m].at \in {"marking", "applying"} => schema # "clean"

ServingMeansClean == serving # {} => schema = "clean"

IInv ==
    /\ TypeOK
    /\ AppliedSoFar
    /\ NotCleanUnderWay
    /\ CleanMeansComplete
    /\ ServingMeansClean

\* The initial state satisfies the inductive invariant.
LEMMA InitHolds == Init => IInv
  BY NobodyAssumption, StatementsAssumption
  DEF Init, IInv, TypeOK, AppliedSoFar, NotCleanUnderWay, CleanMeansComplete,
      ServingMeansClean, At, Tables

\* Every step keeps the types, and the lock with the one migrator that works.
LEMMA TypeStep == TypeOK /\ [Next]_vars => TypeOK'
  <1> SUFFICES ASSUME TypeOK, [Next]_vars PROVE TypeOK'
    OBVIOUS
  <1> USE NobodyAssumption, StatementsAssumption DEF TypeOK, Tables
  <1>1. ASSUME NEW m \in Migrators, Start(m) PROVE TypeOK'
    BY <1>1 DEF Start, At, Move
  <1>2. ASSUME NEW m \in Migrators, GetLock(m) PROVE TypeOK'
    BY <1>2 DEF GetLock, At, Move
  <1>3. ASSUME NEW m \in Migrators, LockTimeout(m) PROVE TypeOK'
    BY <1>3 DEF LockTimeout, At, Move
  <1>4. ASSUME NEW m \in Migrators, CreateSchemaMigrations(m) PROVE TypeOK'
    BY <1>4 DEF CreateSchemaMigrations, At, Move
  <1>5. ASSUME NEW m \in Migrators, ReadDirty(m) PROVE TypeOK'
    BY <1>5 DEF ReadDirty, At, Move
  <1>6. ASSUME NEW m \in Migrators, MarkDirty(m) PROVE TypeOK'
    BY <1>6 DEF MarkDirty, At, Move
  <1>7. ASSUME NEW m \in Migrators, ApplyStatement(m) PROVE TypeOK'
    BY <1>7 DEF ApplyStatement, At
  <1>8. ASSUME NEW m \in Migrators, MarkClean(m) PROVE TypeOK'
    BY <1>8 DEF MarkClean, At, Move
  <1>9. ASSUME NEW m \in Migrators, Fails(m) PROVE TypeOK'
    BY <1>9 DEF Fails, Move
  <1>10. ASSUME NEW m \in Migrators, ReleaseLock(m) PROVE TypeOK'
    BY <1>10 DEF ReleaseLock, At, Move
  <1>11. ASSUME NEW s \in Servers, Check(s) PROVE TypeOK'
    BY <1>11 DEF Check
  <1>12. CASE UNCHANGED vars
    BY <1>12 DEF vars
  <1> QED
    BY <1>1, <1>2, <1>3, <1>4, <1>5, <1>6, <1>7, <1>8, <1>9, <1>10, <1>11, <1>12 DEF Next, Up

\* Every step keeps what relates the row, the tables and the servers.
LEMMA SchemaStep == IInv /\ [Next]_vars => IInv'
  <1> SUFFICES ASSUME IInv, [Next]_vars PROVE IInv'
    OBVIOUS
  <1>0. TypeOK'
    BY TypeStep DEF IInv
  <1> DEFINE Rest == AppliedSoFar /\ NotCleanUnderWay /\ CleanMeansComplete /\ ServingMeansClean
  <1> USE NobodyAssumption, StatementsAssumption
      DEF IInv, TypeOK, Tables, AppliedSoFar, NotCleanUnderWay, CleanMeansComplete,
          ServingMeansClean
  <1>1. ASSUME NEW m \in Migrators, Start(m) PROVE Rest'
    BY <1>1 DEF Start, At, Move
  <1>2. ASSUME NEW m \in Migrators, GetLock(m) PROVE Rest'
    BY <1>2 DEF GetLock, At, Move
  <1>3. ASSUME NEW m \in Migrators, LockTimeout(m) PROVE Rest'
    BY <1>3 DEF LockTimeout, At, Move
  <1>4. ASSUME NEW m \in Migrators, CreateSchemaMigrations(m) PROVE Rest'
    BY <1>4 DEF CreateSchemaMigrations, At, Move
  <1>5. ASSUME NEW m \in Migrators, ReadDirty(m) PROVE Rest'
    BY <1>5 DEF ReadDirty, At, Move
  <1>6. ASSUME NEW m \in Migrators, MarkDirty(m) PROVE Rest'
    BY <1>6 DEF MarkDirty, At, Move
  <1>7. ASSUME NEW m \in Migrators, ApplyStatement(m) PROVE Rest'
    BY <1>7 DEF ApplyStatement, At
  <1>8. ASSUME NEW m \in Migrators, MarkClean(m) PROVE Rest'
    <2> USE <1>8 DEF MarkClean, At, Move
    <2>1. created = Tables
      <3>1. up[m].statement \in 1..(Statements + 1) /\ up[m].statement \notin 1..Statements
        OBVIOUS
      <3>2. up[m].statement = Statements + 1
        BY <3>1
      <3>3. \A i \in Tables : i < up[m].statement
        BY <3>2
      <3> QED
        BY <3>3
    <2>2. AppliedSoFar'
      OBVIOUS
    <2>3. NotCleanUnderWay'
      OBVIOUS
    <2> QED
      BY <2>1, <2>2, <2>3
  <1>9. ASSUME NEW m \in Migrators, Fails(m) PROVE Rest'
    BY <1>9 DEF Fails, At, Move
  <1>10. ASSUME NEW m \in Migrators, ReleaseLock(m) PROVE Rest'
    BY <1>10 DEF ReleaseLock, At, Move
  <1>11. ASSUME NEW s \in Servers, Check(s) PROVE Rest'
    BY <1>11 DEF Check, At
  <1>12. CASE UNCHANGED vars
    BY <1>12 DEF vars, At
  <1> QED
    BY <1>0, <1>1, <1>2, <1>3, <1>4, <1>5, <1>6, <1>7, <1>8, <1>9, <1>10, <1>11, <1>12 DEF Next, Up

\* The inductive invariant holds in every state.
LEMMA Inductive == Spec => []IInv
  BY InitHolds, SchemaStep, PTL DEF Spec

\* README, startup: a server that passed Check finds every table.
THEOREM ServersFindEveryTable == Spec => []ServingMeansComplete
  <1>1. IInv => ServingMeansComplete
    BY DEF IInv, ServingMeansClean, CleanMeansComplete, ServingMeansComplete
  <1> QED
    BY <1>1, Inductive, PTL

\* Up returns early when the row is clean: a clean schema stays clean, so a
\* later migrate run does not disturb the servers that run on it.
THEOREM CleanStaysClean == Spec => CleanIsFinal
  <1>1. IInv /\ [Next]_vars => [schema = "clean" => schema' = "clean"]_vars
    <2> SUFFICES ASSUME IInv, [Next]_vars, schema = "clean" PROVE schema' = "clean"
      OBVIOUS
    <2> QED
      BY DEF IInv, TypeOK, NotCleanUnderWay, Next, Up, Start, GetLock, LockTimeout,
             CreateSchemaMigrations, ReadDirty, MarkDirty, ApplyStatement, MarkClean,
             Fails, ReleaseLock, Check, At, vars
  <1> QED
    BY <1>1, Inductive, PTL DEF Spec, CleanIsFinal
=============================================================================
