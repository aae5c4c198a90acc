------------------------------ MODULE Startup ------------------------------
(***************************************************************************)
(* postgres.New at the start of cmd/api (and of cmd/indexer): a pool, a    *)
(* Ping, and the migrations, which another process may be running at the   *)
(* same time.  golang-migrate (external) holds an advisory lock, marks the *)
(* version dirty, executes the file, and marks it clean; it fails on a     *)
(* version that is dirty.  It is not given the context.                    *)
(***************************************************************************)
EXTENDS Naturals, FiniteSets

VARIABLES
  main,      \* where main is: connect, migrate; select, shutdown, closing, returned
  result,    \* what main returns
  store,     \* the connection pool: none, open, closing (waits for its users), closed
  ctxDone,   \* ctx: cancelled by a signal or by the serving goroutine
  schema,    \* the version of the schema: absent, dirty, ready
  migrator   \* who holds the lock of the migrations: none, self, other

startVars == <<schema, migrator>>

StartInit ==
  /\ main = "connect"
  /\ result = "none"
  /\ store = "none"
  /\ ctxDone = FALSE
  /\ schema = "absent"
  /\ migrator = "none"

Connect ==
  /\ main = "connect"
  /\ ~ ctxDone
  /\ main' = "migrate"
  /\ store' = "open"
  /\ UNCHANGED <<result, ctxDone, startVars>>

\* The URL is wrong or the Ping fails, as it does under a context that is done.
\* New closes the pool it has made.
StartFails ==
  /\ main' = "returned"
  /\ result' = "startup error"
  /\ store' = "closed"
  /\ UNCHANGED ctxDone

ConnectFails ==
  /\ main = "connect"
  /\ StartFails
  /\ UNCHANGED startVars

\* [mutant] a dirty version is taken for ErrNoChange
NoChange_DirtyToo ==
  /\ main = "migrate" /\ migrator = "none"
  /\ schema \in {"ready", "dirty"}
  /\ main' = "select"
  /\ UNCHANGED <<result, store, ctxDone, startVars>>

NoChange ==
  /\ main = "migrate" /\ migrator = "none"
  /\ schema = "ready"
  /\ main' = "select"
  /\ UNCHANGED <<result, store, ctxDone, startVars>>

MigrationBegins ==
  /\ main = "migrate" /\ migrator = "none"
  /\ schema = "absent"
  /\ schema' = "dirty" /\ migrator' = "self"
  /\ UNCHANGED <<main, result, store, ctxDone>>

MigrationEnds ==
  /\ migrator = "self"
  /\ schema' = "ready" /\ migrator' = "none"
  /\ main' = "select"
  /\ UNCHANGED <<result, store, ctxDone>>

\* The version is dirty, the lock is not to be had, or the file fails, and the
\* version stays as it is: New closes the pool it has made.
MigrationFails ==
  /\ main = "migrate"
  /\ StartFails
  /\ migrator' = IF migrator = "self" THEN "none" ELSE migrator
  /\ UNCHANGED schema

\* The other process migrates; it may die in the middle of it.
OtherMigrates ==
  /\ \/ migrator = "none" /\ schema = "absent" /\ migrator' = "other" /\ schema' = "dirty"
     \/ migrator = "other" /\ migrator' = "none" /\ schema' \in {"ready", "dirty"}
  /\ UNCHANGED <<main, result, store, ctxDone>>

StartStep ==
  \/ Connect \/ ConnectFails
  \/ NoChange \/ MigrationBegins \/ MigrationEnds \/ MigrationFails

=============================================================================
