-------------------------- MODULE SchemaMigrations --------------------------
(***************************************************************************)
(* The replicas of a configuration service start together on one database  *)
(* (service/postgres/migrations.rs). Each is a binary that knows the       *)
(* migrations up to some version; each takes the advisory lock, reads the  *)
(* version of the schema and applies what is missing, a transaction per    *)
(* migration. A connection may break anywhere, which ends the lock, and    *)
(* its replica starts again.                                               *)
(***************************************************************************)
EXTENDS Integers, Sequences

CONSTANTS
  Replicas, NoSession,
  Known,        \* per replica, the versions of its migrations
  MaxBreaks     \* how often a connection breaks

ASSUME SessionAssumption == NoSession \notin Replicas
\* MIGRATIONS is a list of positive versions with a last one, or empty.
ASSUME KnownAssumption ==
  \A r \in Replicas :
    /\ Known[r] \subseteq Nat \ {0}
    /\ Known[r] = {} \/ \E top \in Known[r] : \A v \in Known[r] : v <= top

VARIABLES
  schema,       \* the versions that were applied, in order
  advisory,     \* the session that holds MIGRATION_LOCK_KEY
  replica,      \* per replica, where it is and the version it read
  breaks

migrations == <<schema, advisory, replica, breaks>>

MigrationsInit ==
  /\ schema \in {<<>>, <<1>>}
  /\ advisory = NoSession
  /\ replica = [r \in Replicas |-> [pc |-> "lock", current |-> 0]]
  /\ breaks = MaxBreaks

Highest(versions) == IF versions = {} THEN 0 ELSE CHOOSE v \in versions : \A w \in versions : w <= v
\* current_version: the highest row of schema_migrations, 0 without the table.
current_version == Highest({schema[i] : i \in DOMAIN schema})

Go(r, pc) == replica' = [replica EXCEPT ![r].pc = pc]
AtMigration(r, pc) == replica[r].pc = pc

\* Mutant: the version is read before the lock is there.
pg_advisory_lock_late(r) ==
  \/ /\ AtMigration(r, "lock")
     /\ replica' = [replica EXCEPT ![r] = [pc |-> "read", current |-> current_version]]
     /\ UNCHANGED <<schema, advisory, breaks>>
  \/ /\ AtMigration(r, "read") /\ advisory = NoSession
     /\ advisory' = r
     /\ Go(r, "apply")
     /\ UNCHANGED <<schema, breaks>>

\* run_migrations: the lock is waited for.
pg_advisory_lock(r) ==
  /\ AtMigration(r, "lock") /\ advisory = NoSession
  /\ advisory' = r
  /\ Go(r, "read")
  /\ UNCHANGED <<schema, breaks>>

\* run_migrations_with: the version is read; a schema from a newer binary is
\* refused.
ReadVersion(r) ==
  /\ AtMigration(r, "read") /\ advisory = r
  /\ replica' = [replica EXCEPT ![r] =
       [pc |-> IF current_version > Highest(Known[r]) THEN "ahead" ELSE "apply",
        current |-> current_version]]
  /\ UNCHANGED <<schema, advisory, breaks>>

\* The migrations that are still to run.
Missing(r) == {v \in Known[r] : v > replica[r].current}

\* One migration and its row, in a transaction. The row's key is unique: a
\* version that is there already fails the transaction.
Apply(r) ==
  LET v == CHOOSE w \in Missing(r) : \A x \in Missing(r) : w <= x
  IN /\ AtMigration(r, "apply") /\ Missing(r) # {}
     /\ IF v # replica[r].current + 1 THEN Go(r, "gap") /\ UNCHANGED schema
        ELSE IF \E i \in DOMAIN schema : schema[i] = v THEN Go(r, "failed") /\ UNCHANGED schema
        ELSE /\ schema' = Append(schema, v)
             /\ replica' = [replica EXCEPT ![r].current = v]
     /\ UNCHANGED <<advisory, breaks>>

\* pg_advisory_unlock, and the service runs or ends with the error.
pg_advisory_unlock(r) ==
  /\ advisory = r
  /\ \/ AtMigration(r, "apply") /\ Missing(r) = {} /\ Go(r, "serving")
     \/ replica[r].pc \in {"ahead", "gap", "failed"}
        /\ Go(r, CASE replica[r].pc = "ahead" -> "refused" [] replica[r].pc = "gap" -> "gap_refused"
                   [] replica[r].pc = "failed" -> "start_failed")
  /\ advisory' = NoSession
  /\ UNCHANGED <<schema, breaks>>

\* The connection breaks, before or after a commit took effect.
Break(r) ==
  /\ breaks > 0 /\ replica[r].pc \in {"lock", "read", "apply"}
  /\ breaks' = breaks - 1
  /\ advisory' = IF advisory = r THEN NoSession ELSE advisory
  /\ replica' = [replica EXCEPT ![r] = [pc |-> "lock", current |-> 0]]
  /\ UNCHANGED schema

MigrationsNext ==
  \E r \in Replicas : pg_advisory_lock(r) \/ ReadVersion(r) \/ Apply(r) \/ pg_advisory_unlock(r) \/ Break(r)

-----------------------------------------------------------------------------
(* Property.                                                               *)

\* Replicas of different binaries that start at once, and start again after a
\* broken connection, apply every migration once and in order; none fails on
\* what another has applied, one that runs finds at least its own schema, and
\* one whose migrations have a gap does not run on what is beyond it
\* (run_migrations, run_migrations_with).
MigrationsApplyOnce ==
  /\ \A i \in DOMAIN schema : schema[i] = i
  /\ \A r \in Replicas :
       /\ replica[r].pc \notin {"failed", "start_failed"}
       /\ replica[r].pc = "serving" => current_version >= Highest(Known[r])
=============================================================================
