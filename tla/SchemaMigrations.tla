--------------------------- MODULE SchemaMigrations ---------------------------
(***************************************************************************)
(* The migration runner (src/erasmus/migrations.py): every process that     *)
(* opens the store applies what is missing, a database of the guarded       *)
(* mission branch is renumbered first, and the last migration can be rolled *)
(* back offline.                                                           *)
(*                                                                         *)
(* A migration and its version are one transaction.  The rollback is not    *)
(* one: sqlite3 opens none for DDL, so that each DROP commits by itself.    *)
(***************************************************************************)
EXTENDS StoreClients

CONSTANTS
  Guarded,      \* the last version, of the guarded missions (19)
  MaxRollbacks  \* bound on the rollbacks

VARIABLES
  versions,   \* schema_version
  schema,     \* the versions before Guarded whose tables exist
  objects,    \* what exists of the tables and triggers of Guarded
  rollbacks,  \* the rollbacks begun
  abandoned   \* history: a rollback has died and none has ended since

schemaVars == <<versions, schema, objects, rollbacks, abandoned>>

ASSUME MigrationAssumption == Guarded \in Nat /\ Guarded >= 3 /\ MaxRollbacks \in Nat

MIGRATIONS == 1..Guarded
Policies == Guarded - 2  \* the version whose number the branch used (17)
Drops == <<"triggers", "draft_pull_requests", "repository_mission_transitions",
           "repository_mission_evidence", "repository_missions">>
Objects == {Drops[i] : i \in DOMAIN Drops}

\* The databases that a process may find: empty, left at some version, or left
\* by the branch that used the number of Policies for its own tables.
SchemaInit ==
  /\ \/ \E last \in 0..Guarded :
          /\ versions = 1..last /\ schema = (1..last) \ {Guarded}
          /\ objects = IF last = Guarded THEN Objects ELSE {}
     \/ versions = 1..Policies /\ schema = 1..(Policies - 1) /\ objects = Objects
  /\ rollbacks = 0
  /\ abandoned = FALSE

\* upgrade_legacy_repository_mission_migration: the shape that it recognizes.
Legacy ==
  /\ Objects \ {"triggers"} \subseteq objects /\ Policies \notin schema
  /\ Policies \in versions /\ \A v \in versions : v =< Policies

Applying(c, step) == Processing(c, "apply") /\ req[c].step = step

CheckLegacy(c) ==
  /\ Begin(c, [op |-> "apply", step |-> IF Legacy THEN "renumber" ELSE "read", todo |-> {}])
  /\ UNCHANGED schemaVars

\* The number that the guarded missions have now.
Renumbered_next == Guarded + 1
Renumbered == Guarded

\* The version is a primary key.
Renumber(c) ==
  /\ Applying(c, "renumber")
  /\ ~(Policies \in versions /\ Guarded \in versions)
  /\ versions' = {IF v = Policies THEN Renumbered ELSE v : v \in versions}
  /\ req' = [req EXCEPT ![c].step = "read"]
  /\ raced' = (raced \/ ~Legacy)
  /\ UNCHANGED <<schema, objects, rollbacks, abandoned>>

Missing_later(recorded) == {v \in MIGRATIONS : \A u \in recorded : u < v}
Missing(recorded) == MIGRATIONS \ recorded

ReadVersions(c) ==
  /\ Applying(c, "read")
  /\ req' = [req EXCEPT ![c].step = "migrate", ![c].todo = Missing(versions)]
  /\ UNCHANGED <<schemaVars, raced>>

\* CREATE TABLE fails if the table exists, and so does a version that is there.
Applicable(v) ==
  /\ v \notin versions
  /\ IF v = Guarded THEN objects = {} ELSE v \notin schema

Migrate(c) ==
  /\ Applying(c, "migrate") /\ req[c].todo # {}
  /\ LET v == CHOOSE u \in req[c].todo : \A w \in req[c].todo : u =< w IN
       /\ Applicable(v)
       /\ versions' = versions \cup {v}
       /\ schema' = schema \cup ({v} \ {Guarded})
       /\ objects' = IF v = Guarded THEN Objects ELSE objects
       /\ req' = [req EXCEPT ![c].todo = @ \ {v}]
  /\ UNCHANGED <<rollbacks, abandoned, raced>>

Migrated(c) ==
  /\ Applying(c, "migrate") /\ req[c].todo = {}
  /\ Commit(c, FALSE)
  /\ UNCHANGED schemaVars

\* rollback_repository_mission_migration: its DROPs, grouped by table, and a
\* DELETE.  Whoever calls it has opened the store, and so migrated it.
StartRollback(c) ==
  /\ Guarded \in versions
  /\ rollbacks < MaxRollbacks /\ rollbacks' = rollbacks + 1
  /\ Begin(c, [op |-> "rollback", step |-> 1])
  /\ UNCHANGED <<versions, schema, objects, abandoned>>

DropObject(c) ==
  /\ Processing(c, "rollback") /\ req[c].step \in DOMAIN Drops
  /\ objects' = objects \ {Drops[req[c].step]}
  /\ req' = [req EXCEPT ![c].step = @ + 1]
  /\ UNCHANGED <<versions, schema, rollbacks, abandoned, raced>>

EndRollback(c) ==
  /\ Processing(c, "rollback") /\ req[c].step \notin DOMAIN Drops
  /\ versions' = versions \ {Guarded}
  /\ abandoned' = FALSE
  /\ Commit(c, objects # {})
  /\ UNCHANGED <<schema, objects, rollbacks>>

\* A process that dies or fails: only a rollback leaves something behind.
Die(c) ==
  /\ Drop(c)
  /\ abandoned' = (abandoned \/ Processing(c, "rollback"))
  /\ UNCHANGED <<versions, schema, objects, rollbacks>>

SchemaNext ==
  \E c \in Clients :
    \/ CheckLegacy(c) \/ Renumber(c) \/ ReadVersions(c) \/ Migrate(c) \/ Migrated(c)
    \/ StartRollback(c) \/ DropObject(c) \/ EndRollback(c)
    \/ Die(c)

SchemaTypeOK ==
  /\ versions \subseteq MIGRATIONS /\ schema \subseteq MIGRATIONS \ {Guarded}
  /\ objects \subseteq Objects
  /\ rollbacks \in 0..MaxRollbacks /\ abandoned \in BOOLEAN

RollingBack == abandoned \/ \E c \in Clients : Processing(c, "rollback")

\* Whatever processes start, die or fail together, the recorded versions are the
\* ones whose tables exist, except in a database that is still to be renumbered
\* and while a rollback is under way or has died.
VersionsMatchSchema ==
  \/ raced \/ Legacy \/ RollingBack
  \/ /\ versions \ {Guarded} = schema
     /\ objects = IF Guarded \in versions THEN Objects ELSE {}

\* A process whose migrations end without an error has a complete schema, if no
\* rollback was ever begun.
OpensMigrated ==
  [][ \A c \in Clients : Migrated(c) /\ rollbacks = 0 /\ ~raced =>
        schema = MIGRATIONS \ {Guarded} /\ objects = Objects /\ versions = MIGRATIONS
    ]_<<schemaVars, req, raced>>

\* The migrations: versions and tables agree, and who opens the store has all.
MigrationsAgree == []VersionsMatchSchema /\ OpensMigrated
=============================================================================
