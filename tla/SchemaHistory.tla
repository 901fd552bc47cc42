---------------------------- MODULE SchemaHistory ----------------------------
(* What internal/storage/migrate.go promises about the database, seen by      *)
(* anyone who queries it: the tables and the rows of schema_migrations change *)
(* together, one migration at a time.  A migration is applied once, after     *)
(* everything it needs; a rollback takes the highest version.  Who does it,   *)
(* over which session, and what fails on the way is left to Migrator.         *)
EXTENDS Integers

CONSTANTS
  Versions,      \* the numbers of the migration files
  Needs          \* Needs[v]: the versions whose tables the files of v use

VARIABLES
  schema,        \* the versions whose tables exist
  recorded       \* the versions with a row in schema_migrations

history == <<schema, recorded>>

Init == schema = {} /\ recorded = {}

Apply(v) ==
  /\ v \notin recorded
  /\ Needs[v] \subseteq recorded
  /\ recorded' = recorded \cup {v}
  /\ schema' = schema \cup {v}

Revert(v) ==
  /\ v \in recorded
  /\ \A w \in recorded : w <= v
  /\ recorded' = recorded \ {v}
  /\ schema' = schema \ {v}

Next == \E v \in Versions : Apply(v) \/ Revert(v)

Spec == Init /\ [][Next]_history
==============================================================================
