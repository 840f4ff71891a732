--------------------------- MODULE MigrationHistory ---------------------------
(***************************************************************************)
(* What migration.Migrate promises, whoever runs it and however often it   *)
(* is interrupted: the schema moves through the versions 0, 1, 2, ... one  *)
(* at a time, each version is entered with all of its steps or not at all, *)
(* and nothing is ever undone.                                             *)
(***************************************************************************)
EXTENDS Integers

CONSTANT NumVersions    \* len(GetMigrations())

VARIABLE level          \* the newest version of the schema, -1 for an empty database

Init == level = -1

\* One version, as a whole, becomes part of the schema.
Upgrade == level + 1 < NumVersions /\ level' = level + 1

Next == Upgrade

Spec == Init /\ [][Next]_level /\ WF_level(Next)
===============================================================================
