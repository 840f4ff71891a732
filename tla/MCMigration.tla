----------------------------- MODULE MCMigration -----------------------------
(* Three migrators, three versions of 1, 2 and 0 steps, two faults. *)
EXTENDS Migration

CONSTANTS p1, p2, p3

MCStepsOf == [v \in Versions |-> CASE v = 0 -> 1 [] v = 1 -> 2 [] OTHER -> 0]
===============================================================================
