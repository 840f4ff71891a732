--------------------------- MODULE MCTrackerImport ---------------------------
(* An instance of TrackerImport: two queries on one tracker that import an item *)
(* both of them find and an item only the second one finds.                      *)
EXTENDS TrackerImport

CONSTANTS q1, q2, t1, t2, i1, i2, X, u

MCTrackerOf == [q \in Queries |-> t1]
MCSpaceOf == [q \in Queries |-> X]
MCMatches == [q \in Queries |-> IF q = q1 THEN {i1} ELSE {i1, i2}]
MCCreatorOf == [i \in RemoteItems |-> u]
===============================================================================
