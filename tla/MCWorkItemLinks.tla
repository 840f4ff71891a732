--------------------------- MODULE MCWorkItemLinks ---------------------------
(* Instances of WorkItemLinks: a few work items in one space or two, and two *)
(* concurrent requests.                                                      *)
EXTENDS WorkItemLinks, TLC

CONSTANTS a, b, d, e, X, Y, tree, dep, c1, c2

OneSpace == [i \in Items |-> X]
TwoSpaces == [i \in Items |-> IF i = d THEN Y ELSE X]
Topologies == [t \in LinkTypes |-> IF t = tree THEN "tree" ELSE "dependency"]

\* In one space the work items are interchangeable; so are the requests.
Symmetry == Permutations(Items) \cup Permutations(Clients)
===============================================================================
