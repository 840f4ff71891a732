--------------------------- MODULE MCWorkItemOrder ---------------------------
(* Instances of WorkItemOrder. *)
EXTENDS WorkItemOrder, TLC

\* Work items, requests and spaces are interchangeable.
Symmetry == Permutations(Items) \cup Permutations(Clients) \cup Permutations(Spaces)
===============================================================================
