----------------------------- MODULE MCWorkItems -----------------------------
(* Instances of WorkItems: two work items, one space or two, two requests. *)
EXTENDS WorkItems, TLC

\* Work items, requests and spaces are interchangeable.
Symmetry == Permutations(Items) \cup Permutations(Clients) \cup Permutations(Spaces)
===============================================================================
