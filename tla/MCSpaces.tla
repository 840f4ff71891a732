------------------------------- MODULE MCSpaces -------------------------------
(* An instance of Spaces: two users, two spaces, two repositories.             *)
EXTENDS Spaces

Symmetry == Permutations(Clients) \cup Permutations(Users) \cup Permutations(SpaceIDs)
            \cup Permutations(CodebaseIDs) \cup Permutations(URLs)
===============================================================================
