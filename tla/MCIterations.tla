----------------------------- MODULE MCIterations -----------------------------
(* An instance of Iterations: two spaces with their roots and a few more ids.  *)
EXTENDS Iterations

CONSTANTS r, q, a, b, d, X, Y, n1, n2

\* The work items are of X; AssignCheck lets them move to iterations of Y as well.
MCHome == [i \in Items |-> X]

MCRoots == [s \in Spaces |-> IF s = X THEN r ELSE q]

\* Requests that start or close an iteration, rename it, move it, or move and start it.
MCUpdates ==
    [name : {None}, state : {"start", "close"}, parent : {None}]
    \cup [name : {n2}, state : {None}, parent : {None}]
    \cup [name : {None}, state : {None, "start"}, parent : IDs]

\* Iterations that are no roots are interchangeable, and so are the requests.
Symmetry == Permutations(IDs \ {r, q}) \cup Permutations(Clients)
===============================================================================
