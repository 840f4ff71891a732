------------------------------ MODULE LinkGraph ------------------------------
(***************************************************************************)
(* What the link repository promises about the links inside the spaces: a  *)
(* link appears in one step, and only if at that very moment the topology  *)
(* of its type allows it; links disappear at any time.  There are no       *)
(* requests, locks or transactions here.                                   *)
(***************************************************************************)
EXTENDS LinkTopology

CONSTANTS Spaces, SpaceOf, LinkTypes, Topology, LinkIDs

VARIABLE graph      \* the live links whose ends are in the same space

GraphLink == {l \in [id : LinkIDs, source : Items, target : Items, type : LinkTypes] :
                 SpaceOf[l.source] = SpaceOf[l.target]}

\* The links of type t in space s.
Within(s, t) == {l \in graph : l.type = t /\ SpaceOf[l.source] = s}

Init == graph = {}

Allowed(l) ==
    LET others == Within(SpaceOf[l.source], l.type) IN
    /\ Topology[l.type] = "tree" => ~\E m \in others : m.target = l.target
    /\ Topology[l.type] \in {"tree", "dependency"} => l.target \notin Ancestors(others, l.source)

Add == \E l \in GraphLink : Allowed(l) /\ graph' = graph \cup {l}

Remove == graph' \subseteq graph

Next == Remove \/ Add

Spec == Init /\ [][Next]_graph

-------------------------------------------------------------------------------
(* Properties *)

TypeOK == graph \subseteq GraphLink

\* The tree rule holds in every space.
SingleParents ==
    \A s \in Spaces, t \in LinkTypes : Topology[t] = "tree" => SingleParent(Within(s, t))

\* No cycle in tree and dependency topologies, self-links apart.
NoCycles ==
    \A s \in Spaces, t \in LinkTypes : Topology[t] \in {"tree", "dependency"} =>
        Acyclic(WithoutSelfLinks(Within(s, t)))
===============================================================================
