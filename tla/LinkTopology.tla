---------------------------- MODULE LinkTopology ----------------------------
(***************************************************************************)
(* The graph vocabulary of work item links.  A link is a record with a     *)
(* source (the parent), a target (the child) and a type; L is a set of     *)
(* links of one type (link_repository.go).                                 *)
(***************************************************************************)
EXTENDS Integers, FiniteSets

CONSTANT Items          \* work item identifiers

\* One round of the recursive query of GetAncestors: the sources of the links
\* whose targets are in S.
Parents(L, S) == {l.source : l \in {m \in L : m.target \in S}}

\* S is a set the query may stop at: it has x's parents and their parents.
AncestorClosed(L, x, S) == Parents(L, {x}) \subseteq S /\ Parents(L, S) \subseteq S

\* GetAncestors(AncestorLevelAll): what the recursive query has collected when a
\* round adds nothing, i.e. the least such set.
Ancestors(L, x) == {a \in Items : \A S \in SUBSET Items : AncestorClosed(L, x, S) => a \in S}

\* No work item is its own ancestor.
Acyclic(L) == \A x \in Items : x \notin Ancestors(L, x)

\* A link of a work item to itself.
WithoutSelfLinks(L) == {l \in L : l.source # l.target}

\* At most one of the links leads to each target.
SingleParent(L) == \A l, m \in L : l.target = m.target => l = m
=============================================================================
