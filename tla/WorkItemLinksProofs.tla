------------------------- MODULE WorkItemLinksProofs -------------------------
(***************************************************************************)
(* The interleaved requests of WorkItemLinks implement LinkGraph, for any  *)
(* number of requests, work items, spaces and links; the tree rule and the *)
(* absence of cycles follow from LinkGraphSafe, which is about LinkGraph   *)
(* alone: the rules of ValidateTopology, applied one link at a time, keep  *)
(* every space a forest (tree) or free of cycles (tree and dependency).    *)
(* The heart of it is AddKeepsAcyclic: looking at the ancestors of the new *)
(* link's source is enough to find every cycle the link would close,       *)
(* except a self-link.                                                     *)
(*                                                                         *)
(* The inductive invariant says what the advisory lock is for: a request   *)
(* past AcquireLock holds the lock of its space, the space it holds is one *)
(* its link touches, and what ValidateTopology found stays true until the  *)
(* insert, because only a request with the same lock could add a link to   *)
(* the space.                                                              *)
(***************************************************************************)
EXTENDS WorkItemLinks, TLAPS

(* Ancestors *)

\* L is a set of links between work items.
Between(L) == \A l \in L : l.source \in Items /\ l.target \in Items

\* The ancestors contain the parents of x and are closed under parents.
LEMMA AncestorsClosed ==
    ASSUME NEW L, Between(L), NEW x
    PROVE  AncestorClosed(L, x, Ancestors(L, x))
<1>1. ASSUME NEW l \in L, l.target = x \/ l.target \in Ancestors(L, x)
      PROVE  l.source \in Ancestors(L, x)
  <2>1. ASSUME NEW S \in SUBSET Items, AncestorClosed(L, x, S)
        PROVE  l.source \in S
    <3>1. l.target = x \/ l.target \in S
      BY <1>1, <2>1 DEF Ancestors
    <3> QED BY <2>1, <3>1 DEF AncestorClosed, Parents
  <2> QED BY <2>1 DEF Ancestors, Between
<1> QED BY <1>1 DEF AncestorClosed, Parents

\* No closed set is smaller.
LEMMA AncestorsLeast ==
    ASSUME NEW L, NEW x, NEW S \in SUBSET Items, AncestorClosed(L, x, S)
    PROVE  Ancestors(L, x) \subseteq S
BY DEF Ancestors

\* Fewer links, fewer ancestors.
LEMMA AncestorsMonotone ==
    ASSUME NEW M, Between(M), NEW L \in SUBSET M, NEW x
    PROVE  Ancestors(L, x) \subseteq Ancestors(M, x)
<1>1. AncestorClosed(M, x, Ancestors(M, x))
  BY AncestorsClosed
<1>2. AncestorClosed(L, x, Ancestors(M, x))
  BY <1>1 DEF AncestorClosed, Parents
<1>3. Ancestors(M, x) \in SUBSET Items
  BY DEF Ancestors
<1> QED BY <1>2, <1>3, AncestorsLeast

\* An ancestor's ancestors are ancestors.
LEMMA AncestorsTransitive ==
    ASSUME NEW L, Between(L), NEW x, NEW y \in Ancestors(L, x)
    PROVE  Ancestors(L, y) \subseteq Ancestors(L, x)
<1>1. AncestorClosed(L, x, Ancestors(L, x))
  BY AncestorsClosed
<1>2. AncestorClosed(L, y, Ancestors(L, x))
  BY <1>1 DEF AncestorClosed, Parents
<1>3. Ancestors(L, x) \in SUBSET Items
  BY DEF Ancestors
<1> QED BY <1>2, <1>3, AncestorsLeast

\* Removing links closes no cycle.
LEMMA FewerKeepAcyclic ==
    ASSUME NEW M, Between(M), NEW L \in SUBSET M, Acyclic(M)
    PROVE  Acyclic(L)
BY AncestorsMonotone DEF Acyclic

\* What DetectCycle answers is right: a link whose target is not an ancestor of its
\* source, and not the source itself, closes no cycle.
LEMMA AddKeepsAcyclic ==
    ASSUME NEW L, Between(L), NEW l, l.source \in Items, l.target \in Items,
           Acyclic(L), l.source # l.target, l.target \notin Ancestors(L, l.source)
    PROVE  Acyclic(L \cup {l})
<1> DEFINE M == L \cup {l}
           s == l.source
           t == l.target
<1> SUFFICES ASSUME NEW x \in Items PROVE x \notin Ancestors(M, x)
  BY DEF Acyclic
<1> DEFINE A == Ancestors(L, x)
           B == Ancestors(L, s)
<1>1. A \in SUBSET Items /\ B \in SUBSET Items
  BY DEF Ancestors
<1>2. AncestorClosed(L, x, A) /\ AncestorClosed(L, s, B)
  BY AncestorsClosed
<1>3. x \notin A
  BY DEF Acyclic
<1>4. CASE t \notin A /\ t # x
  <2>1. AncestorClosed(M, x, A)
    <3> HIDE DEF A
    <3> QED BY <1>2, <1>4 DEF AncestorClosed, Parents
  <2>2. Ancestors(M, x) \subseteq A
    BY <1>1, <2>1, AncestorsLeast
  <2> QED BY <1>3, <2>2
<1>5. CASE t \in A \/ t = x
  <2> DEFINE S == A \cup {s} \cup B
  <2>1. AncestorClosed(M, x, S)
    <3> HIDE DEF A, B
    <3> QED BY <1>2 DEF AncestorClosed, Parents
  <2>2. Ancestors(M, x) \subseteq S
    <3>1. S \in SUBSET Items
      BY <1>1
    <3> HIDE DEF S
    <3> QED BY <2>1, <3>1, AncestorsLeast
  <2>3. x # s
    BY <1>5
  <2>4. x \notin B
    <3> SUFFICES ASSUME x \in B PROVE FALSE
      OBVIOUS
    <3>1. A \subseteq B
      BY AncestorsTransitive
    <3> QED BY <1>5, <3>1
  <2> QED BY <1>3, <2>2, <2>3, <2>4
<1> QED BY <1>4, <1>5

\* Without links there is no cycle.
LEMMA EmptyAcyclic == Acyclic({})
<1> SUFFICES ASSUME NEW x \in Items PROVE x \notin Ancestors({}, x)
  BY DEF Acyclic
<1>1. AncestorClosed({}, x, {})
  BY DEF AncestorClosed, Parents
<1> QED BY <1>1, AncestorsLeast

------------------------------------------------------------------------------
(* The abstract graph *)

\* LinkGraph has the vocabulary of LinkTopology, too.
LEMMA SameVocabulary ==
    /\ \A K, x : Graph!Ancestors(K, x) = Ancestors(K, x)
    /\ \A K : Graph!Acyclic(K) = Acyclic(K)
    /\ \A K : Graph!WithoutSelfLinks(K) = WithoutSelfLinks(K)
    /\ \A K : Graph!SingleParent(K) = SingleParent(K)
<1>1. \A K, x : Graph!Ancestors(K, x) = Ancestors(K, x)
  BY DEF Graph!Ancestors, Graph!AncestorClosed, Graph!Parents, Ancestors, AncestorClosed, Parents
<1>2. \A K : Graph!Acyclic(K) = Acyclic(K)
  BY <1>1 DEF Graph!Acyclic, Acyclic
<1> QED BY <1>1, <1>2 DEF Graph!WithoutSelfLinks, WithoutSelfLinks, Graph!SingleParent, SingleParent

\* The links of a space are links between work items.
LEMMA WithinBetween ==
    ASSUME Graph!TypeOK, NEW s, NEW t
    PROVE  Between(Graph!Within(s, t))
BY DEF Graph!TypeOK, Graph!GraphLink, Between, Graph!Within

\* LinkGraph keeps its types.
LEMMA GraphTypeStep == Graph!TypeOK /\ [Graph!Next]_SameSpaceLinks => Graph!TypeOK'
BY DEF Graph!TypeOK, Graph!Next, Graph!Add, Graph!Remove

\* Every step of LinkGraph keeps the tree rule.
LEMMA GraphTreeStep == Graph!TypeOK /\ Graph!SingleParents /\ [Graph!Next]_SameSpaceLinks => Graph!SingleParents'
<1> SUFFICES ASSUME Graph!TypeOK, Graph!SingleParents, [Graph!Next]_SameSpaceLinks,
                    NEW s \in Spaces, NEW t \in LinkTypes, Topology[t] = "tree"
             PROVE  Graph!SingleParent(Graph!Within(s, t))'
  BY DEF Graph!SingleParents
<1>0. Graph!SingleParent(Graph!Within(s, t))
  BY DEF Graph!SingleParents
<1>1. CASE SameSpaceLinks' \subseteq SameSpaceLinks
  BY <1>0, <1>1 DEF Graph!SingleParent, Graph!Within
<1>2. CASE Graph!Add
  <2> PICK l \in Graph!GraphLink : Graph!Allowed(l) /\ SameSpaceLinks' = SameSpaceLinks \cup {l}
    BY <1>2 DEF Graph!Add
  <2>1. CASE l.type = t /\ SpaceOf[l.source] = s
    <3>1. \A m \in Graph!Within(s, t) : m.target # l.target
      BY <2>1 DEF Graph!Allowed
    <3>2. Graph!Within(s, t)' = Graph!Within(s, t) \cup {l}
      BY <2>1 DEF Graph!Within
    <3> QED BY <1>0, <3>1, <3>2 DEF Graph!SingleParent
  <2>2. CASE ~(l.type = t /\ SpaceOf[l.source] = s)
    <3>1. Graph!Within(s, t)' = Graph!Within(s, t)
      BY <2>2 DEF Graph!Within
    <3> QED BY <1>0, <3>1 DEF Graph!SingleParent
  <2> QED BY <2>1, <2>2
<1> QED BY <1>1, <1>2 DEF Graph!Next, Graph!Remove

\* Every step of LinkGraph keeps the spaces free of cycles.
LEMMA GraphCycleStep == Graph!TypeOK /\ Graph!NoCycles /\ [Graph!Next]_SameSpaceLinks => Graph!NoCycles'
<1> SUFFICES ASSUME Graph!TypeOK, Graph!NoCycles, [Graph!Next]_SameSpaceLinks,
                    NEW s \in Spaces, NEW t \in LinkTypes, Topology[t] \in {"tree", "dependency"}
             PROVE  Acyclic(WithoutSelfLinks(Graph!Within(s, t)))'
  BY SameVocabulary DEF Graph!NoCycles
<1> DEFINE W == Graph!Within(s, t)
           L == WithoutSelfLinks(W)
<1>0. Acyclic(L) /\ Between(W) /\ Between(L) /\ L \in SUBSET W
  BY WithinBetween, SameVocabulary DEF Graph!NoCycles, WithoutSelfLinks, Between
<1>1. CASE SameSpaceLinks' \subseteq SameSpaceLinks
  <2>1. L' \in SUBSET L
    BY <1>1 DEF WithoutSelfLinks, Graph!Within
  <2> HIDE DEF L
  <2>2. Acyclic(L')
    BY <1>0, <2>1, FewerKeepAcyclic
  <2> QED BY <2>2 DEF L
<1>2. CASE Graph!Add
  <2> PICK l \in Graph!GraphLink : Graph!Allowed(l) /\ SameSpaceLinks' = SameSpaceLinks \cup {l}
    BY <1>2 DEF Graph!Add
  <2>1. CASE l.type = t /\ SpaceOf[l.source] = s /\ l.source # l.target
    <3>1. L' = L \cup {l}
      BY <2>1 DEF WithoutSelfLinks, Graph!Within
    <3>2. l.target \notin Ancestors(W, l.source)
      BY <2>1, SameVocabulary DEF Graph!Allowed
    <3>3. l.target \notin Ancestors(L, l.source)
      <4> HIDE DEF L, W
      <4> QED BY <1>0, <3>2, AncestorsMonotone
    <3>4. l.source \in Items /\ l.target \in Items
      BY DEF Graph!GraphLink
    <3> HIDE DEF L
    <3>5. Acyclic(L \cup {l})
      BY <1>0, <2>1, <3>3, <3>4, AddKeepsAcyclic
    <3>6. Acyclic(L')
      BY <3>1, <3>5
    <3> QED BY <3>6 DEF L
  <2>2. CASE ~(l.type = t /\ SpaceOf[l.source] = s /\ l.source # l.target)
    <3>1. L' = L
      BY <2>2 DEF WithoutSelfLinks, Graph!Within
    <3> HIDE DEF L
    <3>2. Acyclic(L')
      BY <1>0, <3>1
    <3> QED BY <3>2 DEF L
  <2> QED BY <2>1, <2>2
<1> QED BY <1>1, <1>2 DEF Graph!Next, Graph!Remove

\* Whatever links come and go, by the rules of ValidateTopology every space stays a
\* forest in tree topologies and free of cycles in tree and dependency ones.
THEOREM LinkGraphSafe == Graph!Spec => [](Graph!TypeOK /\ Graph!SingleParents /\ Graph!NoCycles)
<1>1. Graph!Init => Graph!TypeOK /\ Graph!SingleParents /\ Graph!NoCycles
  <2> SUFFICES ASSUME Graph!Init PROVE Graph!TypeOK /\ Graph!SingleParents /\ Graph!NoCycles
    OBVIOUS
  <2>1. \A s, t : Graph!Within(s, t) = {} /\ Graph!WithoutSelfLinks(Graph!Within(s, t)) = {}
    BY DEF Graph!Init, Graph!Within, Graph!WithoutSelfLinks
  <2>2. Graph!TypeOK
    BY DEF Graph!Init, Graph!TypeOK
  <2>3. Graph!SingleParents
    BY <2>1 DEF Graph!SingleParents, Graph!SingleParent
  <2>4. Graph!NoCycles
    BY <2>1, EmptyAcyclic, SameVocabulary DEF Graph!NoCycles
  <2> QED BY <2>2, <2>3, <2>4
<1>2. Graph!TypeOK /\ Graph!SingleParents /\ Graph!NoCycles /\ [Graph!Next]_SameSpaceLinks
        => (Graph!TypeOK /\ Graph!SingleParents /\ Graph!NoCycles)'
  BY GraphTypeStep, GraphTreeStep, GraphCycleStep
<1> QED BY <1>1, <1>2, PTL DEF Graph!Spec

------------------------------------------------------------------------------
(* The requests *)

TablesOK ==
    /\ wiLive \subseteq Existing
    /\ links \subseteq Link
    /\ live \subseteq {l.id : l \in links}
    /\ revisions \in [LinkIDs -> Seq({"create", "delete"})]

RequestsOK ==
    /\ lock \in [Spaces -> Clients \cup {None}]
    /\ pc \in [Clients -> PCs]
    /\ space \in [Clients -> Spaces \cup {None}]
    /\ seen \in [Clients -> SUBSET LinkIDs]
    /\ DOMAIN req = Clients
    /\ \A c \in Clients :
         /\ pc[c] \in CreatePCs => req[c] \in NewLink
         /\ pc[c] \in DeleteLinkPCs => req[c] \in LinkIDs
         /\ pc[c] \in DeleteItemPCs => req[c] \in Items

\* Who waits for or holds a lock has a space; past AcquireLock it holds its lock.
LockHeld ==
    \A c \in Clients :
        /\ pc[c] \in LockPCs \cup LockedPCs => space[c] \in Spaces
        /\ pc[c] \in LockedPCs => lock[space[c]] = c

\* The lock of a create request is that of an end of its link.
LockFits ==
    \A c \in Clients : pc[c] \in CreatePCs =>
        space[c] \in {SpaceOf[req[c].source], SpaceOf[req[c].target]}

\* The topology allows a new link among the links of its own space.
AllowedWithin(s, new) ==
    /\ Topology[new.type] = "tree" => ~\E m \in SpaceLinks(s, new.type) : m.target = new.target
    /\ Topology[new.type] \in {"tree", "dependency"} =>
         new.target \notin Ancestors(SpaceLinks(s, new.type), new.source)

\* What was validated is still true when the link is inserted.
StillAllowed ==
    \A c \in Clients : pc[c] = "cr_insert" => AllowedWithin(space[c], req[c])

ControlOK == RequestsOK /\ LockHeld /\ LockFits

IInv == TablesOK /\ ControlOK /\ StillAllowed

\* TypeOK is its two parts.
LEMMA TypeParts == TypeOK <=> TablesOK /\ RequestsOK
BY DEF TypeOK, TablesOK, RequestsOK

------------------------------------------------------------------------------
(* The control part: program counters, requests and locks. *)

\* The end of a transaction keeps the locks of the others.
LEMMA AnswerControl ==
    ASSUME ControlOK, NEW c \in Clients, Answer(c)
    PROVE  ControlOK'
<1> USE LinksAssumption
<1>1. RequestsOK'
  BY DEF ControlOK, RequestsOK, Answer, PCs, CreatePCs, DeleteLinkPCs, DeleteItemPCs
<1>2. LockHeld'
  BY DEF ControlOK, RequestsOK, LockHeld, Answer, LockPCs, LockedPCs
<1>3. LockFits'
  BY DEF ControlOK, RequestsOK, LockFits, Answer, CreatePCs
<1> QED BY <1>1, <1>2, <1>3 DEF ControlOK

\* Every step keeps the control part.
LEMMA ControlStep == TablesOK /\ ControlOK /\ [Next]_vars => ControlOK'
<1> SUFFICES ASSUME TablesOK, ControlOK, [Next]_vars PROVE ControlOK'
  OBVIOUS
<1> USE LinksAssumption
<1>a. RequestsOK /\ LockHeld /\ LockFits
  BY DEF ControlOK
<1>r. ASSUME NEW c \in Clients, Rollback(c) PROVE ControlOK'
  BY <1>r, AnswerControl DEF Rollback
<1>1. ASSUME NEW c \in Clients, CreateLoad(c) PROVE ControlOK'
  <2> PICK new \in NewLink : \E s \in {SpaceOf[i] : i \in {new.source, new.target} \cap wiLive} :
         /\ req' = [req EXCEPT ![c] = new]
         /\ space' = [space EXCEPT ![c] = s]
    BY <1>1 DEF CreateLoad
  <2> PICK s \in {SpaceOf[i] : i \in {new.source, new.target} \cap wiLive} :
         /\ req' = [req EXCEPT ![c] = new]
         /\ space' = [space EXCEPT ![c] = s]
    OBVIOUS
  <2>1. s \in Spaces /\ s \in {SpaceOf[new.source], SpaceOf[new.target]}
    BY DEF NewLink
  <2>2. RequestsOK'
    BY <1>a, <1>1, <2>1 DEF RequestsOK, CreateLoad, Goto, PCs, CreatePCs, DeleteLinkPCs, DeleteItemPCs
  <2>3. LockHeld'
    BY <1>a, <1>1, <2>1 DEF RequestsOK, LockHeld, CreateLoad, Goto, LockPCs, LockedPCs
  <2>4. LockFits'
    BY <1>a, <1>1, <2>1 DEF RequestsOK, LockFits, CreateLoad, Goto, CreatePCs
  <2> QED BY <2>2, <2>3, <2>4 DEF ControlOK
<1>2. ASSUME NEW c \in Clients, AcquireLock(c) PROVE ControlOK'
  <2>1. /\ space[c] \in Spaces
        /\ pc[c] = "cr_lock" => AfterLock[pc[c]] = "cr_validate"
        /\ pc[c] = "dl_lock" => AfterLock[pc[c]] = "dl_delete"
        /\ pc[c] = "dw_lock" => AfterLock[pc[c]] = "dw_delete"
        /\ pc[c] \in {"cr_lock", "dl_lock", "dw_lock"}
    BY <1>a, <1>2 DEF AcquireLock, LockHeld, AfterLock, LockPCs
  <2>2. RequestsOK'
    BY <1>a, <1>2, <2>1 DEF RequestsOK, AcquireLock, Goto, PCs, CreatePCs, DeleteLinkPCs, DeleteItemPCs
  <2>3. LockHeld'
    BY <1>a, <1>2, <2>1 DEF RequestsOK, LockHeld, AcquireLock, Goto, PCs, LockPCs, LockedPCs
  <2>4. LockFits'
    BY <1>a, <1>2, <2>1 DEF RequestsOK, LockFits, AcquireLock, Goto, CreatePCs
  <2> QED BY <2>2, <2>3, <2>4 DEF ControlOK
<1>3. ASSUME NEW c \in Clients, ValidateTopology(c) PROVE ControlOK'
  <2>1. CASE ~TopologyAllows(req[c])
    BY <1>3, <1>r, <2>1 DEF ValidateTopology
  <2>2. CASE TopologyAllows(req[c])
    <3>1. RequestsOK'
      BY <1>a, <1>3, <2>2 DEF RequestsOK, ValidateTopology, Goto, PCs, CreatePCs, DeleteLinkPCs, DeleteItemPCs
    <3>2. LockHeld'
      BY <1>a, <1>3, <2>2 DEF RequestsOK, LockHeld, ValidateTopology, Goto, LockPCs, LockedPCs
    <3>3. LockFits'
      BY <1>a, <1>3, <2>2 DEF RequestsOK, LockFits, ValidateTopology, Goto, CreatePCs
    <3> QED BY <3>1, <3>2, <3>3 DEF ControlOK
  <2> QED BY <2>1, <2>2
<1>4. ASSUME NEW c \in Clients, InsertLink(c) PROVE ControlOK'
  BY <1>4, <1>r, AnswerControl DEF InsertLink
<1>5. ASSUME NEW c \in Clients, AuthorizeDeleteLink(c) PROVE ControlOK'
  <2> PICK l \in links : req' = [req EXCEPT ![c] = l.id]
    BY <1>5 DEF AuthorizeDeleteLink
  <2>1. l.id \in LinkIDs
    BY DEF TablesOK, Link
  <2>2. RequestsOK'
    BY <1>a, <1>5, <2>1 DEF RequestsOK, AuthorizeDeleteLink, Goto, PCs, CreatePCs, DeleteLinkPCs, DeleteItemPCs
  <2>3. LockHeld'
    BY <1>a, <1>5 DEF RequestsOK, LockHeld, AuthorizeDeleteLink, Goto, LockPCs, LockedPCs
  <2>4. LockFits'
    BY <1>a, <1>5 DEF RequestsOK, LockFits, AuthorizeDeleteLink, Goto, CreatePCs
  <2> QED BY <2>2, <2>3, <2>4 DEF ControlOK
<1>6. ASSUME NEW c \in Clients, FindLink(c) PROVE ControlOK'
  <2>1. CASE Rollback(c)
    BY <1>r, <2>1
  <2>2. CASE ~Rollback(c)
    <3> PICK l \in links : space' = [space EXCEPT ![c] = SpaceOf[l.source]]
      BY <1>6, <2>2 DEF FindLink
    <3>1. SpaceOf[l.source] \in Spaces
      BY DEF TablesOK, Link
    <3>2. RequestsOK'
      BY <1>a, <1>6, <2>2, <3>1 DEF RequestsOK, FindLink, Goto, PCs, CreatePCs, DeleteLinkPCs, DeleteItemPCs
    <3>3. LockHeld'
      BY <1>a, <1>6, <2>2, <3>1 DEF RequestsOK, LockHeld, FindLink, Goto, LockPCs, LockedPCs
    <3>4. LockFits'
      BY <1>a, <1>6, <2>2, <3>1 DEF RequestsOK, LockFits, FindLink, Goto, CreatePCs
    <3> QED BY <3>2, <3>3, <3>4 DEF ControlOK
  <2> QED BY <2>1, <2>2
<1>7. ASSUME NEW c \in Clients, DeleteLink(c) PROVE ControlOK'
  BY <1>7, AnswerControl DEF DeleteLink
<1>8. ASSUME NEW c \in Clients, LoadForDelete(c) PROVE ControlOK'
  <2> PICK i \in wiLive : req' = [req EXCEPT ![c] = i]
    BY <1>8 DEF LoadForDelete
  <2>1. i \in Items
    BY DEF TablesOK
  <2>2. RequestsOK'
    BY <1>a, <1>8, <2>1 DEF RequestsOK, LoadForDelete, Goto, PCs, CreatePCs, DeleteLinkPCs, DeleteItemPCs
  <2>3. LockHeld'
    BY <1>a, <1>8 DEF RequestsOK, LockHeld, LoadForDelete, Goto, LockPCs, LockedPCs
  <2>4. LockFits'
    BY <1>a, <1>8 DEF RequestsOK, LockFits, LoadForDelete, Goto, CreatePCs
  <2> QED BY <2>2, <2>3, <2>4 DEF ControlOK
<1>9. ASSUME NEW c \in Clients, ReadRelatedLinks(c) PROVE ControlOK'
  <2> DEFINE related == {l \in links : l.id \in live /\ req[c] \in {l.source, l.target}}
  <2>1. CASE Rollback(c)
    BY <1>r, <2>1
  <2>2. CASE Goto(c, "dw_nolock") /\ UNCHANGED <<tables, lock, req, space, seen>>
    <3>1. RequestsOK'
      BY <1>a, <1>9, <2>2 DEF RequestsOK, ReadRelatedLinks, Goto, PCs, CreatePCs, DeleteLinkPCs, DeleteItemPCs
    <3>2. LockHeld'
      BY <1>a, <2>2 DEF RequestsOK, LockHeld, Goto, LockPCs, LockedPCs
    <3>3. LockFits'
      BY <1>a, <2>2 DEF RequestsOK, LockFits, Goto, CreatePCs
    <3> QED BY <3>1, <3>2, <3>3 DEF ControlOK
  <2>3. CASE \E first \in related :
               /\ seen' = [seen EXCEPT ![c] = {l.id : l \in related}]
               /\ space' = [space EXCEPT ![c] = SpaceOf[first.source]]
               /\ Goto(c, "dw_lock")
               /\ UNCHANGED <<tables, lock, req>>
    <3> PICK first \in related :
               /\ seen' = [seen EXCEPT ![c] = {l.id : l \in related}]
               /\ space' = [space EXCEPT ![c] = SpaceOf[first.source]]
               /\ Goto(c, "dw_lock")
               /\ UNCHANGED <<tables, lock, req>>
      BY <2>3
    <3>1. SpaceOf[first.source] \in Spaces /\ {l.id : l \in related} \in SUBSET LinkIDs
      BY DEF TablesOK, Link
    <3> HIDE DEF related
    <3>2. RequestsOK'
      BY <1>a, <1>9, <3>1 DEF RequestsOK, ReadRelatedLinks, Goto, PCs, CreatePCs, DeleteLinkPCs, DeleteItemPCs
    <3>3. LockHeld'
      BY <1>a, <3>1 DEF RequestsOK, LockHeld, Goto, LockPCs, LockedPCs
    <3>4. LockFits'
      BY <1>a, <3>1 DEF RequestsOK, LockFits, Goto, CreatePCs
    <3> QED BY <3>2, <3>3, <3>4 DEF ControlOK
  <2> QED BY <1>9, <2>1, <2>2, <2>3 DEF ReadRelatedLinks
<1>10. ASSUME NEW c \in Clients, DeleteWorkItem(c) PROVE ControlOK'
  BY <1>10, <1>r, AnswerControl DEF DeleteWorkItem
<1>11. ASSUME NEW c \in Clients, Timeout(c) PROVE ControlOK'
  BY <1>11, <1>r DEF Timeout
<1>12. CASE UNCHANGED vars
  BY <1>a, <1>12 DEF vars, tables, ControlOK, RequestsOK, LockHeld, LockFits
<1> QED BY <1>1, <1>2, <1>3, <1>4, <1>5, <1>6, <1>7, <1>8, <1>9, <1>10, <1>11, <1>12
    DEF Next, Arrive, Proceed

------------------------------------------------------------------------------
(* The tables. *)

\* A step that adds no link: the rows stay, links may be soft-deleted.
OnlyDeletes == links' = links /\ live' \subseteq live

\* The step of InsertLink that adds the link l.
Inserts(c, l) ==
    /\ pc[c] = "cr_insert"
    /\ l = [id |-> l.id, source |-> req[c].source, target |-> req[c].target, type |-> req[c].type]
    /\ l.id \in FreshIDs
    /\ links' = links \cup {l}
    /\ live' = live \cup {l.id}
    /\ Answer(c)

\* deleteLink keeps the types of the tables.
LEMMA DeleteLinksTables ==
    ASSUME TablesOK, NEW ids, DeleteLinks(ids)
    PROVE  /\ OnlyDeletes
           /\ links' \subseteq Link
           /\ live' \subseteq {l.id : l \in links'}
           /\ revisions' \in [LinkIDs -> Seq({"create", "delete"})]
BY DEF TablesOK, OnlyDeletes, DeleteLinks

\* Every step keeps the types of the tables, and adds a link only in InsertLink.
LEMMA TablesStep ==
    ASSUME TablesOK, ControlOK, [Next]_vars
    PROVE  TablesOK' /\ (OnlyDeletes \/ \E c \in Clients, l \in Link : Inserts(c, l))
<1> USE LinksAssumption
<1> DEFINE Goal == TablesOK' /\ (OnlyDeletes \/ \E c \in Clients, l \in Link : Inserts(c, l))
<1>1. ASSUME UNCHANGED tables PROVE Goal
  BY <1>1 DEF tables, TablesOK, OnlyDeletes
<1>2. ASSUME NEW c \in Clients, InsertLink(c) PROVE Goal
  <2>1. CASE Rollback(c)
    BY <1>1, <2>1 DEF Rollback
  <2>2. CASE ~Rollback(c)
    <3> PICK id \in FreshIDs :
              /\ links' = links \cup {[id |-> id, source |-> req[c].source,
                                       target |-> req[c].target, type |-> req[c].type]}
              /\ live' = live \cup {id}
              /\ revisions' = [revisions EXCEPT ![id] = Append(@, "create")]
              /\ UNCHANGED wiLive
              /\ Answer(c)
      BY <1>2, <2>2 DEF InsertLink
    <3> DEFINE l == [id |-> id, source |-> req[c].source,
                     target |-> req[c].target, type |-> req[c].type]
    <3>1. pc[c] = "cr_insert" /\ req[c] \in NewLink /\ id \in LinkIDs
      BY <1>2 DEF InsertLink, ControlOK, RequestsOK, CreatePCs, FreshIDs
    <3>2. l \in Link /\ l.id = id
      BY <3>1 DEF NewLink, Link
    <3>3. Inserts(c, l)
      BY <3>1, <3>2 DEF Inserts
    <3>4. links' \subseteq Link /\ live' \subseteq {m.id : m \in links'}
      <4> HIDE DEF l
      <4>1. links' = links \cup {l}
        BY DEF l
      <4> QED BY <3>2, <4>1 DEF TablesOK
    <3>5. revisions' \in [LinkIDs -> Seq({"create", "delete"})]
      BY <3>1 DEF TablesOK
    <3>6. wiLive' \subseteq Existing
      BY DEF TablesOK
    <3> QED BY <3>2, <3>3, <3>4, <3>5, <3>6 DEF TablesOK
  <2> QED BY <2>1, <2>2
<1>3. ASSUME NEW c \in Clients, DeleteLink(c) PROVE Goal
  <2>1. DeleteLinks({req[c]}) /\ UNCHANGED wiLive
    BY <1>3 DEF DeleteLink
  <2> QED BY <2>1, DeleteLinksTables DEF TablesOK
<1>4. ASSUME NEW c \in Clients, DeleteWorkItem(c) PROVE Goal
  <2>1. CASE Rollback(c)
    BY <1>1, <2>1 DEF Rollback
  <2>2. CASE DeleteLinks(seen[c]) /\ wiLive' = wiLive \ {req[c]}
    BY <2>2, DeleteLinksTables DEF TablesOK
  <2> QED BY <1>4, <2>1, <2>2 DEF DeleteWorkItem
<1>5. ASSUME NEW c \in Clients,
             \/ Arrive(c) \/ AcquireLock(c) \/ ValidateTopology(c)
             \/ FindLink(c) \/ ReadRelatedLinks(c) \/ Timeout(c)
      PROVE  UNCHANGED tables
  BY <1>5 DEF Arrive, CreateLoad, AuthorizeDeleteLink, LoadForDelete, AcquireLock,
              ValidateTopology, FindLink, ReadRelatedLinks, Timeout, Rollback, tables
<1>6. CASE UNCHANGED vars
  BY <1>1, <1>6 DEF vars, tables
<1> QED BY <1>1, <1>2, <1>3, <1>4, <1>5, <1>6 DEF Next, Proceed

------------------------------------------------------------------------------
(* What was validated stays true. *)

\* The links that an area or a space, or a link type, takes with it are links between work items.
LEMMA SpaceLinksBetween ==
    ASSUME TablesOK, NEW s, NEW t
    PROVE  Between(SpaceLinks(s, t)) /\ Between(LinksOfType(t))
BY DEF TablesOK, Link, SpaceLinks, LinksOfType, Between

\* Fewer links in the space allow no less.
LEMMA FewerAllow ==
    ASSUME TablesOK, NEW s, NEW new, AllowedWithin(s, new),
           NEW K, K \subseteq SpaceLinks(s, new.type)
    PROVE  /\ Topology[new.type] = "tree" => ~\E m \in K : m.target = new.target
           /\ Topology[new.type] \in {"tree", "dependency"} => new.target \notin Ancestors(K, new.source)
<1>1. Ancestors(K, new.source) \subseteq Ancestors(SpaceLinks(s, new.type), new.source)
  BY SpaceLinksBetween, AncestorsMonotone
<1> QED BY <1>1 DEF AllowedWithin

\* ValidateTopology looks at the links of all spaces, so what it allows is allowed
\* within the space.
LEMMA ValidatedIsAllowed ==
    ASSUME TablesOK, NEW s, NEW new, TopologyAllows(new)
    PROVE  AllowedWithin(s, new)
<1>1. SpaceLinks(s, new.type) \subseteq LinksOfType(new.type)
  BY DEF SpaceLinks
<1>2. Ancestors(SpaceLinks(s, new.type), new.source) \subseteq Ancestors(LinksOfType(new.type), new.source)
  BY <1>1, SpaceLinksBetween, AncestorsMonotone
<1> QED BY <1>1, <1>2 DEF TopologyAllows, HasParent, DetectCycle, AllowedWithin

\* A new link goes to the space whose lock its request holds, if its ends are in
\* one space, and changes no other space.
LEMMA InsertsElsewhere ==
    ASSUME TablesOK, ControlOK, NEW c \in Clients, NEW l \in Link, Inserts(c, l),
           NEW s, s # space[c], NEW t
    PROVE  SpaceLinks(s, t)' = SpaceLinks(s, t)
<1>1. space[c] \in {SpaceOf[l.source], SpaceOf[l.target]}
  BY DEF ControlOK, LockFits, CreatePCs, Inserts
<1>2. \A m \in links : m.id \in live \cup {l.id} <=> m.id \in live
  BY DEF Inserts, FreshIDs
<1> QED BY <1>1, <1>2 DEF SpaceLinks, LinksOfType, Inserts

\* No step of another request spoils what was validated.
LEMMA StillAllowedStep == IInv /\ [Next]_vars => StillAllowed'
<1> SUFFICES ASSUME IInv, [Next]_vars, NEW c \in Clients, pc'[c] = "cr_insert"
             PROVE  AllowedWithin(space[c], req[c])'
  BY DEF StillAllowed
<1>a. TablesOK /\ ControlOK /\ StillAllowed /\ RequestsOK /\ LockHeld
  BY DEF IInv, ControlOK
<1>1. \/ pc[c] = "cr_insert" /\ UNCHANGED <<space[c], req[c]>>
      \/ ValidateTopology(c) /\ TopologyAllows(req[c]) /\ UNCHANGED <<tables, space, req>>
  <2>1. ASSUME NEW b \in Clients, Answer(b) PROVE pc[c] = "cr_insert" /\ UNCHANGED <<space[c], req[c]>>
    BY <1>a, <2>1 DEF Answer, RequestsOK
  <2>2. ASSUME NEW b \in Clients, CreateLoad(b) PROVE pc[c] = "cr_insert" /\ UNCHANGED <<space[c], req[c]>>
    BY <1>a, <2>2 DEF CreateLoad, Goto, RequestsOK
  <2>3. ASSUME NEW b \in Clients, AuthorizeDeleteLink(b) PROVE pc[c] = "cr_insert" /\ UNCHANGED <<space[c], req[c]>>
    BY <1>a, <2>3 DEF AuthorizeDeleteLink, Goto, RequestsOK
  <2>4. ASSUME NEW b \in Clients, LoadForDelete(b) PROVE pc[c] = "cr_insert" /\ UNCHANGED <<space[c], req[c]>>
    BY <1>a, <2>4 DEF LoadForDelete, Goto, RequestsOK
  <2>5. ASSUME NEW b \in Clients, AcquireLock(b) PROVE pc[c] = "cr_insert" /\ UNCHANGED <<space[c], req[c]>>
    <3>1. AfterLock[pc[b]] # "cr_insert"
      BY <2>5 DEF AcquireLock, LockPCs, AfterLock
    <3> QED BY <1>a, <2>5, <3>1 DEF AcquireLock, Goto, RequestsOK
  <2>6. ASSUME NEW b \in Clients, FindLink(b), ~Rollback(b) PROVE pc[c] = "cr_insert" /\ UNCHANGED <<space[c], req[c]>>
    BY <1>a, <2>6 DEF FindLink, Goto, RequestsOK
  <2>7. ASSUME NEW b \in Clients, ReadRelatedLinks(b), ~Rollback(b) PROVE pc[c] = "cr_insert" /\ UNCHANGED <<space[c], req[c]>>
    BY <1>a, <2>7 DEF ReadRelatedLinks, Goto, RequestsOK
  <2>8. ASSUME NEW b \in Clients, ValidateTopology(b), ~Rollback(b)
        PROVE \/ pc[c] = "cr_insert" /\ UNCHANGED <<space[c], req[c]>>
              \/ b = c /\ TopologyAllows(req[c]) /\ UNCHANGED <<tables, space, req>>
    BY <1>a, <2>8 DEF ValidateTopology, Goto, RequestsOK
  <2>9. ASSUME NEW b \in Clients, InsertLink(b) \/ DeleteLink(b) \/ DeleteWorkItem(b) \/ Timeout(b) \/ Rollback(b)
        PROVE  Answer(b)
    BY <2>9 DEF InsertLink, DeleteLink, DeleteWorkItem, Timeout, Rollback
  <2>10. CASE UNCHANGED vars
    BY <2>10 DEF vars
  <2> QED BY <2>1, <2>2, <2>3, <2>4, <2>5, <2>6, <2>7, <2>8, <2>9, <2>10 DEF Next, Arrive, Proceed
<1>2. CASE ValidateTopology(c) /\ TopologyAllows(req[c]) /\ UNCHANGED <<tables, space, req>>
  <2>1. AllowedWithin(space[c], req[c])
    BY <1>a, <1>2, ValidatedIsAllowed
  <2> QED BY <1>2, <2>1 DEF AllowedWithin, SpaceLinks, LinksOfType, tables
<1>3. CASE pc[c] = "cr_insert" /\ UNCHANGED <<space[c], req[c]>>
  <2> DEFINE s == space[c]
             new == req[c]
  <2>1. AllowedWithin(s, new)
    BY <1>a, <1>3 DEF StillAllowed
  <2>2. SpaceLinks(s, new.type)' \subseteq SpaceLinks(s, new.type)
    <3>1. CASE OnlyDeletes
      BY <1>3, <3>1 DEF OnlyDeletes, SpaceLinks, LinksOfType
    <3>2. ASSUME NEW b \in Clients, NEW l \in Link, Inserts(b, l)
          PROVE  SpaceLinks(s, new.type)' \subseteq SpaceLinks(s, new.type)
      <4>1. b # c
        BY <1>a, <3>2 DEF Inserts, Answer, RequestsOK
      <4>2. lock[space[b]] = b /\ lock[s] = c
        BY <1>a, <1>3, <3>2 DEF LockHeld, LockedPCs, Inserts
      <4>3. SpaceLinks(s, new.type)' = SpaceLinks(s, new.type)
        <5>1. s # space[b]
          BY <4>1, <4>2
        <5>2. \A r, t : r # space[b] => SpaceLinks(r, t)' = SpaceLinks(r, t)
          <6> TAKE r, t
          <6> HAVE r # space[b]
          <6> QED BY <1>a, <3>2, InsertsElsewhere
        <5> QED BY <1>3, <5>1, <5>2 DEF SpaceLinks, LinksOfType
      <4> QED BY <4>3
    <3> QED BY <1>a, <3>1, <3>2, TablesStep
  <2>3. /\ Topology[new.type] = "tree" => ~\E m \in SpaceLinks(s, new.type)' : m.target = new.target
        /\ Topology[new.type] \in {"tree", "dependency"} => new.target \notin Ancestors(SpaceLinks(s, new.type)', new.source)
    BY <1>a, <2>1, <2>2, FewerAllow
  <2> QED BY <1>3, <2>3 DEF AllowedWithin, SpaceLinks, LinksOfType, Ancestors, AncestorClosed, Parents
<1> QED BY <1>1, <1>2, <1>3

------------------------------------------------------------------------------
(* Theorems. *)

\* The inductive invariant holds in the beginning ...
LEMMA IInvInit == Init => IInv
<1> SUFFICES ASSUME Init PROVE IInv
  OBVIOUS
<1> USE LinksAssumption
<1>1. TablesOK
  BY DEF Init, TablesOK
<1>2. ControlOK
  BY DEF Init, ControlOK, RequestsOK, LockHeld, LockFits, PCs, CreatePCs, DeleteLinkPCs,
         DeleteItemPCs, LockPCs, LockedPCs
<1>3. StillAllowed
  BY DEF Init, StillAllowed
<1> QED BY <1>1, <1>2, <1>3 DEF IInv

\* ... and after every step ...
LEMMA IInvStep == IInv /\ [Next]_vars => IInv'
BY ControlStep, TablesStep, StillAllowedStep DEF IInv

\* ... and so always.
LEMMA Invariance == Spec => []IInv
BY IInvInit, IInvStep, PTL DEF Spec

\* Requests, tables and locks keep their types, for any number of requests.
THEOREM LinksTypeCorrect == Spec => []TypeOK
<1>1. IInv => TypeOK
  BY TypeParts DEF IInv, ControlOK
<1> QED BY <1>1, Invariance, PTL

\* The links of a space, as LinkGraph sees them.
LEMMA GraphWithin ==
    ASSUME NEW s, NEW t
    PROVE  Graph!Within(s, t) = SpaceLinks(s, t)
BY DEF Graph!Within, SpaceLinks, LinksOfType, SameSpaceLinks

\* Every step of a request is a step of LinkGraph.
LEMMA GraphStep == IInv /\ [Next]_vars => [Graph!Next]_SameSpaceLinks
<1> SUFFICES ASSUME IInv, [Next]_vars PROVE Graph!Next
  OBVIOUS
<1>1. CASE OnlyDeletes
  BY <1>1 DEF OnlyDeletes, SameSpaceLinks, Graph!Next, Graph!Remove
<1>2. ASSUME NEW c \in Clients, NEW l \in Link, Inserts(c, l) PROVE Graph!Next
  <2>1. \A m \in links : m.id \in live \cup {l.id} <=> m.id \in live
    BY <1>2 DEF Inserts, FreshIDs
  <2>2. CASE SpaceOf[l.source] # SpaceOf[l.target]
    <3>1. SameSpaceLinks' = SameSpaceLinks
      BY <1>2, <2>1, <2>2 DEF Inserts, SameSpaceLinks
    <3> QED BY <3>1 DEF Graph!Next, Graph!Remove
  <2>3. CASE SpaceOf[l.source] = SpaceOf[l.target]
    <3>1. SameSpaceLinks' = SameSpaceLinks \cup {l}
      BY <1>2, <2>1, <2>3 DEF Inserts, SameSpaceLinks
    <3>2. l \in Graph!GraphLink
      BY <2>3 DEF Graph!GraphLink, Link
    <3>3. /\ AllowedWithin(space[c], req[c])
          /\ space[c] = SpaceOf[l.source]
          /\ req[c].source = l.source /\ req[c].target = l.target /\ req[c].type = l.type
      BY <1>2, <2>3 DEF IInv, StillAllowed, ControlOK, LockFits, CreatePCs, Inserts
    <3>4. Graph!Within(SpaceOf[l.source], l.type) = SpaceLinks(SpaceOf[l.source], l.type)
      BY DEF Graph!Within, SpaceLinks, LinksOfType, SameSpaceLinks
    <3>5. Graph!Allowed(l)
      BY <3>3, <3>4, SameVocabulary DEF AllowedWithin, Graph!Allowed
    <3> QED BY <3>1, <3>2, <3>5 DEF Graph!Next, Graph!Add
  <2> QED BY <2>2, <2>3
<1> QED BY <1>1, <1>2, TablesStep DEF IInv

\* The repository implements LinkGraph: however its requests interleave, a link
\* appears only when the topology of its type allows it at that moment.
THEOREM LinksRefineGraph == Spec => ImplementsLinkGraph
<1>1. Init => Graph!Init
  BY DEF Init, Graph!Init, SameSpaceLinks
<1>2. Spec => Graph!Spec
  BY <1>1, GraphStep, Invariance, PTL DEF Spec, Graph!Spec
<1> QED BY <1>2 DEF ImplementsLinkGraph

\* What LinkGraph promises is what the properties of WorkItemLinks say.
LEMMA GraphMeansTree == Graph!SingleParents => TreeHasSingleParents
BY GraphWithin, SameVocabulary DEF Graph!SingleParents, TreeHasSingleParents

\* The same of cycles.
LEMMA GraphMeansNoCycles == Graph!NoCycles => NoCyclesButSelfLinks
BY GraphWithin, SameVocabulary DEF Graph!NoCycles, NoCyclesButSelfLinks

\* So what LinkGraph promises holds of the links of the repository.
LEMMA LinksKeepGraphSafe == Spec => [](Graph!TypeOK /\ Graph!SingleParents /\ Graph!NoCycles)
BY LinksRefineGraph, LinkGraphSafe, PTL DEF ImplementsLinkGraph

\* In a tree topology no work item ever has two parents in its space.
THEOREM LinksTreeSafe == Spec => []TreeHasSingleParents
BY LinksKeepGraphSafe, GraphMeansTree, PTL

\* In tree and dependency topologies no cycle but a self-link ever arises in a space.
THEOREM LinksCycleSafe == Spec => []NoCyclesButSelfLinks
BY LinksKeepGraphSafe, GraphMeansNoCycles, PTL

\* What the run of WorkItemLinks checks of the topologies, for any number of requests, work
\* items, spaces and link types.
THEOREM LinksAreSafe == Spec => []LinksSafe
<1>1. TypeOK /\ TreeHasSingleParents /\ NoCyclesButSelfLinks => LinksSafe
  BY DEF LinksSafe
<1> QED BY <1>1, LinksTypeCorrect, LinksTreeSafe, LinksCycleSafe, PTL

------------------------------------------------------------------------------
(* What is stored about links is true. *)

\* A request to create a link has found its ends in one space, as far as they are still
\* there: work items are deleted and never come back.
EndsFit ==
    \A c \in Clients : pc[c] \in CreatePCs /\ {req[c].source, req[c].target} \subseteq wiLive =>
        SpaceOf[req[c].source] = SpaceOf[req[c].target]

\* An id that is not used yet has no revisions.
UnusedIDsClean == \A id \in LinkIDs : id \notin {l.id : l \in links} => revisions[id] = <<>>

TruthInv == LinksTruthful /\ EndsFit /\ UnusedIDsClean

\* What Append does to a sequence of length n.
LEMMA AppendAt ==
    ASSUME NEW S, NEW seq \in Seq(S), NEW e \in S, NEW n \in Nat, Len(seq) = n
    PROVE  /\ Append(seq, e) \in Seq(S) /\ Len(Append(seq, e)) = n + 1
           /\ Append(seq, e)[n + 1] = e
           /\ \A k \in 1 .. n : Append(seq, e)[k] = seq[k]
OBVIOUS

\* A second element.
LEMMA AppendSecond == ASSUME NEW d, NEW e PROVE Append(<<d>>, e) = <<d, e>>
<1> DEFINE S == {d, e}
           seq == <<d>>
<1>1. e \in S /\ seq \in Seq(S) /\ Len(seq) = 1 /\ seq[1] = d
  OBVIOUS
<1> HIDE DEF S, seq
<1>2. PICK n \in Nat : n = 1
  OBVIOUS
<1>3. /\ Append(seq, e) \in Seq(S) /\ Len(Append(seq, e)) = n + 1
      /\ Append(seq, e)[n + 1] = e
      /\ \A k \in 1 .. n : Append(seq, e)[k] = seq[k]
  <2>1. Len(seq) = n
    BY <1>1, <1>2
  <2> QED BY <1>1, <2>1, AppendAt
<1>4. n + 1 = 2 /\ 1 \in 1 .. n
  BY <1>2
<1>5. Append(seq, e)[1] = d
  BY <1>1, <1>3, <1>4, Zenon
<1>6. PICK new \in Seq(S) : new = Append(seq, e)
  BY <1>3
<1>7. Len(new) = 2 /\ new[1] = d /\ new[2] = e
  BY <1>3, <1>4, <1>5, <1>6
<1>8. new = <<d, e>>
  BY <1>7
<1> QED BY <1>6, <1>8 DEF seq

\* deleteLink stores one revision for each link that it deletes.
LEMMA DeleteLinksTruth ==
    ASSUME IInv, TruthInv, NEW ids, DeleteLinks(ids), wiLive' \subseteq wiLive
    PROVE  LinksTruthful' /\ UnusedIDsClean'
<1>0. /\ links \subseteq Link /\ live \subseteq {l.id : l \in links}
      /\ revisions \in [LinkIDs -> Seq({"create", "delete"})]
      /\ \A l \in links : l.id \in LinkIDs
  BY DEF IInv, TablesOK, Link
<1>1. links' = links /\ live' = live \ ids
  BY DEF DeleteLinks
<1>2. NoCrossSpaceLinks'
  BY <1>1 DEF TruthInv, LinksTruthful, NoCrossSpaceLinks
<1>3. ASSUME NEW l \in links
      PROVE  revisions'[l.id] = IF l.id \in live' THEN <<"create">> ELSE <<"create", "delete">>
  <2>1. revisions[l.id] = IF l.id \in live THEN <<"create">> ELSE <<"create", "delete">>
    BY DEF TruthInv, LinksTruthful, RevisionsTellTheStory
  <2>2. CASE l.id \in ids \cap live
    <3>1. revisions'[l.id] = Append(revisions[l.id], "delete")
      BY <1>0, <2>2 DEF DeleteLinks
    <3>2. Append(<<"create">>, "delete") = <<"create", "delete">>
      BY AppendSecond
    <3> QED BY <1>1, <2>1, <2>2, <3>1, <3>2
  <2>3. CASE l.id \notin ids \cap live
    <3>1. revisions'[l.id] = revisions[l.id]
      BY <1>0, <2>3 DEF DeleteLinks
    <3> QED BY <1>1, <2>1, <2>3, <3>1
  <2> QED BY <2>2, <2>3
<1>4. RevisionsTellTheStory'
  BY <1>1, <1>3 DEF RevisionsTellTheStory
<1>5. UnusedIDsClean'
  <2>1. ASSUME NEW id \in LinkIDs, id \notin {l.id : l \in links} PROVE revisions'[id] = <<>>
    <3>1. id \notin live /\ revisions[id] = <<>>
      BY <1>0, <2>1 DEF TruthInv, UnusedIDsClean
    <3> QED BY <3>1 DEF DeleteLinks
  <2> QED BY <1>1, <2>1 DEF UnusedIDsClean
<1> QED BY <1>2, <1>4, <1>5 DEF LinksTruthful

\* A new link joins work items of one space, and has one revision.
LEMMA InsertTruth ==
    ASSUME IInv, TruthInv, NEW c \in Clients, InsertLink(c), ~Rollback(c)
    PROVE  LinksTruthful' /\ UnusedIDsClean' /\ wiLive' = wiLive
<1>0. /\ links \subseteq Link /\ live \subseteq {l.id : l \in links}
      /\ revisions \in [LinkIDs -> Seq({"create", "delete"})]
      /\ \A l \in links : l.id \in LinkIDs
  BY DEF IInv, TablesOK, Link
<1>1. PICK id \in FreshIDs :
         /\ links' = links \cup {[id |-> id, source |-> req[c].source,
                                  target |-> req[c].target, type |-> req[c].type]}
         /\ live' = live \cup {id}
         /\ revisions' = [revisions EXCEPT ![id] = Append(revisions[id], "create")]
         /\ UNCHANGED wiLive
  BY DEF InsertLink
<1>2. id \in LinkIDs /\ id \notin {l.id : l \in links}
  BY DEF FreshIDs
<1> DEFINE new == [id |-> id, source |-> req[c].source, target |-> req[c].target, type |-> req[c].type]
<1>3. /\ new.id = id /\ new.source = req[c].source /\ new.target = req[c].target
      /\ links' = links \cup {new}
  BY <1>1
<1>4. {new.source, new.target} \subseteq wiLive => SpaceOf[new.source] = SpaceOf[new.target]
  BY DEF InsertLink, CreatePCs, TruthInv, EndsFit
<1> HIDE DEF new
<1>5. revisions[id] = <<>>
  BY <1>2 DEF TruthInv, UnusedIDsClean
<1>6. revisions'[id] = <<"create">>
  <2>1. Append(<<>>, "create") = <<"create">>
    OBVIOUS
  <2> QED BY <1>0, <1>1, <1>2, <1>5, <2>1
<1>7. \A j \in LinkIDs \ {id} : revisions'[j] = revisions[j]
  BY <1>0, <1>1
<1>8. NoCrossSpaceLinks'
  <2>1. ASSUME NEW l \in links', l.id \in live', {l.source, l.target} \subseteq wiLive'
        PROVE  SpaceOf[l.source] = SpaceOf[l.target]
    <3>1. CASE l = new
      BY <1>1, <1>4, <2>1, <3>1
    <3>2. CASE l # new
      <4>1. l \in links /\ l.id # id
        BY <1>2, <1>3, <2>1, <3>2
      <4> QED BY <1>1, <2>1, <4>1 DEF TruthInv, LinksTruthful, NoCrossSpaceLinks
    <3> QED BY <3>1, <3>2
  <2> QED BY <2>1 DEF NoCrossSpaceLinks
<1>9. RevisionsTellTheStory'
  <2>1. ASSUME NEW l \in links'
        PROVE  revisions'[l.id] = IF l.id \in live' THEN <<"create">> ELSE <<"create", "delete">>
    <3>1. CASE l = new
      BY <1>1, <1>3, <1>6, <3>1
    <3>2. CASE l # new
      <4>1. l \in links /\ l.id # id /\ l.id \in LinkIDs
        BY <1>0, <1>2, <1>3, <2>1, <3>2
      <4>2. revisions[l.id] = IF l.id \in live THEN <<"create">> ELSE <<"create", "delete">>
        BY <4>1 DEF TruthInv, LinksTruthful, RevisionsTellTheStory
      <4> QED BY <1>1, <1>7, <4>1, <4>2
    <3> QED BY <3>1, <3>2
  <2> QED BY <2>1 DEF RevisionsTellTheStory
<1>10. UnusedIDsClean'
  BY <1>3, <1>7 DEF TruthInv, UnusedIDsClean
<1> QED BY <1>1, <1>8, <1>9, <1>10 DEF LinksTruthful

\* The ends of a link to be created are looked at once, and then only deleted.
LEMMA EndsStep ==
    ASSUME IInv, TruthInv, [Next]_vars, wiLive' \subseteq wiLive
    PROVE  EndsFit'
<1> SUFFICES ASSUME NEW c \in Clients, pc'[c] \in CreatePCs, {req'[c].source, req'[c].target} \subseteq wiLive'
             PROVE  SpaceOf[req'[c].source] = SpaceOf[req'[c].target]
  BY DEF EndsFit
<1>a. RequestsOK
  BY DEF IInv, ControlOK
<1>1. CASE CreateLoad(c)
  <2> PICK new \in NewLink : \E s \in {SpaceOf[i] : i \in {new.source, new.target} \cap wiLive} :
         /\ {SpaceOf[i] : i \in {new.source, new.target} \cap wiLive} = {s}
         /\ req' = [req EXCEPT ![c] = new]
    BY <1>1 DEF CreateLoad
  <2>1. req'[c] = new
    BY <1>a DEF RequestsOK
  <2> QED BY <2>1
<1>2. CASE ~CreateLoad(c)
  <2>1. pc[c] \in CreatePCs /\ req'[c] = req[c]
    <3>1. ASSUME NEW b \in Clients, Answer(b) PROVE pc[c] \in CreatePCs /\ req'[c] = req[c]
      BY <1>a, <3>1 DEF Answer, RequestsOK, CreatePCs
    <3>2. ASSUME NEW b \in Clients, CreateLoad(b) PROVE pc[c] \in CreatePCs /\ req'[c] = req[c]
      BY <1>a, <1>2, <3>2 DEF CreateLoad, Goto, RequestsOK
    <3>3. ASSUME NEW b \in Clients, AuthorizeDeleteLink(b) \/ LoadForDelete(b)
          PROVE  pc[c] \in CreatePCs /\ req'[c] = req[c]
      BY <1>a, <3>3 DEF AuthorizeDeleteLink, LoadForDelete, Goto, RequestsOK, CreatePCs
    <3>4. ASSUME NEW b \in Clients, AcquireLock(b) PROVE pc[c] \in CreatePCs /\ req'[c] = req[c]
      <4>1. pc[b] \in {"cr_lock", "dl_lock", "dw_lock"} /\ AfterLock[pc[b]] \in CreatePCs => pc[b] \in CreatePCs
        BY DEF AfterLock, CreatePCs
      <4> QED BY <1>a, <3>4, <4>1 DEF AcquireLock, Goto, RequestsOK, LockPCs
    <3>5. ASSUME NEW b \in Clients, FindLink(b) \/ ReadRelatedLinks(b), ~Rollback(b)
          PROVE  pc[c] \in CreatePCs /\ req'[c] = req[c]
      BY <1>a, <3>5 DEF FindLink, ReadRelatedLinks, Goto, RequestsOK, CreatePCs
    <3>6. ASSUME NEW b \in Clients, ValidateTopology(b), ~Rollback(b)
          PROVE  pc[c] \in CreatePCs /\ req'[c] = req[c]
      BY <1>a, <3>6 DEF ValidateTopology, Goto, RequestsOK, CreatePCs
    <3>7. ASSUME NEW b \in Clients, InsertLink(b) \/ DeleteLink(b) \/ DeleteWorkItem(b) \/ Timeout(b) \/ Rollback(b)
          PROVE  Answer(b)
      BY <3>7 DEF InsertLink, DeleteLink, DeleteWorkItem, Timeout, Rollback
    <3>8. CASE UNCHANGED vars
      BY <3>8 DEF vars
    <3> QED BY <3>1, <3>2, <3>3, <3>4, <3>5, <3>6, <3>7, <3>8 DEF Next, Arrive, Proceed
  <2> QED BY <2>1 DEF TruthInv, EndsFit
<1> QED BY <1>1, <1>2

\* Every step keeps what the links and their history say true.
LEMMA TruthStep == IInv /\ TruthInv /\ [Next]_vars => TruthInv'
<1> SUFFICES ASSUME IInv, TruthInv, [Next]_vars PROVE TruthInv'
  OBVIOUS
<1>1. ASSUME UNCHANGED tables PROVE LinksTruthful' /\ UnusedIDsClean' /\ wiLive' \subseteq wiLive
  BY <1>1 DEF tables, TruthInv, LinksTruthful, NoCrossSpaceLinks, RevisionsTellTheStory, UnusedIDsClean
<1>2. ASSUME NEW c \in Clients, InsertLink(c) PROVE LinksTruthful' /\ UnusedIDsClean' /\ wiLive' \subseteq wiLive
  BY <1>1, <1>2, InsertTruth DEF Rollback
<1>3. ASSUME NEW c \in Clients, DeleteLink(c) PROVE LinksTruthful' /\ UnusedIDsClean' /\ wiLive' \subseteq wiLive
  BY <1>3, DeleteLinksTruth DEF DeleteLink
<1>4. ASSUME NEW c \in Clients, DeleteWorkItem(c) PROVE LinksTruthful' /\ UnusedIDsClean' /\ wiLive' \subseteq wiLive
  <2>1. CASE Rollback(c)
    BY <1>1, <2>1 DEF Rollback
  <2>2. CASE DeleteLinks(seen[c]) /\ wiLive' = wiLive \ {req[c]}
    BY <2>2, DeleteLinksTruth
  <2> QED BY <1>4, <2>1, <2>2 DEF DeleteWorkItem
<1>5. ASSUME NEW c \in Clients,
             \/ Arrive(c) \/ AcquireLock(c) \/ ValidateTopology(c)
             \/ FindLink(c) \/ ReadRelatedLinks(c) \/ Timeout(c)
      PROVE  UNCHANGED tables
  BY <1>5 DEF Arrive, CreateLoad, AuthorizeDeleteLink, LoadForDelete, AcquireLock,
              ValidateTopology, FindLink, ReadRelatedLinks, Timeout, Rollback, tables
<1>6. ASSUME UNCHANGED vars PROVE UNCHANGED tables
  BY <1>6 DEF vars, tables
<1>7. LinksTruthful' /\ UnusedIDsClean' /\ wiLive' \subseteq wiLive
  BY <1>1, <1>2, <1>3, <1>4, <1>5, <1>6 DEF Next, Proceed
<1> QED BY <1>7, EndsStep DEF TruthInv

\* No live link ever joins live work items of two spaces, although Create compares the spaces
\* before it takes the lock; and the revisions tell the life of every link, created once and
\* deleted at most once, although two requests may delete it at the same time.
THEOREM LinksAreTruthful == Spec => []LinksTruthful
<1>1. Init => TruthInv
  BY DEF Init, TruthInv, LinksTruthful, NoCrossSpaceLinks, RevisionsTellTheStory, EndsFit, UnusedIDsClean, CreatePCs
<1>2. TruthInv => LinksTruthful
  BY DEF TruthInv
<1> QED BY <1>1, <1>2, TruthStep, Invariance, PTL DEF Spec
===============================================================================
