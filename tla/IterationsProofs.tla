--------------------------- MODULE IterationsProofs ---------------------------
(***************************************************************************)
(* Proofs about iterations and areas.  The paths of iterations stay in     *)
(* their space although they are copied in one transaction and written in  *)
(* another, deleted iterations stay deleted, and while requests do not     *)
(* overlap the paths are a tree, one iteration of a space runs and the     *)
(* counts are right.  Areas are a tree and numbered, whatever overlaps.    *)
(*                                                                         *)
(* What a request carries is described by operators of the table it is to  *)
(* be written to (rows), so that a step of somebody else is one lemma      *)
(* about an old and a new table.                                           *)
(***************************************************************************)
EXTENDS Iterations, Areas, FiniteSetTheorems, TLAPS

-------------------------------------------------------------------------------
(* Paths *)

\* Sequences with the same elements are the same.
LEMMA SamePath ==
    ASSUME NEW S, NEW p \in Seq(S), NEW q \in Seq(S), Len(p) = Len(q),
           \A k \in 1 .. Len(p) : p[k] = q[k]
    PROVE  p = q
  OBVIOUS

\* MakeChildOf: the new path is one longer, ends in the id and begins with the parent's.
LEMMA ChildPath ==
    ASSUME NEW S, NEW p \in Seq(S), NEW e \in S
    PROVE  /\ Append(p, e) \in Seq(S) /\ Len(Append(p, e)) = Len(p) + 1
           /\ Append(p, e) # <<>> /\ Last(Append(p, e)) = e
           /\ Append(p, e)[Len(p) + 1] = e
           /\ \A k \in 1 .. Len(p) : Append(p, e)[k] = p[k]
  BY DEF Last

\* What is above an iteration whose path is not empty.
LEMMA FrontPath ==
    ASSUME NEW S, NEW p \in Seq(S), p # <<>>
    PROVE  /\ ParentPath(p) \in Seq(S) /\ Len(ParentPath(p)) = Len(p) - 1 /\ Len(p) \in Nat \ {0}
           /\ \A k \in 1 .. Len(p) - 1 : ParentPath(p)[k] = p[k]
<1>1. Len(p) \in Nat \ {0}
  OBVIOUS
<1> QED  BY <1>1, SMTT(30) DEF ParentPath, Front

LEMMA FrontOfChild ==
    ASSUME NEW S, NEW p \in Seq(S), NEW e \in S
    PROVE  ParentPath(Append(p, e)) = p /\ (p # <<>> => ParentID(Append(p, e)) = Last(p))
<1> DEFINE c == Append(p, e)
<1>1. c \in Seq(S) /\ Len(c) = Len(p) + 1 /\ c # <<>> /\ \A k \in 1 .. Len(p) : c[k] = p[k]
  BY ChildPath
<1> HIDE DEF c
<1>2. ParentPath(c) \in Seq(S) /\ Len(ParentPath(c)) = Len(p) /\ \A k \in 1 .. Len(p) : ParentPath(c)[k] = p[k]
  <2>1. /\ ParentPath(c) \in Seq(S) /\ Len(ParentPath(c)) = Len(c) - 1
        /\ \A k \in 1 .. Len(c) - 1 : ParentPath(c)[k] = c[k]
    BY <1>1, FrontPath
  <2>2. Len(c) - 1 = Len(p)
    BY <1>1
  <2> QED  BY <1>1, <2>1, <2>2
<1>3. ParentPath(c) = p
  BY <1>2, SamePath
<1>4. p # <<>> => Len(p) \in Nat \ {0}
  OBVIOUS
<1>5. p # <<>> => ParentID(c) = Last(p)
  BY <1>1, <1>4 DEF ParentID, Last
<1> QED  BY <1>3, <1>5 DEF c

\* "Below" in terms of the elements of the paths.
LEMMA BelowMeans ==
    ASSUME NEW S, NEW p \in Seq(S), NEW q \in Seq(S)
    PROVE  IsStrictPrefix(p, q) <=> Len(p) < Len(q) /\ \A k \in 1 .. Len(p) : p[k] = q[k]
<1>1. Len(p) \in Nat /\ Len(q) \in Nat
  OBVIOUS
<1>2. ASSUME IsStrictPrefix(p, q)
      PROVE  Len(p) < Len(q) /\ \A k \in 1 .. Len(p) : p[k] = q[k]
  <2>1. Len(p) <= Len(q) /\ SubSeq(p, 1, Len(p)) = SubSeq(q, 1, Len(p)) /\ p # q
    BY <1>2 DEF IsStrictPrefix, IsPrefix
  <2>2. \A k \in 1 .. Len(p) : SubSeq(p, 1, Len(p))[k] = p[k] /\ SubSeq(q, 1, Len(p))[k] = q[k]
    BY <1>1, <2>1
  <2>3. \A k \in 1 .. Len(p) : p[k] = q[k]
    BY <2>1, <2>2
  <2>4. Len(p) # Len(q)
    BY <2>1, <2>3, SamePath
  <2> QED  BY <1>1, <2>1, <2>3, <2>4
<1>3. ASSUME Len(p) < Len(q), \A k \in 1 .. Len(p) : p[k] = q[k]
      PROVE  IsStrictPrefix(p, q)
  <2>1. SubSeq(p, 1, Len(p)) \in Seq(S) /\ Len(SubSeq(p, 1, Len(p))) = Len(p)
    BY <1>1
  <2>2. SubSeq(q, 1, Len(p)) \in Seq(S) /\ Len(SubSeq(q, 1, Len(p))) = Len(p)
    BY <1>1, <1>3
  <2>3. \A k \in 1 .. Len(p) : SubSeq(p, 1, Len(p))[k] = SubSeq(q, 1, Len(p))[k]
    BY <1>1, <1>3
  <2>4. SubSeq(p, 1, Len(p)) = SubSeq(q, 1, Len(p))
    BY <2>1, <2>2, <2>3, SamePath
  <2> QED  BY <1>1, <1>3, <2>4 DEF IsStrictPrefix, IsPrefix
<1> QED  BY <1>2, <1>3

\* A path is below p if and only if what is above it is p or below p.
LEMMA BelowParent ==
    ASSUME NEW S, NEW p \in Seq(S), NEW q \in Seq(S), q # <<>>
    PROVE  IsStrictPrefix(p, q) <=> p = ParentPath(q) \/ IsStrictPrefix(p, ParentPath(q))
<1>1. /\ ParentPath(q) \in Seq(S) /\ Len(ParentPath(q)) = Len(q) - 1 /\ Len(q) \in Nat \ {0} /\ Len(p) \in Nat
      /\ \A k \in 1 .. Len(q) - 1 : ParentPath(q)[k] = q[k]
  BY FrontPath
<1>2. ASSUME IsStrictPrefix(p, q)  PROVE  p = ParentPath(q) \/ IsStrictPrefix(p, ParentPath(q))
  <2>1. Len(p) < Len(q) /\ \A k \in 1 .. Len(p) : p[k] = q[k]
    BY <1>2, BelowMeans
  <2>2. Len(p) <= Len(ParentPath(q)) /\ \A k \in 1 .. Len(p) : p[k] = ParentPath(q)[k]
    BY <1>1, <2>1
  <2>3. CASE Len(p) = Len(ParentPath(q))
    BY <1>1, <2>2, <2>3, SamePath
  <2>4. CASE Len(p) < Len(ParentPath(q))
    BY <1>1, <2>2, <2>4, BelowMeans
  <2> QED  BY <1>1, <2>2, <2>3, <2>4
<1>3. ASSUME p = ParentPath(q)  PROVE  IsStrictPrefix(p, q)
  BY <1>1, <1>3, BelowMeans
<1>4. ASSUME IsStrictPrefix(p, ParentPath(q))  PROVE  IsStrictPrefix(p, q)
  <2>1. Len(p) < Len(ParentPath(q)) /\ \A k \in 1 .. Len(p) : p[k] = ParentPath(q)[k]
    BY <1>1, <1>4, BelowMeans
  <2>2. Len(p) < Len(q) /\ \A k \in 1 .. Len(p) : p[k] = q[k]
    BY <1>1, <2>1
  <2> QED  BY <2>2, BelowMeans
<1> QED  BY <1>2, <1>3, <1>4


-------------------------------------------------------------------------------
(* The inductive invariant: the table, and what requests carry.            *)

RowType ==
    [path : Seq(IDs), space : Spaces, name : Names, state : {"new", "start", "close"}, live : BOOLEAN]

RootIDs == {Roots[s] : s \in Spaces}

\* The path begins at the root of the space and has only iterations of it.
PathIn(rows, p, s) ==
    /\ p # <<>> /\ p[1] = Roots[s]
    /\ \A k \in 1 .. Len(p) : p[k] \in DOMAIN rows /\ rows[p[k]].space = s

\* What may be written to row i: the root's path is never another.
RowFor(rows, i, row) ==
    /\ row \in RowType /\ row.space = rows[i].space
    /\ PathIn(rows, row.path, row.space) /\ Last(row.path) = i
    /\ i \in RootIDs => row.path = <<i>> /\ row.live

TableOK(rows) ==
    /\ rows \in [DOMAIN rows -> RowType] /\ DOMAIN rows \subseteq IDs
    /\ \A i \in DOMAIN rows : RowFor(rows, i, rows[i])
    /\ \A s \in Spaces : Roots[s] \in DOMAIN rows /\ rows[Roots[s]].space = s

\* A child that is going to be inserted has a path made from one in the space.
ChildOK(rows, l) ==
    /\ l.id \in IDs /\ l.row \in RowType
    /\ \E p \in Seq(IDs) : l.row.path = Append(p, l.id) /\ PathIn(rows, p, l.row.space)

CopyOK(rows, l) == l.id \in DOMAIN rows /\ RowFor(rows, l.id, l.row)

SubtreeOK(rows, l) ==
    \A i \in DOMAIN l.subtree :
        /\ i \in DOMAIN rows /\ i \notin RootIDs
        /\ l.subtree[i] \in RowType
        /\ l.subtree[i].space = rows[i].space /\ l.row.space = rows[i].space

RequestOK(rows, label, l) ==
    /\ label \in {"idle", "create", "check", "save", "delete", "assign"}
    /\ label = "create" => ChildOK(rows, l)
    /\ label = "check" => CopyOK(rows, l) /\ l.name \in Names \cup {None} /\ l.state \in {"new", "start", "close", None}
    /\ label = "save" => CopyOK(rows, l) /\ SubtreeOK(rows, l)
    /\ label = "delete" => l.subtree \subseteq DOMAIN rows \ RootIDs /\ l.parent \in DOMAIN rows
    /\ label = "assign" => l.item \in Items /\ l.iteration \in DOMAIN rows /\ l.version \in Nat

ItemsOK(rows, items) == items \in [Items -> [iteration : DOMAIN rows, version : Nat, live : BOOLEAN]]

IInv ==
    /\ TableOK(itr) /\ ItemsOK(itr, wi)
    /\ DOMAIN pc = Clients /\ pc = [c \in Clients |-> pc[c]]
    /\ DOMAIN loc = Clients /\ overlap \in BOOLEAN
    /\ \A c \in Clients : RequestOK(itr, pc[c], loc[c])

LEMMA IInvSound == IInv => PathsAreSound
<1> SUFFICES ASSUME IInv  PROVE  PathsAreSound
  OBVIOUS
<1>1. TableOK(itr) /\ ItemsOK(itr, wi) /\ overlap \in BOOLEAN /\ \A c \in Clients : RequestOK(itr, pc[c], loc[c])
  BY DEF IInv
<1>2. \A i \in Rows : itr[i] \in RowType /\ PathIn(itr, itr[i].path, itr[i].space) /\ Last(itr[i].path) = i
  BY <1>1 DEF TableOK, RowFor, Rows
<1>3. Rows \subseteq IDs
  BY <1>1 DEF TableOK, Rows
<1>4. \A i \in Items : wi[i].iteration \in Rows /\ wi[i].version \in Nat
  BY <1>1 DEF ItemsOK, Rows
<1>5. pc \in [Clients -> {"idle", "create", "check", "save", "delete", "assign"}]
  BY <1>1 DEF IInv, RequestOK
<1>6. TypeOK
  BY <1>1, <1>2, <1>3, <1>4, <1>5 DEF TypeOK, RowType
<1>7. PathsStayInSpace
  <2> SUFFICES ASSUME NEW i \in Rows
               PROVE  /\ Head(itr[i].path) = Roots[itr[i].space]
                      /\ \A k \in 1 .. Len(itr[i].path) :
                           itr[i].path[k] \in Rows /\ itr[itr[i].path[k]].space = itr[i].space
    BY DEF PathsStayInSpace
  <2>1. itr[i].path \in Seq(IDs) /\ PathIn(itr, itr[i].path, itr[i].space)
    BY <1>2 DEF RowType
  <2>2. Head(itr[i].path) = itr[i].path[1]
    BY <2>1 DEF PathIn
  <2> QED  BY <2>1, <2>2 DEF PathIn, Rows
<1> QED  BY <1>6, <1>7 DEF PathsAreSound

\* The empty table of a new space: its root.
LEMMA IInvInit == Init => IInv
<1> SUFFICES ASSUME Init  PROVE  IInv
  OBVIOUS
<1>1. DOMAIN itr = RootIDs
  BY DEF Init, RootIDs
<1>2. ASSUME NEW s \in Spaces
      PROVE  /\ Roots[s] \in RootIDs /\ Roots[s] \in IDs /\ itr[Roots[s]].space = s
             /\ itr[Roots[s]] \in RowType /\ itr[Roots[s]].path = <<Roots[s]>> /\ itr[Roots[s]].live
  <2>1. Roots[s] \in RootIDs /\ Roots[s] \in IDs
    BY IterationsAssumption DEF RootIDs
  <2>2. itr[Roots[s]] = [path |-> <<Roots[s]>>, space |-> CHOOSE t \in Spaces : Roots[t] = Roots[s],
                         name |-> CHOOSE n \in Names : TRUE, state |-> "new", live |-> TRUE]
    BY <2>1 DEF Init, RootIDs
  <2>3. (CHOOSE t \in Spaces : Roots[t] = Roots[s]) = s
    BY IterationsAssumption
  <2>4. (CHOOSE n \in Names : TRUE) \in Names
    BY IterationsAssumption
  <2>5. <<Roots[s]>> \in Seq(IDs)
    BY <2>1
  <2> QED  BY <2>1, <2>2, <2>3, <2>4, <2>5 DEF RowType
<1>3. ASSUME NEW i \in DOMAIN itr  PROVE  i \in IDs /\ itr[i] \in RowType /\ RowFor(itr, i, itr[i])
  <2> PICK s \in Spaces : i = Roots[s]
    BY <1>1 DEF RootIDs
  <2>1. itr[i].space = s /\ itr[i] \in RowType /\ itr[i].path = <<i>> /\ itr[i].live /\ i \in IDs
    BY <1>2
  <2>2. PathIn(itr, <<i>>, s)
    BY <2>1 DEF PathIn
  <2>3. Last(<<i>>) = i
    BY DEF Last
  <2> QED  BY <2>1, <2>2, <2>3 DEF RowFor
<1>4. TableOK(itr)
  <2>1. itr \in [DOMAIN itr -> RowType]
    BY <1>3 DEF Init
  <2> QED  BY <1>1, <1>2, <1>3, <2>1 DEF TableOK
<1>5. ItemsOK(itr, wi)
  BY <1>1, <1>2, IterationsAssumption DEF Init, ItemsOK
<1>6. \A c \in Clients : RequestOK(itr, pc[c], loc[c])
  BY DEF Init, RequestOK
<1> QED  BY <1>4, <1>5, <1>6 DEF Init, IInv


-------------------------------------------------------------------------------
(* Changes of the table *)

\* Iterations are added, and none changes its space.
TableGrows(old, new) ==
    DOMAIN old \subseteq DOMAIN new /\ \A i \in DOMAIN old : new[i].space = old[i].space

LEMMA PathStays ==
    ASSUME NEW old, NEW new, TableGrows(old, new), NEW p, NEW s, PathIn(old, p, s)
    PROVE  PathIn(new, p, s)
  BY DEF PathIn, TableGrows

LEMMA RowForStays ==
    ASSUME NEW old, NEW new, TableGrows(old, new), NEW i \in DOMAIN old, NEW row, RowFor(old, i, row)
    PROVE  RowFor(new, i, row)
<1>1. PathIn(new, row.path, row.space)
  BY PathStays DEF RowFor
<1> QED  BY <1>1 DEF RowFor, TableGrows

\* What a request carries stays right whatever others do to the table.
LEMMA RequestStays ==
    ASSUME NEW old, NEW new, TableGrows(old, new), NEW label, NEW l, RequestOK(old, label, l)
    PROVE  RequestOK(new, label, l)
<1>1. ChildOK(old, l) => ChildOK(new, l)
  BY PathStays DEF ChildOK
<1>2. CopyOK(old, l) => CopyOK(new, l)
  <2> SUFFICES ASSUME CopyOK(old, l)  PROVE  CopyOK(new, l)
    OBVIOUS
  <2>1. l.id \in DOMAIN old /\ RowFor(old, l.id, l.row)
    BY DEF CopyOK
  <2>2. RowFor(new, l.id, l.row)
    BY <2>1, RowForStays
  <2> QED  BY <2>1, <2>2 DEF CopyOK, TableGrows
<1>3. SubtreeOK(old, l) => SubtreeOK(new, l)
  BY DEF SubtreeOK, TableGrows
<1>4. DOMAIN old \subseteq DOMAIN new
  BY DEF TableGrows
<1> QED  BY <1>1, <1>2, <1>3, <1>4 DEF RequestOK

\* Rows are overwritten with copies that belong to them.
LEMMA TableSave ==
    ASSUME NEW old, TableOK(old), NEW f, DOMAIN f \subseteq DOMAIN old,
           \A i \in DOMAIN f : RowFor(old, i, f[i]),
           NEW new, new = [i \in DOMAIN old |-> IF i \in DOMAIN f THEN f[i] ELSE old[i]]
    PROVE  TableOK(new) /\ TableGrows(old, new) /\ DOMAIN new = DOMAIN old
<1>1. DOMAIN new = DOMAIN old
  OBVIOUS
<1>2. \A i \in DOMAIN old : RowFor(old, i, new[i])
  BY DEF TableOK
<1>3. TableGrows(old, new)
  BY <1>1, <1>2 DEF TableGrows, RowFor
<1>4. \A i \in DOMAIN new : RowFor(new, i, new[i])
  BY <1>1, <1>2, <1>3, RowForStays
<1>5. new \in [DOMAIN new -> RowType]
  BY <1>1, <1>2 DEF RowFor
<1>6. \A s \in Spaces : Roots[s] \in DOMAIN new /\ new[Roots[s]].space = s
  BY <1>1, <1>3 DEF TableOK, TableGrows
<1> QED  BY <1>1, <1>3, <1>4, <1>5, <1>6 DEF TableOK

LEMMA TableDelete ==
    ASSUME NEW old, TableOK(old), NEW ids, ids \subseteq DOMAIN old \ RootIDs,
           NEW new, new = [i \in DOMAIN old |-> IF i \in ids THEN [old[i] EXCEPT !.live = FALSE] ELSE old[i]]
    PROVE  TableOK(new) /\ TableGrows(old, new) /\ DOMAIN new = DOMAIN old
<1> DEFINE f == [i \in ids |-> [old[i] EXCEPT !.live = FALSE]]
<1>1. ASSUME NEW i \in ids  PROVE  RowFor(old, i, f[i])
  <2>1. old[i] \in RowType /\ RowFor(old, i, old[i]) /\ i \notin RootIDs
    BY DEF TableOK
  <2>2. f[i] \in RowType /\ f[i].path = old[i].path /\ f[i].space = old[i].space
    BY <2>1 DEF RowType
  <2> QED  BY <2>1, <2>2 DEF RowFor
<1>2. DOMAIN f = ids /\ new = [i \in DOMAIN old |-> IF i \in DOMAIN f THEN f[i] ELSE old[i]]
  OBVIOUS
<1> HIDE DEF f
<1> QED  BY <1>1, <1>2, TableSave

LEMMA TableInsert ==
    ASSUME NEW old, TableOK(old), NEW l, ChildOK(old, l), l.id \notin DOMAIN old,
           NEW new, new = [i \in DOMAIN old \cup {l.id} |-> IF i = l.id THEN l.row ELSE old[i]]
    PROVE  TableOK(new) /\ TableGrows(old, new)
<1>1. /\ DOMAIN new = DOMAIN old \cup {l.id} /\ new[l.id] = l.row
      /\ \A i \in DOMAIN old : new[i] = old[i]
      /\ new = [i \in DOMAIN new |-> new[i]]
  OBVIOUS
<1>2. TableGrows(old, new)
  BY <1>1 DEF TableGrows
<1>3. \A i \in DOMAIN old : RowFor(new, i, new[i])
  BY <1>1, <1>2, RowForStays DEF TableOK
<1>4. RowFor(new, l.id, l.row)
  <2>1. PICK p \in Seq(IDs) : l.row.path = Append(p, l.id) /\ PathIn(old, p, l.row.space)
    BY DEF ChildOK
  <2>2. l.id \in IDs /\ l.row \in RowType
    BY DEF ChildOK
  <2>3. PathIn(new, p, l.row.space)
    BY <1>2, <2>1, PathStays
  <2>4. /\ Len(l.row.path) = Len(p) + 1 /\ Last(l.row.path) = l.id /\ l.row.path # <<>>
        /\ l.row.path[Len(p) + 1] = l.id /\ \A k \in 1 .. Len(p) : l.row.path[k] = p[k]
    BY <2>1, <2>2, ChildPath
  <2>5. Len(p) \in Nat \ {0}
    BY <2>1 DEF PathIn
  <2>6. l.row.path[1] = Roots[l.row.space]
    BY <2>1, <2>4, <2>5 DEF PathIn
  <2>7. ASSUME NEW k \in 1 .. Len(l.row.path)
        PROVE  l.row.path[k] \in DOMAIN new /\ new[l.row.path[k]].space = l.row.space
    <3>1. CASE k \in 1 .. Len(p)
      BY <2>3, <2>4, <3>1 DEF PathIn
    <3>2. CASE k = Len(p) + 1
      BY <1>1, <2>4, <3>2
    <3> QED  BY <2>4, <2>5, <3>1, <3>2
  <2>8. l.id \notin RootIDs
    BY DEF TableOK, RootIDs
  <2> QED  BY <1>1, <2>2, <2>4, <2>6, <2>7, <2>8 DEF RowFor, PathIn
<1>5. \A i \in DOMAIN new : RowFor(new, i, new[i])
  BY <1>1, <1>3, <1>4
<1>6. \A s \in Spaces : Roots[s] \in DOMAIN new /\ new[Roots[s]].space = s
  BY <1>1 DEF TableOK
<1>7. DOMAIN new \subseteq IDs
  BY <1>1 DEF TableOK, ChildOK
<1>8. \A i \in DOMAIN new : new[i] \in RowType
  BY <1>5 DEF RowFor
<1>9. new \in [DOMAIN new -> RowType]
  BY <1>1, <1>8
<1> QED  BY <1>2, <1>5, <1>6, <1>7, <1>9 DEF TableOK


-------------------------------------------------------------------------------
(* Steps *)

\* A step of the request of c.
StepOf(c) ==
    /\ DOMAIN pc' = Clients /\ pc' = [d \in Clients |-> pc'[d]] /\ DOMAIN loc' = Clients
    /\ \A d \in Clients \ {c} : pc'[d] = pc[d] /\ loc'[d] = loc[d]

LEMMA StepKeeps ==
    ASSUME IInv, NEW c \in Clients, StepOf(c), overlap' \in BOOLEAN,
           TableOK(itr'), TableGrows(itr, itr'), ItemsOK(itr', wi'), RequestOK(itr', pc'[c], loc'[c])
    PROVE  IInv'
<1>1. \A d \in Clients \ {c} : RequestOK(itr', pc[d], loc[d])
  BY RequestStays DEF IInv
<1>2. \A d \in Clients : RequestOK(itr', pc'[d], loc'[d])
  BY <1>1 DEF StepOf
<1> QED  BY <1>2 DEF IInv, StepOf

\* The table is left alone.
LEMMA ReadKeeps ==
    ASSUME IInv, NEW c \in Clients, StepOf(c), overlap' \in BOOLEAN, itr' = itr, wi' = wi,
           RequestOK(itr, pc'[c], loc'[c])
    PROVE  IInv'
<1>1. TableGrows(itr, itr') /\ TableOK(itr') /\ ItemsOK(itr', wi')
  BY DEF TableGrows, IInv
<1> QED  BY <1>1, StepKeeps

LEMMA EndIs ==
    ASSUME IInv, NEW c \in Clients, End(c)
    PROVE  StepOf(c) /\ overlap' = overlap /\ overlap' \in BOOLEAN /\ pc'[c] = "idle" /\ \A rows : RequestOK(rows, pc'[c], loc'[c])
  BY DEF End, StepOf, IInv, RequestOK

\* A row of the table as what a request copies.
LEMMA RowFacts ==
    ASSUME NEW rows, TableOK(rows), NEW i \in DOMAIN rows
    PROVE  /\ i \in IDs /\ rows[i] \in RowType /\ RowFor(rows, i, rows[i])
           /\ rows[i].path \in Seq(IDs) /\ rows[i].path # <<>> /\ Last(rows[i].path) = i
           /\ PathIn(rows, rows[i].path, rows[i].space) /\ rows[i].space \in Spaces
  BY DEF TableOK, RowFor, RowType, PathIn

\* What is below an iteration is in its space and is no root.
LEMMA ChildrenFacts ==
    ASSUME NEW rows, TableOK(rows), NEW id \in DOMAIN rows, NEW i \in DOMAIN rows,
           IsStrictPrefix(rows[id].path, rows[i].path)
    PROVE  rows[i].space = rows[id].space /\ i \notin RootIDs
<1> DEFINE p == rows[id].path
           q == rows[i].path
<1>1. /\ p \in Seq(IDs) /\ q \in Seq(IDs) /\ p # <<>> /\ Last(p) = id
      /\ PathIn(rows, q, rows[i].space) /\ RowFor(rows, i, rows[i])
  BY RowFacts
<1>b. IsStrictPrefix(p, q)
  OBVIOUS
<1> HIDE DEF p, q
<1>2. Len(p) < Len(q) /\ (\A k \in 1 .. Len(p) : p[k] = q[k]) /\ Len(p) \in Nat \ {0} /\ Len(q) \in Nat
  BY <1>1, <1>b, BelowMeans
<1>3. q[Len(p)] = id /\ Len(p) \in 1 .. Len(q)
  BY <1>1, <1>2 DEF Last
<1>4. rows[i].space = rows[id].space
  BY <1>1, <1>3 DEF PathIn
<1>5. i \in RootIDs => q = <<i>>
  BY <1>1 DEF RowFor, q
<1>6. q = <<i>> => Len(q) = 1
  OBVIOUS
<1>7. i \notin RootIDs
  BY <1>2, <1>5, <1>6
<1> QED  BY <1>4, <1>7

\* MakeChildOf of a row: what may be written to it.
LEMMA MovedRow ==
    ASSUME NEW rows, TableOK(rows), NEW i \in DOMAIN rows, i \notin RootIDs,
           NEW p \in Seq(IDs), PathIn(rows, p, rows[i].space),
           NEW row \in RowType, row.space = rows[i].space,
           NEW moved, moved = [row EXCEPT !.path = Append(p, i)]
    PROVE  moved \in RowType /\ moved.path = Append(p, i) /\ RowFor(rows, i, moved)
<1>1. i \in IDs
  BY RowFacts
<1>2. /\ Append(p, i) \in Seq(IDs) /\ Append(p, i) # <<>> /\ Last(Append(p, i)) = i
      /\ Len(Append(p, i)) = Len(p) + 1 /\ Append(p, i)[Len(p) + 1] = i
      /\ \A k \in 1 .. Len(p) : Append(p, i)[k] = p[k]
  BY <1>1, ChildPath
<1>3. moved \in RowType /\ moved.path = Append(p, i) /\ moved.space = rows[i].space
  BY <1>2 DEF RowType
<1>4. Len(p) \in Nat \ {0} /\ Append(p, i)[1] = Roots[rows[i].space]
  BY <1>2 DEF PathIn
<1> DEFINE q == Append(p, i)
<1> HIDE DEF q
<1>5. ASSUME NEW k \in 1 .. Len(p) + 1
      PROVE  q[k] \in DOMAIN rows /\ rows[q[k]].space = rows[i].space
  <2>1. CASE k \in 1 .. Len(p)
    BY <1>2, <2>1 DEF PathIn, q
  <2>2. CASE k = Len(p) + 1
    BY <1>2, <2>2 DEF q
  <2> QED  BY <1>4, <2>1, <2>2
<1>6. PathIn(rows, q, rows[i].space)
  BY <1>2, <1>4, <1>5 DEF PathIn, q
<1> QED  BY <1>2, <1>3, <1>6 DEF RowFor, q


LEMMA BeginIs ==
    ASSUME IInv, NEW c \in Clients, NEW label, NEW local, Begin(c, label, local)
    PROVE  /\ StepOf(c) /\ overlap' \in BOOLEAN /\ itr' = itr /\ wi' = wi
           /\ pc'[c] = label /\ loc'[c] = local
           /\ pc[c] = "idle" /\ (overlap' = (overlap \/ \E o \in Clients \ {c} : pc[o] # "idle"))
<1>1. /\ pc[c] = "idle" /\ pc' = [pc EXCEPT ![c] = label] /\ loc' = [loc EXCEPT ![c] = local]
      /\ overlap' = (overlap \/ \E o \in Clients \ {c} : pc[o] # "idle") /\ itr' = itr /\ wi' = wi
  BY DEF Begin
<1>2. DOMAIN pc = Clients /\ DOMAIN loc = Clients
  BY DEF IInv
<1>3. StepOf(c) /\ pc'[c] = label /\ loc'[c] = local
  BY <1>1, <1>2 DEF StepOf
<1>4. overlap' \in BOOLEAN
  BY <1>1
<1> QED  BY <1>1, <1>3, <1>4

\* The child that CreateChild makes below a parent it has loaded.
ChildOf(parent, id, n) ==
    [id |-> id, row |-> MakeChildOf([itr[parent] EXCEPT !.name = n, !.state = "new"], id, itr[parent])]

LEMMA ChildFacts ==
    ASSUME IInv, NEW parent \in Live, NEW id \in IDs, NEW n \in Names
    PROVE  /\ ChildOf(parent, id, n).id = id /\ ChildOf(parent, id, n).row \in RowType
           /\ ChildOf(parent, id, n).row.path = Append(itr[parent].path, id)
           /\ ChildOf(parent, id, n).row.space = itr[parent].space
           /\ ChildOf(parent, id, n).row.state = "new" /\ ChildOf(parent, id, n).row.live
           /\ ChildOK(itr, ChildOf(parent, id, n))
<1>1. parent \in DOMAIN itr /\ itr[parent].live = TRUE
  BY DEF Live, Rows, IInv, TableOK, RowType
<1>2. itr[parent] \in RowType /\ itr[parent].path \in Seq(IDs) /\ PathIn(itr, itr[parent].path, itr[parent].space)
  BY <1>1, RowFacts DEF IInv
<1>3. Append(itr[parent].path, id) \in Seq(IDs)
  BY <1>2, ChildPath
<1> DEFINE r == ChildOf(parent, id, n).row
<1>4. /\ r \in RowType /\ r.path = Append(itr[parent].path, id)
      /\ r.space = itr[parent].space /\ r.state = "new" /\ r.live
  BY <1>1, <1>2, <1>3 DEF ChildOf, MakeChildOf, RowType
<1>5. ChildOf(parent, id, n).id = id
  BY DEF ChildOf
<1> HIDE DEF r
<1>6. ChildOK(itr, ChildOf(parent, id, n))
  BY <1>2, <1>4, <1>5 DEF ChildOK, r
<1> QED  BY <1>4, <1>5, <1>6 DEF r

LEMMA CreateBegins ==
    ASSUME IInv, NEW c \in Clients, NEW parent \in Live, NEW id \in IDs \ Rows, NEW n \in Names,
           Begin(c, "create", ChildOf(parent, id, n))
    PROVE  IInv'
<1>1. ChildOK(itr, ChildOf(parent, id, n))
  BY ChildFacts
<1>2. /\ StepOf(c) /\ overlap' \in BOOLEAN /\ itr' = itr /\ wi' = wi
      /\ pc'[c] = "create" /\ loc'[c] = ChildOf(parent, id, n)
  BY BeginIs
<1>3. RequestOK(itr, pc'[c], loc'[c])
  BY <1>1, <1>2 DEF RequestOK
<1> QED  BY <1>2, <1>3, ReadKeeps

\* Every space has its root, from which CreateUnderRoot takes the path.
LEMMA RootIsLive ==
    ASSUME IInv, NEW s \in Spaces
    PROVE  Root(s) \in Live /\ itr[Root(s)].space = s
<1>1. Roots[s] \in DOMAIN itr /\ itr[Roots[s]].space = s /\ Roots[s] \in RootIDs
  BY DEF IInv, TableOK, RootIDs
<1>2. itr[Roots[s]].path = <<Roots[s]>> /\ itr[Roots[s]].live
  BY <1>1, RowFacts DEF IInv, RowFor
<1>3. Len(<<Roots[s]>>) = 1
  OBVIOUS
<1>4. Roots[s] \in Live /\ Len(itr[Roots[s]].path) = 1
  BY <1>1, <1>2, <1>3 DEF Live, Rows
<1> QED  BY <1>1, <1>4 DEF Root

\* Requests that create an iteration.
LEMMA CreateSteps ==
    ASSUME IInv, NEW c \in Clients, CreateLoad(c) \/ CreateUnderRoot(c) \/ CreateInsert(c)
    PROVE  IInv'
<1>1. CASE CreateLoad(c)
  <2>1. PICK parent \in Live, id \in IDs \ Rows, n \in Names : Begin(c, "create", ChildOf(parent, id, n))
    BY <1>1 DEF CreateLoad, ChildOf
  <2> QED  BY <2>1, CreateBegins
<1>2. CASE CreateUnderRoot(c)
  <2>1. PICK s \in Spaces, id \in IDs \ Rows, n \in Names : Begin(c, "create", ChildOf(Root(s), id, n))
    BY <1>2 DEF CreateUnderRoot, ChildOf
  <2>2. PICK parent \in Live : parent = Root(s)
    BY RootIsLive
  <2>3. Begin(c, "create", ChildOf(parent, id, n))
    BY <2>1, <2>2
  <2> QED  BY <2>3, CreateBegins
<1>3. CASE CreateInsert(c)
  <2>1. /\ pc[c] = "create" /\ loc[c].id \notin Rows /\ Create(loc[c].id, loc[c].row) /\ End(c) /\ wi' = wi
    BY <1>3 DEF CreateInsert
  <2>2. /\ loc[c].id \notin DOMAIN itr
        /\ itr' = [i \in DOMAIN itr \cup {loc[c].id} |-> IF i = loc[c].id THEN loc[c].row ELSE itr[i]]
    BY <2>1 DEF Create, Rows
  <2>3. TableOK(itr) /\ ChildOK(itr, loc[c]) /\ ItemsOK(itr, wi)
    BY <2>1 DEF IInv, RequestOK
  <2>4. TableOK(itr') /\ TableGrows(itr, itr')
    BY <2>2, <2>3, TableInsert
  <2>5. ItemsOK(itr', wi')
    BY <2>1, <2>3, <2>4 DEF ItemsOK, TableGrows
  <2>6. StepOf(c) /\ overlap' \in BOOLEAN /\ RequestOK(itr', pc'[c], loc'[c])
    BY <2>1, EndIs
  <2> QED  BY <2>4, <2>5, <2>6, StepKeeps
<1> QED  BY <1>1, <1>2, <1>3


\* The copy as UpdateCheck changes it, and the subtree it loads.
Renamed(l) == IF l.name = None THEN l.row ELSE [l.row EXCEPT !.name = l.name]
Stated(l) == IF l.state = None THEN Renamed(l) ELSE [Renamed(l) EXCEPT !.state = l.state]
Changed(l) == IF l.parent # None THEN MakeChildOf(Stated(l), l.id, itr[l.parent]) ELSE Stated(l)
SubtreeOf(l) == IF l.parent # None THEN LoadChildren(l.id) ELSE {}

LEMMA UpdateCheckIs ==
    ASSUME NEW c \in Clients, UpdateCheck(c)
    PROVE  /\ pc[c] = "check"
           /\ loc[c].state = "start" => CanStart(loc[c].id)
           /\ loc[c].parent # None => ParentAllowed(loc[c].id, loc[c].row, loc[c].parent)
           /\ pc' = [pc EXCEPT ![c] = "save"]
           /\ loc' = [loc EXCEPT ![c] = [id |-> loc[c].id, row |-> Changed(loc[c]),
                                         subtree |-> [i \in SubtreeOf(loc[c]) |-> itr[i]]]]
           /\ itr' = itr /\ wi' = wi /\ overlap' = overlap
  BY DEF UpdateCheck, Changed, Stated, Renamed, SubtreeOf

\* A name and a state do not change to where the copy belongs.
LEMMA StatedFacts ==
    ASSUME NEW rows, NEW l, CopyOK(rows, l),
           l.name \in Names \cup {None}, l.state \in {"new", "start", "close", None}
    PROVE  /\ Stated(l) \in RowType /\ Stated(l).path = l.row.path /\ Stated(l).space = l.row.space
           /\ Stated(l).live = l.row.live /\ RowFor(rows, l.id, Stated(l))
           /\ Stated(l).state = IF l.state = None THEN l.row.state ELSE l.state
<1>1. l.row \in RowType /\ RowFor(rows, l.id, l.row)
  BY DEF CopyOK, RowFor
<1>2. /\ Renamed(l) \in RowType /\ Renamed(l).path = l.row.path /\ Renamed(l).space = l.row.space
      /\ Renamed(l).live = l.row.live /\ Renamed(l).state = l.row.state
  BY <1>1 DEF Renamed, RowType
<1>3. /\ Stated(l) \in RowType /\ Stated(l).path = l.row.path /\ Stated(l).space = l.row.space
      /\ Stated(l).live = l.row.live
      /\ Stated(l).state = IF l.state = None THEN l.row.state ELSE l.state
  BY <1>2 DEF Stated, RowType
<1>4. RowFor(rows, l.id, Stated(l))
  BY <1>1, <1>3 DEF RowFor
<1> QED  BY <1>3, <1>4

\* A new parent is one of the space, and never given to a root.
LEMMA ChangedFacts ==
    ASSUME TableOK(itr), NEW l, CopyOK(itr, l),
           l.name \in Names \cup {None}, l.state \in {"new", "start", "close", None},
           l.parent # None => ParentAllowed(l.id, l.row, l.parent)
    PROVE  /\ Changed(l) \in RowType /\ Changed(l).space = l.row.space
           /\ Changed(l).state = (IF l.state = None THEN l.row.state ELSE l.state)
           /\ Changed(l).live = l.row.live
           /\ Changed(l).path = IF l.parent # None THEN Append(itr[l.parent].path, l.id) ELSE l.row.path
           /\ RowFor(itr, l.id, Changed(l))
<1>1. /\ Stated(l) \in RowType /\ Stated(l).path = l.row.path /\ Stated(l).space = l.row.space
      /\ Stated(l).live = l.row.live /\ RowFor(itr, l.id, Stated(l))
      /\ Stated(l).state = IF l.state = None THEN l.row.state ELSE l.state
  BY StatedFacts
<1>2. l.id \in DOMAIN itr /\ RowFor(itr, l.id, l.row)
  BY DEF CopyOK
<1>3. CASE l.parent # None
  <2>1. l.parent \in DOMAIN itr /\ itr[l.parent].space = l.row.space /\ l.row.path # <<l.id>>
    BY <1>3 DEF ParentAllowed, Live, Rows
  <2>2. l.id \notin RootIDs /\ l.row.space = itr[l.id].space
    BY <1>2, <2>1 DEF RowFor
  <2>3. itr[l.parent].path \in Seq(IDs) /\ PathIn(itr, itr[l.parent].path, itr[l.id].space)
    BY <2>1, <2>2, RowFacts
  <2>4. Changed(l) = [Stated(l) EXCEPT !.path = Append(itr[l.parent].path, l.id)]
    BY <1>3 DEF Changed, MakeChildOf
  <2>5. Stated(l).space = itr[l.id].space
    BY <1>1, <2>2
  <2>6. /\ Changed(l) \in RowType /\ Changed(l).path = Append(itr[l.parent].path, l.id)
        /\ RowFor(itr, l.id, Changed(l))
    BY <1>1, <1>2, <2>2, <2>3, <2>4, <2>5, MovedRow
  <2>7. Changed(l).space = Stated(l).space /\ Changed(l).state = Stated(l).state /\ Changed(l).live = Stated(l).live
    BY <1>1, <2>4 DEF RowType
  <2> QED  BY <1>1, <1>3, <2>6, <2>7
<1>4. CASE l.parent = None
  BY <1>1, <1>4 DEF Changed
<1> QED  BY <1>3, <1>4

\* Requests that change an iteration.
LEMMA UpdateSteps ==
    ASSUME IInv, NEW c \in Clients, UpdateLoad(c) \/ UpdateCheck(c) \/ UpdateSave(c)
    PROVE  IInv'
<1> DEFINE l == loc[c]
<1>0. TableOK(itr) /\ ItemsOK(itr, wi) /\ RequestOK(itr, pc[c], l)
  BY DEF IInv
<1>1. CASE UpdateLoad(c)
  <2>1. PICK id \in Live, u \in Updates :
           Begin(c, "check", [id |-> id, row |-> itr[id], name |-> u.name, state |-> u.state, parent |-> u.parent])
    BY <1>1 DEF UpdateLoad
  <2>2. /\ StepOf(c) /\ overlap' \in BOOLEAN /\ itr' = itr /\ wi' = wi /\ pc'[c] = "check"
        /\ loc'[c] = [id |-> id, row |-> itr[id], name |-> u.name, state |-> u.state, parent |-> u.parent]
    BY <2>1, BeginIs
  <2>3. id \in DOMAIN itr /\ RowFor(itr, id, itr[id])
    BY <1>0, RowFacts DEF Live, Rows
  <2>4. u.name \in Names \cup {None} /\ u.state \in {"new", "start", "close", None}
    BY IterationsAssumption
  <2>5. RequestOK(itr, pc'[c], loc'[c])
    BY <2>2, <2>3, <2>4 DEF RequestOK, CopyOK
  <2> QED  BY <2>2, <2>5, ReadKeeps
<1>2. CASE UpdateCheck(c)
  <2>1. /\ pc[c] = "check"
        /\ l.parent # None => ParentAllowed(l.id, l.row, l.parent)
        /\ pc' = [pc EXCEPT ![c] = "save"]
        /\ loc' = [loc EXCEPT ![c] = [id |-> l.id, row |-> Changed(l), subtree |-> [i \in SubtreeOf(l) |-> itr[i]]]]
        /\ itr' = itr /\ wi' = wi /\ overlap' = overlap
    BY <1>2, UpdateCheckIs
  <2>2. CopyOK(itr, l) /\ l.name \in Names \cup {None} /\ l.state \in {"new", "start", "close", None}
    BY <1>0, <2>1 DEF RequestOK
  <2>3. StepOf(c) /\ overlap' \in BOOLEAN /\ pc'[c] = "save"
    BY <2>1 DEF IInv, StepOf
  <2>4. loc'[c] = [id |-> l.id, row |-> Changed(l), subtree |-> [i \in SubtreeOf(l) |-> itr[i]]]
    BY <2>1 DEF IInv
  <2> HIDE DEF l
  <2>a. RowFor(itr, l.id, Changed(l))
    BY <1>0, <2>1, <2>2, ChangedFacts
  <2>5. l.id \in DOMAIN itr /\ RowFor(itr, l.id, Changed(l)) /\ Changed(l).space = itr[l.id].space
    BY <2>2, <2>a DEF CopyOK, RowFor
  <2>6. ASSUME NEW i \in SubtreeOf(l)
        PROVE  i \in DOMAIN itr /\ i \notin RootIDs /\ itr[i] \in RowType /\ itr[i].space = itr[l.id].space
    <3>1. i \in DOMAIN itr /\ IsStrictPrefix(itr[l.id].path, itr[i].path)
      BY DEF SubtreeOf, LoadChildren, Live, Rows
    <3> QED  BY <1>0, <2>5, <3>1, ChildrenFacts, RowFacts
  <2>7. SubtreeOK(itr, loc'[c]) /\ CopyOK(itr, loc'[c])
    BY <2>4, <2>5, <2>6 DEF SubtreeOK, CopyOK
  <2>8. RequestOK(itr, pc'[c], loc'[c])
    BY <2>3, <2>7 DEF RequestOK
  <2> QED  BY <2>1, <2>3, <2>8, ReadKeeps
<1>3. CASE UpdateSave(c)
  <2> DEFINE f == [i \in DOMAIN l.subtree \cup {l.id} |->
                     IF i = l.id THEN l.row ELSE MakeChildOf(l.subtree[i], i, l.row)]
  <2>1. pc[c] = "save" /\ Save(f) /\ End(c) /\ wi' = wi
    BY <1>3 DEF UpdateSave
  <2>2. CopyOK(itr, l) /\ SubtreeOK(itr, l)
    BY <1>0, <2>1 DEF RequestOK
  <2>3. ASSUME NEW i \in DOMAIN f  PROVE  i \in DOMAIN itr /\ RowFor(itr, i, f[i])
    <3>1. CASE i = l.id
      BY <2>2, <3>1 DEF CopyOK
    <3>2. CASE i # l.id
      <4>1. /\ i \in DOMAIN itr /\ i \notin RootIDs /\ l.subtree[i] \in RowType
            /\ l.subtree[i].space = itr[i].space /\ l.row.space = itr[i].space
        BY <2>2, <3>2 DEF SubtreeOK
      <4>2. l.row.path \in Seq(IDs) /\ PathIn(itr, l.row.path, itr[i].space)
        BY <2>2, <4>1 DEF CopyOK, RowFor, RowType
      <4>3. f[i] = [l.subtree[i] EXCEPT !.path = Append(l.row.path, i)]
        BY <3>2 DEF MakeChildOf
      <4> QED  BY <1>0, <4>1, <4>2, <4>3, MovedRow
    <3> QED  BY <3>1, <3>2
  <2>4. itr' = [i \in DOMAIN itr |-> IF i \in DOMAIN f THEN f[i] ELSE itr[i]]
    BY <2>1 DEF Save, Rows
  <2> HIDE DEF f
  <2>5. TableOK(itr') /\ TableGrows(itr, itr') /\ DOMAIN itr' = DOMAIN itr
    BY <1>0, <2>3, <2>4, TableSave
  <2>6. ItemsOK(itr', wi')
    BY <1>0, <2>1, <2>5 DEF ItemsOK
  <2>7. StepOf(c) /\ overlap' \in BOOLEAN /\ RequestOK(itr', pc'[c], loc'[c])
    BY <2>1, EndIs
  <2> QED  BY <2>5, <2>6, <2>7, StepKeeps
<1> QED  BY <1>1, <1>2, <1>3


\* What is above an iteration that is not at the top of its path.
LEMMA ParentFacts ==
    ASSUME NEW rows, TableOK(rows), NEW id \in DOMAIN rows, rows[id].path # <<id>>
    PROVE  /\ Len(rows[id].path) \in Nat /\ Len(rows[id].path) > 1
           /\ ParentID(rows[id].path) \in DOMAIN rows /\ ParentID(rows[id].path) \in IDs
<1> DEFINE p == rows[id].path
<1>1. p \in Seq(IDs) /\ p # <<>> /\ Last(p) = id /\ PathIn(rows, p, rows[id].space) /\ p # <<id>> /\ DOMAIN rows \subseteq IDs
  BY RowFacts DEF TableOK
<1> HIDE DEF p
<1>2. Len(p) \in Nat \ {0}
  BY <1>1
<1>3. Len(p) # 1
  <2> SUFFICES ASSUME Len(p) = 1  PROVE  FALSE
    OBVIOUS
  <2>1. p[1] = id /\ <<id>> \in Seq(IDs) /\ Len(<<id>>) = 1 /\ <<id>>[1] = id
    BY <1>1 DEF Last
  <2>2. p = <<id>>
    BY <1>1, <2>1, SamePath
  <2> QED  BY <1>1, <2>2
<1>m. ASSUME NEW n \in Nat \ {0}, n # 1  PROVE  n > 1 /\ n - 1 \in 1 .. n
  BY <1>m
<1>4. Len(p) > 1 /\ Len(p) - 1 \in 1 .. Len(p) /\ ParentID(p) = p[Len(p) - 1]
  BY <1>2, <1>3, <1>m DEF ParentID
<1>5. ParentID(p) \in DOMAIN rows
  BY <1>1, <1>4 DEF PathIn
<1> QED  BY <1>1, <1>2, <1>4, <1>5 DEF p

\* Requests that delete an iteration with what is below it.
LEMMA DeleteSteps ==
    ASSUME IInv, NEW c \in Clients, DeleteLoad(c) \/ DeleteApply(c)
    PROVE  IInv'
<1> DEFINE l == loc[c]
<1>0. TableOK(itr) /\ ItemsOK(itr, wi) /\ RequestOK(itr, pc[c], l)
  BY DEF IInv
<1>1. CASE DeleteLoad(c)
  <2>1. PICK id \in Live :
           /\ ~IsRoot(id) /\ ParentID(itr[id].path) \in Live
           /\ Begin(c, "delete", [id |-> id, subtree |-> LoadChildren(id) \cup {id},
                                  parent |-> ParentID(itr[id].path)])
    BY <1>1 DEF DeleteLoad
  <2>2. /\ StepOf(c) /\ overlap' \in BOOLEAN /\ itr' = itr /\ wi' = wi /\ pc'[c] = "delete"
        /\ loc'[c] = [id |-> id, subtree |-> LoadChildren(id) \cup {id}, parent |-> ParentID(itr[id].path)]
    BY <2>1, BeginIs
  <2>3. id \in DOMAIN itr /\ itr[id].path # <<id>>
    BY <2>1 DEF Live, Rows, IsRoot
  <2>4. id \notin RootIDs
    BY <1>0, <2>3, RowFacts DEF RowFor
  <2>5. \A i \in LoadChildren(id) : i \in DOMAIN itr /\ i \notin RootIDs
    BY <1>0, <2>3, ChildrenFacts DEF LoadChildren, Live, Rows
  <2>6. RequestOK(itr, pc'[c], loc'[c])
    BY <2>1, <2>2, <2>3, <2>4, <2>5 DEF RequestOK, Live, Rows
  <2> QED  BY <2>2, <2>6, ReadKeeps
<1>2. CASE DeleteApply(c)
  <2>1. /\ pc[c] = "delete" /\ Delete(l.subtree) /\ End(c)
        /\ wi' = [i \in Items |->
                    IF \E d \in l.subtree : i \in LoadByIteration(d)
                       THEN [wi[i] EXCEPT !.iteration = l.parent, !.version = @ + 1] ELSE wi[i]]
    BY <1>2 DEF DeleteApply
  <2>2. l.subtree \subseteq DOMAIN itr \ RootIDs /\ l.parent \in DOMAIN itr
    BY <1>0, <2>1 DEF RequestOK
  <2>3. itr' = [i \in DOMAIN itr |-> IF i \in l.subtree THEN [itr[i] EXCEPT !.live = FALSE] ELSE itr[i]]
    BY <2>1 DEF Delete, Rows
  <2>4. TableOK(itr') /\ TableGrows(itr, itr') /\ DOMAIN itr' = DOMAIN itr
    BY <1>0, <2>2, <2>3, TableDelete
  <2>5. ItemsOK(itr', wi')
    <3>1. \A i \in Items : wi[i] \in [iteration : DOMAIN itr, version : Nat, live : BOOLEAN]
      BY <1>0 DEF ItemsOK
    <3>2. ASSUME NEW i \in Items
          PROVE  wi'[i] \in [iteration : DOMAIN itr, version : Nat, live : BOOLEAN]
      <4>1. \/ wi'[i] = wi[i]
            \/ wi'[i] = [wi[i] EXCEPT !.iteration = l.parent, !.version = @ + 1]
        BY <2>1
      <4>2. /\ wi[i] \in [iteration : DOMAIN itr, version : Nat, live : BOOLEAN]
            /\ wi[i].version + 1 \in Nat /\ l.parent \in DOMAIN itr
        BY <2>2, <3>1
      <4> HIDE DEF l
      <4>3. CASE wi'[i] = wi[i]
        BY <4>2, <4>3
      <4>4. CASE wi'[i] = [wi[i] EXCEPT !.iteration = l.parent, !.version = @ + 1]
        BY <4>2, <4>4
      <4> QED  BY <4>1, <4>3, <4>4
    <3> QED  BY <2>1, <2>4, <3>2 DEF ItemsOK
  <2>6. StepOf(c) /\ overlap' \in BOOLEAN /\ RequestOK(itr', pc'[c], loc'[c])
    BY <2>1, EndIs
  <2> QED  BY <2>4, <2>5, <2>6, StepKeeps
<1> QED  BY <1>1, <1>2

\* Requests that assign a work item, and those that fail.
LEMMA OtherSteps ==
    ASSUME IInv, NEW c \in Clients, AssignCheck(c) \/ AssignSave(c) \/ Refuse(c)
    PROVE  IInv'
<1> DEFINE l == loc[c]
<1>0. TableOK(itr) /\ ItemsOK(itr, wi) /\ RequestOK(itr, pc[c], l)
  BY DEF IInv
<1>1. CASE AssignCheck(c)
  <2>1. PICK i \in Items, id \in Live :
           Begin(c, "assign", [item |-> i, iteration |-> id, version |-> wi[i].version])
    BY <1>1 DEF AssignCheck
  <2>2. /\ StepOf(c) /\ overlap' \in BOOLEAN /\ itr' = itr /\ wi' = wi /\ pc'[c] = "assign"
        /\ loc'[c] = [item |-> i, iteration |-> id, version |-> wi[i].version]
    BY <2>1, BeginIs
  <2>3. wi[i].version \in Nat /\ id \in DOMAIN itr
    BY <1>0 DEF ItemsOK, Live, Rows
  <2>4. RequestOK(itr, pc'[c], loc'[c])
    BY <2>2, <2>3 DEF RequestOK
  <2> QED  BY <2>2, <2>4, ReadKeeps
<1>2. CASE AssignSave(c)
  <2>1. /\ pc[c] = "assign" /\ End(c) /\ itr' = itr
        /\ wi' = [wi EXCEPT ![l.item] = [iteration |-> l.iteration, version |-> l.version + 1, live |-> TRUE]]
    BY <1>2 DEF AssignSave
  <2>2. l.item \in Items /\ l.iteration \in DOMAIN itr /\ l.version \in Nat
    BY <1>0, <2>1 DEF RequestOK
  <2> HIDE DEF l
  <2>3. ItemsOK(itr', wi')
    BY <1>0, <2>1, <2>2 DEF ItemsOK
  <2>4. TableOK(itr') /\ TableGrows(itr, itr')
    BY <1>0, <2>1 DEF TableGrows
  <2>5. StepOf(c) /\ overlap' \in BOOLEAN /\ RequestOK(itr', pc'[c], loc'[c])
    BY <2>1, EndIs
  <2> QED  BY <2>3, <2>4, <2>5, StepKeeps
<1>3. CASE Refuse(c)
  <2>1. End(c) /\ itr' = itr /\ wi' = wi
    BY <1>3 DEF Refuse
  <2>2. StepOf(c) /\ overlap' \in BOOLEAN /\ RequestOK(itr, pc'[c], loc'[c])
    BY <2>1, EndIs
  <2> QED  BY <2>1, <2>2, ReadKeeps
<1> QED  BY <1>1, <1>2, <1>3

LEMMA IInvStep == IInv /\ [Next]_vars => IInv'
<1> SUFFICES ASSUME IInv, [Next]_vars  PROVE  IInv'
  OBVIOUS
<1>1. CASE \E c \in Clients : \/ CreateLoad(c) \/ CreateUnderRoot(c) \/ CreateInsert(c)
                              \/ UpdateLoad(c) \/ UpdateCheck(c) \/ UpdateSave(c)
                              \/ DeleteLoad(c) \/ DeleteApply(c) \/ AssignCheck(c) \/ AssignSave(c) \/ Refuse(c)
  BY <1>1, CreateSteps, UpdateSteps, DeleteSteps, OtherSteps
<1>2. CASE DeleteWorkItem
  <2>1. PICK i \in Items : wi' = [wi EXCEPT ![i].live = FALSE]
    BY <1>2 DEF DeleteWorkItem
  <2>2. itr' = itr /\ pc' = pc /\ loc' = loc /\ overlap' = overlap
    BY <1>2 DEF DeleteWorkItem
  <2>3. ItemsOK(itr', wi')
    BY <2>1, <2>2 DEF ItemsOK, IInv
  <2> QED  BY <2>2, <2>3 DEF IInv
<1>3. CASE UNCHANGED vars
  BY <1>3 DEF IInv, vars
<1> QED  BY <1>1, <1>2, <1>3 DEF Next

-------------------------------------------------------------------------------

\* Whatever requests overlap, a path begins at the root of the space its iteration
\* belongs to and never leaves that space, although paths are made from copies of
\* parents that are moved or deleted before the path is written.
THEOREM IterationPathsAreSound == Spec => []PathsAreSound
<1>1. Spec => []IInv
  BY IInvInit, IInvStep, PTL DEF Spec
<1> QED  BY <1>1, IInvSound, PTL

\* No request brings a deleted iteration back, not even one that had loaded it while
\* it was live and saves all its columns.
THEOREM DeletedIterationsStayDeleted == Spec => DeletedStaysDeleted
<1>1. IInv /\ [Next]_vars => [\A i \in Rows : ~itr[i].live => ~itr'[i].live]_vars
  <2> SUFFICES ASSUME IInv, [Next]_vars, NEW i \in Rows, ~itr[i].live  PROVE  ~itr'[i].live
    OBVIOUS
  <2>1. i \in DOMAIN itr /\ i \notin Live
    BY DEF Rows, Live
  <2>4. ASSUME NEW c \in Clients, CreateInsert(c)  PROVE  ~itr'[i].live
    BY <2>1, <2>4 DEF CreateInsert, Create, Rows
  <2>5. ASSUME NEW c \in Clients, UpdateSave(c)  PROVE  ~itr'[i].live
    BY <2>1, <2>5 DEF UpdateSave, Save, Rows
  <2>6. ASSUME NEW c \in Clients, DeleteApply(c)  PROVE  ~itr'[i].live
    BY <2>1, <2>6 DEF DeleteApply, Delete, Rows
  <2>7. ASSUME NEW c \in Clients, CreateLoad(c) \/ CreateUnderRoot(c) \/ UpdateLoad(c) \/ DeleteLoad(c) \/ AssignCheck(c)
        PROVE  itr' = itr
    BY <2>7 DEF CreateLoad, CreateUnderRoot, UpdateLoad, DeleteLoad, AssignCheck, Begin
  <2>8. ASSUME NEW c \in Clients, UpdateCheck(c) \/ AssignSave(c) \/ Refuse(c)  PROVE  itr' = itr
    BY <2>8 DEF UpdateCheck, AssignSave, Refuse
  <2>9. DeleteWorkItem \/ UNCHANGED vars => itr' = itr
    BY DEF DeleteWorkItem, vars
  <2> QED  BY <2>4, <2>5, <2>6, <2>7, <2>8, <2>9 DEF Next
<1>2. Spec => []IInv
  BY IInvInit, IInvStep, PTL DEF Spec
<1> QED  BY <1>1, <1>2, PTL DEF Spec, DeletedStaysDeleted


-------------------------------------------------------------------------------
(* As long as requests do not overlap.  The inductive invariant adds that  *)
(* at most one request is under way, and that what it has read is still so. *)

LiveIn(rows) == {i \in DOMAIN rows : rows[i].live}
BelowIn(rows, id) == {i \in LiveIn(rows) : IsStrictPrefix(rows[id].path, rows[i].path)}

TreeOK(rows) ==
    \A i \in LiveIn(rows) : rows[i].path # <<i>> =>
        /\ ParentID(rows[i].path) \in LiveIn(rows)
        /\ rows[ParentID(rows[i].path)].path = ParentPath(rows[i].path)

OneRuns(rows) ==
    \A i, j \in LiveIn(rows) :
        rows[i].state = "start" /\ rows[j].state = "start" /\ rows[i].space = rows[j].space => i = j

PlacesOK(rows, items) == \A i \in Items : items[i].live => items[i].iteration \in LiveIn(rows)

\* The copy of an update: nothing else runs if it is to, and it stays in its place
\* or is going below an iteration that is outside of its subtree.
FreshCopy(rows, l) ==
    /\ l.id \in LiveIn(rows) /\ l.row.live /\ l.row.space = rows[l.id].space
    /\ l.row.state = "start" =>
         \A j \in LiveIn(rows) \ {l.id} : rows[j].space = l.row.space => rows[j].state # "start"
    /\ \A i \in DOMAIN l.subtree : l.subtree[i] = rows[i]
    /\ \/ l.row.path = rows[l.id].path /\ DOMAIN l.subtree = {}
       \/ /\ DOMAIN l.subtree = BelowIn(rows, l.id)
          /\ \E p \in LiveIn(rows) \ (BelowIn(rows, l.id) \cup {l.id}) :
                l.row.path = Append(rows[p].path, l.id)

Fresh(rows, label, l) ==
    /\ label = "create" => /\ l.row.state = "new"
                           /\ \E p \in LiveIn(rows) : l.row.path = Append(rows[p].path, l.id)
    /\ label = "check" => l.id \in LiveIn(rows) /\ l.row = rows[l.id]
    /\ label = "save" => FreshCopy(rows, l)
    /\ label = "delete" => \E id \in LiveIn(rows) :
                              /\ l.subtree = BelowIn(rows, id) \cup {id} /\ rows[id].path # <<id>>
                              /\ l.parent = ParentID(rows[id].path)
    /\ label = "assign" => l.iteration \in LiveIn(rows)

SInv ==
    ~overlap =>
        /\ TreeOK(itr) /\ OneRuns(itr) /\ PlacesOK(itr, wi)
        /\ \A c, d \in Clients : pc[c] # "idle" /\ pc[d] # "idle" => c = d
        /\ \A c \in Clients : Fresh(itr, pc[c], loc[c])


\* With a tree, whoever has a parent in a subtree is below its root.
LEMMA TreeClosed ==
    ASSUME NEW rows, TableOK(rows), TreeOK(rows), NEW id \in DOMAIN rows,
           NEW j \in LiveIn(rows), rows[j].path # <<j>>,
           ParentID(rows[j].path) \in BelowIn(rows, id) \cup {id}
    PROVE  j \in BelowIn(rows, id)
<1> DEFINE q == ParentID(rows[j].path)
<1>1. rows[q].path = ParentPath(rows[j].path)
  BY DEF TreeOK
<1>2. rows[id].path \in Seq(IDs) /\ rows[j].path \in Seq(IDs) /\ rows[j].path # <<>>
  BY RowFacts DEF LiveIn
<1>3. q = id \/ IsStrictPrefix(rows[id].path, rows[q].path)
  BY DEF BelowIn
<1>4. rows[id].path = ParentPath(rows[j].path) \/ IsStrictPrefix(rows[id].path, ParentPath(rows[j].path))
  BY <1>1, <1>3
<1>5. IsStrictPrefix(rows[id].path, rows[j].path)
  BY <1>2, <1>4, BelowParent
<1> QED  BY <1>5 DEF BelowIn

\* The parent of an iteration is not in its subtree.
LEMMA ParentOutside ==
    ASSUME NEW rows, TableOK(rows), TreeOK(rows), NEW id \in LiveIn(rows), rows[id].path # <<id>>
    PROVE  ParentID(rows[id].path) \in LiveIn(rows) \ (BelowIn(rows, id) \cup {id})
<1> DEFINE q == ParentID(rows[id].path)
           p == rows[id].path
           pq == rows[q].path
<1>1. q \in LiveIn(rows) /\ pq = ParentPath(p)
  BY DEF TreeOK
<1>2. p \in Seq(IDs) /\ p # <<>> /\ pq \in Seq(IDs)
  BY <1>1, RowFacts DEF LiveIn
<1>3. Len(pq) = Len(p) - 1 /\ Len(p) \in Nat
  BY <1>1, <1>2, FrontPath
<1>4. q = id => pq = p
  OBVIOUS
<1>5. q \in BelowIn(rows, id) => IsStrictPrefix(p, pq)
  BY DEF BelowIn
<1>6. IsStrictPrefix(p, pq) => Len(p) < Len(pq)
  BY <1>2, BelowMeans
<1> HIDE DEF p, pq, q
<1>7. ~IsStrictPrefix(p, pq) /\ pq # p
  BY <1>3, <1>6
<1> QED  BY <1>1, <1>4, <1>5, <1>7 DEF q

\* The subtree of an iteration is deleted.
SubtreeDeleted(old, id, new) ==
    LET ids == BelowIn(old, id) \cup {id}
    IN  new = [i \in DOMAIN old |-> IF i \in ids THEN [old[i] EXCEPT !.live = FALSE] ELSE old[i]]

\* Deleting a subtree leaves a tree, and the items that move to the parent a place in it.
LEMMA TreeDelete ==
    ASSUME NEW old, TableOK(old), TreeOK(old), NEW id \in LiveIn(old), old[id].path # <<id>>,
           NEW new, SubtreeDeleted(old, id, new)
    PROVE  /\ TreeOK(new) /\ (OneRuns(old) => OneRuns(new))
           /\ LiveIn(new) = LiveIn(old) \ (BelowIn(old, id) \cup {id})
           /\ ParentID(old[id].path) \in LiveIn(new)
<1> DEFINE ids == BelowIn(old, id) \cup {id}
<1>1. \A i \in DOMAIN old : old[i] \in RowType
  BY DEF TableOK
<1>2. ids \subseteq DOMAIN old /\ id \in DOMAIN old
  BY DEF BelowIn, LiveIn
<1>3. DOMAIN new = DOMAIN old /\ \A i \in DOMAIN old : (i \in ids => ~new[i].live) /\ (i \notin ids => new[i] = old[i])
  BY <1>1, <1>2 DEF RowType, SubtreeDeleted
<1>4. LiveIn(new) = LiveIn(old) \ ids
  BY <1>3 DEF LiveIn
<1>5. \A i \in LiveIn(new) : new[i] = old[i] /\ i \in LiveIn(old) /\ i \notin ids
  BY <1>3, <1>4 DEF LiveIn
<1>6. ParentID(old[id].path) \in LiveIn(new)
  BY <1>4, ParentOutside
<1>7. ASSUME NEW j \in LiveIn(new), new[j].path # <<j>>
      PROVE  ParentID(new[j].path) \in LiveIn(new) /\ new[ParentID(new[j].path)].path = ParentPath(new[j].path)
  <2> DEFINE q == ParentID(old[j].path)
  <2>1. j \in LiveIn(old) /\ new[j] = old[j] /\ j \notin ids /\ old[j].path # <<j>>
    BY <1>5, <1>7
  <2>2. q \in LiveIn(old) /\ old[q].path = ParentPath(old[j].path)
    BY <2>1 DEF TreeOK
  <2>3. q \notin ids
    BY <1>2, <2>1, TreeClosed
  <2>4. q \in LiveIn(new) /\ new[q] = old[q]
    BY <1>4, <1>5, <2>2, <2>3
  <2> QED  BY <2>1, <2>2, <2>4
<1>8. TreeOK(new)
  BY <1>7 DEF TreeOK
<1>9. OneRuns(old) => OneRuns(new)
  <2> SUFFICES ASSUME OneRuns(old), NEW i \in LiveIn(new), NEW j \in LiveIn(new),
                      new[i].state = "start", new[j].state = "start", new[i].space = new[j].space
               PROVE  i = j
    BY DEF OneRuns
  <2>1. i \in LiveIn(old) /\ new[i] = old[i] /\ j \in LiveIn(old) /\ new[j] = old[j]
    BY <1>5
  <2> QED  BY <2>1 DEF OneRuns
<1> QED  BY <1>4, <1>6, <1>8, <1>9

\* A new iteration below a live one.
LEMMA TreeInsert ==
    ASSUME NEW old, TableOK(old), TreeOK(old), NEW id \in IDs \ DOMAIN old, NEW row, NEW p \in LiveIn(old),
           row.path = Append(old[p].path, id), row.state = "new",
           NEW new, new = [i \in DOMAIN old \cup {id} |-> IF i = id THEN row ELSE old[i]]
    PROVE  TreeOK(new) /\ LiveIn(old) \subseteq LiveIn(new) /\ (OneRuns(old) => OneRuns(new))
<1>1. DOMAIN new = DOMAIN old \cup {id} /\ new[id] = row /\ \A i \in DOMAIN old : new[i] = old[i] /\ i # id
  OBVIOUS
<1>2. LiveIn(old) \subseteq LiveIn(new) /\ LiveIn(new) \subseteq LiveIn(old) \cup {id}
  BY <1>1 DEF LiveIn
<1>3. p \in DOMAIN old /\ old[p].path \in Seq(IDs) /\ old[p].path # <<>> /\ Last(old[p].path) = p
  BY RowFacts DEF LiveIn
<1>4. ParentPath(row.path) = old[p].path /\ ParentID(row.path) = p
  BY <1>3, FrontOfChild
<1>5. ASSUME NEW j \in LiveIn(new), new[j].path # <<j>>
      PROVE  ParentID(new[j].path) \in LiveIn(new) /\ new[ParentID(new[j].path)].path = ParentPath(new[j].path)
  <2>1. CASE j = id
    BY <1>1, <1>2, <1>3, <1>4, <2>1
  <2>2. CASE j # id
    <3>1. j \in LiveIn(old) /\ new[j] = old[j] /\ old[j].path # <<j>>
      BY <1>1, <1>2, <1>5, <2>2 DEF LiveIn
    <3>2. ParentID(old[j].path) \in LiveIn(old) /\ old[ParentID(old[j].path)].path = ParentPath(old[j].path)
      BY <3>1 DEF TreeOK
    <3> QED  BY <1>1, <1>2, <3>1, <3>2 DEF LiveIn
  <2> QED  BY <2>1, <2>2
<1>6. TreeOK(new)
  BY <1>5 DEF TreeOK
<1>7. \A i \in LiveIn(new) : new[i].state = "start" => i \in LiveIn(old) /\ new[i] = old[i]
  BY <1>1, <1>2 DEF LiveIn
<1>8. OneRuns(old) => OneRuns(new)
  <2> SUFFICES ASSUME OneRuns(old), NEW i \in LiveIn(new), NEW j \in LiveIn(new),
                      new[i].state = "start", new[j].state = "start", new[i].space = new[j].space
               PROVE  i = j
    BY DEF OneRuns
  <2>1. i \in LiveIn(old) /\ new[i] = old[i] /\ j \in LiveIn(old) /\ new[j] = old[j]
    BY <1>7
  <2> QED  BY <2>1 DEF OneRuns
<1> QED  BY <1>2, <1>6, <1>8


\* An update saves its copy and the subtree below it.
LEMMA TreeSave ==
    ASSUME NEW old, TableOK(old), TreeOK(old), OneRuns(old), NEW l, FreshCopy(old, l),
           l.id \in DOMAIN old, l.row \in RowType, Last(l.row.path) = l.id,
           NEW f, f = [i \in DOMAIN l.subtree \cup {l.id} |->
                         IF i = l.id THEN l.row ELSE MakeChildOf(l.subtree[i], i, l.row)],
           NEW new, new = [i \in DOMAIN old |-> IF i \in DOMAIN f THEN f[i] ELSE old[i]]
    PROVE  TreeOK(new) /\ OneRuns(new) /\ LiveIn(new) = LiveIn(old)
<1> DEFINE id == l.id
           B == DOMAIN l.subtree
<1>1. id \in LiveIn(old) /\ l.row.live /\ l.row.space = old[id].space /\ \A i \in B : l.subtree[i] = old[i]
  BY DEF FreshCopy
<1>2. B \subseteq LiveIn(old)
  BY DEF FreshCopy, BelowIn
<1>3. \A i \in DOMAIN old : old[i] \in RowType
  BY DEF TableOK
<1>4. /\ DOMAIN new = DOMAIN old /\ new[id] = l.row
      /\ \A i \in DOMAIN old \ (B \cup {id}) : new[i] = old[i]
  BY <1>1, <1>2
<1>5. ASSUME NEW i \in B, i # id
      PROVE  /\ new[i].path = Append(l.row.path, i) /\ new[i].state = old[i].state
             /\ new[i].space = old[i].space /\ new[i].live = old[i].live
  <2>1. i \in DOMAIN old /\ old[i] \in RowType /\ l.subtree[i] = old[i] /\ i \in DOMAIN f
    BY <1>1, <1>2, <1>3 DEF LiveIn
  <2>2. new[i] = [old[i] EXCEPT !.path = Append(l.row.path, i)]
    BY <1>5, <2>1 DEF MakeChildOf
  <2> QED  BY <2>1, <2>2 DEF RowType
<1>6. \A i \in DOMAIN old : i # id => new[i].state = old[i].state /\ new[i].space = old[i].space /\ new[i].live = old[i].live
  BY <1>4, <1>5
<1>7. LiveIn(new) = LiveIn(old)
  BY <1>1, <1>4, <1>6 DEF LiveIn
<1>8. OneRuns(new)
  <2> SUFFICES ASSUME NEW i \in LiveIn(new), NEW j \in LiveIn(new), i # j,
                      new[i].state = "start", new[j].state = "start", new[i].space = new[j].space
               PROVE  FALSE
    BY DEF OneRuns
  <2>1. i \in LiveIn(old) /\ j \in LiveIn(old) /\ i \in DOMAIN old /\ j \in DOMAIN old
    BY <1>7 DEF LiveIn
  <2>2. CASE i # id /\ j # id
    <3>1. old[i].state = "start" /\ old[j].state = "start" /\ old[i].space = old[j].space
      BY <1>6, <2>1, <2>2
    <3> QED  BY <2>1, <3>1 DEF OneRuns
  <2>3. CASE i = id
    <3>1. l.row.state = "start" /\ old[j].space = l.row.space /\ old[j].state = "start" /\ j \in LiveIn(old) \ {id}
      BY <1>4, <1>6, <2>1, <2>3
    <3> QED  BY <3>1 DEF FreshCopy
  <2>4. CASE j = id
    <3>1. l.row.state = "start" /\ old[i].space = l.row.space /\ old[i].state = "start" /\ i \in LiveIn(old) \ {id}
      BY <1>4, <1>6, <2>1, <2>4
    <3> QED  BY <3>1 DEF FreshCopy
  <2> QED  BY <2>2, <2>3, <2>4
<1>9. TreeOK(new)
  <2>1. CASE l.row.path = old[id].path /\ B = {}
    <3>1. \A i \in DOMAIN old : new[i].path = old[i].path
      BY <1>4, <2>1
    <3>2. LiveIn(old) \subseteq DOMAIN old
      BY DEF LiveIn
    <3> SUFFICES ASSUME NEW j \in LiveIn(new), new[j].path # <<j>>
                 PROVE  /\ ParentID(new[j].path) \in LiveIn(new)
                        /\ new[ParentID(new[j].path)].path = ParentPath(new[j].path)
      BY DEF TreeOK
    <3> DEFINE q == ParentID(old[j].path)
    <3>3. j \in LiveIn(old) /\ new[j].path = old[j].path /\ old[j].path # <<j>>
      BY <1>7, <3>1, <3>2
    <3>4. q \in LiveIn(old) /\ old[q].path = ParentPath(old[j].path)
      BY <3>3 DEF TreeOK
    <3>5. new[q].path = old[q].path
      BY <3>1, <3>2, <3>4
    <3> QED  BY <1>7, <3>3, <3>4, <3>5
  <2>2. ASSUME B = BelowIn(old, id),
               NEW p \in LiveIn(old) \ (B \cup {id}), l.row.path = Append(old[p].path, id)
        PROVE  TreeOK(new)
    <3>1. p \in DOMAIN old /\ old[p].path \in Seq(IDs) /\ old[p].path # <<>> /\ Last(old[p].path) = p /\ id \in IDs
      BY RowFacts, <1>1 DEF LiveIn
    <3>2. ParentPath(l.row.path) = old[p].path /\ ParentID(l.row.path) = p
      BY <2>2, <3>1, FrontOfChild
    <3>3. new[p] = old[p] /\ p \in LiveIn(new)
      BY <1>4, <1>7, <3>1
    <3>4. l.row.path \in Seq(IDs) /\ l.row.path # <<>>
      BY <2>2, <3>1, ChildPath
    <3> SUFFICES ASSUME NEW j \in LiveIn(new), new[j].path # <<j>>
                 PROVE  /\ ParentID(new[j].path) \in LiveIn(new)
                        /\ new[ParentID(new[j].path)].path = ParentPath(new[j].path)
      BY DEF TreeOK
    <3>5. j \in LiveIn(old) /\ j \in DOMAIN old /\ j \in IDs
      BY <1>7, RowFacts DEF LiveIn
    <3>6. CASE j = id
      BY <1>4, <3>2, <3>3, <3>6
    <3>7. CASE j \in B /\ j # id
      <4>1. new[j].path = Append(l.row.path, j)
        BY <1>5, <3>7
      <4>a. ParentPath(Append(l.row.path, j)) = l.row.path /\ ParentID(Append(l.row.path, j)) = Last(l.row.path)
        BY <3>4, <3>5, FrontOfChild
      <4>2. ParentPath(new[j].path) = l.row.path /\ ParentID(new[j].path) = id
        BY <4>1, <4>a
      <4> QED  BY <1>1, <1>4, <1>7, <4>2
    <3>8. CASE j \notin B /\ j # id
      <4> DEFINE q == ParentID(old[j].path)
      <4>1. new[j] = old[j] /\ old[j].path # <<j>>
        BY <1>4, <3>5, <3>8
      <4>2. q \in LiveIn(old) /\ old[q].path = ParentPath(old[j].path)
        BY <3>5, <4>1 DEF TreeOK
      <4>3. q \notin B \cup {id}
        BY <2>2, <3>5, <3>8, <4>1, TreeClosed
      <4>4. q \in DOMAIN old /\ new[q] = old[q]
        BY <1>4, <4>2, <4>3 DEF LiveIn
      <4> QED  BY <1>7, <4>1, <4>2, <4>4
    <3> QED  BY <3>6, <3>7, <3>8
  <2> QED  BY <2>1, <2>2 DEF FreshCopy
<1> QED  BY <1>7, <1>8, <1>9


LEMMA SInvInit == Init => SInv
<1> SUFFICES ASSUME Init  PROVE  SInv
  OBVIOUS
<1>1. \A i \in DOMAIN itr : itr[i].path = <<i>> /\ itr[i].state = "new" /\ itr[i].live
  BY DEF Init
<1>2. TreeOK(itr)
  BY <1>1 DEF TreeOK, LiveIn
<1>3. OneRuns(itr)
  BY <1>1 DEF OneRuns, LiveIn
<1>4. \A i \in Items : Roots[Home[i]] \in LiveIn(itr)
  BY IterationsAssumption DEF Init, LiveIn
<1>5. PlacesOK(itr, wi)
  BY <1>4 DEF Init, PlacesOK
<1>6. \A c \in Clients : pc[c] = "idle" /\ Fresh(itr, pc[c], loc[c])
  BY DEF Init, Fresh
<1> QED  BY <1>2, <1>3, <1>5, <1>6 DEF SInv

\* A request begins: either another one is under way, or what it reads is fresh.
LEMMA SerialBegin ==
    ASSUME SInv, NEW c \in Clients, StepOf(c), itr' = itr, wi' = wi,
           overlap' = (overlap \/ \E o \in Clients \ {c} : pc[o] # "idle"),
           Fresh(itr, pc'[c], loc'[c])
    PROVE  SInv'
<1> SUFFICES ASSUME ~overlap'
             PROVE  /\ TreeOK(itr') /\ OneRuns(itr') /\ PlacesOK(itr', wi')
                    /\ \A a, b \in Clients : pc'[a] # "idle" /\ pc'[b] # "idle" => a = b
                    /\ \A a \in Clients : Fresh(itr', pc'[a], loc'[a])
  BY DEF SInv
<1>1. ~overlap /\ \A o \in Clients \ {c} : pc[o] = "idle"
  OBVIOUS
<1>2. TreeOK(itr') /\ OneRuns(itr') /\ PlacesOK(itr', wi')
  BY <1>1 DEF SInv
<1>3. \A o \in Clients \ {c} : pc'[o] = "idle"
  BY <1>1 DEF StepOf
<1>4. \A a \in Clients : Fresh(itr', pc'[a], loc'[a])
  BY <1>3 DEF Fresh
<1> QED  BY <1>2, <1>3, <1>4

\* A request ends: nobody else was under way.
LEMMA SerialEnd ==
    ASSUME SInv, NEW c \in Clients, StepOf(c), pc[c] # "idle", pc'[c] = "idle", overlap' = overlap,
           ~overlap => TreeOK(itr') /\ OneRuns(itr') /\ PlacesOK(itr', wi')
    PROVE  SInv'
<1> SUFFICES ASSUME ~overlap'
             PROVE  /\ TreeOK(itr') /\ OneRuns(itr') /\ PlacesOK(itr', wi')
                    /\ \A a, b \in Clients : pc'[a] # "idle" /\ pc'[b] # "idle" => a = b
                    /\ \A a \in Clients : Fresh(itr', pc'[a], loc'[a])
  BY DEF SInv
<1>1. \A o \in Clients \ {c} : pc[o] = "idle"
  BY DEF SInv
<1>2. \A o \in Clients : pc'[o] = "idle"
  BY <1>1 DEF StepOf
<1>3. \A a \in Clients : Fresh(itr', pc'[a], loc'[a])
  BY <1>2 DEF Fresh
<1> QED  BY <1>2, <1>3

LEMMA LiveIs ==
    Live = LiveIn(itr) /\ \A id \in Live : LoadChildren(id) = BelowIn(itr, id)
  BY DEF Live, Rows, LiveIn, LoadChildren, BelowIn

\* Requests that create an iteration.
LEMMA SerialCreate ==
    ASSUME IInv, SInv, NEW c \in Clients, CreateLoad(c) \/ CreateUnderRoot(c) \/ CreateInsert(c)
    PROVE  SInv'
<1>1. ASSUME NEW parent \in Live, NEW id \in IDs \ Rows, NEW n \in Names,
             Begin(c, "create", ChildOf(parent, id, n))
      PROVE  SInv'
  <2>1. /\ StepOf(c) /\ itr' = itr /\ wi' = wi /\ pc'[c] = "create" /\ loc'[c] = ChildOf(parent, id, n)
        /\ overlap' = (overlap \/ \E o \in Clients \ {c} : pc[o] # "idle")
    BY <1>1, BeginIs
  <2>2. /\ loc'[c].row.state = "new" /\ loc'[c].row.path = Append(itr[parent].path, loc'[c].id)
    BY <2>1, ChildFacts
  <2>3. Fresh(itr, pc'[c], loc'[c])
    BY <2>1, <2>2, LiveIs DEF Fresh
  <2> QED  BY <2>1, <2>3, SerialBegin
<1>2. CASE CreateLoad(c)
  <2>1. PICK parent \in Live, id \in IDs \ Rows, n \in Names : Begin(c, "create", ChildOf(parent, id, n))
    BY <1>2 DEF CreateLoad, ChildOf
  <2> QED  BY <1>1, <2>1
<1>3. CASE CreateUnderRoot(c)
  <2>1. PICK s \in Spaces, id \in IDs \ Rows, n \in Names : Begin(c, "create", ChildOf(Root(s), id, n))
    BY <1>3 DEF CreateUnderRoot, ChildOf
  <2>2. PICK parent \in Live : parent = Root(s)
    BY RootIsLive
  <2>3. Begin(c, "create", ChildOf(parent, id, n))
    BY <2>1, <2>2
  <2> QED  BY <1>1, <2>3
<1>4. CASE CreateInsert(c)
  <2>1. pc[c] = "create" /\ Create(loc[c].id, loc[c].row) /\ loc[c].id \notin Rows /\ End(c) /\ wi' = wi
    BY <1>4 DEF CreateInsert
  <2>2. StepOf(c) /\ overlap' = overlap /\ pc'[c] = "idle"
    BY <2>1, EndIs
  <2>3. ASSUME ~overlap  PROVE  TreeOK(itr') /\ OneRuns(itr') /\ PlacesOK(itr', wi')
    <3>1. TableOK(itr) /\ TreeOK(itr) /\ OneRuns(itr) /\ PlacesOK(itr, wi)
      BY <2>3 DEF IInv, SInv
    <3> DEFINE id == loc[c].id
               row == loc[c].row
    <3>2. PICK p \in LiveIn(itr) : row.path = Append(itr[p].path, id)
      BY <2>1, <2>3 DEF SInv, Fresh
    <3>3. row.state = "new"
      BY <2>1, <2>3 DEF SInv, Fresh
    <3>4. id \in IDs \ DOMAIN itr
      BY <2>1 DEF IInv, RequestOK, ChildOK, Rows
    <3>5. itr' = [i \in DOMAIN itr \cup {id} |-> IF i = id THEN row ELSE itr[i]]
      BY <2>1 DEF Create, Rows
    <3> HIDE DEF id, row
    <3>6. TreeOK(itr') /\ LiveIn(itr) \subseteq LiveIn(itr') /\ OneRuns(itr')
      BY <3>1, <3>2, <3>3, <3>4, <3>5, TreeInsert
    <3> QED  BY <2>1, <3>1, <3>6 DEF PlacesOK
  <2> QED  BY <2>1, <2>2, <2>3, SerialEnd
<1> QED  BY <1>2, <1>3, <1>4


\* Requests that change an iteration.
LEMMA SerialUpdate ==
    ASSUME IInv, SInv, NEW c \in Clients, UpdateLoad(c) \/ UpdateCheck(c) \/ UpdateSave(c)
    PROVE  SInv'
<1> DEFINE l == loc[c]
<1>0. TableOK(itr) /\ RequestOK(itr, pc[c], l)
  BY DEF IInv
<1>1. CASE UpdateLoad(c)
  <2>1. PICK id \in Live, u \in Updates :
           Begin(c, "check", [id |-> id, row |-> itr[id], name |-> u.name, state |-> u.state, parent |-> u.parent])
    BY <1>1 DEF UpdateLoad
  <2>2. /\ StepOf(c) /\ itr' = itr /\ wi' = wi /\ pc'[c] = "check"
        /\ loc'[c] = [id |-> id, row |-> itr[id], name |-> u.name, state |-> u.state, parent |-> u.parent]
        /\ overlap' = (overlap \/ \E o \in Clients \ {c} : pc[o] # "idle")
    BY <2>1, BeginIs
  <2>3. Fresh(itr, pc'[c], loc'[c])
    BY <2>2, LiveIs DEF Fresh
  <2> QED  BY <2>2, <2>3, SerialBegin
<1>2. CASE UpdateCheck(c)
  <2>1. /\ pc[c] = "check"
        /\ l.state = "start" => CanStart(l.id)
        /\ l.parent # None => ParentAllowed(l.id, l.row, l.parent)
        /\ pc' = [pc EXCEPT ![c] = "save"]
        /\ loc' = [loc EXCEPT ![c] = [id |-> l.id, row |-> Changed(l), subtree |-> [i \in SubtreeOf(l) |-> itr[i]]]]
        /\ itr' = itr /\ wi' = wi /\ overlap' = overlap
    BY <1>2, UpdateCheckIs
  <2>2. CopyOK(itr, l) /\ l.name \in Names \cup {None} /\ l.state \in {"new", "start", "close", None}
    BY <1>0, <2>1 DEF RequestOK
  <2>3. StepOf(c) /\ pc'[c] = "save"
    BY <2>1 DEF IInv, StepOf
  <2>4. loc'[c] = [id |-> l.id, row |-> Changed(l), subtree |-> [i \in SubtreeOf(l) |-> itr[i]]]
    BY <2>1 DEF IInv
  <2> SUFFICES ASSUME ~overlap
               PROVE  /\ TreeOK(itr') /\ OneRuns(itr') /\ PlacesOK(itr', wi')
                      /\ \A a, b \in Clients : pc'[a] # "idle" /\ pc'[b] # "idle" => a = b
                      /\ \A a \in Clients : Fresh(itr', pc'[a], loc'[a])
    BY <2>1 DEF SInv
  <2>5. TreeOK(itr) /\ OneRuns(itr) /\ PlacesOK(itr, wi) /\ l.id \in LiveIn(itr) /\ l.row = itr[l.id]
    BY <2>1 DEF SInv, Fresh
  <2>6. \A o \in Clients \ {c} : pc[o] = "idle"
    BY <2>1 DEF SInv
  <2>7. \A o \in Clients \ {c} : pc'[o] = "idle"
    BY <2>3, <2>6 DEF StepOf
  <2> HIDE DEF l
  <2>8. /\ Changed(l).space = l.row.space
        /\ Changed(l).state = (IF l.state = None THEN l.row.state ELSE l.state)
        /\ Changed(l).live = l.row.live
        /\ Changed(l).path = IF l.parent # None THEN Append(itr[l.parent].path, l.id) ELSE l.row.path
    BY <1>0, <2>1, <2>2, ChangedFacts
  <2>9. ASSUME Changed(l).state = "start", NEW j \in LiveIn(itr) \ {l.id}, itr[j].space = Changed(l).space
        PROVE  itr[j].state # "start"
    <3>1. itr[j].space = itr[l.id].space
      BY <2>5, <2>8, <2>9
    <3>2. CASE l.state = "start"
      BY <2>1, <3>1, <3>2, LiveIs DEF CanStart
    <3>3. CASE l.state # "start"
      <4>1. itr[l.id].state = "start"
        BY <2>5, <2>8, <2>9, <3>3
      <4> QED  BY <2>5, <3>1, <4>1 DEF OneRuns
    <3> QED  BY <3>2, <3>3
  <2>10. \/ l.parent = None /\ SubtreeOf(l) = {} /\ Changed(l).path = itr[l.id].path
         \/ /\ SubtreeOf(l) = BelowIn(itr, l.id)
            /\ \E p \in LiveIn(itr) \ (BelowIn(itr, l.id) \cup {l.id}) : Changed(l).path = Append(itr[p].path, l.id)
    <3>1. CASE l.parent = None
      BY <2>5, <2>8, <3>1 DEF SubtreeOf
    <3>2. CASE l.parent # None
      <4>1. LoadChildren(l.id) = BelowIn(itr, l.id)
        BY <2>5, LiveIs
      <4>2. l.parent \in LiveIn(itr) \ (BelowIn(itr, l.id) \cup {l.id})
        BY <2>1, <3>2, <4>1, LiveIs DEF ParentAllowed
      <4>3. SubtreeOf(l) = BelowIn(itr, l.id) /\ Changed(l).path = Append(itr[l.parent].path, l.id)
        BY <2>8, <3>2, <4>1 DEF SubtreeOf
      <4> QED  BY <4>2, <4>3
    <3> QED  BY <3>1, <3>2
  <2> DEFINE m == loc'[c]
  <2>11. /\ m.id = l.id /\ m.row = Changed(l) /\ DOMAIN m.subtree = SubtreeOf(l)
         /\ \A i \in DOMAIN m.subtree : m.subtree[i] = itr[i]
    BY <2>4
  <2> HIDE DEF m
  <2>12. m.row.live /\ m.row.space = itr[m.id].space
    <3>1. l.row.live
      BY <2>5 DEF LiveIn
    <3> QED  BY <2>5, <2>8, <2>11, <3>1
  <2>13. FreshCopy(itr, m)
    <3>1. m.row.state = "start" =>
             \A j \in LiveIn(itr) \ {m.id} : itr[j].space = m.row.space => itr[j].state # "start"
      BY <2>9, <2>11
    <3>2. \/ m.row.path = itr[m.id].path /\ DOMAIN m.subtree = {}
          \/ /\ DOMAIN m.subtree = BelowIn(itr, m.id)
             /\ \E p \in LiveIn(itr) \ (BelowIn(itr, m.id) \cup {m.id}) : m.row.path = Append(itr[p].path, m.id)
      BY <2>10, <2>11
    <3> QED  BY <2>5, <2>11, <2>12, <3>1, <3>2 DEF FreshCopy
  <2>14. Fresh(itr', pc'[c], loc'[c])
    BY <2>1, <2>3, <2>13 DEF Fresh, m
  <2>15. \A a \in Clients : Fresh(itr', pc'[a], loc'[a])
    BY <2>7, <2>14 DEF Fresh
  <2> QED  BY <2>1, <2>5, <2>7, <2>15
<1>3. CASE UpdateSave(c)
  <2> DEFINE f == [i \in DOMAIN l.subtree \cup {l.id} |->
                     IF i = l.id THEN l.row ELSE MakeChildOf(l.subtree[i], i, l.row)]
  <2>1. pc[c] = "save" /\ Save(f) /\ End(c) /\ wi' = wi
    BY <1>3 DEF UpdateSave
  <2>2. StepOf(c) /\ overlap' = overlap /\ pc'[c] = "idle"
    BY <2>1, EndIs
  <2>3. ASSUME ~overlap  PROVE  TreeOK(itr') /\ OneRuns(itr') /\ PlacesOK(itr', wi')
    <3>1. TreeOK(itr) /\ OneRuns(itr) /\ PlacesOK(itr, wi) /\ FreshCopy(itr, l)
      BY <2>1, <2>3 DEF SInv, Fresh
    <3>2. l.id \in DOMAIN itr /\ l.row \in RowType /\ Last(l.row.path) = l.id
      BY <1>0, <2>1 DEF RequestOK, CopyOK, RowFor
    <3>3. itr' = [i \in DOMAIN itr |-> IF i \in DOMAIN f THEN f[i] ELSE itr[i]]
      BY <2>1 DEF Save, Rows
    <3>4. f = [i \in DOMAIN l.subtree \cup {l.id} |->
                 IF i = l.id THEN l.row ELSE MakeChildOf(l.subtree[i], i, l.row)]
      OBVIOUS
    <3> HIDE DEF f, l
    <3>5. TreeOK(itr') /\ OneRuns(itr') /\ LiveIn(itr') = LiveIn(itr)
      BY <1>0, <3>1, <3>2, <3>3, <3>4, TreeSave
    <3> QED  BY <2>1, <3>1, <3>5 DEF PlacesOK
  <2> QED  BY <2>1, <2>2, <2>3, SerialEnd
<1> QED  BY <1>1, <1>2, <1>3


\* Requests that delete a subtree: its work items find a live parent.
LEMMA SerialDelete ==
    ASSUME IInv, SInv, NEW c \in Clients, DeleteLoad(c) \/ DeleteApply(c)
    PROVE  SInv'
<1> DEFINE l == loc[c]
<1>0. TableOK(itr) /\ ItemsOK(itr, wi) /\ RequestOK(itr, pc[c], l)
  BY DEF IInv
<1>1. CASE DeleteLoad(c)
  <2>1. PICK id \in Live :
           /\ ~IsRoot(id) /\ ParentID(itr[id].path) \in Live
           /\ Begin(c, "delete", [id |-> id, subtree |-> LoadChildren(id) \cup {id},
                                  parent |-> ParentID(itr[id].path)])
    BY <1>1 DEF DeleteLoad
  <2>2. /\ StepOf(c) /\ itr' = itr /\ wi' = wi /\ pc'[c] = "delete"
        /\ loc'[c] = [id |-> id, subtree |-> LoadChildren(id) \cup {id}, parent |-> ParentID(itr[id].path)]
        /\ overlap' = (overlap \/ \E o \in Clients \ {c} : pc[o] # "idle")
    BY <2>1, BeginIs
  <2>3. id \in LiveIn(itr) /\ LoadChildren(id) = BelowIn(itr, id) /\ itr[id].path # <<id>>
    BY <2>1, LiveIs DEF IsRoot
  <2>4. Fresh(itr, pc'[c], loc'[c])
    BY <2>2, <2>3 DEF Fresh
  <2> QED  BY <2>2, <2>4, SerialBegin
<1>2. CASE DeleteApply(c)
  <2>1. /\ pc[c] = "delete" /\ Delete(l.subtree) /\ End(c)
        /\ wi' = [i \in Items |->
                    IF \E d \in l.subtree : i \in LoadByIteration(d)
                       THEN [wi[i] EXCEPT !.iteration = l.parent, !.version = @ + 1] ELSE wi[i]]
    BY <1>2 DEF DeleteApply
  <2>2. StepOf(c) /\ overlap' = overlap /\ pc'[c] = "idle"
    BY <2>1, EndIs
  <2>3. ASSUME ~overlap  PROVE  TreeOK(itr') /\ OneRuns(itr') /\ PlacesOK(itr', wi')
    <3>1. TreeOK(itr) /\ OneRuns(itr) /\ PlacesOK(itr, wi)
      BY <2>3 DEF SInv
    <3>2. PICK id \in LiveIn(itr) :
             l.subtree = BelowIn(itr, id) \cup {id} /\ itr[id].path # <<id>> /\ l.parent = ParentID(itr[id].path)
      BY <2>1, <2>3 DEF SInv, Fresh
    <3>3. itr' = [i \in DOMAIN itr |-> IF i \in l.subtree THEN [itr[i] EXCEPT !.live = FALSE] ELSE itr[i]]
      BY <2>1 DEF Delete, Rows
    <3>4. \A i \in Items : wi[i] \in [iteration : DOMAIN itr, version : Nat, live : BOOLEAN]
      BY <1>0 DEF ItemsOK
    <3>5. ASSUME NEW i \in Items
          PROVE  \/ /\ \E d \in l.subtree : i \in LoadByIteration(d)
                    /\ wi'[i] = [wi[i] EXCEPT !.iteration = l.parent, !.version = @ + 1]
                 \/ /\ ~\E d \in l.subtree : i \in LoadByIteration(d)
                    /\ wi'[i] = wi[i]
      BY <2>1
    <3>6. SubtreeDeleted(itr, id, itr')
      BY <3>2, <3>3 DEF SubtreeDeleted
    <3>7. /\ TreeOK(itr') /\ OneRuns(itr')
          /\ LiveIn(itr') = LiveIn(itr) \ l.subtree /\ l.parent \in LiveIn(itr')
      BY <1>0, <3>1, <3>2, <3>6, TreeDelete
    <3> HIDE DEF l
    <3>8. ASSUME NEW i \in Items, wi'[i].live  PROVE  wi'[i].iteration \in LiveIn(itr')
      <4>1. CASE wi'[i] = [wi[i] EXCEPT !.iteration = l.parent, !.version = @ + 1]
        <5>1. wi'[i].iteration = l.parent
          BY <3>4, <4>1
        <5> QED  BY <3>7, <5>1
      <4>2. CASE wi'[i] = wi[i] /\ ~\E d \in l.subtree : i \in LoadByIteration(d)
        <5>1. wi[i].iteration \in LiveIn(itr)
          BY <3>1, <3>8, <4>2 DEF PlacesOK
        <5>2. wi[i].iteration \notin l.subtree
          BY <3>8, <4>2 DEF LoadByIteration
        <5> QED  BY <3>7, <4>2, <5>1, <5>2
      <4> QED  BY <3>5, <4>1, <4>2
    <3> QED  BY <3>7, <3>8 DEF PlacesOK
  <2> QED  BY <2>1, <2>2, <2>3, SerialEnd
<1> QED  BY <1>1, <1>2

\* Requests that assign a work item, and those that fail.
LEMMA SerialOther ==
    ASSUME IInv, SInv, NEW c \in Clients, AssignCheck(c) \/ AssignSave(c) \/ Refuse(c)
    PROVE  SInv'
<1> DEFINE l == loc[c]
<1>0. TableOK(itr) /\ ItemsOK(itr, wi) /\ RequestOK(itr, pc[c], l)
  BY DEF IInv
<1>1. CASE AssignCheck(c)
  <2>1. PICK i \in Items, id \in Live :
           Begin(c, "assign", [item |-> i, iteration |-> id, version |-> wi[i].version])
    BY <1>1 DEF AssignCheck
  <2>2. /\ StepOf(c) /\ itr' = itr /\ wi' = wi /\ pc'[c] = "assign"
        /\ loc'[c] = [item |-> i, iteration |-> id, version |-> wi[i].version]
        /\ overlap' = (overlap \/ \E o \in Clients \ {c} : pc[o] # "idle")
    BY <2>1, BeginIs
  <2>3. Fresh(itr, pc'[c], loc'[c])
    BY <2>2, LiveIs DEF Fresh
  <2> QED  BY <2>2, <2>3, SerialBegin
<1>2. CASE AssignSave(c)
  <2>1. /\ pc[c] = "assign" /\ End(c) /\ itr' = itr
        /\ wi' = [wi EXCEPT ![l.item] = [iteration |-> l.iteration, version |-> l.version + 1, live |-> TRUE]]
    BY <1>2 DEF AssignSave
  <2>2. StepOf(c) /\ overlap' = overlap /\ pc'[c] = "idle"
    BY <2>1, EndIs
  <2>3. ASSUME ~overlap  PROVE  TreeOK(itr') /\ OneRuns(itr') /\ PlacesOK(itr', wi')
    <3>1. TreeOK(itr) /\ OneRuns(itr) /\ PlacesOK(itr, wi) /\ l.iteration \in LiveIn(itr)
      BY <2>1, <2>3 DEF SInv, Fresh
    <3>2. \A i \in Items : wi'[i] = wi[i] \/ wi'[i].iteration = l.iteration
      BY <1>0, <2>1 DEF ItemsOK
    <3> QED  BY <2>1, <3>1, <3>2 DEF PlacesOK
  <2> QED  BY <2>1, <2>2, <2>3, SerialEnd
<1>3. CASE Refuse(c)
  <2>1. pc[c] # "idle" /\ End(c) /\ itr' = itr /\ wi' = wi
    BY <1>3 DEF Refuse
  <2>2. StepOf(c) /\ overlap' = overlap /\ pc'[c] = "idle"
    BY <2>1, EndIs
  <2>3. ~overlap => TreeOK(itr') /\ OneRuns(itr') /\ PlacesOK(itr', wi')
    BY <2>1 DEF SInv
  <2> QED  BY <2>1, <2>2, <2>3, SerialEnd
<1> QED  BY <1>1, <1>2, <1>3

LEMMA SInvStep == IInv /\ SInv /\ [Next]_vars => SInv'
<1> SUFFICES ASSUME IInv, SInv, [Next]_vars  PROVE  SInv'
  OBVIOUS
<1>1. CASE \E c \in Clients : \/ CreateLoad(c) \/ CreateUnderRoot(c) \/ CreateInsert(c)
                              \/ UpdateLoad(c) \/ UpdateCheck(c) \/ UpdateSave(c)
                              \/ DeleteLoad(c) \/ DeleteApply(c) \/ AssignCheck(c) \/ AssignSave(c) \/ Refuse(c)
  BY <1>1, SerialCreate, SerialUpdate, SerialDelete, SerialOther
<1>2. CASE DeleteWorkItem
  <2>1. PICK i \in Items : wi' = [wi EXCEPT ![i].live = FALSE]
    BY <1>2 DEF DeleteWorkItem
  <2>2. itr' = itr /\ pc' = pc /\ loc' = loc /\ overlap' = overlap
    BY <1>2 DEF DeleteWorkItem
  <2>3. \A j \in Items : (wi'[j].live => wi[j].live) /\ wi'[j].iteration = wi[j].iteration
    BY <2>1 DEF ItemsOK, IInv
  <2>4. PlacesOK(itr, wi) => PlacesOK(itr', wi')
    BY <2>2, <2>3 DEF PlacesOK
  <2> QED  BY <2>2, <2>4 DEF SInv
<1>3. CASE UNCHANGED vars
  BY <1>3 DEF SInv, vars
<1> QED  BY <1>1, <1>2, <1>3 DEF Next

\* The counts of the list: rows below an iteration that are deleted have no live work
\* items, those that are live are in its space, and only the space's items are counted.
LEMMA CountsAreRight ==
    ASSUME IInv, PlacesOK(itr, wi), NEW id \in Live
    PROVE  CountsPerIteration(id) =
               Cardinality({i \in Items : /\ wi[i].live /\ Home[i] = itr[id].space
                                          /\ wi[i].iteration \in LoadChildren(id) \cup {id}})
<1> DEFINE A == UNION {Assigned(i) : i \in Below(id) \cup {id}}
           E == {i \in Items : /\ wi[i].live /\ Home[i] = itr[id].space
                               /\ wi[i].iteration \in LoadChildren(id) \cup {id}}
<1>1. id \in DOMAIN itr /\ TableOK(itr)
  BY DEF Live, Rows, IInv
<1>2. ASSUME NEW k \in Live  PROVE  k \in Below(id) <=> k \in LoadChildren(id)
  <2>1. k \in DOMAIN itr
    BY DEF Live, Rows
  <2>2. IsStrictPrefix(itr[id].path, itr[k].path) => itr[k].space = itr[id].space
    BY <1>1, <2>1, ChildrenFacts
  <2> QED  BY <2>1, <2>2 DEF Below, LoadChildren, Rows
<1>3. \A i \in Items : wi[i].live => wi[i].iteration \in Live
  BY LiveIs DEF PlacesOK
<1>4. \A k \in Below(id) \cup {id} : itr[k].space = itr[id].space
  BY DEF Below
<1>5. \A i : i \in A <=> /\ i \in Items /\ wi[i].live /\ Home[i] = itr[id].space
                        /\ wi[i].iteration \in Below(id) \cup {id}
  BY <1>4 DEF Assigned
<1>6. A = E
  BY <1>2, <1>3, <1>5
<1> QED  BY <1>6 DEF CountsPerIteration

\* As long as requests do not overlap, and after any number of them: the paths are a
\* tree of live iterations, at most one iteration of a space runs, live work items are
\* in live iterations, and the count shown beside an iteration in the list of its space is that
\* of the space's own work items in its subtree (getAllIterationWithCounts).
THEOREM IterationsSerialConsistency == Spec => []SerialConsistency
<1>1. Spec => []IInv
  BY IInvInit, IInvStep, PTL DEF Spec
<1>2. IInv /\ SInv => SerialConsistency
  <2> SUFFICES ASSUME IInv, SInv  PROVE  SerialConsistency
    OBVIOUS
  <2>1. SerialTree
    BY LiveIs DEF SInv, TreeOK, SerialTree
  <2>2. SerialOneRunning
    BY LiveIs DEF SInv, OneRuns, SerialOneRunning
  <2>3. SerialAssignments
    BY LiveIs DEF SInv, PlacesOK, SerialAssignments
  <2>4. SerialCounts
    BY CountsAreRight DEF SInv, SerialCounts
  <2> QED  BY <2>1, <2>2, <2>3, <2>4 DEF SerialConsistency
<1>3. Spec => []SInv
  BY <1>1, SInvInit, SInvStep, PTL DEF Spec
<1> QED  BY <1>1, <1>2, <1>3, PTL

-------------------------------------------------------------------------------
(* Areas: the inductive invariant.  An area's identifier is its position,  *)
(* its path ends with it, and without its end is the path of another area; *)
(* a request that has a number holds the row of the sequence, and the      *)
(* parent it has loaded stays where it is.  The loop that resolves a path  *)
(* is a recursive function: the names above an area satisfy its equation,  *)
(* so the function does, and there is no first place where they differ.    *)

\* A set of naturals that holds something has a smallest element: induction without an operator.
LEMMA SmallestElement ==
    ASSUME NEW T \in SUBSET Nat, T # {}
    PROVE  \E x \in T : \A y \in T : x <= y
<1>1. PICK x \in T : \A y \in T : ~(<<y, x>> \in OpToRel(<, Nat))
  BY NatLessThanWellFounded, WFMin
<1>2. \A y \in T : ~(y < x)
  BY <1>1 DEF OpToRel
<1> QED  BY <1>2

AreaType == [path : Seq(Nat), name : AreaNames \cup {NoArea}, number : Nat]
AreaRequestType ==
    [pc : {"idle", "number", "insert"}, parent : Seq(Nat), name : AreaNames \cup {NoArea}, number : Nat]

\* An area that has its place: its path ends with its own identifier, all of the path are areas,
\* and without its end the path is that of another area.
InPlace(i) ==
    /\ areas[i].number = i
    /\ Len(areas[i].path) > 0 /\ areas[i].path[Len(areas[i].path)] = i
    /\ \A k \in 1..Len(areas[i].path) : areas[i].path[k] \in 1..Len(areas)
    /\ i # 1 => \E j \in 1..Len(areas) : areas[i].path = Append(areas[j].path, i)

AreasInv ==
    /\ areas \in Seq(AreaType) /\ Len(areas) > 0 /\ sequence = Len(areas)
    /\ areas[1].path = <<1>>
    /\ \A i \in 1..Len(areas) : InPlace(i)
    /\ sequenceLock \in AreaRequests \cup {NoArea}
    /\ areq \in [AreaRequests -> AreaRequestType]
    /\ \A p \in AreaRequests :
        /\ areq[p].pc = "insert" => sequenceLock = p /\ areq[p].number = sequence + 1
        /\ areq[p].pc # "idle" => \E j \in 1..Len(areas) : areq[p].parent = areas[j].path

\* What getAreaByID finds for an identifier.
LEMMA AreaIsFound ==
    ASSUME AreasInv
    PROVE  /\ AreaIDs = 1..Len(areas)
           /\ \A i \in 1..Len(areas) : AreaOf(i) = areas[i]
<1>1. DOMAIN areas = 1..Len(areas) /\ \A i \in DOMAIN areas : Last(areas[i].path) = i
  BY DEF AreasInv, InPlace, Last, AreaType
<1>2. AreaIDs = 1..Len(areas)
  BY <1>1 DEF AreaIDs
<1>3. ASSUME NEW i \in 1..Len(areas)
      PROVE  AreaOf(i) = areas[i]
  BY <1>1, <1>3 DEF AreaOf
<1> QED  BY <1>2, <1>3

\* The loop of getResolvePath, which looks up the parents one by one, has found the first n of
\* them after n rounds.
LEMMA AllParentsResolved ==
    ASSUME AreasInv, NEW i \in 1..Len(areas)
    PROVE  ResolvedPath(areas[i]) = [k \in 1..(Len(areas[i].path) - 1) |-> areas[areas[i].path[k]].name]
<1> DEFINE parents == Front(areas[i].path)
           resolved[n \in 0..Len(parents)] ==
            IF n = 0 THEN <<>>
            ELSE IF parents[n] \in AreaIDs THEN Append(resolved[n - 1], AreaOf(parents[n]).name)
            ELSE resolved[n - 1]
           names[n \in 0..Len(parents)] == [k \in 1..n |-> areas[parents[k]].name]
           Body(r) == [n \in 0..Len(parents) |->
            IF n = 0 THEN <<>>
            ELSE IF parents[n] \in AreaIDs THEN Append(r[n - 1], AreaOf(parents[n]).name)
            ELSE r[n - 1]]
<1>1. ResolvedPath(areas[i]) = resolved[Len(parents)]
  BY DEF ResolvedPath
<1>2. resolved = CHOOSE r : r = Body(r)
  OBVIOUS
<1>3. /\ Len(parents) \in Nat /\ Len(parents) = Len(areas[i].path) - 1
      /\ \A k \in 1..Len(parents) : parents[k] = areas[i].path[k] /\ parents[k] \in 1..Len(areas)
  <2>1. areas[i] \in AreaType /\ InPlace(i)
    BY DEF AreasInv
  <2> DEFINE path == areas[i].path
  <2>2. path \in Seq(Nat) /\ Len(path) \in Nat \ {0} /\ \A k \in 1..Len(path) : path[k] \in 1..Len(areas)
    BY <2>1 DEF AreaType, InPlace
  <2>3. parents = SubSeq(path, 1, Len(path) - 1)
    BY DEF Front
  <2> HIDE DEF path, parents
  <2>4. /\ Len(parents) \in Nat /\ Len(parents) = Len(path) - 1
        /\ \A k \in 1..Len(parents) : parents[k] = path[k] /\ k \in 1..Len(path)
    <3>1. PICK n \in Nat : n = Len(path) - 1
      BY <2>2
    <3>2. parents = [k \in 1..n |-> path[k]]
      BY <2>2, <2>3, <3>1
    <3>3. Len(parents) = n
      BY <3>1, <3>2
    <3> QED  BY <2>2, <3>1, <3>2, <3>3
  <2> QED  BY <2>2, <2>4 DEF path
<1>4. \A k \in 1..Len(parents) : parents[k] \in AreaIDs /\ AreaOf(parents[k]) = areas[parents[k]]
  BY <1>3, AreaIsFound
<1> HIDE DEF parents
<1>5. \A n \in 1..Len(parents) : names[n] = Append(names[n - 1], areas[parents[n]].name)
  <2> SUFFICES ASSUME NEW n \in 1..Len(parents)
               PROVE  names[n] = Append(names[n - 1], areas[parents[n]].name)
    OBVIOUS
  <2> DEFINE value(k) == areas[parents[k]].name
  <2>1. n \in Nat /\ n - 1 \in Nat /\ n \in 0..Len(parents) /\ n - 1 \in 0..Len(parents)
    BY <1>3
  <2>2. names[n] = [k \in 1..n |-> value(k)] /\ names[n - 1] = [k \in 1..(n - 1) |-> value(k)]
    BY <2>1
  <2> HIDE DEF value
  <2>3. [k \in 1..n |-> value(k)] = Append([k \in 1..(n - 1) |-> value(k)], value(n))
    BY <2>1
  <2> QED  BY <2>2, <2>3 DEF value
<1>6. names[0] = <<>>
  BY <1>3
<1>7. names = Body(names)
  <2>1. DOMAIN names = 0..Len(parents)
    OBVIOUS
  <2>2. ASSUME NEW n \in 0..Len(parents)
        PROVE  names[n] = Body(names)[n]
    <3> HIDE DEF names
    <3>1. CASE n = 0
      BY <1>6, <2>2, <3>1
    <3>2. CASE n # 0
      <4>1. n \in 1..Len(parents)
        BY <1>3, <2>2, <3>2
      <4>2. Body(names)[n] = Append(names[n - 1], areas[parents[n]].name)
        BY <1>4, <2>2, <3>2, <4>1
      <4> QED  BY <1>5, <4>1, <4>2
    <3> QED  BY <3>1, <3>2
  <2> QED  BY <2>2
<1> HIDE DEF names
<1>8. resolved = Body(resolved)
  BY <1>2, <1>7
<1> HIDE DEF resolved
<1>9. \A n \in 0..Len(parents) : resolved[n] = names[n]
  <2> DEFINE Wrong == {n \in 0..Len(parents) : resolved[n] # names[n]}
  <2>1. SUFFICES ASSUME Wrong # {} PROVE FALSE
    OBVIOUS
  <2>2. PICK n \in Wrong : \A m \in Wrong : n <= m
    <3>1. Wrong \in SUBSET Nat
      BY <1>3
    <3> HIDE DEF Wrong
    <3> QED  BY <2>1, <3>1, SmallestElement
  <2>3. n \in 0..Len(parents) /\ n \in Nat /\ resolved[n] # names[n]
    BY <1>3
  <2>4. resolved[n] = Body(resolved)[n] /\ names[n] = Body(names)[n]
    BY <1>7, <1>8
  <2>5. CASE n = 0
    BY <2>3, <2>4, <2>5
  <2>6. CASE n # 0
    <3>1. n - 1 \in 0..Len(parents) /\ ~(n <= n - 1)
      BY <1>3, <2>3, <2>6
    <3>2. resolved[n - 1] = names[n - 1]
      BY <2>2, <3>1
    <3> QED  BY <2>3, <2>4, <2>6, <3>2
  <2> QED  BY <2>5, <2>6
<1>10. names[Len(parents)] = [k \in 1..Len(parents) |-> areas[parents[k]].name]
  BY <1>3 DEF names
<1> USE DEF parents
<1>11. [k \in 1..Len(parents) |-> areas[parents[k]].name]
         = [k \in 1..(Len(areas[i].path) - 1) |-> areas[areas[i].path[k]].name]
  BY <1>3
<1>12. resolved[Len(parents)] = names[Len(parents)]
  BY <1>3, <1>9
<1> QED  BY <1>1, <1>10, <1>11, <1>12

\* In a state of the invariant, the areas are numbered and are a tree.
LEMMA AreasInvSound == AreasInv => AreasAreSound
<1> SUFFICES ASSUME AreasInv PROVE AreasAreSound
  OBVIOUS
<1> DEFINE path(i) == areas[i].path
<1>1. DOMAIN areas = 1..Len(areas) /\ Len(areas) \in Nat
  BY DEF AreasInv
<1>2. AreaNumbersAreDense
  BY <1>1 DEF AreaNumbersAreDense, AreasInv, InPlace
<1>3. \A i \in 1..Len(areas) : /\ path(i) \in Seq(Nat) /\ Len(path(i)) \in Nat \ {0}
                               /\ path(i)[Len(path(i))] = i
  <2> SUFFICES ASSUME NEW i \in 1..Len(areas)
               PROVE  /\ path(i) \in Seq(Nat) /\ Len(path(i)) \in Nat \ {0}
                      /\ path(i)[Len(path(i))] = i
    OBVIOUS
  <2>1. areas[i] \in AreaType /\ InPlace(i)
    BY DEF AreasInv
  <2> QED  BY <2>1 DEF AreaType, InPlace
<1>4. ASSUME NEW i \in 1..Len(areas), NEW k \in 1..Len(areas), i \in AreaChildren(areas[k])
      PROVE  /\ Len(path(i)) = Len(path(k)) + 1
             /\ \A n \in 1..Len(path(k)) : path(i)[n] = path(k)[n]
  <2> HIDE DEF path
  <2>1. /\ Len(path(i)) = Len(path(k)) + 1
        /\ SubSeq(path(k), 1, Len(path(k))) = SubSeq(path(i), 1, Len(path(k)))
    BY <1>4 DEF AreaChildren, IsPrefix, path
  <2>2. \A n \in 1..Len(path(k)) : /\ SubSeq(path(k), 1, Len(path(k)))[n] = path(k)[n]
                                   /\ SubSeq(path(i), 1, Len(path(k)))[n] = path(i)[n]
    BY <1>3, <2>1
  <2> QED  BY <2>1, <2>2
<1>5. ASSUME NEW i \in 1..Len(areas), i # 1
      PROVE  \E j \in DOMAIN areas : /\ i \in AreaChildren(areas[j])
                                     /\ Front(areas[i].path) = areas[j].path
                                     /\ \A k \in DOMAIN areas : i \in AreaChildren(areas[k]) => k = j
  <2>1. PICK j \in 1..Len(areas) : path(i) = Append(path(j), i)
    BY <1>5 DEF AreasInv, InPlace
  <2>2. Len(path(i)) = Len(path(j)) + 1 /\ Front(path(i)) = path(j) /\ IsPrefix(path(j), path(i))
    <3> HIDE DEF path
    <3> QED  BY <1>3, <2>1 DEF Front, IsPrefix
  <2>3. path(i)[Len(path(j))] = j
    <3> HIDE DEF path
    <3> QED  BY <1>3, <2>1
  <2>4. ASSUME NEW k \in 1..Len(areas), i \in AreaChildren(areas[k])
        PROVE  k = j
    <3>1. /\ Len(path(i)) = Len(path(k)) + 1
          /\ \A n \in 1..Len(path(k)) : path(i)[n] = path(k)[n]
      BY <1>4, <2>4
    <3> HIDE DEF path
    <3>2. Len(path(k)) \in Nat \ {0} /\ Len(path(j)) \in Nat
      BY <1>3
    <3>3. Len(path(k)) = Len(path(j))
      BY <2>2, <3>1, <3>2
    <3>4. path(k)[Len(path(k))] = path(i)[Len(path(j))]
      BY <3>1, <3>2, <3>3
    <3> QED  BY <1>3, <2>3, <3>4
  <2>5. i \in AreaChildren(areas[j])
    BY <1>1, <2>2 DEF AreaChildren
  <2> QED  BY <1>1, <2>2, <2>4, <2>5
<1>6. ASSUME NEW i \in 1..Len(areas)
      PROVE  Len(ResolvedPath(areas[i])) = Len(areas[i].path) - 1
  <2> DEFINE m == Len(path(i)) - 1
             value(k) == areas[path(i)[k]].name
  <2>1. m \in Nat
    BY <1>3
  <2>2. ResolvedPath(areas[i]) = [k \in 1..m |-> value(k)]
    BY AllParentsResolved
  <2>3. Len(ResolvedPath(areas[i])) = m
    <3> HIDE DEF m, value
    <3> QED  BY <2>1, <2>2
  <2> QED  BY <2>3
<1>7. ASSUME NEW i \in 1..Len(areas), NEW j \in AreaChildren(areas[i])
      PROVE  ResolvedPath(areas[j]) = Append(ResolvedPath(areas[i]), areas[i].name)
  <2> DEFINE n == Len(path(i))
             value(k) == areas[path(j)[k]].name
  <2>1. j \in 1..Len(areas)
    BY <1>1 DEF AreaChildren
  <2>2. Len(path(j)) = n + 1 /\ \A k \in 1..n : path(j)[k] = path(i)[k]
    BY <1>4, <1>7, <2>1
  <2>3. n \in Nat \ {0} /\ path(i)[n] = i
    BY <1>3
  <2>4. ResolvedPath(areas[j]) = [k \in 1..(Len(path(j)) - 1) |-> value(k)]
    BY <2>1, AllParentsResolved
  <2>5. ResolvedPath(areas[i]) = [k \in 1..(n - 1) |-> areas[path(i)[k]].name]
    BY AllParentsResolved
  <2>6. \A k \in 1..(n - 1) : areas[path(i)[k]].name = value(k)
    <3> SUFFICES ASSUME NEW k \in 1..(n - 1)
                 PROVE  path(j)[k] = path(i)[k]
      OBVIOUS
    <3> HIDE DEF n, path
    <3>1. k \in 1..n
      BY <2>3
    <3> QED  BY <2>2, <3>1
  <2>7. value(n) = areas[i].name
    BY <2>2, <2>3
  <2>8. Len(path(j)) - 1 = n
    BY <2>2, <2>3
  <2> HIDE DEF n, value
  <2>9. [k \in 1..n |-> value(k)] = Append([k \in 1..(n - 1) |-> value(k)], value(n))
    BY <2>3
  <2> QED  BY <2>4, <2>5, <2>6, <2>7, <2>8, <2>9
<1> QED  BY <1>1, <1>2, <1>5, <1>6, <1>7 DEF AreasAreSound, AreasAreATree

\* A request that goes on and inserts nothing.
LEMMA AreaRequestMoves ==
    ASSUME AreasInv, UNCHANGED <<areas, sequence>>,
           NEW p \in AreaRequests, NEW r \in AreaRequestType, areq' = [areq EXCEPT ![p] = r],
           sequenceLock' \in AreaRequests \cup {NoArea},
           r.pc = "insert" => sequenceLock' = p /\ r.number = sequence + 1,
           r.pc # "idle" => \E j \in 1..Len(areas) : r.parent = areas[j].path,
           \A q \in AreaRequests \ {p} : areq[q].pc = "insert" => sequenceLock' = q
    PROVE  AreasInv'
<1>1. areq \in [AreaRequests -> AreaRequestType]
  BY DEF AreasInv
<1>2. areq' \in [AreaRequests -> AreaRequestType] /\ \A q \in AreaRequests : areq'[q] = IF q = p THEN r ELSE areq[q]
  BY <1>1
<1>3. \A i \in 1..Len(areas) : InPlace(i) => InPlace(i)'
  BY DEF InPlace
<1>4. ASSUME NEW q \in AreaRequests
      PROVE  /\ areq'[q].pc = "insert" => sequenceLock' = q /\ areq'[q].number = sequence + 1
             /\ areq'[q].pc # "idle" => \E j \in 1..Len(areas) : areq'[q].parent = areas[j].path
  <2>1. CASE q = p
    BY <1>2, <2>1
  <2>2. CASE q # p
    <3>1. areq'[q] = areq[q]
      BY <1>2, <2>2
    <3> QED  BY <2>2, <3>1 DEF AreasInv
  <2> QED  BY <2>1, <2>2
<1> QED  BY <1>2, <1>3, <1>4 DEF AreasInv

\* A new area is put below one that exists.
LEMMA AreaInserted ==
    ASSUME AreasInv, NEW p \in AreaRequests, InsertArea(p)
    PROVE  AreasInv'
<1>n. PICK n \in Nat : n = Len(areas)
  BY DEF AreasInv
<1> DEFINE r == areq[p]
           new == [path |-> AreaMakeChildOf(r.parent, Len(areas) + 1), name |-> r.name, number |-> r.number]
<1>1. /\ areas \in Seq(AreaType) /\ n \in Nat \ {0} /\ n = Len(areas) /\ sequence = n
      /\ areq \in [AreaRequests -> AreaRequestType]
      /\ r.pc = "insert" /\ sequenceLock = p /\ r.number = n + 1
  BY <1>n DEF AreasInv, InsertArea
<1>2. \A q \in AreaRequests \ {p} : areq[q].pc # "insert"
  BY <1>1 DEF AreasInv
<1>3. AIdle \in AreaRequestType
  BY DEF AIdle, AreaRequestType
<1>4. /\ areq' = [areq EXCEPT ![p] = AIdle] /\ sequenceLock' = NoArea
      /\ \A q \in AreaRequests : areq'[q] = IF q = p THEN AIdle ELSE areq[q]
  BY <1>1 DEF InsertArea
<1>5. CASE UNCHANGED <<areas, sequence>>
  <2>1. \A i \in 1..Len(areas) : InPlace(i) => InPlace(i)'
    BY <1>5 DEF InPlace
  <2> QED  BY <1>1, <1>2, <1>3, <1>4, <1>5, <2>1 DEF AreasInv, AIdle
<1>6. CASE areas' = Append(areas, new) /\ sequence' = r.number
  <2>1. PICK j \in 1..n : r.parent = areas[j].path
    BY <1>1 DEF AreasInv
  <2>2. new \in AreaType /\ new.path = Append(areas[j].path, n + 1)
    <3>1. r \in AreaRequestType
      BY <1>1
    <3>2. r.parent \in Seq(Nat) /\ r.name \in AreaNames \cup {NoArea} /\ r.number \in Nat
      BY <3>1 DEF AreaRequestType
    <3>3. Append(r.parent, n + 1) \in Seq(Nat)
      BY <1>1, <3>2
    <3> QED  BY <1>n, <2>1, <3>2, <3>3 DEF AreaType, AreaMakeChildOf
  <2>3. /\ areas' \in Seq(AreaType) /\ Len(areas') = n + 1 /\ areas'[n + 1] = new
        /\ \A i \in 1..n : areas'[i] = areas[i]
    BY <1>1, <1>6, <2>2
  <2>4. ASSUME NEW i \in 1..n
        PROVE  InPlace(i)'
    <3>1. InPlace(i) /\ i \in Nat
      BY <1>n, <2>4 DEF AreasInv
    <3>2. areas'[i] = areas[i] /\ \A k \in 1..n : k \in 1..(n + 1) /\ areas'[k] = areas[k]
      BY <1>1, <2>3
    <3> QED  BY <1>1, <2>3, <3>1, <3>2 DEF InPlace
  <2>5. InPlace(n + 1)'
    <3>1. InPlace(j) /\ areas[j].path \in Seq(Nat)
      <4>1. areas[j] \in AreaType
        BY <1>1
      <4> QED  BY <1>n, <4>1 DEF AreasInv, AreaType
    <3> DEFINE up == areas[j].path
               path == Append(up, n + 1)
    <3>2. \A k \in 1..Len(up) : up[k] \in 1..n
      BY <1>n, <3>1 DEF InPlace
    <3>3. areas'[n + 1].path = path /\ areas'[n + 1].number = n + 1 /\ areas'[j].path = up
      BY <1>1, <2>1, <2>2, <2>3
    <3> HIDE DEF up
    <3>4. /\ Len(path) = Len(up) + 1 /\ Len(up) \in Nat /\ path[Len(path)] = n + 1
          /\ \A k \in 1..Len(up) : path[k] = up[k]
      BY <3>1 DEF up
    <3>5. \A k \in 1..Len(path) : path[k] \in 1..(n + 1)
      BY <1>1, <3>2, <3>4
    <3> HIDE DEF path
    <3>6. j \in 1..(n + 1) /\ areas'[n + 1].path = Append(areas'[j].path, n + 1)
      BY <1>1, <2>1, <3>3 DEF path
    <3>7. Len(areas') = n + 1 /\ Len(path) > 0
      BY <1>1, <2>3, <3>4
    <3> QED  BY <3>3, <3>4, <3>5, <3>6, <3>7 DEF InPlace
  <2>6. \A i \in 1..Len(areas') : InPlace(i)'
    <3>1. 1..Len(areas') = 1..n \cup {n + 1}
      BY <1>1, <2>3
    <3> QED  BY <2>4, <2>5, <3>1
  <2>7. \A q \in AreaRequests : areq'[q].pc # "idle" => \E k \in 1..Len(areas') : areq'[q].parent = areas'[k].path
    <3> SUFFICES ASSUME NEW q \in AreaRequests, areq'[q].pc # "idle"
                 PROVE  \E k \in 1..Len(areas') : areq'[q].parent = areas'[k].path
      OBVIOUS
    <3>1. areq'[q] = areq[q]
      BY <1>4 DEF AIdle
    <3>2. PICK k \in 1..n : areq[q].parent = areas[k].path
      BY <1>n, <3>1 DEF AreasInv
    <3> QED  BY <1>1, <2>3, <3>1, <3>2
  <2>8. areas'[1].path = <<1>>
    BY <1>1, <2>3 DEF AreasInv
  <2> QED  BY <1>1, <1>2, <1>3, <1>4, <1>6, <2>3, <2>6, <2>7, <2>8 DEF AreasInv, AIdle
<1> QED  BY <1>5, <1>6 DEF InsertArea

\* Every step of a request keeps the invariant.
LEMMA AreasStep ==
    ASSUME AreasInv, [AreasNext]_areaVars
    PROVE  AreasInv'
<1>1. areq \in [AreaRequests -> AreaRequestType] /\ sequence \in Nat
  BY DEF AreasInv
<1>2. CASE UNCHANGED areaVars
  BY <1>2 DEF areaVars, AreasInv, InPlace
<1>3. ASSUME NEW p \in AreaRequests, NEW id \in AreaIDs, NEW name \in AreaNames, LoadParent(p, id, name)
      PROVE  AreasInv'
  <2> DEFINE r == [AIdle EXCEPT !.pc = "number", !.parent = areas[id].path, !.name = name]
  <2>1. id \in 1..Len(areas) /\ AreaOf(id) = areas[id]
    BY AreaIsFound
  <2>2. areas[id] \in AreaType
    BY <2>1 DEF AreasInv
  <2>3. r \in AreaRequestType
    <3>1. AIdle \in AreaRequestType
      BY DEF AIdle, AreaRequestType
    <3>2. areas[id].path \in Seq(Nat)
      BY <2>2 DEF AreaType
    <3> QED  BY <3>1, <3>2 DEF AreaRequestType
  <2>4. areq' = [areq EXCEPT ![p] = r]
    BY <1>3, <2>1 DEF LoadParent
  <2>5. \A q \in AreaRequests : areq[q].pc = "insert" => sequenceLock = q
    BY DEF AreasInv
  <2>6. sequenceLock' = sequenceLock /\ sequenceLock \in AreaRequests \cup {NoArea} /\ UNCHANGED <<areas, sequence>>
    BY <1>3 DEF LoadParent, AreasInv
  <2>7. r.pc = "number" /\ r.parent = areas[id].path
    BY DEF AIdle
  <2> HIDE DEF r
  <2> QED  BY <2>1, <2>3, <2>4, <2>5, <2>6, <2>7, AreaRequestMoves
<1>4. ASSUME NEW p \in AreaRequests, NextNumber(p)
      PROVE  AreasInv'
  <2> DEFINE r == [areq[p] EXCEPT !.pc = "insert", !.number = sequence + 1]
  <2>1. \A q \in AreaRequests : areq[q].pc # "insert"
    BY <1>4, AreasAssumption DEF NextNumber, AreasInv
  <2>2. r \in AreaRequestType /\ r.pc = "insert" /\ r.number = sequence + 1 /\ r.parent = areq[p].parent
    <3>1. areq[p] \in AreaRequestType /\ sequence + 1 \in Nat
      BY <1>1
    <3> QED  BY <3>1 DEF AreaRequestType
  <2>3. areq' = [areq EXCEPT ![p] = r] /\ sequenceLock' = p /\ UNCHANGED <<areas, sequence>>
    BY <1>1, <1>4 DEF NextNumber
  <2>4. \E j \in 1..Len(areas) : areq[p].parent = areas[j].path
    BY <1>4 DEF NextNumber, AreasInv
  <2> HIDE DEF r
  <2> QED  BY <2>1, <2>2, <2>3, <2>4, AreaRequestMoves
<1>5. ASSUME NEW p \in AreaRequests, RollBackArea(p)
      PROVE  AreasInv'
  <2>1. AIdle \in AreaRequestType /\ AIdle.pc = "idle"
    BY DEF AIdle, AreaRequestType
  <2>2. /\ areq' = [areq EXCEPT ![p] = AIdle] /\ UNCHANGED <<areas, sequence>>
        /\ sequenceLock' = IF sequenceLock = p THEN NoArea ELSE sequenceLock
    BY <1>5 DEF RollBackArea
  <2>3. sequenceLock \in AreaRequests \cup {NoArea} /\ \A q \in AreaRequests : areq[q].pc = "insert" => sequenceLock = q
    BY DEF AreasInv
  <2> QED  BY <2>1, <2>2, <2>3, AreaRequestMoves
<1> QED  BY <1>2, <1>3, <1>4, <1>5, AreaInserted DEF AreasNext

\* Numbers stay dense and the areas a tree, with the names above each one resolved, for any number of
\* requests, names and areas: CreateChild (controller/space_areas.go, area.go) takes the number in the
\* transaction that inserts the area.
THEOREM AreasStaySound == AreasSpec => []AreasAreSound
<1>1. AreasInit => AreasInv
  <2> SUFFICES ASSUME AreasInit PROVE AreasInv
    OBVIOUS
  <2>1. <<1>> \in Seq(Nat) /\ Len(<<1>>) = 1
    OBVIOUS
  <2>2. /\ areas \in Seq(AreaType) /\ Len(areas) = 1
        /\ areas[1] = [path |-> <<1>>, name |-> NoArea, number |-> 1]
    <3>1. [path |-> <<1>>, name |-> NoArea, number |-> 1] \in AreaType
      BY <2>1 DEF AreaType
    <3> QED  BY <3>1 DEF AreasInit
  <2>3. InPlace(1)
    BY <2>1, <2>2 DEF InPlace
  <2> QED  BY <2>2, <2>3 DEF AreasInit, AreasInv, AIdle, AreaRequestType
<1> QED  BY <1>1, AreasStep, AreasInvSound, PTL DEF AreasSpec
===============================================================================
