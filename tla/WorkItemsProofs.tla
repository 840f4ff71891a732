--------------------------- MODULE WorkItemsProofs ---------------------------
(***************************************************************************)
(* Optimistic locking loses no update, for any number of requests, work    *)
(* items, versions and items per reorder request.                          *)
(*                                                                         *)
(* The inductive invariant follows the copies: the copy a request works on *)
(* holds all changes up to the version it was read with, that version is   *)
(* at least the one the client sent and at most the one the transaction    *)
(* sees now.  So when the check finds the client's version to be the one   *)
(* seen now, the copy is not stale.  And it follows the revisions: their   *)
(* versions grow, from the committed ones to those that are pending.       *)
(***************************************************************************)
EXTENDS WorkItems, SequenceTheorems, TLAPS, FiniteSetTheorems

\* What a transaction wrote about a row, it wrote with the row's lock; it contains
\* every change up to its version and is not older than the committed row.
PendingOK ==
    \A c \in Clients, i \in Items : pending[c][i] # <<>> =>
        /\ rowLock[i] = c
        /\ View(c, i).fields = 1 .. View(c, i).version
        /\ rows[i].version <= View(c, i).version

\* The copy of c, to be saved to i under the client's version v.
CopyOK(c, i, v) ==
    /\ loaded[c].fields = 1 .. loaded[c].version
    /\ v <= loaded[c].version
    /\ loaded[c].version <= View(c, i).version

CopyFits(c) ==
    /\ pc[c] = "up_save" => CopyOK(c, req[c].item, req[c].version)
    /\ pc[c] \in {"re_check", "re_save"} => CopyOK(c, req[c][1].item, req[c][1].version)
    /\ pc[c] \in ReorderPCs =>
         \A k \in 1 .. Len(req[c]) : req[c][k].version <= View(c, req[c][k].item).version

CopiesOK == \A c \in Clients : CopyFits(c)

\* The updates among some revisions make ever higher versions, after version lo and up to hi.
Ordered(revs, lo, hi) ==
    \A k \in DOMAIN revs : revs[k].type = "update" =>
        /\ lo < revs[k].version /\ revs[k].version <= hi
        /\ \A l \in DOMAIN revs : k < l /\ revs[l].type = "update" => revs[k].version < revs[l].version

RevisionsIn(writes) == [k \in DOMAIN writes |-> writes[k].rev]

\* Every update that was accepted made a version of its own, and so will the pending ones.
HistoryOK ==
    \A i \in Items :
        /\ Ordered(revisions[i], 0, rows[i].version)
        /\ \A c \in Clients : Ordered(RevisionsIn(pending[c][i]), rows[i].version, View(c, i).version)

IInv == TypeOK /\ FieldsComplete /\ PendingOK /\ CopiesOK /\ HistoryOK

\* The last element of a sequence is one of its elements.
LEMMA LastElement ==
    ASSUME NEW S, NEW seq \in Seq(S), seq # <<>>
    PROVE  seq[Len(seq)] \in S
OBVIOUS

\* Append makes a longer sequence that ends with the new element.
LEMMA AppendElement ==
    ASSUME NEW S, NEW seq \in Seq(S), NEW e \in S
    PROVE  /\ Append(seq, e) \in Seq(S)
           /\ Append(seq, e) # <<>>
           /\ Append(seq, e)[Len(Append(seq, e))] = e
OBVIOUS

\* What is left of a sequence after its first element.
LEMMA TailElement ==
    ASSUME NEW S, NEW seq \in Seq(S), seq # <<>>
    PROVE  /\ Tail(seq) \in Seq(S)
           /\ Len(Tail(seq)) = Len(seq) - 1
           /\ Len(seq) # 1 => Tail(seq) # <<>>
           /\ \A k \in 1 .. Len(Tail(seq)) : Tail(seq)[k] = seq[k + 1] /\ k + 1 \in 1 .. Len(seq)
<1>1. /\ Tail(seq) \in Seq(S)
      /\ Len(Tail(seq)) = Len(seq) - 1
      /\ \A k \in 1 .. Len(Tail(seq)) : Tail(seq)[k] = seq[k + 1]
  BY HeadTailProperties
<1>2. Len(seq) \in Nat /\ Len(seq) # 0
  BY EmptySeq
<1> QED BY <1>1, <1>2

\* The revisions of a transaction's writes.
LEMMA RevisionsOf ==
    ASSUME NEW seq \in Seq(WriteRec)
    PROVE  [k \in DOMAIN seq |-> seq[k].rev] \in Seq(Revision)
<1>1. DOMAIN seq = 1 .. Len(seq) /\ Len(seq) \in Nat
  OBVIOUS
<1>2. \A k \in 1 .. Len(seq) : seq[k].rev \in Revision
  <2>1. \A k \in 1 .. Len(seq) : seq[k] \in WriteRec
    OBVIOUS
  <2> QED BY <2>1 DEF WriteRec
<1>3. [k \in 1 .. Len(seq) |-> seq[k].rev] \in [1 .. Len(seq) -> Revision]
  BY <1>2
<1>4. \A f : f \in [1 .. Len(seq) -> Revision] => f \in Seq(Revision)
  BY <1>1
<1> QED BY <1>1, <1>3, <1>4

\* A further write keeps the pending updates in order.
LEMMA OrderedAppend ==
    ASSUME NEW seq \in Seq(WriteRec), NEW w \in WriteRec, NEW lo \in Nat, NEW mid \in Nat, NEW hi \in Nat,
           lo <= mid, mid <= hi, Ordered(RevisionsIn(seq), lo, mid),
           w.rev.type = "update" => mid < w.rev.version /\ w.rev.version <= hi
    PROVE  Ordered(RevisionsIn(Append(seq, w)), lo, hi)
<1> DEFINE new == Append(seq, w)
           n == Len(seq)
<1>1. /\ n \in Nat /\ DOMAIN seq = 1 .. n /\ DOMAIN new = 1 .. n + 1 /\ new \in Seq(WriteRec)
      /\ \A k \in 1 .. n : new[k] = seq[k] /\ seq[k] \in WriteRec
      /\ new[n + 1] = w
  OBVIOUS
<1>2. \A x \in WriteRec : x.rev.version \in Nat
  BY WorkItemsAssumption DEF WriteRec, Revision, Versions
<1>3. \A k \in 1 .. n : RevisionsIn(seq)[k] = seq[k].rev
  BY <1>1 DEF RevisionsIn
<1>4. DOMAIN RevisionsIn(seq) = 1 .. n /\ DOMAIN RevisionsIn(new) = 1 .. n + 1
  BY <1>1 DEF RevisionsIn
<1>5. \A k \in 1 .. n : RevisionsIn(new)[k] = seq[k].rev
  BY <1>1 DEF RevisionsIn
<1>6. RevisionsIn(new)[n + 1] = w.rev
  BY <1>1 DEF RevisionsIn
<1> HIDE DEF new, n
<1>7. ASSUME NEW k \in 1 .. n, seq[k].rev.type = "update"
      PROVE  /\ lo < seq[k].rev.version /\ seq[k].rev.version <= mid
             /\ \A l \in 1 .. n : k < l /\ seq[l].rev.type = "update" => seq[k].rev.version < seq[l].rev.version
  BY <1>3, <1>4, <1>7 DEF Ordered
<1>8. ASSUME NEW k \in 1 .. n + 1, RevisionsIn(new)[k].type = "update"
      PROVE  /\ lo < RevisionsIn(new)[k].version /\ RevisionsIn(new)[k].version <= hi
             /\ \A l \in 1 .. n + 1 : k < l /\ RevisionsIn(new)[l].type = "update" =>
                  RevisionsIn(new)[k].version < RevisionsIn(new)[l].version
  <2>1. CASE k = n + 1
    BY <1>1, <1>2, <1>6, <1>8, <2>1
  <2>2. CASE k \in 1 .. n
    <3>1. /\ seq[k].rev.version \in Nat /\ w.rev.version \in Nat
          /\ lo < seq[k].rev.version /\ seq[k].rev.version <= mid
          /\ RevisionsIn(new)[k] = seq[k].rev
      BY <1>1, <1>2, <1>5, <1>7, <1>8, <2>2
    <3>2. ASSUME NEW l \in 1 .. n + 1, k < l, RevisionsIn(new)[l].type = "update"
          PROVE  RevisionsIn(new)[k].version < RevisionsIn(new)[l].version
      <4>1. CASE l = n + 1
        <5>1. RevisionsIn(new)[l] = w.rev
          BY <1>6, <4>1
        <5>2. mid < w.rev.version
          BY <3>2, <5>1
        <5> DEFINE x == seq[k].rev.version
                   y == w.rev.version
        <5>3. x \in Nat /\ y \in Nat /\ x <= mid /\ mid < y
          BY <3>1, <5>2
        <5> HIDE DEF x, y
        <5>4. x < y
          BY <5>3
        <5> QED BY <3>1, <5>1, <5>4 DEF x, y
      <4>2. CASE l \in 1 .. n
        BY <1>5, <1>7, <1>8, <2>2, <3>1, <3>2, <4>2
      <4> QED BY <1>1, <4>1, <4>2
    <3>3. seq[k].rev.version <= hi
      BY <3>1
    <3> QED BY <3>1, <3>2, <3>3
  <2> QED BY <1>1, <2>1, <2>2
<1> QED BY <1>4, <1>8 DEF Ordered, new

\* What is committed follows what was committed before.
LEMMA OrderedConcat ==
    ASSUME NEW old \in Seq(Revision), NEW new \in Seq(Revision), NEW mid \in Nat, NEW hi \in Nat,
           mid <= hi, Ordered(old, 0, mid), Ordered(new, mid, hi)
    PROVE  Ordered(old \o new, 0, hi)
<1> DEFINE all == old \o new
           m == Len(old)
           n == Len(new)
<1>1. /\ m \in Nat /\ n \in Nat /\ DOMAIN old = 1 .. m /\ DOMAIN new = 1 .. n /\ DOMAIN all = 1 .. m + n
      /\ \A k \in 1 .. m + n : all[k] = IF k <= m THEN old[k] ELSE new[k - m]
  OBVIOUS
<1>2. /\ \A k \in 1 .. m : old[k].version \in Nat
      /\ \A k \in 1 .. n : new[k].version \in Nat
  <2>1. (\A k \in 1 .. m : old[k] \in Revision) /\ (\A k \in 1 .. n : new[k] \in Revision)
    OBVIOUS
  <2> QED BY <2>1, WorkItemsAssumption DEF Revision, Versions
<1> HIDE DEF all, m, n
<1>3. \A k \in 1 .. m : old[k].type = "update" =>
        /\ 0 < old[k].version /\ old[k].version <= mid
        /\ \A l \in 1 .. m : k < l /\ old[l].type = "update" => old[k].version < old[l].version
  BY <1>1 DEF Ordered
<1>4. \A k \in 1 .. n : new[k].type = "update" =>
        /\ mid < new[k].version /\ new[k].version <= hi
        /\ \A l \in 1 .. n : k < l /\ new[l].type = "update" => new[k].version < new[l].version
  BY <1>1 DEF Ordered
<1>5. ASSUME NEW k \in 1 .. m + n, all[k].type = "update"
      PROVE  /\ 0 < all[k].version /\ all[k].version <= hi
             /\ \A l \in 1 .. m + n : k < l /\ all[l].type = "update" => all[k].version < all[l].version
  <2>1. CASE k <= m
    <3>1. k \in 1 .. m /\ all[k] = old[k]
      BY <1>1, <2>1
    <3>2. ASSUME NEW l \in 1 .. m + n, k < l, all[l].type = "update" PROVE all[k].version < all[l].version
      <4>1. CASE l <= m
        BY <1>1, <1>3, <1>5, <3>1, <3>2, <4>1
      <4>2. CASE l > m
        <5>1. l - m \in 1 .. n /\ all[l] = new[l - m]
          BY <1>1, <4>2
        <5>2. old[k].version <= mid /\ old[k].version \in Nat
          BY <1>2, <1>3, <1>5, <3>1
        <5>3. mid < new[l - m].version /\ new[l - m].version \in Nat
          BY <1>2, <1>4, <3>2, <5>1
        <5> DEFINE x == old[k].version
                   y == new[l - m].version
        <5>4. x \in Nat /\ y \in Nat /\ x <= mid /\ mid < y
          BY <5>2, <5>3
        <5> HIDE DEF x, y
        <5>5. x < y
          BY <5>4
        <5> QED BY <3>1, <5>1, <5>5 DEF x, y
      <4> QED BY <1>1, <4>1, <4>2
    <3> QED BY <1>2, <1>3, <1>5, <3>1, <3>2
  <2>2. CASE k > m
    <3>1. k - m \in 1 .. n /\ all[k] = new[k - m]
      BY <1>1, <2>2
    <3>2. ASSUME NEW l \in 1 .. m + n, k < l, all[l].type = "update" PROVE all[k].version < all[l].version
      <4>1. l - m \in 1 .. n /\ all[l] = new[l - m] /\ k - m < l - m
        BY <1>1, <2>2, <3>2
      <4> QED BY <1>4, <1>5, <3>1, <3>2, <4>1
    <3> QED BY <1>2, <1>4, <1>5, <3>1, <3>2
  <2> QED BY <1>1, <2>1, <2>2
<1> QED BY <1>1, <1>5 DEF Ordered, all

\* A transaction that has written nothing has no pending updates.
LEMMA OrderedEmpty == ASSUME NEW lo, NEW hi PROVE Ordered(RevisionsIn(<<>>), lo, hi)
BY DEF Ordered, RevisionsIn

\* What a transaction sees is a row.
LEMMA ViewType ==
    ASSUME TypeOK, NEW c \in Clients, NEW i \in Items
    PROVE  /\ View(c, i) \in Row
           /\ View(c, i).version \in Versions /\ View(c, i).version \in Nat
           /\ rows[i].version \in Versions /\ rows[i].version \in Nat
<1>0. Versions \subseteq Nat
  BY WorkItemsAssumption DEF Versions
<1>1. CASE pending[c][i] = <<>>
  BY <1>0, <1>1 DEF TypeOK, View, Row
<1>2. CASE pending[c][i] # <<>>
  <2>1. pending[c][i] \in Seq(WriteRec)
    BY DEF TypeOK
  <2>2. pending[c][i][Len(pending[c][i])] \in WriteRec
    BY <1>2, <2>1, LastElement
  <2> QED BY <1>0, <1>2, <2>2 DEF TypeOK, View, Row, WriteRec
<1> QED BY <1>1, <1>2

\* What Write does to what the transactions see.
LEMMA WriteView ==
    ASSUME TypeOK, NEW c \in Clients, NEW i \in Items, NEW row \in Row, NEW rev \in Revision,
           Write(c, i, row, rev), UNCHANGED rows
    PROVE  /\ pending' \in [Clients -> [Items -> Seq(WriteRec)]]
           /\ pending'[c][i] # <<>>
           /\ View(c, i)' = row
           /\ \A b \in Clients, j \in Items : b # c \/ j # i =>
                /\ pending'[b][j] = pending[b][j]
                /\ View(b, j)' = View(b, j)
<1> DEFINE w == [row |-> row, rev |-> rev]
<1>1. w \in WriteRec /\ w.row = row
  BY DEF WriteRec
<1> HIDE DEF w
<1>2. pending' = [pending EXCEPT ![c] = [pending[c] EXCEPT ![i] = Append(pending[c][i], w)]]
  BY DEF Write, w, TypeOK
<1>3. pending[c] \in [Items -> Seq(WriteRec)] /\ pending \in [Clients -> [Items -> Seq(WriteRec)]]
  BY DEF TypeOK
<1>4. pending'[c][i] = Append(pending[c][i], w)
  BY <1>2, <1>3
<1>5. Append(pending[c][i], w) \in Seq(WriteRec)
  BY <1>1, <1>3, AppendElement
<1>6. pending' \in [Clients -> [Items -> Seq(WriteRec)]]
  BY <1>2, <1>3, <1>5
<1>7. /\ Append(pending[c][i], w) # <<>>
      /\ Append(pending[c][i], w)[Len(Append(pending[c][i], w))] = w
  BY <1>1, <1>3, AppendElement
<1>8. View(c, i)' = row
  BY <1>1, <1>4, <1>7 DEF View
<1>9. \A b \in Clients, j \in Items : b # c \/ j # i => pending'[b][j] = pending[b][j]
  BY <1>2, <1>3
<1> QED BY <1>4, <1>6, <1>7, <1>8, <1>9 DEF View

------------------------------------------------------------------------------
\* Only a commit changes what another transaction sees, and never to an older version.
LEMMA CommitView ==
    ASSUME IInv, NEW b \in Clients, Commit(b)
    PROVE  /\ FieldsComplete'
           /\ \A i \in Items : rows'[i] = View(b, i) /\ rows[i].version <= rows'[i].version
           /\ \A c \in Clients, i \in Items : c # b =>
                /\ pending'[c][i] = pending[c][i]
                /\ pending[c][i] # <<>> => rows'[i] = rows[i] /\ View(c, i)' = View(c, i)
                /\ View(c, i).version <= View(c, i)'.version
<1>1. \A i \in Items : rows'[i] = View(b, i)
  BY DEF Commit
<1>2. \A i \in Items : /\ View(b, i).fields = 1 .. View(b, i).version
                       /\ rows[i].version <= View(b, i).version
  <2> TAKE i \in Items
  <2>1. CASE pending[b][i] = <<>>
    BY <2>1, ViewType DEF IInv, FieldsComplete, View
  <2>2. CASE pending[b][i] # <<>>
    BY <2>2 DEF IInv, PendingOK
  <2> QED BY <2>1, <2>2
<1>3. FieldsComplete'
  BY <1>1, <1>2 DEF FieldsComplete
<1>4. ASSUME NEW c \in Clients, NEW i \in Items, c # b
      PROVE  /\ pending'[c][i] = pending[c][i]
             /\ pending[c][i] # <<>> => rows'[i] = rows[i] /\ View(c, i)' = View(c, i)
             /\ View(c, i).version <= View(c, i)'.version
  <2>1. pending'[c][i] = pending[c][i]
    BY <1>4 DEF Commit, Answer, IInv, TypeOK
  <2>2. CASE pending[c][i] # <<>>
    <3>1. pending[b][i] = <<>>
      BY <1>4, <2>2 DEF IInv, PendingOK
    <3>2. rows'[i] = rows[i] /\ View(c, i)' = View(c, i)
      BY <1>1, <2>1, <2>2, <3>1 DEF View
    <3> QED BY <2>1, <3>2, ViewType DEF IInv
  <2>3. CASE pending[c][i] = <<>>
    BY <1>1, <1>2, <2>1, <2>3 DEF View
  <2> QED BY <2>1, <2>2, <2>3
<1> QED BY <1>1, <1>2, <1>3, <1>4

------------------------------------------------------------------------------
(* Type correctness. *)

\* What a step of c leaves alone: the other requests.
OthersWait(c) ==
    /\ DOMAIN pc' = Clients /\ DOMAIN req' = Clients /\ DOMAIN loaded' = Clients
    /\ \A b \in Clients \ {c} : pc'[b] = pc[b] /\ req'[b] = req[b] /\ loaded'[b] = loaded[b]

RequestTypes ==
    /\ pc \in [Clients -> PCs]
    /\ DOMAIN req = Clients /\ DOMAIN loaded = Clients
    /\ \A c \in Clients : RequestOK(pc[c], req[c], loaded[c])

LockTypes == rowLock \in [Items -> Clients \cup {None}] /\ numberLock \in [Spaces -> Clients \cup {None}]

TableTypes ==
    /\ rows \in [Items -> Row]
    /\ revisions \in [Items -> Seq(Revision)]
    /\ lastNumber \in [Spaces -> Nat]

PendingTypes == pending \in [Clients -> [Items -> Seq(WriteRec)]]

LEMMA TypeParts == TypeOK <=> RequestTypes /\ LockTypes /\ TableTypes /\ PendingTypes
BY DEF TypeOK, RequestTypes, LockTypes, TableTypes, PendingTypes

LEMMA TypePartsNext ==
    ASSUME RequestTypes', LockTypes', TableTypes', PendingTypes' PROVE TypeOK'
BY DEF TypeOK, RequestTypes, LockTypes, TableTypes, PendingTypes

\* A step of c that leaves the other requests alone and fits itself.
LEMMA RequestStep ==
    ASSUME RequestTypes, NEW c \in Clients, OthersWait(c), pc' = [pc EXCEPT ![c] = pc'[c]],
           pc'[c] \in PCs, RequestOK(pc'[c], req'[c], loaded'[c])
    PROVE  RequestTypes'
BY DEF RequestTypes, OthersWait

LEMMA AnswerTypes ==
    ASSUME RequestTypes, LockTypes, PendingTypes, NEW c \in Clients, Answer(c)
    PROVE  RequestTypes' /\ LockTypes' /\ PendingTypes'
<1>1. OthersWait(c) /\ pc' = [pc EXCEPT ![c] = pc'[c]] /\ pc'[c] = "idle" /\ loaded'[c] = NothingLoaded
  BY DEF RequestTypes, Answer, OthersWait
<1>2. RequestOK(pc'[c], req'[c], loaded'[c]) /\ pc'[c] \in PCs
  BY <1>1 DEF RequestOK, NothingLoaded, Copy, PCs, CreatePCs, UpdatePCs, ReorderPCs, DeletePCs
<1>3. PendingTypes'
  <2>1. NothingWritten \in [Items -> Seq(WriteRec)]
    BY DEF NothingWritten
  <2> HIDE DEF NothingWritten
  <2> QED BY <2>1 DEF Answer, PendingTypes
<1>4. LockTypes'
  BY DEF Answer, LockTypes
<1> QED BY <1>1, <1>2, <1>3, <1>4, RequestStep

\* The version of the next change is a version, and its row and revision are well formed.
LEMMA ChangeTypes ==
    ASSUME TypeOK, NEW c \in Clients, NEW i \in Items, NEW v \in -1 .. MaxVersion
    PROVE  /\ [View(c, i) EXCEPT !.version = v + 1, !.fields = loaded[c].fields \cup {v + 1}] \in Row
           /\ [type |-> "update", version |-> v + 1, fields |-> loaded[c].fields \cup {v + 1}] \in Revision
<1>1. v + 1 \in Versions
  BY WorkItemsAssumption DEF Versions
<1>2. loaded[c].fields \cup {v + 1} \in SUBSET Versions
  BY <1>1 DEF TypeOK, RequestOK, Copy
<1>3. View(c, i) \in Row
  BY ViewType
<1> HIDE DEF Versions
<1> QED BY <1>1, <1>2, <1>3 DEF Row, Revision

\* Every step keeps the types.
LEMMA TypeStep == TypeOK /\ [Next]_vars => TypeOK'
<1> SUFFICES ASSUME TypeOK, [Next]_vars PROVE TypeOK'
  OBVIOUS
<1>a. Versions \subseteq Nat /\ 0 \in Versions
  BY WorkItemsAssumption DEF Versions
<1>p. RequestTypes /\ LockTypes /\ TableTypes /\ PendingTypes
  BY TypeParts
<1>k. ASSUME NEW c \in Clients PROVE RequestOK(pc[c], req[c], loaded[c])
  BY <1>p DEF RequestTypes
<1>t. ASSUME UNCHANGED tables PROVE TableTypes'
  BY <1>p, <1>t DEF TableTypes, tables
<1>r. ASSUME NEW c \in Clients, Rollback(c) PROVE TypeOK'
  BY <1>p, <1>r, <1>t, AnswerTypes, TypePartsNext DEF Rollback
<1>l. ASSUME NEW i \in Items, NEW c \in Clients, rowLock' = [rowLock EXCEPT ![i] = c], UNCHANGED numberLock
      PROVE  LockTypes'
  BY <1>p, <1>l DEF LockTypes
<1>u. ASSUME UNCHANGED <<locks, pending>> PROVE LockTypes' /\ PendingTypes'
  BY <1>p, <1>u DEF LockTypes, PendingTypes, locks
<1>1. ASSUME NEW c \in Clients, ReceiveCreate(c) PROVE TypeOK'
  <2>1. OthersWait(c) /\ pc' = [pc EXCEPT ![c] = pc'[c]] /\ pc'[c] = "cr_nextval" /\ req'[c] \in Spaces /\ loaded'[c] = loaded[c]
    BY <1>1, <1>p DEF RequestTypes, ReceiveCreate, Goto, OthersWait
  <2>2. RequestOK(pc'[c], req'[c], loaded'[c]) /\ pc'[c] \in PCs
    BY <2>1, <1>k DEF RequestOK, PCs, CreatePCs, UpdatePCs, ReorderPCs, DeletePCs
  <2> QED BY <1>1, <2>1, <2>2, <1>p, <1>t, <1>u, RequestStep, TypePartsNext DEF ReceiveCreate
<1>2. ASSUME NEW c \in Clients, NextVal(c) PROVE TypeOK'
  <2>1. OthersWait(c) /\ pc' = [pc EXCEPT ![c] = pc'[c]] /\ pc'[c] = "cr_insert" /\ req'[c] = req[c] /\ loaded'[c] = loaded[c]
    BY <1>2, <1>p DEF RequestTypes, NextVal, Goto, OthersWait
  <2>2. RequestOK(pc'[c], req'[c], loaded'[c]) /\ pc'[c] \in PCs
    BY <1>2, <2>1, <1>k DEF NextVal, RequestOK, PCs, CreatePCs, UpdatePCs, ReorderPCs, DeletePCs
  <2>3. LockTypes' /\ PendingTypes'
    BY <1>2, <1>p DEF NextVal, LockTypes, PendingTypes
  <2> QED BY <1>2, <2>1, <2>2, <2>3, <1>p, <1>t, RequestStep, TypePartsNext DEF NextVal
<1>3. ASSUME NEW c \in Clients, InsertWorkItem(c) PROVE TypeOK'
  <2>1. CASE Rollback(c)
    BY <1>r, <2>1
  <2>2. CASE ~Rollback(c)
    <3> DEFINE row == [status |-> "live", version |-> 0, fields |-> {},
                       space |-> req[c], number |-> lastNumber[req[c]] + 1]
               rev == [type |-> "create", version |-> 0, fields |-> {}]
    <3>1. PICK i \in Items : /\ rowLock' = [rowLock EXCEPT ![i] = c]
                             /\ Write(c, i, row, rev)
                             /\ Goto(c, "commit")
                             /\ UNCHANGED <<tables, numberLock, req, loaded>>
      BY <1>3, <2>2 DEF InsertWorkItem
    <3>2. row \in Row /\ rev \in Revision
      <4>1. req[c] \in Spaces
        BY <1>3, <1>k DEF InsertWorkItem, RequestOK, CreatePCs
      <4>2. lastNumber[req[c]] + 1 \in Nat
        BY <4>1, <1>p DEF TableTypes
      <4> QED BY <4>1, <4>2, <1>a DEF Row, Revision
    <3> HIDE DEF row, rev
    <3>3. PendingTypes'
      BY <3>1, <3>2, WriteView DEF tables, PendingTypes
    <3>4. OthersWait(c) /\ pc' = [pc EXCEPT ![c] = pc'[c]] /\ pc'[c] = "commit" /\ req'[c] = req[c] /\ loaded'[c] = loaded[c]
      BY <3>1, <1>p DEF RequestTypes, Goto, OthersWait
    <3>5. RequestOK(pc'[c], req'[c], loaded'[c]) /\ pc'[c] \in PCs
      BY <3>4, <1>k DEF RequestOK, PCs, CreatePCs, UpdatePCs, ReorderPCs, DeletePCs
    <3> QED BY <3>1, <3>3, <3>4, <3>5, <1>p, <1>t, <1>l, RequestStep, TypePartsNext
  <2> QED BY <2>1, <2>2
<1>4. ASSUME NEW c \in Clients, LoadForUpdate(c) PROVE TypeOK'
  <2>1. PICK i \in Items : \E v \in VersionsRead(i) :
           /\ req' = [req EXCEPT ![c] = [item |-> i, version |-> v]]
           /\ loaded' = [loaded EXCEPT ![c] = [version |-> rows[i].version, fields |-> rows[i].fields]]
    BY <1>4 DEF LoadForUpdate
  <2>2. PICK v \in VersionsRead(i) :
           /\ req' = [req EXCEPT ![c] = [item |-> i, version |-> v]]
           /\ loaded' = [loaded EXCEPT ![c] = [version |-> rows[i].version, fields |-> rows[i].fields]]
    BY <2>1
  <2>3. [item |-> i, version |-> v] \in Entry
    BY ViewType, WorkItemsAssumption DEF VersionsRead, Entry
  <2>4. [version |-> rows[i].version, fields |-> rows[i].fields] \in Copy
    BY <1>p DEF TableTypes, Row, Copy
  <2>5. /\ OthersWait(c) /\ pc' = [pc EXCEPT ![c] = pc'[c]] /\ pc'[c] = "up_save"
        /\ req'[c] \in Entry /\ loaded'[c] \in Copy
    BY <1>4, <2>2, <2>3, <2>4, <1>p DEF RequestTypes, LoadForUpdate, Goto, OthersWait
  <2>6. RequestOK(pc'[c], req'[c], loaded'[c]) /\ pc'[c] \in PCs
    BY <2>5 DEF RequestOK, PCs, CreatePCs, UpdatePCs, ReorderPCs, DeletePCs
  <2> QED BY <1>4, <2>5, <2>6, <1>p, <1>t, <1>u, RequestStep, TypePartsNext DEF LoadForUpdate
<1>5. ASSUME NEW c \in Clients, Save(c) PROVE TypeOK'
  <2>1. CASE Rollback(c)
    BY <1>r, <2>1
  <2>2. CASE ~Rollback(c)
    <3> DEFINE i == req[c].item
               v == req[c].version
    <3>1. i \in Items /\ v \in -1 .. MaxVersion
      BY <1>5, <1>k DEF Save, RequestOK, Entry, UpdatePCs
    <3>2. /\ rowLock' = [rowLock EXCEPT ![i] = c]
          /\ WriteChange(c, i, v)
          /\ Goto(c, "commit")
          /\ UNCHANGED <<tables, numberLock, req, loaded>>
      BY <1>5, <2>2 DEF Save
    <3> HIDE DEF i, v
    <3>3. PendingTypes'
      BY <3>1, <3>2, ChangeTypes, WriteView DEF WriteChange, tables, PendingTypes
    <3>4. OthersWait(c) /\ pc' = [pc EXCEPT ![c] = pc'[c]] /\ pc'[c] = "commit" /\ req'[c] = req[c] /\ loaded'[c] = loaded[c]
      BY <3>2, <1>p DEF RequestTypes, Goto, OthersWait
    <3>5. RequestOK(pc'[c], req'[c], loaded'[c]) /\ pc'[c] \in PCs
      BY <3>4, <1>k DEF RequestOK, PCs, CreatePCs, UpdatePCs, ReorderPCs, DeletePCs
    <3> QED BY <3>1, <3>2, <3>3, <3>4, <3>5, <1>p, <1>t, <1>l, RequestStep, TypePartsNext
  <2> QED BY <2>1, <2>2
<1>6. ASSUME NEW c \in Clients, ReceiveReorder(c) PROVE TypeOK'
  <2>1. PICK n \in 1 .. MaxReorder : \E entries \in [1 .. n -> Entry] : req' = [req EXCEPT ![c] = entries]
    BY <1>6 DEF ReceiveReorder
  <2>2. PICK entries \in [1 .. n -> Entry] : req' = [req EXCEPT ![c] = entries]
    BY <2>1
  <2>3. entries \in Seq(Entry) /\ entries # <<>>
    <3>1. n \in Nat /\ n # 0
      BY WorkItemsAssumption
    <3>2. entries \in Seq(Entry) /\ Len(entries) = n
      BY <3>1
    <3> QED BY <3>1, <3>2
  <2>4. /\ OthersWait(c) /\ pc' = [pc EXCEPT ![c] = pc'[c]] /\ pc'[c] = "re_load"
        /\ req'[c] = entries /\ loaded'[c] = loaded[c]
    BY <1>6, <2>2, <1>p DEF RequestTypes, ReceiveReorder, Goto, OthersWait
  <2>5. RequestOK(pc'[c], req'[c], loaded'[c]) /\ pc'[c] \in PCs
    BY <2>3, <2>4, <1>k DEF RequestOK, PCs, CreatePCs, UpdatePCs, ReorderPCs, DeletePCs
  <2> QED BY <1>6, <2>4, <2>5, <1>p, <1>t, <1>u, RequestStep, TypePartsNext DEF ReceiveReorder
<1>7. ASSUME NEW c \in Clients, LoadForReorder(c) PROVE TypeOK'
  <2>1. CASE Rollback(c)
    BY <1>r, <2>1
  <2>2. CASE ~Rollback(c)
    <3> DEFINE row == View(c, req[c][1].item)
    <3>0. req[c] \in Seq(Entry) /\ req[c] # <<>>
      BY <1>7, <1>k DEF LoadForReorder, RequestOK, ReorderPCs
    <3>1. req[c][1] \in Entry
      BY <3>0
    <3>2. row \in Row
      BY <3>1, ViewType DEF Entry
    <3>3. [version |-> row.version, fields |-> row.fields] \in Copy
      BY <3>2 DEF Row, Copy
    <3>4. /\ loaded' = [loaded EXCEPT ![c] = [version |-> row.version, fields |-> row.fields]]
          /\ Goto(c, "re_check")
          /\ UNCHANGED <<tables, locks, req, pending>>
      BY <1>7, <2>2 DEF LoadForReorder
    <3> HIDE DEF row
    <3>5. /\ OthersWait(c) /\ pc' = [pc EXCEPT ![c] = pc'[c]] /\ pc'[c] = "re_check"
          /\ req'[c] = req[c] /\ loaded'[c] \in Copy
      BY <3>3, <3>4, <1>p DEF RequestTypes, Goto, OthersWait
    <3>6. RequestOK(pc'[c], req'[c], loaded'[c]) /\ pc'[c] \in PCs
      BY <3>0, <3>5 DEF RequestOK, PCs, CreatePCs, UpdatePCs, ReorderPCs, DeletePCs
    <3> QED BY <3>4, <3>5, <3>6, <1>p, <1>t, <1>u, RequestStep, TypePartsNext
  <2> QED BY <2>1, <2>2
<1>8. ASSUME NEW c \in Clients, ReorderCheck(c) PROVE TypeOK'
  <2>1. CASE Rollback(c)
    BY <1>r, <2>1
  <2>2. CASE ~Rollback(c)
    <3>1. Goto(c, "re_save") /\ UNCHANGED <<tables, locks, req, loaded, pending>> /\ pc[c] = "re_check"
      BY <1>8, <2>2 DEF ReorderCheck
    <3>2. /\ OthersWait(c) /\ pc' = [pc EXCEPT ![c] = pc'[c]] /\ pc'[c] = "re_save"
          /\ req'[c] = req[c] /\ loaded'[c] = loaded[c]
      BY <3>1, <1>p DEF RequestTypes, Goto, OthersWait
    <3>3. RequestOK(pc'[c], req'[c], loaded'[c]) /\ pc'[c] \in PCs
      BY <3>1, <3>2, <1>k DEF RequestOK, PCs, CreatePCs, UpdatePCs, ReorderPCs, DeletePCs
    <3> QED BY <3>1, <3>2, <3>3, <1>p, <1>t, <1>u, RequestStep, TypePartsNext
  <2> QED BY <2>1, <2>2
<1>9. ASSUME NEW c \in Clients, ReorderSave(c) PROVE TypeOK'
  <2>1. CASE Rollback(c)
    BY <1>r, <2>1
  <2>2. CASE ~Rollback(c)
    <3> DEFINE i == req[c][1].item
               v == req[c][1].version
               label == IF Len(req[c]) = 1 THEN "commit" ELSE "re_load"
    <3>0. req[c] \in Seq(Entry) /\ req[c] # <<>>
      BY <1>9, <1>k DEF ReorderSave, RequestOK, ReorderPCs
    <3>1. i \in Items /\ v \in -1 .. MaxVersion
      <4>1. req[c][1] \in Entry
        BY <3>0
      <4> QED BY <4>1 DEF Entry
    <3>2. /\ rowLock' = [rowLock EXCEPT ![i] = c]
          /\ WriteChange(c, i, v)
          /\ req' = [req EXCEPT ![c] = Tail(req[c])]
          /\ Goto(c, label)
          /\ UNCHANGED <<tables, numberLock, loaded>>
      BY <1>9, <2>2 DEF ReorderSave
    <3>3. label = "commit" \/ (label = "re_load" /\ Tail(req[c]) \in Seq(Entry) /\ Tail(req[c]) # <<>>)
      BY <3>0, TailElement
    <3> HIDE DEF i, v, label
    <3>4. PendingTypes'
      BY <3>1, <3>2, ChangeTypes, WriteView DEF WriteChange, tables, PendingTypes
    <3>5. OthersWait(c) /\ pc' = [pc EXCEPT ![c] = pc'[c]] /\ pc'[c] = label /\ req'[c] = Tail(req[c]) /\ loaded'[c] = loaded[c]
      BY <3>2, <1>p DEF RequestTypes, Goto, OthersWait
    <3>6. RequestOK(pc'[c], req'[c], loaded'[c]) /\ pc'[c] \in PCs
      BY <3>3, <3>5, <1>k DEF RequestOK, PCs, CreatePCs, UpdatePCs, ReorderPCs, DeletePCs
    <3> QED BY <3>1, <3>2, <3>4, <3>5, <3>6, <1>p, <1>t, <1>l, RequestStep, TypePartsNext
  <2> QED BY <2>1, <2>2
<1>10. ASSUME NEW c \in Clients, LoadForDelete(c) PROVE TypeOK'
  <2>1. /\ OthersWait(c) /\ pc' = [pc EXCEPT ![c] = pc'[c]] /\ pc'[c] = "de_read"
        /\ req'[c] \in Items /\ loaded'[c] = loaded[c]
    BY <1>10, <1>p DEF RequestTypes, LoadForDelete, Goto, OthersWait
  <2>2. RequestOK(pc'[c], req'[c], loaded'[c]) /\ pc'[c] \in PCs
    BY <2>1, <1>k DEF RequestOK, PCs, CreatePCs, UpdatePCs, ReorderPCs, DeletePCs
  <2> QED BY <1>10, <2>1, <2>2, <1>p, <1>t, <1>u, RequestStep, TypePartsNext DEF LoadForDelete
<1>11. ASSUME NEW c \in Clients, ReadForDelete(c) PROVE TypeOK'
  <2> DEFINE copy == [version |-> IF rows[req[c]].status = "live" THEN rows[req[c]].version ELSE 0, fields |-> {}]
  <2>0. req[c] \in Items
    BY <1>11, <1>k DEF ReadForDelete, RequestOK, DeletePCs
  <2>1. copy \in Copy /\ copy.version \in Versions
    BY <2>0, <1>a, <1>p DEF TableTypes, Row, Copy
  <2>2. loaded' = [loaded EXCEPT ![c] = copy]
    BY <1>11 DEF ReadForDelete
  <2> HIDE DEF copy
  <2>3. /\ OthersWait(c) /\ pc' = [pc EXCEPT ![c] = pc'[c]] /\ pc'[c] = "de_delete"
        /\ req'[c] = req[c] /\ loaded'[c] = copy
    BY <1>11, <2>2, <1>p DEF RequestTypes, ReadForDelete, Goto, OthersWait
  <2>4. RequestOK(pc'[c], req'[c], loaded'[c]) /\ pc'[c] \in PCs
    BY <2>0, <2>1, <2>3 DEF RequestOK, PCs, CreatePCs, UpdatePCs, ReorderPCs, DeletePCs
  <2> QED BY <1>11, <2>3, <2>4, <1>p, <1>t, <1>u, RequestStep, TypePartsNext DEF ReadForDelete
<1>12. ASSUME NEW c \in Clients, DeleteRow(c) PROVE TypeOK'
  <2>1. CASE Rollback(c)
    BY <1>r, <2>1
  <2>2. CASE ~Rollback(c)
    <3> DEFINE row == [rows[req[c]] EXCEPT !.status = "deleted"]
               rev == [type |-> "delete", version |-> loaded[c].version, fields |-> {}]
    <3>1. /\ rowLock' = [rowLock EXCEPT ![req[c]] = c]
          /\ Write(c, req[c], row, rev)
          /\ Goto(c, "commit")
          /\ UNCHANGED <<tables, numberLock, req, loaded>>
      BY <1>12, <2>2 DEF DeleteRow
    <3>2. req[c] \in Items /\ loaded[c].version \in Versions
      BY <1>12, <1>k DEF DeleteRow, RequestOK, DeletePCs
    <3>3. row \in Row /\ rev \in Revision
      BY <3>2, <1>p DEF TableTypes, Row, Revision
    <3> HIDE DEF row, rev
    <3>4. PendingTypes'
      BY <3>1, <3>2, <3>3, WriteView DEF tables, PendingTypes
    <3>5. OthersWait(c) /\ pc' = [pc EXCEPT ![c] = pc'[c]] /\ pc'[c] = "commit" /\ req'[c] = req[c] /\ loaded'[c] = loaded[c]
      BY <3>1, <1>p DEF RequestTypes, Goto, OthersWait
    <3>6. RequestOK(pc'[c], req'[c], loaded'[c]) /\ pc'[c] \in PCs
      BY <3>5, <1>k DEF RequestOK, PCs, CreatePCs, UpdatePCs, ReorderPCs, DeletePCs
    <3> QED BY <3>1, <3>2, <3>4, <3>5, <3>6, <1>p, <1>t, <1>l, RequestStep, TypePartsNext
  <2> QED BY <2>1, <2>2
<1>13. ASSUME NEW c \in Clients, Commit(c) PROVE TypeOK'
  <2>1. rows' \in [Items -> Row]
    BY <1>13, ViewType DEF Commit
  <2>2. revisions' \in [Items -> Seq(Revision)]
    <3>1. ASSUME NEW i \in Items
          PROVE  revisions[i] \o [k \in DOMAIN pending[c][i] |-> pending[c][i][k].rev] \in Seq(Revision)
      <4> DEFINE seq == pending[c][i]
      <4>1. seq \in Seq(WriteRec) /\ revisions[i] \in Seq(Revision)
        BY <1>p DEF PendingTypes, TableTypes
      <4> HIDE DEF seq
      <4>2. [k \in DOMAIN seq |-> seq[k].rev] \in Seq(Revision)
        BY <4>1, RevisionsOf
      <4>3. revisions[i] \o [k \in DOMAIN seq |-> seq[k].rev] \in Seq(Revision)
        BY <4>1, <4>2
      <4> QED BY <4>3 DEF seq
    <3> QED BY <1>13, <3>1 DEF Commit
  <2>3. lastNumber' \in [Spaces -> Nat]
    BY <1>13, <1>p DEF Commit, TableTypes
  <2> QED BY <1>13, <1>p, <2>1, <2>2, <2>3, AnswerTypes, TypePartsNext DEF Commit, TableTypes
<1>14. ASSUME NEW c \in Clients, Fault(c) \/ DeadlockVictim(c) PROVE TypeOK'
  BY <1>14, <1>r DEF Fault, DeadlockVictim
<1>15. CASE UNCHANGED vars
  BY <1>15 DEF vars, TypeOK
<1> QED BY <1>1, <1>2, <1>3, <1>4, <1>5, <1>6, <1>7, <1>8, <1>9, <1>10, <1>11, <1>12, <1>13, <1>14, <1>15
    DEF Next, Arrive, Proceed

------------------------------------------------------------------------------
(* The copies are not stale. *)

\* A transaction sees every change up to the version it sees, and it sees a committed
\* row that it has not locked.
LEMMA ViewFacts ==
    ASSUME IInv, NEW c \in Clients, NEW i \in Items
    PROVE  /\ View(c, i).fields = 1 .. View(c, i).version
           /\ rows[i].version <= View(c, i).version
           /\ rowLock[i] # c => pending[c][i] = <<>> /\ View(c, i) = rows[i]
<1>1. CASE pending[c][i] = <<>>
  BY <1>1, ViewType DEF IInv, FieldsComplete, View
<1>2. CASE pending[c][i] # <<>>
  BY <1>2 DEF IInv, PendingOK
<1> QED BY <1>1, <1>2

\* A request that does nothing keeps its copy fit while what it sees gets newer.
LEMMA WaitingFits ==
    ASSUME IInv, NEW b \in Clients,
           pc'[b] = pc[b], req'[b] = req[b], loaded'[b] = loaded[b],
           \A i \in Items : /\ View(b, i).version <= View(b, i)'.version
                           /\ View(b, i)'.version \in Nat
    PROVE  CopyFits(b)'
<1>1. CopyFits(b) /\ RequestOK(pc[b], req[b], loaded[b])
  BY DEF IInv, CopiesOK, TypeOK
<1>2. loaded[b].version \in Int
  BY <1>1, WorkItemsAssumption DEF RequestOK, Copy, Versions
<1>3. \A i \in Items : View(b, i).version \in Nat
  BY ViewType DEF IInv
<1>4. ASSUME NEW i \in Items, NEW v \in Int, v <= View(b, i).version PROVE v <= View(b, i)'.version
  BY <1>3, <1>4
<1>5. ASSUME NEW i \in Items, NEW v, CopyOK(b, i, v) PROVE CopyOK(b, i, v)'
  BY <1>2, <1>4, <1>5 DEF CopyOK
<1>6. CASE pc[b] = "up_save"
  <2>1. req[b].item \in Items
    BY <1>1, <1>6 DEF RequestOK, UpdatePCs, Entry
  <2>2. CopyOK(b, req[b].item, req[b].version)'
    BY <1>1, <1>5, <1>6, <2>1 DEF CopyFits, CopyOK
  <2> QED BY <1>6, <2>2 DEF CopyFits, ReorderPCs
<1>7. CASE pc[b] \in ReorderPCs
  <2>1. req[b] \in Seq(Entry) /\ req[b] # <<>>
    BY <1>1, <1>7 DEF RequestOK
  <2>2. \A k \in 1 .. Len(req[b]) : req[b][k].item \in Items /\ req[b][k].version \in Int
    <3>1. \A k \in 1 .. Len(req[b]) : req[b][k] \in Entry
      BY <2>1
    <3> QED BY <3>1, WorkItemsAssumption DEF Entry
  <2>3. 1 \in 1 .. Len(req[b])
    BY <2>1
  <2>4. pc[b] \in {"re_check", "re_save"} => CopyOK(b, req[b][1].item, req[b][1].version)'
    BY <1>1, <1>5, <2>2, <2>3 DEF CopyFits, CopyOK
  <2>5. \A k \in 1 .. Len(req[b]) : req[b][k].version <= View(b, req[b][k].item)'.version
    BY <1>1, <1>4, <1>7, <2>2 DEF CopyFits
  <2> QED BY <1>7, <2>4, <2>5 DEF CopyFits, ReorderPCs
<1>8. CASE pc[b] # "up_save" /\ pc[b] \notin ReorderPCs
  BY <1>8 DEF CopyFits, ReorderPCs
<1> QED BY <1>6, <1>7, <1>8

\* A step of c that changes no row.
LEMMA QuietStep ==
    ASSUME IInv, NEW c \in Clients, OthersWait(c), UNCHANGED <<rows, revisions, pending, rowLock>>, CopyFits(c)'
    PROVE  FieldsComplete' /\ PendingOK' /\ CopiesOK' /\ HistoryOK'
<1>1. \A b \in Clients, i \in Items : View(b, i)' = View(b, i)
  BY DEF View
<1>2. FieldsComplete'
  BY DEF IInv, FieldsComplete
<1>3. PendingOK'
  BY <1>1 DEF IInv, PendingOK
<1>4. ASSUME NEW b \in Clients \ {c} PROVE CopyFits(b)'
  BY <1>1, WaitingFits, ViewType DEF IInv, OthersWait
<1>5. HistoryOK'
  BY <1>1 DEF IInv, HistoryOK
<1> QED BY <1>2, <1>3, <1>4, <1>5 DEF CopiesOK

\* A step of c that changes a row which no other transaction has locked.
LEMMA WriteStep ==
    ASSUME IInv, NEW c \in Clients, NEW i \in Items, NEW row \in Row, NEW rev \in Revision,
           Write(c, i, row, rev), UNCHANGED <<rows, revisions>>,
           rowLock[i] \in {None, c}, rowLock' = [rowLock EXCEPT ![i] = c],
           row.fields = 1 .. row.version, View(c, i).version <= row.version,
           rev.type = "update" => View(c, i).version < rev.version /\ rev.version <= row.version,
           OthersWait(c), CopyFits(c)'
    PROVE  FieldsComplete' /\ PendingOK' /\ CopiesOK' /\ HistoryOK'
<1>0. TypeOK
  BY DEF IInv
<1>1. /\ pending'[c][i] # <<>>
      /\ View(c, i)' = row
      /\ \A b \in Clients, j \in Items : b # c \/ j # i =>
           pending'[b][j] = pending[b][j] /\ View(b, j)' = View(b, j)
  BY <1>0, WriteView
<1>2. FieldsComplete'
  BY DEF IInv, FieldsComplete
<1>3. \A b \in Clients \ {c} : pending[b][i] = <<>>
  BY WorkItemsAssumption DEF IInv, PendingOK
<1>4. row.version \in Nat
  BY WorkItemsAssumption DEF Row, Versions
<1>5. ASSUME NEW b \in Clients, NEW j \in Items, pending'[b][j] # <<>>
      PROVE  /\ rowLock'[j] = b
             /\ View(b, j)'.fields = 1 .. View(b, j)'.version
             /\ rows'[j].version <= View(b, j)'.version
  <2>1. CASE b = c /\ j = i
    <3>1. rows[i].version <= View(c, i).version /\ rows[i].version \in Nat /\ View(c, i).version \in Nat
      BY <1>0, ViewFacts, ViewType
    <3>2. rowLock'[i] = c
      BY <1>0 DEF TypeOK
    <3> QED BY <1>1, <1>4, <2>1, <3>1, <3>2
  <2>2. CASE b # c \/ j # i
    <3>1. pending[b][j] # <<>> /\ View(b, j)' = View(b, j)
      BY <1>1, <1>5, <2>2
    <3>2. j # i \/ b = c
      BY <1>3, <3>1
    <3>3. j # i
      BY <2>2, <3>2
    <3>4. rowLock'[j] = rowLock[j]
      BY <1>0, <3>3 DEF TypeOK
    <3> QED BY <3>1, <3>4 DEF IInv, PendingOK
  <2> QED BY <2>1, <2>2
<1>6. PendingOK'
  BY <1>5 DEF PendingOK
<1>7. ASSUME NEW b \in Clients \ {c} PROVE CopyFits(b)'
  BY <1>0, <1>1, WaitingFits, ViewType DEF OthersWait
<1>8. ASSUME NEW b \in Clients, NEW j \in Items
      PROVE  Ordered(RevisionsIn(pending'[b][j]), rows'[j].version, View(b, j)'.version)
  <2>1. CASE b = c /\ j = i
    <3> DEFINE seq == pending[c][i]
               w == [row |-> row, rev |-> rev]
               seen == View(c, i).version
    <3>1. seq \in Seq(WriteRec) /\ w \in WriteRec /\ w.rev = rev
      BY <1>0 DEF TypeOK, WriteRec
    <3>2. rows[i].version \in Nat /\ seen \in Nat /\ rows[i].version <= seen
      BY <1>0, ViewFacts, ViewType
    <3>3. Ordered(RevisionsIn(seq), rows[i].version, seen)
      BY DEF IInv, HistoryOK
    <3>4. pending'[c][i] = Append(seq, w) /\ View(c, i)'.version = row.version
      <4>1. pending'[c][i] = Append(seq, w)
        BY <1>0 DEF Write, TypeOK
      <4> QED BY <1>1, <4>1
    <3>5. seen <= row.version /\ (rev.type = "update" => seen < rev.version /\ rev.version <= row.version)
      OBVIOUS
    <3> HIDE DEF seq, w, seen
    <3>6. Ordered(RevisionsIn(Append(seq, w)), rows[i].version, row.version)
      BY <1>4, <3>1, <3>2, <3>3, <3>5, OrderedAppend
    <3> QED BY <2>1, <3>4, <3>6
  <2>2. CASE b # c \/ j # i
    BY <1>1, <2>2 DEF IInv, HistoryOK
  <2> QED BY <2>1, <2>2
<1>9. HistoryOK'
  BY <1>8 DEF IInv, HistoryOK
<1> QED BY <1>2, <1>6, <1>7, <1>9 DEF CopiesOK

\* What Answer does to the transactions.
LEMMA AnswerFacts ==
    ASSUME TypeOK, NEW c \in Clients, Answer(c)
    PROVE  /\ OthersWait(c)
           /\ CopyFits(c)'
           /\ \A i \in Items : /\ pending'[c][i] = <<>>
                               /\ rowLock[i] # c => rowLock'[i] = rowLock[i]
                               /\ \A b \in Clients \ {c} : pending'[b][i] = pending[b][i]
<1>1. OthersWait(c) /\ pc'[c] = "idle"
  BY DEF TypeOK, Answer, OthersWait
<1>2. CopyFits(c)'
  BY <1>1 DEF CopyFits, ReorderPCs
<1>3. \A i \in Items : pending'[c][i] = <<>>
  BY DEF TypeOK, Answer, NothingWritten
<1>4. \A i \in Items : rowLock[i] # c => rowLock'[i] = rowLock[i]
  BY DEF Answer
<1>5. \A i \in Items : \A b \in Clients \ {c} : pending'[b][i] = pending[b][i]
  BY DEF TypeOK, Answer
<1> QED BY <1>1, <1>2, <1>3, <1>4, <1>5

LEMMA RollbackStep ==
    ASSUME IInv, NEW c \in Clients, Rollback(c)
    PROVE  FieldsComplete' /\ PendingOK' /\ CopiesOK' /\ HistoryOK'
<1>0. TypeOK /\ Answer(c) /\ UNCHANGED <<rows, revisions>>
  BY DEF IInv, Rollback, tables
<1>1. \A b \in Clients \ {c}, i \in Items : pending'[b][i] = pending[b][i] /\ View(b, i)' = View(b, i)
  BY <1>0, AnswerFacts DEF View
<1>2. FieldsComplete'
  BY <1>0 DEF IInv, FieldsComplete
<1>3. ASSUME NEW b \in Clients, NEW i \in Items, pending'[b][i] # <<>>
      PROVE  /\ rowLock'[i] = b
             /\ View(b, i)'.fields = 1 .. View(b, i)'.version
             /\ rows'[i].version <= View(b, i)'.version
  <2>1. b # c
    BY <1>0, <1>3, AnswerFacts
  <2>2. pending[b][i] # <<>> /\ View(b, i)' = View(b, i)
    BY <1>1, <1>3, <2>1
  <2>3. rowLock[i] = b /\ rowLock'[i] = b
    BY <1>0, <2>1, <2>2, AnswerFacts DEF IInv, PendingOK
  <2> QED BY <1>0, <2>2, <2>3 DEF IInv, PendingOK
<1>4. PendingOK'
  BY <1>3 DEF PendingOK
<1>5. ASSUME NEW b \in Clients \ {c} PROVE CopyFits(b)'
  <2>1. pc'[b] = pc[b] /\ req'[b] = req[b] /\ loaded'[b] = loaded[b]
    BY <1>0, AnswerFacts DEF OthersWait
  <2> QED BY <1>0, <1>1, <2>1, WaitingFits, ViewType
<1>6. CopyFits(c)'
  BY <1>0, AnswerFacts
<1>7. ASSUME NEW b \in Clients, NEW i \in Items
      PROVE  Ordered(RevisionsIn(pending'[b][i]), rows'[i].version, View(b, i)'.version)
  <2>1. CASE b = c
    BY <1>0, <2>1, AnswerFacts, OrderedEmpty
  <2>2. CASE b # c
    BY <1>0, <1>1, <2>2 DEF IInv, HistoryOK
  <2> QED BY <2>1, <2>2
<1>8. HistoryOK'
  BY <1>0, <1>7 DEF IInv, HistoryOK
<1> QED BY <1>2, <1>4, <1>5, <1>6, <1>8 DEF CopiesOK

LEMMA CommitStep ==
    ASSUME IInv, NEW c \in Clients, Commit(c)
    PROVE  FieldsComplete' /\ PendingOK' /\ CopiesOK' /\ HistoryOK'
<1>0. TypeOK /\ Answer(c)
  BY DEF IInv, Commit
<1>1. ASSUME NEW b \in Clients, NEW i \in Items, pending'[b][i] # <<>>
      PROVE  /\ rowLock'[i] = b
             /\ View(b, i)'.fields = 1 .. View(b, i)'.version
             /\ rows'[i].version <= View(b, i)'.version
  <2>1. b # c
    BY <1>0, <1>1, AnswerFacts
  <2>2. pending[b][i] # <<>> /\ rows'[i] = rows[i] /\ View(b, i)' = View(b, i)
    BY <1>1, <2>1, CommitView
  <2>3. rowLock[i] = b /\ rowLock'[i] = b
    BY <1>0, <2>1, <2>2, AnswerFacts DEF IInv, PendingOK
  <2> QED BY <2>2, <2>3 DEF IInv, PendingOK
<1>2. PendingOK'
  BY <1>1 DEF PendingOK
<1>3. ASSUME NEW b \in Clients \ {c} PROVE CopyFits(b)'
  <2>1. pc'[b] = pc[b] /\ req'[b] = req[b] /\ loaded'[b] = loaded[b]
    BY <1>0, AnswerFacts DEF OthersWait
  <2>2. ASSUME NEW i \in Items
        PROVE  View(b, i).version <= View(b, i)'.version /\ View(b, i)'.version \in Nat
    <3>1. View(b, i).version <= View(b, i)'.version
      BY CommitView
    <3>2. rows'[i] = View(c, i) /\ pending'[b][i] = pending[b][i]
      BY CommitView
    <3>3. View(b, i)' = View(b, i) \/ View(b, i)' = View(c, i)
      BY <3>2 DEF View
    <3> QED BY <1>0, <3>1, <3>3, ViewType
  <2> QED BY <2>1, <2>2, WaitingFits
<1>4. CopyFits(c)'
  BY <1>0, AnswerFacts
<1>5. ASSUME NEW i \in Items PROVE Ordered(revisions'[i], 0, rows'[i].version)
  <2> DEFINE old == revisions[i]
             new == RevisionsIn(pending[c][i])
  <2>1. old \in Seq(Revision)
    BY <1>0 DEF TypeOK
  <2>2. new \in Seq(Revision)
    <3>1. pending[c][i] \in Seq(WriteRec)
      BY <1>0 DEF TypeOK
    <3> QED BY <3>1, RevisionsOf DEF RevisionsIn
  <2>3. /\ rows[i].version \in Nat /\ View(c, i).version \in Nat
        /\ rows[i].version <= View(c, i).version
    BY <1>0, ViewFacts, ViewType
  <2>4. Ordered(old, 0, rows[i].version) /\ Ordered(new, rows[i].version, View(c, i).version)
    BY DEF IInv, HistoryOK
  <2>5. revisions'[i] = old \o new /\ rows'[i] = View(c, i)
    BY DEF Commit, RevisionsIn
  <2> HIDE DEF old, new
  <2> QED BY <2>1, <2>2, <2>3, <2>4, <2>5, OrderedConcat
<1>6. ASSUME NEW b \in Clients, NEW i \in Items
      PROVE  Ordered(RevisionsIn(pending'[b][i]), rows'[i].version, View(b, i)'.version)
  <2>1. CASE pending'[b][i] = <<>>
    BY <2>1, OrderedEmpty
  <2>2. CASE pending'[b][i] # <<>>
    <3>1. b # c
      BY <1>0, <2>2, AnswerFacts
    <3>2. pending'[b][i] = pending[b][i] /\ rows'[i] = rows[i] /\ View(b, i)' = View(b, i)
      BY <2>2, <3>1, CommitView
    <3> QED BY <3>2 DEF IInv, HistoryOK
  <2> QED BY <2>1, <2>2
<1>7. HistoryOK'
  BY <1>5, <1>6 DEF HistoryOK
<1> QED BY <1>2, <1>3, <1>4, <1>7, CommitView DEF CopiesOK

\* The version that a change makes.
LEMMA ChangeVersion ==
    ASSUME TypeOK, NEW c \in Clients, NEW i \in Items, NEW v \in -1 .. MaxVersion,
           WriteChange(c, i, v), UNCHANGED rows
    PROVE  View(c, i)'.version \in Nat
<1> DEFINE fields == loaded[c].fields \cup {v + 1}
           row == [View(c, i) EXCEPT !.version = v + 1, !.fields = fields]
           rev == [type |-> "update", version |-> v + 1, fields |-> fields]
<1>1. row \in Row /\ rev \in Revision /\ Write(c, i, row, rev)
  BY ChangeTypes DEF WriteChange
<1> HIDE DEF row, rev
<1>2. View(c, i)' = row
  BY <1>1, WriteView
<1> QED BY <1>1, <1>2, WorkItemsAssumption DEF Row, Versions

\* The copy that is saved under the version which the transaction sees is a copy of it.
LEMMA ChangeStep ==
    ASSUME IInv, NEW c \in Clients, NEW i \in Items, NEW v \in -1 .. MaxVersion,
           View(c, i).version = v, CopyOK(c, i, v), WriteChange(c, i, v), UNCHANGED <<rows, revisions>>,
           rowLock[i] \in {None, c}, rowLock' = [rowLock EXCEPT ![i] = c],
           OthersWait(c),
           ASSUME View(c, i).version <= View(c, i)'.version,
                  \A j \in Items \ {i} : View(c, j)' = View(c, j)
           PROVE  CopyFits(c)'
    PROVE  FieldsComplete' /\ PendingOK' /\ CopiesOK' /\ HistoryOK'
<1> DEFINE fields == loaded[c].fields \cup {v + 1}
           row == [View(c, i) EXCEPT !.version = v + 1, !.fields = fields]
           rev == [type |-> "update", version |-> v + 1, fields |-> fields]
<1>0. TypeOK
  BY DEF IInv
<1>1. v \in Nat
  BY <1>0, ViewType
<1>2. row \in Row /\ rev \in Revision
  BY <1>0, ChangeTypes
<1>3. fields = 1 .. v + 1
  <2>1. loaded[c].version = v
    <3>1. loaded[c].version \in Int
      BY <1>0, WorkItemsAssumption DEF TypeOK, RequestOK, Copy, Versions
    <3> QED BY <1>1, <3>1 DEF CopyOK
  <2> QED BY <1>1, <2>1 DEF CopyOK
<1>4. row.fields = fields /\ row.version = v + 1
  BY <1>0, ViewType DEF Row
<1>5. Write(c, i, row, rev) /\ rev.version = v + 1
  BY DEF WriteChange
<1> HIDE DEF fields, row, rev
<1>r. UNCHANGED rows
  OBVIOUS
<1>6. View(c, i)' = row /\ \A j \in Items \ {i} : View(c, j)' = View(c, j)
  BY <1>0, <1>2, <1>5, <1>r, WriteView
<1>7. CopyFits(c)'
  BY <1>1, <1>4, <1>6
<1>8. row.fields = 1 .. row.version /\ View(c, i).version <= row.version
  BY <1>1, <1>3, <1>4
<1>9. View(c, i).version < rev.version /\ rev.version <= row.version
  BY <1>1, <1>4, <1>5
<1> QED BY <1>2, <1>5, <1>7, <1>8, <1>9, WriteStep

\* Every step keeps the copies fit and loses no update.
LEMMA CopiesStep == IInv /\ [Next]_vars => FieldsComplete' /\ PendingOK' /\ CopiesOK' /\ HistoryOK'
<1> SUFFICES ASSUME IInv, [Next]_vars PROVE FieldsComplete' /\ PendingOK' /\ CopiesOK' /\ HistoryOK'
  OBVIOUS
<1> USE DEF ReorderPCs
<1>t. TypeOK
  BY DEF IInv
<1>k. ASSUME NEW c \in Clients PROVE RequestOK(pc[c], req[c], loaded[c]) /\ CopyFits(c)
  BY DEF IInv, TypeOK, CopiesOK
<1>1. ASSUME NEW c \in Clients, ReceiveCreate(c) \/ NextVal(c) \/ LoadForDelete(c) \/ ReadForDelete(c)
      PROVE  FieldsComplete' /\ PendingOK' /\ CopiesOK' /\ HistoryOK'
  <2>1. /\ OthersWait(c) /\ UNCHANGED <<rows, revisions, pending, rowLock>>
        /\ pc'[c] \in {"cr_nextval", "cr_insert", "de_read", "de_delete"}
    BY <1>1, <1>t DEF TypeOK, OthersWait, tables, locks, Goto, ReceiveCreate, NextVal, LoadForDelete, ReadForDelete
  <2>2. CopyFits(c)'
    BY <2>1 DEF CopyFits
  <2> QED BY <2>1, <2>2, QuietStep
<1>2. ASSUME NEW c \in Clients, InsertWorkItem(c) PROVE FieldsComplete' /\ PendingOK' /\ CopiesOK' /\ HistoryOK'
  <2>1. CASE Rollback(c)
    BY <2>1, RollbackStep
  <2>2. CASE ~Rollback(c)
    <3> DEFINE row == [status |-> "live", version |-> 0, fields |-> {},
                       space |-> req[c], number |-> lastNumber[req[c]] + 1]
               rev == [type |-> "create", version |-> 0, fields |-> {}]
    <3>1. PICK i \in Items : /\ rows[i] = AbsentRow /\ rowLock[i] = None
                             /\ rowLock' = [rowLock EXCEPT ![i] = c]
                             /\ Write(c, i, row, rev)
                             /\ Goto(c, "commit")
                             /\ UNCHANGED <<tables, numberLock, req, loaded>>
      BY <1>2, <2>2 DEF InsertWorkItem
    <3>2. row \in Row /\ rev \in Revision
      <4>1. req[c] \in Spaces
        BY <1>2, <1>k DEF InsertWorkItem, RequestOK, CreatePCs
      <4>2. lastNumber[req[c]] + 1 \in Nat
        BY <4>1, <1>t DEF TypeOK
      <4> QED BY <4>1, <4>2, WorkItemsAssumption DEF Row, Revision, Versions
    <3>3. row.fields = 1 .. row.version /\ row.version = 0 /\ rev.type # "update"
      OBVIOUS
    <3> HIDE DEF row, rev
    <3>4. View(c, i).version = 0
      BY <3>1, ViewFacts, WorkItemsAssumption DEF AbsentRow
    <3>5. OthersWait(c) /\ pc'[c] = "commit" /\ UNCHANGED <<rows, revisions>>
      BY <3>1, <1>t DEF TypeOK, OthersWait, tables, Goto
    <3>6. CopyFits(c)'
      BY <3>5 DEF CopyFits
    <3>7. View(c, i).version <= row.version
      BY <3>3, <3>4
    <3> QED BY <3>1, <3>2, <3>3, <3>5, <3>6, <3>7, WriteStep
  <2> QED BY <2>1, <2>2
<1>3. ASSUME NEW c \in Clients, LoadForUpdate(c) PROVE FieldsComplete' /\ PendingOK' /\ CopiesOK' /\ HistoryOK'
  <2>1. PICK i \in Items : \E v \in VersionsRead(i) :
           /\ req' = [req EXCEPT ![c] = [item |-> i, version |-> v]]
           /\ loaded' = [loaded EXCEPT ![c] = [version |-> rows[i].version, fields |-> rows[i].fields]]
    BY <1>3 DEF LoadForUpdate
  <2>2. PICK v \in VersionsRead(i) :
           /\ req' = [req EXCEPT ![c] = [item |-> i, version |-> v]]
           /\ loaded' = [loaded EXCEPT ![c] = [version |-> rows[i].version, fields |-> rows[i].fields]]
    BY <2>1
  <2>3. /\ OthersWait(c) /\ UNCHANGED <<rows, revisions, pending, rowLock>> /\ pc'[c] = "up_save"
        /\ req'[c] = [item |-> i, version |-> v]
        /\ loaded'[c] = [version |-> rows[i].version, fields |-> rows[i].fields]
    BY <1>3, <1>t, <2>2 DEF TypeOK, OthersWait, tables, locks, Goto, LoadForUpdate
  <2>4. v <= rows[i].version
    BY <1>t, ViewType, WorkItemsAssumption DEF VersionsRead
  <2>5. View(c, i)' = View(c, i)
    BY <2>3 DEF View
  <2>6. CopyOK(c, i, v)'
    BY <2>3, <2>4, <2>5, ViewFacts DEF CopyOK, IInv, FieldsComplete
  <2>7. CopyFits(c)'
    BY <2>3, <2>6 DEF CopyFits, CopyOK
  <2> QED BY <2>3, <2>7, QuietStep
<1>4. ASSUME NEW c \in Clients, Save(c) PROVE FieldsComplete' /\ PendingOK' /\ CopiesOK' /\ HistoryOK'
  <2>1. CASE Rollback(c)
    BY <2>1, RollbackStep
  <2>2. CASE ~Rollback(c)
    <3>0. PICK i \in Items, v \in -1 .. MaxVersion : i = req[c].item /\ v = req[c].version
      BY <1>4, <1>k DEF Save, RequestOK, Entry, UpdatePCs
    <3>1. CopyOK(c, i, v)
      BY <1>4, <1>k, <3>0 DEF Save, CopyFits
    <3>2. /\ rowLock[i] = None /\ rows[i].version = v
          /\ rowLock' = [rowLock EXCEPT ![i] = c]
          /\ WriteChange(c, i, v)
          /\ Goto(c, "commit")
          /\ UNCHANGED <<tables, numberLock, req, loaded>>
      BY <1>4, <2>2, <3>0 DEF Save
    <3>3. View(c, i).version = v
      BY <3>1, <3>2, ViewFacts, WorkItemsAssumption
    <3>4. OthersWait(c) /\ pc'[c] = "commit" /\ UNCHANGED <<rows, revisions>>
      BY <3>2, <1>t DEF TypeOK, OthersWait, tables, Goto
    <3>5. CopyFits(c)'
      BY <3>4 DEF CopyFits
    <3>6. rowLock[i] \in {None, c}
      BY <3>2
    <3>7. rowLock' = [rowLock EXCEPT ![i] = c] /\ WriteChange(c, i, v)
      BY <3>2
    <3> QED BY <3>1, <3>3, <3>4, <3>5, <3>6, <3>7, ChangeStep
  <2> QED BY <2>1, <2>2
<1>5. ASSUME NEW c \in Clients, ReceiveReorder(c) PROVE FieldsComplete' /\ PendingOK' /\ CopiesOK' /\ HistoryOK'
  <2>1. PICK n \in 1 .. MaxReorder : \E entries \in [1 .. n -> Entry] :
           /\ \A k \in 1 .. n : entries[k].version \in VersionsRead(entries[k].item)
           /\ req' = [req EXCEPT ![c] = entries]
    BY <1>5 DEF ReceiveReorder
  <2>2. PICK entries \in [1 .. n -> Entry] :
           /\ \A k \in 1 .. n : entries[k].version \in VersionsRead(entries[k].item)
           /\ req' = [req EXCEPT ![c] = entries]
    BY <2>1
  <2>3. /\ OthersWait(c) /\ UNCHANGED <<rows, revisions, pending, rowLock>>
        /\ pc'[c] = "re_load" /\ req'[c] = entries
    BY <1>5, <1>t, <2>2 DEF TypeOK, OthersWait, tables, locks, Goto, ReceiveReorder
  <2>4. Len(entries) = n
    BY WorkItemsAssumption
  <2>5. ASSUME NEW k \in 1 .. n PROVE entries[k].version <= View(c, entries[k].item)'.version
    <3>1. entries[k].item \in Items /\ entries[k].version \in VersionsRead(entries[k].item)
      BY <2>2 DEF Entry
    <3>2. /\ rows[entries[k].item].version <= View(c, entries[k].item).version
          /\ rows[entries[k].item].version \in Nat /\ View(c, entries[k].item).version \in Nat
      BY <1>t, <3>1, ViewFacts, ViewType
    <3>3. View(c, entries[k].item)' = View(c, entries[k].item)
      BY <2>3 DEF View
    <3> QED BY <3>1, <3>2, <3>3, WorkItemsAssumption DEF VersionsRead
  <2>6. CopyFits(c)'
    BY <2>3, <2>4, <2>5 DEF CopyFits
  <2> QED BY <2>3, <2>6, QuietStep
<1>6. ASSUME NEW c \in Clients, LoadForReorder(c) \/ ReorderCheck(c)
      PROVE  FieldsComplete' /\ PendingOK' /\ CopiesOK' /\ HistoryOK'
  <2>1. CASE Rollback(c)
    BY <2>1, RollbackStep
  <2>2. CASE ~Rollback(c)
    <3> DEFINE i == req[c][1].item
               v == req[c][1].version
               row == View(c, i)
    <3>0. req[c] \in Seq(Entry) /\ req[c] # <<>>
      BY <1>6, <1>k DEF LoadForReorder, ReorderCheck, RequestOK
    <3>1. i \in Items /\ v \in Int /\ 1 \in 1 .. Len(req[c])
      <4>1. req[c][1] \in Entry /\ 1 \in 1 .. Len(req[c])
        BY <3>0
      <4> QED BY <4>1, WorkItemsAssumption DEF Entry
    <3>2. /\ OthersWait(c) /\ UNCHANGED <<rows, revisions, pending, rowLock>> /\ req'[c] = req[c]
          /\ pc[c] \in ReorderPCs
          /\ \/ pc'[c] = "re_check" /\ loaded'[c] = [version |-> row.version, fields |-> row.fields]
             \/ pc'[c] = "re_save" /\ loaded'[c] = loaded[c] /\ pc[c] = "re_check"
      BY <1>6, <1>t, <2>2 DEF TypeOK, OthersWait, tables, locks, Goto, LoadForReorder, ReorderCheck
    <3>3. \A j \in Items : View(c, j)' = View(c, j)
      BY <3>2 DEF View
    <3>4. \A k \in 1 .. Len(req[c]) : req[c][k].version <= View(c, req[c][k].item).version
      BY <1>k, <3>2 DEF CopyFits
    <3>5. row.fields = 1 .. row.version /\ row.version \in Nat /\ row' = row
      BY <1>t, <3>1, <3>2, ViewFacts, ViewType DEF View
    <3>6. CopyOK(c, i, v)'
      <4>1. CASE pc'[c] = "re_check"
        BY <3>1, <3>2, <3>4, <3>5, <4>1 DEF CopyOK
      <4>2. CASE pc'[c] = "re_save"
        <5>1. CopyOK(c, i, v)
          BY <1>k, <3>2, <4>2 DEF CopyFits
        <5>2. loaded'[c] = loaded[c]
          BY <3>2, <4>2
        <5> QED BY <3>2, <3>5, <5>1, <5>2 DEF CopyOK
      <4> QED BY <3>2, <4>1, <4>2
    <3>7. \A k \in 1 .. Len(req[c]) : req[c][k].version <= View(c, req[c][k].item)'.version
      BY <3>2, <3>4 DEF View
    <3>8. CopyFits(c)'
      <4>1. pc'[c] # "up_save"
        BY <3>2
      <4>2. CopyOK(c, req[c][1].item, req[c][1].version)'
        BY <3>2, <3>6 DEF CopyOK, View
      <4> QED BY <3>2, <3>7, <4>1, <4>2 DEF CopyFits
    <3> QED BY <3>2, <3>8, QuietStep
  <2> QED BY <2>1, <2>2
<1>7. ASSUME NEW c \in Clients, ReorderSave(c) PROVE FieldsComplete' /\ PendingOK' /\ CopiesOK' /\ HistoryOK'
  <2>1. CASE Rollback(c)
    BY <2>1, RollbackStep
  <2>2. CASE ~Rollback(c)
    <3>0. req[c] \in Seq(Entry) /\ req[c] # <<>> /\ pc[c] = "re_save"
      BY <1>7, <1>k DEF ReorderSave, RequestOK
    <3>1. PICK i \in Items, v \in -1 .. MaxVersion : i = req[c][1].item /\ v = req[c][1].version
      <4>1. req[c][1] \in Entry
        BY <3>0
      <4> QED BY <4>1 DEF Entry
    <3>2. /\ rowLock[i] \in {None, c} /\ View(c, i).version = v
          /\ rowLock' = [rowLock EXCEPT ![i] = c]
          /\ WriteChange(c, i, v)
          /\ req' = [req EXCEPT ![c] = Tail(req[c])]
          /\ Goto(c, IF Len(req[c]) = 1 THEN "commit" ELSE "re_load")
          /\ UNCHANGED <<tables, numberLock, loaded>>
      BY <1>7, <2>2, <3>1 DEF ReorderSave
    <3>7. CopyOK(c, i, v)
      BY <3>0, <3>1, <1>k DEF CopyFits
    <3>3. OthersWait(c) /\ pc'[c] \in {"commit", "re_load"} /\ UNCHANGED <<rows, revisions>> /\ req'[c] = Tail(req[c])
      BY <3>2, <1>t DEF TypeOK, OthersWait, tables, Goto
    <3>4. ASSUME View(c, i).version <= View(c, i)'.version,
                 \A j \in Items \ {i} : View(c, j)' = View(c, j)
          PROVE  CopyFits(c)'
      <4>1. /\ Tail(req[c]) \in Seq(Entry)
            /\ \A k \in 1 .. Len(Tail(req[c])) : Tail(req[c])[k] = req[c][k + 1] /\ k + 1 \in 1 .. Len(req[c])
        BY <3>0, TailElement
      <4>2. ASSUME NEW k \in 1 .. Len(Tail(req[c]))
            PROVE  Tail(req[c])[k].version <= View(c, req[c][k].item)'.version
        <5>1. PICK e \in Entry : e = Tail(req[c])[k] /\ e = req[c][k + 1] /\ e = req'[c][k]
          BY <3>3, <4>1
        <5>2. e.version <= View(c, e.item).version
          BY <4>1, <5>1, <3>0, <1>k DEF CopyFits
        <5>3. e.item \in Items /\ e.version \in Int
          BY <5>1, WorkItemsAssumption DEF Entry
        <5>4. View(c, e.item).version \in Nat
          BY <1>t, <5>3, ViewType
        <5>5. View(c, i)'.version \in Nat
          BY <3>2, <3>3, <1>t, ChangeVersion
        <5>6. e.version <= View(c, e.item)'.version
          <6>1. CASE e.item = i
            BY <3>4, <5>2, <5>3, <5>4, <5>5, <6>1
          <6>2. CASE e.item # i
            BY <3>4, <5>2, <5>3, <6>2
          <6> QED BY <6>1, <6>2
        <5> QED BY <5>1, <5>6
      <4> QED BY <3>3, <4>2 DEF CopyFits
    <3>5. rowLock[i] \in {None, c} /\ View(c, i).version = v
      BY <3>2
    <3>6. rowLock' = [rowLock EXCEPT ![i] = c] /\ WriteChange(c, i, v)
      BY <3>2
    <3> QED BY <3>3, <3>4, <3>5, <3>6, <3>7, ChangeStep
  <2> QED BY <2>1, <2>2
<1>8. ASSUME NEW c \in Clients, DeleteRow(c) PROVE FieldsComplete' /\ PendingOK' /\ CopiesOK' /\ HistoryOK'
  <2>1. CASE Rollback(c)
    BY <2>1, RollbackStep
  <2>2. CASE ~Rollback(c)
    <3>i. PICK i \in Items : i = req[c]
      BY <1>8, <1>k DEF DeleteRow, RequestOK, DeletePCs
    <3> DEFINE row == [rows[i] EXCEPT !.status = "deleted"]
               rev == [type |-> "delete", version |-> loaded[c].version, fields |-> {}]
    <3>1. /\ rowLock[i] = None
          /\ rowLock' = [rowLock EXCEPT ![i] = c]
          /\ Write(c, i, row, rev)
          /\ Goto(c, "commit")
          /\ UNCHANGED <<tables, numberLock, req, loaded>>
      BY <1>8, <2>2, <3>i DEF DeleteRow
    <3>2. loaded[c].version \in Versions
      BY <1>8, <1>k DEF DeleteRow, RequestOK, DeletePCs
    <3>3. rows[i] \in Row /\ rows[i].version \in Nat
      BY <3>2, <1>t, ViewType DEF TypeOK
    <3>4. /\ row \in Row /\ rev \in Revision /\ row.version = rows[i].version /\ row.fields = rows[i].fields
          /\ rev.type # "update"
      BY <3>2, <3>3 DEF Row, Revision
    <3>5. row.fields = 1 .. row.version
      BY <3>2, <3>4 DEF IInv, FieldsComplete
    <3>6. View(c, i).version <= row.version
      BY <3>1, <3>2, <3>3, <3>4, ViewFacts, WorkItemsAssumption
    <3> HIDE DEF row, rev
    <3>7. OthersWait(c) /\ pc'[c] = "commit" /\ UNCHANGED <<rows, revisions>>
      BY <3>1, <1>t DEF TypeOK, OthersWait, tables, Goto
    <3>8. CopyFits(c)'
      BY <3>7 DEF CopyFits
    <3> QED BY <3>1, <3>2, <3>4, <3>5, <3>6, <3>7, <3>8, WriteStep
  <2> QED BY <2>1, <2>2
<1>9. ASSUME NEW c \in Clients, Commit(c) PROVE FieldsComplete' /\ PendingOK' /\ CopiesOK' /\ HistoryOK'
  BY <1>9, CommitStep
<1>10. ASSUME NEW c \in Clients, Fault(c) \/ DeadlockVictim(c) PROVE FieldsComplete' /\ PendingOK' /\ CopiesOK' /\ HistoryOK'
  BY <1>10, RollbackStep DEF Fault, DeadlockVictim
<1>11. CASE UNCHANGED vars
  <2>1. /\ UNCHANGED <<rows, revisions, rowLock, pc, req, loaded, pending>>
        /\ \A c \in Clients, i \in Items : UNCHANGED View(c, i)
    BY <1>11 DEF vars, View
  <2>2. FieldsComplete'
    BY <2>1 DEF IInv, FieldsComplete
  <2>3. PendingOK'
    BY <2>1 DEF IInv, PendingOK
  <2>4. CopiesOK'
    BY <1>11, ZenonT(30) DEF vars, IInv, CopiesOK, CopyFits, CopyOK, View
  <2>5. HistoryOK'
    BY <2>1 DEF IInv, HistoryOK
  <2> QED BY <2>2, <2>3, <2>4, <2>5
<1> QED BY <1>1, <1>2, <1>3, <1>4, <1>5, <1>6, <1>7, <1>8, <1>9, <1>10, <1>11 DEF Next, Arrive, Proceed

------------------------------------------------------------------------------
LEMMA InitInvariant == Init => IInv
<1> SUFFICES ASSUME Init PROVE IInv
  OBVIOUS
<1>1. TypeOK
  <2>1. AbsentRow \in Row /\ NothingLoaded \in Copy
    BY WorkItemsAssumption DEF AbsentRow, Row, Versions, NothingLoaded, Copy
  <2>2. NothingWritten \in [Items -> Seq(WriteRec)]
    BY DEF NothingWritten
  <2>3. "idle" \in PCs
    BY DEF PCs
  <2>4. \A c \in Clients : RequestOK(pc[c], req[c], loaded[c])
    BY <2>1 DEF Init, RequestOK, CreatePCs, UpdatePCs, ReorderPCs, DeletePCs
  <2> HIDE DEF NothingWritten
  <2> QED BY <2>1, <2>2, <2>3, <2>4 DEF Init, TypeOK
<1>2. FieldsComplete
  <2>1. 1 .. 0 = {}
    OBVIOUS
  <2> QED BY <2>1 DEF Init, FieldsComplete, AbsentRow
<1>3. PendingOK
  BY DEF Init, PendingOK, NothingWritten
<1>4. CopiesOK
  BY DEF Init, CopiesOK, CopyFits, ReorderPCs
<1>5. HistoryOK
  <2>1. \A i \in Items : revisions[i] = <<>>
    BY DEF Init
  <2>2. \A c \in Clients, i \in Items : pending[c][i] = <<>>
    BY DEF Init, NothingWritten
  <2>3. \A lo, hi : Ordered(<<>>, lo, hi)
    BY DEF Ordered
  <2>4. RevisionsIn(<<>>) = <<>>
    BY DEF RevisionsIn
  <2> QED BY <2>1, <2>2, <2>3, <2>4 DEF HistoryOK
<1> QED BY <1>1, <1>2, <1>3, <1>4, <1>5 DEF IInv

LEMMA Invariance == Spec => []IInv
<1>1. IInv /\ [Next]_vars => IInv'
  BY TypeStep, CopiesStep DEF IInv
<1> QED BY <1>1, InitInvariant, PTL DEF Spec

\* The tables, the locks and the requests that the repository works on are always well
\* formed; in particular a request only ever works on a copy of a work item that is there.
THEOREM WorkItemsTypeCorrect == Spec => []TypeOK
<1>1. IInv => TypeOK
  BY DEF IInv
<1> QED BY <1>1, Invariance, PTL

\* However many requests update, reorder and delete a work item at the same time, every
\* update that was accepted made a version of its own and is contained in the fields (Save
\* and Reorder in workitem_repository.go).
THEOREM WorkItemsNoLostUpdate == Spec => []NoLostUpdate
<1>1. IInv => NoLostUpdate
  <2> SUFFICES ASSUME IInv, NEW i \in Items, NEW k \in DOMAIN revisions[i], NEW l \in DOMAIN revisions[i],
                      revisions[i][k].type = "update", revisions[i][l].type = "update"
               PROVE  /\ revisions[i][k].version \in rows[i].fields
                      /\ k # l => revisions[i][k].version # revisions[i][l].version
    BY DEF IInv, NoLostUpdate
  <2> DEFINE revs == revisions[i]
  <2>1. revs \in Seq(Revision) /\ rows[i].fields = 1 .. rows[i].version /\ Ordered(revs, 0, rows[i].version)
    BY DEF IInv, TypeOK, FieldsComplete, HistoryOK
  <2>2. rows[i].version \in Nat
    BY WorkItemsAssumption DEF IInv, TypeOK, Row, Versions
  <2> HIDE DEF revs
  <2>3. k \in Nat /\ l \in Nat /\ k \in DOMAIN revs /\ l \in DOMAIN revs
    BY <2>1 DEF revs
  <2>4. revs[k].version \in Nat /\ revs[l].version \in Nat
    <3>1. revs[k] \in Revision /\ revs[l] \in Revision
      BY <2>1, <2>3
    <3> QED BY <3>1, WorkItemsAssumption DEF Revision, Versions
  <2>5. /\ 0 < revs[k].version /\ revs[k].version <= rows[i].version
        /\ k < l => revs[k].version < revs[l].version
        /\ l < k => revs[l].version < revs[k].version
    BY <2>1, <2>3 DEF Ordered, revs
  <2>6. revs[k].version \in rows[i].fields
    BY <2>1, <2>2, <2>4, <2>5
  <2>7. k # l => revs[k].version # revs[l].version
    BY <2>3, <2>4, <2>5
  <2> QED BY <2>6, <2>7 DEF revs
<1> QED BY <1>1, Invariance, PTL

\* What the run of WorkItems checks of updates, for any number of requests and work items.
THEOREM WorkItemsAreSafe == Spec => []WorkItemsSafe
<1>1. TypeOK /\ NoLostUpdate => WorkItemsSafe
  BY DEF WorkItemsSafe
<1> QED BY <1>1, WorkItemsTypeCorrect, WorkItemsNoLostUpdate, PTL

-------------------------------------------------------------------------------
(* Numbers without a gap, revisions that tell a work item's whole life and *)
(* the promises of ItemHistory.                                            *)
(*                                                                         *)
(* Above it is shown that no copy is stale.  What is added here is the     *)
(* shape of a transaction: it creates one work item, under the lock of its *)
(* space's number sequence; or it deletes one; or it changes some, each    *)
(* write being the next version of a row that it has locked.               *)

HoldsNoNumber(c) == \A s \in Spaces : numberLock[s] # c

WroteOnly(c, i) == \A j \in Items \ {i} : pending[c][j] = <<>>

\* What Create, Save and Reorder, and Delete write.
CreateWrite(s) ==
    [row |-> [status |-> "live", version |-> 0, fields |-> {}, space |-> s, number |-> lastNumber[s] + 1],
     rev |-> [type |-> "create", version |-> 0, fields |-> {}]]
UpdateWrite(i, v) ==
    [row |-> [rows[i] EXCEPT !.version = v, !.fields = 1 .. v],
     rev |-> [type |-> "update", version |-> v, fields |-> 1 .. v]]
DeleteWrite(i, rev) == [row |-> [rows[i] EXCEPT !.status = "deleted"], rev |-> rev]

Creation(c, i, s) ==
    /\ numberLock[s] = c /\ \A t \in Spaces \ {s} : numberLock[t] # c
    /\ rows[i] = AbsentRow
    /\ pending[c][i] = <<CreateWrite(s)>>
    /\ WroteOnly(c, i)

Deletion(c, i, rev) ==
    /\ HoldsNoNumber(c)
    /\ rows[i].status = "live"
    /\ rev.type = "delete"
    /\ pending[c][i] = <<DeleteWrite(i, rev)>>
    /\ WroteOnly(c, i)

\* The writes about i are its next versions, one by one.
ChangesOf(c, i) ==
    pending[c][i] # <<>> =>
        /\ rows[i].status = "live"
        /\ \A k \in 1 .. Len(pending[c][i]) : pending[c][i][k] = UpdateWrite(i, rows[i].version + k)

Changes(c) == HoldsNoNumber(c) /\ \A i \in Items : ChangesOf(c, i)

\* What a transaction has done fits to where its request is.
TransactionOK(c) ==
    /\ pc[c] = "cr_insert" =>
         /\ numberLock[req[c]] = c /\ \A t \in Spaces \ {req[c]} : numberLock[t] # c
         /\ \A i \in Items : pending[c][i] = <<>>
    /\ pc[c] = "commit" =>
         \/ \E i \in Items, s \in Spaces : Creation(c, i, s)
         \/ \E i \in Items, rev \in Revision : Deletion(c, i, rev)
         \/ Changes(c)
    /\ pc[c] \in ReorderPCs => Changes(c)
    /\ pc[c] \notin {"cr_insert", "commit"} \cup ReorderPCs =>
         HoldsNoNumber(c) /\ \A i \in Items : pending[c][i] = <<>>

TransactionsOK == \A c \in Clients : TransactionOK(c)

AbsentOK == \A i \in Items : rows[i].status = "absent" => rows[i] = AbsentRow

There(s) == {i \in Items : rows[i].status # "absent" /\ rows[i].space = s}

\* Only finitely many work items are ever created.
ThereFinite == \A s \in Spaces : IsFiniteSet(There(s))

HInv == IInv /\ AbsentOK /\ TransactionsOK /\ ThereFinite /\ NumbersAreDense /\ RevisionsFollowVersions

------------------------------------------------------------------------------
(* The shape of the transactions. *)

\* A transaction keeps its shape while the rows and the numbers that it has locked do not
\* change.
LEMMA KeepTransaction ==
    ASSUME NEW b \in Clients, TransactionOK(b), pc'[b] = pc[b], req'[b] = req[b],
           \A i \in Items : /\ pending'[b][i] = pending[b][i]
                            /\ pending[b][i] # <<>> => rows'[i] = rows[i],
           \A s \in Spaces : /\ numberLock'[s] = b <=> numberLock[s] = b
                             /\ numberLock[s] = b => lastNumber'[s] = lastNumber[s],
           pc[b] = "cr_insert" => req[b] \in Spaces
    PROVE  TransactionOK(b)'
<1>1. HoldsNoNumber(b) => HoldsNoNumber(b)'
  BY DEF HoldsNoNumber
<1>2. Changes(b) => Changes(b)'
  <2>1. ASSUME NEW i \in Items, ChangesOf(b, i) PROVE ChangesOf(b, i)'
    <3>1. CASE pending[b][i] = <<>>
      BY <3>1 DEF ChangesOf
    <3>2. CASE pending[b][i] # <<>>
      <4>1. rows'[i] = rows[i] /\ pending'[b][i] = pending[b][i]
        BY <3>2
      <4> QED BY <2>1, <4>1 DEF ChangesOf, UpdateWrite
    <3> QED BY <3>1, <3>2
  <2> QED BY <1>1, <2>1 DEF Changes
<1>3. ASSUME NEW i \in Items, NEW s \in Spaces, Creation(b, i, s) PROVE Creation(b, i, s)'
  <2>1. rows'[i] = rows[i] /\ lastNumber'[s] = lastNumber[s]
    BY <1>3 DEF Creation
  <2>2. CreateWrite(s)' = CreateWrite(s)
    BY <2>1 DEF CreateWrite
  <2> QED BY <1>3, <2>1, <2>2 DEF Creation, WroteOnly, AbsentRow
<1>4. ASSUME NEW i \in Items, NEW rev \in Revision, Deletion(b, i, rev) PROVE Deletion(b, i, rev)'
  <2>1. rows'[i] = rows[i]
    BY <1>4 DEF Deletion
  <2>2. DeleteWrite(i, rev)' = DeleteWrite(i, rev)
    BY <2>1 DEF DeleteWrite
  <2> QED BY <1>1, <1>4, <2>1, <2>2 DEF Deletion, WroteOnly
<1>5. pc[b] = "cr_insert" => /\ numberLock'[req[b]] = b /\ \A t \in Spaces \ {req[b]} : numberLock'[t] # b
                             /\ \A i \in Items : pending'[b][i] = <<>>
  BY DEF TransactionOK
<1>6. pc[b] = "commit" => \/ \E i \in Items, s \in Spaces : Creation(b, i, s)'
                          \/ \E i \in Items, rev \in Revision : Deletion(b, i, rev)'
                          \/ Changes(b)'
  BY <1>2, <1>3, <1>4 DEF TransactionOK
<1>7. pc[b] \in ReorderPCs => Changes(b)'
  BY <1>2 DEF TransactionOK
<1>8. pc[b] \notin {"cr_insert", "commit"} \cup ReorderPCs =>
        HoldsNoNumber(b)' /\ \A i \in Items : pending'[b][i] = <<>>
  BY <1>1 DEF TransactionOK
<1> QED BY <1>5, <1>6, <1>7, <1>8 DEF TransactionOK, ReorderPCs, Revision, Versions

\* An answered request has no transaction.
LEMMA AnswerTransactions ==
    ASSUME HInv, NEW c \in Clients, Answer(c),
           \A b \in Clients \ {c}, i \in Items : pending[b][i] # <<>> => rows'[i] = rows[i],
           \A s \in Spaces : numberLock[s] # c => lastNumber'[s] = lastNumber[s]
    PROVE  TransactionsOK'
<1>0. TypeOK
  BY DEF HInv, IInv
<1>1. ASSUME NEW b \in Clients \ {c} PROVE TransactionOK(b)'
  <2>1. pc'[b] = pc[b] /\ req'[b] = req[b]
    BY <1>0, AnswerFacts DEF OthersWait
  <2>2. \A i \in Items : pending'[b][i] = pending[b][i]
    BY <1>0, AnswerFacts
  <2>3. \A s \in Spaces : numberLock'[s] = b <=> numberLock[s] = b
    BY WorkItemsAssumption DEF Answer
  <2>4. pc[b] = "cr_insert" => req[b] \in Spaces
    BY <1>0 DEF TypeOK, RequestOK, CreatePCs
  <2>5. TransactionOK(b)
    BY DEF HInv, TransactionsOK
  <2> QED BY <2>1, <2>2, <2>3, <2>4, <2>5, KeepTransaction
<1>2. TransactionOK(c)'
  <2>1. pc'[c] = "idle"
    BY <1>0 DEF TypeOK, Answer
  <2>2. \A i \in Items : pending'[c][i] = <<>>
    BY <1>0, AnswerFacts
  <2>3. HoldsNoNumber(c)'
    BY WorkItemsAssumption DEF HoldsNoNumber, Answer
  <2> QED BY <2>1, <2>2, <2>3 DEF TransactionOK, ReorderPCs
<1> QED BY <1>1, <1>2 DEF TransactionsOK

\* A step of c that locks no number and writes nothing for another request.
LEMMA OthersTransactions ==
    ASSUME HInv, NEW c \in Clients, OthersWait(c), UNCHANGED tables,
           \A b \in Clients \ {c} : /\ \A i \in Items : pending'[b][i] = pending[b][i]
                                    /\ \A s \in Spaces : numberLock'[s] = b <=> numberLock[s] = b,
           TransactionOK(c)'
    PROVE  TransactionsOK'
<1>1. ASSUME NEW b \in Clients \ {c} PROVE TransactionOK(b)'
  <2>1. pc'[b] = pc[b] /\ req'[b] = req[b]
    BY DEF OthersWait
  <2>2. pc[b] = "cr_insert" => req[b] \in Spaces
    BY DEF HInv, IInv, TypeOK, RequestOK, CreatePCs
  <2>3. TransactionOK(b) /\ UNCHANGED <<rows, lastNumber>>
    BY DEF HInv, TransactionsOK, tables
  <2> QED BY <2>1, <2>2, <2>3, KeepTransaction
<1> QED BY <1>1 DEF TransactionsOK

LEMMA RollbackTransactions ==
    ASSUME HInv, NEW c \in Clients, Rollback(c)
    PROVE  TransactionsOK'
<1>1. Answer(c) /\ UNCHANGED <<rows, lastNumber>>
  BY DEF Rollback, tables
<1> QED BY <1>1, AnswerTransactions

\* A commit changes no row and no number that another transaction has locked.
LEMMA CommitTransactions ==
    ASSUME HInv, NEW c \in Clients, Commit(c)
    PROVE  TransactionsOK'
<1>0. Answer(c) /\ IInv
  BY DEF Commit, HInv
<1>1. \A b \in Clients \ {c}, i \in Items : pending[b][i] # <<>> => rows'[i] = rows[i]
  BY <1>0, CommitView
<1>2. \A s \in Spaces : numberLock[s] # c => lastNumber'[s] = lastNumber[s]
  BY DEF Commit
<1> QED BY <1>0, <1>1, <1>2, AnswerTransactions

\* What Write leaves of the other transactions.
LEMMA WriteOthers ==
    ASSUME TypeOK, NEW c \in Clients, NEW i \in Items, NEW row \in Row, NEW rev \in Revision,
           Write(c, i, row, rev)
    PROVE  /\ pending'[c][i] = Append(pending[c][i], [row |-> row, rev |-> rev])
           /\ \A b \in Clients, j \in Items : b # c \/ j # i => pending'[b][j] = pending[b][j]
BY DEF Write, TypeOK

LEMMA WriteChangeOthers ==
    ASSUME TypeOK, NEW c \in Clients, NEW i \in Items, NEW v \in -1 .. MaxVersion, WriteChange(c, i, v)
    PROVE  \A b \in Clients \ {c}, j \in Items : pending'[b][j] = pending[b][j]
<1> DEFINE fields == loaded[c].fields \cup {v + 1}
           row == [View(c, i) EXCEPT !.version = v + 1, !.fields = fields]
           rev == [type |-> "update", version |-> v + 1, fields |-> fields]
<1>1. row \in Row /\ rev \in Revision /\ Write(c, i, row, rev)
  BY ChangeTypes DEF WriteChange
<1> HIDE DEF row, rev
<1> QED BY <1>1, WriteOthers, ZenonT(30)

\* A first element.
LEMMA AppendFirst == ASSUME NEW e PROVE Append(<<>>, e) = <<e>>
OBVIOUS

\* The next change of a row is the next version of it.
LEMMA ChangeTransaction ==
    ASSUME HInv, NEW c \in Clients, NEW i \in Items, NEW v \in -1 .. MaxVersion,
           Changes(c), View(c, i).status = "live", View(c, i).version = v, CopyOK(c, i, v),
           rowLock[i] \in {None, c},
           WriteChange(c, i, v), UNCHANGED <<tables, numberLock>>
    PROVE  Changes(c)'
<1> DEFINE fields == loaded[c].fields \cup {v + 1}
           row == [View(c, i) EXCEPT !.version = v + 1, !.fields = fields]
           rev == [type |-> "update", version |-> v + 1, fields |-> fields]
           old == pending[c][i]
<1>0. TypeOK /\ IInv /\ UNCHANGED rows
  BY DEF HInv, IInv, tables
<1>1. v \in Nat /\ View(c, i) \in Row /\ rows[i] \in Row /\ rows[i].version \in Nat
  BY <1>0, ViewType DEF TypeOK
<1>2. row \in Row /\ rev \in Revision
  BY <1>0, ChangeTypes
<1>3. fields = 1 .. v + 1
  <2>1. loaded[c].version = v
    <3>1. loaded[c].version \in Int
      BY <1>0, WorkItemsAssumption DEF TypeOK, RequestOK, Copy, Versions
    <3> QED BY <1>1, <3>1 DEF CopyOK
  <2> QED BY <1>1, <2>1 DEF CopyOK
<1>4. Write(c, i, row, rev)
  BY DEF WriteChange
<1>5. old \in Seq(WriteRec) /\ Len(old) \in Nat
  BY <1>0 DEF TypeOK
<1> DEFINE n == Len(old)
<1>6. /\ rows[i].status = "live"
      /\ v = rows[i].version + n
      /\ row = [rows[i] EXCEPT !.version = v + 1, !.fields = fields]
  <2>1. CASE old = <<>>
    <3>1. View(c, i) = rows[i] /\ n = 0
      BY <2>1 DEF View
    <3> QED BY <1>1, <3>1
  <2>2. CASE old # <<>>
    <3>1. n \in 1 .. n
      BY <1>5, <2>2
    <3>2. View(c, i) = UpdateWrite(i, rows[i].version + n).row /\ rows[i].status = "live"
      BY <2>2, <3>1 DEF View, Changes, ChangesOf
    <3>3. View(c, i) = [rows[i] EXCEPT !.version = rows[i].version + n, !.fields = 1 .. rows[i].version + n]
      BY <3>2 DEF UpdateWrite
    <3>4. v = rows[i].version + n
      BY <1>1, <3>3 DEF Row
    <3>5. row = [rows[i] EXCEPT !.version = v + 1, !.fields = fields]
      BY <1>1, <3>3 DEF Row
    <3> QED BY <3>2, <3>4, <3>5
  <2> QED BY <2>1, <2>2
<1>7. [row |-> row, rev |-> rev] = UpdateWrite(i, rows[i].version + (n + 1))
  <2>1. rows[i].version + (n + 1) = v + 1
    BY <1>1, <1>5, <1>6, SMTT(30)
  <2> QED BY <1>3, <1>6, <2>1 DEF UpdateWrite
<1> HIDE DEF row, rev, fields
<1>8. /\ pending'[c][i] = Append(old, [row |-> row, rev |-> rev])
      /\ \A j \in Items \ {i} : pending'[c][j] = pending[c][j]
  BY <1>0, <1>2, <1>4, WriteOthers
<1>w. [row |-> row, rev |-> rev] \in WriteRec
  BY <1>2 DEF WriteRec
<1> DEFINE w == [row |-> row, rev |-> rev]
<1> HIDE DEF w
<1>9. /\ Len(Append(old, w)) = n + 1
      /\ Append(old, w)[n + 1] = w
      /\ \A k \in 1 .. n : Append(old, w)[k] = old[k]
  BY <1>5
<1>10. \A j \in Items : \A k : UpdateWrite(j, k)' = UpdateWrite(j, k)
  BY <1>0 DEF UpdateWrite
<1>11. ASSUME NEW k \in 1 .. n + 1 PROVE Append(old, w)[k] = UpdateWrite(i, rows[i].version + k)
  <2>1. CASE k = n + 1
    BY <1>7, <1>9, <2>1 DEF w
  <2>2. CASE k # n + 1
    <3>1. k \in 1 .. n /\ old # <<>>
      BY <1>5, <2>2
    <3>2. old[k] = UpdateWrite(i, rows[i].version + k)
      BY <3>1 DEF Changes, ChangesOf
    <3> QED BY <1>9, <3>1, <3>2
  <2> QED BY <2>1, <2>2
<1>12. ChangesOf(c, i)'
  BY <1>0, <1>6, <1>8, <1>9, <1>10, <1>11 DEF ChangesOf, w
<1>13. ASSUME NEW j \in Items \ {i} PROVE ChangesOf(c, j)'
  BY <1>0, <1>8, <1>10, SMTT(30) DEF ChangesOf, Changes
<1> QED BY <1>12, <1>13 DEF Changes, HoldsNoNumber

\* Every step leaves every transaction in shape.
LEMMA TransactionStep == HInv /\ [Next]_vars => TransactionsOK'
<1> SUFFICES ASSUME HInv, [Next]_vars PROVE TransactionsOK'
  OBVIOUS
<1>t. TypeOK /\ IInv
  BY DEF HInv, IInv
<1>k. ASSUME NEW c \in Clients
      PROVE  RequestOK(pc[c], req[c], loaded[c]) /\ CopyFits(c) /\ TransactionOK(c)
  BY DEF HInv, IInv, TypeOK, CopiesOK, TransactionsOK
<1>1. ASSUME NEW c \in Clients, Arrive(c) \/ ReadForDelete(c) PROVE TransactionsOK'
  <2>1. /\ OthersWait(c) /\ UNCHANGED <<tables, locks, pending>>
        /\ pc'[c] \in {"cr_nextval", "up_save", "re_load", "de_read", "de_delete"}
    BY <1>1, <1>t DEF TypeOK, OthersWait, Goto, Arrive, ReceiveCreate, LoadForUpdate, ReceiveReorder,
                      LoadForDelete, ReadForDelete
  <2>2. pc[c] \in {"idle", "de_read"}
    BY <1>1 DEF Arrive, ReceiveCreate, LoadForUpdate, ReceiveReorder, LoadForDelete, ReadForDelete
  <2>3. HoldsNoNumber(c) /\ \A i \in Items : pending[c][i] = <<>>
    BY <2>2, <1>k DEF TransactionOK, ReorderPCs
  <2>4. HoldsNoNumber(c)' /\ \A i \in Items : pending'[c][i] = <<>>
    BY <2>1, <2>3 DEF HoldsNoNumber, locks
  <2>5. Changes(c)'
    BY <2>4 DEF Changes, ChangesOf
  <2>6. TransactionOK(c)'
    BY <2>1, <2>4, <2>5 DEF TransactionOK, ReorderPCs
  <2> QED BY <2>1, <2>6, OthersTransactions DEF locks
<1>2. ASSUME NEW c \in Clients, NextVal(c) PROVE TransactionsOK'
  <2>1. /\ OthersWait(c) /\ UNCHANGED <<tables, pending>> /\ req'[c] = req[c]
        /\ pc'[c] = "cr_insert" /\ pc[c] = "cr_nextval" /\ req[c] \in Spaces
        /\ numberLock[req[c]] = None /\ numberLock' = [numberLock EXCEPT ![req[c]] = c]
    BY <1>2, <1>t, <1>k DEF TypeOK, OthersWait, Goto, NextVal, RequestOK, CreatePCs
  <2>2. HoldsNoNumber(c) /\ \A i \in Items : pending[c][i] = <<>>
    BY <2>1, <1>k DEF TransactionOK, ReorderPCs
  <2>3. numberLock \in [Spaces -> Clients \cup {None}]
    BY <1>t DEF TypeOK
  <2>4. TransactionOK(c)'
    <3>1. numberLock'[req[c]] = c /\ \A t \in Spaces \ {req[c]} : numberLock'[t] # c
      BY <2>1, <2>2, <2>3 DEF HoldsNoNumber
    <3> QED BY <2>1, <2>2, <3>1 DEF TransactionOK, ReorderPCs
  <2>5. \A b \in Clients \ {c}, s \in Spaces : numberLock'[s] = b <=> numberLock[s] = b
    BY <2>1, <2>3, WorkItemsAssumption
  <2> QED BY <2>1, <2>4, <2>5, OthersTransactions
<1>3. ASSUME NEW c \in Clients, InsertWorkItem(c) PROVE TransactionsOK'
  <2>1. CASE Rollback(c)
    BY <2>1, RollbackTransactions
  <2>2. CASE ~Rollback(c)
    <3>2. PICK s \in Spaces : s = req[c]
      BY <1>3, <1>k DEF InsertWorkItem, RequestOK, CreatePCs
    <3> DEFINE row == [status |-> "live", version |-> 0, fields |-> {}, space |-> s, number |-> lastNumber[s] + 1]
               rev == [type |-> "create", version |-> 0, fields |-> {}]
    <3>1. PICK i \in Items : /\ rows[i] = AbsentRow /\ rowLock[i] = None
                             /\ rowLock' = [rowLock EXCEPT ![i] = c]
                             /\ Write(c, i, row, rev)
                             /\ Goto(c, "commit")
                             /\ UNCHANGED <<tables, numberLock, req, loaded>>
      BY <1>3, <2>2, <3>2 DEF InsertWorkItem
    <3>3. row \in Row /\ rev \in Revision
      <4>1. lastNumber[s] + 1 \in Nat
        BY <3>2, <1>t DEF TypeOK
      <4> QED BY <3>2, <4>1, WorkItemsAssumption DEF Row, Revision, Versions
    <3>4. [row |-> row, rev |-> rev] = CreateWrite(s)
      BY DEF CreateWrite
    <3> HIDE DEF row, rev
    <3>5. /\ pending'[c][i] = Append(pending[c][i], CreateWrite(s))
          /\ \A b \in Clients, j \in Items : b # c \/ j # i => pending'[b][j] = pending[b][j]
      BY <3>1, <3>3, <3>4, <1>t, WriteOthers
    <3>6. /\ numberLock[s] = c /\ \A t \in Spaces \ {s} : numberLock[t] # c
          /\ \A j \in Items : pending[c][j] = <<>>
      BY <1>3, <3>2, <1>k DEF TransactionOK, InsertWorkItem
    <3>7. Creation(c, i, s)'
      <4>1. pending'[c][i] = <<CreateWrite(s)>>
        BY <3>5, <3>6, AppendFirst
      <4>2. CreateWrite(s)' = CreateWrite(s)
        BY <3>1 DEF CreateWrite, tables
      <4> QED BY <3>1, <3>5, <3>6, <4>1, <4>2 DEF Creation, WroteOnly, tables, AbsentRow
    <3>8. OthersWait(c) /\ pc'[c] = "commit"
      BY <3>1, <1>t DEF TypeOK, OthersWait, Goto
    <3>9. TransactionOK(c)'
      BY <3>2, <3>7, <3>8 DEF TransactionOK, ReorderPCs
    <3> QED BY <3>1, <3>5, <3>8, <3>9, OthersTransactions
  <2> QED BY <2>1, <2>2
<1>4. ASSUME NEW c \in Clients, Save(c) PROVE TransactionsOK'
  <2>1. CASE Rollback(c)
    BY <2>1, RollbackTransactions
  <2>2. CASE ~Rollback(c)
    <3>0. PICK i \in Items, v \in -1 .. MaxVersion : i = req[c].item /\ v = req[c].version
      BY <1>4, <1>k DEF Save, RequestOK, Entry, UpdatePCs
    <3>1. CopyOK(c, i, v)
      BY <1>4, <1>k, <3>0 DEF Save, CopyFits
    <3>2. /\ pc[c] = "up_save" /\ rowLock[i] = None /\ rows[i].status = "live" /\ rows[i].version = v
          /\ WriteChange(c, i, v)
          /\ Goto(c, "commit")
          /\ UNCHANGED <<tables, numberLock, req, loaded>>
      BY <1>4, <2>2, <3>0 DEF Save
    <3>3. HoldsNoNumber(c) /\ \A j \in Items : pending[c][j] = <<>>
      BY <3>2, <1>k DEF TransactionOK, ReorderPCs
    <3>4. Changes(c) /\ View(c, i) = rows[i]
      BY <3>3 DEF Changes, ChangesOf, View
    <3>5. Changes(c)'
      BY <3>1, <3>2, <3>4, ChangeTransaction
    <3>6. OthersWait(c) /\ pc'[c] = "commit"
      BY <3>2, <1>t DEF TypeOK, OthersWait, Goto
    <3>7. TransactionOK(c)'
      BY <3>5, <3>6 DEF TransactionOK, ReorderPCs
    <3>8. \A b \in Clients \ {c}, j \in Items : pending'[b][j] = pending[b][j]
      BY <3>2, <1>t, WriteChangeOthers
    <3> QED BY <3>2, <3>6, <3>7, <3>8, OthersTransactions
  <2> QED BY <2>1, <2>2
<1>5. ASSUME NEW c \in Clients, LoadForReorder(c) \/ ReorderCheck(c) PROVE TransactionsOK'
  <2>1. CASE Rollback(c)
    BY <2>1, RollbackTransactions
  <2>2. CASE ~Rollback(c)
    <3>1. /\ OthersWait(c) /\ UNCHANGED <<tables, locks, pending>>
          /\ pc'[c] \in ReorderPCs /\ pc[c] \in ReorderPCs
      BY <1>5, <1>t, <2>2 DEF TypeOK, OthersWait, Goto, LoadForReorder, ReorderCheck, ReorderPCs
    <3>2. Changes(c)
      BY <3>1, <1>k DEF TransactionOK
    <3>3. Changes(c)'
      BY <3>1, <3>2 DEF Changes, ChangesOf, HoldsNoNumber, UpdateWrite, tables, locks
    <3>4. TransactionOK(c)'
      BY <3>1, <3>3 DEF TransactionOK, ReorderPCs
    <3> QED BY <3>1, <3>4, OthersTransactions DEF locks
  <2> QED BY <2>1, <2>2
<1>6. ASSUME NEW c \in Clients, ReorderSave(c) PROVE TransactionsOK'
  <2>1. CASE Rollback(c)
    BY <2>1, RollbackTransactions
  <2>2. CASE ~Rollback(c)
    <3>0. req[c] \in Seq(Entry) /\ req[c] # <<>> /\ pc[c] = "re_save"
      BY <1>6, <1>k DEF ReorderSave, RequestOK, ReorderPCs
    <3>1. PICK i \in Items, v \in -1 .. MaxVersion : i = req[c][1].item /\ v = req[c][1].version
      <4>1. req[c][1] \in Entry
        BY <3>0
      <4> QED BY <4>1 DEF Entry
    <3>2. /\ rowLock[i] \in {None, c} /\ View(c, i).status = "live" /\ View(c, i).version = v
          /\ WriteChange(c, i, v)
          /\ req' = [req EXCEPT ![c] = Tail(req[c])]
          /\ Goto(c, IF Len(req[c]) = 1 THEN "commit" ELSE "re_load")
          /\ UNCHANGED <<tables, numberLock, loaded>>
      BY <1>6, <2>2, <3>1 DEF ReorderSave
    <3>3. CopyOK(c, i, v)
      BY <3>0, <3>1, <1>k DEF CopyFits
    <3>4. Changes(c)
      BY <3>0, <1>k DEF TransactionOK, ReorderPCs
    <3>5. Changes(c)'
      BY <3>2, <3>3, <3>4, ChangeTransaction
    <3>6. OthersWait(c) /\ pc'[c] \in {"commit", "re_load"}
      BY <3>2, <1>t DEF TypeOK, OthersWait, Goto
    <3>7. TransactionOK(c)'
      BY <3>5, <3>6 DEF TransactionOK, ReorderPCs
    <3>8. \A b \in Clients \ {c}, j \in Items : pending'[b][j] = pending[b][j]
      BY <3>2, <1>t, WriteChangeOthers
    <3> QED BY <3>2, <3>6, <3>7, <3>8, OthersTransactions
  <2> QED BY <2>1, <2>2
<1>7. ASSUME NEW c \in Clients, DeleteRow(c) PROVE TransactionsOK'
  <2>1. CASE Rollback(c)
    BY <2>1, RollbackTransactions
  <2>2. CASE ~Rollback(c)
    <3>i. PICK i \in Items : i = req[c]
      BY <1>7, <1>k DEF DeleteRow, RequestOK, DeletePCs
    <3> DEFINE row == [rows[i] EXCEPT !.status = "deleted"]
               rev == [type |-> "delete", version |-> loaded[c].version, fields |-> {}]
    <3>1. /\ pc[c] = "de_delete" /\ rows[i].status = "live"
          /\ Write(c, i, row, rev)
          /\ Goto(c, "commit")
          /\ UNCHANGED <<tables, numberLock, req, loaded>>
      BY <1>7, <2>2, <3>i DEF DeleteRow
    <3>2. row \in Row /\ rev \in Revision /\ rev.type = "delete"
      <4>1. loaded[c].version \in Versions /\ rows[i] \in Row
        BY <3>1, <1>k, <1>t DEF RequestOK, DeletePCs, TypeOK
      <4> QED BY <4>1 DEF Row, Revision
    <3>3. [row |-> row, rev |-> rev] = DeleteWrite(i, rev)
      BY DEF DeleteWrite
    <3> HIDE DEF row, rev
    <3>4. /\ pending'[c][i] = Append(pending[c][i], DeleteWrite(i, rev))
          /\ \A b \in Clients, j \in Items : b # c \/ j # i => pending'[b][j] = pending[b][j]
      BY <3>1, <3>2, <3>3, <1>t, WriteOthers
    <3>5. HoldsNoNumber(c) /\ \A j \in Items : pending[c][j] = <<>>
      BY <3>1, <1>k DEF TransactionOK, ReorderPCs
    <3>6. Deletion(c, i, rev)'
      <4>1. pending'[c][i] = <<DeleteWrite(i, rev)>>
        BY <3>4, <3>5, AppendFirst
      <4>2. DeleteWrite(i, rev)' = DeleteWrite(i, rev) /\ rev' = rev
        BY <3>1 DEF DeleteWrite, tables, rev
      <4>3. \A j \in Items \ {i} : pending'[c][j] = <<>>
        BY <3>4, <3>5
      <4>4. HoldsNoNumber(c)'
        BY <3>1, <3>5 DEF HoldsNoNumber
      <4> QED BY <3>1, <3>2, <4>1, <4>2, <4>3, <4>4 DEF Deletion, WroteOnly, tables
    <3>7. OthersWait(c) /\ pc'[c] = "commit"
      BY <3>1, <1>t DEF TypeOK, OthersWait, Goto
    <3>8. TransactionOK(c)'
      <4>1. rev' = rev
        BY <3>1 DEF rev
      <4> QED BY <3>2, <3>6, <3>7, <4>1 DEF TransactionOK, ReorderPCs, Revision, Versions
    <3> QED BY <3>1, <3>4, <3>7, <3>8, OthersTransactions
  <2> QED BY <2>1, <2>2
<1>8. ASSUME NEW c \in Clients, Commit(c) PROVE TransactionsOK'
  BY <1>8, CommitTransactions
<1>9. ASSUME NEW c \in Clients, Fault(c) \/ DeadlockVictim(c) PROVE TransactionsOK'
  BY <1>9, RollbackTransactions DEF Fault, DeadlockVictim
<1>10. CASE UNCHANGED vars
  <2>1. ASSUME NEW b \in Clients PROVE TransactionOK(b)'
    <3>1. UNCHANGED <<rows, lastNumber, numberLock, pc, req, pending>>
      BY <1>10 DEF vars
    <3>2. pc[b] = "cr_insert" => req[b] \in Spaces
      BY <1>k DEF RequestOK, CreatePCs
    <3> QED BY <3>1, <3>2, <1>k, KeepTransaction
  <2> QED BY <2>1 DEF TransactionsOK
<1> QED BY <1>1, <1>2, <1>3, <1>4, <1>5, <1>6, <1>7, <1>8, <1>9, <1>10 DEF Next, Proceed

------------------------------------------------------------------------------
(* What a commit makes of the tables. *)

LEMMA ConcatNothing ==
    ASSUME NEW S, NEW seq \in Seq(S)
    PROVE  seq \o [k \in DOMAIN <<>> |-> <<>>[k].rev] = seq
<1>1. [k \in DOMAIN <<>> |-> <<>>[k].rev] = <<>>
  OBVIOUS
<1> QED BY <1>1, ConcatEmptySeq

LEMMA ConcatOne ==
    ASSUME NEW S, NEW seq \in Seq(S), NEW w, w.rev \in S
    PROVE  seq \o [k \in DOMAIN <<w>> |-> <<w>>[k].rev] = Append(seq, w.rev)
<1>1. [k \in DOMAIN <<w>> |-> <<w>>[k].rev] = <<w.rev>>
  OBVIOUS
<1>2. seq \o <<w.rev>> = Append(seq, w.rev)
  OBVIOUS
<1> QED BY <1>1, <1>2

LEMMA CommitOfNothing ==
    ASSUME HInv, NEW c \in Clients, NEW i \in Items, Commit(c), pending[c][i] = <<>>
    PROVE  rows'[i] = rows[i] /\ revisions'[i] = revisions[i]
<1>1. rows'[i] = rows[i]
  BY DEF Commit, View
<1>2. revisions'[i] = revisions[i] \o [k \in DOMAIN <<>> |-> <<>>[k].rev]
  BY DEF Commit
<1>3. revisions[i] \in Seq(Revision)
  BY DEF HInv, IInv, TypeOK
<1> QED BY <1>1, <1>2, <1>3, ConcatNothing

LEMMA CommitOfOne ==
    ASSUME HInv, NEW c \in Clients, NEW i \in Items, Commit(c), NEW w, w.rev \in Revision,
           pending[c][i] = <<w>>, WroteOnly(c, i)
    PROVE  /\ rows' = [rows EXCEPT ![i] = w.row]
           /\ revisions' = [revisions EXCEPT ![i] = Append(revisions[i], w.rev)]
<1>0. rows \in [Items -> Row] /\ revisions \in [Items -> Seq(Revision)]
  BY DEF HInv, IInv, TypeOK
<1>1. rows'[i] = w.row
  <2>1. View(c, i) = w.row
    BY DEF View
  <2> QED BY <2>1 DEF Commit
<1>2. revisions'[i] = Append(revisions[i], w.rev)
  <2>1. revisions'[i] = revisions[i] \o [k \in DOMAIN <<w>> |-> <<w>>[k].rev]
    BY DEF Commit
  <2> QED BY <1>0, <2>1, ConcatOne
<1>3. \A j \in Items \ {i} : rows'[j] = rows[j] /\ revisions'[j] = revisions[j]
  BY CommitOfNothing DEF WroteOnly
<1>4. rows' = [j \in Items |-> rows'[j]] /\ revisions' = [j \in Items |-> revisions'[j]]
  BY DEF Commit
<1>5. rows' = [rows EXCEPT ![i] = w.row]
  BY <1>0, <1>1, <1>3, <1>4
<1>6. revisions' = [revisions EXCEPT ![i] = Append(revisions[i], w.rev)]
  BY <1>0, <1>2, <1>3, <1>4
<1> QED BY <1>5, <1>6

\* A commit that creates a work item.
LEMMA CommitCreates ==
    ASSUME HInv, NEW c \in Clients, Commit(c), NEW i \in Items, NEW s \in Spaces, Creation(c, i, s)
    PROVE  /\ rows' = [rows EXCEPT ![i] = CreateWrite(s).row]
           /\ revisions' = [revisions EXCEPT ![i] = Append(revisions[i], CreateWrite(s).rev)]
           /\ lastNumber' = [lastNumber EXCEPT ![s] = lastNumber[s] + 1]
<1>1. CreateWrite(s).rev \in Revision
  BY WorkItemsAssumption DEF CreateWrite, Revision, Versions
<1>2. pending[c][i] = <<CreateWrite(s)>> /\ WroteOnly(c, i)
  BY DEF Creation
<1>3. lastNumber' = [lastNumber EXCEPT ![s] = lastNumber[s] + 1]
  <2>1. lastNumber \in [Spaces -> Nat]
    BY DEF HInv, IInv, TypeOK
  <2> QED BY <2>1 DEF Commit, Creation
<1> HIDE DEF CreateWrite
<1> QED BY <1>1, <1>2, <1>3, CommitOfOne

LEMMA KeepNumbers ==
    ASSUME HInv, NEW c \in Clients, Commit(c), HoldsNoNumber(c)
    PROVE  lastNumber' = lastNumber
<1>1. lastNumber \in [Spaces -> Nat]
  BY DEF HInv, IInv, TypeOK
<1> QED BY <1>1 DEF Commit, HoldsNoNumber

\* A commit that deletes a work item.
LEMMA CommitDeletes ==
    ASSUME HInv, NEW c \in Clients, Commit(c), NEW i \in Items, NEW rev \in Revision, Deletion(c, i, rev)
    PROVE  /\ rows' = [rows EXCEPT ![i] = [rows[i] EXCEPT !.status = "deleted"]]
           /\ revisions' = [revisions EXCEPT ![i] = Append(revisions[i], rev)]
           /\ lastNumber' = lastNumber
<1>1. DeleteWrite(i, rev).rev = rev /\ DeleteWrite(i, rev).row = [rows[i] EXCEPT !.status = "deleted"]
  BY DEF DeleteWrite
<1>2. pending[c][i] = <<DeleteWrite(i, rev)>> /\ WroteOnly(c, i) /\ HoldsNoNumber(c)
  BY DEF Deletion
<1> DEFINE w == DeleteWrite(i, rev)
<1>3. w.rev \in Revision /\ pending[c][i] = <<w>>
  BY <1>1, <1>2
<1> HIDE DEF w
<1>4. /\ rows' = [rows EXCEPT ![i] = w.row]
      /\ revisions' = [revisions EXCEPT ![i] = Append(revisions[i], w.rev)]
  BY <1>2, <1>3, CommitOfOne
<1> QED BY <1>1, <1>2, <1>4, KeepNumbers DEF w

\* A commit that changes work items, each a number of times.
LEMMA CommitChanges ==
    ASSUME HInv, NEW c \in Clients, Commit(c), Changes(c), NEW i \in Items, pending[c][i] # <<>>
    PROVE  \E n \in Nat \ {0} :
             /\ n = Len(pending[c][i])
             /\ rows[i].status = "live"
             /\ rows'[i] = UpdateWrite(i, rows[i].version + n).row
             /\ revisions'[i] \in Seq(Revision)
             /\ Len(revisions'[i]) = Len(revisions[i]) + n
             /\ \A k \in 1 .. Len(revisions[i]) : revisions'[i][k] = revisions[i][k]
             /\ \A k \in 1 .. n : revisions'[i][Len(revisions[i]) + k] = UpdateWrite(i, rows[i].version + k).rev
<1> DEFINE seq == pending[c][i]
           n == Len(seq)
           old == revisions[i]
           new == [k \in DOMAIN seq |-> seq[k].rev]
<1>1. seq \in Seq(WriteRec) /\ old \in Seq(Revision)
  BY DEF HInv, IInv, TypeOK
<1>2. n \in Nat \ {0} /\ n \in 1 .. n /\ DOMAIN seq = 1 .. n
  BY <1>1
<1>3. rows[i].status = "live" /\ \A k \in 1 .. n : seq[k] = UpdateWrite(i, rows[i].version + k)
  BY DEF Changes, ChangesOf
<1>4. rows'[i] = seq[n].row
  BY DEF Commit, View
<1>5. new \in Seq(Revision) /\ Len(new) = n /\ \A k \in 1 .. n : new[k] = seq[k].rev
  <2>1. new \in Seq(Revision)
    BY <1>1, RevisionsOf
  <2>2. DOMAIN new = 1 .. n /\ \A k \in 1 .. n : new[k] = seq[k].rev
    BY <1>2
  <2> HIDE DEF new
  <2>3. Len(new) = n
    BY <1>2, <2>1, <2>2
  <2> QED BY <2>1, <2>2, <2>3
<1>6. revisions'[i] = old \o new
  BY DEF Commit
<1> HIDE DEF seq, n, old, new
<1>7. /\ old \o new \in Seq(Revision)
      /\ Len(old \o new) = Len(old) + n
      /\ \A k \in 1 .. Len(old) : (old \o new)[k] = old[k]
      /\ \A k \in 1 .. n : (old \o new)[Len(old) + k] = new[k]
  BY <1>1, <1>2, <1>5
<1>8. \A k \in 1 .. n : (old \o new)[Len(old) + k] = UpdateWrite(i, rows[i].version + k).rev
  BY <1>3, <1>5, <1>7
<1>9. rows'[i] = UpdateWrite(i, rows[i].version + n).row
  BY <1>2, <1>3, <1>4
<1> QED BY <1>2, <1>3, <1>6, <1>7, <1>8, <1>9 DEF seq, n, old

\* What a change makes of a row.
LEMMA UpdateRow ==
    ASSUME TypeOK, NEW i \in Items, NEW v \in Nat
    PROVE  /\ UpdateWrite(i, v).row = [rows[i] EXCEPT !.version = v, !.fields = 1 .. v]
           /\ UpdateWrite(i, v).row.version = v
           /\ UpdateWrite(i, v).row.status = rows[i].status
           /\ UpdateWrite(i, v).row.space = rows[i].space
           /\ UpdateWrite(i, v).row.number = rows[i].number
           /\ UpdateWrite(i, v).rev = [type |-> "update", version |-> v, fields |-> 1 .. v]
<1>1. rows[i] \in Row
  BY DEF TypeOK
<1> QED BY <1>1 DEF UpdateWrite, Row

\* A commit makes one of three changes.
LEMMA CommitCases ==
    ASSUME HInv, NEW c \in Clients, Commit(c)
    PROVE  \/ \E i \in Items, s \in Spaces : Creation(c, i, s)
           \/ \E i \in Items, rev \in Revision : Deletion(c, i, rev)
           \/ Changes(c)
BY DEF HInv, TransactionsOK, TransactionOK, Commit

\* The revisions of one work item, and the numbers of one space.
Follows(i) ==
    LET revs == revisions[i]
        n == IF rows[i].status = "absent" THEN 0 ELSE rows[i].version + 1 IN
    /\ Len(revs) = n + IF rows[i].status = "deleted" THEN 1 ELSE 0
    /\ \A k \in 1 .. n : revs[k] = [type    |-> IF k = 1 THEN "create" ELSE "update",
                                    version |-> k - 1,
                                    fields  |-> 1 .. k - 1]
    /\ rows[i].status = "deleted" => revs[n + 1].type = "delete"

Dense(s) ==
    /\ {rows[i].number : i \in There(s)} = 1 .. lastNumber[s]
    /\ Cardinality(There(s)) = lastNumber[s]
    /\ IsFiniteSet(There(s))

LEMMA Parts ==
    /\ RevisionsFollowVersions <=> \A i \in Items : Follows(i)
    /\ ThereFinite /\ NumbersAreDense <=> \A s \in Spaces : Dense(s)
BY DEF RevisionsFollowVersions, Follows, ThereFinite, NumbersAreDense, Dense, There

LEMMA PartsNext ==
    /\ RevisionsFollowVersions' <=> \A i \in Items : Follows(i)'
    /\ (ThereFinite /\ NumbersAreDense)' <=> \A s \in Spaces : Dense(s)'
BY DEF RevisionsFollowVersions, Follows, ThereFinite, NumbersAreDense, Dense, There

LEMMA KeepFollows ==
    ASSUME NEW i \in Items, Follows(i), rows'[i] = rows[i], revisions'[i] = revisions[i]
    PROVE  Follows(i)'
BY DEF Follows

\* The first revision of a work item is that of its creation.
LEMMA FollowsCreate ==
    ASSUME HInv, NEW c \in Clients, Commit(c), NEW i \in Items, NEW s \in Spaces, Creation(c, i, s)
    PROVE  RevisionsFollowVersions'
<1>0. rows \in [Items -> Row] /\ revisions \in [Items -> Seq(Revision)] /\ \A j \in Items : Follows(j)
  BY Parts DEF HInv, IInv, TypeOK
<1>1. /\ rows' = [rows EXCEPT ![i] = CreateWrite(s).row]
      /\ revisions' = [revisions EXCEPT ![i] = Append(revisions[i], CreateWrite(s).rev)]
  BY CommitCreates
<1>2. ASSUME NEW j \in Items \ {i} PROVE Follows(j)'
  <2>1. rows'[j] = rows[j] /\ revisions'[j] = revisions[j]
    BY <1>0, <1>1
  <2> QED BY <1>0, <2>1, KeepFollows
<1>3. Follows(i)'
  <2>1. Len(revisions[i]) = 0
    <3>1. rows[i].status = "absent"
      BY DEF Creation, AbsentRow
    <3> QED BY <1>0, <3>1 DEF Follows
  <2>2. revisions[i] = <<>>
    BY <1>0, <2>1, EmptySeq
  <2>3. revisions'[i] = <<CreateWrite(s).rev>> /\ rows'[i] = CreateWrite(s).row
    BY <1>0, <1>1, <2>2, AppendFirst
  <2>4. /\ rows'[i].status = "live" /\ rows'[i].version = 0
        /\ revisions'[i] = <<[type |-> "create", version |-> 0, fields |-> {}]>>
    BY <2>3 DEF CreateWrite
  <2>5. Len(revisions'[i]) = 1 /\ revisions'[i][1] = [type |-> "create", version |-> 0, fields |-> {}]
    BY <2>4
  <2>6. 1 .. 0 = {} /\ 1 .. 0 + 1 = {1}
    OBVIOUS
  <2> QED BY <2>4, <2>5, <2>6 DEF Follows
<1> QED BY <1>2, <1>3, PartsNext

\* The revision of the deletion is the last one.
LEMMA FollowsDelete ==
    ASSUME HInv, NEW c \in Clients, Commit(c), NEW i \in Items, NEW rev \in Revision, Deletion(c, i, rev)
    PROVE  RevisionsFollowVersions'
<1>0. rows \in [Items -> Row] /\ revisions \in [Items -> Seq(Revision)] /\ \A j \in Items : Follows(j)
  BY Parts DEF HInv, IInv, TypeOK
<1>1. /\ rows' = [rows EXCEPT ![i] = [rows[i] EXCEPT !.status = "deleted"]]
      /\ revisions' = [revisions EXCEPT ![i] = Append(revisions[i], rev)]
  BY CommitDeletes
<1>2. ASSUME NEW j \in Items \ {i} PROVE Follows(j)'
  <2>1. rows'[j] = rows[j] /\ revisions'[j] = revisions[j]
    BY <1>0, <1>1
  <2> QED BY <1>0, <2>1, KeepFollows
<1>3. Follows(i)'
  <2> DEFINE n == rows[i].version + 1
  <2>1. rows[i].status = "live" /\ rev.type = "delete"
    BY DEF Deletion
  <2>2. n \in Nat
    BY <1>0, WorkItemsAssumption DEF Row, Versions
  <2>3. /\ rows'[i].status = "deleted" /\ rows'[i].version = rows[i].version
        /\ revisions'[i] = Append(revisions[i], rev)
    BY <1>0, <1>1 DEF Row
  <2>4. /\ Len(revisions[i]) = n
        /\ \A k \in 1 .. n : revisions[i][k] = [type    |-> IF k = 1 THEN "create" ELSE "update",
                                                version |-> k - 1, fields  |-> 1 .. k - 1]
    BY <1>0, <2>1, <2>2 DEF Follows
  <2> DEFINE revs == revisions[i]
  <2>r. revs \in Seq(Revision) /\ Len(revs) = n
    BY <1>0, <2>4
  <2> HIDE DEF n, revs
  <2>5. /\ Len(Append(revs, rev)) = n + 1
        /\ \A k \in 1 .. n : Append(revs, rev)[k] = revs[k]
        /\ Append(revs, rev)[n + 1] = rev
    BY <2>2, <2>r
  <2>6. /\ Len(revisions'[i]) = n + 1
        /\ \A k \in 1 .. n : revisions'[i][k] = [type    |-> IF k = 1 THEN "create" ELSE "update",
                                                 version |-> k - 1, fields  |-> 1 .. k - 1]
        /\ revisions'[i][n + 1].type = "delete"
    BY <2>1, <2>3, <2>4, <2>5 DEF revs
  <2> QED BY <2>3, <2>6 DEF Follows, n
<1> QED BY <1>2, <1>3, PartsNext

\* The pending revisions are those of the next versions.
LEMMA FollowsChanges ==
    ASSUME HInv, NEW c \in Clients, Commit(c), Changes(c)
    PROVE  RevisionsFollowVersions'
<1>0. TypeOK /\ rows \in [Items -> Row] /\ revisions \in [Items -> Seq(Revision)] /\ \A j \in Items : Follows(j)
  BY Parts DEF HInv, IInv, TypeOK
<1>1. ASSUME NEW i \in Items PROVE Follows(i)'
  <2>1. CASE pending[c][i] = <<>>
    BY <1>0, <2>1, CommitOfNothing, KeepFollows
  <2>2. CASE pending[c][i] # <<>>
    <3> DEFINE v == rows[i].version
    <3>1. PICK n \in Nat \ {0} :
             /\ rows[i].status = "live"
             /\ rows'[i] = UpdateWrite(i, rows[i].version + n).row
             /\ revisions'[i] \in Seq(Revision)
             /\ Len(revisions'[i]) = Len(revisions[i]) + n
             /\ \A k \in 1 .. Len(revisions[i]) : revisions'[i][k] = revisions[i][k]
             /\ \A k \in 1 .. n : revisions'[i][Len(revisions[i]) + k] = UpdateWrite(i, rows[i].version + k).rev
      BY <2>2, CommitChanges
    <3>2. v \in Nat
      BY <1>0, WorkItemsAssumption DEF Row, Versions
    <3>3. rows'[i].status = "live" /\ rows'[i].version = v + n
      <4>1. v + n \in Nat
        BY <3>2
      <4>2. /\ UpdateWrite(i, v + n).row.version = v + n
            /\ UpdateWrite(i, v + n).row.status = rows[i].status
        BY <1>0, <4>1, UpdateRow
      <4> QED BY <3>1, <4>2
    <3>4. /\ Len(revisions[i]) = v + 1
          /\ \A k \in 1 .. v + 1 : revisions[i][k] = [type    |-> IF k = 1 THEN "create" ELSE "update",
                                                      version |-> k - 1, fields  |-> 1 .. k - 1]
      <4>1. Follows(i) /\ rows[i].status = "live"
        BY <1>0, <3>1
      <4>2. Len(revisions[i]) = v + 1
        BY <3>2, <4>1 DEF Follows
      <4>3. \A k \in 1 .. v + 1 : revisions[i][k] = [type    |-> IF k = 1 THEN "create" ELSE "update",
                                                    version |-> k - 1, fields  |-> 1 .. k - 1]
        BY <4>1, Zenon DEF Follows
      <4> QED  BY <4>2, <4>3
    <3> HIDE DEF v
    <3>5. ASSUME NEW k \in 1 .. v + n + 1
          PROVE  revisions'[i][k] = [type    |-> IF k = 1 THEN "create" ELSE "update",
                                     version |-> k - 1, fields  |-> 1 .. k - 1]
      <4>1. CASE k \in 1 .. v + 1
        BY <3>1, <3>4, <4>1
      <4>2. CASE k \notin 1 .. v + 1
        <5>1. k - (v + 1) \in 1 .. n /\ k = (v + 1) + (k - (v + 1)) /\ k # 1 /\ v + (k - (v + 1)) = k - 1
          BY <3>2, <4>2
        <5>2. revisions'[i][k] = UpdateWrite(i, v + (k - (v + 1))).rev
          <6>1. PICK m \in 1 .. n : m = k - (v + 1)
            BY <5>1
          <6>2. revisions'[i][Len(revisions[i]) + m] = UpdateWrite(i, v + m).rev
            BY <3>1 DEF v
          <6>3. Len(revisions[i]) + m = k
            BY <3>4, <5>1, <6>1
          <6> QED  BY <6>1, <6>2, <6>3
        <5>3. revisions'[i][k] = [type |-> "update", version |-> k - 1, fields |-> 1 .. k - 1]
          <6>1. k - 1 \in Nat
            BY <3>2
          <6>2. UpdateWrite(i, k - 1).rev = [type |-> "update", version |-> k - 1, fields |-> 1 .. k - 1]
            BY <1>0, <6>1, UpdateRow
          <6> QED BY <5>1, <5>2, <6>2
        <5> QED BY <5>1, <5>3
      <4> QED BY <4>1, <4>2
    <3>6. Len(revisions'[i]) = v + n + 1
      BY <3>1, <3>2, <3>4
    <3> QED BY <3>2, <3>3, <3>5, <3>6 DEF Follows
  <2> QED BY <2>1, <2>2
<1> QED BY <1>1, PartsNext

\* Rows that stay what they are, as far as the numbers go, keep the numbers dense.
LEMMA KeepDense ==
    ASSUME HInv, lastNumber' = lastNumber,
           \A i \in Items : /\ rows'[i].status = "absent" <=> rows[i].status = "absent"
                            /\ rows'[i].space = rows[i].space
                            /\ rows'[i].number = rows[i].number
    PROVE  (ThereFinite /\ NumbersAreDense)'
<1>1. ASSUME NEW s \in Spaces PROVE Dense(s)'
  <2>1. There(s)' = There(s)
    BY DEF There
  <2>2. Dense(s)
    BY Parts DEF HInv
  <2>3. {rows'[i].number : i \in There(s)} = {rows[i].number : i \in There(s)}
    BY DEF There
  <2> QED BY <2>1, <2>2, <2>3 DEF Dense
<1> QED BY <1>1, PartsNext

\* A new work item gets the next number.
LEMMA DenseCreate ==
    ASSUME HInv, NEW c \in Clients, Commit(c), NEW i \in Items, NEW s \in Spaces, Creation(c, i, s)
    PROVE  (ThereFinite /\ NumbersAreDense)'
<1>0. /\ rows \in [Items -> Row] /\ lastNumber \in [Spaces -> Nat] /\ \A t \in Spaces : Dense(t)
      /\ rows[i] = AbsentRow
  BY Parts DEF HInv, IInv, TypeOK, Creation
<1>1. /\ rows' = [rows EXCEPT ![i] = CreateWrite(s).row]
      /\ lastNumber' = [lastNumber EXCEPT ![s] = lastNumber[s] + 1]
  BY CommitCreates
<1>2. /\ rows'[i].status = "live" /\ rows'[i].space = s /\ rows'[i].number = lastNumber[s] + 1
      /\ \A j \in Items \ {i} : rows'[j] = rows[j]
      /\ rows[i].status = "absent"
  BY <1>0, <1>1 DEF CreateWrite, AbsentRow
<1>3. ASSUME NEW t \in Spaces \ {s} PROVE Dense(t)'
  <2>1. There(t)' = There(t) /\ i \notin There(t) /\ There(t) \subseteq Items
    BY <1>2 DEF There
  <2>2. {rows'[j].number : j \in There(t)} = {rows[j].number : j \in There(t)}
    BY <1>2, <2>1
  <2>3. lastNumber'[t] = lastNumber[t]
    BY <1>0, <1>1
  <2> QED BY <1>0, <2>1, <2>2, <2>3 DEF Dense
<1>4. Dense(s)'
  <2>1. There(s)' = There(s) \cup {i} /\ i \notin There(s) /\ There(s) \subseteq Items
    BY <1>2 DEF There
  <2>2. lastNumber'[s] = lastNumber[s] + 1 /\ lastNumber[s] \in Nat
    BY <1>0, <1>1
  <2>3. IsFiniteSet(There(s)') /\ Cardinality(There(s)') = lastNumber[s] + 1
    <3>1. IsFiniteSet(There(s)) /\ Cardinality(There(s)) = lastNumber[s]
      BY <1>0 DEF Dense
    <3> QED BY <2>1, <3>1, FS_AddElement
  <2>4. {rows'[j].number : j \in There(s)'} = {rows[j].number : j \in There(s)} \cup {lastNumber[s] + 1}
    BY <1>2, <2>1
  <2>5. {rows[j].number : j \in There(s)} = 1 .. lastNumber[s]
    BY <1>0 DEF Dense
  <2>6. (1 .. lastNumber[s]) \cup {lastNumber[s] + 1} = 1 .. lastNumber[s] + 1
    BY <2>2
  <2> QED BY <2>2, <2>3, <2>4, <2>5, <2>6 DEF Dense
<1> QED BY <1>3, <1>4, PartsNext

\* Committed rows, by what the transaction does.
LEMMA CommitTables ==
    ASSUME HInv, NEW c \in Clients, Commit(c)
    PROVE  AbsentOK' /\ (ThereFinite /\ NumbersAreDense)' /\ RevisionsFollowVersions'
<1>0. TypeOK /\ rows \in [Items -> Row] /\ AbsentOK
  BY DEF HInv, IInv, TypeOK
<1>1. ASSUME NEW i \in Items, NEW s \in Spaces, Creation(c, i, s)
      PROVE  AbsentOK' /\ (ThereFinite /\ NumbersAreDense)' /\ RevisionsFollowVersions'
  <2>1. rows' = [rows EXCEPT ![i] = CreateWrite(s).row] /\ CreateWrite(s).row.status = "live"
    BY <1>1, CommitCreates DEF CreateWrite
  <2>2. AbsentOK'
    BY <1>0, <2>1 DEF AbsentOK, AbsentRow
  <2> QED BY <1>1, <2>2, DenseCreate, FollowsCreate
<1>2. ASSUME NEW i \in Items, NEW rev \in Revision, Deletion(c, i, rev)
      PROVE  AbsentOK' /\ (ThereFinite /\ NumbersAreDense)' /\ RevisionsFollowVersions'
  <2>1. rows' = [rows EXCEPT ![i] = [rows[i] EXCEPT !.status = "deleted"]] /\ lastNumber' = lastNumber
    BY <1>2, CommitDeletes
  <2>2. /\ rows'[i].status = "deleted" /\ rows'[i].space = rows[i].space /\ rows'[i].number = rows[i].number
        /\ rows[i].status = "live"
        /\ \A j \in Items \ {i} : rows'[j] = rows[j]
    BY <1>0, <1>2, <2>1 DEF Row, Deletion
  <2>3. AbsentOK'
    BY <1>0, <2>2 DEF AbsentOK, AbsentRow
  <2>4. (ThereFinite /\ NumbersAreDense)'
    BY <2>1, <2>2, KeepDense
  <2> QED BY <1>2, <2>3, <2>4, FollowsDelete
<1>3. ASSUME Changes(c)
      PROVE  AbsentOK' /\ (ThereFinite /\ NumbersAreDense)' /\ RevisionsFollowVersions'
  <2>1. ASSUME NEW i \in Items
        PROVE  \/ rows'[i] = rows[i]
               \/ /\ rows'[i].status = "live" /\ rows[i].status = "live"
                  /\ rows'[i].space = rows[i].space /\ rows'[i].number = rows[i].number
    <3>1. CASE pending[c][i] = <<>>
      BY <3>1, CommitOfNothing
    <3>2. CASE pending[c][i] # <<>>
      <4>1. PICK n \in Nat \ {0} : /\ rows[i].status = "live"
                                   /\ rows'[i] = UpdateWrite(i, rows[i].version + n).row
        BY <1>3, <3>2, CommitChanges
      <4>2. rows[i].version + n \in Nat
        BY <1>0, WorkItemsAssumption DEF Row, Versions
      <4> DEFINE row == UpdateWrite(i, rows[i].version + n).row
      <4>3. row.status = rows[i].status /\ row.space = rows[i].space /\ row.number = rows[i].number
        BY <1>0, <4>2, UpdateRow
      <4> HIDE DEF row
      <4>4. rows'[i] = row
        BY <4>1 DEF row
      <4> QED BY <4>1, <4>3, <4>4
    <3> QED BY <3>1, <3>2
  <2>2. AbsentOK'
    BY <1>0, <2>1 DEF AbsentOK, AbsentRow
  <2>3. lastNumber' = lastNumber
    BY <1>3, KeepNumbers DEF Changes
  <2>4. (ThereFinite /\ NumbersAreDense)'
    BY <2>1, <2>3, KeepDense
  <2> QED BY <1>3, <2>2, <2>4, FollowsChanges
<1> QED BY <1>1, <1>2, <1>3, CommitCases

------------------------------------------------------------------------------
\* Only a commit changes the tables.
LEMMA TablesChange ==
    ASSUME [Next]_vars
    PROVE  UNCHANGED tables \/ \E c \in Clients : Commit(c)
BY DEF Next, Arrive, Proceed, ReceiveCreate, LoadForUpdate, ReceiveReorder, LoadForDelete, NextVal,
       InsertWorkItem, Save, LoadForReorder, ReorderCheck, ReorderSave, ReadForDelete, DeleteRow,
       DeadlockVictim, Fault, Rollback, vars, tables

LEMMA TablesStep ==
    ASSUME HInv, [Next]_vars
    PROVE  AbsentOK' /\ ThereFinite' /\ NumbersAreDense' /\ RevisionsFollowVersions'
<1>1. CASE UNCHANGED tables
  <2>1. UNCHANGED <<rows, revisions, lastNumber>>
    BY <1>1 DEF tables
  <2>2. (ThereFinite /\ NumbersAreDense)'
    BY <2>1, KeepDense
  <2>3. AbsentOK'
    BY <2>1 DEF HInv, AbsentOK, AbsentRow
  <2>4. RevisionsFollowVersions'
    BY <2>1, Parts, PartsNext, KeepFollows DEF HInv
  <2> QED BY <2>2, <2>3, <2>4
<1>2. ASSUME NEW c \in Clients, Commit(c)
      PROVE  AbsentOK' /\ ThereFinite' /\ NumbersAreDense' /\ RevisionsFollowVersions'
  BY <1>2, CommitTables
<1> QED BY <1>1, <1>2, TablesChange

LEMMA InitHistory == Init => HInv
<1> SUFFICES ASSUME Init PROVE HInv
  OBVIOUS
<1>1. IInv
  BY InitInvariant
<1>2. AbsentOK
  BY DEF Init, AbsentOK
<1>3. TransactionsOK
  <2>1. \A c \in Clients : pc[c] = "idle" /\ \A i \in Items : pending[c][i] = <<>>
    BY DEF Init, NothingWritten
  <2>2. \A c \in Clients : HoldsNoNumber(c)
    BY WorkItemsAssumption DEF Init, HoldsNoNumber
  <2> QED BY <2>1, <2>2 DEF TransactionsOK, TransactionOK, ReorderPCs
<1>4. ThereFinite /\ NumbersAreDense
  <2>1. ASSUME NEW s \in Spaces PROVE Dense(s)
    <3>1. There(s) = {} /\ lastNumber[s] = 0
      BY DEF Init, There, AbsentRow
    <3>2. 1 .. 0 = {} /\ {rows[i].number : i \in {}} = {}
      OBVIOUS
    <3> QED BY <3>1, <3>2, FS_EmptySet DEF Dense
  <2> QED BY <2>1, Parts
<1>5. RevisionsFollowVersions
  <2>1. ASSUME NEW i \in Items PROVE Follows(i)
    <3>1. rows[i].status = "absent" /\ revisions[i] = <<>>
      BY DEF Init, AbsentRow
    <3>2. 1 .. 0 = {} /\ Len(<<>>) = 0
      OBVIOUS
    <3> QED BY <3>1, <3>2 DEF Follows
  <2> QED BY <2>1, Parts
<1> QED BY <1>1, <1>2, <1>3, <1>4, <1>5 DEF HInv

LEMMA HistoryInvariance == Spec => []HInv
<1>1. HInv /\ [Next]_vars => HInv'
  <2> SUFFICES ASSUME HInv, [Next]_vars PROVE HInv'
    OBVIOUS
  <2>1. IInv'
    BY TypeStep, CopiesStep DEF HInv, IInv
  <2> QED BY <2>1, TransactionStep, TablesStep DEF HInv
<1> QED BY <1>1, InitHistory, PTL DEF Spec

\* The numbers of the work items of a space are 1, 2, 3, ... without a gap and each used
\* once, deleted work items and failed creations included: the upsert of the number
\* sequence is locked until the creation that it numbers commits or rolls back
\* (numbersequence's NextVal, called by Create in workitem_repository.go).
THEOREM WorkItemNumbersAreDense == Spec => []NumbersAreDense
<1>1. HInv => NumbersAreDense
  BY DEF HInv
<1> QED BY <1>1, HistoryInvariance, PTL

\* The revisions of a work item are its creation, then one for each version in order with
\* the fields it had, then at most one deletion: no request stores a revision out of turn
\* (the calls of wirr.Create in Create, Save, Reorder and Delete).
THEOREM WorkItemRevisionsFollowVersions == Spec => []RevisionsFollowVersions
<1>1. HInv => RevisionsFollowVersions
  BY DEF HInv
<1> QED BY <1>1, HistoryInvariance, PTL

------------------------------------------------------------------------------
(* The requests implement ItemHistory. *)

LEMMA HistoryInit == Init => History!Init
BY DEF Init, History!Init, AbsentRow, History!AbsentRow

LEMMA HistoryCreate ==
    ASSUME HInv, NEW c \in Clients, Commit(c), NEW i \in Items, NEW s \in Spaces, Creation(c, i, s)
    PROVE  History!Create(i, s)
<1>1. /\ rows' = [rows EXCEPT ![i] = CreateWrite(s).row]
      /\ lastNumber' = [lastNumber EXCEPT ![s] = lastNumber[s] + 1]
  BY CommitCreates
<1>2. lastNumber \in [Spaces -> Nat]
  BY DEF HInv, IInv, TypeOK
<1>3. lastNumber'[s] = lastNumber[s] + 1
  BY <1>1, <1>2
<1>4. CreateWrite(s).row = [status |-> "live", version |-> 0, fields |-> {}, space |-> s, number |-> lastNumber'[s]]
  BY <1>3 DEF CreateWrite
<1>5. rows[i] = History!AbsentRow
  BY DEF Creation, AbsentRow, History!AbsentRow
<1> HIDE DEF CreateWrite
<1> QED BY <1>1, <1>4, <1>5 DEF History!Create

LEMMA HistoryDelete ==
    ASSUME HInv, NEW c \in Clients, Commit(c), NEW i \in Items, NEW rev \in Revision, Deletion(c, i, rev)
    PROVE  History!Delete(i)
<1>1. /\ rows' = [rows EXCEPT ![i] = [rows[i] EXCEPT !.status = "deleted"]]
      /\ lastNumber' = lastNumber
  BY CommitDeletes
<1>2. rows[i].status = "live"
  BY DEF Deletion
<1> QED BY <1>1, <1>2 DEF History!Delete

LEMMA HistoryUpdate ==
    ASSUME HInv, NEW c \in Clients, Commit(c), Changes(c)
    PROVE  History!Update
<1>0. TypeOK /\ FieldsComplete
  BY DEF HInv, IInv
<1>1. ASSUME NEW i \in Items PROVE History!Updated(i) \/ rows'[i] = rows[i]
  <2>1. CASE pending[c][i] = <<>>
    BY <2>1, CommitOfNothing
  <2>2. CASE pending[c][i] # <<>>
    <3> DEFINE v == rows[i].version
    <3>1. PICK n \in Nat \ {0} : rows[i].status = "live" /\ rows'[i] = UpdateWrite(i, v + n).row
      BY <2>2, CommitChanges
    <3>2. v \in Nat /\ v + n \in Nat /\ rows[i].fields = 1 .. v
      BY <1>0, WorkItemsAssumption DEF TypeOK, Row, Versions, FieldsComplete
    <3>3. rows'[i] = [rows[i] EXCEPT !.version = v + n, !.fields = 1 .. v + n] /\ rows'[i].version = v + n
      <4>1. /\ UpdateWrite(i, v + n).row = [rows[i] EXCEPT !.version = v + n, !.fields = 1 .. v + n]
            /\ UpdateWrite(i, v + n).row.version = v + n
        BY <1>0, <3>2, UpdateRow
      <4> DEFINE row == UpdateWrite(i, v + n).row
      <4>2. rows'[i] = row
        BY <3>1
      <4> HIDE DEF row
      <4> QED BY <4>1, <4>2 DEF row
    <3> HIDE DEF v
    <3>4. (1 .. v) \cup ((v + 1) .. (v + n)) = 1 .. (v + n) /\ n \in 1 .. 1 + (v + n)
      BY <3>2
    <3>5. rows'[i] = [rows[i] EXCEPT !.version = v + n, !.fields = rows[i].fields \cup ((v + 1) .. (v + n))]
      BY <3>2, <3>3, <3>4
    <3>6. n \in 1 .. 1 + rows'[i].version
      BY <3>3, <3>4
    <3> QED BY <3>1, <3>5, <3>6 DEF v, History!Updated
  <2> QED BY <2>1, <2>2
<1>2. DOMAIN rows' = Items
  BY DEF Commit
<1>3. lastNumber' = lastNumber
  BY KeepNumbers DEF Changes
<1> QED BY <1>1, <1>2, <1>3 DEF History!Update

\* Every step of the requests is a step of ItemHistory or leaves its variables alone.
LEMMA HistoryStep ==
    ASSUME HInv, [Next]_vars
    PROVE  [History!Next]_<<rows, lastNumber>>
<1>1. CASE UNCHANGED tables
  BY <1>1 DEF tables
<1>2. ASSUME NEW c \in Clients, Commit(c) PROVE History!Next
  BY <1>2, CommitCases, HistoryCreate, HistoryDelete, HistoryUpdate DEF History!Next
<1> QED BY <1>1, <1>2, TablesChange

\* Whatever requests run at the same time and wherever they fail, the committed rows and
\* numbers only ever change as ItemHistory says: a creation takes the next number, an accepted
\* change builds on the version just before it, and what is deleted never changes again.
THEOREM WorkItemsImplementHistory == Spec => ImplementsHistory
<1>1. HInv /\ [Next]_vars => [History!Next]_<<rows, lastNumber>>
  BY HistoryStep
<1> QED BY <1>1, HistoryInit, HistoryInvariance, PTL DEF Spec, ImplementsHistory, History!Spec
===============================================================================
