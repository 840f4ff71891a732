--------------------------- MODULE ResourcesProofs ---------------------------
(***************************************************************************)
(* Proofs about comments, about labels and saved queries, about users, and *)
(* about spaces with their codebases: resources that a request reads in    *)
(* one transaction and writes in another; and about the pages in which     *)
(* resources are listed.                                                   *)
(***************************************************************************)
EXTENDS Comments, LabelsAndQueries, Users, Spaces, Paging, FiniteSetTheorems, TLAPS

-------------------------------------------------------------------------------
(* Comments: the inductive invariant.  A request that has written the row  *)
(* and not committed (locked) has found it live, and nobody else can have  *)
(* changed it since; one that goes on without the lock is a deletion of a  *)
(* comment that is deleted already.                                        *)

RevisionType == [type : {"create", "update", "delete"}, modifier : Authors, body : Bodies \cup {NoBody}]
CommentType == [body : Bodies \cup {NoBody}, deleted : BOOLEAN]
CReqType ==
    [pc : {"idle", "find", "write", "revise"}, op : {"none", "update", "delete"},
     c : CommentIDs \cup {"none"}, body : Bodies \cup {NoBody}, loaded : Bodies \cup {NoBody}, locked : BOOLEAN]

\* The revisions of a comment and its row.
HistoryOK(revs, row) ==
    /\ \A i \in DOMAIN revs : revs[i].type = "create" <=> i = 1
    /\ row.deleted <=> revs[Len(revs)].type = "delete"
    /\ ~row.deleted => revs[Len(revs)].body = row.body
    /\ \A i, j \in DOMAIN revs : i < j /\ revs[i].type = "delete" => revs[j].type = "delete"

\* Whoever has loaded a comment may change it.
AuthorOf(u, c) == Creators[c] = u \/ u \in Collaborators

CReqOK(r, u) ==
    /\ r \in CReqType
    /\ r.pc = "idle" => ~r.locked
    /\ r.pc # "idle" =>
         /\ r.c \in CommentIDs /\ CExists(r.c) /\ AuthorOf(u, r.c) /\ r.op \in {"update", "delete"}
         /\ r.locked => r.pc = "revise" /\ ~comments[r.c].deleted
         /\ r.pc = "revise" /\ ~r.locked => r.op = "delete" /\ comments[r.c].deleted

CInv ==
    /\ comments \in [CommentIDs -> CommentType]
    /\ crevisions \in [CommentIDs -> Seq(RevisionType)]
    /\ creq \in [Authors -> CReqType]
    /\ \A c \in CommentIDs : IF CExists(c) THEN HistoryOK(crevisions[c], comments[c]) ELSE comments[c].deleted
    /\ \A c \in CommentIDs : \A i \in DOMAIN crevisions[c] :
         crevisions[c][i].modifier # Creators[c] => crevisions[c][i].modifier \in Collaborators
    /\ \A u \in Authors : CReqOK(creq[u], u)
    /\ \A u, v \in Authors : creq[u].locked /\ creq[v].locked /\ creq[u].c = creq[v].c => u = v


LEMMA CInvSound == CInv => CommentsAreAccountable
<1> SUFFICES ASSUME CInv  PROVE  CommentsAreAccountable
  OBVIOUS
<1>1. \A u \in Authors : creq[u].pc # "idle" => creq[u].c \in CommentIDs /\ CExists(creq[u].c)
  BY DEF CInv, CReqOK
<1>2. CommentsTypeOK
  BY <1>1 DEF CInv, CommentsTypeOK, RevisionType, CommentType
<1>3. RevisionsTellTheBody
  BY DEF CInv, RevisionsTellTheBody, HistoryOK
<1>4. OnlyCollaboratorsModerate
  BY DEF CInv, OnlyCollaboratorsModerate
<1> QED  BY <1>2, <1>3, <1>4 DEF CommentsAreAccountable

LEMMA CInvInit == CommentsInit => CInv
<1> SUFFICES ASSUME CommentsInit  PROVE  CInv
  OBVIOUS
<1>1. CMissing \in CommentType /\ CMissing.deleted /\ CIdle \in CReqType /\ CIdle.pc = "idle" /\ ~CIdle.locked
  BY DEF CMissing, CommentType, CIdle, CReqType
<1>2. <<>> \in Seq(RevisionType) /\ DOMAIN <<>> = {}
  OBVIOUS
<1>3. \A c \in CommentIDs : ~CExists(c) /\ comments[c].deleted /\ crevisions[c] = <<>>
  BY <1>1 DEF CommentsInit, CExists
<1>4. \A u \in Authors : CReqOK(creq[u], u) /\ ~creq[u].locked
  BY <1>1 DEF CommentsInit, CReqOK
<1>5. /\ comments \in [CommentIDs -> CommentType] /\ crevisions \in [CommentIDs -> Seq(RevisionType)]
      /\ creq \in [Authors -> CReqType]
  BY <1>1, <1>2 DEF CommentsInit
<1> QED  BY <1>2, <1>3, <1>4, <1>5 DEF CInv

\* Another revision of a comment, which changes the row to what it says.
LEMMA HistoryAppend ==
    ASSUME NEW revs \in Seq(RevisionType), revs # <<>>, NEW row \in CommentType, HistoryOK(revs, row),
           NEW rev \in RevisionType, rev.type \in {"update", "delete"},
           NEW row2 \in CommentType, row.deleted => rev.type = "delete",
           row2.deleted <=> rev.type = "delete", ~row2.deleted => row2.body = rev.body
    PROVE  HistoryOK(Append(revs, rev), row2) /\ Append(revs, rev) \in Seq(RevisionType)
<1> DEFINE n == Len(revs)
           new == Append(revs, rev)
<1>1. n \in Nat \ {0} /\ DOMAIN revs = 1 .. n
  OBVIOUS
<1>2. /\ new \in Seq(RevisionType) /\ Len(new) = n + 1 /\ DOMAIN new = 1 .. n + 1
      /\ new[n + 1] = rev /\ \A k \in 1 .. n : new[k] = revs[k]
  OBVIOUS
<1>3. /\ \A i \in 1 .. n : revs[i].type = "create" <=> i = 1
      /\ row.deleted <=> revs[n].type = "delete"
      /\ \A i, j \in 1 .. n : i < j /\ revs[i].type = "delete" => revs[j].type = "delete"
  BY <1>1 DEF HistoryOK
<1> HIDE DEF n, new
<1>4. \A i \in 1 .. n + 1 : new[i].type = "create" <=> i = 1
  <2> TAKE i \in 1 .. n + 1
  <2>1. CASE i \in 1 .. n
    BY <1>2, <1>3, <2>1
  <2>2. CASE i = n + 1
    BY <1>1, <1>2, <2>2
  <2> QED  BY <1>1, <2>1, <2>2
<1>5. ASSUME NEW i \in 1 .. n, revs[i].type = "delete"  PROVE  row.deleted
  <2>1. CASE i = n
    BY <1>3, <1>5, <2>1
  <2>2. CASE i < n
    <3>1. revs[n].type = "delete"
      BY <1>1, <1>3, <1>5, <2>2
    <3> QED  BY <1>3, <3>1
  <2> QED  BY <1>1, <2>1, <2>2
<1>6. ASSUME NEW i \in 1 .. n + 1, NEW j \in 1 .. n + 1, i < j, new[i].type = "delete"
      PROVE  new[j].type = "delete"
  <2>1. i \in 1 .. n /\ revs[i].type = "delete"
    BY <1>1, <1>2, <1>6
  <2>2. CASE j \in 1 .. n
    BY <1>2, <1>3, <1>6, <2>1, <2>2
  <2>3. CASE j = n + 1
    BY <1>2, <1>5, <2>1, <2>3
  <2> QED  BY <1>1, <2>2, <2>3
<1>7. HistoryOK(new, row2)
  BY <1>2, <1>4, <1>6 DEF HistoryOK
<1> QED  BY <1>2, <1>7 DEF new

\* A step of the request of u that writes no table.
LEMMA CRequestStep ==
    ASSUME CInv, NEW u \in Authors, NEW r \in CReqType, creq' = [creq EXCEPT ![u] = r],
           comments' = comments, crevisions' = crevisions, CReqOK(r, u),
           r.locked => ~\E v \in Authors \ {u} : creq[v].locked /\ creq[v].c = r.c
    PROVE  CInv'
<1>1. creq' \in [Authors -> CReqType] /\ \A v \in Authors : creq'[v] = IF v = u THEN r ELSE creq[v]
  BY DEF CInv
<1>2. \A v \in Authors : CReqOK(creq'[v], v)
  BY <1>1 DEF CInv
<1>3. \A v \in Authors : CReqOK(creq[v], v)'
  BY <1>2 DEF CReqOK, CExists
<1>4. \A v, w \in Authors : creq'[v].locked /\ creq'[w].locked /\ creq'[v].c = creq'[w].c => v = w
  BY <1>1 DEF CInv
<1>5. \A c \in CommentIDs : CExists(c)' <=> CExists(c)
  BY DEF CExists
<1> QED  BY <1>1, <1>3, <1>4, <1>5 DEF CInv


\* Steps that only change the request: loading, looking up, writing under the lock of the
\* row, and rolling back.
LEMMA CRequestSteps ==
    ASSUME CInv, NEW u \in Authors,
           \/ \E c \in CommentIDs, b \in Bodies \cup {NoBody} :
                LoadComment(u, c, "update", b) \/ LoadComment(u, c, "delete", b)
           \/ FindComment(u) \/ WriteComment(u) \/ RollBackComment(u)
    PROVE  CInv'
<1>0. CIdle \in CReqType /\ CReqOK(CIdle, u) /\ ~CIdle.locked
  BY DEF CIdle, CReqType, CReqOK
<1>1. creq[u] \in CReqType /\ CReqOK(creq[u], u)
  BY DEF CInv
<1>2. ASSUME creq' = [creq EXCEPT ![u] = CIdle], comments' = comments, crevisions' = crevisions
      PROVE  CInv'
  <2>1. PICK r \in CReqType : r = CIdle
    BY <1>0
  <2> QED  BY <1>0, <1>2, <2>1, CRequestStep
<1>3. ASSUME NEW c \in CommentIDs, NEW b \in Bodies \cup {NoBody}, NEW op \in {"update", "delete"},
             LoadComment(u, c, op, b)
      PROVE  CInv'
  <2>1. PICK r : r = [pc |-> "find", op |-> op, c |-> c, body |-> b, loaded |-> comments[c].body, locked |-> FALSE]
    OBVIOUS
  <2>2. /\ creq' = [creq EXCEPT ![u] = r] /\ comments' = comments /\ crevisions' = crevisions
        /\ ~comments[c].deleted /\ MayChange(u, c)
    BY <1>3, <2>1 DEF LoadComment
  <2>3. comments[c].body \in Bodies \cup {NoBody}
    BY DEF CInv, CommentType
  <2>4. r \in CReqType
    BY <2>1, <2>3 DEF CReqType
  <2>5. CExists(c) /\ AuthorOf(u, c)
    BY <2>2 DEF CInv, MayChange, AuthorOf
  <2>6. CReqOK(r, u) /\ ~r.locked
    BY <2>1, <2>4, <2>5 DEF CReqOK
  <2> QED  BY <2>2, <2>4, <2>6, CRequestStep
<1>4. CASE FindComment(u)
  <2>1. PICK r : r = [creq[u] EXCEPT !.pc = "write"]
    OBVIOUS
  <2>2. /\ creq[u].pc = "find" /\ comments' = comments /\ crevisions' = crevisions
        /\ creq' = [creq EXCEPT ![u] = CIdle] \/ creq' = [creq EXCEPT ![u] = r]
    BY <1>4, <2>1 DEF FindComment
  <2>3. /\ r \in CReqType /\ r.pc = "write" /\ r.c = creq[u].c /\ r.op = creq[u].op /\ r.locked = creq[u].locked
    BY <1>1, <2>1 DEF CReqType
  <2>4. CReqOK(r, u) /\ ~r.locked
    BY <1>1, <2>2, <2>3 DEF CReqOK
  <2> QED  BY <1>2, <2>2, <2>3, <2>4, CRequestStep
<1>5. CASE WriteComment(u)
  <2>1. PICK r1 : r1 = [creq[u] EXCEPT !.pc = "revise", !.locked = TRUE]
    OBVIOUS
  <2>2. PICK r2 : r2 = [creq[u] EXCEPT !.pc = "revise"]
    OBVIOUS
  <2>3. /\ creq[u].pc = "write" /\ ~CLocked(creq[u].c) /\ comments' = comments /\ crevisions' = crevisions
        /\ \/ ~comments[creq[u].c].deleted /\ creq' = [creq EXCEPT ![u] = r1]
           \/ creq' = [creq EXCEPT ![u] = CIdle]
           \/ comments[creq[u].c].deleted /\ creq[u].op # "update" /\ creq' = [creq EXCEPT ![u] = r2]
    BY <1>5, <2>1, <2>2 DEF WriteComment
  <2>4. /\ r1 \in CReqType /\ r1.pc = "revise" /\ r1.c = creq[u].c /\ r1.op = creq[u].op /\ r1.locked = TRUE
        /\ r2 \in CReqType /\ r2.pc = "revise" /\ r2.c = creq[u].c /\ r2.op = creq[u].op /\ r2.locked = creq[u].locked
    BY <1>1, <2>1, <2>2 DEF CReqType
  <2>5. CASE ~comments[creq[u].c].deleted /\ creq' = [creq EXCEPT ![u] = r1]
    <3>1. CReqOK(r1, u)
      BY <1>1, <2>3, <2>4, <2>5 DEF CReqOK
    <3>2. ~\E v \in Authors \ {u} : creq[v].locked /\ creq[v].c = r1.c
      BY <2>3, <2>4 DEF CLocked
    <3> QED  BY <2>3, <2>4, <2>5, <3>1, <3>2, CRequestStep
  <2>6. CASE comments[creq[u].c].deleted /\ creq[u].op # "update" /\ creq' = [creq EXCEPT ![u] = r2]
    <3>1. CReqOK(r2, u) /\ ~r2.locked
      BY <1>1, <2>3, <2>4, <2>6 DEF CReqOK
    <3> QED  BY <2>3, <2>4, <2>6, <3>1, CRequestStep
  <2> QED  BY <1>2, <2>3, <2>5, <2>6
<1>6. CASE RollBackComment(u)
  BY <1>2, <1>6 DEF RollBackComment
<1> QED  BY <1>3, <1>4, <1>5, <1>6

\* A comment is created with its first revision.
LEMMA CCreateStep ==
    ASSUME CInv, NEW u \in Authors, NEW c \in CommentIDs, NEW b \in Bodies, CreateComment(u, c, b)
    PROVE  CInv'
<1> DEFINE rev == CRevision("create", u, b)
<1>1. /\ Creators[c] = u /\ ~CExists(c) /\ creq' = creq
      /\ comments' = [comments EXCEPT ![c] = [body |-> b, deleted |-> FALSE]]
      /\ crevisions' = [crevisions EXCEPT ![c] = <<rev>>]
  BY DEF CreateComment
<1>2. rev \in RevisionType /\ rev.type = "create" /\ rev.body = b /\ rev.modifier = u
  BY DEF RevisionType, CRevision
<1> HIDE DEF rev
<1>3. /\ <<rev>> \in Seq(RevisionType) /\ <<rev>> # <<>> /\ Len(<<rev>>) = 1 /\ DOMAIN <<rev>> = {1} /\ <<rev>>[1] = rev
  BY <1>2
<1>4. [body |-> b, deleted |-> FALSE] \in CommentType
  BY DEF CommentType
<1>5. comments' \in [CommentIDs -> CommentType] /\ crevisions' \in [CommentIDs -> Seq(RevisionType)]
  BY <1>1, <1>3, <1>4 DEF CInv
<1>6. /\ comments'[c] = [body |-> b, deleted |-> FALSE] /\ crevisions'[c] = <<rev>>
      /\ \A e \in CommentIDs \ {c} : comments'[e] = comments[e] /\ crevisions'[e] = crevisions[e]
  BY <1>1 DEF CInv
<1>7. HistoryOK(<<rev>>, [body |-> b, deleted |-> FALSE])
  BY <1>2, <1>3 DEF HistoryOK
<1>8. ASSUME NEW e \in CommentIDs
      PROVE  /\ IF CExists(e)' THEN HistoryOK(crevisions'[e], comments'[e]) ELSE comments'[e].deleted
             /\ \A i \in DOMAIN crevisions'[e] :
                  crevisions'[e][i].modifier # Creators[e] => crevisions'[e][i].modifier \in Collaborators
  <2>1. CASE e = c
    BY <1>1, <1>2, <1>3, <1>6, <1>7, <2>1 DEF CExists
  <2>2. CASE e # c
    BY <1>6, <2>2 DEF CInv, CExists
  <2> QED  BY <2>1, <2>2
<1>9. ASSUME NEW v \in Authors  PROVE  CReqOK(creq[v], v)'
  <2>1. CReqOK(creq[v], v)
    BY DEF CInv
  <2>2. creq[v].pc # "idle" => creq[v].c \in CommentIDs \ {c}
    BY <1>1, <2>1 DEF CReqOK
  <2> QED  BY <1>1, <1>6, <2>1, <2>2 DEF CReqOK, CExists
<1> QED  BY <1>1, <1>5, <1>8, <1>9 DEF CInv


\* The revision is inserted and the transaction of the request committed.
LEMMA CCommitStep ==
    ASSUME CInv, NEW u \in Authors, CommitComment(u)
    PROVE  CInv'
<1>1. PICK r, c, rev : r = creq[u] /\ c = r.c /\ rev = ReviseComment(u)
  OBVIOUS
<1>2. PICK row : row = IF ~r.locked THEN comments[c]
                       ELSE IF r.op = "update" THEN [body |-> r.body, deleted |-> FALSE]
                       ELSE [comments[c] EXCEPT !.deleted = TRUE]
  OBVIOUS
<1>3. r \in CReqType /\ CReqOK(r, u) /\ r.pc = "revise"
  BY <1>1 DEF CInv, CommitComment
<1>4. /\ c \in CommentIDs /\ CExists(c) /\ AuthorOf(u, c) /\ r.op \in {"update", "delete"}
      /\ r.locked => ~comments[c].deleted
      /\ ~r.locked => r.op = "delete" /\ comments[c].deleted
  BY <1>1, <1>3 DEF CReqOK
<1>5. rev \in RevisionType /\ rev.type = r.op /\ rev.modifier = u /\ (r.op = "update" => rev.body = r.body)
  BY <1>1, <1>3, <1>4 DEF RevisionType, ReviseComment, CRevision, CReqType
<1>6. comments[c] \in CommentType /\ crevisions[c] \in Seq(RevisionType) /\ crevisions[c] # <<>> /\ HistoryOK(crevisions[c], comments[c])
  BY <1>4 DEF CInv, CExists
<1>7. row \in CommentType /\ (row.deleted <=> r.op = "delete") /\ (~row.deleted => row.body = r.body)
  <2>1. CASE ~r.locked
    BY <1>2, <1>4, <1>6, <2>1
  <2>2. CASE r.locked /\ r.op = "update"
    BY <1>2, <1>3, <2>2 DEF CommentType, CReqType
  <2>3. CASE r.locked /\ r.op = "delete"
    BY <1>2, <1>6, <2>3 DEF CommentType
  <2> QED  BY <1>4, <2>1, <2>2, <2>3
<1>8. PICK revs : revs = Append(crevisions[c], rev)
  OBVIOUS
<1>9. HistoryOK(revs, row) /\ revs \in Seq(RevisionType)
  <2>1. comments[c].deleted => rev.type = "delete"
    BY <1>4, <1>5
  <2>2. ~row.deleted => row.body = rev.body
    BY <1>4, <1>5, <1>7
  <2> QED  BY <1>4, <1>5, <1>6, <1>7, <1>8, <2>1, <2>2, HistoryAppend
<1>10. /\ crevisions' = [crevisions EXCEPT ![c] = revs] /\ creq' = [creq EXCEPT ![u] = CIdle]
       /\ comments' = IF ~r.locked THEN comments ELSE [comments EXCEPT ![c] = row]
  BY <1>1, <1>2, <1>8 DEF CommitComment
<1>11. /\ crevisions'[c] = revs /\ comments'[c] = row
       /\ \A e \in CommentIDs \ {c} : comments'[e] = comments[e] /\ crevisions'[e] = crevisions[e]
       /\ ~r.locked => comments' = comments
  BY <1>2, <1>4, <1>10 DEF CInv
<1>12. comments' \in [CommentIDs -> CommentType] /\ crevisions' \in [CommentIDs -> Seq(RevisionType)]
  BY <1>7, <1>9, <1>10 DEF CInv
<1>13. CIdle \in CReqType /\ CIdle.pc = "idle" /\ ~CIdle.locked
  BY DEF CIdle, CReqType
<1>14. creq' \in [Authors -> CReqType] /\ \A v \in Authors : creq'[v] = IF v = u THEN CIdle ELSE creq[v]
  BY <1>10, <1>13 DEF CInv
<1>15. revs # <<>> /\ \A i \in DOMAIN revs : revs[i] = rev \/ (i \in DOMAIN crevisions[c] /\ revs[i] = crevisions[c][i])
  BY <1>5, <1>6, <1>8
<1>16. ASSUME NEW e \in CommentIDs
       PROVE  /\ IF CExists(e)' THEN HistoryOK(crevisions'[e], comments'[e]) ELSE comments'[e].deleted
              /\ \A i \in DOMAIN crevisions'[e] :
                   crevisions'[e][i].modifier # Creators[e] => crevisions'[e][i].modifier \in Collaborators
  <2>1. CASE e = c
    <3>1. \A i \in DOMAIN revs : revs[i].modifier # Creators[c] => revs[i].modifier \in Collaborators
      BY <1>4, <1>5, <1>15 DEF CInv, AuthorOf
    <3> QED  BY <1>9, <1>11, <1>15, <2>1, <3>1 DEF CExists
  <2>2. CASE e # c
    BY <1>11, <2>2 DEF CInv, CExists
  <2> QED  BY <2>1, <2>2
<1>17. ASSUME NEW v \in Authors  PROVE  CReqOK(creq[v], v)'
  <2>1. CASE v = u
    BY <1>13, <1>14, <2>1 DEF CReqOK
  <2>2. CASE v # u
    <3>1. CReqOK(creq[v], v) /\ creq'[v] = creq[v]
      BY <1>14, <2>2 DEF CInv
    <3>2. creq[v].pc # "idle" => creq[v].c \in CommentIDs /\ CExists(creq[v].c)'
      BY <1>11, <1>15, <3>1 DEF CReqOK, CExists
    <3>3. CASE creq[v].pc = "idle" \/ creq[v].c # c \/ ~r.locked
      <4>1. creq[v].pc # "idle" => comments'[creq[v].c] = comments[creq[v].c]
        BY <1>11, <3>2, <3>3
      <4> QED  BY <3>1, <3>2, <4>1 DEF CReqOK
    <3>4. CASE creq[v].pc # "idle" /\ creq[v].c = c /\ r.locked
      <4>1. ~creq[v].locked
        BY <1>1, <2>2, <3>4 DEF CInv
      <4>2. creq[v].pc # "revise"
        BY <1>4, <3>1, <3>4, <4>1 DEF CReqOK
      <4> QED  BY <3>1, <3>2, <3>4, <4>1, <4>2 DEF CReqOK
    <3> QED  BY <3>3, <3>4
  <2> QED  BY <2>1, <2>2
<1>18. \A v, w \in Authors : creq'[v].locked /\ creq'[w].locked /\ creq'[v].c = creq'[w].c => v = w
  BY <1>13, <1>14 DEF CInv
<1> QED  BY <1>12, <1>14, <1>16, <1>17, <1>18 DEF CInv

LEMMA CInvStep == CInv /\ [CommentsNext]_commentVars => CInv'
<1> SUFFICES ASSUME CInv, [CommentsNext]_commentVars  PROVE  CInv'
  OBVIOUS
<1>1. CASE DeleteItem \/ UNCHANGED commentVars
  <2>1. comments' = comments /\ crevisions' = crevisions /\ creq' = creq
    BY <1>1 DEF DeleteItem, commentVars
  <2> QED  BY <2>1 DEF CInv, CReqOK, CExists
<1>2. ASSUME NEW u \in Authors, NEW c \in CommentIDs, NEW b \in Bodies, CreateComment(u, c, b)
      PROVE  CInv'
  BY <1>2, CCreateStep
<1>3. ASSUME NEW u \in Authors, NEW c \in CommentIDs, NEW b \in Bodies \cup {NoBody},
             LoadComment(u, c, "update", b) \/ LoadComment(u, c, "delete", b)
      PROVE  CInv'
  BY <1>3, CRequestSteps
<1>4. ASSUME NEW u \in Authors, FindComment(u) \/ WriteComment(u) \/ CommitComment(u) \/ RollBackComment(u)
      PROVE  CInv'
  BY <1>4, CRequestSteps, CCommitStep
<1> QED  BY <1>1, <1>2, <1>3, <1>4 DEF CommentsNext

-------------------------------------------------------------------------------

\* Whatever updates and deletions of comments overlap: the first revision of a comment is
\* its creation, the last one has the body of a live comment, nothing but deletions
\* follows a deletion, and nobody changes what is not theirs without being a
\* collaborator of the space.
THEOREM CommentHistoriesAreAccountable == CommentsSpec => []CommentsAreAccountable
<1>1. CommentsSpec => []CInv
  BY CInvInit, CInvStep, PTL DEF CommentsSpec
<1> QED  BY <1>1, CInvSound, PTL


-------------------------------------------------------------------------------
(* Labels and queries: the inductive invariant.  A row that still has the  *)
(* version a request has loaded still has the name and the color that the  *)
(* request is going to write back.                                         *)

TableRow ==
    [name : Names \cup {NoValue}, color : Colors \cup {NoValue}, version : 0..MaxVersion,
     deleted : BOOLEAN, created : BOOLEAN]
RReqType ==
    [pc : {"idle", "find", "save"}, row : Rows \cup {NoValue}, loaded : TableRow,
     name : Names \cup {NoValue}, color : Colors \cup {NoValue}, found : Nat]

RReqOK(r, row) ==
    /\ row.created /\ r.loaded.version < MaxVersion /\ r.loaded.version <= row.version
    /\ r.loaded.version = row.version => r.loaded.name = row.name /\ r.loaded.color = row.color
    /\ r.pc = "save" => r.loaded.version <= r.found /\ r.found <= row.version

RInv ==
    /\ rows \in [Rows -> TableRow] /\ rreq \in [Sessions -> RReqType]
    /\ \A r \in Rows : ~rows[r].deleted => rows[r].created
    /\ \A s \in Sessions : rreq[s].pc # "idle" => rreq[s].row \in Rows /\ RReqOK(rreq[s], rows[rreq[s].row])
    /\ NamesAreUnique

LEMMA RInvSound == RInv => RowsTypeOK /\ NamesAreUnique
  BY DEF RInv, RowsTypeOK, RReqOK, TableRow

LEMMA RInitFacts ==
    RMissing \in TableRow /\ RMissing.deleted = TRUE /\ RIdle \in RReqType /\ RIdle.pc = "idle"
<1>1. 0 \in 0..MaxVersion
  BY RowsAssumption
<1>2. RMissing \in TableRow /\ RMissing.deleted = TRUE
  BY <1>1 DEF RMissing, TableRow
<1> QED  BY <1>2 DEF RIdle, RReqType

LEMMA RInvInit == RowsInit => RInv
<1> SUFFICES ASSUME RowsInit  PROVE  RInv
  OBVIOUS
<1>1. rows \in [Rows -> TableRow] /\ rreq \in [Sessions -> RReqType]
  BY RInitFacts DEF RowsInit
<1>2. \A r \in Rows : rows[r].deleted
  BY RInitFacts DEF RowsInit
<1>3. \A s \in Sessions : rreq[s].pc = "idle"
  BY RInitFacts DEF RowsInit
<1> QED  BY <1>1, <1>2, <1>3 DEF RInv, NamesAreUnique

\* A name that is not taken may be given to a row.
LEMMA UniqueStep ==
    ASSUME NamesAreUnique, NEW r \in Rows, NEW row, ~row.deleted => ~Taken(r, row.name),
           \A o \in Rows : rows'[o] = IF o = r THEN row ELSE rows[o]
    PROVE  NamesAreUnique'
<1> SUFFICES ASSUME NEW a \in Rows, NEW b \in Rows, a # b, ~rows'[a].deleted, ~rows'[b].deleted,
                    rows'[a].name = rows'[b].name
             PROVE  /\ ~({a, b} \subseteq Labels)
                    /\ {a, b} \subseteq Queries => QueryCreator[a] # QueryCreator[b]
  BY DEF NamesAreUnique
<1>1. CASE a # r /\ b # r
  BY <1>1 DEF NamesAreUnique
<1>2. CASE a = r
  <2>1. b \in Rows \ {r} /\ ~rows[b].deleted /\ rows[b].name = row.name /\ ~Taken(r, row.name)
    BY <1>2
  <2> QED  BY <1>2, <2>1 DEF Taken
<1>3. CASE b = r
  <2>1. a \in Rows \ {r} /\ ~rows[a].deleted /\ rows[a].name = row.name /\ ~Taken(r, row.name)
    BY <1>3
  <2>2. {a, b} = {r, a}
    BY <1>3
  <2> QED  BY <1>3, <2>1, <2>2 DEF Taken
<1> QED  BY <1>1, <1>2, <1>3

\* Only the request changes.
LEMMA RRequestStep ==
    ASSUME RInv, NEW s \in Sessions, NEW r \in RReqType, rows' = rows, rreq' = [rreq EXCEPT ![s] = r],
           r.pc # "idle" => r.row \in Rows /\ RReqOK(r, rows[r.row])
    PROVE  RInv'
<1>1. rreq' \in [Sessions -> RReqType] /\ \A t \in Sessions : rreq'[t] = IF t = s THEN r ELSE rreq[t]
  BY DEF RInv
<1>2. \A t \in Sessions : rreq'[t].pc # "idle" => rreq'[t].row \in Rows /\ RReqOK(rreq'[t], rows'[rreq'[t].row])
  BY <1>1 DEF RInv
<1>3. NamesAreUnique'
  BY DEF RInv, NamesAreUnique
<1> QED  BY <1>1, <1>2, <1>3 DEF RInv

\* A row is written: whoever has loaded it finds another version, or what it has loaded.
LEMMA RWriteStep ==
    ASSUME RInv, NEW r \in Rows, NEW row \in TableRow, rows' = [rows EXCEPT ![r] = row],
           ~row.deleted => ~Taken(r, row.name), row.created,
           \/ ~rows[r].created \/ row.version > rows[r].version
           \/ row.version = rows[r].version /\ row.name = rows[r].name /\ row.color = rows[r].color,
           rreq' \in [Sessions -> RReqType],
           \A t \in Sessions : rreq'[t] = rreq[t] \/ rreq'[t].pc = "idle"
    PROVE  RInv'
<1>1. rows' \in [Rows -> TableRow] /\ \A o \in Rows : rows'[o] = IF o = r THEN row ELSE rows[o]
  BY DEF RInv
<1>2. NamesAreUnique'
  BY <1>1, UniqueStep DEF RInv
<1>3. \A o \in Rows : ~rows'[o].deleted => rows'[o].created
  BY <1>1 DEF RInv
<1>4. ASSUME NEW t \in Sessions, rreq'[t].pc # "idle"
      PROVE  rreq'[t].row \in Rows /\ RReqOK(rreq'[t], rows'[rreq'[t].row])
  <2>1. rreq'[t] = rreq[t] /\ rreq[t].row \in Rows /\ RReqOK(rreq[t], rows[rreq[t].row]) /\ rreq[t] \in RReqType
    BY <1>4 DEF RInv
  <2>2. CASE rreq[t].row # r
    BY <1>1, <2>1, <2>2
  <2>3. CASE rreq[t].row = r
    <3>1. rows[r].created /\ rows'[r] = row
      BY <1>1, <2>1, <2>3 DEF RReqOK
    <3>2. rows[r].version \in Nat /\ row.version \in Nat /\ rreq[t].loaded.version \in Nat /\ rreq[t].found \in Nat
      <4>1. 0..MaxVersion \subseteq Nat
        BY RowsAssumption
      <4> QED  BY <2>1, <4>1 DEF RInv, TableRow, RReqType
    <3>3. RReqOK(rreq[t], row)
      BY <2>1, <2>3, <3>1, <3>2 DEF RReqOK
    <3> QED  BY <2>1, <2>3, <3>1, <3>3
  <2> QED  BY <2>2, <2>3
<1> QED  BY <1>1, <1>2, <1>3, <1>4 DEF RInv


\* Steps that only change the request.
LEMMA RReadSteps ==
    ASSUME RInv, NEW s \in Sessions,
           \/ \E r \in Rows, name \in Names \cup {NoValue}, color \in Colors \cup {NoValue} : LoadRow(s, r, name, color)
           \/ FindRow(s)
    PROVE  RInv'
<1>0. 0..MaxVersion \subseteq Nat
  BY RowsAssumption
<1>1. ASSUME NEW r \in Rows, NEW name \in Names \cup {NoValue}, NEW color \in Colors \cup {NoValue}, LoadRow(s, r, name, color)
      PROVE  RInv'
  <2>1. PICK q : q = [RIdle EXCEPT !.pc = "find", !.row = r, !.loaded = rows[r], !.name = name, !.color = color]
    OBVIOUS
  <2>2. ~rows[r].deleted /\ rows[r].version < MaxVersion /\ rreq' = [rreq EXCEPT ![s] = q] /\ rows' = rows
    BY <1>1, <2>1 DEF LoadRow
  <2>3. rows[r] \in TableRow /\ rows[r].created
    BY <2>2 DEF RInv
  <2>4. q \in RReqType /\ q.pc = "find" /\ q.row = r /\ q.loaded = rows[r]
    BY RInitFacts, <2>1, <2>3 DEF RReqType
  <2>5. RReqOK(q, rows[q.row])
    <3>1. rows[r].version \in Nat
      BY <1>0, <2>3 DEF TableRow
    <3> QED  BY <2>2, <2>3, <2>4, <3>1 DEF RReqOK
  <2> QED  BY <2>2, <2>4, <2>5, RRequestStep
<1>2. CASE FindRow(s)
  <2>1. PICK r : r = rreq[s].row
    OBVIOUS
  <2>2. PICK q : q = [rreq[s] EXCEPT !.pc = "save", !.found = rows[r].version]
    OBVIOUS
  <2>3. /\ rreq[s].pc = "find" /\ rows' = rows
        /\ rreq' = [rreq EXCEPT ![s] = RIdle] \/ rreq' = [rreq EXCEPT ![s] = q]
    BY <1>2, <2>1, <2>2 DEF FindRow
  <2>4. rreq[s] \in RReqType /\ r \in Rows /\ rows[r] \in TableRow /\ RReqOK(rreq[s], rows[r])
    BY <2>1, <2>3 DEF RInv
  <2>5. rows[r].version \in Nat
    BY <1>0, <2>4 DEF TableRow
  <2>6. q \in RReqType /\ q.pc = "save" /\ q.row = r /\ q.loaded = rreq[s].loaded /\ q.found = rows[r].version
    BY <2>1, <2>2, <2>4, <2>5 DEF RReqType
  <2>7. RReqOK(q, rows[q.row])
    BY <2>4, <2>5, <2>6 DEF RReqOK
  <2>8. CASE rreq' = [rreq EXCEPT ![s] = q]
    BY <2>3, <2>4, <2>6, <2>7, <2>8, RRequestStep
  <2>9. CASE rreq' = [rreq EXCEPT ![s] = RIdle]
    <3>1. PICK i \in RReqType : i = RIdle /\ i.pc = "idle"
      BY RInitFacts
    <3> QED  BY <2>3, <2>9, <3>1, RRequestStep
  <2> QED  BY <2>3, <2>8, <2>9
<1> QED  BY <1>1, <1>2

\* What a save writes: the row with what the request names, in the next version.
Written(s) ==
    [rows[rreq[s].row] EXCEPT !.name = Wanted(rreq[s].name, rreq[s].loaded.name),
                              !.version = rreq[s].found + 1,
                              !.color = Wanted(rreq[s].color, rreq[s].loaded.color)]

LEMMA SavedRow ==
    ASSUME RInv, NEW s \in Sessions, rreq[s].pc = "save", Matches(s)
    PROVE  LET r == rreq[s].row
               row == Written(s)
           IN  /\ r \in Rows /\ row \in TableRow /\ row.created /\ row.deleted = rows[r].deleted
               /\ row.name = Wanted(rreq[s].name, rreq[s].loaded.name)
               /\ row.version = rows[r].version + 1 /\ rows[r].version \in Nat
               /\ rreq[s].name = NoValue => row.name = rows[r].name
               /\ rreq[s].color = NoValue => row.color = rows[r].color
<1> DEFINE r == rreq[s].row
           name == Wanted(rreq[s].name, rreq[s].loaded.name)
           row == Written(s)
<1>1. r \in Rows /\ RReqOK(rreq[s], rows[r]) /\ rows[r] \in TableRow /\ rreq[s] \in RReqType
  BY DEF RInv
<1>2. /\ rows[r].version \in Nat /\ rreq[s].found \in Nat /\ rreq[s].loaded.version \in Nat
      /\ rreq[s].loaded \in TableRow /\ MaxVersion \in Nat
  <2>1. 0..MaxVersion \subseteq Nat /\ MaxVersion \in Nat
    BY RowsAssumption
  <2> QED  BY <1>1, <2>1 DEF TableRow, RReqType
<1>3. rows[r].version = rreq[s].loaded.version
  BY DEF Matches
<1>4. /\ rreq[s].found = rows[r].version /\ rreq[s].found + 1 \in 0..MaxVersion
      /\ rreq[s].loaded.name = rows[r].name /\ rreq[s].loaded.color = rows[r].color /\ rows[r].created
  BY <1>1, <1>2, <1>3 DEF RReqOK
<1>5. name \in Names \cup {NoValue} /\ Wanted(rreq[s].color, rreq[s].loaded.color) \in Colors \cup {NoValue}
  BY <1>1, <1>2 DEF Wanted, RReqType, TableRow
<1>6. /\ row \in TableRow /\ row.name = name /\ row.created = rows[r].created /\ row.deleted = rows[r].deleted
      /\ row.version = rreq[s].found + 1 /\ row.color = Wanted(rreq[s].color, rreq[s].loaded.color)
  BY <1>1, <1>4, <1>5 DEF TableRow, Written
<1> QED  BY <1>1, <1>2, <1>4, <1>6 DEF Wanted

\* Steps that write a row.
LEMMA RWriteSteps ==
    ASSUME RInv, NEW s \in Sessions,
           \/ \E r \in Rows, name \in Names, color \in Colors : CreateRow(s, r, name, color)
           \/ SaveRow(s) \/ \E r \in Queries : DeleteQuery(s, r)
    PROVE  RInv'
<1>0. rreq \in [Sessions -> RReqType]
  BY DEF RInv
<1>1. ASSUME NEW r \in Rows, NEW name \in Names, NEW color \in Colors, CreateRow(s, r, name, color)
      PROVE  RInv'
  <2>1. PICK row : row = [name |-> name, color |-> color, version |-> 0, deleted |-> FALSE, created |-> TRUE]
    OBVIOUS
  <2>2. ~rows[r].created /\ ~Taken(r, name) /\ rows' = [rows EXCEPT ![r] = row] /\ rreq' = rreq
    BY <1>1, <2>1 DEF CreateRow
  <2>3. 0 \in 0..MaxVersion
    BY RowsAssumption
  <2>4. row \in TableRow /\ row.name = name /\ row.created
    BY <2>1, <2>3 DEF TableRow
  <2> QED  BY <1>0, <2>2, <2>4, RWriteStep
<1>2. CASE SaveRow(s)
  <2>1. PICK r, name : r = rreq[s].row /\ name = Wanted(rreq[s].name, rreq[s].loaded.name)
    OBVIOUS
  <2>2. PICK row : row = Written(s)
    OBVIOUS
  <2>3. /\ rreq[s].pc = "save" /\ rreq' = [rreq EXCEPT ![s] = RIdle]
        /\ rows' = IF Matches(s) /\ ~Taken(r, name) THEN [rows EXCEPT ![r] = row] ELSE rows
    BY <1>2, <2>1, <2>2 DEF SaveRow, Written
  <2>4. rreq' \in [Sessions -> RReqType] /\ \A t \in Sessions : rreq'[t] = rreq[t] \/ rreq'[t].pc = "idle"
    BY <1>0, <2>3, RInitFacts
  <2>5. CASE Matches(s) /\ ~Taken(r, name)
    <3>1. /\ r \in Rows /\ row \in TableRow /\ row.created /\ row.name = name
          /\ row.version = rows[r].version + 1 /\ rows[r].version \in Nat
      BY <2>1, <2>2, <2>3, <2>5, SavedRow
    <3>2. row.version > rows[r].version
      BY <3>1
    <3> QED  BY <2>3, <2>4, <2>5, <3>1, <3>2, RWriteStep
  <2>6. CASE ~(Matches(s) /\ ~Taken(r, name))
    <3>1. PICK i \in RReqType : i = RIdle /\ i.pc = "idle"
      BY RInitFacts
    <3> QED  BY <2>3, <2>6, <3>1, RRequestStep
  <2> QED  BY <2>5, <2>6
<1>3. ASSUME NEW r \in Queries, DeleteQuery(s, r)  PROVE  RInv'
  <2>1. PICK row : row = [rows[r] EXCEPT !.deleted = TRUE]
    OBVIOUS
  <2>2. ~rows[r].deleted /\ rows' = [rows EXCEPT ![r] = row] /\ rreq' = rreq
    BY <1>3, <2>1 DEF DeleteQuery
  <2>3. r \in Rows /\ rows[r] \in TableRow /\ rows[r].created
    BY <2>2 DEF RInv, Rows
  <2>4. /\ row \in TableRow /\ row.created /\ row.deleted
        /\ row.version = rows[r].version /\ row.name = rows[r].name /\ row.color = rows[r].color
    BY <2>1, <2>3 DEF TableRow
  <2> QED  BY <1>0, <2>2, <2>3, <2>4, RWriteStep
<1> QED  BY <1>1, <1>2, <1>3

LEMMA RInvStep == RInv /\ [RowsNext]_rowVars => RInv'
<1> SUFFICES ASSUME RInv, [RowsNext]_rowVars  PROVE  RInv'
  OBVIOUS
<1>1. CASE UNCHANGED rowVars
  BY <1>1 DEF RInv, rowVars, NamesAreUnique
<1>2. ASSUME NEW s \in Sessions, NEW r \in Rows,
             (\E name \in Names : LoadRow(s, r, name, NoValue)) \/ \E color \in Colors : LoadRow(s, r, NoValue, color)
      PROVE  RInv'
  BY <1>2, RReadSteps
<1> QED  BY <1>1, <1>2, RReadSteps, RWriteSteps DEF RowsNext

\* A save is the only step in which a request ends with a write.
LEMMA SaveIsExact ==
    ASSUME RInv, RowsNext, NEW s \in Sessions, NEW r \in Rows,
           rreq[s].pc = "save", rreq'[s].pc = "idle", rows'[r] # rows[r]
    PROVE  /\ r = rreq[s].row /\ ~rows[r].deleted /\ rows'[r].version = rows[r].version + 1
           /\ rreq[s].name = NoValue => rows'[r].name = rows[r].name
           /\ rreq[s].color = NoValue => rows'[r].color = rows[r].color
<1>0. rreq \in [Sessions -> RReqType] /\ rows \in [Rows -> TableRow]
  BY DEF RInv
<1>1. SaveRow(s)
  <2>1. PICK t \in Sessions :
           \/ \E o \in Rows, name \in Names, color \in Colors : CreateRow(t, o, name, color)
           \/ \E o \in Rows : \/ \E name \in Names : LoadRow(t, o, name, NoValue)
                              \/ \E color \in Colors : LoadRow(t, o, NoValue, color)
           \/ FindRow(t) \/ SaveRow(t)
           \/ \E o \in Queries : DeleteQuery(t, o)
    BY DEF RowsNext
  <2>2. CASE SaveRow(t)
    <3>1. rreq' = [rreq EXCEPT ![t] = RIdle]
      BY <2>2 DEF SaveRow
    <3>2. t = s
      BY <1>0, <3>1
    <3> QED  BY <2>2, <3>2
  <2>3. (\E o \in Rows, name \in Names, color \in Colors : CreateRow(t, o, name, color))
        \/ (\E o \in Queries : DeleteQuery(t, o)) => rreq' = rreq
    BY DEF CreateRow, DeleteQuery
  <2>4. (\E o \in Rows : \/ \E name \in Names : LoadRow(t, o, name, NoValue)
                         \/ \E color \in Colors : LoadRow(t, o, NoValue, color))
        \/ FindRow(t) => rows' = rows
    BY DEF LoadRow, FindRow
  <2> QED  BY <2>1, <2>2, <2>3, <2>4
<1>2. PICK q, name : q = rreq[s].row /\ name = Wanted(rreq[s].name, rreq[s].loaded.name)
  OBVIOUS
<1>3. PICK row : row = Written(s)
  OBVIOUS
<1>4. Matches(s) /\ rows' = [rows EXCEPT ![q] = row]
  BY <1>1, <1>2, <1>3 DEF SaveRow, Written
<1>5. r = q /\ rows'[r] = row
  BY <1>0, <1>4
<1>6. /\ row.version = rows[q].version + 1
      /\ rreq[s].name = NoValue => row.name = rows[q].name
      /\ rreq[s].color = NoValue => row.color = rows[q].color
  BY <1>2, <1>3, <1>4, SavedRow
<1>7. ~rows[q].deleted
  BY <1>2, <1>4 DEF Matches
<1> QED  BY <1>2, <1>5, <1>6, <1>7

-------------------------------------------------------------------------------

\* Labels of the space, and queries of one user, have different names; a save that
\* succeeds adds one to the version and changes what its request names and nothing
\* else, however long ago the row was loaded that it writes back.
THEOREM LabelAndQueryUpdatesAreExact == RowsSpec => UpdatesAreExact
<1>1. RowsSpec => []RInv
  BY RInvInit, RInvStep, PTL DEF RowsSpec
<1>2. RInv /\ [RowsNext]_rowVars =>
        [\A s \in Sessions, r \in Rows :
            rreq[s].pc = "save" /\ rreq'[s].pc = "idle" /\ rows'[r] # rows[r] =>
                /\ r = rreq[s].row /\ ~rows[r].deleted
                /\ rows'[r].version = rows[r].version + 1
                /\ rreq[s].name = NoValue => rows'[r].name = rows[r].name
                /\ rreq[s].color = NoValue => rows'[r].color = rows[r].color]_rowVars
  BY SaveIsExact
<1>3. RowsSpec => NothingElseChanges
  BY <1>1, <1>2, PTL DEF RowsSpec, NothingElseChanges
<1>4. RowsSpec => [](RowsTypeOK /\ NamesAreUnique)
  BY <1>1, RInvSound, PTL
<1> QED  BY <1>3, <1>4 DEF UpdatesAreExact


-------------------------------------------------------------------------------
(* Users: the inductive invariant.  What a request has loaded is written   *)
(* back whole, so it counts among the identities a user has: users who     *)
(* hold one were created (UserBindings), and as long as nobody was deleted *)
(* an identity is of the user it is written back with (NobodyGone).        *)

UReqType ==
    [pc : {"idle", "login", "update"}, i : IdentityIDs \cup {Nothing}, user : UserRow \cup {Nothing},
     identity : IdentityRow \cup {Nothing}, data : Data \cup {Nothing},
     name : UserNames \cup {Nothing}, bio : Data \cup {Nothing}]

UReqOK(r) ==
    /\ r \in UReqType
    /\ r.pc # "idle" => r.i \in IdentityIDs /\ r.name \in UserNames 
                       /\ (r.identity # Nothing => r.user # Nothing /\ r.identity.user # Nothing)
    /\ r.pc = "login" => r.data \in Data
    /\ r.pc = "update" => r.bio \in Data /\ r.identity # Nothing

\* Identity i of a table, or of a request, belongs to user u.
Held(ids, i, u) == ids[i] # Nothing /\ ids[i].user = u
Carried(r, i, u) == r.pc # "idle" /\ r.i = i /\ r.identity # Nothing /\ r.identity.user = u
HoldsUser(ids, reqs, i, u) == Held(ids, i, u) \/ \E p \in Services : Carried(reqs[p], i, u)

UserTablesOK ==
    /\ users \in [UserIDs -> UserRow \cup {Nothing}] /\ identities \in [IdentityIDs -> IdentityRow \cup {Nothing}]
    /\ ureq \in [Services -> UReqType] /\ \A p \in Services : UReqOK(ureq[p])
    /\ overlap \in BOOLEAN /\ namesakes \in BOOLEAN /\ owned \subseteq IdentityIDs
    /\ everUsed \subseteq UserIDs /\ gone \cup forgotten \subseteq everUsed
    /\ \A u \in UserIDs : users[u] # Nothing => u \in everUsed
    /\ \A i \in IdentityIDs : HasUser(identities[i]) => users[identities[i].user] # Nothing

UserBindings ==
    \A i \in IdentityIDs, u \in UserIDs : HoldsUser(identities, ureq, i, u) => u \in everUsed

\* As long as nobody was deleted.
NobodyGone ==
    gone = {} =>
        /\ \A u \in UserIDs : users[u] # Nothing => \E i \in IdentityIDs : Held(identities, i, u)
        /\ \A p \in Services, i \in IdentityIDs, u \in UserIDs : Carried(ureq[p], i, u) => Held(identities, i, u)

\* Nothing but the random string is known of user u, if it exists.
StaysHidden(u) ==
    /\ users[u] # Nothing => users[u].bio = Hidden(u)
    /\ users[u] # Nothing => \A i \in IdentityIDs : Held(identities, i, u) => identities[i].profile = Hidden(u)

\* As long as requests do not overlap: what one has loaded is still so.
UserSerial ==
    ~overlap =>
        /\ \A p, q \in Services : ureq[p].pc # "idle" /\ ureq[q].pc # "idle" => p = q
        /\ \A p \in Services : ureq[p].pc # "idle" =>
             /\ identities[ureq[p].i] = ureq[p].identity
             /\ ureq[p].identity # Nothing => users[ureq[p].identity.user] = ureq[p].user
        /\ \A u \in forgotten : StaysHidden(u)
        /\ \A u \in gone : users[u] = Nothing

UserNamesakes ==
    ~namesakes => ~overlap /\ ~Namesakes(identities) /\ \A i \in owned : identities[i] # Nothing

UInv == UserTablesOK /\ UserBindings /\ NobodyGone /\ UserSerial /\ UserNamesakes


LEMMA UInvSound == UInv => UsersTypeOK /\ UsersAreSound
<1> SUFFICES ASSUME UInv  PROVE  UsersTypeOK /\ UsersAreSound
  OBVIOUS
<1> USE DEF UInv
<1>1. UsersTypeOK
  BY DEF UserTablesOK, UsersTypeOK
<1>2. IdentitiesFitUsers
  <2>1. \A i \in IdentityIDs : HasUser(identities[i]) => users[identities[i].user] # Nothing
    BY DEF UserTablesOK
  <2>2. gone = {} => \A u \in UserIDs : users[u] # Nothing => IdentitiesOf(u) # {}
    BY DEF NobodyGone, Held, IdentitiesOf
  <2> QED  BY <2>1, <2>2 DEF IdentitiesFitUsers
<1>3. SerialForgotten
  BY DEF UserSerial, SerialForgotten, StaysHidden, Held, IdentitiesOf
<1>4. SerialGone
  <2>1. \A u \in gone : ~overlap => users[u] = Nothing
    BY DEF UserSerial
  <2>2. \A u \in gone : u \in UserIDs /\ u # Nothing
    BY UsersAssumption DEF UserTablesOK
  <2>3. \A u \in gone : ~overlap => IdentitiesOf(u) = {}
    BY <2>1, <2>2 DEF UserTablesOK, IdentitiesOf, HasUser
  <2> QED  BY <2>1, <2>3 DEF SerialGone
<1>5. SerialSpacesHaveOwners
  BY DEF UserNamesakes, SerialSpacesHaveOwners
<1> QED  BY <1>1, <1>2, <1>3, <1>4, <1>5 DEF UsersAreSound

LEMMA IdleUser ==
    UIdle \in UReqType /\ UReqOK(UIdle) /\ UIdle.pc = "idle" /\ \A i, u : ~Carried(UIdle, i, u)
<1>1. UIdle \in UReqType /\ UIdle.pc = "idle"
  BY DEF UIdle, UReqType
<1> QED  BY <1>1 DEF UReqOK, Carried

LEMMA UInvInit == UsersInit => UInv
<1> SUFFICES ASSUME UsersInit  PROVE  UInv
  OBVIOUS
<1>1. UserTablesOK
  BY IdleUser DEF UsersInit, UserTablesOK, HasUser
<1>2. \A i \in IdentityIDs, u \in UserIDs : ~HoldsUser(identities, ureq, i, u)
  BY IdleUser DEF UsersInit, HoldsUser, Held
<1>3. UserBindings
  BY <1>2 DEF UserBindings
<1>4. NobodyGone
  BY IdleUser DEF UsersInit, NobodyGone
<1>5. UserSerial
  BY IdleUser DEF UsersInit, UserSerial
<1>6. UserNamesakes
  BY DEF UsersInit, UserNamesakes, Namesakes
<1> QED  BY <1>1, <1>3, <1>4, <1>5, <1>6 DEF UInv

\* The request of p is over; if none overlapped it, nobody is under way.
DoneOK(p) ==
    /\ ureq' = [ureq EXCEPT ![p] = UIdle] /\ overlap' \in BOOLEAN /\ (overlap => overlap')
    /\ ~overlap' => \A q \in Services : ureq'[q].pc = "idle"

NamesakesStep == namesakes' = (overlap' \/ namesakes \/ Namesakes(identities'))

LEMMA DoneIs ==
    ASSUME UInv, NEW p \in Services, Begin(p, UIdle) \/ (End(p) /\ ureq[p].pc # "idle")
    PROVE  DoneOK(p)
<1>1. ureq \in [Services -> UReqType] /\ overlap \in BOOLEAN
  BY DEF UInv, UserTablesOK
<1>2. CASE Begin(p, UIdle)
  <2>1. ureq' = [ureq EXCEPT ![p] = UIdle] /\ overlap' = (overlap \/ \E q \in Services : ureq[q].pc # "idle")
    BY <1>2 DEF Begin
  <2>2. overlap' \in BOOLEAN /\ (overlap => overlap') /\ (~overlap' => \A q \in Services : ureq[q].pc = "idle")
    BY <2>1
  <2> QED  BY <1>1, <2>1, <2>2, IdleUser DEF DoneOK
<1>3. CASE End(p) /\ ureq[p].pc # "idle"
  <2>1. ureq' = [ureq EXCEPT ![p] = UIdle] /\ overlap' = overlap
    BY <1>3 DEF End
  <2>2. ~overlap => \A q \in Services \ {p} : ureq[q].pc = "idle"
    BY <1>3 DEF UInv, UserSerial
  <2> QED  BY <1>1, <2>1, <2>2, IdleUser DEF DoneOK
<1> QED  BY <1>2, <1>3

\* What is left of the requests.
LEMMA DoneRequests ==
    ASSUME UInv, NEW p \in Services, DoneOK(p)
    PROVE  /\ ureq' \in [Services -> UReqType] /\ \A q \in Services : UReqOK(ureq'[q])
           /\ \A q \in Services : \A i, u : Carried(ureq'[q], i, u) => Carried(ureq[q], i, u)
<1>1. /\ ureq \in [Services -> UReqType] /\ \A q \in Services : UReqOK(ureq[q])
  BY DEF UInv, UserTablesOK
<1>2. ureq' \in [Services -> UReqType] /\ \A q \in Services : ureq'[q] = ureq[q] \/ ureq'[q] = UIdle
  BY <1>1, IdleUser DEF DoneOK
<1> QED  BY <1>1, <1>2, IdleUser

\* No identity gets a user that it did not have.
LEMMA BindStep ==
    ASSUME UInv, everUsed \subseteq everUsed',
           \A i \in IdentityIDs, u \in UserIDs :
              HoldsUser(identities', ureq', i, u) => HoldsUser(identities, ureq, i, u)
    PROVE  UserBindings'
  BY DEF UInv, UserBindings

\* Nothing is overlapped and all requests are over: only the tables matter.
LEMMA SerialStep ==
    ASSUME NEW p \in Services, DoneOK(p),
           ~overlap' => /\ \A u \in forgotten' : StaysHidden(u)'
                        /\ \A u \in gone' : users'[u] = Nothing
    PROVE  UserSerial'
  BY DEF DoneOK, UserSerial


\* A request ends without a write.
LEMMA UserQuietStep ==
    ASSUME UInv, NEW p \in Services, DoneOK(p), NamesakesStep,
           UNCHANGED <<users, identities, owned, everUsed, gone>>, forgotten' \subseteq forgotten
    PROVE  UInv' /\ IdentitiesStay
<1>1. /\ ureq' \in [Services -> UReqType] /\ \A q \in Services : UReqOK(ureq'[q])
      /\ \A q \in Services : \A i, u : Carried(ureq'[q], i, u) => Carried(ureq[q], i, u)
  BY DoneRequests
<1>2. UserTablesOK'
  BY <1>1 DEF UInv, UserTablesOK, DoneOK, NamesakesStep, HasUser
<1>3. UserBindings'
  BY <1>1, BindStep DEF HoldsUser
<1>4. NobodyGone'
  BY <1>1 DEF UInv, NobodyGone
<1>5. UserSerial'
  BY SerialStep DEF UInv, UserSerial, DoneOK, StaysHidden
<1>6. UserNamesakes'
  BY DEF UInv, UserNamesakes, NamesakesStep
<1>7. IdentitiesStay
  BY DEF IdentitiesStay
<1> QED  BY <1>2, <1>3, <1>4, <1>5, <1>6, <1>7 DEF UInv

\* A user and its identity are inserted.
LEMMA UserInsertStep ==
    ASSUME UInv, NEW p \in Services, DoneOK(p), NamesakesStep,
           NEW u \in Fresh, NEW i \in IdentityIDs, identities[i] = Nothing,
           NEW row \in UserRow, NEW id \in IdentityRow, id.user = u,
           users' = [users EXCEPT ![u] = row], identities' = [identities EXCEPT ![i] = id],
           everUsed' = everUsed \cup {u}, UNCHANGED <<owned, forgotten, gone>>
    PROVE  UInv' /\ IdentitiesStay
<1>0. u \in UserIDs /\ u \notin everUsed /\ u # Nothing /\ row # Nothing /\ id # Nothing
  BY UsersAssumption DEF Fresh
<1>1. /\ ureq' \in [Services -> UReqType] /\ \A q \in Services : UReqOK(ureq'[q])
      /\ \A q \in Services : \A j, w : Carried(ureq'[q], j, w) => Carried(ureq[q], j, w)
  BY DoneRequests
<1>2. /\ users \in [UserIDs -> UserRow \cup {Nothing}] /\ identities \in [IdentityIDs -> IdentityRow \cup {Nothing}]
      /\ \A w \in UserIDs : users[w] # Nothing => w \in everUsed
      /\ \A j \in IdentityIDs : HasUser(identities[j]) => users[identities[j].user] # Nothing
      /\ everUsed \subseteq UserIDs /\ gone \cup forgotten \subseteq everUsed
  BY DEF UInv, UserTablesOK
<1>3. /\ users' \in [UserIDs -> UserRow \cup {Nothing}] /\ identities' \in [IdentityIDs -> IdentityRow \cup {Nothing}]
      /\ \A w \in UserIDs : users'[w] = IF w = u THEN row ELSE users[w]
      /\ \A j \in IdentityIDs : identities'[j] = IF j = i THEN id ELSE identities[j]
  BY <1>0, <1>2
<1>4. UserTablesOK'
  <2>1. \A j \in IdentityIDs : HasUser(identities[j]) => identities[j].user \in UserIDs
    BY <1>2 DEF IdentityRow, HasUser
  <2>2. \A j \in IdentityIDs : HasUser(identities'[j]) => users'[identities'[j].user] # Nothing
    BY <1>0, <1>2, <1>3, <2>1 DEF HasUser
  <2>3. \A w \in UserIDs : users'[w] # Nothing => w \in everUsed'
    BY <1>2, <1>3
  <2> QED  BY <1>0, <1>1, <1>2, <1>3, <2>2, <2>3 DEF UInv, UserTablesOK, DoneOK, NamesakesStep
<1>5. \A j \in IdentityIDs, w \in UserIDs :
         HoldsUser(identities', ureq', j, w) => HoldsUser(identities, ureq, j, w) \/ (j = i /\ w = u)
  BY <1>1, <1>3 DEF HoldsUser, Held
<1>6. UserBindings'
  BY <1>0, <1>5 DEF UInv, UserBindings
<1>7. NobodyGone'
  <2>1. \A j \in IdentityIDs, w \in UserIDs : Held(identities, j, w) => Held(identities', j, w)
    BY <1>3 DEF Held
  <2>2. Held(identities', i, u)
    BY <1>0, <1>3 DEF Held
  <2>3. ASSUME gone = {}, NEW w \in UserIDs, users'[w] # Nothing
        PROVE  \E j \in IdentityIDs : Held(identities', j, w)
    <3>1. w = u \/ users[w] # Nothing
      BY <1>3, <2>3
    <3>2. CASE w = u
      BY <2>2, <3>2
    <3>3. CASE users[w] # Nothing
      <4>1. \E j \in IdentityIDs : Held(identities, j, w)
        BY <2>3, <3>3 DEF UInv, NobodyGone
      <4> QED  BY <2>1, <4>1
    <3> QED  BY <3>1, <3>2, <3>3
  <2>4. ASSUME gone = {}, NEW q \in Services, NEW j \in IdentityIDs, NEW w \in UserIDs, Carried(ureq'[q], j, w)
        PROVE  Held(identities', j, w)
    BY <1>1, <2>1, <2>4 DEF UInv, NobodyGone
  <2> QED  BY <2>3, <2>4 DEF NobodyGone
<1>8. UserSerial'
  <2>1. \A w \in gone \cup forgotten : w \in UserIDs /\ w # u /\ users'[w] = users[w]
    BY <1>0, <1>2, <1>3
  <2>2. \A w \in forgotten : StaysHidden(w) => StaysHidden(w)'
    BY <1>0, <1>3, <2>1 DEF StaysHidden, Held
  <2> QED  BY <2>1, <2>2, SerialStep DEF UInv, UserSerial, DoneOK
<1>10. IdentitiesStay
  BY <1>3 DEF IdentitiesStay
<1>9. UserNamesakes'
  <2>1. \A j \in IdentityIDs : identities[j] # Nothing => identities'[j] # Nothing
    BY <1>0, <1>3
  <2>2. owned \subseteq IdentityIDs
    BY DEF UInv, UserTablesOK
  <2> QED  BY <2>1, <2>2 DEF UInv, UserNamesakes, NamesakesStep
<1> QED  BY <1>4, <1>6, <1>7, <1>8, <1>9, <1>10 DEF UInv

\* An identity is inserted that has no user, or one that exists and was not obfuscated
\* or is not taken to be so any more.
LEMMA IdentityInsertStep ==
    ASSUME UInv, NEW p \in Services, DoneOK(p), NamesakesStep,
           NEW i \in IdentityIDs, identities[i] = Nothing, NEW id \in IdentityRow,
           id.user # Nothing => users[id.user] # Nothing,
           identities' = [identities EXCEPT ![i] = id], UNCHANGED <<users, owned, everUsed, gone>>,
           forgotten' \subseteq forgotten, id.user \notin forgotten'
    PROVE  UInv' /\ IdentitiesStay
<1>0. id # Nothing /\ id.user \in UserIDs \cup {Nothing} /\ Nothing \notin UserIDs
  BY UsersAssumption DEF IdentityRow
<1>1. /\ ureq' \in [Services -> UReqType] /\ \A q \in Services : UReqOK(ureq'[q])
      /\ \A q \in Services : \A j, w : Carried(ureq'[q], j, w) => Carried(ureq[q], j, w)
  BY DoneRequests
<1>2. /\ identities \in [IdentityIDs -> IdentityRow \cup {Nothing}]
      /\ \A w \in UserIDs : users[w] # Nothing => w \in everUsed
      /\ \A j \in IdentityIDs : HasUser(identities[j]) => users[identities[j].user] # Nothing
      /\ everUsed \subseteq UserIDs /\ gone \cup forgotten \subseteq everUsed /\ owned \subseteq IdentityIDs
  BY DEF UInv, UserTablesOK
<1>3. /\ identities' \in [IdentityIDs -> IdentityRow \cup {Nothing}]
      /\ \A j \in IdentityIDs : identities'[j] = IF j = i THEN id ELSE identities[j]
  BY <1>0, <1>2
<1>4. UserTablesOK'
  <2>1. \A j \in IdentityIDs : HasUser(identities'[j]) => users'[identities'[j].user] # Nothing
    BY <1>2, <1>3 DEF HasUser
  <2>2. gone' \cup forgotten' \subseteq everUsed'
    BY <1>2
  <2> QED  BY <1>1, <1>3, <2>1, <2>2 DEF UInv, UserTablesOK, DoneOK, NamesakesStep
<1>5. \A j \in IdentityIDs, w \in UserIDs :
         HoldsUser(identities', ureq', j, w) => HoldsUser(identities, ureq, j, w) \/ (j = i /\ w = id.user)
  BY <1>1, <1>3 DEF HoldsUser, Held
<1>6. UserBindings'
  BY <1>0, <1>2, <1>5 DEF UInv, UserBindings
<1>7. NobodyGone'
  <2>1. \A j \in IdentityIDs, w \in UserIDs : Held(identities, j, w) => Held(identities', j, w)
    BY <1>3 DEF Held
  <2> QED  BY <1>1, <2>1 DEF UInv, NobodyGone
<1>8. UserSerial'
  <2>1. \A w \in forgotten' : w \in UserIDs /\ w \in forgotten /\ w # id.user
    BY <1>2
  <2>2. \A w \in forgotten' : StaysHidden(w) => StaysHidden(w)'
    BY <1>3, <2>1 DEF StaysHidden, Held
  <2> QED  BY <2>1, <2>2, SerialStep DEF UInv, UserSerial, DoneOK
<1>9. UserNamesakes'
  <2>1. \A j \in IdentityIDs : identities[j] # Nothing => identities'[j] # Nothing
    BY <1>0, <1>3
  <2> QED  BY <1>2, <2>1 DEF UInv, UserNamesakes, NamesakesStep
<1>10. IdentitiesStay
  BY <1>3 DEF IdentitiesStay
<1> QED  BY <1>4, <1>6, <1>7, <1>8, <1>9, <1>10 DEF UInv

LEMMA AddedIdentitySteps ==
    ASSUME UInv, NEW p \in Services, NEW i \in IdentityIDs, NEW name \in UserNames, NEW profile \in Profiles,
           Lookup(p, i, name, profile) \/ \E u \in UserIDs : Associate(p, i, u, name, profile), NamesakesStep
    PROVE  UInv' /\ IdentitiesStay
<1>1. CASE Lookup(p, i, name, profile)
  <2>1. PICK id : id = [user |-> Nothing, username |-> name, profile |-> profile]
    OBVIOUS
  <2>2. id \in IdentityRow /\ id.user = Nothing
    BY <2>1 DEF IdentityRow
  <2>3. DoneOK(p)
    BY <1>1, DoneIs DEF Lookup
  <2>4. id.user \notin forgotten
    BY <2>2, UsersAssumption DEF UInv, UserTablesOK
  <2>5. /\ identities[i] = Nothing /\ identities' = [identities EXCEPT ![i] = id]
        /\ UNCHANGED <<users, owned, everUsed, forgotten, gone>>
    BY <1>1, <2>1 DEF Lookup
  <2> QED  BY <2>2, <2>3, <2>4, <2>5, IdentityInsertStep
<1>2. ASSUME NEW u \in UserIDs, Associate(p, i, u, name, profile)  PROVE  UInv' /\ IdentitiesStay
  <2>1. PICK id : id = [user |-> u, username |-> name, profile |-> profile]
    OBVIOUS
  <2>2. id \in IdentityRow /\ id.user = u
    BY <2>1 DEF IdentityRow
  <2>3. DoneOK(p)
    BY <1>2, DoneIs DEF Associate
  <2>4. /\ identities[i] = Nothing /\ identities' = [identities EXCEPT ![i] = id] /\ users[u] # Nothing
        /\ UNCHANGED <<users, owned, everUsed, gone>> /\ forgotten' = forgotten \ {u}
    BY <1>2, <2>1 DEF Associate
  <2>5. forgotten' \subseteq forgotten /\ id.user \notin forgotten'
    BY <2>2, <2>4
  <2> QED  BY <2>2, <2>3, <2>4, <2>5, IdentityInsertStep
<1> QED  BY <1>1, <1>2

\* A request writes back what it has loaded, with changes: to the identity it has loaded
\* and the user that it had.
LEMMA UserSaveStep ==
    ASSUME UInv, NEW p \in Services, DoneOK(p), NamesakesStep,
           NEW r, r = ureq[p], r.pc # "idle", r.identity # Nothing,
           NEW row \in UserRow, NEW id \in IdentityRow, id.user = r.identity.user,
           users' = [users EXCEPT ![id.user] = row], identities' = [identities EXCEPT ![r.i] = id],
           UNCHANGED <<owned, everUsed, gone>>, forgotten' \subseteq forgotten,
           ~overlap' => (row.bio = r.user.bio /\ id.profile = r.identity.profile) \/ id.user \notin forgotten'
    PROVE  UInv' /\ IdentitiesStay
<1> DEFINE u == id.user
           i == r.i
<1>0. row # Nothing /\ id # Nothing /\ u \in UserIDs /\ u # Nothing
  BY UsersAssumption DEF IdentityRow, UInv, UserTablesOK, UReqOK
<1>1. /\ ureq' \in [Services -> UReqType] /\ \A q \in Services : UReqOK(ureq'[q])
      /\ \A q \in Services : \A j, w : Carried(ureq'[q], j, w) => Carried(ureq[q], j, w)
  BY DoneRequests
<1>2. /\ users \in [UserIDs -> UserRow \cup {Nothing}] /\ identities \in [IdentityIDs -> IdentityRow \cup {Nothing}]
      /\ \A w \in UserIDs : users[w] # Nothing => w \in everUsed
      /\ \A j \in IdentityIDs : HasUser(identities[j]) => users[identities[j].user] # Nothing
      /\ everUsed \subseteq UserIDs /\ gone \cup forgotten \subseteq everUsed /\ UReqOK(r)
  BY DEF UInv, UserTablesOK
<1>3. i \in IdentityIDs /\ r.user # Nothing /\ Carried(ureq[p], i, u)
  BY <1>2 DEF UReqOK, Carried
<1> HIDE DEF u, i
<1>4. /\ users' \in [UserIDs -> UserRow \cup {Nothing}] /\ identities' \in [IdentityIDs -> IdentityRow \cup {Nothing}]
      /\ \A w \in UserIDs : users'[w] = IF w = u THEN row ELSE users[w]
      /\ \A j \in IdentityIDs : identities'[j] = IF j = i THEN id ELSE identities[j]
  BY <1>0, <1>2, <1>3 DEF u, i
<1>5. HoldsUser(identities, ureq, i, u) /\ u \in everUsed
  BY <1>0, <1>3 DEF HoldsUser, UInv, UserBindings
<1>6. UserTablesOK'
  <2>1. \A j \in IdentityIDs : HasUser(identities[j]) => identities[j].user \in UserIDs
    BY <1>2 DEF IdentityRow, HasUser
  <2>2. \A j \in IdentityIDs : HasUser(identities'[j]) => users'[identities'[j].user] # Nothing
    BY <1>0, <1>2, <1>4, <2>1 DEF u, HasUser
  <2>3. \A w \in UserIDs : users'[w] # Nothing => w \in everUsed'
    BY <1>2, <1>4, <1>5
  <2>4. gone' \cup forgotten' \subseteq everUsed'
    BY <1>2
  <2> QED  BY <1>1, <1>4, <2>2, <2>3, <2>4 DEF UInv, UserTablesOK, DoneOK, NamesakesStep
<1>7. UserBindings'
  <2>1. \A j \in IdentityIDs, w \in UserIDs :
           HoldsUser(identities', ureq', j, w) => HoldsUser(identities, ureq, j, w)
    BY <1>1, <1>4, <1>5 DEF HoldsUser, Held, u
  <2> QED  BY <2>1, BindStep
<1>8. NobodyGone'
  <2> SUFFICES ASSUME gone = {}
               PROVE  /\ \A w \in UserIDs : users'[w] # Nothing => \E j \in IdentityIDs : Held(identities', j, w)
                      /\ \A q \in Services, j \in IdentityIDs, w \in UserIDs : Carried(ureq'[q], j, w) => Held(identities', j, w)
    BY DEF NobodyGone
  <2>1. Held(identities, i, u)
    BY <1>0, <1>3 DEF UInv, NobodyGone
  <2>2. \A j \in IdentityIDs, w \in UserIDs : Held(identities, j, w) => Held(identities', j, w)
    BY <1>0, <1>4, <2>1 DEF Held, u
  <2>3. \A w \in UserIDs : users'[w] # Nothing => \E j \in IdentityIDs : Held(identities', j, w)
    <3>1. \A w \in UserIDs : users[w] # Nothing => \E j \in IdentityIDs : Held(identities, j, w)
      BY DEF UInv, NobodyGone
    <3>2. \A w \in UserIDs : users'[w] # Nothing => w = u \/ users[w] # Nothing
      BY <1>4
    <3> QED  BY <1>3, <2>1, <2>2, <3>1, <3>2
  <2>4. \A q \in Services, j \in IdentityIDs, w \in UserIDs : Carried(ureq'[q], j, w) => Held(identities', j, w)
    BY <1>1, <2>2 DEF UInv, NobodyGone
  <2> QED  BY <2>3, <2>4
<1>9. UserSerial'
  <2>1. ASSUME ~overlap'
        PROVE  /\ \A w \in forgotten' : StaysHidden(w)'
               /\ \A w \in gone' : users'[w] = Nothing
    <3>1. ~overlap
      BY <2>1 DEF DoneOK
    <3>2. users[u] = r.user /\ users[u] # Nothing /\ identities[i] = r.identity
      BY <1>3, <3>1 DEF UInv, UserSerial, u, i
    <3>3. u \notin gone
      BY <3>1, <3>2 DEF UInv, UserSerial
    <3>4. \A w \in forgotten' : w \in UserIDs /\ w \in forgotten /\ StaysHidden(w)
      BY <1>2, <3>1 DEF UInv, UserSerial
    <3>5. ASSUME NEW w \in forgotten'  PROVE  StaysHidden(w)'
      <4>1. CASE w = u
        <5>1. Held(identities, i, u)
          BY <1>3, <3>2 DEF Held, Carried, i, u
        <5>2. row.bio = Hidden(u) /\ id.profile = Hidden(u)
          BY <1>0, <1>3, <2>1, <3>2, <3>4, <4>1, <5>1 DEF StaysHidden, u, i
        <5>3. \A j \in IdentityIDs : Held(identities', j, u) => j = i \/ Held(identities, j, u)
          BY <1>4 DEF Held
        <5> QED  BY <1>0, <1>4, <3>2, <3>4, <4>1, <5>2, <5>3 DEF StaysHidden
      <4>2. CASE w # u
        <5>1. \A j \in IdentityIDs : Held(identities', j, w) => j # i
          BY <1>4, <4>2 DEF Held, u
        <5> QED  BY <1>4, <3>4, <4>2, <5>1 DEF StaysHidden, Held
      <4> QED  BY <4>1, <4>2
    <3>6. \A w \in gone : w \in UserIDs
      BY <1>2
    <3> QED  BY <1>4, <3>1, <3>3, <3>5, <3>6 DEF UInv, UserSerial
  <2> QED  BY <2>1, SerialStep
<1>10. UserNamesakes'
  <2>1. \A j \in IdentityIDs : identities[j] # Nothing => identities'[j] # Nothing
    BY <1>0, <1>4
  <2>2. owned \subseteq IdentityIDs
    BY DEF UInv, UserTablesOK
  <2> QED  BY <2>1, <2>2 DEF UInv, UserNamesakes, NamesakesStep
<1>11. IdentitiesStay
  <2> SUFFICES ASSUME gone = {}  PROVE  \A j \in IdentityIDs : identities[j] # Nothing => identities'[j] # Nothing /\ identities'[j].user = identities[j].user
    BY DEF IdentitiesStay
  <2>1. Held(identities, i, u)
    BY <1>0, <1>3 DEF UInv, NobodyGone
  <2> QED  BY <1>0, <1>4, <2>1 DEF Held, u
<1> QED  BY <1>6, <1>7, <1>8, <1>9, <1>10, <1>11 DEF UInv


\* A request loads an identity and its user.
LEMMA UserReadStep ==
    ASSUME UInv, NEW p \in Services, NEW r, UReqOK(r), r.pc # "idle",
           r.identity = identities[r.i], r.identity # Nothing => r.user = users[r.identity.user],
           Begin(p, r), NamesakesStep, UNCHANGED <<users, identities, owned, everUsed, forgotten, gone>>
    PROVE  UInv' /\ IdentitiesStay
<1>1. /\ ureq \in [Services -> UReqType] /\ (\A q \in Services : UReqOK(ureq[q])) /\ overlap \in BOOLEAN
  BY DEF UInv, UserTablesOK
<1>2. r \in UReqType /\ r.i \in IdentityIDs
  BY DEF UReqOK
<1>3. /\ ureq' \in [Services -> UReqType] /\ \A q \in Services : ureq'[q] = IF q = p THEN r ELSE ureq[q]
      /\ overlap' = (overlap \/ \E q \in Services : ureq[q].pc # "idle")
  BY <1>1, <1>2 DEF Begin
<1>4. overlap' \in BOOLEAN /\ (overlap => overlap') /\ (~overlap' => ~overlap /\ \A q \in Services : ureq[q].pc = "idle")
  BY <1>1, <1>3
<1>5. UserTablesOK'
  BY <1>1, <1>3, <1>4 DEF UInv, UserTablesOK, NamesakesStep, HasUser
<1>6. \A i \in IdentityIDs, u \in UserIDs : Carried(r, i, u) => Held(identities, i, u)
  BY DEF Carried, Held
<1>7. UserBindings'
  <2>1. \A i \in IdentityIDs, u \in UserIDs : HoldsUser(identities', ureq', i, u) => HoldsUser(identities, ureq, i, u)
    BY <1>3, <1>6 DEF HoldsUser
  <2> QED  BY <2>1, BindStep
<1>8. NobodyGone'
  BY <1>3, <1>6 DEF UInv, NobodyGone
<1>9. UserSerial'
  <2>1. ASSUME ~overlap'
        PROVE  \A q \in Services : ureq'[q].pc # "idle" => q = p
    BY <1>3, <1>4, <2>1
  <2> QED  BY <1>3, <1>4, <2>1 DEF UInv, UserSerial, StaysHidden
<1>10. UserNamesakes'
  BY DEF UInv, UserNamesakes, NamesakesStep
<1>11. IdentitiesStay
  BY DEF IdentitiesStay
<1> QED  BY <1>5, <1>7, <1>8, <1>9, <1>10, <1>11 DEF UInv

LEMMA UserReadSteps ==
    ASSUME UInv, NEW p \in Services, NEW i \in IdentityIDs, NEW name \in UserNames, NEW d \in Data,
           Login(p, i, name, d) \/ LoadUser(p, i, name, d), NamesakesStep
    PROVE  UInv' /\ IdentitiesStay
<1>1. /\ users \in [UserIDs -> UserRow \cup {Nothing}] /\ identities[i] \in IdentityRow \cup {Nothing}
      /\ HasUser(identities[i]) => users[identities[i].user] # Nothing
  BY DEF UInv, UserTablesOK
<1>2. HasUser(identities[i]) => identities[i].user \in UserIDs /\ users[identities[i].user] \in UserRow
  BY <1>1 DEF IdentityRow, HasUser
<1>3. PICK user : user = UserOfRow(identities[i])
  OBVIOUS
<1>4. /\ user \in UserRow \cup {Nothing} /\ (HasUser(identities[i]) => user # Nothing /\ user = users[identities[i].user])
  BY <1>1, <1>2, <1>3 DEF UserOfRow
<1>5. UNCHANGED <<users, identities, owned, everUsed, forgotten, gone>>
  BY DEF Login, LoadUser, userTables
<1>6. CASE Begin(p, UIdle)
  BY <1>5, <1>6, DoneIs, UserQuietStep
<1>7. CASE /\ Login(p, i, name, d) /\ ~(identities[i] # Nothing /\ ~HasUser(identities[i]))
  <2>1. PICK r : r = [UIdle EXCEPT !.pc = "login", !.i = i, !.identity = identities[i], !.name = name, !.data = d, !.user = user]
    OBVIOUS
  <2>2. r = [pc |-> "login", i |-> i, user |-> user, identity |-> identities[i], data |-> d, name |-> name, bio |-> Nothing]
    BY <2>1 DEF UIdle
  <2>3. UReqOK(r)
    BY <1>1, <1>4, <1>7, <2>2 DEF UReqOK, UReqType, HasUser
  <2>4. Begin(p, r)
    BY <1>3, <1>7, <2>1 DEF Login
  <2> QED  BY <1>4, <1>5, <1>7, <2>2, <2>3, <2>4, UserReadStep
<1>8. CASE LoadUser(p, i, name, d) /\ HasUser(identities[i])
  <2>1. PICK r : r = [UIdle EXCEPT !.pc = "update", !.i = i, !.identity = identities[i], !.name = name, !.bio = d, !.user = user]
    OBVIOUS
  <2>2. r = [pc |-> "update", i |-> i, user |-> user, identity |-> identities[i], data |-> Nothing, name |-> name, bio |-> d]
    BY <2>1 DEF UIdle
  <2>3. UReqOK(r)
    BY <1>1, <1>4, <1>8, <2>2 DEF UReqOK, UReqType, HasUser
  <2>4. Begin(p, r)
    BY <1>3, <1>8, <2>1 DEF LoadUser
  <2> QED  BY <1>4, <1>5, <1>8, <2>2, <2>3, <2>4, UserReadStep
<1> QED  BY <1>6, <1>7, <1>8 DEF Login, LoadUser

\* A user is obfuscated: its identities stay its own.
LEMMA HideStep ==
    ASSUME UInv, NEW p \in Services, NEW u \in UserIDs, DoneOK(p), NamesakesStep,
           NEW row \in UserRow, row.bio = Hidden(u), users[u] # Nothing,
           users' = [users EXCEPT ![u] = row], identities' = HiddenIdentities(u),
           forgotten' = IF overlap' THEN {} ELSE forgotten \cup {u},
           UNCHANGED <<owned, everUsed, gone>>
    PROVE  UInv' /\ IdentitiesStay
<1>0. row # Nothing /\ u # Nothing
  BY UsersAssumption
<1>1. /\ ureq' \in [Services -> UReqType] /\ \A q \in Services : UReqOK(ureq'[q])
      /\ \A q \in Services : \A j, w : Carried(ureq'[q], j, w) => Carried(ureq[q], j, w)
  BY DoneRequests
<1>2. /\ users \in [UserIDs -> UserRow \cup {Nothing}] /\ identities \in [IdentityIDs -> IdentityRow \cup {Nothing}]
      /\ \A w \in UserIDs : users[w] # Nothing => w \in everUsed
      /\ \A j \in IdentityIDs : HasUser(identities[j]) => users[identities[j].user] # Nothing
      /\ everUsed \subseteq UserIDs /\ gone \cup forgotten \subseteq everUsed /\ owned \subseteq IdentityIDs
  BY DEF UInv, UserTablesOK
<1>3. /\ users' \in [UserIDs -> UserRow \cup {Nothing}]
      /\ \A w \in UserIDs : users'[w] = IF w = u THEN row ELSE users[w]
      /\ users[u] # Nothing /\ u \in everUsed
  BY <1>2
<1>4. ASSUME NEW j \in IdentityIDs
      PROVE  /\ identities'[j] \in IdentityRow \cup {Nothing} /\ (identities'[j] = Nothing <=> identities[j] = Nothing)
             /\ identities[j] # Nothing => identities'[j].user = identities[j].user
             /\ Held(identities', j, u) => identities'[j].profile = Hidden(u)
             /\ ~Held(identities', j, u) => identities'[j] = identities[j]
  <2>1. identities'[j] = IF j \in IdentitiesOf(u) THEN [identities[j] EXCEPT !.username = Hidden(u), !.profile = Hidden(u)]
                         ELSE identities[j]
    BY DEF HiddenIdentities
  <2>2. CASE j \in IdentitiesOf(u)
    <3>1. identities[j] # Nothing /\ identities[j] \in IdentityRow /\ identities[j].user = u
      BY <1>2, <2>2 DEF IdentitiesOf
    <3>2. identities'[j] \in IdentityRow /\ identities'[j].user = u /\ identities'[j].profile = Hidden(u)
      BY <2>1, <2>2, <3>1 DEF IdentityRow
    <3>3. identities'[j] # Nothing
      BY <3>2, UsersAssumption
    <3> QED  BY <3>1, <3>2, <3>3 DEF Held
  <2>3. CASE j \notin IdentitiesOf(u)
    BY <1>2, <2>1, <2>3 DEF Held, IdentitiesOf
  <2> QED  BY <2>2, <2>3
<1>5. identities' \in [IdentityIDs -> IdentityRow \cup {Nothing}]
  BY <1>4 DEF HiddenIdentities
<1>6. \A j \in IdentityIDs, w \in UserIDs : Held(identities', j, w) <=> Held(identities, j, w)
  BY <1>4 DEF Held
<1>7. forgotten' \subseteq forgotten \cup {u} /\ (~overlap' => forgotten' = forgotten \cup {u})
  OBVIOUS
<1>8. UserTablesOK'
  <2>1. \A j \in IdentityIDs : HasUser(identities[j]) => identities[j].user \in UserIDs
    BY <1>2 DEF IdentityRow, HasUser
  <2>2. \A j \in IdentityIDs : HasUser(identities'[j]) => users'[identities'[j].user] # Nothing
    BY <1>0, <1>2, <1>3, <1>4, <2>1 DEF HasUser
  <2> QED  BY <1>0, <1>1, <1>2, <1>3, <1>5, <1>7, <2>2 DEF UInv, UserTablesOK, DoneOK, NamesakesStep
<1>9. UserBindings'
  <2>1. \A j \in IdentityIDs, w \in UserIDs : HoldsUser(identities', ureq', j, w) => HoldsUser(identities, ureq, j, w)
    BY <1>1, <1>6 DEF HoldsUser
  <2> QED  BY <1>7, <2>1, BindStep
<1>10. NobodyGone'
  BY <1>1, <1>3, <1>6, <1>7 DEF UInv, NobodyGone
<1>11. UserSerial'
  <2>1. ASSUME ~overlap'
        PROVE  /\ \A w \in forgotten' : StaysHidden(w)'
               /\ \A w \in gone' : users'[w] = Nothing
    <3>1. ~overlap
      BY <2>1 DEF DoneOK
    <3>2. u \notin gone
      BY <1>3, <3>1 DEF UInv, UserSerial
    <3>3. StaysHidden(u)'
      BY <1>3, <1>4 DEF StaysHidden
    <3>4. ASSUME NEW w \in forgotten, w # u  PROVE  StaysHidden(w)'
      <4>1. w \in UserIDs /\ StaysHidden(w)
        BY <1>2, <3>1 DEF UInv, UserSerial
      <4>2. \A j \in IdentityIDs : Held(identities', j, w) => Held(identities, j, w) /\ identities'[j] = identities[j]
        BY <1>4, <1>6, <3>4, <4>1 DEF Held
      <4> QED  BY <1>3, <3>4, <4>1, <4>2 DEF StaysHidden
    <3>5. \A w \in gone : w \in UserIDs
      BY <1>2
    <3> QED  BY <1>3, <1>7, <2>1, <3>1, <3>2, <3>3, <3>4, <3>5 DEF UInv, UserSerial
  <2> QED  BY <2>1, SerialStep
<1>12. UserNamesakes'
  BY <1>2, <1>4, <1>7 DEF UInv, UserNamesakes, NamesakesStep
<1>13. IdentitiesStay
  BY <1>4 DEF IdentitiesStay
<1> QED  BY <1>8, <1>9, <1>10, <1>11, <1>12, <1>13 DEF UInv

LEMMA ObfuscateStep ==
    ASSUME UInv, NEW p \in Services, NEW u \in UserIDs, Obfuscate(p, u), NamesakesStep
    PROVE  UInv' /\ IdentitiesStay
<1>1. DoneOK(p)
  BY DoneIs DEF Obfuscate
<1>2. PICK row : row = [data |-> Hidden(u), bio |-> Hidden(u)]
  OBVIOUS
<1>3. row \in UserRow /\ row.bio = Hidden(u)
  BY <1>2 DEF UserRow
<1>4. CASE IdentitiesOf(u) # {} /\ Unique(HiddenIdentities(u))
  BY <1>1, <1>2, <1>3, <1>4, HideStep DEF Obfuscate
<1>5. CASE ~(IdentitiesOf(u) # {} /\ Unique(HiddenIdentities(u)))
  BY <1>1, <1>5, UserQuietStep DEF Obfuscate
<1> QED  BY <1>4, <1>5



\* The users of a name are deleted with their identities.  If no other identity has the
\* name in some spelling, the first one is the only one that is deleted.
LEMMA DeleteUserStep ==
    ASSUME UInv, NEW p \in Services, NEW name \in UserNames, NEW first \in IdentityIDs,
           DeleteUser(p, name, first), NamesakesStep
    PROVE  UInv' /\ IdentitiesStay
<1>0. DoneOK(p)
  BY DoneIs DEF DeleteUser
<1>1. /\ ureq' \in [Services -> UReqType] /\ \A q \in Services : UReqOK(ureq'[q])
      /\ \A q \in Services : \A j, w : Carried(ureq'[q], j, w) => Carried(ureq[q], j, w)
  BY <1>0, DoneRequests
<1>2. /\ users \in [UserIDs -> UserRow \cup {Nothing}] /\ identities \in [IdentityIDs -> IdentityRow \cup {Nothing}]
      /\ \A w \in UserIDs : users[w] # Nothing => w \in everUsed
      /\ \A j \in IdentityIDs : HasUser(identities[j]) => users[identities[j].user] # Nothing
      /\ everUsed \subseteq UserIDs /\ gone \cup forgotten \subseteq everUsed /\ owned \subseteq IdentityIDs
  BY DEF UInv, UserTablesOK
<1>3. Nothing \notin UserIDs /\ \A j \in IdentityIDs : HasUser(identities[j]) => identities[j].user \in UserIDs
  BY <1>2, UsersAssumption DEF IdentityRow, HasUser
<1>4. PICK V : V = NamedUsers(name)
  OBVIOUS
<1>5. /\ V # {} /\ gone' = gone \cup V /\ owned' = owned \ {first}
      /\ UNCHANGED <<everUsed, forgotten>>
  BY <1>4 DEF DeleteUser, SpacesLeft
<1>6. \A w \in V : \E k \in IdentityIDs : HasUser(identities[k]) /\ identities[k].username = name /\ identities[k].user = w
  BY <1>4 DEF NamedUsers
<1>7. V \subseteq everUsed
  BY <1>2, <1>3, <1>6
<1>8. \A w \in UserIDs : users'[w] = IF w \in V THEN Nothing ELSE users[w]
  BY <1>4 DEF DeleteUser, UsersToDelete
<1>9. users' \in [UserIDs -> UserRow \cup {Nothing}]
  BY <1>2 DEF DeleteUser
<1>10. ASSUME NEW j \in IdentityIDs
       PROVE  identities'[j] = IF identities[j] # Nothing /\ identities[j].user \in V THEN Nothing ELSE identities[j]
  <2>1. identities'[j] = IF j \in UNION {IdentitiesOf(w) : w \in V} THEN Nothing ELSE identities[j]
    BY <1>4 DEF DeleteUser, UsersToDelete
  <2>2. j \in UNION {IdentitiesOf(w) : w \in V} <=> identities[j] # Nothing /\ identities[j].user \in V
    BY DEF IdentitiesOf
  <2> QED  BY <2>1, <2>2
<1>11. identities' \in [IdentityIDs -> IdentityRow \cup {Nothing}]
  BY <1>2 DEF DeleteUser
<1>12. UserTablesOK'
  <2>1. \A j \in IdentityIDs : HasUser(identities'[j]) => users'[identities'[j].user] # Nothing
    BY <1>2, <1>3, <1>8, <1>10 DEF HasUser
  <2> QED  BY <1>0, <1>1, <1>2, <1>5, <1>7, <1>8, <1>9, <1>11, <2>1 DEF UInv, UserTablesOK, DoneOK, NamesakesStep
<1>13. UserBindings'
  <2>1. \A j \in IdentityIDs, w \in UserIDs : HoldsUser(identities', ureq', j, w) => HoldsUser(identities, ureq, j, w)
    BY <1>1, <1>10 DEF HoldsUser, Held
  <2> QED  BY <1>5, <2>1, BindStep
<1>14. NobodyGone'
  BY <1>5 DEF NobodyGone
<1>15. UserSerial'
  <2>1. ~overlap' => ~overlap
    BY <1>0 DEF DoneOK
  <2>2. \A w \in gone' \cup forgotten : w \in UserIDs
    BY <1>2, <1>5, <1>7
  <2>3. \A w \in forgotten : StaysHidden(w) => StaysHidden(w)'
    <3>1. \A w \in UserIDs : users'[w] # Nothing => users'[w] = users[w]
      BY <1>8
    <3>2. \A j \in IdentityIDs : identities'[j] # Nothing => identities'[j] = identities[j]
      BY <1>10
    <3> QED  BY <2>2, <3>1, <3>2 DEF StaysHidden, Held
  <2> QED  BY <1>0, <1>5, <1>8, <2>1, <2>2, <2>3, SerialStep DEF UInv, UserSerial
<1>16. UserNamesakes'
  <2> SUFFICES ASSUME ~namesakes'
               PROVE  ~overlap' /\ ~Namesakes(identities') /\ \A o \in owned' : identities'[o] # Nothing
    BY DEF UserNamesakes
  <2>1. ~overlap' /\ ~Namesakes(identities') /\ ~namesakes
    BY DEF NamesakesStep
  <2>2. ~Namesakes(identities) /\ \A o \in owned : identities[o] # Nothing
    BY <2>1 DEF UInv, UserNamesakes
  <2>3. ASSUME NEW o \in owned', identities[o].user \in V  PROVE  FALSE
    <3>1. o \in IdentityIDs /\ o # first /\ identities[o] # Nothing
      BY <1>2, <1>5, <2>2
    <3>2. PICK k \in IdentityIDs :
             HasUser(identities[k]) /\ identities[k].username = name /\ identities[k].user = identities[o].user
      BY <1>6, <2>3
    <3>3. k = o
      BY <2>2, <3>1, <3>2 DEF Namesakes, HasUser
    <3>4. /\ identities[first] # Nothing /\ LowerCase(identities[first].username) = LowerCase(name)
      BY DEF DeleteUser
    <3> QED  BY <2>2, <3>1, <3>2, <3>3, <3>4 DEF Namesakes
  <2> QED  BY <1>2, <1>5, <1>10, <2>1, <2>2, <2>3
<1>17. IdentitiesStay
  BY <1>5 DEF IdentitiesStay
<1> QED  BY <1>12, <1>13, <1>14, <1>15, <1>16, <1>17 DEF UInv

LEMMA OwnSpaceStep ==
    ASSUME UInv, NEW i \in IdentityIDs, OwnSpace(i), NamesakesStep
    PROVE  UInv' /\ IdentitiesStay
<1>1. /\ UNCHANGED <<users, identities, ureq, everUsed, forgotten, gone, overlap>>
      /\ owned' = owned \cup {i} /\ identities[i] # Nothing
  BY DEF OwnSpace
<1>2. UserTablesOK'
  BY <1>1 DEF UInv, UserTablesOK, NamesakesStep, HasUser
<1>3. UserBindings' /\ NobodyGone' /\ UserSerial' /\ IdentitiesStay
  BY <1>1 DEF UInv, UserBindings, NobodyGone, UserSerial, HoldsUser, Held, Carried, StaysHidden, IdentitiesStay
<1>4. UserNamesakes'
  BY <1>1 DEF UInv, UserNamesakes, NamesakesStep
<1> QED  BY <1>2, <1>3, <1>4 DEF UInv

LEMMA InsertBothStep ==
    ASSUME UInv, NEW p \in Services, DoneOK(p), NamesakesStep, UNCHANGED <<owned, forgotten, gone>>,
           NEW u \in Fresh, NEW i \in IdentityIDs, NEW name \in UserNames, NEW data \in Data,
           NEW bio \in Data \cup {Nothing}, InsertBoth(u, i, name, data, bio)
    PROVE  UInv' /\ IdentitiesStay
<1>1. CASE identities[i] # Nothing
  BY <1>1, UserQuietStep DEF InsertBoth
<1>2. CASE identities[i] = Nothing
  <2>1. PICK row : row = [data |-> data, bio |-> bio]
    OBVIOUS
  <2>2. PICK id : id = [user |-> u, username |-> name, profile |-> Nothing]
    OBVIOUS
  <2>3. row \in UserRow /\ id \in IdentityRow /\ id.user = u
    BY <2>1, <2>2 DEF UserRow, IdentityRow, Fresh
  <2>4. /\ users' = [users EXCEPT ![u] = row] /\ identities' = [identities EXCEPT ![i] = id]
        /\ everUsed' = everUsed \cup {u}
    BY <1>2, <2>1, <2>2 DEF InsertBoth
  <2> QED  BY <1>2, <2>3, <2>4, UserInsertStep
<1> QED  BY <1>1, <1>2

LEMMA FinishLoginStep ==
    ASSUME UInv, NEW p \in Services, FinishLogin(p), NamesakesStep
    PROVE  UInv' /\ IdentitiesStay
<1>1. PICK r : r = ureq[p]
  OBVIOUS
<1>2. /\ UReqOK(r) /\ r.pc = "login" /\ DoneOK(p)
  BY <1>1, DoneIs DEF FinishLogin, UInv, UserTablesOK
<1>3. UNCHANGED <<owned, forgotten, gone>>
  BY DEF FinishLogin
<1>4. /\ r.i \in IdentityIDs /\ r.name \in UserNames /\ r.data \in Data
      /\ r.identity \in IdentityRow \cup {Nothing} /\ r.user \in UserRow \cup {Nothing}
      /\ r.identity # Nothing => r.user # Nothing /\ r.identity.user # Nothing
  BY <1>2 DEF UReqOK, UReqType
<1>5. \/ r.identity = Nothing /\ \E u \in Fresh : InsertBoth(u, r.i, r.name, r.data, Nothing)
      \/ UNCHANGED <<users, identities, everUsed>>
      \/ r.identity # Nothing /\ SaveBoth(r.i, [r.identity EXCEPT !.username = r.name], FillUser(r.user, r.data))
  BY <1>1 DEF FinishLogin
<1>6. CASE \E u \in Fresh : InsertBoth(u, r.i, r.name, r.data, Nothing)
  <2>1. PICK u \in Fresh : InsertBoth(u, r.i, r.name, r.data, Nothing)
    BY <1>6
  <2> QED  BY <1>2, <1>3, <1>4, <2>1, InsertBothStep
<1>7. CASE UNCHANGED <<users, identities, everUsed>>
  BY <1>2, <1>3, <1>7, UserQuietStep
<1>8. CASE r.identity # Nothing /\ SaveBoth(r.i, [r.identity EXCEPT !.username = r.name], FillUser(r.user, r.data))
  <2>1. PICK row : row = FillUser(r.user, r.data)
    OBVIOUS
  <2>2. PICK id : id = [r.identity EXCEPT !.username = r.name]
    OBVIOUS
  <2>3. row \in UserRow /\ row.bio = r.user.bio
    BY <1>4, <1>8, <2>1 DEF FillUser, UserRow
  <2>4. id \in IdentityRow /\ id.user = r.identity.user /\ id.profile = r.identity.profile
    BY <1>4, <1>8, <2>2 DEF IdentityRow
  <2>5. CASE Unique([identities EXCEPT ![r.i] = id])
    <3>1. /\ users' = [users EXCEPT ![id.user] = row] /\ identities' = [identities EXCEPT ![r.i] = id]
          /\ everUsed' = everUsed
      BY <1>8, <2>1, <2>2, <2>5 DEF SaveBoth
    <3> QED  BY <1>1, <1>2, <1>3, <1>8, <2>3, <2>4, <3>1, UserSaveStep
  <2>6. CASE ~Unique([identities EXCEPT ![r.i] = id])
    <3>1. UNCHANGED <<users, identities, everUsed>>
      BY <1>8, <2>2, <2>6 DEF SaveBoth
    <3> QED  BY <1>2, <1>3, <3>1, UserQuietStep
  <2> QED  BY <2>5, <2>6
<1> QED  BY <1>5, <1>6, <1>7, <1>8

LEMMA UpdateUserStep ==
    ASSUME UInv, NEW p \in Services, UpdateUser(p), NamesakesStep
    PROVE  UInv' /\ IdentitiesStay
<1>1. PICK r : r = ureq[p]
  OBVIOUS
<1>2. /\ UReqOK(r) /\ r.pc = "update" /\ DoneOK(p)
  BY <1>1, DoneIs DEF UpdateUser, UInv, UserTablesOK
<1>3. /\ r.i \in IdentityIDs /\ r.name \in UserNames /\ r.bio \in Data /\ r.identity # Nothing
      /\ r.identity \in IdentityRow /\ r.user \in UserRow
  BY <1>2 DEF UReqOK, UReqType
<1>4. PICK row : row = [r.user EXCEPT !.bio = r.bio]
  OBVIOUS
<1>5. PICK id : id = [r.identity EXCEPT !.username = r.name]
  OBVIOUS
<1>6. row \in UserRow
  BY <1>3, <1>4 DEF UserRow
<1>7. id \in IdentityRow /\ id.user = r.identity.user
  BY <1>3, <1>5 DEF IdentityRow
<1>8. /\ UNCHANGED <<owned, everUsed, gone>>
      /\ forgotten' = IF overlap' THEN {} ELSE forgotten \ {r.identity.user}
      /\ SaveBoth(r.i, id, row)
  BY <1>1, <1>4, <1>5 DEF UpdateUser, SaveBoth
<1>9. forgotten' \subseteq forgotten /\ (~overlap' => id.user \notin forgotten')
  BY <1>7, <1>8
<1>10. CASE Unique([identities EXCEPT ![r.i] = id])
  <2>1. users' = [users EXCEPT ![id.user] = row] /\ identities' = [identities EXCEPT ![r.i] = id]
    BY <1>8, <1>10 DEF SaveBoth
  <2> QED  BY <1>1, <1>2, <1>3, <1>6, <1>7, <1>8, <1>9, <2>1, UserSaveStep
<1>11. CASE ~Unique([identities EXCEPT ![r.i] = id])
  <2>1. UNCHANGED <<users, identities>>
    BY <1>8, <1>11 DEF SaveBoth
  <2> QED  BY <1>2, <1>8, <1>9, <2>1, UserQuietStep
<1> QED  BY <1>10, <1>11

LEMMA UInvStep == UInv /\ [UsersNext]_userVars => UInv' /\ [IdentitiesStay]_userVars
<1> SUFFICES ASSUME UInv, [UsersNext]_userVars  PROVE  UInv' /\ [IdentitiesStay]_userVars
  OBVIOUS
<1>1. CASE UsersNext
  <2>0. UsersStep /\ NamesakesStep
    BY <1>1 DEF UsersNext, NamesakesStep
  <2>1. ASSUME NEW i \in IdentityIDs, OwnSpace(i)  PROVE  UInv' /\ IdentitiesStay
    BY <2>0, <2>1, OwnSpaceStep
  <2>2. ASSUME NEW p \in Services, NEW i \in IdentityIDs, NEW name \in UserNames, NEW d \in Data,
               NEW u \in Fresh, CreateUser(p, u, i, name, d)
        PROVE  UInv' /\ IdentitiesStay
    <3>1. DoneOK(p)
      BY <2>2, DoneIs DEF CreateUser
    <3>2. InsertBoth(u, i, name, d, d) /\ UNCHANGED <<owned, forgotten, gone>>
      BY <2>2 DEF CreateUser
    <3> QED  BY <2>0, <3>1, <3>2, InsertBothStep
  <2>3. ASSUME NEW p \in Services, NEW i \in IdentityIDs, NEW name \in UserNames, NEW d \in Data,
               Login(p, i, name, d) \/ LoadUser(p, i, name, d)
        PROVE  UInv' /\ IdentitiesStay
    BY <2>0, <2>3, UserReadSteps
  <2>4. ASSUME NEW p \in Services, FinishLogin(p) \/ UpdateUser(p)  PROVE  UInv' /\ IdentitiesStay
    BY <2>0, <2>4, FinishLoginStep, UpdateUserStep
  <2>5. ASSUME NEW p \in Services, NEW u \in UserIDs, Obfuscate(p, u)  PROVE  UInv' /\ IdentitiesStay
    BY <2>0, <2>5, ObfuscateStep
  <2>6. ASSUME NEW p \in Services, NEW name \in UserNames, NEW i \in IdentityIDs, DeleteUser(p, name, i)  PROVE  UInv' /\ IdentitiesStay
    BY <2>0, <2>6, DeleteUserStep
  <2>7. ASSUME NEW p \in Services, NEW i \in IdentityIDs, NEW name \in UserNames, NEW profile \in Profiles,
               Lookup(p, i, name, profile) \/ \E u \in UserIDs : Associate(p, i, u, name, profile)
        PROVE  UInv' /\ IdentitiesStay
    BY <2>0, <2>7, AddedIdentitySteps
  <2> QED  BY <2>0, <2>1, <2>2, <2>3, <2>4, <2>5, <2>6, <2>7 DEF UsersStep
<1>2. CASE UNCHANGED userVars
  <2>1. UNCHANGED <<users, identities, owned, ureq, everUsed, forgotten, gone, overlap, namesakes>>
    BY <1>2 DEF userVars
  <2> QED  BY <1>2, <2>1 DEF UInv, UserTablesOK, UserBindings, NobodyGone, UserSerial, UserNamesakes, HoldsUser, Held, Carried,
                              Namesakes, StaysHidden, HasUser
<1> QED  BY <1>1, <1>2

\* The user of an identity exists, and as long as nobody is deleted every user has one and
\* an identity stays with its user, or without one, whatever logins, updates, obfuscations
\* and imports overlap (CreateOrUpdateKeycloakUser in login/service.go, Lookup in
\* account/identity.go, updateUserInDB and Delete in controller/users.go); as long as
\* requests do not overlap, users who were obfuscated or deleted stay so with all their
\* identities, and no space of theirs is left behind.
THEOREM UsersStayConsistent == UsersSpec => UsersAreConsistent
<1>1. UsersSpec => []UInv
  BY UInvInit, UInvStep, PTL DEF UsersSpec
<1>2. UsersSpec => [][IdentitiesStay]_userVars
  BY <1>1, UInvStep, PTL DEF UsersSpec
<1>3. UsersSpec => [](UsersTypeOK /\ UsersAreSound)
  BY <1>1, UInvSound, PTL
<1> QED  BY <1>2, <1>3 DEF UsersAreConsistent

-------------------------------------------------------------------------------
(* Spaces: the inductive invariant.  Rows are never removed, a space keeps  *)
(* its owner and a codebase its space, and what is deleted stays deleted:   *)
(* so what a request knows of rows (RequestOK) stays so whatever the others *)
(* do.  What it has cleaned up stays clean (CleanedUp) while it is alone.   *)

SpaceRow == [owner : Users, name : SpaceNames, version : 0..MaxRequests, live : BOOLEAN]
CodebaseRow(sp) ==
    [space : DOMAIN sp, url : URLs, stack : 0..1, last : {None} \cup Users \X URLs, live : BOOLEAN]
LocalRec(sp) ==
    [user : Users \cup {None}, space : SpaceIDs \cup {None}, skip : BOOLEAN, direct : BOOLEAN,
     todo : SUBSET CodebaseIDs, failed : BOOLEAN, codebase : CodebaseIDs \cup {None},
     copy : CodebaseRow(sp) \cup {None}]

RequestLabels == {"idle", "created", "rollback", "list", "codebases", "codebase",
                  "cluster", "row", "resource", "create", "open", "save"}

OwnedBy(sp, s, u) == s \in DOMAIN sp /\ sp[s].owner = u

\* What a request at label with the local state r knows of the rows.
RequestOK(label, r, sp, cb) ==
    /\ r \in LocalRec(sp)
    /\ label # "idle" => r.user \in Users
    /\ label \in {"created", "rollback"} => OwnedBy(sp, r.space, r.user)
    /\ label \in {"list", "cluster", "row"} => r.space \in SpaceIDs
    /\ label \in {"codebases", "codebase"} /\ ~r.direct => r.space \in SpaceIDs
    /\ label = "codebase" => r.codebase \in DOMAIN cb /\ OwnedBy(sp, cb[r.codebase].space, r.user)
    /\ label = "resource" => OwnedBy(sp, r.space, r.user) /\ ~sp[r.space].live
    /\ label \in {"create", "open", "save"} =>
         /\ r.codebase \in DOMAIN cb /\ r.copy \in CodebaseRow(sp)
         /\ r.copy.live /\ r.copy.space = cb[r.codebase].space

CodebasesIn(cb, s) == {b \in DOMAIN cb : cb[b].space = s}
LiveIn(cb, s) == {b \in DOMAIN cb : cb[b].live /\ cb[b].space = s}
Overflows(cb, s) == Cardinality(CodebasesIn(cb, s)) > PageLimit

\* What a request that is alone has cleaned up.
CleanedUp(label, r, cb, cl) ==
    /\ label \in {"created", "rollback"} => LiveIn(cb, r.space) = {}
    /\ label \in {"codebases", "codebase"} /\ ~r.direct /\ ~r.failed =>
         LiveIn(cb, r.space) \subseteq r.todo \/ Overflows(cb, r.space)
    /\ label \in {"cluster", "row"} => LiveIn(cb, r.space) = {} \/ Overflows(cb, r.space)
    /\ label \in {"row", "resource"} /\ ~r.skip => "dc" \notin cl[<<r.user, r.space>>]

DeletedAreEmpty(sp, cb) ==
    \A s \in DOMAIN sp : sp[s].live \/ LiveIn(cb, s) = {} \/ Overflows(cb, s)

SpaceTables ==
    /\ DOMAIN spaces \subseteq SpaceIDs /\ spaces \in [DOMAIN spaces -> SpaceRow]
    /\ DOMAIN codebases \subseteq CodebaseIDs /\ codebases \in [DOMAIN codebases -> CodebaseRow(spaces)]
    /\ resources \subseteq DOMAIN spaces
    /\ workspaces \subseteq Users \X URLs
    /\ cluster \in [Users \X SpaceIDs -> SUBSET Objects]
    /\ concurrent \in BOOLEAN /\ unrolled \in BOOLEAN
    /\ requests \in 0..MaxRequests
    /\ \A s \in DOMAIN spaces : spaces[s].version <= requests

RequestsOK ==
    /\ pc \in [Clients -> RequestLabels] /\ loc = [c \in Clients |-> loc[c]]
    /\ \A c \in Clients : RequestOK(pc[c], loc[c], spaces, codebases)

Undisturbed ==
    ~concurrent =>
        /\ \A c, d \in Clients : pc[c] # "idle" /\ pc[d] # "idle" => c = d
        /\ \A c \in Clients : CleanedUp(pc[c], loc[c], codebases, cluster)
        /\ DeletedAreEmpty(spaces, codebases)

SpacesInv == SpaceTables /\ RequestsOK /\ LiveSpacesHaveResources /\ Undisturbed

-------------------------------------------------------------------------------

LEMMA SpacesInvSound == SpacesInv => SpacesAreSound
<1> SUFFICES ASSUME SpacesInv  PROVE  SpacesAreSound
  OBVIOUS
<1>1. TypeOK
  BY DEF SpacesInv, SpaceTables, RequestsOK, TypeOK, SpaceRow, CodebaseRow, RequestLabels
<1>2. SerialCodebasesGone
  <2> SUFFICES ASSUME ~concurrent, NEW b \in Live(codebases), ~SpaceLive(codebases[b].space)
               PROVE  Cardinality({x \in DOMAIN codebases : codebases[x].space = codebases[b].space}) > PageLimit
    BY DEF SerialCodebasesGone
  <2>1. codebases[b].space \in DOMAIN spaces /\ b \in LiveIn(codebases, codebases[b].space)
    BY DEF SpacesInv, SpaceTables, CodebaseRow, Live, LiveIn
  <2>2. ~spaces[codebases[b].space].live
    BY <2>1 DEF SpaceLive, Live
  <2> QED  BY <2>1, <2>2 DEF SpacesInv, Undisturbed, DeletedAreEmpty, Overflows, CodebasesIn
<1>3. SerialUndeployed
  BY DEF SpacesInv, Undisturbed, CleanedUp, SerialUndeployed
<1> QED  BY <1>1, <1>2, <1>3 DEF SpacesInv, SpacesAreSound

LEMMA SpacesInvInit == Init => SpacesInv
<1> SUFFICES ASSUME Init  PROVE  SpacesInv
  OBVIOUS
<1>1. PICK s \in SpaceIDs, u \in Users, n \in SpaceNames, urls \in SUBSET URLs, objects \in {{}, Objects} :
        \E id \in [urls -> CodebaseIDs] :
            /\ \A x, y \in urls : id[x] = id[y] => x = y
            /\ spaces = [x \in {s} |-> NewSpace(u, n)]
            /\ codebases = [i \in {id[x] : x \in urls} |-> NewCodebase(s, CHOOSE x \in urls : id[x] = i)]
            /\ resources = {s}
            /\ workspaces = {<<u, x>> : x \in urls}
            /\ cluster = [k \in Users \X SpaceIDs |-> IF k = <<u, s>> THEN objects ELSE {}]
            /\ pc = [c \in Clients |-> "idle"]
            /\ loc = [c \in Clients |-> Idle]
            /\ concurrent = FALSE /\ unrolled = FALSE
            /\ requests = 0 /\ faults = 0
  BY DEF Init
<1>2. PICK id \in [urls -> CodebaseIDs] :
            /\ spaces = [x \in {s} |-> NewSpace(u, n)]
            /\ codebases = [i \in {id[x] : x \in urls} |-> NewCodebase(s, CHOOSE x \in urls : id[x] = i)]
            /\ resources = {s}
            /\ workspaces = {<<u, x>> : x \in urls}
            /\ cluster = [k \in Users \X SpaceIDs |-> IF k = <<u, s>> THEN objects ELSE {}]
            /\ pc = [c \in Clients |-> "idle"]
            /\ loc = [c \in Clients |-> Idle]
            /\ concurrent = FALSE /\ unrolled = FALSE
            /\ requests = 0 /\ faults = 0
  BY <1>1
<1>3. DOMAIN spaces = {s} /\ spaces[s] = NewSpace(u, n) /\ NewSpace(u, n) \in SpaceRow
  BY <1>2, SpacesAssumption DEF NewSpace, SpaceRow
<1>4. \A i \in {id[x] : x \in urls} : (CHOOSE x \in urls : id[x] = i) \in URLs
  OBVIOUS
<1>5. \A x \in URLs : NewCodebase(s, x) \in CodebaseRow(spaces)
  BY <1>3 DEF NewCodebase, CodebaseRow
<1>6. DOMAIN codebases = {id[x] : x \in urls} /\ codebases \in [DOMAIN codebases -> CodebaseRow(spaces)]
  BY <1>2, <1>4, <1>5
<1>7. Idle \in LocalRec(spaces)
  BY DEF Idle, LocalRec
<1>8. SpaceTables
  <2>1. cluster \in [Users \X SpaceIDs -> SUBSET Objects]
    BY <1>2
  <2>2. spaces[s].version = 0 /\ spaces \in [DOMAIN spaces -> SpaceRow]
    BY <1>2, <1>3 DEF NewSpace
  <2>3. workspaces \subseteq Users \X URLs
    BY <1>2
  <2>4. DOMAIN codebases \subseteq CodebaseIDs
    BY <1>6
  <2>5. resources \subseteq DOMAIN spaces /\ DOMAIN spaces \subseteq SpaceIDs
    BY <1>2, <1>3
  <2>6. requests \in 0..MaxRequests
    <3>1. requests = 0
      BY <1>2
    <3> QED  BY <3>1, SpacesAssumption
  <2>8. concurrent \in BOOLEAN /\ unrolled \in BOOLEAN
    BY <1>2
  <2>7. \A x \in DOMAIN spaces : spaces[x].version <= requests
    BY <1>2, <1>3, <2>2
  <2> QED  BY <1>6, <2>1, <2>2, <2>3, <2>4, <2>5, <2>6, <2>7, <2>8 DEF SpaceTables
<1>9. RequestsOK
  <2>1. pc \in [Clients -> RequestLabels] /\ loc = [c \in Clients |-> loc[c]]
    BY <1>2 DEF RequestLabels
  <2>2. \A c \in Clients : pc[c] = "idle" /\ loc[c] = Idle
    BY <1>2
  <2> QED  BY <1>7, <2>1, <2>2 DEF RequestsOK, RequestOK
<1>10. LiveSpacesHaveResources
  BY <1>2, <1>3 DEF LiveSpacesHaveResources, Live
<1>11. Undisturbed
  BY <1>2, <1>3 DEF Undisturbed, CleanedUp, DeletedAreEmpty, NewSpace
<1> QED  BY <1>8, <1>9, <1>10, <1>11 DEF SpacesInv

-------------------------------------------------------------------------------

\* Rows stay, with their owners and spaces, and a deleted one stays deleted.
Persist(sp, sp2, cb, cb2) ==
    /\ DOMAIN sp \subseteq DOMAIN sp2
    /\ \A s \in DOMAIN sp : sp2[s].owner = sp[s].owner /\ (sp2[s].live => sp[s].live)
    /\ DOMAIN cb \subseteq DOMAIN cb2
    /\ \A b \in DOMAIN cb : cb2[b].space = cb[b].space /\ (cb2[b].live => cb[b].live)

\* Whose requests may delete a row.
ByOwner ==
    /\ \A s \in Live(spaces) \ Live(spaces)' :
         \E c \in Clients : pc[c] # "idle" /\ loc[c].user = spaces[s].owner
    /\ \A b \in Live(codebases) \ Live(codebases)' :
         \E c \in Clients : pc[c] = "codebase" /\ loc[c].user = spaces[codebases[b].space].owner

Sound == SpacesInv' /\ Persist(spaces, spaces', codebases, codebases') /\ ByOwner

\* The request of c goes on to label with the local state r, or has just arrived.
StepBy(c, label, r) ==
    /\ pc' = [pc EXCEPT ![c] = label] /\ loc' = [loc EXCEPT ![c] = r]
    /\ concurrent' \in BOOLEAN /\ requests' \in requests..MaxRequests
    /\ ~concurrent' => ~concurrent /\ \A d \in Clients \ {c} : pc[d] = "idle"

LEMMA RequestPersists ==
    ASSUME NEW sp, NEW sp2, NEW cb, NEW cb2, Persist(sp, sp2, cb, cb2),
           NEW label, NEW r, RequestOK(label, r, sp, cb),
           \A b \in DOMAIN cb : cb[b].space \in DOMAIN sp
    PROVE  RequestOK(label, r, sp2, cb2)
<1>1. CodebaseRow(sp) \subseteq CodebaseRow(sp2)
  BY DEF CodebaseRow, Persist
<1>2. r \in LocalRec(sp2)
  BY <1>1 DEF RequestOK, LocalRec
<1>3. \A s, u : OwnedBy(sp, s, u) => OwnedBy(sp2, s, u)
  BY DEF OwnedBy, Persist
<1>4. label = "resource" => ~sp2[r.space].live
  BY DEF RequestOK, OwnedBy, Persist
<1>5. label = "codebase" => r.codebase \in DOMAIN cb2 /\ OwnedBy(sp2, cb2[r.codebase].space, r.user)
  BY <1>3 DEF RequestOK, Persist
<1>6. label \in {"create", "open", "save"} =>
         /\ r.codebase \in DOMAIN cb2 /\ r.copy \in CodebaseRow(sp2)
         /\ r.copy.live /\ r.copy.space = cb2[r.codebase].space
  BY <1>1 DEF RequestOK, Persist
<1> QED  BY <1>2, <1>3, <1>4, <1>5, <1>6 DEF RequestOK

\* A step of one request, from what it establishes for itself.
LEMMA RequestStep ==
    ASSUME SpacesInv, NEW c \in Clients, NEW label \in RequestLabels, NEW r, StepBy(c, label, r),
           Persist(spaces, spaces', codebases, codebases'),
           RequestOK(label, r, spaces', codebases'),
           ~concurrent' => CleanedUp(label, r, codebases', cluster') /\ DeletedAreEmpty(spaces', codebases')
    PROVE  RequestsOK' /\ Undisturbed'
<1>1. \A b \in DOMAIN codebases : codebases[b].space \in DOMAIN spaces
  BY DEF SpacesInv, SpaceTables, CodebaseRow
<1>2. pc' \in [Clients -> RequestLabels] /\ loc' = [d \in Clients |-> loc'[d]]
  BY DEF SpacesInv, RequestsOK, StepBy
<1>3. /\ pc'[c] = label /\ loc'[c] = r
      /\ \A d \in Clients \ {c} : pc'[d] = pc[d] /\ loc'[d] = loc[d]
  BY DEF SpacesInv, RequestsOK, StepBy
<1>4. \A d \in Clients \ {c} : RequestOK(pc[d], loc[d], spaces', codebases')
  BY <1>1, RequestPersists DEF SpacesInv, RequestsOK
<1>5. RequestsOK'
  BY <1>2, <1>3, <1>4 DEF RequestsOK
<1>6. ASSUME ~concurrent'
      PROVE  /\ \A d, e \in Clients : pc'[d] # "idle" /\ pc'[e] # "idle" => d = e
             /\ \A d \in Clients : CleanedUp(pc'[d], loc'[d], codebases', cluster')
  <2>1. \A d \in Clients \ {c} : pc'[d] = "idle"
    BY <1>3, <1>6 DEF StepBy
  <2>2. \A d \in Clients \ {c} : CleanedUp(pc'[d], loc'[d], codebases', cluster')
    BY <2>1 DEF CleanedUp
  <2> QED  BY <1>3, <1>6, <2>1, <2>2
<1>7. Undisturbed'
  BY <1>6 DEF Undisturbed
<1> QED  BY <1>5, <1>7

LEMMA ArriveSteps ==
    ASSUME SpacesInv, NEW c \in Clients, NEW label, NEW r, Arrive(c, label, r)
    PROVE  StepBy(c, label, r) /\ pc[c] = "idle" /\ unrolled' = unrolled /\ requests' = requests + 1
<1>1. requests' = requests + 1 /\ requests' \in requests..MaxRequests
  BY SpacesAssumption DEF Arrive, Count, SpacesInv, SpaceTables
<1>2. /\ concurrent' \in BOOLEAN
      /\ ~concurrent' => ~concurrent /\ \A d \in Clients \ {c} : pc[d] = "idle"
  BY DEF Arrive, SpacesInv, SpaceTables
<1> QED  BY <1>1, <1>2 DEF Arrive, StepBy

LEMMA GoSteps ==
    ASSUME SpacesInv, NEW c \in Clients, NEW label, NEW r, Go(c, label, r), pc[c] # "idle"
    PROVE  StepBy(c, label, r) /\ requests' = requests /\ concurrent' = concurrent
BY SpacesAssumption DEF Go, StepBy, SpacesInv, SpaceTables, Undisturbed

\* A step that changes no row of spaces and codebases.
LEMMA SameRows ==
    ASSUME SpacesInv, NEW c \in Clients, NEW label \in RequestLabels, NEW r, StepBy(c, label, r),
           spaces' = spaces, codebases' = codebases,
           resources' \subseteq DOMAIN spaces, workspaces' \subseteq Users \X URLs,
           cluster' \in [Users \X SpaceIDs -> SUBSET Objects], unrolled' \in BOOLEAN,
           RequestOK(label, r, spaces, codebases),
           ~concurrent' => CleanedUp(label, r, codebases, cluster'),
           LiveSpacesHaveResources'
    PROVE  Sound
<1>1. Persist(spaces, spaces', codebases, codebases')
  BY DEF Persist
<1>2. ~concurrent' => DeletedAreEmpty(spaces, codebases)
  BY DEF StepBy, SpacesInv, Undisturbed
<1>3. RequestsOK' /\ Undisturbed'
  BY <1>1, <1>2, RequestStep
<1>4. SpaceTables'
  <2>1. requests' \in 0..MaxRequests /\ requests <= requests'
    BY SpacesAssumption DEF StepBy, SpacesInv, SpaceTables
  <2>2. \A s \in DOMAIN spaces : spaces[s].version <= requests'
    BY <2>1 DEF SpacesInv, SpaceTables, SpaceRow
  <2>3. concurrent' \in BOOLEAN
    BY DEF StepBy
  <2> QED  BY <2>1, <2>2, <2>3 DEF SpacesInv, SpaceTables
<1>5. ByOwner
  BY DEF ByOwner, Live
<1> QED  BY <1>1, <1>3, <1>4, <1>5 DEF Sound, SpacesInv

\* Spaces keep their resources when a step removes neither, nor ends a creation.
LEMMA ResourcesKept ==
    ASSUME SpacesInv, NEW c \in Clients, NEW label, NEW r, StepBy(c, label, r),
           pc[c] \notin {"created", "rollback"}, unrolled' = unrolled,
           resources \subseteq resources', Live(spaces') \subseteq Live(spaces)
    PROVE  LiveSpacesHaveResources'
<1> SUFFICES ASSUME ~unrolled, NEW s \in Live(spaces'), s \notin resources'
             PROVE  \E d \in Clients : pc'[d] \in {"created", "rollback"} /\ loc'[d].space = s
  BY DEF LiveSpacesHaveResources
<1>1. PICK d \in Clients : pc[d] \in {"created", "rollback"} /\ loc[d].space = s
  BY DEF SpacesInv, LiveSpacesHaveResources
<1>2. pc'[d] = pc[d] /\ loc'[d] = loc[d]
  BY <1>1 DEF StepBy, SpacesInv, RequestsOK
<1> QED  BY <1>1, <1>2

LEMMA IdleOK ==
    ASSUME NEW sp, NEW cb, NEW cl
    PROVE  /\ Idle \in LocalRec(sp) /\ "idle" \in RequestLabels
           /\ RequestOK("idle", Idle, sp, cb) /\ CleanedUp("idle", Idle, cb, cl)
<1>1. Idle \in LocalRec(sp)
  BY DEF Idle, LocalRec
<1> QED  BY <1>1 DEF RequestOK, CleanedUp, RequestLabels

\* A request that ends after a step that changes no row.
LEMMA SameRowsEnd ==
    ASSUME SpacesInv, NEW c \in Clients, EndRequest(c), pc[c] # "idle",
           spaces' = spaces, codebases' = codebases,
           resources' \subseteq DOMAIN spaces, workspaces' \subseteq Users \X URLs,
           cluster' \in [Users \X SpaceIDs -> SUBSET Objects], unrolled' \in BOOLEAN,
           LiveSpacesHaveResources'
    PROVE  Sound
<1>1. StepBy(c, "idle", Idle)
  BY GoSteps DEF EndRequest
<1> QED  BY <1>1, IdleOK, SameRows

-------------------------------------------------------------------------------
(* Requests that arrive *)

LEMMA DeleteSpaceSound ==
    ASSUME SpacesInv, NEW c \in Clients, NEW u \in Users, NEW s \in SpaceIDs, NEW skip \in BOOLEAN,
           DeleteSpace(c, u, s, skip)
    PROVE  Sound
<1> DEFINE r == [Idle EXCEPT !.user = u, !.space = s, !.skip = skip]
<1>1. StepBy(c, "list", r) /\ pc[c] = "idle" /\ unrolled' = unrolled
  BY ArriveSteps DEF DeleteSpace
<1>2. RequestOK("list", r, spaces, codebases) /\ "list" \in RequestLabels
  BY DEF RequestOK, LocalRec, Idle, RequestLabels
<1>3. CleanedUp("list", r, codebases, cluster')
  BY DEF CleanedUp
<1>4. UNCHANGED <<spaces, codebases, resources, workspaces, cluster>>
  BY DEF DeleteSpace, stored
<1> HIDE DEF r
<1>5. LiveSpacesHaveResources'
  BY <1>1, <1>4, ResourcesKept
<1> QED  BY <1>1, <1>2, <1>3, <1>4, <1>5, SameRows DEF SpacesInv, SpaceTables

LEMMA DeleteCodebaseSound ==
    ASSUME SpacesInv, NEW c \in Clients, NEW u \in Users, NEW b \in CodebaseIDs, DeleteCodebase(c, u, b)
    PROVE  Sound
<1> DEFINE r == [Idle EXCEPT !.user = u, !.todo = {b}, !.direct = TRUE]
<1>1. StepBy(c, "codebases", r) /\ pc[c] = "idle" /\ unrolled' = unrolled
  BY ArriveSteps DEF DeleteCodebase
<1>2. RequestOK("codebases", r, spaces, codebases) /\ "codebases" \in RequestLabels
  BY DEF RequestOK, LocalRec, Idle, RequestLabels
<1>3. CleanedUp("codebases", r, codebases, cluster')
  BY DEF CleanedUp, Idle
<1>4. UNCHANGED <<spaces, codebases, resources, workspaces, cluster>>
  BY DEF DeleteCodebase, stored
<1> HIDE DEF r
<1>5. LiveSpacesHaveResources'
  BY <1>1, <1>4, ResourcesKept
<1> QED  BY <1>1, <1>2, <1>3, <1>4, <1>5, SameRows DEF SpacesInv, SpaceTables

\* Loading a codebase, for the three requests that save it later.
LEMMA CopySound ==
    ASSUME SpacesInv, NEW c \in Clients, NEW u \in Users, NEW b \in Live(codebases),
           NEW label \in {"create", "open", "save"}, NEW copy \in CodebaseRow(spaces),
           copy.live, copy.space = codebases[b].space,
           Arrive(c, label, [Idle EXCEPT !.user = u, !.codebase = b, !.copy = copy]),
           UNCHANGED stored
    PROVE  Sound
<1> DEFINE r == [Idle EXCEPT !.user = u, !.codebase = b, !.copy = copy]
<1>1. StepBy(c, label, r) /\ pc[c] = "idle" /\ unrolled' = unrolled
  BY ArriveSteps
<1>2. b \in DOMAIN codebases /\ b \in CodebaseIDs
  BY DEF Live, SpacesInv, SpaceTables
<1>3. r \in LocalRec(spaces) /\ r.user = u /\ r.codebase = b /\ r.copy = copy
  BY <1>2 DEF LocalRec, Idle
<1> HIDE DEF r
<1>4. RequestOK(label, r, spaces, codebases) /\ label \in RequestLabels
  BY <1>2, <1>3 DEF RequestOK, RequestLabels
<1>5. CleanedUp(label, r, codebases, cluster')
  BY DEF CleanedUp
<1>6. UNCHANGED <<spaces, codebases, resources, workspaces, cluster>>
  BY DEF stored
<1>7. LiveSpacesHaveResources'
  BY <1>1, <1>6, ResourcesKept
<1> QED  BY <1>1, <1>4, <1>5, <1>6, <1>7, SameRows DEF SpacesInv, SpaceTables

LEMMA UpdateCodebaseSound ==
    ASSUME SpacesInv, NEW c \in Clients, NEW u \in Users, NEW b \in CodebaseIDs, UpdateCodebase(c, u, b)
    PROVE  Sound
<1> DEFINE copy == [codebases[b] EXCEPT !.stack = 1]
<1>1. b \in Live(codebases) /\ codebases[b] \in CodebaseRow(spaces) /\ codebases[b].live
  BY DEF UpdateCodebase, VerifyCodebaseOwner, Live, SpacesInv, SpaceTables
<1>2. copy \in CodebaseRow(spaces) /\ copy.live /\ copy.space = codebases[b].space
  BY <1>1 DEF CodebaseRow
<1> HIDE DEF copy
<1>3. Arrive(c, "save", [Idle EXCEPT !.user = u, !.codebase = b, !.copy = copy]) /\ UNCHANGED stored
  BY DEF UpdateCodebase, copy
<1> QED  BY <1>1, <1>2, <1>3, CopySound

LEMMA LoadCodebaseSound ==
    ASSUME SpacesInv, NEW c \in Clients, NEW u \in Users, NEW b \in CodebaseIDs,
           NEW label \in {"create", "open"}, LoadCodebase(c, u, b, label)
    PROVE  Sound
<1>1. b \in Live(codebases) /\ codebases[b] \in CodebaseRow(spaces) /\ codebases[b].live
  BY DEF LoadCodebase, Live, SpacesInv, SpaceTables
<1>2. /\ Arrive(c, label, [Idle EXCEPT !.user = u, !.codebase = b, !.copy = codebases[b]])
      /\ UNCHANGED stored
  BY DEF LoadCodebase
<1> QED  BY <1>1, <1>2, CopySound

-------------------------------------------------------------------------------
(* Deleting a space *)

LEMMA CodebasesFinite ==
    ASSUME SpacesInv, NEW s
    PROVE  /\ IsFiniteSet(CodebasesIn(codebases, s)) /\ IsFiniteSet(LiveIn(codebases, s))
           /\ LiveIn(codebases, s) \subseteq CodebasesIn(codebases, s)
           /\ Cardinality(LiveIn(codebases, s)) \in Nat /\ Cardinality(CodebasesIn(codebases, s)) \in Nat
           /\ Cardinality(LiveIn(codebases, s)) <= Cardinality(CodebasesIn(codebases, s))
<1>1. IsFiniteSet(CodebaseIDs)
  BY SpacesAssumption
<1>2. CodebasesIn(codebases, s) \subseteq CodebaseIDs
  BY DEF CodebasesIn, SpacesInv, SpaceTables
<1>3. LiveIn(codebases, s) \subseteq CodebasesIn(codebases, s)
  BY DEF LiveIn, CodebasesIn
<1>4. IsFiniteSet(CodebasesIn(codebases, s))
  BY <1>1, <1>2, FS_Subset
<1>5. /\ IsFiniteSet(LiveIn(codebases, s))
      /\ Cardinality(LiveIn(codebases, s)) <= Cardinality(CodebasesIn(codebases, s))
  BY <1>3, <1>4, FS_Subset
<1> QED  BY <1>3, <1>4, <1>5, FS_CardinalityType

\* A page has all live codebases, unless they do not fit on it.
LEMMA PageComplete ==
    ASSUME SpacesInv, NEW s, NEW listed \in ListPage(s)
    PROVE  listed \subseteq CodebaseIDs /\ (LiveIn(codebases, s) \subseteq listed \/ Overflows(codebases, s))
<1> DEFINE all == LiveIn(codebases, s)
<1>1. {b \in Live(codebases) : codebases[b].space = s} = all
  BY DEF Live, LiveIn
<1>2. listed \subseteq all /\ Cardinality(listed) = Min({PageLimit, Cardinality(all)})
  BY <1>1 DEF ListPage, kSubset
<1>3. listed \subseteq CodebaseIDs
  BY <1>2 DEF LiveIn, SpacesInv, SpaceTables
<1>4. CASE Cardinality(all) > PageLimit
  BY <1>3, <1>4, CodebasesFinite, SpacesAssumption DEF Overflows
<1>5. CASE ~(Cardinality(all) > PageLimit)
  <2>1. Cardinality(all) \in Nat /\ PageLimit \in Nat
    BY CodebasesFinite, SpacesAssumption
  <2>2. Min({PageLimit, Cardinality(all)}) = Cardinality(all)
    BY <1>5, <2>1 DEF Min
  <2>3. listed = all
    BY <1>2, <2>2, CodebasesFinite, FS_Subset
  <2> QED  BY <1>3, <2>3
<1> QED  BY <1>4, <1>5

LEMMA ListCodebasesSound ==
    ASSUME SpacesInv, NEW c \in Clients, ListCodebases(c)
    PROVE  Sound
<1>1. UNCHANGED <<spaces, codebases, resources, workspaces, cluster>> /\ unrolled' = unrolled
  BY DEF ListCodebases, stored
<1>2. pc[c] = "list" /\ RequestOK("list", loc[c], spaces, codebases)
  BY DEF ListCodebases, SpacesInv, RequestsOK
<1>3. CASE EndRequest(c)
  <2>1. StepBy(c, "idle", Idle)
    BY <1>2, <1>3, GoSteps DEF EndRequest
  <2>2. LiveSpacesHaveResources'
    BY <1>1, <1>2, <2>1, ResourcesKept
  <2> QED  BY <1>1, <1>2, <1>3, <2>2, SameRowsEnd DEF SpacesInv, SpaceTables
<1>4. ASSUME NEW listed \in ListPage(loc[c].space), Go(c, "codebases", [loc[c] EXCEPT !.todo = listed])
      PROVE  Sound
  <2> DEFINE r == [loc[c] EXCEPT !.todo = listed]
  <2>1. StepBy(c, "codebases", r)
    BY <1>2, <1>4, GoSteps
  <2>2. listed \subseteq CodebaseIDs
        /\ (LiveIn(codebases, loc[c].space) \subseteq listed \/ Overflows(codebases, loc[c].space))
    BY PageComplete
  <2>3. /\ r \in LocalRec(spaces) /\ r.user = loc[c].user /\ r.space = loc[c].space /\ r.todo = listed
    BY <1>2, <2>2 DEF RequestOK, LocalRec
  <2> HIDE DEF r
  <2>4. RequestOK("codebases", r, spaces, codebases) /\ "codebases" \in RequestLabels
    BY <1>2, <2>3 DEF RequestOK, RequestLabels
  <2>5. CleanedUp("codebases", r, codebases, cluster')
    BY <2>2, <2>3 DEF CleanedUp
  <2>6. LiveSpacesHaveResources'
    BY <1>1, <1>2, <2>1, ResourcesKept
  <2> QED  BY <1>1, <2>1, <2>4, <2>5, <2>6, SameRows DEF SpacesInv, SpaceTables
<1> QED  BY <1>3, <1>4 DEF ListCodebases

LEMMA DeleteWorkspacesSound ==
    ASSUME SpacesInv, NEW c \in Clients, NEW b \in CodebaseIDs, DeleteWorkspaces(c, b)
    PROVE  Sound
<1>1. /\ UNCHANGED <<spaces, codebases, resources, cluster>> /\ unrolled' = unrolled
      /\ workspaces' \subseteq Users \X URLs
  BY DEF DeleteWorkspaces, SpacesInv, SpaceTables
<1>2. pc[c] = "codebases" /\ RequestOK("codebases", loc[c], spaces, codebases)
  BY DEF DeleteWorkspaces, SpacesInv, RequestsOK
<1>3. ~concurrent => CleanedUp("codebases", loc[c], codebases, cluster)
  BY <1>2 DEF SpacesInv, Undisturbed
<1>4. CASE Skip(c, b)
  <2> DEFINE r == [loc[c] EXCEPT !.todo = @ \ {b}, !.failed = TRUE]
  <2>1. StepBy(c, "codebases", r)
    BY <1>2, <1>4, GoSteps DEF Skip
  <2>2. /\ r \in LocalRec(spaces) /\ r.user = loc[c].user /\ r.space = loc[c].space /\ r.failed
        /\ r.direct = loc[c].direct
    BY <1>2 DEF RequestOK, LocalRec
  <2> HIDE DEF r
  <2>3. RequestOK("codebases", r, spaces, codebases) /\ "codebases" \in RequestLabels
    BY <1>2, <2>2 DEF RequestOK, RequestLabels
  <2>4. CleanedUp("codebases", r, codebases, cluster')
    BY <2>2 DEF CleanedUp
  <2>5. LiveSpacesHaveResources'
    BY <1>1, <1>2, <2>1, ResourcesKept
  <2> QED  BY <1>1, <2>1, <2>3, <2>4, <2>5, SameRows DEF SpacesInv, SpaceTables
<1>5. CASE VerifyCodebaseOwner(loc[c].user, b) /\ Go(c, "codebase", [loc[c] EXCEPT !.codebase = b])
  <2> DEFINE r == [loc[c] EXCEPT !.codebase = b]
  <2>1. StepBy(c, "codebase", r) /\ concurrent' = concurrent
    BY <1>2, <1>5, GoSteps
  <2>2. /\ r \in LocalRec(spaces) /\ r.user = loc[c].user /\ r.space = loc[c].space /\ r.failed = loc[c].failed
        /\ r.direct = loc[c].direct /\ r.todo = loc[c].todo /\ r.codebase = b
    BY <1>2 DEF RequestOK, LocalRec
  <2>3. b \in DOMAIN codebases /\ OwnedBy(spaces, codebases[b].space, loc[c].user)
    BY <1>5 DEF VerifyCodebaseOwner, Owns, SpaceLive, Live, OwnedBy
  <2> HIDE DEF r
  <2>4. RequestOK("codebase", r, spaces, codebases) /\ "codebase" \in RequestLabels
    BY <1>2, <2>2, <2>3 DEF RequestOK, RequestLabels
  <2>5. ~concurrent' => CleanedUp("codebase", r, codebases, cluster')
    BY <1>3, <2>1, <2>2 DEF CleanedUp
  <2>6. LiveSpacesHaveResources'
    BY <1>1, <1>2, <2>1, ResourcesKept
  <2> QED  BY <1>1, <2>1, <2>4, <2>5, <2>6, SameRows DEF SpacesInv, SpaceTables
<1> QED  BY <1>4, <1>5 DEF DeleteWorkspaces

LEMMA CodebasesDeletedSound ==
    ASSUME SpacesInv, NEW c \in Clients, CodebasesDeleted(c)
    PROVE  Sound
<1>1. UNCHANGED <<spaces, codebases, resources, workspaces, cluster>> /\ unrolled' = unrolled
  BY DEF CodebasesDeleted, stored
<1>2. /\ pc[c] = "codebases" /\ RequestOK("codebases", loc[c], spaces, codebases) /\ loc[c].todo = {}
      /\ ~concurrent => CleanedUp("codebases", loc[c], codebases, cluster)
  BY DEF CodebasesDeleted, SpacesInv, RequestsOK, Undisturbed
<1>3. CASE EndRequest(c)
  <2>1. StepBy(c, "idle", Idle)
    BY <1>2, <1>3, GoSteps DEF EndRequest
  <2>2. LiveSpacesHaveResources'
    BY <1>1, <1>2, <2>1, ResourcesKept
  <2> QED  BY <1>1, <1>2, <1>3, <2>2, SameRowsEnd DEF SpacesInv, SpaceTables
<1>4. CASE ~loc[c].direct /\ ~loc[c].failed /\ Go(c, IF loc[c].skip THEN "row" ELSE "cluster", loc[c])
  <2>1. PICK label \in {"row", "cluster"} : label = (IF loc[c].skip THEN "row" ELSE "cluster")
    OBVIOUS
  <2>2. StepBy(c, label, loc[c]) /\ concurrent' = concurrent
    BY <1>2, <1>4, <2>1, GoSteps
  <2>3. RequestOK(label, loc[c], spaces, codebases) /\ label \in RequestLabels
    BY <1>2, <1>4, <2>1 DEF RequestOK, RequestLabels
  <2>4. ~concurrent' => CleanedUp(label, loc[c], codebases, cluster')
    BY <1>1, <1>2, <1>4, <2>1, <2>2 DEF CleanedUp
  <2>5. LiveSpacesHaveResources'
    BY <1>1, <1>2, <2>2, ResourcesKept
  <2> QED  BY <1>1, <2>2, <2>3, <2>4, <2>5, SameRows DEF SpacesInv, SpaceTables
<1> QED  BY <1>3, <1>4 DEF CodebasesDeleted

LEMMA UndeployResult ==
    ASSUME SpacesInv, NEW k \in Users \X SpaceIDs
    PROVE  /\ Undeploy(k) => cluster' \in [Users \X SpaceIDs -> SUBSET Objects] /\ "dc" \notin cluster'[k]
           /\ UndeployFails(k) => cluster' \in [Users \X SpaceIDs -> SUBSET Objects]
<1>1. cluster \in [Users \X SpaceIDs -> SUBSET Objects] /\ cluster[k] \subseteq Objects
  BY DEF SpacesInv, SpaceTables
<1>2. Undeploy(k) => \E left \in SUBSET (Objects \ {"dc"}) : cluster' = [cluster EXCEPT ![k] = left]
  BY <1>1 DEF Undeploy, LeftBehind
<1>3. UndeployFails(k) => \E left \in SUBSET Objects : cluster' = [cluster EXCEPT ![k] = left]
  BY <1>1 DEF UndeployFails, LeftBehind
<1> QED  BY <1>1, <1>2, <1>3

LEMMA DeleteDeploymentsSound ==
    ASSUME SpacesInv, NEW c \in Clients, DeleteDeployments(c)
    PROVE  Sound
<1>1. UNCHANGED <<spaces, codebases, resources, workspaces>> /\ unrolled' = unrolled
  BY DEF DeleteDeployments
<1>2. /\ pc[c] = "cluster" /\ RequestOK("cluster", loc[c], spaces, codebases)
      /\ ~concurrent => CleanedUp("cluster", loc[c], codebases, cluster)
  BY DEF DeleteDeployments, SpacesInv, RequestsOK, Undisturbed
<1>3. PICK k \in Users \X SpaceIDs : k = <<loc[c].user, loc[c].space>>
  BY <1>2 DEF RequestOK
<1>4. cluster' \in [Users \X SpaceIDs -> SUBSET Objects]
  BY <1>3, UndeployResult DEF DeleteDeployments, SpacesInv, SpaceTables
<1>5. CASE EndRequest(c)
  <2>1. StepBy(c, "idle", Idle)
    BY <1>2, <1>5, GoSteps DEF EndRequest
  <2>2. LiveSpacesHaveResources'
    BY <1>1, <1>2, <2>1, ResourcesKept
  <2> QED  BY <1>1, <1>2, <1>4, <1>5, <2>2, SameRowsEnd DEF SpacesInv, SpaceTables
<1>6. CASE Go(c, "row", loc[c]) /\ "dc" \notin cluster'[k]
  <2>1. StepBy(c, "row", loc[c]) /\ concurrent' = concurrent
    BY <1>2, <1>6, GoSteps
  <2>2. RequestOK("row", loc[c], spaces, codebases) /\ "row" \in RequestLabels
    BY <1>2 DEF RequestOK, RequestLabels
  <2>3. ~concurrent' => CleanedUp("row", loc[c], codebases, cluster')
    BY <1>2, <1>3, <1>6, <2>1 DEF CleanedUp
  <2>4. LiveSpacesHaveResources'
    BY <1>1, <1>2, <2>1, ResourcesKept
  <2> QED  BY <1>1, <1>4, <2>1, <2>2, <2>3, <2>4, SameRows DEF SpacesInv, SpaceTables
<1> QED  BY <1>3, <1>5, <1>6, UndeployResult DEF DeleteDeployments, Listed

\* Deleting the row of a space.
LEMMA RowDeleted ==
    ASSUME SpacesInv, NEW s, DeleteSpaceRow(s), codebases' = codebases, requests' = requests
    PROVE  /\ DOMAIN spaces' = DOMAIN spaces /\ spaces' \in [DOMAIN spaces -> SpaceRow]
           /\ \A t \in DOMAIN spaces : spaces'[t].version <= requests'
           /\ Persist(spaces, spaces', codebases, codebases')
           /\ s \in DOMAIN spaces /\ ~spaces'[s].live
           /\ \A t \in DOMAIN spaces \ {s} : spaces'[t] = spaces[t]
           /\ CodebaseRow(spaces') = CodebaseRow(spaces)
<1>1. s \in DOMAIN spaces /\ spaces[s] \in SpaceRow /\ spaces' = [spaces EXCEPT ![s].live = FALSE]
  BY DEF DeleteSpaceRow, SpaceLive, Live, SpacesInv, SpaceTables
<1>2. PICK row : row = [spaces[s] EXCEPT !.live = FALSE]
  OBVIOUS
<1>3. /\ row \in SpaceRow /\ ~row.live /\ row.version = spaces[s].version /\ row.owner = spaces[s].owner
  BY <1>1, <1>2 DEF SpaceRow
<1>4. DOMAIN spaces' = DOMAIN spaces /\ spaces'[s] = row /\ \A t \in DOMAIN spaces \ {s} : spaces'[t] = spaces[t]
  BY <1>1, <1>2 DEF SpacesInv, SpaceTables
<1>5. spaces' \in [DOMAIN spaces -> SpaceRow]
  BY <1>1, <1>2, <1>3 DEF SpacesInv, SpaceTables
<1>6. \A t \in DOMAIN spaces : spaces'[t].version = spaces[t].version
  BY <1>3, <1>4
<1>7. \A t \in DOMAIN spaces : spaces'[t].version <= requests'
  BY <1>6 DEF SpacesInv, SpaceTables
<1>8. Persist(spaces, spaces', codebases, codebases')
  BY <1>3, <1>4 DEF Persist
<1> QED  BY <1>1, <1>3, <1>4, <1>5, <1>7, <1>8 DEF CodebaseRow

LEMMA DeleteRowSound ==
    ASSUME SpacesInv, NEW c \in Clients, DeleteRow(c)
    PROVE  Sound
<1>1. UNCHANGED <<codebases, resources, workspaces, cluster>> /\ unrolled' = unrolled
  BY DEF DeleteRow
<1>2. /\ pc[c] = "row" /\ RequestOK("row", loc[c], spaces, codebases)
      /\ ~concurrent => CleanedUp("row", loc[c], codebases, cluster)
  BY DEF DeleteRow, SpacesInv, RequestsOK, Undisturbed
<1>3. CASE spaces' = spaces /\ EndRequest(c)
  <2>1. StepBy(c, "idle", Idle)
    BY <1>2, <1>3, GoSteps DEF EndRequest
  <2>2. LiveSpacesHaveResources'
    BY <1>1, <1>2, <1>3, <2>1, ResourcesKept
  <2> QED  BY <1>1, <1>2, <1>3, <2>2, SameRowsEnd DEF SpacesInv, SpaceTables
<1>4. CASE Owns(loc[c].user, loc[c].space) /\ DeleteSpaceRow(loc[c].space) /\ Go(c, "resource", loc[c])
  <2>1. StepBy(c, "resource", loc[c]) /\ concurrent' = concurrent /\ requests' = requests
    BY <1>2, <1>4, GoSteps
  <2>2. PICK s : s = loc[c].space
    OBVIOUS
  <2>3. /\ DOMAIN spaces' = DOMAIN spaces /\ spaces' \in [DOMAIN spaces -> SpaceRow]
        /\ \A t \in DOMAIN spaces : spaces'[t].version <= requests'
        /\ Persist(spaces, spaces', codebases, codebases')
        /\ s \in DOMAIN spaces /\ ~spaces'[s].live
        /\ \A t \in DOMAIN spaces \ {s} : spaces'[t] = spaces[t]
        /\ CodebaseRow(spaces') = CodebaseRow(spaces)
    BY <1>1, <1>4, <2>1, <2>2, RowDeleted
  <2>4. OwnedBy(spaces, s, loc[c].user)
    BY <1>4, <2>2, <2>3 DEF Owns, OwnedBy
  <2>5. RequestOK("resource", loc[c], spaces', codebases') /\ "resource" \in RequestLabels
    <3>1. loc[c] \in LocalRec(spaces')
      BY <1>2, <2>3 DEF RequestOK, LocalRec
    <3>2. OwnedBy(spaces', s, loc[c].user)
      BY <2>3, <2>4 DEF OwnedBy, Persist
    <3> QED  BY <1>2, <2>2, <2>3, <3>1, <3>2 DEF RequestOK, RequestLabels
  <2>6. ASSUME ~concurrent'
        PROVE  CleanedUp("resource", loc[c], codebases', cluster') /\ DeletedAreEmpty(spaces', codebases')
    <3>1. CleanedUp("row", loc[c], codebases, cluster) /\ DeletedAreEmpty(spaces, codebases)
      BY <1>2, <2>1, <2>6 DEF SpacesInv, Undisturbed
    <3>2. LiveIn(codebases, s) = {} \/ Overflows(codebases, s)
      BY <2>2, <3>1 DEF CleanedUp
    <3>3. DeletedAreEmpty(spaces', codebases)
      BY <2>3, <3>1, <3>2 DEF DeletedAreEmpty
    <3> QED  BY <1>1, <3>1, <3>3 DEF CleanedUp
  <2>7. RequestsOK' /\ Undisturbed'
    BY <2>1, <2>3, <2>5, <2>6, RequestStep
  <2>8. Live(spaces') \subseteq Live(spaces)
    BY <2>3 DEF Live, Persist
  <2>9. LiveSpacesHaveResources'
    BY <1>1, <1>2, <2>1, <2>8, ResourcesKept
  <2>10. SpaceTables'
    BY <1>1, <2>1, <2>3 DEF SpacesInv, SpaceTables
  <2>11. ByOwner
    <3>1. Live(spaces) \ Live(spaces') \subseteq {s} /\ Live(codebases') = Live(codebases)
      BY <1>1, <2>3 DEF Live
    <3> QED  BY <1>2, <2>4, <3>1 DEF ByOwner, OwnedBy, Live
  <2> QED  BY <2>3, <2>7, <2>9, <2>10, <2>11 DEF Sound, SpacesInv
<1> QED  BY <1>3, <1>4 DEF DeleteRow

LEMMA DeleteResourceSound ==
    ASSUME SpacesInv, NEW c \in Clients, DeleteResource(c)
    PROVE  Sound
<1>1. UNCHANGED <<spaces, codebases, workspaces, cluster>> /\ unrolled' = unrolled /\ EndRequest(c)
  BY DEF DeleteResource
<1>2. pc[c] = "resource" /\ RequestOK("resource", loc[c], spaces, codebases)
  BY DEF DeleteResource, SpacesInv, RequestsOK
<1>3. PICK s : s = loc[c].space
  OBVIOUS
<1>4. resources' \subseteq resources /\ resources \ {s} \subseteq resources' /\ s \notin Live(spaces)
  BY <1>2, <1>3 DEF DeleteResource, RequestOK, Live
<1>5. StepBy(c, "idle", Idle)
  BY <1>1, <1>2, GoSteps DEF EndRequest
<1>6. LiveSpacesHaveResources'
  <2> SUFFICES ASSUME ~unrolled, NEW t \in Live(spaces), t \notin resources'
               PROVE  \E d \in Clients : pc'[d] \in {"created", "rollback"} /\ loc'[d].space = t
    BY <1>1 DEF LiveSpacesHaveResources
  <2>1. PICK d \in Clients : pc[d] \in {"created", "rollback"} /\ loc[d].space = t
    BY <1>4 DEF SpacesInv, LiveSpacesHaveResources
  <2>2. pc'[d] = pc[d] /\ loc'[d] = loc[d]
    BY <1>2, <1>5, <2>1 DEF StepBy, SpacesInv, RequestsOK
  <2> QED  BY <2>1, <2>2
<1> QED  BY <1>1, <1>2, <1>4, <1>6, SameRowsEnd DEF SpacesInv, SpaceTables

-------------------------------------------------------------------------------
(* Creating and updating spaces *)

LEMMA CreateSpaceSound ==
    ASSUME SpacesInv, NEW c \in Clients, NEW u \in Users, NEW s \in SpaceIDs, NEW n \in SpaceNames,
           CreateSpace(c, u, s, n)
    PROVE  Sound
<1> DEFINE r == [Idle EXCEPT !.user = u, !.space = s]
<1>1. UNCHANGED <<codebases, resources, workspaces, cluster>> /\ s \notin DOMAIN spaces
  BY DEF CreateSpace
<1>2. StepBy(c, "created", r) /\ pc[c] = "idle" /\ unrolled' = unrolled /\ requests' = requests + 1
  BY ArriveSteps DEF CreateSpace
<1>3. /\ DOMAIN spaces' = DOMAIN spaces \cup {s} /\ spaces'[s] = NewSpace(u, n)
      /\ \A t \in DOMAIN spaces : spaces'[t] = spaces[t]
      /\ spaces' = [x \in DOMAIN spaces \cup {s} |-> spaces'[x]]
  BY DEF CreateSpace
<1>4. NewSpace(u, n) \in SpaceRow /\ NewSpace(u, n).owner = u /\ NewSpace(u, n).live /\ NewSpace(u, n).version = 0
  BY SpacesAssumption DEF NewSpace, SpaceRow
<1>5. Persist(spaces, spaces', codebases, codebases')
  BY <1>1, <1>3 DEF Persist
<1>6. CodebaseRow(spaces) \subseteq CodebaseRow(spaces')
  BY <1>3 DEF CodebaseRow
<1>7. SpaceTables'
  <2>1. spaces' \in [DOMAIN spaces' -> SpaceRow]
    BY <1>3, <1>4 DEF SpacesInv, SpaceTables
  <2>2. requests \in Nat /\ requests' \in 0..MaxRequests
    BY <1>2, SpacesAssumption DEF StepBy, SpacesInv, SpaceTables
  <2>3. \A t \in DOMAIN spaces : spaces[t].version \in Nat /\ spaces[t].version <= requests
    BY DEF SpacesInv, SpaceTables, SpaceRow
  <2>4. \A t \in DOMAIN spaces' : spaces'[t].version <= requests'
    BY <1>2, <1>3, <1>4, <2>2, <2>3
  <2>5. DOMAIN spaces' \subseteq SpaceIDs /\ resources' \subseteq DOMAIN spaces'
    BY <1>1, <1>3 DEF SpacesInv, SpaceTables
  <2>6. codebases' \in [DOMAIN codebases' -> CodebaseRow(spaces')]
    BY <1>1, <1>6 DEF SpacesInv, SpaceTables
  <2>7. concurrent' \in BOOLEAN /\ unrolled' \in BOOLEAN
    BY <1>2 DEF StepBy, SpacesInv, SpaceTables
  <2> QED  BY <1>1, <2>1, <2>2, <2>4, <2>5, <2>6, <2>7 DEF SpacesInv, SpaceTables
<1>8. r \in LocalRec(spaces') /\ r.user = u /\ r.space = s
  BY DEF LocalRec, Idle
<1> HIDE DEF r
<1>9. RequestOK("created", r, spaces', codebases') /\ "created" \in RequestLabels
  BY <1>3, <1>4, <1>8 DEF RequestOK, OwnedBy, RequestLabels
<1>10. ASSUME ~concurrent'
       PROVE  CleanedUp("created", r, codebases', cluster') /\ DeletedAreEmpty(spaces', codebases')
  <2>1. LiveIn(codebases, s) = {}
    BY <1>1 DEF LiveIn, SpacesInv, SpaceTables, CodebaseRow
  <2>2. DeletedAreEmpty(spaces, codebases)
    BY <1>2, <1>10 DEF StepBy, SpacesInv, Undisturbed
  <2> QED  BY <1>1, <1>3, <1>4, <1>8, <2>1, <2>2 DEF CleanedUp, DeletedAreEmpty
<1>11. RequestsOK' /\ Undisturbed'
  BY <1>2, <1>5, <1>9, <1>10, RequestStep
<1>12. LiveSpacesHaveResources'
  <2> SUFFICES ASSUME ~unrolled, NEW t \in Live(spaces'), t \notin resources
               PROVE  \E d \in Clients : pc'[d] \in {"created", "rollback"} /\ loc'[d].space = t
    BY <1>1, <1>2 DEF LiveSpacesHaveResources
  <2>1. CASE t = s
    BY <1>2, <1>8, <2>1 DEF StepBy, SpacesInv, RequestsOK
  <2>2. CASE t # s
    <3>1. t \in Live(spaces)
      BY <1>3, <2>2 DEF Live
    <3>2. PICK d \in Clients : pc[d] \in {"created", "rollback"} /\ loc[d].space = t
      BY <3>1 DEF SpacesInv, LiveSpacesHaveResources
    <3>3. pc'[d] = pc[d] /\ loc'[d] = loc[d]
      BY <1>2, <3>2 DEF StepBy, SpacesInv, RequestsOK
    <3> QED  BY <3>2, <3>3
  <2> QED  BY <2>1, <2>2
<1>13. ByOwner
  BY <1>1, <1>3 DEF ByOwner, Live
<1> QED  BY <1>5, <1>7, <1>11, <1>12, <1>13 DEF Sound, SpacesInv

LEMMA CreateResourceSound ==
    ASSUME SpacesInv, NEW c \in Clients, CreateResource(c)
    PROVE  Sound
<1>1. UNCHANGED <<spaces, codebases, workspaces, cluster>> /\ unrolled' = unrolled
  BY DEF CreateResource
<1>2. /\ pc[c] = "created" /\ RequestOK("created", loc[c], spaces, codebases)
      /\ ~concurrent => CleanedUp("created", loc[c], codebases, cluster)
  BY DEF CreateResource, SpacesInv, RequestsOK, Undisturbed
<1>3. PICK s : s = loc[c].space
  OBVIOUS
<1>4. resources \subseteq resources' /\ resources' \subseteq resources \cup {s} /\ s \in DOMAIN spaces
  BY <1>2, <1>3 DEF CreateResource, RequestOK, OwnedBy
<1>5. CASE EndRequest(c) /\ s \in resources'
  <2>1. StepBy(c, "idle", Idle)
    BY <1>2, <1>5, GoSteps DEF EndRequest
  <2>2. LiveSpacesHaveResources'
    <3> SUFFICES ASSUME ~unrolled, NEW t \in Live(spaces), t \notin resources'
                 PROVE  \E d \in Clients : pc'[d] \in {"created", "rollback"} /\ loc'[d].space = t
      BY <1>1 DEF LiveSpacesHaveResources
    <3>1. PICK d \in Clients : pc[d] \in {"created", "rollback"} /\ loc[d].space = t
      BY <1>4 DEF SpacesInv, LiveSpacesHaveResources
    <3>2. d # c
      BY <1>3, <1>5, <3>1
    <3>3. pc'[d] = pc[d] /\ loc'[d] = loc[d]
      BY <2>1, <3>2 DEF StepBy, SpacesInv, RequestsOK
    <3> QED  BY <3>1, <3>3
  <2> QED  BY <1>1, <1>2, <1>4, <1>5, <2>2, SameRowsEnd DEF SpacesInv, SpaceTables
<1>6. CASE Go(c, "rollback", loc[c])
  <2>1. StepBy(c, "rollback", loc[c]) /\ concurrent' = concurrent
    BY <1>2, <1>6, GoSteps
  <2>2. RequestOK("rollback", loc[c], spaces, codebases) /\ "rollback" \in RequestLabels
    BY <1>2 DEF RequestOK, RequestLabels
  <2>3. ~concurrent' => CleanedUp("rollback", loc[c], codebases, cluster')
    BY <1>2, <2>1 DEF CleanedUp
  <2>4. LiveSpacesHaveResources'
    <3> SUFFICES ASSUME ~unrolled, NEW t \in Live(spaces), t \notin resources'
                 PROVE  \E d \in Clients : pc'[d] \in {"created", "rollback"} /\ loc'[d].space = t
      BY <1>1 DEF LiveSpacesHaveResources
    <3>1. PICK d \in Clients : pc[d] \in {"created", "rollback"} /\ loc[d].space = t
      BY <1>4 DEF SpacesInv, LiveSpacesHaveResources
    <3>2. pc'[d] \in {"created", "rollback"} /\ loc'[d] = loc[d]
      BY <2>1, <3>1 DEF StepBy, SpacesInv, RequestsOK
    <3> QED  BY <3>1, <3>2
  <2>5. resources' \subseteq DOMAIN spaces
    BY <1>4 DEF SpacesInv, SpaceTables
  <2> QED  BY <1>1, <2>1, <2>2, <2>3, <2>4, <2>5, SameRows DEF SpacesInv, SpaceTables
<1> QED  BY <1>3, <1>5, <1>6 DEF CreateResource

LEMMA RollBackSound ==
    ASSUME SpacesInv, NEW c \in Clients, RollBack(c)
    PROVE  Sound
<1>1. UNCHANGED <<codebases, resources, workspaces, cluster>> /\ EndRequest(c)
  BY DEF RollBack
<1>2. /\ pc[c] = "rollback" /\ RequestOK("rollback", loc[c], spaces, codebases)
      /\ ~concurrent => CleanedUp("rollback", loc[c], codebases, cluster)
  BY DEF RollBack, SpacesInv, RequestsOK, Undisturbed
<1>3. PICK s : s = loc[c].space
  OBVIOUS
<1>4. StepBy(c, "idle", Idle) /\ concurrent' = concurrent /\ requests' = requests
  BY <1>1, <1>2, GoSteps DEF EndRequest
<1>5. /\ \A d \in Clients \ {c} : pc'[d] = pc[d] /\ loc'[d] = loc[d]
  BY <1>4 DEF StepBy, SpacesInv, RequestsOK
<1>6. CASE unrolled' = TRUE /\ spaces' = spaces
  <2>1. LiveSpacesHaveResources'
    BY <1>6 DEF LiveSpacesHaveResources
  <2> QED  BY <1>1, <1>2, <1>6, <2>1, SameRowsEnd DEF SpacesInv, SpaceTables
<1>7. ASSUME unrolled' = unrolled, Live(spaces') \subseteq Live(spaces) \ {s}
      PROVE  LiveSpacesHaveResources'
  <2> SUFFICES ASSUME ~unrolled, NEW t \in Live(spaces'), t \notin resources
               PROVE  \E d \in Clients : pc'[d] \in {"created", "rollback"} /\ loc'[d].space = t
    BY <1>1, <1>7 DEF LiveSpacesHaveResources
  <2>1. PICK d \in Clients : pc[d] \in {"created", "rollback"} /\ loc[d].space = t
    BY <1>7 DEF SpacesInv, LiveSpacesHaveResources
  <2>2. d # c
    BY <1>3, <1>7, <2>1
  <2> QED  BY <1>5, <2>1, <2>2
<1>8. CASE unrolled' = unrolled /\ spaces' = spaces /\ ~SpaceLive(s)
  <2>1. LiveSpacesHaveResources'
    BY <1>7, <1>8 DEF SpaceLive
  <2> QED  BY <1>1, <1>2, <1>8, <2>1, SameRowsEnd DEF SpacesInv, SpaceTables
<1>9. CASE unrolled' = unrolled /\ DeleteSpaceRow(s)
  <2>1. /\ DOMAIN spaces' = DOMAIN spaces /\ spaces' \in [DOMAIN spaces -> SpaceRow]
        /\ \A t \in DOMAIN spaces : spaces'[t].version <= requests'
        /\ Persist(spaces, spaces', codebases, codebases')
        /\ s \in DOMAIN spaces /\ ~spaces'[s].live
        /\ \A t \in DOMAIN spaces \ {s} : spaces'[t] = spaces[t]
        /\ CodebaseRow(spaces') = CodebaseRow(spaces)
    BY <1>1, <1>4, <1>9, RowDeleted
  <2>2. LiveSpacesHaveResources'
    <3>1. Live(spaces') \subseteq Live(spaces) \ {s}
      BY <2>1 DEF Live
    <3> QED  BY <1>7, <1>9, <3>1
  <2>3. ASSUME ~concurrent'
        PROVE  DeletedAreEmpty(spaces', codebases')
    <3>1. CleanedUp("rollback", loc[c], codebases, cluster) /\ DeletedAreEmpty(spaces, codebases)
      BY <1>2, <1>4, <2>3 DEF SpacesInv, Undisturbed
    <3>2. LiveIn(codebases, s) = {}
      BY <1>3, <3>1 DEF CleanedUp
    <3> QED  BY <1>1, <2>1, <3>1, <3>2 DEF DeletedAreEmpty
  <2>4. RequestsOK' /\ Undisturbed'
    BY <1>4, <2>1, <2>3, IdleOK, RequestStep
  <2>5. SpaceTables'
    BY <1>1, <1>4, <1>9, <2>1 DEF SpacesInv, SpaceTables
  <2>6. ByOwner
    <3>1. Live(spaces) \ Live(spaces') \subseteq {s} /\ Live(codebases') = Live(codebases)
      BY <1>1, <2>1 DEF Live
    <3> QED  BY <1>2, <1>3, <3>1 DEF ByOwner, RequestOK, OwnedBy, Live
  <2> QED  BY <2>1, <2>2, <2>4, <2>5, <2>6 DEF Sound, SpacesInv
<1> QED  BY <1>3, <1>6, <1>8, <1>9 DEF RollBack

\* A request of a single transaction.
LEMMA SingleStep ==
    ASSUME SpacesInv, pc' = pc, loc' = loc,
           ~concurrent' => ~concurrent /\ \A d \in Clients : pc[d] = "idle",
           Persist(spaces, spaces', codebases, codebases'),
           ~concurrent' => DeletedAreEmpty(spaces', codebases'),
           resources' = resources, unrolled' = unrolled, Live(spaces') \subseteq Live(spaces)
    PROVE  RequestsOK' /\ Undisturbed' /\ LiveSpacesHaveResources'
<1>1. \A b \in DOMAIN codebases : codebases[b].space \in DOMAIN spaces
  BY DEF SpacesInv, SpaceTables, CodebaseRow
<1>2. \A d \in Clients : RequestOK(pc[d], loc[d], spaces', codebases')
  BY <1>1, RequestPersists DEF SpacesInv, RequestsOK
<1>3. RequestsOK'
  BY <1>2 DEF SpacesInv, RequestsOK
<1>4. Undisturbed'
  BY DEF Undisturbed, CleanedUp
<1>5. LiveSpacesHaveResources'
  BY DEF SpacesInv, LiveSpacesHaveResources
<1> QED  BY <1>3, <1>4, <1>5

LEMMA SingleSteps ==
    ASSUME SpacesInv, Count, concurrent' = (concurrent \/ \E o \in Clients : pc[o] # "idle")
    PROVE  /\ requests' = requests + 1 /\ requests' \in 0..MaxRequests /\ requests \in Nat
           /\ concurrent' \in BOOLEAN
           /\ ~concurrent' => ~concurrent /\ \A d \in Clients : pc[d] = "idle"
<1>1. requests' = requests + 1 /\ requests' \in 0..MaxRequests /\ requests \in Nat
  BY SpacesAssumption DEF Count, SpacesInv, SpaceTables
<1>2. /\ concurrent' \in BOOLEAN
      /\ ~concurrent' => ~concurrent /\ \A d \in Clients : pc[d] = "idle"
  BY DEF SpacesInv, SpaceTables
<1> QED  BY <1>1, <1>2

LEMMA UpdateSpaceSound ==
    ASSUME SpacesInv, NEW u \in Users, NEW s \in SpaceIDs, NEW v \in 0..MaxRequests, NEW n \in SpaceNames,
           UpdateSpace(u, s, v, n)
    PROVE  Sound
<1>1. /\ UNCHANGED <<codebases, resources, workspaces, cluster, pc, loc, unrolled>>
      /\ requests' = requests + 1 /\ requests' \in 0..MaxRequests /\ requests \in Nat /\ concurrent' \in BOOLEAN
      /\ ~concurrent' => ~concurrent /\ \A d \in Clients : pc[d] = "idle"
  BY SingleSteps DEF UpdateSpace, Single
<1>2. /\ s \in DOMAIN spaces /\ spaces[s] \in SpaceRow /\ spaces[s].live /\ spaces[s].version = v
      /\ v <= requests
      /\ spaces' = [spaces EXCEPT ![s].version = v + 1, ![s].name = n]
  BY DEF UpdateSpace, SaveSpace, SpaceLive, Live, SpacesInv, SpaceTables
<1>3. PICK row : row = [spaces[s] EXCEPT !.version = v + 1, !.name = n]
  OBVIOUS
<1>4. v + 1 \in 0..MaxRequests /\ v + 1 <= requests'
  BY <1>1, <1>2, SpacesAssumption
<1>5. row \in SpaceRow /\ row.live /\ row.owner = spaces[s].owner /\ row.version = v + 1
  BY <1>2, <1>3, <1>4 DEF SpaceRow
<1>6. /\ DOMAIN spaces' = DOMAIN spaces /\ spaces'[s] = row
      /\ \A t \in DOMAIN spaces \ {s} : spaces'[t] = spaces[t]
      /\ spaces' = [t \in DOMAIN spaces |-> spaces'[t]]
  BY <1>2, <1>3 DEF SpacesInv, SpaceTables
<1>7. Persist(spaces, spaces', codebases, codebases') /\ Live(spaces') = Live(spaces)
  BY <1>1, <1>2, <1>5, <1>6 DEF Persist, Live
<1>8. ~concurrent' => DeletedAreEmpty(spaces', codebases')
  BY <1>1, <1>5, <1>6 DEF DeletedAreEmpty, SpacesInv, Undisturbed
<1>9. RequestsOK' /\ Undisturbed' /\ LiveSpacesHaveResources'
  BY <1>1, <1>7, <1>8, SingleStep
<1>10. SpaceTables'
  <2>1. spaces' \in [DOMAIN spaces' -> SpaceRow]
    BY <1>5, <1>6 DEF SpacesInv, SpaceTables
  <2>2. \A t \in DOMAIN spaces : spaces[t].version \in Nat /\ spaces[t].version <= requests
    BY DEF SpacesInv, SpaceTables, SpaceRow
  <2>3. \A t \in DOMAIN spaces' : spaces'[t].version <= requests'
    BY <1>1, <1>4, <1>5, <1>6, <2>2
  <2>4. CodebaseRow(spaces') = CodebaseRow(spaces)
    BY <1>6 DEF CodebaseRow
  <2> QED  BY <1>1, <1>6, <2>1, <2>3, <2>4 DEF SpacesInv, SpaceTables
<1>11. ByOwner
  BY <1>1, <1>7 DEF ByOwner, Live
<1> QED  BY <1>7, <1>9, <1>10, <1>11 DEF Sound, SpacesInv

\* Objects in the cluster change: no row does.
LEMMA ClusterChange ==
    ASSUME SpacesInv, cluster' \in [Users \X SpaceIDs -> SUBSET Objects], Count,
           concurrent' = (concurrent \/ \E o \in Clients : pc[o] # "idle"),
           UNCHANGED <<spaces, codebases, resources, workspaces, pc, loc, unrolled>>
    PROVE  Sound
<1>1. /\ requests' = requests + 1 /\ requests' \in 0..MaxRequests /\ requests \in Nat /\ concurrent' \in BOOLEAN
      /\ ~concurrent' => ~concurrent /\ \A d \in Clients : pc[d] = "idle"
  BY SingleSteps
<1>2. Persist(spaces, spaces', codebases, codebases')
  BY DEF Persist
<1>3. ~concurrent' => DeletedAreEmpty(spaces', codebases')
  BY <1>1 DEF SpacesInv, Undisturbed
<1>4. RequestsOK' /\ Undisturbed' /\ LiveSpacesHaveResources'
  BY <1>1, <1>2, <1>3, SingleStep
<1>5. SpaceTables'
  <2>1. \A t \in DOMAIN spaces : spaces[t].version \in Nat /\ spaces[t].version <= requests
    BY DEF SpacesInv, SpaceTables, SpaceRow
  <2>2. \A t \in DOMAIN spaces : spaces[t].version <= requests'
    BY <1>1, <2>1
  <2> QED  BY <1>1, <2>2 DEF SpacesInv, SpaceTables
<1>6. ByOwner
  BY DEF ByOwner, Live
<1> QED  BY <1>2, <1>4, <1>5, <1>6 DEF Sound, SpacesInv

LEMMA DeploymentSound ==
    ASSUME SpacesInv, NEW u \in Users, NEW s \in SpaceIDs, DeleteDeployment(u, s) \/ Deploy(u, s)
    PROVE  Sound
<1>1. PICK k \in Users \X SpaceIDs : k = <<u, s>>
  OBVIOUS
<1>2. CASE DeleteDeployment(u, s)
  BY <1>1, <1>2, UndeployResult, ClusterChange DEF DeleteDeployment
<1>3. CASE Deploy(u, s)
  <2>1. cluster' \in [Users \X SpaceIDs -> SUBSET Objects]
    BY <1>3 DEF Deploy, SpacesInv, SpaceTables
  <2> QED  BY <1>3, <2>1, ClusterChange DEF Deploy, Single
<1> QED  BY <1>2, <1>3

-------------------------------------------------------------------------------
(* Codebases *)

LEMMA CreateCodebaseSound ==
    ASSUME SpacesInv, NEW u \in Users, NEW s \in SpaceIDs, NEW url \in URLs, NEW b \in CodebaseIDs,
           CreateCodebase(u, s, url, b)
    PROVE  Sound
<1>1. /\ UNCHANGED <<spaces, resources, workspaces, cluster, pc, loc, unrolled>>
      /\ requests' = requests + 1 /\ requests' \in 0..MaxRequests /\ requests \in Nat /\ concurrent' \in BOOLEAN
      /\ ~concurrent' => ~concurrent /\ \A d \in Clients : pc[d] = "idle"
  BY SingleSteps DEF CreateCodebase, Single
<1>2. s \in DOMAIN spaces /\ spaces[s].live /\ b \notin DOMAIN codebases
  BY DEF CreateCodebase, Owns, SpaceLive, Live
<1>3. /\ DOMAIN codebases' = DOMAIN codebases \cup {b} /\ codebases'[b] = NewCodebase(s, url)
      /\ \A x \in DOMAIN codebases : codebases'[x] = codebases[x]
      /\ codebases' = [x \in DOMAIN codebases \cup {b} |-> codebases'[x]]
  BY <1>2 DEF CreateCodebase
<1>4. NewCodebase(s, url) \in CodebaseRow(spaces) /\ NewCodebase(s, url).space = s
  BY <1>2 DEF NewCodebase, CodebaseRow
<1>5. Persist(spaces, spaces', codebases, codebases')
  BY <1>1, <1>3 DEF Persist
<1>6. \A t \in DOMAIN spaces \ {s} : LiveIn(codebases', t) = LiveIn(codebases, t)
                                     /\ CodebasesIn(codebases', t) = CodebasesIn(codebases, t)
  BY <1>3, <1>4 DEF LiveIn, CodebasesIn
<1>7. ~concurrent' => DeletedAreEmpty(spaces', codebases')
  <2> SUFFICES ASSUME ~concurrent', NEW t \in DOMAIN spaces, ~spaces[t].live
               PROVE  LiveIn(codebases', t) = {} \/ Overflows(codebases', t)
    BY <1>1 DEF DeletedAreEmpty
  <2>1. LiveIn(codebases, t) = {} \/ Overflows(codebases, t)
    BY <1>1 DEF SpacesInv, Undisturbed, DeletedAreEmpty
  <2> QED  BY <1>2, <1>6, <2>1 DEF Overflows
<1>8. RequestsOK' /\ Undisturbed' /\ LiveSpacesHaveResources'
  BY <1>1, <1>5, <1>7, SingleStep
<1>9. SpaceTables'
  <2>1. \A t \in DOMAIN spaces : spaces[t].version \in Nat /\ spaces[t].version <= requests
    BY DEF SpacesInv, SpaceTables, SpaceRow
  <2>2. \A t \in DOMAIN spaces : spaces[t].version <= requests'
    BY <1>1, <2>1
  <2>3. DOMAIN codebases' \subseteq CodebaseIDs /\ codebases' \in [DOMAIN codebases' -> CodebaseRow(spaces)]
    BY <1>3, <1>4 DEF SpacesInv, SpaceTables
  <2> QED  BY <1>1, <2>2, <2>3 DEF SpacesInv, SpaceTables
<1>10. ByOwner
  BY <1>1, <1>3 DEF ByOwner, Live
<1> QED  BY <1>5, <1>8, <1>9, <1>10 DEF Sound, SpacesInv

\* A row of codebases is overwritten by one of the same space.
LEMMA RowOverwritten ==
    ASSUME SpacesInv, NEW b \in DOMAIN codebases, codebases[b].live, NEW row \in CodebaseRow(spaces),
           row.space = codebases[b].space, codebases' = [codebases EXCEPT ![b] = row],
           NEW c \in Clients, NEW label \in RequestLabels, NEW r, StepBy(c, label, r), requests' = requests,
           pc[c] \notin {"created", "rollback"}, concurrent' = concurrent,
           UNCHANGED <<spaces, resources, workspaces, cluster, unrolled>>,
           RequestOK(label, r, spaces, codebases),
           ~concurrent => CleanedUp(label, r, codebases', cluster),
           row.live \/ ByOwner
    PROVE  Sound
<1>1. /\ DOMAIN codebases' = DOMAIN codebases /\ codebases'[b] = row
      /\ \A x \in DOMAIN codebases \ {b} : codebases'[x] = codebases[x]
      /\ codebases' \in [DOMAIN codebases -> CodebaseRow(spaces)]
  BY DEF SpacesInv, SpaceTables
<1>2. Persist(spaces, spaces', codebases, codebases')
  BY <1>1 DEF Persist
<1>3. \A t : LiveIn(codebases', t) \subseteq LiveIn(codebases, t)
             /\ CodebasesIn(codebases', t) = CodebasesIn(codebases, t)
  BY <1>1 DEF LiveIn, CodebasesIn
<1>4. ~concurrent => DeletedAreEmpty(spaces', codebases')
  <2> SUFFICES ASSUME ~concurrent, NEW t \in DOMAIN spaces, ~spaces[t].live
               PROVE  LiveIn(codebases', t) = {} \/ Overflows(codebases', t)
    BY DEF DeletedAreEmpty
  <2>1. LiveIn(codebases, t) = {} \/ Overflows(codebases, t)
    BY DEF SpacesInv, Undisturbed, DeletedAreEmpty
  <2> QED  BY <1>3, <2>1 DEF Overflows
<1>5. \A x \in DOMAIN codebases : codebases[x].space \in DOMAIN spaces
  BY DEF SpacesInv, SpaceTables, CodebaseRow
<1>6. RequestOK(label, r, spaces', codebases')
  BY <1>2, <1>5, RequestPersists
<1>7. RequestsOK' /\ Undisturbed'
  BY <1>2, <1>4, <1>6, RequestStep
<1>8. LiveSpacesHaveResources'
  BY ResourcesKept
<1>9. SpaceTables'
  BY <1>1 DEF SpacesInv, SpaceTables, StepBy
<1>10. ByOwner
  BY <1>1 DEF ByOwner, Live
<1> QED  BY <1>2, <1>7, <1>8, <1>9, <1>10 DEF Sound, SpacesInv

LEMMA DeleteCodebaseRowSound ==
    ASSUME SpacesInv, NEW c \in Clients, DeleteCodebaseRow(c)
    PROVE  Sound
<1> DEFINE next == [loc[c] EXCEPT !.todo = @ \ {loc[c].codebase}, !.codebase = None]
           after == [next EXCEPT !.failed = TRUE]
<1>1. UNCHANGED <<spaces, resources, workspaces, cluster, unrolled>>
  BY DEF DeleteCodebaseRow
<1>2. /\ pc[c] = "codebase" /\ RequestOK("codebase", loc[c], spaces, codebases)
      /\ ~concurrent => CleanedUp("codebase", loc[c], codebases, cluster)
  BY DEF DeleteCodebaseRow, SpacesInv, RequestsOK, Undisturbed
<1>3. PICK b : b = loc[c].codebase
  OBVIOUS
<1>4. b \in DOMAIN codebases /\ OwnedBy(spaces, codebases[b].space, loc[c].user)
  BY <1>2, <1>3 DEF RequestOK
<1>5. /\ next \in LocalRec(spaces) /\ next.user = loc[c].user /\ next.space = loc[c].space
      /\ next.direct = loc[c].direct /\ next.failed = loc[c].failed /\ next.todo = loc[c].todo \ {b}
  BY <1>2, <1>3 DEF RequestOK, LocalRec
<1>6. /\ after \in LocalRec(spaces) /\ after.user = loc[c].user /\ after.space = loc[c].space
      /\ after.direct = loc[c].direct /\ after.failed
  BY <1>5 DEF LocalRec
<1>7. \/ b \in Live(codebases) /\ codebases' = [codebases EXCEPT ![b].live = FALSE] /\ Go(c, "codebases", next)
      \/ codebases' = codebases /\ Go(c, "codebases", after)
  BY <1>3 DEF DeleteCodebaseRow
<1> HIDE DEF next, after
<1>8. RequestOK("codebases", next, spaces, codebases) /\ RequestOK("codebases", after, spaces, codebases)
      /\ "codebases" \in RequestLabels
  BY <1>2, <1>5, <1>6 DEF RequestOK, RequestLabels
<1>9. CASE codebases' = codebases /\ Go(c, "codebases", after)
  <2>1. StepBy(c, "codebases", after)
    BY <1>2, <1>9, GoSteps
  <2>2. CleanedUp("codebases", after, codebases, cluster')
    BY <1>6 DEF CleanedUp
  <2>3. LiveSpacesHaveResources'
    BY <1>1, <1>2, <2>1, ResourcesKept
  <2> QED  BY <1>1, <1>8, <1>9, <2>1, <2>2, <2>3, SameRows DEF SpacesInv, SpaceTables
<1>10. CASE /\ b \in Live(codebases) /\ codebases' = [codebases EXCEPT ![b].live = FALSE]
            /\ Go(c, "codebases", next)
  <2>1. StepBy(c, "codebases", next) /\ requests' = requests /\ concurrent' = concurrent
    BY <1>2, <1>10, GoSteps
  <2>2. codebases[b].live /\ codebases[b] \in CodebaseRow(spaces)
    BY <1>4, <1>10 DEF Live, SpacesInv, SpaceTables
  <2>3. PICK row : row = [codebases[b] EXCEPT !.live = FALSE]
    OBVIOUS
  <2>4. row \in CodebaseRow(spaces) /\ row.space = codebases[b].space /\ ~row.live
    BY <2>2, <2>3 DEF CodebaseRow
  <2>5. codebases' = [codebases EXCEPT ![b] = row]
    BY <1>10, <2>3
  <2>6. /\ DOMAIN codebases' = DOMAIN codebases /\ codebases'[b] = row
        /\ \A x \in DOMAIN codebases \ {b} : codebases'[x] = codebases[x]
    BY <1>4, <2>5 DEF SpacesInv, SpaceTables
  <2>7. LiveIn(codebases', next.space) \subseteq LiveIn(codebases, next.space) \ {b}
        /\ CodebasesIn(codebases', next.space) = CodebasesIn(codebases, next.space)
    BY <2>4, <2>6 DEF LiveIn, CodebasesIn
  <2>8. ~concurrent => CleanedUp("codebases", next, codebases', cluster)
    BY <1>2, <1>5, <2>7 DEF CleanedUp, Overflows
  <2>9. ByOwner
    <3>1. Live(spaces') = Live(spaces) /\ Live(codebases) \ Live(codebases') \subseteq {b}
      BY <1>1, <2>6 DEF Live
    <3>2. spaces[codebases[b].space].owner = loc[c].user
      BY <1>4 DEF OwnedBy
    <3> QED  BY <1>2, <3>1, <3>2 DEF ByOwner, Live
  <2> QED  BY <1>1, <1>2, <1>4, <1>8, <2>1, <2>2, <2>4, <2>5, <2>8, <2>9, RowOverwritten
<1> QED  BY <1>7, <1>9, <1>10

LEMMA SaveCodebaseSound ==
    ASSUME SpacesInv, NEW c \in Clients, SaveCodebase(c)
    PROVE  Sound
<1>1. UNCHANGED <<spaces, resources, workspaces, cluster, unrolled>> /\ EndRequest(c)
  BY DEF SaveCodebase
<1>2. pc[c] = "save" /\ RequestOK("save", loc[c], spaces, codebases)
  BY DEF SaveCodebase, SpacesInv, RequestsOK
<1>3. PICK b, row : b = loc[c].codebase /\ row = loc[c].copy
  OBVIOUS
<1>4. b \in DOMAIN codebases /\ row \in CodebaseRow(spaces) /\ row.live /\ row.space = codebases[b].space
  BY <1>2, <1>3 DEF RequestOK
<1>5. StepBy(c, "idle", Idle) /\ requests' = requests /\ concurrent' = concurrent
  BY <1>1, <1>2, GoSteps DEF EndRequest
<1>6. CASE codebases' = codebases
  <2>1. LiveSpacesHaveResources'
    BY <1>1, <1>2, <1>5, ResourcesKept
  <2> QED  BY <1>1, <1>2, <1>6, <2>1, SameRowsEnd DEF SpacesInv, SpaceTables
<1>7. CASE b \in Live(codebases) /\ codebases' = [codebases EXCEPT ![b] = row]
  <2>1. codebases[b].live
    BY <1>7 DEF Live
  <2> QED  BY <1>1, <1>2, <1>4, <1>5, <1>7, <2>1, IdleOK, RowOverwritten
<1> QED  BY <1>3, <1>6, <1>7 DEF SaveCodebase

\* A request that goes on to save its copy of a codebase, with another last workspace.
LEMMA WorkspaceUsed ==
    ASSUME SpacesInv, NEW c \in Clients, pc[c] \in {"create", "open"}, NEW w \in Users \X URLs,
           Go(c, "save", [loc[c] EXCEPT !.copy.last = w]),
           UNCHANGED <<spaces, codebases, resources, cluster, unrolled>>, workspaces' \subseteq Users \X URLs
    PROVE  Sound
<1> DEFINE copy == [loc[c].copy EXCEPT !.last = w]
           r == [loc[c] EXCEPT !.copy.last = w]
<1>1. RequestOK(pc[c], loc[c], spaces, codebases)
  BY DEF SpacesInv, RequestsOK
<1>2. /\ loc[c].codebase \in DOMAIN codebases /\ loc[c].copy \in CodebaseRow(spaces) /\ loc[c].user \in Users
      /\ loc[c].copy.live /\ loc[c].copy.space = codebases[loc[c].codebase].space /\ loc[c] \in LocalRec(spaces)
  BY <1>1 DEF RequestOK
<1>3. copy \in CodebaseRow(spaces) /\ copy.live /\ copy.space = loc[c].copy.space
  BY <1>2 DEF CodebaseRow
<1>4. r = [loc[c] EXCEPT !.copy = copy]
  BY <1>2 DEF LocalRec
<1>5. StepBy(c, "save", r)
  BY GoSteps
<1> HIDE DEF copy, r
<1>6. r \in LocalRec(spaces) /\ r.codebase = loc[c].codebase /\ r.user = loc[c].user /\ r.copy = copy
  BY <1>2, <1>3, <1>4 DEF LocalRec
<1>7. RequestOK("save", r, spaces, codebases) /\ "save" \in RequestLabels
  BY <1>2, <1>3, <1>6 DEF RequestOK, RequestLabels
<1>8. CleanedUp("save", r, codebases, cluster')
  BY DEF CleanedUp
<1>9. LiveSpacesHaveResources'
  BY <1>5, ResourcesKept
<1> QED  BY <1>5, <1>7, <1>8, <1>9, SameRows DEF SpacesInv, SpaceTables

LEMMA WorkspaceSound ==
    ASSUME SpacesInv, NEW c \in Clients, CreateWorkspace(c) \/ StartExistingWorkspace(c)
    PROVE  Sound
<1>1. /\ UNCHANGED <<spaces, codebases, resources, cluster, unrolled>>
      /\ pc[c] \in {"create", "open"} /\ RequestOK(pc[c], loc[c], spaces, codebases)
  BY DEF CreateWorkspace, StartExistingWorkspace, stored, SpacesInv, RequestsOK
<1>2. PICK w : w = <<loc[c].user, loc[c].copy.url>>
  OBVIOUS
<1>3. w \in Users \X URLs
  BY <1>1, <1>2 DEF RequestOK, CodebaseRow
<1>4. workspaces \subseteq Users \X URLs
  BY DEF SpacesInv, SpaceTables
<1>5. workspaces' \subseteq Users \X URLs
  BY <1>2, <1>3, <1>4 DEF CreateWorkspace, StartExistingWorkspace, stored
<1>6. CASE EndRequest(c)
  <2>1. StepBy(c, "idle", Idle)
    BY <1>1, <1>6, GoSteps DEF EndRequest
  <2>2. LiveSpacesHaveResources'
    BY <1>1, <2>1, ResourcesKept
  <2> QED  BY <1>1, <1>5, <1>6, <2>2, SameRowsEnd DEF SpacesInv, SpaceTables
<1>7. ASSUME NEW x \in Users \X URLs, Go(c, "save", [loc[c] EXCEPT !.copy.last = x])
      PROVE  Sound
  BY <1>1, <1>5, <1>7, WorkspaceUsed
<1> QED  BY <1>2, <1>3, <1>4, <1>6, <1>7 DEF CreateWorkspace, StartExistingWorkspace

LEMMA CrashSound ==
    ASSUME SpacesInv, Crash
    PROVE  Sound
<1>1. UNCHANGED <<spaces, codebases, resources, workspaces, cluster, concurrent, requests>>
  BY DEF Crash, stored
<1>2. pc' \in [Clients -> RequestLabels] /\ loc' = [d \in Clients |-> loc'[d]]
      /\ \A c \in Clients : pc'[c] = "idle" /\ loc'[c] = Idle
  BY DEF Crash, RequestLabels
<1>3. RequestsOK'
  BY <1>2, IdleOK DEF RequestsOK
<1>4. Undisturbed'
  BY <1>1, <1>2, IdleOK DEF SpacesInv, Undisturbed
<1>5. unrolled' = (unrolled \/ \E c \in Clients : pc[c] \in {"created", "rollback"})
  BY DEF Crash
<1>6. LiveSpacesHaveResources'
  BY <1>1, <1>5 DEF SpacesInv, LiveSpacesHaveResources
<1>7. SpaceTables'
  BY <1>1, <1>5 DEF SpacesInv, SpaceTables
<1>8. Persist(spaces, spaces', codebases, codebases') /\ ByOwner
  BY <1>1 DEF Persist, ByOwner, Live
<1> QED  BY <1>3, <1>4, <1>6, <1>7, <1>8 DEF Sound, SpacesInv

-------------------------------------------------------------------------------

LEMMA SpacesStep == SpacesInv /\ Next => Sound
<1> SUFFICES ASSUME SpacesInv, Next  PROVE  Sound
  OBVIOUS
<1>1. ASSUME NEW c \in Clients, NEW u \in Users, NEW s \in SpaceIDs, NEW n \in SpaceNames,
             CreateSpace(c, u, s, n)
      PROVE  Sound
  BY <1>1, CreateSpaceSound
<1>2. ASSUME NEW c \in Clients, NEW u \in Users, NEW s \in SpaceIDs, NEW skip \in BOOLEAN,
             DeleteSpace(c, u, s, skip)
      PROVE  Sound
  BY <1>2, DeleteSpaceSound
<1>3. ASSUME NEW u \in Users, NEW s \in SpaceIDs, NEW n \in SpaceNames, NEW v \in 0..MaxRequests,
             UpdateSpace(u, s, v, n)
      PROVE  Sound
  BY <1>3, UpdateSpaceSound
<1>4. ASSUME NEW u \in Users, NEW s \in SpaceIDs, NEW url \in URLs, NEW b \in CodebaseIDs,
             CreateCodebase(u, s, url, b)
      PROVE  Sound
  BY <1>4, CreateCodebaseSound
<1>5. ASSUME NEW u \in Users, NEW s \in SpaceIDs, DeleteDeployment(u, s) \/ Deploy(u, s)
      PROVE  Sound
  BY <1>5, DeploymentSound
<1>6. ASSUME NEW c \in Clients, NEW u \in Users, NEW b \in CodebaseIDs,
             DeleteCodebase(c, u, b) \/ UpdateCodebase(c, u, b)
      PROVE  Sound
  BY <1>6, DeleteCodebaseSound, UpdateCodebaseSound
<1>7. ASSUME NEW c \in Clients, NEW u \in Users, NEW b \in CodebaseIDs, NEW label \in {"create", "open"},
             LoadCodebase(c, u, b, label)
      PROVE  Sound
  BY <1>7, LoadCodebaseSound
<1>8. ASSUME NEW c \in Clients, NEW b \in CodebaseIDs, DeleteWorkspaces(c, b)
      PROVE  Sound
  BY <1>8, DeleteWorkspacesSound
<1>9. ASSUME NEW c \in Clients, CreateResource(c) \/ RollBack(c) \/ DeleteResource(c) \/ DeleteRow(c)
      PROVE  Sound
  BY <1>9, CreateResourceSound, RollBackSound, DeleteResourceSound, DeleteRowSound
<1>10. ASSUME NEW c \in Clients,
              ListCodebases(c) \/ DeleteCodebaseRow(c) \/ CodebasesDeleted(c) \/ DeleteDeployments(c)
       PROVE  Sound
  BY <1>10, ListCodebasesSound, DeleteCodebaseRowSound, CodebasesDeletedSound, DeleteDeploymentsSound
<1>11. ASSUME NEW c \in Clients, CreateWorkspace(c) \/ StartExistingWorkspace(c) \/ SaveCodebase(c)
       PROVE  Sound
  BY <1>11, WorkspaceSound, SaveCodebaseSound
<1> QED
  BY <1>1, <1>2, <1>3, <1>4, <1>5, <1>6, <1>7, <1>8, <1>9, <1>10, <1>11, CrashSound DEF Next

LEMMA SpacesInvariance == Spec => []SpacesInv
<1>1. SpacesInv /\ UNCHANGED vars => SpacesInv'
  BY DEF vars, SpacesInv, SpaceTables, RequestsOK, LiveSpacesHaveResources, Undisturbed, Live
<1>2. SpacesInv /\ [Next]_vars => SpacesInv'
  BY <1>1, SpacesStep DEF Sound
<1> QED  BY <1>2, SpacesInvInit, PTL DEF Spec

\* The database, the authorization service and the cluster agree (controller/space.go, Create and
\* Delete): a live space has its resource unless a roll back was lost, and a request that deletes
\* a space alone leaves it no codebase (of those that fit on a page) and no deployment.
THEOREM SpacesStaySound == Spec => []SpacesAreSound
BY SpacesInvariance, SpacesInvSound, PTL

\* Only its owner ends the life of a space or codebase, although Delete checks the owner of the
\* space last, and a copy that a request holds (Codebases().Save) brings no deleted row back.
THEOREM OnlyOwnersEndLives == Spec => OwnersEndLives
<1>1. SpacesInv /\ [Next]_vars =>
        [/\ \A s \in Live(spaces) \ Live(spaces)' :
              \E c \in Clients : pc[c] # "idle" /\ loc[c].user = spaces[s].owner
         /\ \A b \in Live(codebases) \ Live(codebases)' :
              \E c \in Clients : /\ pc[c] = "codebase"
                                 /\ loc[c].user = spaces[codebases[b].space].owner]_vars
  BY SpacesStep DEF Sound, ByOwner
<1>2. SpacesInv /\ [Next]_vars =>
        [/\ \A s \in DOMAIN spaces \ Live(spaces) : s \notin Live(spaces)'
         /\ \A b \in DOMAIN codebases \ Live(codebases) : b \notin Live(codebases)']_vars
  BY SpacesStep DEF Sound, Persist, Live
<1>3. Spec => OwnersOnly
  BY <1>1, SpacesInvariance, PTL DEF Spec, OwnersOnly
<1>4. Spec => DeletedStaysDeleted
  BY <1>2, SpacesInvariance, PTL DEF Spec, DeletedStaysDeleted
<1> QED  BY <1>3, <1>4 DEF OwnersEndLives

-------------------------------------------------------------------------------
(* Paging.  A page that is shown begins at a row and has room for one at   *)
(* least, whatever was asked for, and a walk has seen an interval of rows  *)
(* that ends with the page.                                                *)

PageType == [offset : Nat, limit : Nat \ {0}]

\* Where the rows of a page of a list of n rows end.
EndOf(p, n) == IF p.offset + p.limit <= n THEN p.offset + p.limit ELSE n

PagingInv ==
    /\ rowCount \in Nat /\ total \in Nat
    /\ page = NoLink \/ (page \in PageType /\ page.limit <= PageSizeMax)
    /\ walked # {} =>
         /\ page # NoLink /\ total = rowCount
         /\ \E a \in Nat : walked = a..(EndOf(page, total) - 1)

\* The quotient and the remainder of the links that jump.
LEMMA Division ==
    ASSUME NEW x \in Nat, NEW l \in Nat \ {0}
    PROVE  x \div l \in Nat /\ (x \div l) * l \in Nat /\ (x \div l) * l <= x /\ x < (x \div l) * l + l
<1>1. x \div l \in Int
  OBVIOUS
<1>2. (x \div l) * l <= x /\ x < (x \div l) * l + l
  BY SMTT(30)
<1>3. x \div l >= 0
  BY SMTT(30)
<1>4. x \div l \in Nat
  BY <1>1, <1>3
<1>5. (x \div l) * l \in Nat
  BY <1>4, SMTT(30)
<1> QED  BY <1>2, <1>4, <1>5

LEMMA TwoNumbers ==
    ASSUME NEW x \in Int, NEW y \in Int
    PROVE  /\ Max({x, y}) = IF x >= y THEN x ELSE y
           /\ Min({x, y}) = IF x <= y THEN x ELSE y
BY DEF Max, Min

\* NoLink is no page.
LEMMA NoPage == NoLink \notin PageType /\ NoLink.offset = -1 /\ NoLink.limit = -1
BY DEF NoLink, PageType

\* Whatever is asked for, a page is shown; a page that can be shown is shown as it is.
LEMMA LimitsMakePages ==
    ASSUME NEW offset \in Int, NEW limit \in Int
    PROVE  /\ ComputePagingLimits(offset, limit) \in PageType
           /\ ComputePagingLimits(offset, limit).limit <= PageSizeMax
           /\ offset >= 0 /\ limit \in 1..PageSizeMax =>
                 ComputePagingLimits(offset, limit) = [offset |-> offset, limit |-> limit]
<1>1. PageSizeMax \in Nat /\ PageSizeDefault \in 1..PageSizeMax
  BY PagingAssumption
<1>2. Max({offset, 0}) = IF offset >= 0 THEN offset ELSE 0
  BY TwoNumbers
<1>3. Min({limit, PageSizeMax}) = IF limit <= PageSizeMax THEN limit ELSE PageSizeMax
  BY <1>1, TwoNumbers
<1> QED  BY <1>1, <1>2, <1>3 DEF ComputePagingLimits, PageType, NoLimit

LEMMA RowsAreAnInterval ==
    ASSUME NEW p \in PageType, NEW n \in Nat
    PROVE  /\ EndOf(p, n) \in Nat /\ EndOf(p, n) <= n
           /\ RowsOn(p, n) = p.offset..(EndOf(p, n) - 1)
           /\ Cardinality(RowsOn(p, n)) = IF p.offset < EndOf(p, n) THEN EndOf(p, n) - p.offset ELSE 0
<1>1. p.offset \in Nat /\ p.limit \in Nat \ {0}
  BY DEF PageType
<1>2. EndOf(p, n) \in Nat /\ EndOf(p, n) <= n
  BY <1>1 DEF EndOf
<1>3. RowsOn(p, n) = p.offset..(EndOf(p, n) - 1)
  <2>1. PICK e \in Nat : e = EndOf(p, n)
    BY <1>2
  <2>2. \A i \in Int : i < p.offset + p.limit /\ i < n <=> i < e
    BY <1>1, <2>1 DEF EndOf
  <2>3. \A i : i \in RowsOn(p, n) <=> i \in Int /\ p.offset <= i /\ i < p.offset + p.limit /\ i < n
    BY <1>1 DEF RowsOn
  <2>4. \A i : i \in p.offset..(e - 1) <=> i \in Int /\ p.offset <= i /\ i < e
    BY <1>1
  <2>5. \A i : i \in RowsOn(p, n) <=> i \in p.offset..(e - 1)
    BY <2>2, <2>3, <2>4
  <2>6. RowsOn(p, n) = p.offset..(e - 1)
    BY <2>5, Zenon
  <2> QED  BY <2>1, <2>6
<1>4. PICK a \in Int, b \in Int : a = p.offset /\ b = EndOf(p, n) - 1
  BY <1>1, <1>2
<1>5. Cardinality(a..b) = IF a > b THEN 0 ELSE b - a + 1
  BY FS_Interval
<1>6. Cardinality(RowsOn(p, n)) = IF a > b THEN 0 ELSE b - a + 1
  BY <1>3, <1>4, <1>5
<1> QED  BY <1>1, <1>2, <1>3, <1>4, <1>6

\* There is a next page only if this one is full, and then it follows immediately.
LEMMA NextFollows ==
    ASSUME NEW p \in PageType, NEW n \in Nat
    PROVE  /\ NextLink(p, n) # NoLink =>
                /\ NextLink(p, n) = [offset |-> p.offset + p.limit, limit |-> p.limit]
                /\ EndOf(p, n) = p.offset + p.limit /\ p.offset + p.limit < n
           /\ NextLink(p, n) = NoLink => EndOf(p, n) = n
<1>1. p.offset \in Nat /\ p.limit \in Nat \ {0}
  BY DEF PageType
<1>2. PICK k : k = Cardinality(RowsOn(p, n))
  OBVIOUS
<1>3. k = IF p.offset < EndOf(p, n) THEN EndOf(p, n) - p.offset ELSE 0
  BY <1>2, RowsAreAnInterval
<1>4. NextLink(p, n) = IF p.offset + k < n THEN [offset |-> p.offset + k, limit |-> p.limit] ELSE NoLink
  BY <1>2 DEF NextLink
<1>5. CASE p.offset + k < n
  <2>1. k = p.limit /\ EndOf(p, n) = p.offset + p.limit
    BY <1>1, <1>3, <1>5 DEF EndOf
  <2>2. NextLink(p, n) = [offset |-> p.offset + p.limit, limit |-> p.limit]
    BY <1>4, <1>5, <2>1
  <2>3. NextLink(p, n) # NoLink
    BY <1>1, <2>2 DEF NoLink
  <2> QED  BY <1>5, <2>1, <2>2, <2>3
<1>6. CASE ~(p.offset + k < n)
  <2>1. NextLink(p, n) = NoLink
    BY <1>4, <1>6
  <2>2. EndOf(p, n) = n
    BY <1>1, <1>3, <1>6 DEF EndOf
  <2> QED  BY <2>1, <2>2
<1> QED  BY <1>5, <1>6

-------------------------------------------------------------------------------

\* A page that begins before the first row is cut to the rows it has: it still ends where
\* it would have ended.
LEMMA CutPage ==
    ASSUME NEW start \in Int, NEW l \in Nat \ {0}, start + l >= 1
    PROVE  /\ Cut(start, l) \in PageType /\ Cut(start, l).limit \in 1..l
           /\ Cut(start, l).offset + Cut(start, l).limit = start + l
           /\ Cut(start, l).offset = IF start < 0 THEN 0 ELSE start
BY DEF Cut, PageType

\* The row that a page begins before and ends after.
LEMMA RowIsOn ==
    ASSUME NEW p \in PageType, NEW n \in Nat \ {0}, p.offset <= n - 1, n <= p.offset + p.limit
    PROVE  n - 1 \in RowsOn(p, n) /\ NextLink(p, n) = NoLink
<1>1. p.offset \in Nat /\ p.limit \in Nat \ {0}
  BY DEF PageType
<1>2. n - 1 \in RowsOn(p, n)
  BY <1>1 DEF RowsOn
<1>3. ~(p.offset + p.limit < n)
  BY <1>1
<1> QED  BY <1>2, <1>3, NextFollows

\* The page before the end of the list that begins a multiple of l before offset.
LEMMA JumpBack ==
    ASSUME NEW offset \in Nat, NEW n \in Nat \ {0}, n <= offset, NEW l \in Nat \ {0},
           NEW start, start = offset - ((offset - n) \div l + 1) * l
    PROVE  start \in Int /\ start <= n - 1 /\ n <= start + l
<1>1. PICK x \in Nat : x = offset - n
  OBVIOUS
<1>2. PICK q \in Nat : q = x \div l
  BY Division
<1>3. PICK m \in Nat : m = q * l
  BY <1>2, Division
<1>4. m <= x /\ x < m + l
  BY <1>2, <1>3, Division
<1>5. (q + 1) * l = m + l
  BY <1>3
<1>6. start = offset - (m + l)
  BY <1>1, <1>2, <1>5
<1>7. offset - (m + l) \in Int /\ offset - (m + l) <= n - 1 /\ n <= offset - (m + l) + l
  BY <1>1, <1>4
<1> QED  BY <1>6, <1>7

\* The last page that begins a multiple of l after offset.
LEMMA JumpForward ==
    ASSUME NEW offset \in Nat, NEW n \in Nat, offset < n, NEW l \in Nat \ {0},
           NEW start, start = offset + ((n - offset - 1) \div l) * l
    PROVE  start \in Nat /\ start <= n - 1 /\ n <= start + l
<1>1. PICK x \in Nat : x = n - offset - 1
  OBVIOUS
<1>2. PICK q \in Nat : q = x \div l
  BY Division
<1>3. PICK m \in Nat : m = q * l
  BY <1>2, Division
<1>4. m <= x /\ x < m + l
  BY <1>2, <1>3, Division
<1>5. start = offset + m
  BY <1>1, <1>2, <1>3
<1>6. offset + m \in Nat /\ offset + m <= n - 1 /\ n <= offset + m + l
  BY <1>1, <1>4
<1> QED  BY <1>5, <1>6

LEMMA LastLinkShowsTheEnd ==
    ASSUME NEW p \in PageType, NEW n \in Nat \ {0}
    PROVE  /\ LastLink(p, n) \in PageType /\ n - 1 \in RowsOn(LastLink(p, n), n)
           /\ NextLink(LastLink(p, n), n) = NoLink
<1>1. p.offset \in Nat /\ p.limit \in Nat \ {0}
  BY DEF PageType
<1>0. PICK o \in Nat, l \in Nat \ {0} : o = p.offset /\ l = p.limit
  BY <1>1
<1>2. PICK start : start = IF p.offset < n THEN p.offset + ((n - p.offset - 1) \div p.limit) * p.limit
                           ELSE p.offset - ((p.offset - n) \div p.limit + 1) * p.limit
  OBVIOUS
<1>3. start \in Int /\ start <= n - 1 /\ n <= start + p.limit
  <2>1. CASE p.offset < n
    <3>1. start = o + ((n - o - 1) \div l) * l /\ o < n
      BY <1>0, <1>2, <2>1
    <3>2. start \in Nat /\ start <= n - 1 /\ n <= start + l
      BY <3>1, JumpForward
    <3> QED  BY <1>0, <3>2
  <2>2. CASE ~(p.offset < n)
    <3>1. start = o - ((o - n) \div l + 1) * l /\ n <= o
      BY <1>0, <1>2, <2>2
    <3>2. start \in Int /\ start <= n - 1 /\ n <= start + l
      BY <3>1, JumpBack
    <3> QED  BY <1>0, <3>2
  <2> QED  BY <2>1, <2>2
<1>4. LastLink(p, n) = Cut(start, p.limit)
  BY <1>2 DEF LastLink
<1>5. PICK e : e = Cut(start, p.limit)
  OBVIOUS
<1>6. e \in PageType /\ e.offset + e.limit = start + p.limit /\ e.offset = IF start < 0 THEN 0 ELSE start
  <2>1. start + p.limit >= 1
    BY <1>1, <1>3
  <2> QED  BY <1>1, <1>3, <1>5, <2>1, CutPage
<1>7. e.offset <= n - 1 /\ n <= e.offset + e.limit
  BY <1>1, <1>3, <1>6
<1> QED  BY <1>4, <1>5, <1>6, <1>7, RowIsOn

LEMMA PrevLinkEndsHere ==
    ASSUME NEW p \in PageType, NEW n \in Nat, PrevLink(p, n) # NoLink
    PROVE  /\ PrevLink(p, n) \in PageType /\ PrevLink(p, n).limit \in 1..p.limit
           /\ IF p.offset <= n THEN PrevLink(p, n).offset + PrevLink(p, n).limit = p.offset
              ELSE n - 1 \in RowsOn(PrevLink(p, n), n)
<1>1. p.offset \in Nat /\ p.limit \in Nat \ {0}
  BY DEF PageType
<1>2. p.offset # 0 /\ n # 0
  BY DEF PrevLink
<1>3. PICK start : start = IF p.offset <= n THEN p.offset - p.limit
                           ELSE p.offset - ((p.offset - n) \div p.limit + 1) * p.limit
  OBVIOUS
<1>4. PrevLink(p, n) = Cut(start, p.limit)
  BY <1>2, <1>3 DEF PrevLink
<1>5. PICK e : e = Cut(start, p.limit)
  OBVIOUS
<1>6. CASE p.offset <= n
  <2>1. start \in Int /\ start + p.limit = p.offset
    BY <1>1, <1>3, <1>6
  <2>2. start + p.limit >= 1
    BY <1>1, <1>2, <2>1
  <2>3. e \in PageType /\ e.limit \in 1..p.limit /\ e.offset + e.limit = start + p.limit
    BY <1>1, <1>5, <2>1, <2>2, CutPage
  <2> QED  BY <1>4, <1>5, <1>6, <2>1, <2>3
<1>7. CASE ~(p.offset <= n)
  <2>1. start \in Int /\ start <= n - 1 /\ n <= start + p.limit
    <3>1. PICK o \in Nat, l \in Nat \ {0} : o = p.offset /\ l = p.limit
      BY <1>1
    <3>2. start = o - ((o - n) \div l + 1) * l /\ n <= o /\ n \in Nat \ {0}
      BY <1>2, <1>3, <1>7, <3>1
    <3>3. start \in Int /\ start <= n - 1 /\ n <= start + l
      BY <3>2, JumpBack
    <3> QED  BY <3>1, <3>3
  <2>2. start + p.limit >= 1
    BY <1>1, <1>2, <2>1
  <2>3. /\ e \in PageType /\ e.limit \in 1..p.limit
        /\ e.offset + e.limit = start + p.limit /\ e.offset = IF start < 0 THEN 0 ELSE start
    BY <1>1, <1>5, <2>1, <2>2, CutPage
  <2>4. e.offset <= n - 1 /\ n <= e.offset + e.limit
    BY <1>1, <1>2, <2>1, <2>3
  <2>5. n - 1 \in RowsOn(e, n)
    BY <1>2, <2>3, <2>4, RowIsOn
  <2> QED  BY <1>4, <1>5, <1>7, <2>3, <2>5
<1> QED  BY <1>6, <1>7

-------------------------------------------------------------------------------

LEMMA PagingInvSound == PagingInv => LinksLeadToTheirRows /\ WalksSeeAll
<1> SUFFICES ASSUME PagingInv  PROVE  LinksLeadToTheirRows /\ WalksSeeAll
  OBVIOUS
<1>1. LinksLeadToTheirRows
  <2> SUFFICES ASSUME page # NoLink
               PROVE  /\ PrevLink(page, total) # NoLink =>
                            /\ PrevLink(page, total).limit \in 1..page.limit
                            /\ IF page.offset <= total
                               THEN PrevLink(page, total).offset + PrevLink(page, total).limit = page.offset
                               ELSE total - 1 \in RowsOn(PrevLink(page, total), total)
                      /\ total > 0 => /\ total - 1 \in RowsOn(LastLink(page, total), total)
                                      /\ NextLink(LastLink(page, total), total) = NoLink
    BY DEF LinksLeadToTheirRows
  <2>1. page \in PageType /\ total \in Nat
    BY DEF PagingInv
  <2>2. total > 0 => total \in Nat \ {0}
    BY <2>1
  <2>3. total > 0 => /\ total - 1 \in RowsOn(LastLink(page, total), total)
                     /\ NextLink(LastLink(page, total), total) = NoLink
    BY <2>1, <2>2, LastLinkShowsTheEnd
  <2> QED  BY <2>1, <2>3, PrevLinkEndsHere
<1>2. WalksSeeAll
  <2> SUFFICES ASSUME page # NoLink, walked # {}, NextLink(page, total) = NoLink
               PROVE  walked = Min(walked)..(total - 1)
    BY DEF WalksSeeAll
  <2>1. page \in PageType /\ total \in Nat
    BY DEF PagingInv
  <2>2. EndOf(page, total) = total
    BY <2>1, NextFollows
  <2>3. PICK a \in Nat : walked = a..(total - 1)
    BY <2>2 DEF PagingInv
  <2>4. a \in walked /\ \A x \in walked : a <= x /\ x \in Int
    BY <2>1, <2>3
  <2>5. Min(walked) = a
    <3>1. PICK m : m = Min(walked)
      OBVIOUS
    <3>2. m \in walked /\ \A y \in walked : m <= y
      BY <2>4, <3>1, Zenon DEF Min
    <3>3. m <= a /\ a <= m /\ m \in Int
      BY <2>4, <3>2
    <3> QED  BY <3>1, <3>3
  <2> QED  BY <2>3, <2>5
<1> QED  BY <1>1, <1>2

\* A page is shown to a client that has seen nothing.
LEMMA ShowPage ==
    ASSUME PagingInv, NEW offset \in Int, NEW limit \in Int, Show(offset, limit, {})
    PROVE  PagingInv'
<1>1. PICK p : p = ComputePagingLimits(offset, limit)
  OBVIOUS
<1>2. p \in PageType /\ p.limit <= PageSizeMax
  BY <1>1, LimitsMakePages
<1>3. page' = p /\ total' = rowCount /\ rowCount' = rowCount /\ walked' = RowsOn(p, rowCount) /\ rowCount \in Nat
  BY <1>1 DEF Show, PagingInv
<1>4. walked' = p.offset..(EndOf(p, rowCount) - 1) /\ p.offset \in Nat
  BY <1>2, <1>3, RowsAreAnInterval DEF PageType
<1>5. page' # NoLink
  BY <1>2, <1>3, NoPage
<1>6. \E a \in Nat : walked' = a..(EndOf(page', total') - 1)
  BY <1>3, <1>4
<1> QED  BY <1>2, <1>3, <1>5, <1>6 DEF PagingInv

\* Following next shows the page that begins where this one ends.
LEMMA NextPage ==
    ASSUME PagingInv, FollowNext
    PROVE  PagingInv' /\ page'.offset > page.offset
<1>1. page \in PageType /\ page.limit \in 1..PageSizeMax /\ total \in Nat /\ rowCount \in Nat /\ page # NoLink
  BY PagingAssumption DEF PagingInv, PageType, FollowNext
<1>2. PICK o \in Nat, l \in Nat \ {0} : o = page.offset /\ l = page.limit
  BY <1>1 DEF PageType
<1>3. NextLink(page, total) # NoLink
  BY DEF FollowNext
<1>4. /\ NextLink(page, total) = [offset |-> o + l, limit |-> l]
      /\ EndOf(page, total) = o + l /\ o + l < total
  BY <1>1, <1>2, <1>3, NextFollows
<1>5. Show(o + l, l, walked)
  BY <1>4 DEF FollowNext
<1>6. PICK p : p = [offset |-> o + l, limit |-> l]
  OBVIOUS
<1>7. o + l \in Int /\ o + l >= 0 /\ l \in Int /\ l \in 1..PageSizeMax
  BY <1>1, <1>2
<1>8. ComputePagingLimits(o + l, l) = p
  BY <1>6, <1>7, LimitsMakePages
<1>9. page' = p /\ total' = rowCount /\ rowCount' = rowCount /\ walked' = walked \cup RowsOn(p, rowCount)
  BY <1>5, <1>8 DEF Show
<1>10. p \in PageType /\ p.limit <= PageSizeMax /\ p.offset = o + l /\ p # NoLink
  BY <1>6, <1>7, NoPage DEF PageType
<1>11. PICK e \in Nat : e = EndOf(p, rowCount)
  BY <1>1, <1>10, RowsAreAnInterval
<1>12. RowsOn(p, rowCount) = (o + l)..(e - 1)
  BY <1>1, <1>10, <1>11, RowsAreAnInterval
<1>13. \E a \in Nat : walked' = a..(e - 1)
  <2>1. CASE walked = {}
    BY <1>7, <1>9, <1>12, <2>1
  <2>2. CASE walked # {}
    <3>1. PICK a \in Nat : walked = a..(o + l - 1)
      BY <1>4, <2>2 DEF PagingInv
    <3>2. total = rowCount
      BY <2>2 DEF PagingInv
    <3>3. a <= o + l - 1 /\ o + l <= e
      <4>1. a <= o + l - 1
        BY <2>2, <3>1
      <4>2. o + l < rowCount
        BY <1>4, <3>2
      <4>3. e = IF o + l + l <= rowCount THEN o + l + l ELSE rowCount
        BY <1>6, <1>11 DEF EndOf
      <4> QED  BY <1>1, <4>1, <4>2, <4>3
    <3>4. \A i : i \in a..(o + l - 1) \/ i \in (o + l)..(e - 1) <=> i \in a..(e - 1)
      BY <3>3
    <3>5. walked' = a..(e - 1)
      BY <1>9, <1>12, <3>1, <3>4, Zenon
    <3> QED  BY <3>5
  <2> QED  BY <2>1, <2>2
<1>14. page'.offset > page.offset
  BY <1>2, <1>9, <1>10
<1>15. PagingInv'
  BY <1>1, <1>9, <1>10, <1>11, <1>13 DEF PagingInv
<1> QED  BY <1>14, <1>15

LEMMA PagingStep ==
    ASSUME PagingInv, PagingNext
    PROVE  PagingInv'
<1>1. ASSUME NEW offset \in Offsets, NEW limit \in Limits, AskFor(offset, limit)
      PROVE  PagingInv'
  BY <1>1, PagingAssumption, ShowPage DEF AskFor
<1>2. CASE FollowNext
  BY <1>2, NextPage
<1>3. CASE FollowLink
  <2>1. page \in PageType /\ total \in Nat
    BY <1>3 DEF FollowLink, PagingInv
  <2>2. PICK link \in {PrevLink(page, total), FirstLink(page), LastLink(page, total)} \ {NoLink} :
            Show(link.offset, link.limit, {})
    BY <1>3 DEF FollowLink
  <2>3. link.offset \in Int /\ link.limit \in Int
    <3>1. CASE link = PrevLink(page, total)
      BY <2>1, <2>2, <3>1, PrevLinkEndsHere DEF PageType
    <3>2. CASE link = FirstLink(page)
      <4>1. PICK o \in Nat, l \in Nat \ {0} : o = page.offset /\ l = page.limit
        BY <2>1 DEF PageType
      <4>2. o % l \in Int
        OBVIOUS
      <4> QED  BY <3>2, <4>1, <4>2 DEF FirstLink
    <3>3. CASE link = LastLink(page, total) /\ total # 0
      BY <2>1, <3>3, LastLinkShowsTheEnd DEF PageType
    <3>4. CASE link = LastLink(page, total) /\ total = 0
      <4>1. PICK o \in Nat, l \in Nat \ {0} : o = page.offset /\ l = page.limit
        BY <2>1 DEF PageType
      <4>2. PICK start \in Int : start = o - (o \div l + 1) * l
        OBVIOUS
      <4>3. LastLink(page, total) = Cut(start, l)
        BY <3>4, <4>1, <4>2 DEF LastLink
      <4> QED  BY <3>4, <4>2, <4>3 DEF Cut
    <3> QED  BY <2>2, <3>1, <3>2, <3>3, <3>4
  <2> QED  BY <2>2, <2>3, ShowPage
<1>4. ASSUME NEW n \in {rowCount - 1, rowCount + 1} \cap 0..MaxRows, RowsChange(n)
      PROVE  PagingInv'
  <2>1. n \in Nat
    BY PagingAssumption
  <2> QED  BY <1>4, <2>1 DEF RowsChange, PagingInv
<1> QED  BY <1>1, <1>2, <1>3, <1>4 DEF PagingNext

\* The links that setPagingLinks makes (controller/paging.go) lead to the rows they name for lists,
\* offsets and limits of any size, following next gets further, and who follows it to the end of a
\* list that does not change has seen all of its rows from the first page on.
THEOREM PagesStayConnected == PagingSpec => PagesAreConnected
<1>1. PagingInit => PagingInv
  BY DEF PagingInit, PagingInv
<1>2. PagingInv /\ [PagingNext]_pagingVars => PagingInv'
  <2>1. PagingInv /\ UNCHANGED pagingVars => PagingInv'
    BY DEF pagingVars, PagingInv
  <2> QED  BY <2>1, PagingStep
<1>3. PagingSpec => []PagingInv
  BY <1>1, <1>2, PTL DEF PagingSpec
<1>4. PagingSpec => [](LinksLeadToTheirRows /\ WalksSeeAll)
  BY <1>3, PagingInvSound, PTL
<1>5. PagingInv => (FollowNext => page'.offset > page.offset)
  BY NextPage
<1>6. PagingSpec => NextGetsFurther
  BY <1>3, <1>5, PTL DEF NextGetsFurther
<1> QED  BY <1>4, <1>6 DEF PagesAreConnected
===============================================================================
