------------------------------- MODULE Comments -------------------------------
(***************************************************************************)
(* Comments on a work item and their revisions (controller/comments.go,    *)
(* controller/work_item_comments.go, comment/comment_repository.go and     *)
(* comment_revision_repository.go).  An update or a deletion loads the     *)
(* comment and checks the user in one transaction and writes the comment   *)
(* and a revision in a second one.                                         *)
(*                                                                         *)
(* A row that a transaction has written is locked until it ends; until     *)
(* then its changes are in creq, so others read what was committed.        *)
(***************************************************************************)
EXTENDS Naturals, Sequences

CONSTANTS
    CommentIDs,
    Creators,           \* Creators[c]: who writes comment c
    Authors,            \* users, who take one request at a time
    Collaborators,      \* those whom authz.Authorize lets into the space
    Bodies,             \* contents of comments
    NoBody,
    MaxRevisions        \* bound on the revisions of a comment

ASSUME CommentsAssumption ==
    /\ Creators \in [CommentIDs -> Authors]
    /\ Collaborators \subseteq Authors
    /\ NoBody \notin Bodies
    /\ MaxRevisions \in Nat

VARIABLES
    comments,       \* the table: body and deleted_at, or missing
    crevisions,     \* crevisions[c]: in the order of revision_time
    itemLive,       \* the work item is not deleted
    creq            \* creq[u]: the request of a user

commentVars == <<comments, crevisions, itemLive, creq>>

CMissing == [body |-> NoBody, deleted |-> TRUE]
CIdle == [pc |-> "idle", op |-> "none", c |-> "none", body |-> NoBody, loaded |-> NoBody, locked |-> FALSE]
CExists(c) == crevisions[c] # <<>>
CRevision(type, user, body) == [type |-> type, modifier |-> user, body |-> body]

CommentsInit ==
    /\ comments = [c \in CommentIDs |-> CMissing]
    /\ crevisions = [c \in CommentIDs |-> <<>>]
    /\ itemLive = TRUE
    /\ creq = [u \in Authors |-> CIdle]

-------------------------------------------------------------------------------

\* Create: the row and its first revision, which nobody sees before the commit.
CreateComment(u, c, b) ==
    /\ creq[u].pc = "idle" /\ Creators[c] = u
    /\ itemLive /\ ~CExists(c)
    /\ comments' = [comments EXCEPT ![c] = [body |-> b, deleted |-> FALSE]]
    /\ crevisions' = [crevisions EXCEPT ![c] = <<CRevision("create", u, b)>>]
    /\ UNCHANGED <<itemLive, creq>>

\* Deleting the work item leaves its comments alone.
DeleteItem ==
    /\ itemLive /\ itemLive' = FALSE
    /\ UNCHANGED <<comments, crevisions, creq>>

\* loadComment, and the check of the user who did not write the comment.
MayChange(u, c) == Creators[c] = u \/ (itemLive /\ u \in Collaborators)

\* First transaction of Update and Delete.
LoadComment(u, c, op, b) ==
    /\ creq[u].pc = "idle"
    /\ ~comments[c].deleted /\ MayChange(u, c)
    /\ creq' = [creq EXCEPT ![u] = [pc |-> "find", op |-> op, c |-> c, body |-> b,
                                    loaded |-> comments[c].body, locked |-> FALSE]]
    /\ UNCHANGED <<comments, crevisions, itemLive>>

\* Second transaction: the row is looked up again.
FindComment(u) ==
    /\ creq[u].pc = "find"
    /\ creq' = [creq EXCEPT ![u] = IF comments[creq[u].c].deleted THEN CIdle ELSE [@ EXCEPT !.pc = "write"]]
    /\ UNCHANGED <<comments, crevisions, itemLive>>

CLocked(c) == \E u \in Authors : creq[u].c = c /\ creq[u].locked

\* Mutant of WriteComment: the row is written whether or not it is deleted.
WriteCommentUnscoped(u) ==
    /\ creq[u].pc = "write" /\ ~CLocked(creq[u].c)
    /\ creq' = [creq EXCEPT ![u].pc = "revise", ![u].locked = TRUE]
    /\ UNCHANGED <<comments, crevisions, itemLive>>

\* Save and Delete wait for the row.  If it was deleted in the meantime, Save inserts the
\* comment a second time and fails; Delete changes nothing and does not notice.
WriteComment(u) ==
    /\ creq[u].pc = "write" /\ ~CLocked(creq[u].c)
    /\ creq' = [creq EXCEPT ![u] =
            IF ~comments[creq[u].c].deleted THEN [@ EXCEPT !.pc = "revise", !.locked = TRUE]
            ELSE IF creq[u].op = "update" THEN CIdle
            ELSE [@ EXCEPT !.pc = "revise"]]
    /\ UNCHANGED <<comments, crevisions, itemLive>>

\* revisionRepository.Create: a deletion keeps no body.
ReviseComment(u) ==
    LET r == creq[u]
    IN  IF r.op = "update" THEN CRevision("update", u, r.body) ELSE CRevision("delete", u, NoBody)

\* The revision is inserted and the transaction is committed.
CommitComment(u) ==
    LET r == creq[u]
    IN  /\ r.pc = "revise" /\ Len(crevisions[r.c]) < MaxRevisions
        /\ crevisions' = [crevisions EXCEPT ![r.c] = Append(@, ReviseComment(u))]
        /\ comments' = IF ~r.locked THEN comments
                       ELSE [comments EXCEPT ![r.c] = IF r.op = "update" THEN [body |-> r.body, deleted |-> FALSE]
                                                      ELSE [@ EXCEPT !.deleted = TRUE]]
        /\ creq' = [creq EXCEPT ![u] = CIdle]
        /\ UNCHANGED itemLive

\* An error, the timeout of the transaction or a crash rolls it back.
RollBackComment(u) ==
    /\ creq[u].pc \in {"find", "write", "revise"}
    /\ creq' = [creq EXCEPT ![u] = CIdle]
    /\ UNCHANGED <<comments, crevisions, itemLive>>

CommentsNext ==
    \/ DeleteItem
    \/ \E u \in Authors :
        \/ \E c \in CommentIDs : \/ \E b \in Bodies : CreateComment(u, c, b) \/ LoadComment(u, c, "update", b)
                                 \/ LoadComment(u, c, "delete", NoBody)
        \/ FindComment(u) \/ WriteComment(u) \/ CommitComment(u) \/ RollBackComment(u)

CommentsSpec == CommentsInit /\ [][CommentsNext]_commentVars

-------------------------------------------------------------------------------

\* Type invariant.
CommentsTypeOK ==
    /\ comments \in [CommentIDs -> [body : Bodies \cup {NoBody}, deleted : BOOLEAN]]
    /\ crevisions \in [CommentIDs -> Seq([type : {"create", "update", "delete"}, modifier : Authors,
                                          body : Bodies \cup {NoBody}])]
    /\ \A u \in Authors : creq[u].pc # "idle" => creq[u].c \in CommentIDs /\ CExists(creq[u].c)
    /\ \A u, v \in Authors : creq[u].locked /\ creq[v].locked /\ creq[u].c = creq[v].c => u = v

\* Revisions tell what became of a comment, although it is loaded, looked up and written
\* in different steps while others change it: the first one is its creation, the last
\* one has the body of a comment that is live, and once a comment is deleted nothing but
\* further deletions is recorded, nor does it come back.
RevisionsTellTheBody ==
    \A c \in CommentIDs :
        LET revs == crevisions[c]
            last == revs[Len(revs)]
        IN  CExists(c) =>
                /\ \A i \in DOMAIN revs : revs[i].type = "create" <=> i = 1
                /\ comments[c].deleted <=> last.type = "delete"
                /\ ~comments[c].deleted => last.body = comments[c].body
                /\ \A i, j \in DOMAIN revs : i < j /\ revs[i].type = "delete" => revs[j].type = "delete"

\* Whoever is named by a revision of somebody else's comment is a collaborator of the space.
OnlyCollaboratorsModerate ==
    \A c \in CommentIDs : \A i \in DOMAIN crevisions[c] :
        crevisions[c][i].modifier # Creators[c] => crevisions[c][i].modifier \in Collaborators

\* The revisions of a comment tell who has changed it into what, and nobody has done so
\* without the right to.
CommentsAreAccountable == CommentsTypeOK /\ RevisionsTellTheBody /\ OnlyCollaboratorsModerate
===============================================================================
