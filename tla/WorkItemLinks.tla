---------------------------- MODULE WorkItemLinks ----------------------------
(***************************************************************************)
(* Work item links: the requests that create and delete them and that      *)
(* delete work items (controller/work_item_link.go, controller/workitem.go *)
(* Delete, workitem/link/link_repository.go), running concurrently against *)
(* one PostgreSQL database in READ COMMITTED isolation.                    *)
(*                                                                         *)
(* A request is cut where another one can get in between: at every read    *)
(* whose result is used later and at the advisory lock.  What a            *)
(* transaction writes is invisible to the others until it commits, and     *)
(* nothing it does after its first write depends on what others do, so its *)
(* writes and its commit are one action.  A soft-deleted row keeps its     *)
(* place in its table: foreign keys still find it, gorm queries do not.    *)
(*                                                                         *)
(* The answer a client gets is not kept; who may do what is left open (any *)
(* outcome of the authorization checks is allowed).                        *)
(***************************************************************************)
EXTENDS LinkTopology, Sequences

CONSTANTS
    Existing,       \* the Items that are rows of work_items at the start
    Deletable,      \* the Items that clients delete
    Spaces,
    SpaceOf,        \* SpaceOf[i]: the space_id of a work item
    LinkTypes,
    Topology,       \* Topology[t]: "tree", "dependency", "network" or "directed_network"
    Clients,        \* concurrent requests
    MaxLinks,       \* bound on the number of links ever created
    None            \* no client, no space, no request

ASSUME LinksAssumption ==
    /\ Existing \subseteq Items
    /\ Deletable \subseteq Items
    /\ SpaceOf \in [Items -> Spaces]
    /\ Topology \in [LinkTypes -> {"tree", "dependency", "network", "directed_network"}]
    /\ MaxLinks \in Nat
    /\ None \notin Clients \cup Spaces

VARIABLES
    wiLive,         \* work items that exist and are not soft-deleted
    links,          \* rows of work_item_links, soft-deleted ones included
    live,           \* ids of the links whose deleted_at is NULL
    revisions,      \* revisions[id]: types of the work_item_link_revisions of a link, in order
    lock,           \* lock[s]: holder of the advisory lock "links-<s>"
    pc,             \* where each request is
    req,            \* what a request is about: a new link, a link id or a work item
    space,          \* the space whose lock the request takes
    seen            \* ids of the links a work item deletion has read

vars == <<wiLive, links, live, revisions, lock, pc, req, space, seen>>
tables == <<wiLive, links, live, revisions>>

LinkIDs == 1 .. MaxLinks
NewLink == [source : Items, target : Items, type : LinkTypes]
Link == [id : LinkIDs, source : Items, target : Items, type : LinkTypes]

\* Labels: cr_ = create a link, dl_ = delete a link, dw_ = delete a work item.
CreatePCs == {"cr_lock", "cr_validate", "cr_insert"}
DeleteLinkPCs == {"dl_find", "dl_lock", "dl_delete"}
DeleteItemPCs == {"dw_read", "dw_lock", "dw_delete", "dw_nolock"}
PCs == {"idle"} \cup CreatePCs \cup DeleteLinkPCs \cup DeleteItemPCs

LockPCs == {"cr_lock", "dl_lock", "dw_lock"}
LockedPCs == {"cr_validate", "cr_insert", "dl_delete", "dw_delete"}
AfterLock == [cr_lock |-> "cr_validate", dl_lock |-> "dl_delete", dw_lock |-> "dw_delete"]

\* The live links of a type, as every query of the repository sees them.
LinksOfType(t) == {l \in links : l.id \in live /\ l.type = t}

Init ==
    /\ wiLive = Existing
    /\ links = {}
    /\ live = {}
    /\ revisions = [id \in LinkIDs |-> <<>>]
    /\ lock = [s \in Spaces |-> None]
    /\ pc = [c \in Clients |-> "idle"]
    /\ req = [c \in Clients |-> None]
    /\ space = [c \in Clients |-> None]
    /\ seen = [c \in Clients |-> {}]

Goto(c, label) == pc' = [pc EXCEPT ![c] = label]

\* The transaction of c ends, by commit or rollback, and c answers its client.
\* Ending the transaction releases the advisory lock.
Answer(c) ==
    /\ pc' = [pc EXCEPT ![c] = "idle"]
    /\ req' = [req EXCEPT ![c] = None]
    /\ space' = [space EXCEPT ![c] = None]
    /\ seen' = [seen EXCEPT ![c] = {}]
    /\ lock' = [s \in Spaces |-> IF lock[s] = c THEN None ELSE lock[s]]

\* Mutant of Rollback: a session-level lock that the rollback does not release.
RollbackKeepsLock(c) ==
    /\ pc' = [pc EXCEPT ![c] = "idle"]
    /\ req' = [req EXCEPT ![c] = None]
    /\ space' = [space EXCEPT ![c] = None]
    /\ seen' = [seen EXCEPT ![c] = {}]
    /\ UNCHANGED <<lock, tables>>

Rollback(c) == Answer(c) /\ UNCHANGED tables

-------------------------------------------------------------------------------
(* POST /workitemlinks *)

\* The request arrives and its transaction loads source and target (both in one
\* query, without a lock).  A work item that does not exist or is soft-deleted
\* is not in the result; if neither is, items[0] panics, and Transactional
\* recovers and rolls back, as it does after the cross-space error.
CreateLoad(c) ==
    /\ pc[c] = "idle"
    /\ \E new \in NewLink :
         LET found == {SpaceOf[i] : i \in {new.source, new.target} \cap wiLive} IN
         \E s \in found :
           /\ found = {s}
           /\ req' = [req EXCEPT ![c] = new]
           /\ space' = [space EXCEPT ![c] = s]
    /\ Goto(c, "cr_lock")
    /\ UNCHANGED <<tables, lock, seen>>

\* Mutant of AcquireLock: nobody waits for the lock.
AcquireLockNoWait(c) ==
    /\ pc[c] \in LockPCs
    /\ lock' = [lock EXCEPT ![space[c]] = c]
    /\ Goto(c, AfterLock[pc[c]])
    /\ UNCHANGED <<tables, req, space, seen>>

\* acquireLock: pg_advisory_xact_lock on the hash of the space's name blocks until
\* the transaction that holds it ends.
AcquireLock(c) ==
    /\ pc[c] \in LockPCs
    /\ lock[space[c]] = None
    /\ lock' = [lock EXCEPT ![space[c]] = c]
    /\ Goto(c, AfterLock[pc[c]])
    /\ UNCHANGED <<tables, req, space, seen>>

\* HasParent: some live link of this type leads to the child.
HasParent(child, t) == \E l \in LinksOfType(t) : l.target = child

\* DetectCycle: the new link's target is among the ancestors of its source.
DetectCycle(source, target, t) == target \in Ancestors(LinksOfType(t), source)

\* ValidateTopology: the new link breaks no rule of its type's topology.
TopologyAllows(new) ==
    /\ Topology[new.type] = "tree" => ~HasParent(new.target, new.type)
    /\ Topology[new.type] \in {"tree", "dependency"} =>
         ~DetectCycle(new.source, new.target, new.type)

\* Mutant of ValidateTopology: the lock is given back before the insert.
ValidateTopologyUnlocks(c) ==
    /\ pc[c] = "cr_validate"
    /\ IF TopologyAllows(req[c])
          THEN /\ Goto(c, "cr_insert")
               /\ lock' = [lock EXCEPT ![space[c]] = None]
               /\ UNCHANGED <<tables, req, space, seen>>
          ELSE Rollback(c)

ValidateTopology(c) ==
    /\ pc[c] = "cr_validate"
    /\ IF TopologyAllows(req[c])
          THEN Goto(c, "cr_insert") /\ UNCHANGED <<tables, lock, req, space, seen>>
          ELSE Rollback(c)

\* The primary key of the next row (a generated UUID in the code).
FreshIDs == LET used == {l.id : l \in links} IN
            {id \in LinkIDs : id \notin used /\ \A j \in LinkIDs : j < id => j \in used}

\* work_item_links_unique_idx: a live link with the same source, target and type.
LinkExists(new) ==
    \E l \in LinksOfType(new.type) : l.source = new.source /\ l.target = new.target

\* INSERT INTO work_item_links with its "create" revision, and the commit.  The
\* foreign keys refuse a work item that is no row at all, the partial unique
\* index a second live link.  (FreshIDs is empty at the bound MaxLinks only.)
InsertLink(c) ==
    /\ pc[c] = "cr_insert"
    /\ IF {req[c].source, req[c].target} \subseteq Existing /\ ~LinkExists(req[c]) /\ FreshIDs # {}
          THEN \E id \in FreshIDs :
                 /\ links' = links \cup {[id |-> id, source |-> req[c].source,
                                          target |-> req[c].target, type |-> req[c].type]}
                 /\ live' = live \cup {id}
                 /\ revisions' = [revisions EXCEPT ![id] = Append(@, "create")]
                 /\ UNCHANGED wiLive
                 /\ Answer(c)
          ELSE Rollback(c)

-------------------------------------------------------------------------------
(* DELETE /workitemlinks/:id *)

\* Mutant of DeleteLinks: RowsAffected is not looked at.
DeleteLinksAlwaysRevision(ids) ==
    /\ live' = live \ ids
    /\ revisions' = [id \in LinkIDs |-> IF id \in ids
                                           THEN Append(revisions[id], "delete")
                                           ELSE revisions[id]]
    /\ UNCHANGED links

\* deleteLink for every link of ids that is still live when the statement runs: the
\* soft delete and a "delete" revision.  For a link that somebody else has
\* deleted meanwhile the statement affects no row and no revision is written;
\* the callers ignore the error.
DeleteLinks(ids) ==
    /\ live' = live \ ids
    /\ revisions' = [id \in LinkIDs |-> IF id \in ids \cap live
                                           THEN Append(revisions[id], "delete")
                                           ELSE revisions[id]]
    /\ UNCHANGED links

\* checkIfUserIsSpaceCollaboratorOrWorkItemCreator, a transaction of its own: the
\* link and its source must be live; unless the user is the source's creator or
\* owns its space the target must be live too.  A refusal changes nothing.
AuthorizeDeleteLink(c) ==
    /\ pc[c] = "idle"
    /\ \E l \in links, bySource \in BOOLEAN :
         /\ l.id \in live /\ l.source \in wiLive
         /\ ~bySource => l.target \in wiLive
         /\ req' = [req EXCEPT ![c] = l.id]
    /\ Goto(c, "dl_find")
    /\ UNCHANGED <<tables, lock, space, seen>>

\* Delete reads the link again, in a new transaction, and its source, whose space
\* names the lock; either may be gone by now.
FindLink(c) ==
    /\ pc[c] = "dl_find"
    /\ IF \E l \in links : l.id = req[c] /\ l.id \in live /\ l.source \in wiLive
          THEN /\ \E l \in links : l.id = req[c] /\ space' = [space EXCEPT ![c] = SpaceOf[l.source]]
               /\ Goto(c, "dl_lock")
               /\ UNCHANGED <<tables, lock, req, seen>>
          ELSE Rollback(c)

\* With the lock held the link is soft-deleted (if it still is there), and commit.
DeleteLink(c) ==
    /\ pc[c] = "dl_delete"
    /\ DeleteLinks({req[c]})
    /\ UNCHANGED wiLive
    /\ Answer(c)

-------------------------------------------------------------------------------
(* DELETE /workitems/:id *)

\* A first transaction loads the work item and the user's right to delete it is
\* checked.
LoadForDelete(c) ==
    /\ pc[c] = "idle"
    /\ \E i \in wiLive \cap Deletable : req' = [req EXCEPT ![c] = i]
    /\ Goto(c, "dw_read")
    /\ UNCHANGED <<tables, lock, space, seen>>

\* DeleteRelatedLinks reads the live links of the work item, without a lock.  With
\* no link it takes none; else the source of the first one, in no particular
\* order, names the space to lock, and if it is soft-deleted the request fails.
ReadRelatedLinks(c) ==
    /\ pc[c] = "dw_read"
    /\ LET related == {l \in links : l.id \in live /\ req[c] \in {l.source, l.target}} IN
         \/ /\ related = {}
            /\ Goto(c, "dw_nolock")
            /\ UNCHANGED <<tables, lock, req, space, seen>>
         \/ \E first \in related :
              IF first.source \in wiLive
                 THEN /\ seen' = [seen EXCEPT ![c] = {l.id : l \in related}]
                      /\ space' = [space EXCEPT ![c] = SpaceOf[first.source]]
                      /\ Goto(c, "dw_lock")
                      /\ UNCHANGED <<tables, lock, req>>
                 ELSE Rollback(c)

\* The links that were read are deleted one by one, then the work item itself, then
\* the commit.  If the work item was deleted meanwhile, everything is rolled back.
DeleteWorkItem(c) ==
    /\ pc[c] \in {"dw_delete", "dw_nolock"}
    /\ IF req[c] \in wiLive
          THEN /\ DeleteLinks(seen[c])
               /\ wiLive' = wiLive \ {req[c]}
               /\ Answer(c)
          ELSE Rollback(c)

-------------------------------------------------------------------------------
\* Transactional gives up after databaseTransactionTimeout, or a statement fails:
\* the open transaction is rolled back wherever it is.
Timeout(c) == pc[c] # "idle" /\ Rollback(c)

Proceed(c) ==
    \/ AcquireLock(c) \/ ValidateTopology(c) \/ InsertLink(c)
    \/ FindLink(c) \/ DeleteLink(c)
    \/ ReadRelatedLinks(c) \/ DeleteWorkItem(c)

Arrive(c) == CreateLoad(c) \/ AuthorizeDeleteLink(c) \/ LoadForDelete(c)

Next == \E c \in Clients : Arrive(c) \/ Proceed(c) \/ Timeout(c)

\* A request that is being served goes on: its goroutine runs, and PostgreSQL hands
\* the advisory lock to its waiters in turn.  Nothing makes requests arrive.
Fairness == \A c \in Clients : WF_vars(Proceed(c)) /\ SF_vars(AcquireLock(c))

Spec == Init /\ [][Next]_vars /\ Fairness

-------------------------------------------------------------------------------
(* Queries *)

\* listItemsFromDB with parentExists = false: the subquery on work_item_links does
\* not look at deleted_at.
ListParentless(t) == {i \in wiLive : ~\E l \in links : l.type = t /\ l.target = i}

-------------------------------------------------------------------------------
(* Properties *)

TypeOK ==
    /\ wiLive \subseteq Existing
    /\ links \subseteq Link
    /\ live \subseteq {l.id : l \in links}
    /\ revisions \in [LinkIDs -> Seq({"create", "delete"})]
    /\ lock \in [Spaces -> Clients \cup {None}]
    /\ pc \in [Clients -> PCs]
    /\ space \in [Clients -> Spaces \cup {None}]
    /\ seen \in [Clients -> SUBSET LinkIDs]
    /\ DOMAIN req = Clients
    /\ \A c \in Clients :
         /\ pc[c] \in CreatePCs => req[c] \in NewLink
         /\ pc[c] \in DeleteLinkPCs => req[c] \in LinkIDs
         /\ pc[c] \in DeleteItemPCs => req[c] \in Items

\* The links of a type between work items of space s.
SpaceLinks(s, t) == {l \in LinksOfType(t) : SpaceOf[l.source] = s /\ SpaceOf[l.target] = s}

\* In a tree topology no work item ever has two parents in its space, however the
\* check in ValidateTopology and the insert interleave with other requests.
TreeHasSingleParents ==
    \A s \in Spaces, t \in LinkTypes : Topology[t] = "tree" => SingleParent(SpaceLinks(s, t))

\* In tree and dependency topologies the links of a space never form a cycle, but
\* for links of a work item to itself (see NoCycles).
NoCyclesButSelfLinks ==
    \A s \in Spaces, t \in LinkTypes : Topology[t] \in {"tree", "dependency"} =>
        Acyclic(WithoutSelfLinks(SpaceLinks(s, t)))

\* The links of a topology have the shape that ValidateTopology promises, although it
\* checks what other requests are changing: in a tree nobody has two parents, and no cycle
\* runs through two work items.
LinksSafe == TypeOK /\ TreeHasSingleParents /\ NoCyclesButSelfLinks

\* "cross-space links are not allowed": no live link joins live work items of
\* different spaces, although the spaces are compared before the lock is taken.
NoCrossSpaceLinks ==
    \A l \in links : l.id \in live /\ {l.source, l.target} \subseteq wiLive =>
        SpaceOf[l.source] = SpaceOf[l.target]

\* The revisions tell the life of every link: created once, and deleted once if it
\* is deleted, even when two requests delete it at the same time.
RevisionsTellTheStory ==
    \A l \in links : revisions[l.id] = IF l.id \in live THEN <<"create">>
                                                        ELSE <<"create", "delete">>

\* What is stored about links is true: their ends are in one space, and the revisions tell
\* the life of each link, whichever requests create and delete it.
LinksTruthful == NoCrossSpaceLinks /\ RevisionsTellTheStory

\* The requests, cut into steps and interleaved, implement LinkGraph: between the
\* validation and the commit of one request no other spoils what was validated.
SameSpaceLinks == {l \in links : l.id \in live /\ SpaceOf[l.source] = SpaceOf[l.target]}
Graph == INSTANCE LinkGraph WITH graph <- SameSpaceLinks
ImplementsLinkGraph == Graph!Spec

\* Every request is answered: nobody waits for a lock for ever.
RequestsAnswered == \A c \in Clients : pc[c] # "idle" ~> pc[c] = "idle"

-------------------------------------------------------------------------------
(* What the code, its comments, its API and its tests claim and the model refutes *)

\* "Check to disallow cycles in tree and dependency topologies": no cycle at all,
\* a link of a work item to itself included.
NoCycles ==
    \A t \in LinkTypes : Topology[t] \in {"tree", "dependency"} => Acyclic(LinksOfType(t))

\* A deleted work item has no links left: its deletion "deletes all links in which
\* the source or target equals the given work item ID".
NoLinksOfDeletedItems ==
    \A l \in links : l.id \in live => {l.source, l.target} \subseteq wiLive

\* filter[parentexists]: "if false list work items without any parent".
ParentlessAreListed ==
    \A t \in LinkTypes : ListParentless(t) = {i \in wiLive : ~HasParent(i, t)}
===============================================================================
