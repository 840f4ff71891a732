------------------------------ MODULE Iterations ------------------------------
(***************************************************************************)
(* Iterations: the tree of a space's iterations, kept as paths             *)
(* (iteration/iteration.go, controller/iteration.go,                       *)
(* controller/space_iterations.go), the work items that are assigned to    *)
(* them and the counts that are shown beside them.                         *)
(*                                                                         *)
(* CreateChild and Update load an iteration in one transaction and write   *)
(* in another; a request is cut there, and between the checks and the      *)
(* writes of the writing transaction.  Dates and descriptions play no part *)
(* in any rule and are left out; authorization can only refuse.            *)
(***************************************************************************)
EXTENDS Naturals, FiniteSets, SequencesExt

CONSTANTS
    IDs,            \* iteration ids
    Roots,          \* Roots[s]: the root iteration of a space, created with it
    Spaces,
    Names,
    Items,          \* work items
    Home,           \* Home[i]: the space of a work item (work_items.space_id)
    Clients,
    Updates,        \* what update requests ask for: name, state, parent (None: no change)
    MaxRequests,    \* bound on the number of requests
    None

ASSUME IterationsAssumption ==
    /\ Roots \in [Spaces -> IDs]
    /\ \A s, t \in Spaces : Roots[s] = Roots[t] => s = t
    /\ Home \in [Items -> Spaces]
    /\ Names # {}
    /\ Updates \subseteq [name : Names \cup {None}, state : {"new", "start", "close", None},
                           parent : IDs \cup {None}]
    /\ MaxRequests \in Nat
    /\ None \notin IDs \cup Names

VARIABLES
    itr,            \* rows of iterations, soft-deleted ones included
    wi,             \* wi[i]: iteration, version and liveness of a work item
    pc, loc,        \* where a request is, what it has read and was asked to do
    overlap,        \* two requests have been under way at the same time
    requests        \* how many requests have arrived

vars == <<itr, wi, pc, loc, overlap, requests>>

Rows == DOMAIN itr
Live == {i \in Rows : itr[i].live}

\* The root iteration is created with its space and named after it.
Init ==
    /\ itr = [i \in {Roots[s] : s \in Spaces} |->
                [path |-> <<i>>, space |-> CHOOSE s \in Spaces : Roots[s] = i,
                 name |-> CHOOSE n \in Names : TRUE, state |-> "new", live |-> TRUE]]
    /\ wi = [i \in Items |-> [iteration |-> Roots[Home[i]], version |-> 0, live |-> TRUE]]
    /\ pc = [c \in Clients |-> "idle"]
    /\ loc = [c \in Clients |-> None]
    /\ overlap = FALSE
    /\ requests = 0

-------------------------------------------------------------------------------
(* Paths and the repository *)

ParentID(path) == IF Len(path) > 1 THEN path[Len(path) - 1] ELSE None

ParentPath(path) == IF path = <<>> THEN <<>> ELSE Front(path)

MakeChildOf(row, id, parent) == [row EXCEPT !.path = Append(parent.path, id)]

\* len(m.Path) == 1 && m.Path[0] == m.ID
IsRoot(id) == itr[id].path = <<id>>

\* path ~ 'P.*{1,}': everything below the path, deleted rows hidden by gorm.
LoadChildren(id) == {i \in Live : IsStrictPrefix(itr[id].path, itr[i].path)}

\* iterations_name_space_id_path_unique: live iterations with the same parent path
\* have different names.  (The lca of a path with itself is its parent path.)
UniqueNames(rows) ==
    \A i, j \in DOMAIN rows :
        /\ i # j /\ rows[i].live /\ rows[j].live
        /\ rows[i].space = rows[j].space
        /\ ParentPath(rows[i].path) = ParentPath(rows[j].path)
        => rows[i].name # rows[j].name

\* CanStart: not the root, and no live iteration of the space is running.
CanStart(id) ==
    /\ ~IsRoot(id)
    /\ ~\E i \in Live : itr[i].space = itr[id].space /\ itr[i].state = "start"

\* Mutant of Save: First and Save unscoped, so that a deleted row is found.
SaveUnscoped(rows) ==
    /\ DOMAIN rows \subseteq Rows
    /\ itr' = [i \in Rows |-> IF i \in DOMAIN rows THEN rows[i] ELSE itr[i]]
    /\ UniqueNames(itr')

\* Save of several rows, one after the other: each must still be live (First), all
\* its columns are overwritten with the copy, no version is compared.
Save(rows) ==
    /\ DOMAIN rows \subseteq Live
    /\ itr' = [i \in Rows |-> IF i \in DOMAIN rows THEN rows[i] ELSE itr[i]]
    /\ UniqueNames(itr')

\* Delete of several rows: RowsAffected == 0, for one that is gone, is an error.
Delete(ids) ==
    /\ ids \subseteq Live
    /\ itr' = [i \in Rows |-> IF i \in ids THEN [itr[i] EXCEPT !.live = FALSE] ELSE itr[i]]

\* Create: a new row in state "new" whose path ends in its id.
Create(id, row) ==
    /\ Last(row.path) = id
    /\ itr' = [i \in Rows \cup {id} |-> IF i = id THEN row ELSE itr[i]]
    /\ UniqueNames(itr')

-------------------------------------------------------------------------------
(* Requests *)

Begin(c, label, local) ==
    /\ pc[c] = "idle"
    /\ requests < MaxRequests
    /\ requests' = requests + 1
    /\ pc' = [pc EXCEPT ![c] = label]
    /\ loc' = [loc EXCEPT ![c] = local]
    /\ overlap' = (overlap \/ \E o \in Clients \ {c} : pc[o] # "idle")
    /\ UNCHANGED <<itr, wi>>

End(c) ==
    /\ pc' = [pc EXCEPT ![c] = "idle"]
    /\ loc' = [loc EXCEPT ![c] = None]
    /\ UNCHANGED <<overlap, requests>>

\* An error is returned: the transaction is rolled back.
Refuse(c) == pc[c] # "idle" /\ End(c) /\ UNCHANGED <<itr, wi>>

\* CreateChild, first transaction: the parent is loaded, and the new iteration's path
\* is made from what it is now.
CreateLoad(c) ==
    \E parent \in Live, id \in IDs \ Rows, n \in Names :
        Begin(c, "create",
              [id |-> id,
               row |-> MakeChildOf([itr[parent] EXCEPT !.name = n, !.state = "new"],
                                   id, itr[parent])])

\* Root: the live iteration of a space whose path has one element.
Root(s) == CHOOSE i \in Live : itr[i].space = s /\ Len(itr[i].path) = 1

\* SpaceIterations.Create puts a new iteration under the root of the space.
CreateUnderRoot(c) ==
    \E s \in Spaces, id \in IDs \ Rows, n \in Names :
        Begin(c, "create",
              [id |-> id,
               row |-> MakeChildOf([itr[Root(s)] EXCEPT !.name = n, !.state = "new"],
                                   id, itr[Root(s)])])

\* The insert, in CreateChild the second transaction.
CreateInsert(c) ==
    /\ pc[c] = "create"
    /\ loc[c].id \notin Rows
    /\ Create(loc[c].id, loc[c].row)
    /\ End(c) /\ UNCHANGED wi

\* Update, first transaction: a copy of the iteration is loaded.  The request asks for
\* a name, a state or a new parent, or for several of them.
UpdateLoad(c) ==
    \E id \in Live, u \in Updates :
        Begin(c, "check", [id |-> id, row |-> itr[id],
                           name |-> u.name, state |-> u.state, parent |-> u.parent])

\* Mutant of ParentAllowed: the spaces are not compared.
ParentAllowedAnySpace(id, copy, p) ==
    /\ copy.path # <<id>>
    /\ p # id
    /\ {p, id} \subseteq Live
    /\ p \notin LoadChildren(id)

\* The rules for a new parent: not of the root, not the iteration itself, live, of the
\* same space, and not below the iteration (LoadChildren, which loads it again).
ParentAllowed(id, copy, p) ==
    /\ copy.path # <<id>>
    /\ p # id
    /\ p \in Live
    /\ itr[p].space = copy.space
    /\ id \in Live
    /\ p \notin LoadChildren(id)

\* Update, second transaction, up to the first write: CanStart, the new parent and the
\* subtree are read, and the copy is changed.
UpdateCheck(c) ==
    /\ pc[c] = "check"
    /\ LET l == loc[c]
           moved == l.parent # None
           named == IF l.name = None THEN l.row ELSE [l.row EXCEPT !.name = l.name]
           stated == IF l.state = None THEN named ELSE [named EXCEPT !.state = l.state]
           row == IF moved THEN MakeChildOf(stated, l.id, itr[l.parent]) ELSE stated
           subtree == IF moved THEN LoadChildren(l.id) ELSE {}
       IN /\ l.state = "start" => CanStart(l.id)
          /\ moved => ParentAllowed(l.id, l.row, l.parent)
          /\ pc' = [pc EXCEPT ![c] = "save"]
          /\ loc' = [loc EXCEPT ![c] =
                      [id |-> l.id, row |-> row, subtree |-> [i \in subtree |-> itr[i]]]]
    /\ UNCHANGED <<itr, wi, overlap, requests>>

\* Update, second transaction: the copy is saved, then every iteration of the old
\* subtree becomes a direct child of it, whatever its place was.
UpdateSave(c) ==
    /\ pc[c] = "save"
    /\ LET l == loc[c] IN
         Save([i \in DOMAIN l.subtree \cup {l.id} |->
                 IF i = l.id THEN l.row ELSE MakeChildOf(l.subtree[i], i, l.row)])
    /\ End(c) /\ UNCHANGED wi

\* Delete, the reads: not the root; its subtree and its parent are loaded.
DeleteLoad(c) ==
    \E id \in Live :
        /\ ~IsRoot(id)
        /\ ParentID(itr[id].path) \in Live
        /\ Begin(c, "delete", [id |-> id, subtree |-> LoadChildren(id) \cup {id},
                               parent |-> ParentID(itr[id].path)])

LoadByIteration(id) == {i \in Items : wi[i].live /\ wi[i].iteration = id}

\* Delete, the writes: the work items of the whole subtree move to the parent, each
\* with a new version, and the subtree is deleted; if somebody else has deleted a
\* part of it meanwhile the request fails.
DeleteApply(c) ==
    /\ pc[c] = "delete"
    /\ LET l == loc[c] IN
         /\ Delete(l.subtree)
         /\ wi' = [i \in Items |->
                     IF \E d \in l.subtree : i \in LoadByIteration(d)
                        THEN [wi[i] EXCEPT !.iteration = l.parent, !.version = @ + 1] ELSE wi[i]]
    /\ End(c)

\* PATCH of a work item: its version is read and the iteration must exist (live, of
\* whatever space); without one in the request the root is taken.
AssignCheck(c) ==
    \E i \in Items, id \in Live :
        /\ wi[i].live
        /\ Begin(c, "assign", [item |-> i, iteration |-> id, version |-> wi[i].version])

\* The save decides by the version of the work item, not by the iteration.
AssignSave(c) ==
    /\ pc[c] = "assign"
    /\ LET l == loc[c] IN
         /\ wi[l.item].live /\ wi[l.item].version = l.version
         /\ wi' = [wi EXCEPT ![l.item] = [iteration |-> l.iteration, version |-> l.version + 1,
                                          live |-> TRUE]]
    /\ End(c) /\ UNCHANGED itr

\* A work item is soft-deleted and keeps its fields.
DeleteWorkItem ==
    /\ \E i \in Items : wi[i].live /\ wi' = [wi EXCEPT ![i].live = FALSE]
    /\ UNCHANGED <<itr, pc, loc, overlap, requests>>

Next ==
    \/ \E c \in Clients :
         \/ CreateLoad(c) \/ CreateUnderRoot(c) \/ CreateInsert(c)
         \/ UpdateLoad(c) \/ UpdateCheck(c) \/ UpdateSave(c)
         \/ DeleteLoad(c) \/ DeleteApply(c)
         \/ AssignCheck(c) \/ AssignSave(c)
         \/ Refuse(c)
    \/ DeleteWorkItem

Spec == Init /\ [][Next]_vars

-------------------------------------------------------------------------------
(* Counts *)

\* Mutant of Assigned: work items of every space.
AssignedAnySpace(id) == {i \in Items : wi[i].live /\ wi[i].iteration = id}

\* GetCountsPerIteration: per row of the space (live or not) the live work items of
\* the same space that are assigned to it, then those of every row below it are added.
Assigned(id) == {i \in Items : wi[i].live /\ wi[i].iteration = id /\ Home[i] = itr[id].space}
Below(id) == {i \in Rows : itr[i].space = itr[id].space /\ IsStrictPrefix(itr[id].path, itr[i].path)}

CountsPerIteration(id) == Cardinality(UNION {Assigned(i) : i \in Below(id) \cup {id}})

\* GetCountsForIteration: its WHERE reads "a OR b OR c AND deleted_at IS NULL", in
\* which AND binds tighter: only the last id, the iteration's own, excludes deleted
\* work items; but the rows below include the iteration itself (<@).
CountsForIteration(id) ==
    Cardinality({i \in Items :
        \/ wi[i].iteration \in Below(id) \cup {id}
        \/ wi[i].iteration = id /\ wi[i].live})

-------------------------------------------------------------------------------
(* Properties *)

TypeOK ==
    /\ Rows \subseteq IDs
    /\ \A i \in Rows :
         /\ itr[i].path \in Seq(IDs) /\ Last(itr[i].path) = i
         /\ itr[i].space \in Spaces /\ itr[i].name \in Names
         /\ itr[i].state \in {"new", "start", "close"} /\ itr[i].live \in BOOLEAN
    /\ \A i \in Items : wi[i].iteration \in Rows /\ wi[i].version \in Nat
    /\ pc \in [Clients -> {"idle", "create", "check", "save", "delete", "assign"}]
    /\ overlap \in BOOLEAN

\* A path never leaves its space and always starts at the space's root, although paths
\* are copied from parents that may be moved, deleted or replaced meanwhile.
PathsStayInSpace ==
    \A i \in Rows :
        /\ Head(itr[i].path) = Roots[itr[i].space]
        /\ \A k \in 1 .. Len(itr[i].path) :
             itr[i].path[k] \in Rows /\ itr[itr[i].path[k]].space = itr[i].space

\* Whatever requests overlap, iterations keep paths inside the space they belong to.
PathsAreSound == TypeOK /\ PathsStayInSpace

\* While requests do not overlap the paths are a tree: what is above a live iteration
\* is exactly the path of a live iteration, after any sequence of creations, moves
\* (which flatten the moved subtree) and deletions of subtrees.
SerialTree ==
    ~overlap => \A i \in Live : itr[i].path # <<i>> =>
        /\ ParentID(itr[i].path) \in Live
        /\ itr[ParentID(itr[i].path)].path = ParentPath(itr[i].path)

\* While requests do not overlap at most one iteration of a space is running.
SerialOneRunning ==
    ~overlap => \A i, j \in Live :
        itr[i].state = "start" /\ itr[j].state = "start" /\ itr[i].space = itr[j].space => i = j

\* While requests do not overlap no live work item is left in a deleted iteration,
\* however large the deleted subtree was.
SerialAssignments == ~overlap => \A i \in Items : wi[i].live => wi[i].iteration \in Live

\* A deleted iteration is never brought back by a request that had loaded it before.
DeletedStaysDeleted == [][\A i \in Rows : ~itr[i].live => ~itr'[i].live]_vars

\* The counts of a space's list: a live iteration shows the live work items of its space
\* that are assigned to it or to a live iteration below it, each once.  A work item that
\* was given an iteration of another space, which AssignCheck allows, is in no list.
SerialCounts ==
    ~overlap => \A id \in Live :
        CountsPerIteration(id) =
            Cardinality({i \in Items : /\ wi[i].live /\ Home[i] = itr[id].space
                                       /\ wi[i].iteration \in LoadChildren(id) \cup {id}})

\* As long as requests do not overlap: the paths are a tree, one iteration of a space runs,
\* live work items are in live iterations and those of the space are counted once, after any
\* sequence of moves, deletions, assignments across spaces and changes of state.
SerialConsistency == SerialTree /\ SerialOneRunning /\ SerialAssignments /\ SerialCounts

-------------------------------------------------------------------------------
(* What the code and its comments claim and the model refutes *)

\* "Only one iteration from a space can have state=start at a time."
OneRunning ==
    \A i, j \in Live :
        itr[i].state = "start" /\ itr[j].state = "start" /\ itr[i].space = itr[j].space => i = j

\* "WHERE fields->>'system.iteration' IN (...) AND wi.deleted_at IS NULL": deleted work
\* items are not counted.
DeletedNotCounted ==
    \A id \in Live : CountsForIteration(id) <= Cardinality({i \in Items : wi[i].live})
===============================================================================
