---------------------------- MODULE WorkItemOrder ----------------------------
(***************************************************************************)
(* The order of the work items in a space: the column execution_order that *)
(* Create and Reorder compute (workitem/workitem_repository.go).  The      *)
(* higher the order, the further up.                                       *)
(*                                                                         *)
(* Every query is a step of its own, in READ COMMITTED isolation.  The     *)
(* subqueries for the highest, lowest or next order look at all rows of    *)
(* the space, deleted ones included; the query around them looks at live   *)
(* rows only, but of every space.                                          *)
(*                                                                         *)
(* Orders are double precision numbers 1000 apart.  Here they are integers *)
(* OrderValue apart, so that an exact midpoint exists for as many moves as *)
(* OrderValue has factors of two; after that, as for double precision      *)
(* numbers later on, midpoints are rounded.                                *)
(***************************************************************************)
EXTENDS Integers, Sequences, FiniteSetsExt, SequencesExt

CONSTANTS
    Items,
    Spaces,
    Clients,        \* concurrent requests
    OrderValue,     \* the distance of two work items after their creation (orderValue)
    Directions,     \* the directions that the clients ask for
    Deletable,      \* the work items that may be deleted
    MaxBatch,       \* bound on the number of work items in a reorder request
    MaxMoves,       \* bound on the number of moves of all reorder requests
    None

ASSUME OrderAssumption ==
    /\ OrderValue \in Nat \ {0}
    /\ Directions \subseteq {"above", "below", "top", "bottom"}
    /\ Deletable \subseteq Items
    /\ MaxBatch \in Nat
    /\ MaxMoves \in Nat

VARIABLES
    rows,           \* the table work_items
    pc,             \* where each request is
    req,            \* its parameters
    item,           \* the work item that is moved, as it was read
    found,          \* the order that the first query returned
    order,          \* the order that the request has computed
    pending,        \* pending[c]: the rows that its transaction has changed (and locked)
    moves           \* counts the moves

vars == <<rows, pc, req, item, found, order, pending, moves>>

AbsentRow == [status |-> "absent", space |-> None, order |-> 0, version |-> 0]

Init ==
    /\ rows = [i \in Items |-> AbsentRow]
    /\ pc = [c \in Clients |-> "idle"]
    /\ req = [c \in Clients |-> None]
    /\ item = [c \in Clients |-> None]
    /\ found = [c \in Clients |-> 0]
    /\ order = [c \in Clients |-> 0]
    /\ pending = [c \in Clients |-> <<>>]
    /\ moves = 0

Goto(c, label) == pc' = [pc EXCEPT ![c] = label]

\* The table as the transaction of c sees it.
View(c) == [i \in Items |-> IF i \in DOMAIN pending[c] THEN pending[c][i] ELSE rows[i]]

\* The row of i is free for c.
Unlocked(c, i) == \A b \in Clients \ {c} : i \notin DOMAIN pending[b]

\* The transaction ends, and the client is answered.
Answer(c) ==
    /\ Goto(c, "idle")
    /\ req' = [req EXCEPT ![c] = None]
    /\ item' = [item EXCEPT ![c] = None]
    /\ found' = [found EXCEPT ![c] = 0]
    /\ order' = [order EXCEPT ![c] = 0]
    /\ pending' = [pending EXCEPT ![c] = <<>>]

Rollback(c) == Answer(c) /\ UNCHANGED <<rows, moves>>

-------------------------------------------------------------------------------
(* The queries *)

\* All rows of a space, the soft-deleted ones, too.
RowsOf(table, s) == {i \in Items : table[i].status # "absent" /\ table[i].space = s}

\* First with execution_order = (SELECT ...): the live rows with an order that is the
\* outcome of the subquery, if it has one (no row has the order NULL).
LiveWith(table, outcomes) == {i \in Items : table[i].status = "live" /\ table[i].order \in outcomes}

Orders(table, items) == {table[i].order : i \in items}
Highest(orders) == IF orders = {} THEN {} ELSE {Max(orders)}
Lowest(orders) == IF orders = {} THEN {} ELSE {Min(orders)}

\* Mutant of TopItems: the lowest for the highest.
TopItemsLowest(table, s) == LiveWith(table, Lowest(Orders(table, RowsOf(table, s))))

\* LoadHighestOrder and LoadTopWorkitem, LoadBottomWorkitem: what First may return.
TopItems(table, s) == LiveWith(table, Highest(Orders(table, RowsOf(table, s))))
BottomItems(table, s) == LiveWith(table, Lowest(Orders(table, RowsOf(table, s))))

\* Mutant of SecondItems: the furthest work item instead of the next one.
SecondItemsFurthest(table, s, o, direction) ==
    LET orders == Orders(table, RowsOf(table, s)) IN
    LiveWith(table, IF direction = "below" THEN Lowest({x \in orders : x < o})
                                           ELSE Highest({x \in orders : x > o}))

\* FindSecondItem: the next one below the target, or the next one above it.
SecondItems(table, s, o, direction) ==
    LET orders == Orders(table, RowsOf(table, s)) IN
    LiveWith(table, IF direction = "below" THEN Highest({x \in orders : x < o})
                                           ELSE Lowest({x \in orders : x > o}))

CalculateOrder(above, below) == (above + below) \div 2

-------------------------------------------------------------------------------
(* POST /spaces/:id/workitems *)

ReceiveCreate(c) ==
    /\ pc[c] = "idle"
    /\ \E s \in Spaces : req' = [req EXCEPT ![c] = s]
    /\ Goto(c, "cr_highest")
    /\ UNCHANGED <<rows, item, found, order, pending, moves>>

\* Create: LoadHighestOrder; that nothing is found counts as 0.
LoadHighestOrder(c) ==
    /\ pc[c] = "cr_highest"
    /\ LET top == TopItems(View(c), req[c])
           highest == IF top = {} THEN 0 ELSE Max(Orders(View(c), top)) IN
         order' = [order EXCEPT ![c] = highest + OrderValue]
    /\ Goto(c, "cr_insert")
    /\ UNCHANGED <<rows, req, item, found, pending, moves>>

\* The INSERT and the commit.  (None is left at the bound only.)
InsertWorkItem(c) ==
    /\ pc[c] = "cr_insert"
    /\ LET free == {i \in Items : rows[i] = AbsentRow} IN
         \/ \E i \in free :
              /\ rows' = [rows EXCEPT ![i] = [status |-> "live", space |-> req[c],
                                              order |-> order[c], version |-> 0]]
              /\ Answer(c)
              /\ UNCHANGED moves
         \/ free = {} /\ Rollback(c)

-------------------------------------------------------------------------------
(* PATCH /spaces/:id/workitems/reorder *)

\* The work items to move, each with the version that the client has read, one after
\* the other to the same place.  The target of above and below is a work item.
ReceiveReorder(c) ==
    /\ pc[c] = "idle"
    /\ \E s \in Spaces, d \in Directions, n \in 1 .. MaxBatch, t \in Items :
         \E batch \in [1 .. n -> RowsOf(rows, s)] :
           /\ moves + n <= MaxMoves
           /\ rows[t].status # "absent"
           /\ moves' = moves + n
           /\ req' = [req EXCEPT ![c] =
                        [space |-> s, direction |-> d, target |-> t, at |-> 1,
                         batch |-> [k \in 1 .. n |-> [item |-> batch[k], version |-> rows[batch[k]].version]]]]
    /\ Goto(c, "re_load")
    /\ UNCHANGED <<rows, item, found, order, pending>>

\* LoadByID, Load and the beginning of Reorder: the work item must belong to the space
\* and have the client's version.  (Three queries; since versions only grow, a row that
\* has the client's version in the last one had it in all of them, and the same order.)
LoadItem(c) ==
    /\ pc[c] = "re_load"
    /\ LET e == req[c].batch[req[c].at]
           row == View(c)[e.item] IN
         IF row.status = "live" /\ row.space = req[c].space /\ row.version = e.version
            THEN /\ item' = [item EXCEPT ![c] = [id |-> e.item, order |-> row.order, version |-> row.version]]
                 /\ Goto(c, IF req[c].direction \in {"above", "below"} THEN "re_first" ELSE "re_end")
                 /\ UNCHANGED <<rows, req, found, order, pending, moves>>
            ELSE Rollback(c)

FindFirstItem(c) ==
    /\ pc[c] = "re_first"
    /\ LET row == View(c)[req[c].target] IN
         IF row.status = "live" /\ row.space = req[c].space
            THEN /\ found' = [found EXCEPT ![c] = row.order]
                 /\ Goto(c, "re_second")
                 /\ UNCHANGED <<rows, req, item, order, pending, moves>>
            ELSE Rollback(c)

\* The order of a work item next to the target: Reorder's cases below and above.
MoveNextTo(c, second) ==
    IF second = {}
       THEN {IF req[c].direction = "below" THEN CalculateOrder(found[c], 0) ELSE found[c] + OrderValue}
       ELSE {IF i = item[c].id THEN item[c].order ELSE CalculateOrder(found[c], View(c)[i].order) : i \in second}

FindSecondItem(c) ==
    /\ pc[c] = "re_second"
    /\ \E o \in MoveNextTo(c, SecondItems(View(c), req[c].space, found[c], req[c].direction)) :
         order' = [order EXCEPT ![c] = o]
    /\ Goto(c, "re_save")
    /\ UNCHANGED <<rows, req, item, found, pending, moves>>

\* LoadTopWorkitem and LoadBottomWorkitem: when nothing is found, the type of the work
\* item is not found either, and the request fails.
FindEnd(c) ==
    /\ pc[c] = "re_end"
    /\ LET top == req[c].direction = "top"
           ends == IF top THEN TopItems(View(c), req[c].space) ELSE BottomItems(View(c), req[c].space) IN
         \/ \E i \in ends :
              /\ order' = [order EXCEPT ![c] = CASE i = item[c].id -> item[c].order
                                                 [] i # item[c].id /\ top -> View(c)[i].order + OrderValue
                                                 [] i # item[c].id /\ ~top -> View(c)[i].order \div 2]
              /\ Goto(c, "re_save")
              /\ UNCHANGED <<rows, req, item, found, pending, moves>>
         \/ ends = {} /\ Rollback(c)

\* UPDATE ... WHERE version = ?, with the lock of the row.
SaveItem(c) ==
    LET i == item[c].id
        row == View(c)[i] IN
    /\ pc[c] = "re_save"
    /\ Unlocked(c, i)
    /\ IF row.status = "live" /\ row.version = item[c].version
          THEN /\ pending' = [pending EXCEPT ![c] = [j \in DOMAIN @ \cup {i} |->
                    IF j = i THEN [row EXCEPT !.order = order[c], !.version = @ + 1] ELSE pending[c][j]]]
               /\ req' = [req EXCEPT ![c].at = @ + 1]
               /\ Goto(c, IF req[c].at = Len(req[c].batch) THEN "commit" ELSE "re_load")
               /\ UNCHANGED <<rows, item, found, order, moves>>
          ELSE Rollback(c)

Commit(c) ==
    /\ pc[c] = "commit"
    /\ rows' = View(c)
    /\ Answer(c)
    /\ UNCHANGED moves

-------------------------------------------------------------------------------
\* DELETE /workitems/:id: the soft delete leaves the row and its order (see WorkItems).
DeleteWorkItem(c) ==
    /\ pc[c] = "idle"
    /\ \E i \in Deletable :
         /\ rows[i].status = "live" /\ Unlocked(c, i)
         /\ rows' = [rows EXCEPT ![i].status = "deleted"]
    /\ UNCHANGED <<pc, req, item, found, order, pending, moves>>

\* A statement fails, or Transactional gives up.
Fault(c) == pc[c] # "idle" /\ Rollback(c)

Next == \E c \in Clients :
    \/ ReceiveCreate(c) \/ LoadHighestOrder(c) \/ InsertWorkItem(c)
    \/ ReceiveReorder(c) \/ LoadItem(c) \/ FindFirstItem(c) \/ FindSecondItem(c) \/ FindEnd(c)
    \/ SaveItem(c) \/ Commit(c) \/ DeleteWorkItem(c) \/ Fault(c)

Spec == Init /\ [][Next]_vars

-------------------------------------------------------------------------------
(* Properties *)

PCs == {"idle", "cr_highest", "cr_insert", "re_load", "re_first", "re_second", "re_end", "re_save", "commit"}
Row == [status : {"live", "deleted"}, space : Spaces, order : Nat \ {0}, version : Nat]
Entry == [item : Items, version : Nat]

\* Every work item has a positive order (Reorder takes 0 for what is below the last one),
\* and a request only computes positive ones.
TypeOK ==
    /\ rows \in [Items -> Row \cup {AbsentRow}]
    /\ pc \in [Clients -> PCs]
    /\ moves \in 0 .. MaxMoves
    /\ \A c \in Clients :
         /\ pc[c] \in {"cr_insert", "re_save"} => order[c] \in Nat \ {0}
         /\ pc[c] = "re_second" => found[c] \in Nat \ {0}
         /\ pc[c] \in {"cr_highest", "cr_insert"} => req[c] \in Spaces
         /\ pc[c] \in {"re_load", "re_first", "re_second", "re_end", "re_save", "commit"} =>
              /\ req[c] \in [space : Spaces, direction : Directions, target : Items,
                             at : Nat, batch : Seq(Entry)]
              /\ IF pc[c] = "commit" THEN req[c].at = Len(req[c].batch) + 1
                                     ELSE req[c].at \in DOMAIN req[c].batch
         /\ DOMAIN pending[c] \subseteq Items
         /\ \A i \in DOMAIN pending[c] : pending[c][i] \in Row /\ Unlocked(c, i)

LiveIn(s) == {i \in Items : rows[i].status = "live" /\ rows[i].space = s}

NothingDeleted == \A i \in Items : rows[i].status # "deleted"

\* As long as nothing is deleted, no two work items of a space have the same order, so
\* that the order in which a list shows them is determined ("The order of workitems are
\* spaced by a factor of 1000").  It holds for a client that is alone, and fails for two.
DistinctOrders ==
    NothingDeleted => \A s \in Spaces : \A i, j \in LiveIn(s) : rows[i].order = rows[j].order => i = j

\* The work items of a space from the top to the bottom.
Ranking(s) == SetToSortSeq(LiveIn(s), LAMBDA i, j : rows[i].order > rows[j].order)

\* What the client of a request has asked for.
Asked(c) ==
    CASE req[c] \in Spaces \cup {None} -> req[c]
      [] OTHER -> [space |-> req[c].space, direction |-> req[c].direction, target |-> req[c].target,
                   batch |-> [k \in DOMAIN req[c].batch |-> req[c].batch[k].item]]

\* To a client that is alone, and until the first deletion, the orders are a list in which
\* every request that is accepted moves its work items to the place it names, and nothing
\* else: Create to the top, Reorder to an end or right next to the target, one work item
\* after the other, whatever the other spaces contain.
List == INSTANCE RankedList
        WITH list <- IF NothingDeleted THEN [s \in Spaces |-> Ranking(s)] ELSE None,
             asked <- [c \in Clients |-> Asked(c)]
ImplementsRankedList == List!Spec

\* c's request is answered with success, after it has moved item[c] last.
MovedAndCommitted(c) == pc[c] = "commit" /\ pc'[c] = "idle" /\ rows' # rows

\* To a client that is alone and has deleted work items, a request that succeeds still
\* leaves the work item at the end it names ("Now, the reorder item has the highest order
\* in the whole list"; ties are possible then), or on the side of the
\* target that it names.
EndsUpWhereAsked ==
    [][\A c \in Clients : MovedAndCommitted(c) =>
         LET o == rows'[item[c].id].order
             others == {rows'[j].order : j \in LiveIn(req[c].space) \ {item[c].id}}
             target == {rows'[req[c].target].order : x \in {req[c].target} \ {item[c].id}} IN
         CASE req[c].direction = "top"    -> \A x \in others : o >= x
           [] req[c].direction = "bottom" -> \A x \in others : o <= x
           [] req[c].direction = "above"  -> \A x \in target : o > x
           [] req[c].direction = "below"  -> \A x \in target : o < x]_vars

\* Orders are distinct until something is deleted, and a move leaves the work item where
\* its request says, then and later.
OrdersAreRight == [](TypeOK /\ DistinctOrders) /\ EndsUpWhereAsked

-------------------------------------------------------------------------------
(* What a comment claims and the model refutes *)

\* "Reordering a workitem requires order of two closest workitems: above and below": what
\* a request moved above or below a target last is next to it when it is answered.
PlacedNextToTarget ==
    [][\A c \in Clients : MovedAndCommitted(c) /\ req[c].direction \in {"above", "below"} =>
         LET o == rows'[item[c].id].order
             t == rows'[req[c].target].order IN
         \A j \in LiveIn(req[c].space) \ {item[c].id, req[c].target} :
             IF o < t THEN rows'[j].order \notin o .. t ELSE rows'[j].order \notin t .. o]_vars
===============================================================================
