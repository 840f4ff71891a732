------------------------------- MODULE ItemList -------------------------------
(***************************************************************************)
(* The list of the work items of a space: List of controller/workitems.go, *)
(* which makes an expression of the filters of the request, the children   *)
(* of the iteration included, and listItemsFromDB of                       *)
(* workitem/workitem_repository.go, which finds the rows of one page and   *)
(* the number of all.  The children are read in a transaction of their     *)
(* own, whose failure does not end the request: an answer with the error   *)
(* is sent, and the list after it.  Items move and lose their parents, and *)
(* iterations are created, moved and deleted meanwhile.                    *)
(***************************************************************************)
EXTENDS Naturals, Sequences, SequencesExt

CONSTANTS
    ListItems,      \* ListItems[n]: [space, assignee, state] of the item with execution order n
    ListSpace,      \* the space whose items are listed
    Trees,          \* trees of iterations: a tree has for each iteration those below it
    ListFilters     \* requests: [assignee, iteration, state, parentless, offset, limit]

\* A filter that is not given, and the filter for items without assignees.
NotGiven == "not given"
NoAssignee == "none"

ASSUME ListAssumption ==
    /\ IsFiniteSet(DOMAIN ListItems) /\ DOMAIN ListItems \subseteq Nat
    /\ \A tree \in Trees : NotGiven \notin DOMAIN tree /\ \A i \in DOMAIN tree : tree[i] \subseteq DOMAIN tree \ {i}
    /\ \A filter \in ListFilters : filter.limit \in Nat \ {0} /\ filter.offset \in Nat

VARIABLES
    iterationTree,  \* the tree of the iterations that are not deleted
    iterationOf,    \* iterationOf[n]: the iteration of item n
    parentLink,     \* parentLink[n]: "none", "live" or "deleted"
    listing         \* [pc, filter, children, failed, exp, page, total] of the request, and stale:
                    \* whether the tree has changed since the children were read

listVars == <<iterationTree, iterationOf, parentLink, listing>>

-------------------------------------------------------------------------------
(* An expression is a set of alternatives, each a set of tests that hold   *)
(* together; a test is <<field, value>>.                                   *)

Always == {{}}
And(exp, test) == {tests \cup {test} : tests \in exp}
Or(exp, alternatives) == exp \cup alternatives

AndGiven(exp, field, value) == IF value = NotGiven THEN exp ELSE And(exp, <<field, value>>)

\* The items of the children are added to what was asked for so far.
WithChildren(exp, children) == Or(exp, {{<<"iteration", child>>} : child \in children})

\* Mutant of ExpressionOf: the children are added last.
ExpressionOrLast(filter, children) ==
    WithChildren(AndGiven(AndGiven(AndGiven(Always, "assignee", filter.assignee), "iteration", filter.iteration),
                          "state", filter.state), children)

\* The expression that the controller makes.
ExpressionOf(filter, children) ==
    AndGiven(WithChildren(AndGiven(AndGiven(Always, "assignee", filter.assignee), "iteration", filter.iteration),
                          children), "state", filter.state)

Holds(test, n) ==
    CASE test[1] = "iteration" -> iterationOf[n] = test[2]
      [] test[1] = "assignee"  -> ListItems[n].assignee = test[2]
      [] OTHER                 -> ListItems[n].state = test[2]

\* The WHERE clause: the expression, and the space.
Where(exp, n) ==
    /\ \E tests \in exp : \A test \in tests : Holds(test, n)
    /\ ListItems[n].space = ListSpace

\* Every link with a parent counts, a deleted one too.
WithoutParent(filter, n) == filter.parentless => parentLink[n] = "none"

\* The rows in the order of their numbers.
Found(filter, exp) ==
    CHOOSE rows \in SetToSeqs({n \in DOMAIN ListItems : Where(exp, n) /\ WithoutParent(filter, n)}) :
        \A i, j \in DOMAIN rows : i < j => rows[i] < rows[j]

\* The total is read from the rows, or counted if there are none.
TotalOf(found, page) == Len(found)

-------------------------------------------------------------------------------

Idle == [pc |-> "idle", filter |-> NotGiven, children |-> {}, failed |-> FALSE, stale |-> FALSE,
         exp |-> Always, page |-> <<>>, total |-> 0]

ListInit ==
    /\ iterationTree = CHOOSE tree \in Trees : TRUE
    /\ iterationOf = [n \in DOMAIN ListItems |-> CHOOSE i \in DOMAIN iterationTree : TRUE]
    /\ parentLink = [n \in DOMAIN ListItems |-> "none"]
    /\ listing = Idle

\* LoadChildren fails for an iteration that is deleted, or with the database.
LoadChildren(iteration, failed) == IF failed \/ iteration = NotGiven THEN {} ELSE iterationTree[iteration]

\* The children are read and the expression is made, without children if reading failed.
MakeExpression(filter, failed) ==
    LET children == LoadChildren(filter.iteration, failed)
    IN  /\ listing.pc = "idle"
        /\ IF failed THEN filter.iteration # NotGiven ELSE filter.iteration \in DOMAIN iterationTree \cup {NotGiven}
        /\ listing' = [pc |-> "expression", filter |-> filter, children |-> children, failed |-> failed,
                       stale |-> FALSE, exp |-> ExpressionOf(filter, children), page |-> <<>>, total |-> 0]
        /\ UNCHANGED <<iterationTree, iterationOf, parentLink>>

\* listItemsFromDB
ListItemsFromDB ==
    LET filter == listing.filter
        found == Found(filter, listing.exp)
        page == SubSeq(found, Min({filter.offset, Len(found)}) + 1, Min({filter.offset + filter.limit, Len(found)}))
    IN  /\ listing.pc = "expression"
        /\ listing' = [listing EXCEPT !.pc = "answered", !.page = page, !.total = TotalOf(found, page)]
        /\ UNCHANGED <<iterationTree, iterationOf, parentLink>>

ListAgain == listing.pc = "answered" /\ listing' = Idle /\ UNCHANGED <<iterationTree, iterationOf, parentLink>>

MoveItem(n, i) ==
    /\ iterationOf' = [iterationOf EXCEPT ![n] = i]
    /\ UNCHANGED <<iterationTree, parentLink, listing>>

\* An item gets a parent, or its link is (softly) deleted.
ChangeParent(n) ==
    /\ parentLink' = [parentLink EXCEPT ![n] = IF @ = "live" THEN "deleted" ELSE "live"]
    /\ UNCHANGED <<iterationTree, iterationOf, listing>>

\* Iterations are created, moved and deleted.
ChangeTree(tree) ==
    /\ tree # iterationTree /\ iterationTree' = tree
    /\ listing' = [listing EXCEPT !.stale = listing.pc = "expression"]
    /\ UNCHANGED <<iterationOf, parentLink>>

ListNext ==
    \/ \E filter \in ListFilters, failed \in BOOLEAN : MakeExpression(filter, failed)
    \/ ListItemsFromDB
    \/ ListAgain
    \/ \E n \in DOMAIN ListItems : ChangeParent(n) \/ \E i \in DOMAIN iterationTree : MoveItem(n, i)
    \/ \E tree \in Trees : ChangeTree(tree)

ListSpec == ListInit /\ [][ListNext]_listVars

-------------------------------------------------------------------------------

Below(iteration) == IF iteration \in DOMAIN iterationTree THEN iterationTree[iteration] ELSE {}

\* What a client means by a filter, the assignee and the iteration apart, and in whole.
MeantOtherwise(filter, n) ==
    /\ ListItems[n].space = ListSpace
    /\ filter.state \in {NotGiven, ListItems[n].state}
    /\ filter.parentless => parentLink[n] # "live"

Meant(filter, n) ==
    /\ MeantOtherwise(filter, n)
    /\ filter.assignee \in {NotGiven, ListItems[n].assignee}
    /\ filter.iteration \in {NotGiven, iterationOf[n]} \/ iterationOf[n] \in Below(filter.iteration)

\* What is listed without being meant.  The children are alternatives to the filters before
\* the iteration: with an assignee, what others have in the children is listed as well.  And
\* what was a child when the children were read may be none any more.
Stray(n) ==
    /\ MeantOtherwise(listing.filter, n) /\ iterationOf[n] \in listing.children
    /\ listing.filter.assignee \notin {NotGiven, ListItems[n].assignee} \/ listing.stale

\* What is meant without being listed: an item whose link with a parent was deleted, when
\* those without parents are asked for; one in a child that has come since the children
\* were read, or in any child if reading them has failed, which an error told the client.
Missed(n) ==
    \/ listing.filter.parentless /\ parentLink[n] = "deleted"
    \/ iterationOf[n] \in Below(listing.filter.iteration) \ listing.children /\ (listing.stale \/ listing.failed)

Answers == listing.pc = "expression" /\ listing'.pc = "answered"

\* Every listed item is one that the filters of the request mean when it is read, whatever
\* has changed since the children were read, or one of the strays.
ListedAreWanted ==
    [][Answers => \A k \in DOMAIN listing'.page :
                    Meant(listing.filter, listing'.page[k]) \/ Stray(listing'.page[k])]_listVars

\* The total is that of all items that are meant, but for strays and what is missed,
\* whichever page is asked for, also one behind the end; and a page is only short if it is
\* the last.
TotalIsComplete ==
    [][Answers => \E found \in SUBSET DOMAIN ListItems :
        LET filter == listing.filter
        IN  /\ \A n \in found : Meant(filter, n) \/ Stray(n)
            /\ \A n \in DOMAIN ListItems \ found : Meant(filter, n) => Missed(n)
            /\ listing'.total = Cardinality(found)
            /\ \A k \in DOMAIN listing'.page : listing'.page[k] \in found
            /\ filter.offset + filter.limit <= Cardinality(found) => Len(listing'.page) = filter.limit]_listVars

\* A list has the work items that its filters mean, all of them over its pages, and their
\* number, but for what the children of an iteration add or leave out.
ListsAreRight == ListedAreWanted /\ TotalIsComplete
===============================================================================
