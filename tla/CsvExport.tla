------------------------------- MODULE CsvExport -------------------------------
(***************************************************************************)
(* Work items as CSV: ConvertWorkItemsToCSV of controller/workitem.go, as  *)
(* controller/search.go calls it for one window of the items after the     *)
(* other.  The types are listed once; every call makes the columns again   *)
(* from them, and goes through the fields of a type in whatever order the  *)
(* map has.  The numbers of linked items are resolved line by line, in     *)
(* transactions of their own, and remembered for all windows.              *)
(***************************************************************************)
EXTENDS Naturals, Sequences, SequencesExt

CONSTANTS
    CsvTypes,       \* a sequence: CsvTypes[t][f] is the label of field f in type t, a number for its place in the alphabet
    CsvItems,       \* CsvItems[n]: [type, values, parent] of the item with number n, values[f] of its fields, parent 0 if none
    CsvWindow       \* items of a window

NoCell == "-"

ASSUME CsvAssumption ==
    /\ CsvWindow \in Nat \ {0}
    /\ Len(CsvTypes) \in Nat /\ DOMAIN CsvTypes = 1..Len(CsvTypes)
    /\ \A t \in DOMAIN CsvTypes : IsFiniteSet(DOMAIN CsvTypes[t]) /\ \A f \in DOMAIN CsvTypes[t] : CsvTypes[t][f] \in Nat
    /\ Len(CsvItems) \in Nat /\ DOMAIN CsvItems = 1..Len(CsvItems)
    /\ \A n \in DOMAIN CsvItems :
        /\ CsvItems[n].type \in DOMAIN CsvTypes /\ CsvItems[n].parent \in 0..Len(CsvItems) \ {n}
        /\ DOMAIN CsvItems[n].values = DOMAIN CsvTypes[CsvItems[n].type]

VARIABLES
    live,           \* items that are not deleted
    export,         \* [pc, offset, size, items, links, keyOf]: size of the window, its items without a line yet,
                    \* the links <<parent, child>> read with it and the fields of the columns
    idNumberMap,    \* item -> number, of those that were resolved
    csvLines        \* [item, cells, parents, children] of the lines so far, and window: the offset of its
                    \* window, which tells the windows apart

csvVars == <<live, export, idNumberMap, csvLines>>

CsvInit ==
    /\ live = DOMAIN CsvItems
    /\ export = [pc |-> "query", offset |-> 0, size |-> 0, items |-> <<>>, links |-> {}, keyOf |-> <<>>]
    /\ idNumberMap = <<>>
    /\ csvLines = <<>>

-------------------------------------------------------------------------------
(* The columns. *)

Keys == UNION {DOMAIN CsvTypes[t] : t \in DOMAIN CsvTypes}

\* The first type that has a field gives its column the label.
MetIn(key) == CHOOSE t \in DOMAIN CsvTypes : key \in DOMAIN CsvTypes[t] /\ \A s \in 1..(t - 1) : key \notin DOMAIN CsvTypes[s]
LabelOf(key) == CsvTypes[MetIn(key)][key]

\* extractWorkItemTypeFields: the orders in which the columns may be met, type after type.
ColumnOrders ==
    {order \in SetToSeqs(Keys) : \A i, j \in DOMAIN order : i < j => MetIn(order[i]) <= MetIn(order[j])}

\* The columns in the order of their labels, each as one of the fields with its label.
SortedLabels ==
    CHOOSE columns \in SetToSeqs(Keys) : \A i, j \in DOMAIN columns : i < j => LabelOf(columns[i]) <= LabelOf(columns[j])

\* The key of a column is the first one that was met with its label.
SortedKeys(order) ==
    [i \in DOMAIN SortedLabels |->
        order[CHOOSE j \in DOMAIN order :
                /\ LabelOf(order[j]) = LabelOf(SortedLabels[i])
                /\ \A h \in 1..(j - 1) : LabelOf(order[h]) # LabelOf(SortedLabels[i])]]

-------------------------------------------------------------------------------
(* Numbers of linked items. *)

\* checkNumberCache and resolveNumberByWorkItemID
NumberIn(cache, id) == IF id \in DOMAIN cache THEN cache[id] ELSE id

\* Mutant of Remember: what was resolved is remembered for the item of the line.
RememberLine(cache, n, ids) ==
    [id \in DOMAIN cache \cup {n} |-> IF id # n THEN cache[id] ELSE IF ids = {} THEN n ELSE CHOOSE other \in ids : TRUE]

\* What the cache holds after the items ids were resolved for the line of item n.
Remember(cache, n, ids) ==
    [id \in DOMAIN cache \cup ids \cup {n} |-> IF id = n THEN n ELSE NumberIn(cache, id)]

\* Items that are linked with n in the window: its parent and its children.
ParentsOf(n) == {link[1] : link \in {l \in export.links : l[2] = n}}
ChildrenOf(n) == {link[2] : link \in {l \in export.links : l[1] = n}}

\* An item that is not in the cache has to be loaded.
CanResolve(n) == ParentsOf(n) \cup ChildrenOf(n) \subseteq {n} \cup DOMAIN idNumberMap \cup live

-------------------------------------------------------------------------------

\* Filter, with tree-view: the links of the ancestors and child links of a window.
LinksOf(window, joined) ==
    {link \in joined : link[2] \in window \/ (link[1] \in window /\ \E n \in window : <<link[1], n>> \in joined)}

\* The items, in the order of their numbers.
LiveInOrder == CHOOSE all \in SetToSeqs(live) : \A i, j \in DOMAIN all : i < j => all[i] < all[j]

\* One window is read, in one transaction, with the links of its items to their parents; those to
\* children only for items that have a child in the window, but then all of them.
QueryWindow ==
    /\ export.pc = "query"
    /\ LET window == SubSeq(LiveInOrder, export.offset + 1, Min({Len(LiveInOrder), export.offset + CsvWindow}))
           joined == {<<CsvItems[n].parent, n>> : n \in {m \in live : CsvItems[m].parent \in live}}
           links == LinksOf(ToSet(window), joined)
       IN  \E order \in ColumnOrders :
            export' = [export EXCEPT !.pc = "convert", !.items = window, !.size = Len(window), !.links = links,
                                     !.keyOf = SortedKeys(order)]
    /\ UNCHANGED <<live, idNumberMap, csvLines>>

\* The line of one item.
ConvertLine ==
    /\ export.pc = "convert" /\ export.items # <<>>
    /\ LET n == Head(export.items)
           cache == Remember(idNumberMap, n, {})
           values == CsvItems[n].values
           line == [item     |-> n,
                    window   |-> export.offset,
                    cells    |-> [i \in DOMAIN export.keyOf |-> IF export.keyOf[i] \in DOMAIN values
                                                                THEN values[export.keyOf[i]] ELSE NoCell],
                    parents  |-> {NumberIn(cache, p) : p \in ParentsOf(n)},
                    children |-> {NumberIn(cache, c) : c \in ChildrenOf(n)}]
       IN  /\ CanResolve(n)
           /\ csvLines' = Append(csvLines, line)
           /\ idNumberMap' = Remember(idNumberMap, n, ParentsOf(n) \cup ChildrenOf(n))
           /\ export' = [export EXCEPT !.items = Tail(@)]
    /\ UNCHANGED live

\* A linked item was deleted after the window was read: the export ends with an error,
\* behind the windows that were written already; the lines of this window are dropped.
ConvertFails ==
    /\ export.pc = "convert" /\ export.items # <<>> /\ ~CanResolve(Head(export.items))
    /\ export' = [export EXCEPT !.pc = "failed", !.items = <<>>]
    /\ csvLines' = SubSeq(csvLines, 1, Len(csvLines) - (export.size - Len(export.items)))
    /\ UNCHANGED <<live, idNumberMap>>

\* After the first window, unless it is empty, there is always a second one.
WindowDone ==
    /\ export.pc = "convert" /\ export.items = <<>>
    /\ export' = [export EXCEPT !.pc = IF export.size < (IF export.offset = 0 THEN 1 ELSE CsvWindow) THEN "done" ELSE "query",
                                !.offset = IF @ = 0 THEN CsvWindow ELSE @ + export.size]
    /\ UNCHANGED <<live, idNumberMap, csvLines>>

\* An item is deleted, and with it its links.
DeleteCsvItem(n) == n \in live /\ live' = live \ {n} /\ UNCHANGED <<export, idNumberMap, csvLines>>

CsvNext == QueryWindow \/ ConvertLine \/ ConvertFails \/ WindowDone \/ \E n \in DOMAIN CsvItems : DeleteCsvItem(n)

CsvSpec == CsvInit /\ [][CsvNext]_csvVars

-------------------------------------------------------------------------------

\* Every cell stands under the label of its field, in every window, although each window
\* makes its columns anew and in another order.  (Two fields with one label have two columns
\* that both show the one that was met first; which one it is may differ between windows.)
CellsFitTheHeader ==
    \A k \in DOMAIN csvLines : \A key \in Keys :
        (\A other \in Keys \ {key} : LabelOf(other) # LabelOf(key)) =>
            LET i == CHOOSE j \in DOMAIN SortedLabels : SortedLabels[j] = key
                values == CsvItems[csvLines[k].item].values
            IN  csvLines[k].cells[i] = IF key \in DOMAIN values THEN values[key] ELSE NoCell

\* The numbers on a line are those of the parent and the children of its item, also when
\* they were resolved for another line or in another window, or deleted meanwhile.  No parent
\* that is not deleted is left out, and no child either if one of the children has its line in
\* the same window; otherwise the line may have all of the children left out.
NumbersAreRight ==
    \A k \in DOMAIN csvLines :
        LET line == csvLines[k]
            parent == CsvItems[line.item].parent
            children == {c \in DOMAIN CsvItems : CsvItems[c].parent = line.item}
        IN  /\ {parent} \cap live \subseteq line.parents /\ line.parents \subseteq {parent}
            /\ line.children \subseteq children
            /\ \/ children \cap live \subseteq line.children
               \/ /\ line.children = {}
                  /\ \A j \in DOMAIN csvLines : csvLines[j].window = line.window => csvLines[j].item \notin children

\* In every line of an export each cell is below the header of its field, and the numbers
\* of parent and children are those of the work item, complete as far as windows allow.
LinesAreRight == CellsFitTheHeader /\ NumbersAreRight
===============================================================================
