-------------------------------- MODULE Areas --------------------------------
(***************************************************************************)
(* Areas of a space and the numbers they get (area/area.go,                *)
(* controller/area.go, numbersequence/human_friendly_number.go).  The      *)
(* owner of the space makes areas, with requests that overlap.  An area's  *)
(* identifier is the last element of its path.                             *)
(***************************************************************************)
EXTENDS Naturals, Sequences, SequencesExt

CONSTANTS
    AreaRequests,       \* requests of the owner that run at a time
    AreaNames,
    NoArea,
    MaxAreas            \* bound on the areas

ASSUME AreasAssumption == NoArea \notin AreaNames \cup AreaRequests /\ MaxAreas \in Nat \ {0}

VARIABLES
    areas,          \* the areas of the space, in the order they were committed
    sequence,       \* current_val of number_sequences
    sequenceLock,   \* the request that has updated it and not ended its transaction
    areq            \* areq[p]: the request

areaVars == <<areas, sequence, sequenceLock, areq>>

AIdle == [pc |-> "idle", parent |-> <<>>, name |-> NoArea, number |-> 0]

\* A space comes with a root area.
AreasInit ==
    /\ areas = <<[path |-> <<1>>, name |-> NoArea, number |-> 1]>>
    /\ sequence = 1 /\ sequenceLock = NoArea
    /\ areq = [p \in AreaRequests |-> AIdle]

AreaIDs == {Last(areas[i].path) : i \in DOMAIN areas}
AreaOf(id) == areas[CHOOSE i \in DOMAIN areas : Last(areas[i].path) = id]

\* CreateChild loads the parent, and the space for its owner.
LoadParent(p, parent, name) ==
    /\ areq[p].pc = "idle"
    /\ areq' = [areq EXCEPT ![p] = [AIdle EXCEPT !.pc = "number", !.parent = AreaOf(parent).path, !.name = name]]
    /\ UNCHANGED <<areas, sequence, sequenceLock>>

\* Mutant of NextNumber: the number is read and the row not kept.
NextNumberUnlocked(p) ==
    /\ areq[p].pc = "number"
    /\ areq' = [areq EXCEPT ![p].pc = "insert", ![p].number = sequence + 1]
    /\ UNCHANGED <<areas, sequence, sequenceLock>>

\* BeforeCreate: the upsert waits for the row of number_sequences and keeps it.
NextNumber(p) ==
    /\ areq[p].pc = "number" /\ sequenceLock = NoArea
    /\ areq' = [areq EXCEPT ![p].pc = "insert", ![p].number = sequence + 1]
    /\ sequenceLock' = p
    /\ UNCHANGED <<areas, sequence>>

\* areas_name_space_id_path_unique: siblings have different names.
NameTaken(parent, name) == \E i \in DOMAIN areas : areas[i].name = name /\ Front(areas[i].path) = parent

\* MakeChildOf
AreaMakeChildOf(parent, id) == Append(parent, id)

\* Create: the area is inserted and the transaction committed with the number, or rolled
\* back if a sibling has the name.
InsertArea(p) ==
    /\ areq[p].pc = "insert" /\ Len(areas) < MaxAreas
    /\ IF NameTaken(areq[p].parent, areq[p].name) THEN UNCHANGED <<areas, sequence>>
       ELSE /\ areas' = Append(areas, [path |-> AreaMakeChildOf(areq[p].parent, Len(areas) + 1),
                                       name |-> areq[p].name, number |-> areq[p].number])
            /\ sequence' = areq[p].number
    /\ areq' = [areq EXCEPT ![p] = AIdle]
    /\ sequenceLock' = NoArea

\* A transaction that is rolled back gives the number back.
RollBackArea(p) ==
    /\ areq[p].pc # "idle"
    /\ areq' = [areq EXCEPT ![p] = AIdle]
    /\ sequenceLock' = IF sequenceLock = p THEN NoArea ELSE sequenceLock
    /\ UNCHANGED <<areas, sequence>>

AreasNext ==
    \E p \in AreaRequests :
        \/ \E id \in AreaIDs, name \in AreaNames : LoadParent(p, id, name)
        \/ NextNumber(p) \/ InsertArea(p) \/ RollBackArea(p)

AreasSpec == AreasInit /\ [][AreasNext]_areaVars

\* getResolvePath: the names of the areas above, as far as they are found, one after the
\* other.
ResolvedPath(a) ==
    LET parents == Front(a.path)
        resolved[n \in 0..Len(parents)] ==
            IF n = 0 THEN <<>>
            ELSE IF parents[n] \in AreaIDs THEN Append(resolved[n - 1], AreaOf(parents[n]).name)
            ELSE resolved[n - 1]
    IN  resolved[Len(parents)]

\* ListChildren: path ~ parent.*{1}
AreaChildren(a) == {i \in DOMAIN areas : Len(areas[i].path) = Len(a.path) + 1 /\ IsPrefix(a.path, areas[i].path)}

-------------------------------------------------------------------------------

\* The areas of a space are numbered without gaps or repetitions in the order they are
\* made, whatever requests overlap, fail on a name or are rolled back.
AreaNumbersAreDense ==
    /\ \A i \in DOMAIN areas : areas[i].number = i
    /\ sequence = Len(areas)

\* The areas are a tree: every area but the root is among the children of exactly one,
\* the path of which its own extends, and the path that is shown for it names all
\* the areas above it.
AreasAreATree ==
    \A i \in DOMAIN areas :
        /\ i # 1 => \E j \in DOMAIN areas : /\ i \in AreaChildren(areas[j])
                                            /\ Front(areas[i].path) = areas[j].path
                                            /\ \A k \in DOMAIN areas : i \in AreaChildren(areas[k]) => k = j
        /\ Len(ResolvedPath(areas[i])) = Len(areas[i].path) - 1
        /\ \A j \in AreaChildren(areas[i]) : ResolvedPath(areas[j]) = Append(ResolvedPath(areas[i]), areas[i].name)

\* However the requests that create areas interleave, the areas of a space are numbered
\* without gaps and are a tree whose paths can be shown.
AreasAreSound == AreaNumbersAreDense /\ AreasAreATree
===============================================================================
