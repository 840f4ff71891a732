---------------------------- MODULE TemplateImport ----------------------------
(***************************************************************************)
(* Import of the space templates when a replica starts                     *)
(* (spacetemplate/importer, PopulateCommonTypes of migration/migration.go, *)
(* main.go) and the cache of work item types that every replica keeps      *)
(* (workitem/workitemtype_cache.go, workitemtype_repository.go).           *)
(*                                                                         *)
(* All templates of a release are imported in one transaction.  Its first  *)
(* write is to the row of the first template: imports that find the row    *)
(* follow one another, and one that does not find it cannot insert it once *)
(* another has.  An import that fails ends its replica.                    *)
(***************************************************************************)
EXTENDS Naturals, Sequences, SequencesExt

CONSTANTS
    Replicas,
    Releases,       \* Releases[r]: the templates of release r, in the order of their import
    StateField,     \* the field of the items that is looked at, an enum
    WorkItems       \* identifiers of work items

\* The type that is extended by a type that extends none; an empty table.
NoType == "no type"
NoRows == <<>>

Elements(seq) == {seq[i] : i \in DOMAIN seq}
TypeIDs(template) == {template.types[i].id : i \in DOMAIN template.types}

ASSUME ReleasesAssumption ==
    \A r \in DOMAIN Releases : \A i \in DOMAIN Releases[r] : \A j \in DOMAIN Releases[r][i].types :
        LET wit == Releases[r][i].types[j]
        IN  \A f \in DOMAIN wit.fields : wit.fields[f].kind = "enum" => wit.fields[f].values # <<>>

-------------------------------------------------------------------------------
(* An import is a record of the tables, the cache of the replica and       *)
(* whether it has not failed.                                              *)

EmptyTables == [templates |-> {}, types |-> NoRows, linkTypes |-> NoRows, children |-> NoRows,
                groups |-> NoRows, columns |-> NoRows]

Fails(imp) == [imp EXCEPT !.ok = FALSE]

\* WorkItemTypeCache.Clear
Clear(types) == NoRows

\* Load of the repository of types: what it returns, and what the cache has afterwards.
LoadType(db, types, id) == IF id \in DOMAIN types THEN types[id] ELSE db.types[id]
Put(db, types, id) == id :> LoadType(db, types, id) @@ types

\* Mutant of EqualEnclosing: the new values have to be among the old.
EqualEnclosingSwapped(new, old) == new.rewritable \/ Elements(new.values) \subseteq Elements(old.values)

\* EnumType.EqualEnclosing
EqualEnclosing(new, old) == new.rewritable \/ Elements(old.values) \subseteq Elements(new.values)

\* Comparison of a field with the one before.  The default of the old one, its first value
\* if it has none, is set in the new one first.
SameType(new, old) ==
    /\ new.kind = old.kind
    /\ new.kind = "enum" => Head(old.values) \in Elements(new.values) /\ EqualEnclosing(new, old)

\* compatibleFields
CompatibleFields(existing, new) ==
    /\ new.kind = existing.kind
    /\ existing.kind = "enum" => existing.rewritable \/ existing.values = new.values

\* CreateFromModel
CreateType(imp, template, wit) ==
    LET extended == IF wit.extends = NoType THEN NoRows ELSE imp.db.types[wit.extends].fields
    IN  IF \/ wit.extends \notin DOMAIN imp.db.types \cup {NoType}
           \/ \E f \in DOMAIN wit.fields \cap DOMAIN extended : ~CompatibleFields(extended[f], wit.fields[f])
        THEN Fails(imp)
        ELSE [imp EXCEPT !.db.types = wit.id :> [template |-> template.id, fields |-> wit.fields @@ extended] @@ @]

\* Fields that neither the type nor the extended one defines any more.
Removes(loaded, wit, extended) == ~(DOMAIN loaded.fields \subseteq DOMAIN wit.fields \cup DOMAIN extended)

\* Update of a type that exists.  The fields are merged into the map of the extended type
\* that the cache has; then the cache is cleared.
UpdateType(imp, template, wit) ==
    LET loaded == LoadType(imp.db, imp.cache, wit.id)
        withType == Put(imp.db, imp.cache, wit.id)
        owner == IF wit.extends = NoType THEN wit.id ELSE wit.extends
        withBoth == Put(imp.db, withType, owner)
        base == withBoth[owner].fields
        merged == wit.fields @@ base
    IN  IF \/ loaded.template # template.id
           \/ \E f \in DOMAIN wit.fields \cap DOMAIN loaded.fields : ~SameType(wit.fields[f], loaded.fields[f])
           \/ wit.extends # NoType /\ wit.extends \notin DOMAIN imp.db.types
           \/ Removes(loaded, wit, IF wit.extends = NoType THEN NoRows ELSE base)
        THEN Fails(imp)
        ELSE [imp EXCEPT !.db.types = wit.id :> [template |-> template.id, fields |-> merged] @@ @,
                         !.cache = Clear(owner :> [withBoth[owner] EXCEPT !.fields = merged] @@ withBoth)]

\* checkNoWITIsMissing
WITIsMissing(imp, template) ==
    \E id \in DOMAIN imp.db.types : imp.db.types[id].template = template.id /\ id \notin TypeIDs(template)

\* AddChildTypes, after the child types of before were deleted.
AddChildTypes(imp, wit) ==
    IF ~imp.ok THEN imp
    ELSE IF \E i \in DOMAIN wit.children : \/ wit.children[i] \notin DOMAIN imp.db.types
                                           \/ \E j \in DOMAIN wit.children : i # j /\ wit.children[i] = wit.children[j]
    THEN Fails(imp)
    ELSE [imp EXCEPT !.db.children = wit.id :> wit.children @@ @,
                     !.cache = IF wit.children = <<>> THEN @ ELSE Clear(@)]

\* createOrUpdateWITs: the types, then all their child types.
CreateOrUpdateWITs(imp, template) ==
    LET OneType(acc, wit) ==
            IF ~acc.ok THEN acc
            ELSE IF wit.id \in DOMAIN acc.cache \cup DOMAIN acc.db.types THEN UpdateType(acc, template, wit)
            ELSE CreateType(acc, template, wit)
    IN  IF WITIsMissing(imp, template) THEN Fails(imp)
        ELSE FoldLeft(AddChildTypes, FoldLeft(OneType, imp, template.types), template.types)

\* checkNoWILTIsMissing
WILTIsMissing(imp, template) ==
    \E id \in DOMAIN imp.db.linkTypes : imp.db.linkTypes[id] = template.id /\ id \notin template.linkTypes

\* createOrUpdateWILTs
CreateOrUpdateWILTs(imp, template) ==
    IF \/ ~imp.ok
       \/ WILTIsMissing(imp, template)
       \/ \E id \in template.linkTypes \cap DOMAIN imp.db.linkTypes : imp.db.linkTypes[id] # template.id
    THEN Fails(imp)
    ELSE [imp EXCEPT !.db.linkTypes = [id \in template.linkTypes |-> template.id] @@ @]

\* Create of the repository of type groups: a group has types, and they exist.
GroupIsCreated(imp, group) == group # <<>> /\ Elements(group) \subseteq DOMAIN imp.db.types

\* createOrUpdateWITGs: all groups of the template are deleted and created again.
CreateOrUpdateWITGs(imp, template) ==
    IF ~imp.ok \/ \E i \in DOMAIN template.groups : ~GroupIsCreated(imp, template.groups[i]) THEN Fails(imp)
    ELSE [imp EXCEPT !.db.groups = template.id :> template.groups @@ @]

\* Create of the repository of boards: a board has columns, and no other has them.
BoardIsCreated(imp, template, board) ==
    /\ board # {}
    /\ \A other \in DOMAIN imp.db.columns \ {template.id} : imp.db.columns[other] \cap board = {}

\* createOrUpdateWIBs: all boards of the template are deleted and created again.
CreateOrUpdateWIBs(imp, template) ==
    IF ~imp.ok \/ \E i \in DOMAIN template.boards : ~BoardIsCreated(imp, template, template.boards[i]) THEN Fails(imp)
    ELSE [imp EXCEPT !.db.columns = template.id :> UNION Elements(template.boards) @@ @]

\* Import
ImportTemplate(imp, template) ==
    IF ~imp.ok THEN imp
    ELSE LET begun == [imp EXCEPT !.db.templates = @ \cup {template.id}]
         IN  CreateOrUpdateWIBs(CreateOrUpdateWITGs(CreateOrUpdateWILTs(CreateOrUpdateWITs(begun, template),
                                                                         template), template), template)

\* PopulateCommonTypes
PopulateCommonTypes(db, types, release) ==
    LET done == FoldLeft(ImportTemplate, [db |-> db, cache |-> types, ok |-> TRUE], Releases[release])
    IN  [done EXCEPT !.cache = Clear(@)]

-------------------------------------------------------------------------------

VARIABLES
    tables,         \* what is committed
    replica,        \* replica[p]: [pc, release, found]; found: whether it has seen the first template
    witCache,       \* witCache[p]: the cache of the types
    wits,           \* wits[i]: [type, value] of work item i; type is NoType if it does not exist
    imported,       \* the release that was imported last, 0 at first
    last            \* the replica that imported it

importVars == <<tables, replica, witCache, wits, imported, last>>

Down == [pc |-> "down", release |-> 0, found |-> FALSE]
FirstTemplate(release) == Releases[release][1].id

ImportInit ==
    /\ tables = EmptyTables
    /\ replica = [p \in Replicas |-> Down]
    /\ witCache = [p \in Replicas |-> NoRows]
    /\ wits = [i \in WorkItems |-> [type |-> NoType, value |-> ""]]
    /\ imported = 0
    /\ last = CHOOSE p \in Replicas : TRUE

\* A replica of some release starts and looks for the first template.
StartReplica(p, release) ==
    /\ replica[p].pc = "down"
    /\ replica' = [replica EXCEPT ![p] = [pc |-> "importing", release |-> release,
                                          found |-> FirstTemplate(release) \in tables.templates]]
    /\ UNCHANGED <<tables, witCache, wits, imported, last>>

\* The transaction of main.go that imports the templates is committed.
ImportDone(p) ==
    LET done == PopulateCommonTypes(tables, witCache[p], replica[p].release)
    IN  /\ replica[p].pc = "importing"
        /\ replica[p].found \/ FirstTemplate(replica[p].release) \notin tables.templates
        /\ done.ok
        /\ tables' = done.db
        /\ witCache' = [witCache EXCEPT ![p] = done.cache]
        /\ replica' = [replica EXCEPT ![p].pc = "serving"]
        /\ imported' = replica[p].release
        /\ last' = p
        /\ UNCHANGED wits

\* The process of a replica ends, and with it its memory.
Ends(p) ==
    /\ replica' = [replica EXCEPT ![p] = Down]
    /\ witCache' = [witCache EXCEPT ![p] = NoRows]
    /\ UNCHANGED <<tables, wits, imported, last>>

\* It is rolled back, and the replica panics.
ImportFails(p) ==
    /\ replica[p].pc = "importing"
    /\ \/ ~replica[p].found /\ FirstTemplate(replica[p].release) \in tables.templates
       \/ ~PopulateCommonTypes(tables, witCache[p], replica[p].release).ok
    /\ Ends(p)

\* A replica ends, in the middle of its import or later.
StopReplica(p) ==
    /\ replica[p].pc # "down"
    /\ Ends(p)

\* A work item is created or given another state by a replica, with the type it knows.
WriteItem(p, i, type, value) ==
    /\ replica[p].pc = "serving"
    /\ type \in DOMAIN witCache[p] \cup DOMAIN tables.types
    /\ wits[i].type \in {NoType, type}
    /\ LET wit == LoadType(tables, witCache[p], type)
       IN  StateField \in DOMAIN wit.fields /\ value \in Elements(wit.fields[StateField].values)
    /\ witCache' = [witCache EXCEPT ![p] = Put(tables, @, type)]
    /\ wits' = [wits EXCEPT ![i] = [type |-> type, value |-> value]]
    /\ UNCHANGED <<tables, replica, imported, last>>

Values == UNION {UNION {UNION {UNION {Elements(Releases[r][t].types[w].fields[f].values)
                                : f \in DOMAIN Releases[r][t].types[w].fields}
                        : w \in DOMAIN Releases[r][t].types}
                 : t \in DOMAIN Releases[r]}
          : r \in DOMAIN Releases}

ImportNext ==
    \E p \in Replicas :
        \/ \E release \in DOMAIN Releases : StartReplica(p, release)
        \/ ImportDone(p)
        \/ ImportFails(p)
        \/ StopReplica(p)
        \/ \E i \in WorkItems, type \in DOMAIN tables.types, value \in Values : WriteItem(p, i, type, value)

ImportSpec == ImportInit /\ [][ImportNext]_importVars

-------------------------------------------------------------------------------

TypesOf(release) == UNION {Elements(Releases[release][i].types) : i \in DOMAIN Releases[release]}
TypeOf(release, id) == CHOOSE wit \in TypesOf(release) : wit.id = id

\* The committed tables are those of the release that was imported last, and of no other:
\* a type has its own fields and those of the type it extends, and none of a sibling,
\* although both are merged into one map of the cache; the groups, the columns of the
\* boards and the child types are those of the same release, although an import may fail,
\* or its replica stop, after the types were written.
TablesAreOfOneRelease ==
    imported # 0 =>
        /\ DOMAIN tables.types = {wit.id : wit \in TypesOf(imported)}
        /\ \A wit \in TypesOf(imported) :
            /\ tables.children[wit.id] = wit.children
            /\ DOMAIN tables.types[wit.id].fields = DOMAIN wit.fields \cup
                    (IF wit.extends = NoType THEN {} ELSE DOMAIN tables.types[wit.extends].fields)
            /\ \A f \in DOMAIN tables.types[wit.id].fields :
                tables.types[wit.id].fields[f] = IF f \in DOMAIN wit.fields THEN wit.fields[f]
                                                 ELSE tables.types[wit.extends].fields[f]
        /\ \A i \in DOMAIN Releases[imported] :
            LET template == Releases[imported][i]
            IN  /\ tables.groups[template.id] = template.groups
                /\ tables.columns[template.id] = UNION Elements(template.boards)

Extended == {wit.extends : wit \in UNION {TypesOf(r) : r \in DOMAIN Releases}}

\* Fields that are declared in one way: whenever the type does not declare the field, it
\* does not inherit it either, and its values may never be rewritten.  A field that a
\* release moves into the extended type is not compared with what it was.
Steady ==
    LET types == UNION {TypesOf(r) : r \in DOMAIN Releases}
        OneWay(r, wit, f) ==
            IF f \in DOMAIN wit.fields THEN ~wit.fields[f].rewritable
            ELSE \A other \in TypesOf(r) : other.id \in Extended \ {wit.id} => f \notin DOMAIN other.fields
    IN  {<<id, f>> \in {wit.id : wit \in types} \X UNION {DOMAIN wit.fields : wit \in types} :
            \A r \in DOMAIN Releases : \A wit \in TypesOf(r) : wit.id = id => OneWay(r, wit, f)}

\* The value of an item fits the committed type, also if it was written by a replica that
\* still knows an older one.
ItemsFitTheirType ==
    \A i \in WorkItems :
        LET item == wits[i]
        IN  item.type # NoType /\ <<item.type, StateField>> \in Steady =>
                item.value \in Elements(tables.types[item.type].fields[StateField].values)

\* The replica that has imported the templates last knows the types as they are: nothing
\* it has read while it imported them, and has changed since, is left in its cache.
LastImporterIsUpToDate ==
    replica[last].pc = "serving" =>
        \A id \in DOMAIN witCache[last] : id \in DOMAIN tables.types /\ witCache[last][id] = tables.types[id]

\* No release, whichever follows which, takes a field from a type, nor a type from its
\* template, nor changes the kind of a field that is declared in one way.
FieldsStay ==
    [][tables' # tables => \A id \in DOMAIN tables.types :
        /\ id \in DOMAIN tables'.types /\ tables'.types[id].template = tables.types[id].template
        /\ \A f \in DOMAIN tables.types[id].fields :
            /\ f \in DOMAIN tables'.types[id].fields
            /\ <<id, f>> \in Steady => tables'.types[id].fields[f].kind = tables.types[id].fields[f].kind]_importVars

\* Replicas that import their releases at once leave the templates of one of them, which
\* fit the work items that exist, and no import takes anything away that items rely on.
TemplatesAreConsistent ==
    [](TablesAreOfOneRelease /\ ItemsFitTheirType /\ LastImporterIsUpToDate) /\ FieldsStay
===============================================================================
