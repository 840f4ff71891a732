------------------------------ MODULE FieldTypes ------------------------------
(***************************************************************************)
(* The fields of a work item and the change of its type                    *)
(* (workitem/simple_type.go, enum_type.go, list_type.go,                   *)
(* field_definition.go, workitemtype.go and Create, Save and               *)
(* ChangeWorkItemType of workitem_repository.go).                          *)
(*                                                                         *)
(* A Go value is a record of its type and of what it says: a whole number  *)
(* is "1" or "2", "uuid", "url" and " " are strings that parse, or do not, *)
(* as their names tell.  A list has items; the nil slice is the empty one. *)
(* The description of the item, which every type has, is kept apart: told  *)
(* has the labels and values the last step has added to it.                *)
(***************************************************************************)
EXTENDS Naturals, Sequences, SequencesExt

CONSTANTS
    SortedNames,        \* the names of fields, in the order of sort.Strings
    MetaState,          \* SystemMetaState, a field that users do not set (base.yaml:50)
    ItemTypes,          \* ItemTypes[t][f]: definition of field f, for the fields of type t
    Inputs,             \* values that are sent
    Known               \* the identifiers that something stored has

FieldNames == ToSet(SortedNames)
Precedes(f, g) == \E i, j \in DOMAIN SortedNames : i < j /\ SortedNames[i] = f /\ SortedNames[j] = g

FNil == [t |-> "nil", v |-> ""]
FErr == [t |-> "error", v |-> ""]
FPanic == [t |-> "panic", v |-> ""]
FVal(t, v) == [t |-> t, v |-> v]
FList(items) == [t |-> "list", items |-> items]
Failed(v) == v \in {FErr, FPanic}

StringKinds == {"string", "user", "iteration", "area", "label", "boardcolumn"}
Relational == {"iteration", "user", "label", "boardcolumn", "area", "remotetracker", "codebase"}
IsSimpleType(kind) == kind \notin {"enum", "list"}
Whole(v) == v \in {"1", "2"}

ASSUME FieldsAssumption ==
    \A t \in DOMAIN ItemTypes : \A f \in DOMAIN ItemTypes[t] :
        LET d == ItemTypes[t][f]
        IN  /\ f \in FieldNames /\ IsSimpleType(d.base)
            /\ ~(d.required /\ d.readOnly)
            /\ f = MetaState => d.readOnly
            /\ d.kind = "enum" => d.values # <<>> /\ \A i \in DOMAIN d.values : d.values[i].t = "string"

-------------------------------------------------------------------------------

AnyToUUID(v) ==
    IF v.t = "uuid" \/ (v.t = "string" /\ v.v = "uuid") THEN FVal("uuid", v.v) ELSE FErr

\* SimpleType.ConvertToModel
SimpleToModel(kind, v) ==
    IF v = FNil THEN FNil
    ELSE CASE kind \in StringKinds -> IF v.t = "string" THEN v ELSE FErr
         []   kind = "remotetracker" -> AnyToUUID(v)
         []   kind = "url" -> IF v = FVal("string", "url") THEN v ELSE FErr
         []   kind \in {"float", "bool"} -> IF v.t = kind THEN v ELSE FErr
         []   kind = "integer" -> IF v.t \in {"int", "int64"} THEN v
                                  ELSE IF v.t = "float" /\ Whole(v.v) THEN FVal("int", v.v) ELSE FErr
         []   kind = "instant" -> CASE v.t = "time" -> FVal("int64", v.v)
                                  []   v.t \in {"markup", "codebase"} -> FPanic
                                  []   OTHER -> FErr
         []   kind = "markup" -> CASE v.t = "markup" -> IF v.v = "odd" THEN FErr ELSE FVal("map", v.v)
                                 []   v.t = "map" -> FVal("map", IF v.v = "odd" THEN "text" ELSE v.v)
                                 []   v.t = "cbmap" -> FPanic
                                 []   OTHER -> FErr
         []   kind = "codebase" -> IF v = FVal("codebase", "git") THEN FVal("cbmap", "git") ELSE FErr

\* An instant is a number of nanoseconds, which JSON makes a float.
InstantFromModel(v) ==
    IF v.t = "int64" \/ (v.t = "float" /\ Whole(v.v)) THEN FVal("time", v.v) ELSE FErr

\* SimpleType.ConvertFromModel
SimpleFromModel(kind, v) ==
    IF v = FNil THEN FNil
    ELSE CASE kind \in StringKinds \cup {"url", "integer", "float", "bool"} -> v
         []   kind = "remotetracker" -> AnyToUUID(v)
         []   kind = "instant" -> InstantFromModel(v)
         []   kind = "markup" -> CASE v.t = "map" -> FVal("markup", IF v.v = "odd" THEN "text" ELSE v.v)
                                 []   v.t = "cbmap" -> FPanic
                                 []   OTHER -> FErr
         []   kind = "codebase" -> IF v = FVal("cbmap", "git") THEN FVal("codebase", "git") ELSE FErr

\* ConvertList, given what the items of the list are converted to.
ConvertList(v, converted) ==
    CASE v = FNil -> FList(<<>>)
    []   v.t = "list" -> CASE \E i \in DOMAIN converted : converted[i] = FPanic -> FPanic
                         []   \E i \in DOMAIN converted : converted[i] = FErr -> FErr
                         []   OTHER -> FList(converted)
    []   OTHER -> FErr

\* EnumType.ConvertToModel
EnumToModel(d, v) ==
    LET converted == SimpleToModel(d.base, v)
    IN  IF Failed(converted) \/ Contains(d.values, converted) THEN converted ELSE FErr

\* EnumType.ConvertFromModel
EnumFromModel(d, v) ==
    LET converted == SimpleFromModel(d.base, v)
    IN  IF v = FNil THEN FNil
        ELSE IF Failed(converted) \/ Contains(d.values, converted) THEN converted ELSE FErr

\* FieldType.ConvertToModel
ToModel(d, v) ==
    CASE d.kind = "enum" -> EnumToModel(d, v)
    []   d.kind = "list" -> ConvertList(v, [i \in DOMAIN v.items |-> SimpleToModel(d.base, v.items[i])])
    []   OTHER -> SimpleToModel(d.kind, v)

\* FieldType.ConvertFromModel
FromModel(d, v) ==
    CASE d.kind = "enum" -> EnumFromModel(d, v)
    []   d.kind = "list" -> ConvertList(v, [i \in DOMAIN v.items |-> SimpleFromModel(d.base, v.items[i])])
    []   OTHER -> SimpleFromModel(d.kind, v)

\* GetDefaultValue
DefaultOf(d) == IF d.kind = "enum" /\ d.default = FNil THEN d.values[1] ELSE d.default

\* FieldDefinition.ConvertToModel
DefToModel(d, value) ==
    LET v == IF value = FNil THEN DefaultOf(d) ELSE value
    IN  IF d.required /\ (v = FNil \/ (d.kind = "string" /\ (v.t # "string" \/ v.v = " ")))
        THEN FErr
        ELSE ToModel(d, v)

\* FieldDefinition.ConvertFromModel
DefFromModel(d, v) == IF d.required /\ v = FNil THEN FErr ELSE FromModel(d, v)

\* ConvertToModelWithType
WithType(old, new, v) ==
    LET direct == ToModel(new, v)
        wrapped == ToModel(new, FList(<<v>>))
    IN  CASE direct # FErr -> direct
        []   new.kind = "list" -> wrapped
        []   old.kind = "list" /\ v.t = "list" /\ Len(v.items) = 1 -> ToModel(new, v.items[1])
        []   OTHER -> FErr

\* What a value is after it was written to the column fields and read again.
Json(v) ==
    LET Scalar(x) == CASE x.t \in {"int", "int64"} -> FVal("float", x.v)
                     []   x.t = "uuid" -> FVal("string", x.v)
                     []   OTHER -> x
    IN  IF v.t = "list" THEN FList([i \in DOMAIN v.items |-> Scalar(v.items[i])]) ELSE Scalar(v)

\* What KindInstant of ConvertToStringSlice accepts.
IsInstant(v) == v.t = "time"

\* SimpleType.ConvertToStringSlice
SimpleToStrings(kind, v) ==
    IF v = FNil THEN FVal("text", "")
    ELSE IF \/ kind \in StringKinds /\ v.t = "string"
            \/ kind = "remotetracker" /\ ~Failed(AnyToUUID(v))
            \/ kind = "url" /\ v = FVal("string", "url")
            \/ kind \in {"float", "bool"} /\ v.t = kind
            \/ kind = "integer" /\ (v.t \in {"int", "int64"} \/ (v.t = "float" /\ Whole(v.v)))
            \/ kind = "instant" /\ IsInstant(v)
            \/ kind = "markup" /\ v.t \in {"markup", "map"} /\ (v.t = "map" \/ v.v # "odd")
            \/ kind = "codebase" /\ v = FVal("codebase", "git")
         THEN FVal("text", v.v) ELSE FErr

\* FieldType.ConvertToStringSlice
ToStrings(d, v) ==
    CASE d.kind = "enum" -> IF v # FNil /\ ~Contains(d.values, v) THEN FErr ELSE SimpleToStrings(d.base, v)
    []   d.kind = "list" -> ConvertList(v, [i \in DOMAIN v.items |-> SimpleToStrings(d.base, v.items[i])])
    []   OTHER -> SimpleToStrings(d.kind, v)

\* convertValueToString: the identifiers of four kinds are replaced by names.
Named(kind, v) == v = FNil \/ (kind \in {"user", "iteration", "area", "label"} => v.v \in Known)

\* convertWorkItemFieldValues, of a field.
CsvCell(d, v) ==
    /\ ~Failed(ToStrings(d, v))
    /\ CASE d.kind = "enum" -> Named(d.base, v)
       []   d.kind = "list" -> v = FNil \/ \A i \in DOMAIN v.items : Named(d.base, v.items[i])
       []   OTHER -> Named(d.kind, v)

-------------------------------------------------------------------------------

VARIABLES
    itemType,       \* the type of the work item, or "none" before it is created
    stored,         \* stored[f]: what the column fields has
    before,         \* [type, fields] of the revision before the last, if there is one
    told            \* labels and values the last step has added to the description

fieldVars == <<itemType, stored, before, told>>

FieldsOf(type) == DOMAIN ItemTypes[type]

FieldsInit ==
    /\ itemType = "none"
    /\ stored = [f \in FieldNames |-> FNil]
    /\ before = [type |-> "none", fields |-> stored]
    /\ told = {}

\* ConvertWorkItemStorageToModel
Loaded(type, values) == [f \in FieldNames |-> IF f \in FieldsOf(type) THEN DefFromModel(ItemTypes[type][f], values[f]) ELSE FNil]

AnyFailed(values) == \E f \in FieldNames : Failed(values[f])

\* Create skips what is read only and a list that is not sent.
CreateFields(type, sent) ==
    [f \in FieldNames |->
        IF f \notin FieldsOf(type) \/ ItemTypes[type][f].readOnly THEN FNil
        ELSE IF ItemTypes[type][f].kind = "list" /\ sent[f] = FNil /\ ~Failed(DefToModel(ItemTypes[type][f], FNil)) THEN FNil
        ELSE DefToModel(ItemTypes[type][f], sent[f])]

\* Save skips what is read only and a list that is empty.
SaveFields(type, values) ==
    [f \in FieldNames |->
        IF f \notin FieldsOf(type) \/ ItemTypes[type][f].readOnly \/ values[f] = FList(<<>>) THEN FNil
        ELSE DefToModel(ItemTypes[type][f], values[f])]

Converted(old, new, values, f) == WithType(ItemTypes[old][f], ItemTypes[new][f], values[f])

\* fieldDiff of ChangeWorkItemType: what cannot be converted or has no place in the new type.
\* The meta-state is never part of it.
FieldDiff(old, new, values) ==
    {f \in FieldsOf(old) \ {MetaState} : IF f \in FieldsOf(new) THEN Converted(old, new, values, f) = FErr ELSE values[f] # FNil}

\* getValueOfRelationalKind
Resolves(kind, v) == kind \in Relational => kind # "remotetracker" /\ v.t = "string" /\ v.v \in Known

\* Whether a field can be described.
Describes(d, v) ==
    CASE d.kind = "enum" -> Resolves(d.base, v)
    []   d.kind = "list" -> v.t = "list" /\ \A i \in DOMAIN v.items : Resolves(d.base, v.items[i])
    []   OTHER -> Resolves(d.kind, v)

\* Mutant of FieldNameValues: a label that is there stays as it is.
FirstNameValues(old, diff, values) ==
    LET Label(f) == ItemTypes[old][f].label
    IN  {<<Label(f), Json(values[f])>> : f \in {d \in diff : ~\E g \in diff : Precedes(g, d) /\ Label(g) = Label(d)}}

\* FieldNameValues: a field is entered at its label, and the names are visited in their
\* order, so of the fields that have the same label the last one stays.
FieldNameValues(old, diff, values) ==
    LET Label(f) == ItemTypes[old][f].label
    IN  {<<Label(f), Json(values[f])>> : f \in {d \in diff : ~\E g \in diff : Precedes(d, g) /\ Label(g) = Label(d)}}

\* ChangeWorkItemType: the fields afterwards.  The meta-state is left as it is.
ChangedFields(old, new, values) ==
    LET diff == FieldDiff(old, new, values)
        moved == [f \in FieldNames |->
                    IF f \in diff THEN FNil
                    ELSE IF f \in (FieldsOf(old) \cap FieldsOf(new)) \ {MetaState} THEN Converted(old, new, values, f)
                    ELSE values[f]]
    IN  [f \in FieldNames |->
            IF Failed(moved[f]) THEN moved[f]
            ELSE IF f \in FieldsOf(new) \ {MetaState} THEN DefToModel(ItemTypes[new][f], moved[f])
            ELSE moved[f]]

\* The item is stored, with a revision, if all fields could be converted and it can be shown.
Store(type, values) ==
    /\ ~AnyFailed(values) /\ ~AnyFailed(Loaded(type, values))
    /\ itemType' = type
    /\ stored' = [f \in FieldNames |-> Json(values[f])]
    /\ before' = [type |-> itemType, fields |-> stored]

\* Create, with values for one field or two.
CreateItem(type, f, v, g, w) ==
    /\ itemType = "none"
    /\ Store(type, CreateFields(type, [n \in FieldNames |-> IF n = f THEN v ELSE IF n = g THEN w ELSE FNil]))
    /\ told' = {}

\* Save of the item that was loaded, with one field changed.
SaveItem(f, v) ==
    /\ itemType # "none"
    /\ Store(itemType, SaveFields(itemType, [Loaded(itemType, stored) EXCEPT ![f] = v]))
    /\ told' = {}

\* Save of the item that was loaded, with another type.
ChangeType(new) ==
    LET values == SaveFields(itemType, Loaded(itemType, stored))
        diff == FieldDiff(itemType, new, values)
    IN  /\ itemType \notin {"none", new}
        /\ ~AnyFailed(values)
        /\ \A f \in diff : Describes(ItemTypes[itemType][f], values[f])
        /\ Store(new, ChangedFields(itemType, new, values))
        /\ told' = FieldNameValues(itemType, diff, values)

\* convertVal of ConvertEvent, of an item of a list or of a simple value.
EventValue(kind, v) == IF kind = "remotetracker" THEN FNil ELSE v

\* The value of an event as ConvertEvent shows it.
ShownValue(d, v) == IF d.kind = "list" THEN FList([i \in DOMAIN v.items |-> EventValue(d.base, v.items[i])])
                    ELSE EventValue(d.base, v)

\* List of the events, for two revisions: a change of the type, or the fields that differ.
EventsOf(old, new) ==
    IF old.type # new.type THEN {[name |-> "type", old |-> FVal("type", old.type), new |-> FVal("type", new.type)]}
    ELSE LET Value(rev, f) == FromModel(ItemTypes[rev.type][f], rev.fields[f])
         IN  {[name |-> f, old |-> Value(old, f), new |-> Value(new, f)] :
                f \in {n \in FieldsOf(new.type) : Value(old, n) # Value(new, n)}}

FieldsNext ==
    \/ \E type \in DOMAIN ItemTypes : \E f, g \in FieldsOf(type) :
        Precedes(f, g) /\ \E v, w \in Inputs : CreateItem(type, f, v, g, w)
    \/ \E f \in FieldNames, v \in Inputs : SaveItem(f, v)
    \/ \E new \in DOMAIN ItemTypes : ChangeType(new)

FieldsSpec == FieldsInit /\ [][FieldsNext]_fieldVars

-------------------------------------------------------------------------------

JsonTags == {"nil", "string", "float", "bool", "map", "cbmap"}

\* Type invariant: what is stored is JSON, and there are no fields of other types.
FieldsTypeOK ==
    \A f \in FieldNames :
        /\ stored[f] # FNil => itemType # "none" /\ f \in FieldsOf(itemType)
        /\ IF stored[f].t = "list" THEN \A i \in DOMAIN stored[f].items : stored[f].items[i].t \in JsonTags
           ELSE stored[f].t \in JsonTags

\* Whatever was stored, by whatever changes of fields and of the type, the item can be
\* shown, and saving what is shown stores the same again (a list that is empty becomes
\* one that is missing, which a field that is required would not survive).
ItemsStayReadable ==
    itemType # "none" =>
        LET shown == Loaded(itemType, stored)
            again == SaveFields(itemType, shown)
        IN  \A f \in FieldsOf(itemType) :
                /\ ~Failed(shown[f])
                /\ stored[f] \notin {FNil, FList(<<>>)} => Json(again[f]) = stored[f]

\* What an item shows can be exported, except for a field that names something that is
\* not known: the kinds whose identifiers are replaced by names accept any string.
ShownCanBeExported ==
    itemType # "none" =>
        LET shown == Loaded(itemType, stored)
        IN  \A f \in FieldsOf(itemType) :
                LET d == ItemTypes[itemType][f]
                IN  \/ CsvCell(d, shown[f])
                    \/ /\ d.base \in Relational
                       /\ \E v \in (IF shown[f].t = "list" THEN {shown[f].items[i] : i \in DOMAIN shown[f].items} ELSE {shown[f]}) :
                            v.t = "string" /\ v.v \notin Known

\* The events of a work item tell its story: they can be listed after any change, and who
\* applies to the fields of a revision what its events show has the fields of the next.
\* Only the events of a remote tracker have no values.
EventsReplay ==
    before.type # "none" =>
        LET now == [type |-> itemType, fields |-> stored]
            events == EventsOf(before, now)
        IN  IF before.type # itemType THEN \E e \in events : e.new.v = itemType
            ELSE \A f \in FieldsOf(itemType) :
                    LET d == ItemTypes[itemType][f]
                        of == {e \in events : e.name = f}
                    IN  /\ \A e \in of : ~Failed(e.old) /\ ~Failed(e.new)
                        /\ d.base # "remotetracker" =>
                            FromModel(d, stored[f]) = IF of = {} THEN FromModel(d, before.fields[f])
                                                      ELSE ShownValue(d, (CHOOSE e \in of : TRUE).new)

Atoms(v) == IF v.t = "list" THEN {v.items[i].v : i \in DOMAIN v.items} ELSE {v.v} \ {""}

\* A change of the type loses nothing but what another field with the same label hides:
\* what a field had is in the field of the new type afterwards, as a value or as the item
\* of a list, or else in the description, unless a later field with its label was lost too
\* and is there in its place.  The meta-state, which the comment of ChangeWorkItemType
\* keeps out of the description, is neither set nor described.
LostIsDescribed ==
    [][itemType # "none" /\ itemType' # itemType =>
        LET Label(f) == ItemTypes[itemType][f].label
            Lost(f) == stored[f] # FNil /\ ~(Atoms(stored[f]) \subseteq Atoms(stored'[f]))
        IN  /\ \A f \in FieldsOf(itemType) : Lost(f) =>
                \E g \in FieldsOf(itemType) :
                    /\ g = f \/ (Precedes(f, g) /\ Label(g) = Label(f) /\ Lost(g))
                    /\ <<Label(f), stored[g]>> \in told'
            /\ stored'[MetaState] = FNil
            /\ MetaState \in FieldsOf(itemType) => Label(MetaState) \notin {entry[1] : entry \in told'}]_fieldVars

\* A change of the type keeps the value of a field that both types define alike, unless
\* it is an instant: ConvertToModel does not accept what it has returned, and the value
\* is moved into the description.  (For the same reason no item with a codebase changes
\* its type: its value can be neither converted nor described.)
AlikeFieldsAreKept ==
    [][itemType # "none" /\ itemType' # itemType =>
        \A f \in FieldsOf(itemType) \cap FieldsOf(itemType') :
            LET d == ItemTypes[itemType][f]
            IN  d = ItemTypes[itemType'][f] /\ d.base # "instant" /\ stored[f] \notin {FNil, FList(<<>>)} =>
                    stored'[f] = stored[f]]_fieldVars

\* What is stored in a field can be read, exported and told as events, and survives a
\* change of the type.
FieldsSurvive ==
    /\ [](FieldsTypeOK /\ ItemsStayReadable /\ ShownCanBeExported /\ EventsReplay)
    /\ LostIsDescribed /\ AlikeFieldsAreKept
===============================================================================
