------------------------------- MODULE Search -------------------------------
(***************************************************************************)
(* Searching work items: a filter document is parsed into a query, the     *)
(* query into a criteria expression, the expression is compiled to a WHERE *)
(* clause with LEFT JOINs, and the matches are completed with their        *)
(* ancestors (tree view), paged, or exported as CSV in windows.            *)
(*                                                                         *)
(* Go iterates over maps in an arbitrary order, so parsing a document and  *)
(* ordering the joins are nondeterministic.  PostgreSQL's three-valued     *)
(* logic is modelled with the values "t", "f" and "n" (NULL).              *)
(*                                                                         *)
(* A filter request and an export run in several database statements,      *)
(* between which other requests delete, unlink, link and create work       *)
(* items.                                                                  *)
(* Searches only read, so that one of them at a time is enough; searches   *)
(* by URL write the process-wide table of known URLs and do overlap.       *)
(***************************************************************************)
EXTENDS Integers, Sequences, FiniteSets, SequencesExt

CONSTANTS
    N,              \* work items are numbered in the order they are created
    Attr,           \* what each item is: state, labels, iteration, type
    FirstParent,    \* the parent each item has at first, or None
    NewLinks,       \* bound: the links, as pairs of source and target, that are made later
    MaxLinks,       \* bound: the rows of links that the database may have
    Existing,       \* how many items exist at first
    None,           \* an absent value
    LabelName,      \* the names of the labels
    IterationName,  \* the names of the iterations
    Below,          \* the iterations in the subtree of each iteration
    TypeGroups,     \* the types in each work item type group
    Containing,     \* the states that contain a pattern (the text field of the model)
    MaxChanges,     \* bound: the changes that come between the statements of a request
    Docs,           \* the filter documents clients send
    CsvLimit,       \* the window of an export
    Clients, HostOf \* clients that search by URL, and the host they talk to

\* The labels of an item are None when its fields have no key for them, which is what
\* Save makes of a list that is cleared; Create stores an empty list that is sent, and
\* Reorder one for a key that is missing.
Items == 1..N

VARIABLES
    created,        \* how many items were created
    live,           \* the items that are not deleted
    linkRows,       \* linkRows[i]: the parents in the links that i has had, oldest first
    linked,         \* the items whose newest link is not (soft-)deleted, as all others are
    req,            \* the filter request or export that runs
    known,          \* the host the known URLs are registered for
    url             \* the searches by URL

itemVars == <<created, live, linkRows, linked>>
vars == <<itemVars, req, known, url>>

-------------------------------------------------------------------------------
(* The database as the queries see it *)

Linked(i) == i \in linked
Parent(i) == Last(linkRows[i])

\* GetAncestors: the sources of the live links from the items upward.
RECURSIVE AncestorsOf(_)
AncestorsOf(S) ==
    LET up == {Parent(i) : i \in {j \in S : Linked(j)}} IN
    IF up \subseteq S THEN up ELSE up \cup AncestorsOf(S \cup up)

GetParentOf(ancestors, i) == IF Linked(i) /\ Parent(i) \in ancestors THEN Parent(i) ELSE None

\* ListChildLinks: the children of the given parents.
ListChildLinks(parents) == {i \in Items : Linked(i) /\ Parent(i) \in parents}

-------------------------------------------------------------------------------
(* From a document to a query *)

Query == [name |-> "", value |-> None, negate |-> FALSE, substring |-> FALSE, child |-> FALSE,
          children |-> <<>>, childSet |-> FALSE]

Leaf(key, v) == [Query EXCEPT !.name = key, !.value = v]

\* The operators of a leaf: {"key": {"$IN": [...]}} and so on; an operator the
\* parser does not know leaves the value nil.
ParseOperator(q, key, val) ==
    CASE "in" \in DOMAIN val -> [q EXCEPT !.name = "$OR",
              !.children = @ \o [n \in 1..Len(val.in) |-> Leaf(key, val.in[n])]]
      [] "eq" \in DOMAIN val -> [q EXCEPT !.name = key, !.value = val.eq]
      [] "ne" \in DOMAIN val -> [q EXCEPT !.name = key, !.value = val.ne, !.negate = TRUE]
      [] "substr" \in DOMAIN val -> [q EXCEPT !.name = key, !.value = val.substr, !.substring = TRUE]
      [] OTHER -> [q EXCEPT !.name = key]

ParseScalar(q, key, val) ==
    CASE "str" \in DOMAIN val ->
              [q EXCEPT !.name = key, !.value = val.str,
                        !.child = @ \/ (key \in {"iteration", "area"} /\ ~q.childSet)]
      [] "bool" \in DOMAIN val ->
              IF key = "negate" THEN [q EXCEPT !.negate = val.bool]
              ELSE IF key = "child" THEN [q EXCEPT !.child = val.bool, !.childSet = TRUE]
              ELSE q
      [] "null" \in DOMAIN val -> [q EXCEPT !.name = key, !.value = None]
      [] OTHER -> IF key = "$OPTS" THEN q ELSE ParseOperator(q, key, val)

RECURSIVE ParseMap(_, _, _), ParseArray(_)
\* What parseMap may make of the keys of a document that are left, from q on:
\* the keys are visited in any order.
ParseMap(doc, q, keys) ==
    IF keys = {} THEN {[q EXCEPT !.childSet = FALSE]}
    ELSE UNION {IF "list" \in DOMAIN doc[key]
                THEN UNION {ParseMap(doc, [q EXCEPT !.name = key, !.children = @ \o c], keys \ {key}) :
                               c \in ParseArray(doc[key].list)}
                ELSE ParseMap(doc, ParseScalar(q, key, doc[key]), keys \ {key}) : key \in keys}

ParseArray(docs) ==
    IF docs = <<>> THEN {<<>>}
    ELSE {<<q>> \o rest : q \in ParseMap(Head(docs), Query, DOMAIN Head(docs)), rest \in ParseArray(Tail(docs))}

Parsed(doc) == ParseMap(doc, Query, DOMAIN doc)

TreeView(doc) == "$OPTS" \in DOMAIN doc

-------------------------------------------------------------------------------
(* From a query to an expression *)

IsOperator(name) == name \in {"$AND", "$OR"}

OwnFields == {"state", "label", "iteration", "number"}
ListFields == {"label"}

\* The default table joins: what activates them, their columns, what they need.
Joins ==
    [iteration |-> [fields |-> {"iteration.name", "iteration.secret"}, allowed |-> {"iteration.name"}, needs |-> <<>>],
     label |-> [fields |-> {"label.name"}, allowed |-> {"label.name"}, needs |-> <<>>],
     space |-> [fields |-> {}, allowed |-> {}, needs |-> <<>>],
     typegroup |-> [fields |-> {}, allowed |-> {}, needs |-> <<"space">>],
     typegroup_members |-> [fields |-> {"typegroup.name"}, allowed |-> {"typegroup.name"}, needs |-> <<"typegroup">>],
     parent_link |-> [fields |-> {}, allowed |-> {}, needs |-> <<>>],
     parent |-> [fields |-> {"parent.number"}, allowed |-> {"parent.number"}, needs |-> <<"parent_link">>]]

JoinsFor(field) == {j \in DOMAIN Joins : field \in Joins[j].fields}

KnownKey(name) == name \in OwnFields \/ JoinsFor(name) # {}

Failure(why) == [op |-> why]

LeafExpression(q) ==
    CASE ~KnownKey(q.name) -> Failure("bad parameter")
      [] q.value = None -> IF q.negate THEN Failure("bad parameter") ELSE [op |-> "isnull", field |-> q.name]
      [] OTHER -> [op |-> IF q.negate THEN "not" ELSE IF q.substring THEN "substring"
                          ELSE IF q.child THEN "child" ELSE "equals",
                   field |-> q.name, value |-> q.value]

\* And and Or set the parent of both operands: a nil operand panics.
Combine(op, left, right) ==
    IF left = Failure("nil") THEN right
    ELSE IF right = Failure("nil") THEN Failure("panic")
    ELSE [op |-> op, left |-> left, right |-> right]

RECURSIVE CombineAll(_, _, _), GenerateExpression(_)
CombineAll(op, left, parts) ==
    IF parts = <<>> THEN left ELSE CombineAll(op, Combine(op, left, Head(parts)), Tail(parts))

GenerateExpression(q) ==
    LET parts == [n \in 1..Len(q.children) |->
                     IF IsOperator(q.children[n].name) THEN GenerateExpression(q.children[n])
                     ELSE LeafExpression(q.children[n])]
        Fails(e) == e.op \in {"bad parameter", "panic"}
        failed == {n \in DOMAIN parts : Fails(parts[n])}
    IN  CASE ~IsOperator(q.name) /\ Fails(LeafExpression(q)) -> LeafExpression(q)
          [] failed # {} -> parts[CHOOSE n \in failed : \A k \in failed : n <= k]
          [] ~IsOperator(q.name) -> LeafExpression(q)
          [] OTHER -> CombineAll(IF q.name = "$AND" THEN "and" ELSE "or", Failure("nil"), parts)

RECURSIVE Leaves(_)
Leaves(e) == IF e.op \in {"and", "or"} THEN Leaves(e.left) \cup Leaves(e.right) ELSE {e}

-------------------------------------------------------------------------------
(* From an expression to SQL *)

\* The joins the visitor activates: the first one that handles the field (a
\* child expression needs the iterations).
Activated(e) ==
    UNION {IF l.op = "child" THEN {"iteration"} ELSE IF l.op = "isnull" THEN {} ELSE JoinsFor(l.field) : l \in Leaves(e)}

RECURSIVE ActivateRequiredJoins(_)
ActivateRequiredJoins(active) ==
    LET more == active \cup UNION {ToSet(Joins[j].needs) : j \in active} IN
    IF more = active THEN active ELSE ActivateRequiredJoins(more)

\* visitDepthFirst: the joins a join needs go first; nothing is visited twice.
RECURSIVE VisitDepthFirst(_, _), VisitNeeded(_, _)
VisitDepthFirst(out, j) ==
    IF j \in ToSet(out) THEN out ELSE Append(VisitNeeded(out, Joins[j].needs), j)

VisitNeeded(out, needs) ==
    IF needs = <<>> THEN out ELSE VisitNeeded(VisitDepthFirst(out, Head(needs)), Tail(needs))

\* The map of joins is walked in any order.
RECURSIVE VisitAll(_, _)
VisitAll(out, todo) ==
    IF todo = {} THEN {out}
    ELSE UNION {LET more == VisitDepthFirst(out, j) IN VisitAll(more, todo \ ToSet(more)) : j \in todo}

GetOrderedActivatedJoins(active) == VisitAll(<<>>, active)

\* What the compiler refuses: a column that is not allowed, a substring of a
\* list, a child of something that has no children.
CompileFails(e) ==
    \E l \in Leaves(e) :
        \/ l.op \in {"equals", "not", "substring"} /\ JoinsFor(l.field) # {}
              /\ \A j \in JoinsFor(l.field) : l.field \notin Joins[j].allowed
        \/ l.op = "substring" /\ l.field \in ListFields
        \/ l.op = "child" /\ l.field # "iteration"

\* What the database refuses: a null test that activates no join, a substring
\* of a joined column (the column stands alone in the clause) or of a number.
DatabaseFails(e) ==
    \E l \in Leaves(e) :
        \/ l.op = "isnull" /\ JoinsFor(l.field) # {}
        \/ l.op = "substring" /\ (JoinsFor(l.field) # {} \/ l.field = "number")

LabelsOf(i) == IF Attr[i].labels = None THEN {} ELSE Attr[i].labels

\* The rows the LEFT JOINs make of item i.  The joins with links, parents,
\* labels and iterations ask for no deleted_at, so that every link an item has
\* had makes a row; the type groups' own WHERE drops the rows of other groups.
Rows(i, joins) ==
    LET Left(S) == IF S = {} THEN {None} ELSE S
        On(j, S) == IF j \in joins THEN Left(S) ELSE {None}
    IN  [item : {i},
         iter : On("iteration", {Attr[i].iteration} \ {None}),
         label : On("label", LabelsOf(i)),
         link : On("parent_link", DOMAIN linkRows[i]),
         group : IF "typegroup" \in joins THEN {g \in DOMAIN TypeGroups : Attr[i].type \in TypeGroups[g]}
                 ELSE {None}]

Sql(b) == IF b THEN "t" ELSE "f"
SqlNot(v) == CASE v = "t" -> "f" [] v = "f" -> "t" [] OTHER -> "n"
SqlAnd(v, w) == IF "f" \in {v, w} THEN "f" ELSE IF "n" \in {v, w} THEN "n" ELSE "t"
SqlOr(v, w) == SqlNot(SqlAnd(SqlNot(v), SqlNot(w)))

\* The column a field is translated to; fields of the item live in its JSON.
Column(row, field) ==
    CASE field = "number" -> ToString(row.item)
      [] field = "iteration.name" -> IF row.iter = None THEN None ELSE IterationName[row.iter]
      [] field = "label.name" -> IF row.label = None THEN None ELSE LabelName[row.label]
      [] field = "parent.number" -> IF row.link = None THEN None ELSE ToString(linkRows[row.item][row.link])
      [] field = "typegroup.name" -> row.group

JSONContains(i, field, v) ==
    CASE field = "state" -> Attr[i].state = v
      [] field = "iteration" -> Attr[i].iteration = v
      [] field = "label" -> v \in LabelsOf(i)

IsJSON(field) == field \in {"state", "label", "iteration"}

\* A mutated form: a list field has to have exactly the one value.
EqualsSqlWhole(row, l) ==
    IF l.field = "label" THEN Sql(LabelsOf(row.item) = {l.value})
    ELSE IF IsJSON(l.field) THEN Sql(JSONContains(row.item, l.field, l.value))
    ELSE IF Column(row, l.field) = None THEN "n" ELSE Sql(Column(row, l.field) = l.value)

EqualsSql(row, l) ==
    IF IsJSON(l.field) THEN Sql(JSONContains(row.item, l.field, l.value))
    ELSE IF Column(row, l.field) = None THEN "n" ELSE Sql(Column(row, l.field) = l.value)

\* A list that is empty is not NULL.
IsNullSql(row, l) ==
    CASE l.field = "label" -> Sql(Attr[row.item].labels = None)
      [] l.field = "iteration" -> Sql(Attr[row.item].iteration = None)
      [] OTHER -> "f"

ChildSql(row, l) == Sql(row.iter # None /\ l.value \in DOMAIN Below /\ row.iter \in Below[l.value])

RECURSIVE Where(_, _)
Where(row, e) ==
    CASE e.op = "and" -> SqlAnd(Where(row, e.left), Where(row, e.right))
      [] e.op = "or" -> SqlOr(Where(row, e.left), Where(row, e.right))
      [] e.op = "equals" -> EqualsSql(row, e)
      [] e.op = "not" -> SqlNot(EqualsSql(row, e))
      [] e.op = "substring" -> Sql(Attr[row.item].state \in Containing[e.value])
      [] e.op = "isnull" -> IsNullSql(row, e)
      [] e.op = "child" -> ChildSql(row, e)

\* The items of the rows listItemsFromDB finds, newest first: filter[parentexists]=false adds
\* that there is no live link to a parent.
ListItems(e, joins, rootsOnly) ==
    LET Found(i) == {row \in Rows(i, joins) : Where(row, e) = "t" /\ (rootsOnly => ~Linked(i))}
        Listed(i) == IF i \in live THEN [n \in 1..Cardinality(Found(i)) |-> i] ELSE <<>>
    IN  FlattenSeq([n \in 1..N |-> Listed(N + 1 - n)])

Page(s, offset, limit) == SubSeq(s, offset + 1, IF offset + limit < Len(s) THEN offset + limit ELSE Len(s))

-------------------------------------------------------------------------------
(* Requests *)

Idle == [pc |-> "idle"]

Init ==
    /\ created = Existing /\ live = 1..Existing
    /\ linkRows = [i \in Items |-> IF FirstParent[i] = None THEN <<>> ELSE <<FirstParent[i]>>]
    /\ linked = {i \in Items : FirstParent[i] # None}
    /\ req = Idle
    /\ known = None
    /\ url = [c \in Clients |-> [pc |-> "idle"]]

\* The changes of other requests come between the statements of this one: one before its
\* first statement or after its last is the same as one before or after the request.
Disturb ==
    /\ req.pc \in {"idle", "listed", "enrich"} \/ (req.pc = "export" /\ req.offset > 0)
    /\ req' = IF req.pc = "idle" THEN req ELSE [req EXCEPT !.changes = @ + 1]
    /\ req.pc # "idle" => req.changes < MaxChanges

\* Other requests delete an item with its links ...
DeleteItem(i) ==
    /\ i \in live /\ live' = live \ {i}
    /\ linked' = linked \ ({i} \cup {c \in linked : Parent(c) = i})
    /\ Disturb /\ UNCHANGED <<created, linkRows, known, url>>

\* ... remove a link ...
DeleteLink(i) ==
    /\ i \in live /\ Linked(i)
    /\ linked' = linked \ {i}
    /\ Disturb /\ UNCHANGED <<created, live, linkRows, known, url>>

\* ... make one to a parent, which keeps the items a forest ...
CreateLink(p, i) ==
    /\ {p, i} \subseteq live
    /\ ~Linked(i) /\ i \notin AncestorsOf({p}) \cup {p}
    /\ Cardinality(UNION {{c} \X DOMAIN linkRows[c] : c \in Items}) < MaxLinks
    /\ linkRows' = [linkRows EXCEPT ![i] = Append(@, p)]
    /\ linked' = linked \cup {i}
    /\ Disturb /\ UNCHANGED <<created, live, known, url>>

\* ... or create an item, which becomes the first of the execution order.
CreateItem(i) ==
    /\ i = created + 1 /\ i \in Items
    /\ created' = i /\ live' = live \cup {i}
    /\ Disturb /\ UNCHANGED <<linkRows, linked, known, url>>

NoUrlSearch == \A c \in Clients : url[c].pc = "idle"

Start(pc) ==
    /\ req.pc = "idle" /\ NoUrlSearch
    /\ \E doc \in Docs, roots \in BOOLEAN : \E q \in Parsed(doc) :
          req' = [pc |-> pc, doc |-> doc, roots |-> roots, expr |-> GenerateExpression(q),
                  joins |-> <<>>, rows |-> <<>>, ancestors |-> {}, children |-> {},
                  included |-> {}, offset |-> 0, changes |-> 0]
    /\ UNCHANGED <<itemVars, known, url>>

\* Show with a filter, and WorkitemsCSV: both parse the document first.
ShowFilter == Start("parsed")
WorkitemsCSV == Start("export")

Failed == req.expr.op \in {"nil", "bad parameter", "panic"} \/ CompileFails(req.expr) \/ DatabaseFails(req.expr)

\* Compile, then the query in listItemsFromDB.
Filter ==
    /\ req.pc = "parsed"
    /\ IF Failed THEN req' = [req EXCEPT !.pc = "failed"]
       ELSE \E order \in GetOrderedActivatedJoins(ActivateRequiredJoins(Activated(req.expr))) :
               req' = [req EXCEPT !.pc = IF TreeView(req.doc) THEN "listed" ELSE "done", !.joins = order,
                                  !.rows = ListItems(req.expr, ToSet(order), req.roots)]
    /\ UNCHANGED <<itemVars, known, url>>

\* The tree view: all ancestors, and the children of the matches that are the
\* parent of another match.
FilterTree ==
    /\ req.pc = "listed"
    /\ LET matching == ToSet(req.rows)
           ancestors == AncestorsOf(matching)
           parents == {p \in matching : \E i \in matching \ {p} : GetParentOf(ancestors, i) = p}
       IN  req' = [req EXCEPT !.pc = "enrich", !.ancestors = ancestors, !.children = ListChildLinks(parents)]
    /\ UNCHANGED <<itemVars, known, url>>

\* enrichWorkItemList loads what is not among the matches, in a transaction of
\* its own.
EnrichWorkItemList ==
    /\ req.pc = "enrich"
    /\ req' = [req EXCEPT !.pc = "done",
                          !.included = ((req.ancestors \cup req.children) \ ToSet(req.rows)) \cap live]
    /\ UNCHANGED <<itemVars, known, url>>

\* A mutated form: the row after the first window is skipped.
NextOffsetSkip(offset, window) == IF offset = 0 THEN CsvLimit + 1 ELSE offset + Len(window)

\* The offset of the next window of an export; the first window advances it by
\* the limit whatever it held.
NextOffset(offset, window) == IF offset = 0 THEN CsvLimit ELSE offset + Len(window)

\* One window of an export.  The first one always asks for a second.
ExportWindow ==
    /\ req.pc = "export"
    /\ IF Failed THEN req' = [req EXCEPT !.pc = "failed"]
       ELSE LET joins == ActivateRequiredJoins(Activated(req.expr))
                window == Page(ListItems(req.expr, joins, req.roots), req.offset, CsvLimit)
                last == IF req.offset = 0 THEN window = <<>> ELSE Len(window) < CsvLimit
            IN  req' = [req EXCEPT !.pc = IF last THEN "exported" ELSE "export",
                                   !.rows = @ \o window, !.offset = NextOffset(req.offset, window)]
    /\ UNCHANGED <<itemVars, known, url>>

Respond ==
    /\ req.pc \in {"done", "failed", "exported"}
    /\ req' = Idle
    /\ UNCHANGED <<itemVars, known, url>>

-------------------------------------------------------------------------------
(* Searching by URL *)

\* Show registers the URLs of the host of the request ...
RegisterAsKnownURL(c) == known' = HostOf[c]

ShowUrl(c) ==
    /\ url[c].pc = "idle" /\ req.pc = "idle"
    /\ RegisterAsKnownURL(c)
    /\ url' = [d \in Clients |-> IF d = c THEN [pc |-> "search", alone |-> NoUrlSearch]
                                 ELSE IF url[d].pc = "search" THEN [url[d] EXCEPT !.alone = FALSE] ELSE url[d]]
    /\ UNCHANGED <<itemVars, req>>

\* ... and the keyword that is a URL is split into its parts when it matches.
SearchFullText(c) ==
    /\ url[c].pc = "search"
    /\ url' = [url EXCEPT ![c] = [pc |-> "answered", alone |-> url[c].alone, split |-> known = HostOf[c]]]
    /\ UNCHANGED <<itemVars, req, known>>

AnswerUrl(c) ==
    /\ url[c].pc = "answered"
    /\ url' = [url EXCEPT ![c] = [pc |-> "idle"]]
    /\ UNCHANGED <<itemVars, req, known>>

Others ==
    \/ \E i \in Items : DeleteItem(i) \/ DeleteLink(i) \/ CreateItem(i)
    \/ \E l \in NewLinks : CreateLink(l[1], l[2])

Requests == Filter \/ FilterTree \/ EnrichWorkItemList \/ ExportWindow \/ Respond

UrlSearches == \E c \in Clients : ShowUrl(c) \/ SearchFullText(c) \/ AnswerUrl(c)

Next == Others \/ ShowFilter \/ WorkitemsCSV \/ Requests \/ UrlSearches

Spec == Init /\ [][Next]_vars

-------------------------------------------------------------------------------
(* What a document means *)

Conditions(doc) == DOMAIN doc \ {"negate", "child", "$OPTS"}

\* Documents with one condition at every level, which does not carry an
\* operator and the flag that contradicts it.
RECURSIVE WellFormed(_)
WellFormed(doc) ==
    /\ Cardinality(Conditions(doc)) = 1
    /\ \A key \in Conditions(doc) :
          IF "list" \in DOMAIN doc[key]
          THEN IsOperator(key) /\ doc[key].list # <<>> /\ \A n \in DOMAIN doc[key].list : WellFormed(doc[key].list[n])
          ELSE /\ KnownKey(key) /\ "other" \notin DOMAIN doc[key]
               /\ "ne" \in DOMAIN doc[key] => "negate" \notin DOMAIN doc
               /\ "in" \in DOMAIN doc[key] => "negate" \notin DOMAIN doc /\ doc[key].in # <<>>

Exactly(i, key, v) ==
    CASE key = "number" -> ToString(i) = v
      [] key = "iteration.name" -> Attr[i].iteration # None /\ IterationName[Attr[i].iteration] = v
      [] key = "label.name" -> \E l \in LabelsOf(i) : LabelName[l] = v
      [] key = "parent.number" -> Linked(i) /\ ToString(Parent(i)) = v
      [] key = "typegroup.name" -> Attr[i].type \in TypeGroups[v]
      [] OTHER -> JSONContains(i, key, v)

Flag(doc, name, default) == IF name \in DOMAIN doc THEN doc[name].bool ELSE default

RECURSIVE Means(_, _)
Means(doc, i) ==
    LET key == CHOOSE k \in Conditions(doc) : TRUE
        val == doc[key]
        negate == Flag(doc, "negate", FALSE)
        Sub(v) == IF key = "iteration" /\ Flag(doc, "child", TRUE)
                  THEN Attr[i].iteration \in Below[v] ELSE Exactly(i, key, v)
    IN  CASE "list" \in DOMAIN val ->
                IF key = "$AND" THEN \A n \in DOMAIN val.list : Means(val.list[n], i)
                ELSE \E n \in DOMAIN val.list : Means(val.list[n], i)
          [] "str" \in DOMAIN val -> IF negate THEN ~Exactly(i, key, val.str) ELSE Sub(val.str)
          [] "eq" \in DOMAIN val -> IF negate THEN ~Exactly(i, key, val.eq)
                                    ELSE IF Flag(doc, "child", FALSE) THEN Sub(val.eq) ELSE Exactly(i, key, val.eq)
          [] "ne" \in DOMAIN val -> ~Exactly(i, key, val.ne)
          [] "in" \in DOMAIN val -> \E n \in DOMAIN val.in : Exactly(i, key, val.in[n])
          [] "substr" \in DOMAIN val -> Attr[i].state \in Containing[val.substr]
          [] "null" \in DOMAIN val -> IF key = "label" THEN LabelsOf(i) = {} ELSE Attr[i].iteration = None

-------------------------------------------------------------------------------
(* Properties *)

TypeOK ==
    /\ created \in Items /\ live \subseteq 1..created /\ linked \subseteq live
    /\ \A i \in Items : linkRows[i] \in Seq(1..created)
    /\ \A i \in linked : linkRows[i] # <<>> /\ Parent(i) \in live
    /\ req.pc \in {"idle", "parsed", "listed", "enrich", "export", "done", "exported", "failed"}
    /\ req.pc # "idle" => /\ req.included \subseteq Items \ ToSet(req.rows)
                          /\ ToSet(req.rows) \subseteq Items
    /\ known \in {HostOf[c] : c \in Clients} \cup {None}
    /\ \A c \in Clients : url[c].pc \in {"idle", "search", "answered"}

\* The order in which Go visits the keys of a document never decides what a
\* well-formed filter means: parseMap has one result (the flag "child" wins over
\* the default whether it comes before or after the iteration).
ParsedAlike == req.pc = "parsed" /\ WellFormed(req.doc) => Cardinality(Parsed(req.doc)) = 1

\* Whatever order the map of joins is walked in, every join comes after the
\* joins its ON clause refers to, once, and nothing else is joined.
JoinsInOrder ==
    req.pc \in {"listed", "enrich", "done"} =>
        /\ ToSet(req.joins) = ActivateRequiredJoins(Activated(req.expr))
        /\ \A m, n \in DOMAIN req.joins :
              /\ req.joins[m] = req.joins[n] => m = n
              /\ req.joins[m] \in ToSet(Joins[req.joins[n]].needs) => m < n

\* Filters whose SQL is two-valued: no inequality on joined data, which NULL
\* turns into neither true nor false, and no type group beside another
\* condition of an OR, which its WHERE would restrict.
Plain(e) ==
    /\ \A l \in Leaves(e) : l.op = "not" => JoinsFor(l.field) = {}
    /\ e.op = "or" => \A l \in Leaves(e) : l.field # "typegroup.name"

\* A filter finds the items that exist and mean what it says, but for two
\* kinds of them: by a parent it also finds items that were unlinked from it,
\* since the join does not ask for deleted_at, and by the lack of labels it
\* does not find the items whose list of labels is stored although it is empty.
MatchesMeanTheFilter ==
    req.pc = "done" /\ req.changes = 0 /\ WellFormed(req.doc) /\ Plain(req.expr) =>
        LET found == ToSet(req.rows)
            wanted == {i \in live : Means(req.doc, i) /\ (req.roots => ~Linked(i))}
            Asks(op, field) == \E l \in Leaves(req.expr) : l.op = op /\ l.field = field
            Unlinked(i) == Len(linkRows[i]) > IF Linked(i) THEN 1 ELSE 0
        IN  /\ found \subseteq live
            /\ \A i \in found \ wanted : Asks("equals", "parent.number") /\ Unlinked(i)
            /\ \A i \in wanted \ found : Asks("isnull", "label") /\ Attr[i].labels = {}

\* An item is found once for every row of what is joined: for each label, type
\* group and link to a parent that it has, and once if nothing of that is joined.
FoundOnce ==
    req.pc \in {"done", "exported"} /\ req.changes = 0 =>
        LET joined == Activated(req.expr)
            Times(join, S) == IF join \in joined /\ S # {} THEN Cardinality(S) ELSE 1
        IN  \A i \in ToSet(req.rows) :
                Cardinality({n \in DOMAIN req.rows : req.rows[n] = i})
                    <= Times("label", LabelsOf(i)) * Times("parent", DOMAIN linkRows[i])
                        * Times("typegroup_members", {g \in DOMAIN TypeGroups : Attr[i].type \in TypeGroups[g]})

\* In the tree view every match is shown with the path to its root, and with
\* its siblings when its parent matches too.
TreeIsConnected ==
    req.pc = "done" /\ TreeView(req.doc) /\ req.changes = 0 =>
        LET shown == ToSet(req.rows) \cup req.included IN
        /\ \A i \in shown : Linked(i) => Parent(i) \in shown
        /\ \A i \in ToSet(req.rows), s \in live :
              Linked(i) /\ Linked(s) /\ Parent(i) = Parent(s) /\ Parent(i) \in ToSet(req.rows) => s \in shown

\* An export that nobody disturbs holds every match, in order, as one query
\* would return them.
ExportIsComplete ==
    req.pc = "exported" /\ req.changes = 0 =>
        req.rows = ListItems(req.expr, ActivateRequiredJoins(Activated(req.expr)), req.roots)

\* A URL of the host a client talks to is understood, unless a client of
\* another host registers its own meanwhile.
OwnUrlsAreKnown == \A c \in Clients : url[c].pc = "answered" /\ url[c].alone => url[c].split

\* An export pages to an end even while items come and go: no window is asked
\* for again.
ExportAdvances == [][ExportWindow /\ req'.pc = "export" => req'.offset > req.offset]_vars

\* A filter means the same in whatever order its maps are visited, and what it is compiled
\* to finds the work items that it describes, once for every row that is joined to them.
FiltersMeanWhatTheySay == TypeOK /\ ParsedAlike /\ JoinsInOrder /\ MatchesMeanTheFilter /\ FoundOnce

\* Answers are complete, also while work items change between the queries of a request: a
\* tree reaches every match, an export in windows misses nothing that stays and gets to
\* its end, and a URL that was registered is recognized.
AnswersAreComplete == [](TreeIsConnected /\ ExportIsComplete /\ OwnUrlsAreKnown) /\ ExportAdvances

\* Refuted claim: Filter "returns the work items matching the search as well as
\* their count": with two labels an item is listed, and counted, twice.
CountsMatches == req.pc = "done" => Len(req.rows) = Cardinality(ToSet(req.rows))
=============================================================================
