------------------------------- MODULE ItemPatch -------------------------------
(***************************************************************************)
(* What a request says about a work item is put into the item              *)
(* (ConvertJSONAPIToWorkItem of controller/workitem.go), which is created  *)
(* (Create of controller/workitems.go) or saved (Update).  Update loads    *)
(* the item in one transaction and converts and saves it in another one;   *)
(* only the version of the request is compared then.                       *)
(***************************************************************************)
EXTENDS Naturals, Sequences, SequencesExt

CONSTANTS
    PatchClients,
    PatchSources,   \* requests: [rel, attr], functions from what the request has to what it says of it
    Identities, LabelRows, IterationRows, AreaRows,
    RootIteration, RootArea,
    Null,           \* an explicit null of the request, and a field without a value
    MaxItemVersion, MaxCodebases     \* bounds

\* An item that was not created yet has version 0.
NoItem == [version |-> 0, assignees |-> {}, labels |-> {}, columns |-> {}, iteration |-> Null, area |-> Null,
           description |-> Null, codebase |-> Null, other |-> Null]

Markups == {"PlainText", "Markdown"}

\* Descriptions are texts with a markup, or there is none (Null).
Descriptions ==
    LET with(key) == {source \in PatchSources : key \in DOMAIN source.attr}
    IN  [content : {""} \cup {source.attr.description.content : source \in with("description")},
         markup  : {source.attr.markup : source \in with("markup")}
                     \cup {source.attr.description.markup : source \in with("description")}]

ASSUME PatchAssumption ==
    /\ Null \notin Descriptions
    /\ RootIteration \in IterationRows /\ RootArea \in AreaRows
    /\ \A source \in PatchSources :
        /\ DOMAIN source.rel \subseteq {"assignees", "labels", "columns", "iteration", "area"}
        /\ DOMAIN source.attr \subseteq {"description", "markup", "codebase", "iteration", "other"}
        /\ "description" \in DOMAIN source.attr => source.attr.description \in Descriptions

VARIABLES
    item,           \* the stored item
    existing,       \* identities, labels, iterations and areas that are not deleted
    repos,          \* the repositories of the codebases of the space; a codebase is known by its place
    seen,           \* seen[c]: the version that client c has read
    patch,          \* patch[c]: [pc, source, version, target] of its request; target is the item it loaded
    raw             \* whether attributes have set the iteration

patchVars == <<item, existing, repos, seen, patch, raw>>

NoPatch == [pc |-> "idle", source |-> [rel |-> <<>>, attr |-> <<>>], version |-> 0, target |-> NoItem]

PatchInit ==
    /\ item = NoItem
    /\ existing = Identities \cup LabelRows \cup IterationRows \cup AreaRows
    /\ repos = <<>>
    /\ seen = [c \in PatchClients |-> 0]
    /\ patch = [c \in PatchClients |-> NoPatch]
    /\ raw = FALSE

-------------------------------------------------------------------------------
(* A conversion is [ok, target, repos].                                    *)

Refused(conv) == [conv EXCEPT !.ok = FALSE]
Exist(ids, table) == ids \subseteq existing \cap table

\* The assignees: a null removes them, and every other one has to be known.
SetAssignees(conv, rel) ==
    IF "assignees" \notin DOMAIN rel THEN conv
    ELSE IF rel.assignees = Null THEN [conv EXCEPT !.target.assignees = {}]
    ELSE IF ~Exist(rel.assignees, Identities) THEN Refused(conv)
    ELSE [conv EXCEPT !.target.assignees = rel.assignees]

\* Labels, without repetitions; a null is refused.
SetLabels(conv, rel) ==
    IF "labels" \notin DOMAIN rel THEN conv
    ELSE IF rel.labels = Null \/ ~Exist(rel.labels, LabelRows) THEN Refused(conv)
    ELSE [conv EXCEPT !.target.labels = rel.labels]

\* Columns of boards are not looked up.
SetColumns(conv, rel) ==
    IF "columns" \notin DOMAIN rel THEN conv
    ELSE IF rel.columns = Null THEN Refused(conv)
    ELSE [conv EXCEPT !.target.columns = rel.columns]

\* Mutant of Placed: whoever does not name a place is moved to the root.
PlacedAtRoot(method, rel, key, root, old) == IF key \in DOMAIN rel /\ rel[key] # Null THEN rel[key] ELSE root

\* The iteration or area of the item: the root for a new item without one, and for an
\* explicit null.
Placed(method, rel, key, root, old) ==
    IF key \in DOMAIN rel /\ rel[key] # Null THEN rel[key]
    ELSE IF method = "POST" \/ key \in DOMAIN rel THEN root
    ELSE old

SetIteration(conv, method, rel) ==
    IF "iteration" \in DOMAIN rel /\ rel.iteration # Null /\ rel.iteration \notin existing \cap IterationRows THEN Refused(conv)
    ELSE [conv EXCEPT !.target.iteration = Placed(method, rel, "iteration", RootIteration, @)]

SetArea(conv, method, rel) ==
    IF "area" \in DOMAIN rel /\ rel.area # Null /\ rel.area \notin existing \cap AreaRows THEN Refused(conv)
    ELSE [conv EXCEPT !.target.area = Placed(method, rel, "area", RootArea, @)]

\* A description that exists keeps its markup.
SetDescription(target, text) ==
    [target EXCEPT !.description = IF @ = Null THEN text ELSE [@ EXCEPT !.content = text.content]]

SetMarkup(target, markup) ==
    [target EXCEPT !.description = IF @ = Null THEN [content |-> "", markup |-> markup] ELSE [@ EXCEPT !.markup = markup]]

\* setupCodebase: a codebase with the same repository is used, or a new one is created.
ReposWith(known, repo) == IF \E i \in DOMAIN known : known[i] = repo THEN known ELSE Append(known, repo)
CodebaseIn(known, repo) == [repo |-> repo, id |-> CHOOSE i \in DOMAIN known : known[i] = repo]

SetupCodebase(conv, repo) ==
    LET all == ReposWith(conv.repos, repo)
    IN  [conv EXCEPT !.repos = all, !.target.codebase = CodebaseIn(all, repo)]

\* One attribute; whatever is not treated is stored as it is, relations too.
SetAttribute(conv, key, value) ==
    CASE key = "description" -> [conv EXCEPT !.target = SetDescription(@, value)]
      [] key = "markup"      -> [conv EXCEPT !.target = SetMarkup(@, value)]
      [] key = "codebase"    -> SetupCodebase(conv, value)
      [] OTHER               -> [conv EXCEPT !.target[key] = value]

\* ConvertJSONAPIToWorkItem, with the attributes in some order.
ConvertJSONAPIToWorkItem(method, source, target, order) ==
    LET begun == [ok |-> TRUE, target |-> target, repos |-> repos]
        related == SetArea(SetIteration(SetColumns(SetLabels(SetAssignees(begun, source.rel), source.rel),
                                                   source.rel), method, source.rel), method, source.rel)
        done == FoldLeft(LAMBDA conv, key : SetAttribute(conv, key, source.attr[key]), related, order)
    IN  IF done.target.description # Null /\ done.target.description.markup \notin Markups THEN Refused(done) ELSE done

Orders(source) == SetToSeqs(DOMAIN source.attr)

-------------------------------------------------------------------------------

\* The item is created.
PostItem(c, source, order) ==
    LET conv == ConvertJSONAPIToWorkItem("POST", source, NoItem, order)
    IN  /\ item.version = 0 /\ conv.ok
        /\ item' = [conv.target EXCEPT !.version = 1]
        /\ repos' = conv.repos
        /\ seen' = [seen EXCEPT ![c] = 1]
        /\ raw' = ("iteration" \in DOMAIN source.attr)
        /\ UNCHANGED <<existing, patch>>

ShowItem(c) ==
    /\ item.version # 0
    /\ seen' = [seen EXCEPT ![c] = item.version]
    /\ UNCHANGED <<item, existing, repos, patch, raw>>

\* Update, the first transaction.  The request has the version that its client has seen.
LoadForPatch(c, source) ==
    /\ patch[c].pc = "idle" /\ seen[c] # 0
    /\ patch' = [patch EXCEPT ![c] = [pc |-> "loaded", source |-> source, version |-> seen[c], target |-> item]]
    /\ UNCHANGED <<item, existing, repos, seen, raw>>

\* The second one: the request is put into the item that was loaded, and Save stores it if
\* the version of the request is the one in the database.
SavePatch(c, order) ==
    LET conv == ConvertJSONAPIToWorkItem("PATCH", patch[c].source, patch[c].target, order)
    IN  /\ patch[c].pc = "loaded" /\ conv.ok
        /\ patch[c].version = item.version /\ item.version < MaxItemVersion
        /\ Len(conv.repos) <= MaxCodebases
        /\ item' = [conv.target EXCEPT !.version = item.version + 1]
        /\ repos' = conv.repos
        /\ seen' = [seen EXCEPT ![c] = item.version + 1]
        /\ patch' = [patch EXCEPT ![c] = NoPatch]
        /\ raw' = (raw \/ "iteration" \in DOMAIN patch[c].source.attr)
        /\ UNCHANGED existing

\* The request is refused, or its version is not that of the item.
PatchFails(c) ==
    /\ patch[c].pc = "loaded"
    /\ \/ patch[c].version # item.version
       \/ \E order \in Orders(patch[c].source) :
            ~ConvertJSONAPIToWorkItem("PATCH", patch[c].source, patch[c].target, order).ok
    /\ patch' = [patch EXCEPT ![c] = NoPatch]
    /\ UNCHANGED <<item, existing, repos, seen, raw>>

\* Something that items refer to is deleted.
DeleteRelated(row) ==
    /\ row \in existing \ {RootIteration, RootArea}
    /\ existing' = existing \ {row}
    /\ UNCHANGED <<item, repos, seen, patch, raw>>

PatchNext ==
    \/ \E c \in PatchClients, source \in PatchSources :
        \/ \E order \in Orders(source) : PostItem(c, source, order)
        \/ LoadForPatch(c, source)
    \/ \E c \in PatchClients :
        \/ ShowItem(c)
        \/ \E order \in Orders(patch[c].source) : SavePatch(c, order)
        \/ PatchFails(c)
    \/ \E row \in existing : DeleteRelated(row)

PatchSpec == PatchInit /\ [][PatchNext]_patchVars

-------------------------------------------------------------------------------

\* The attributes of a request are visited in the order of a Go map; whichever it is, the
\* item is the same: text and markup of the description are set apart from one another.
OrdersAgree ==
    \A c \in PatchClients : patch[c].pc = "loaded" =>
        \A one, two \in Orders(patch[c].source) :
            ConvertJSONAPIToWorkItem("PATCH", patch[c].source, patch[c].target, one) =
                ConvertJSONAPIToWorkItem("PATCH", patch[c].source, patch[c].target, two)

\* A request changes only what it names, seen from the item that is stored, not the one
\* that was loaded: no change that another request saved meanwhile is lost, although all
\* fields are written.  (This needs clients that send a version they have seen.)
OnlyNamedChange ==
    [][item' # item => \A c \in PatchClients : patch'[c] # patch[c] =>
        LET named == DOMAIN patch[c].source.rel \cup DOMAIN patch[c].source.attr
        IN  /\ \A f \in {"assignees", "labels", "columns", "iteration", "area", "codebase", "other"} \ named : item'[f] = item[f]
            /\ item'.description # item.description =>
                /\ named \cap {"description", "markup"} # {}
                /\ item.description # Null /\ "markup" \notin named => item'.description.markup = item.description.markup
                /\ item.description # Null /\ "description" \notin named => item'.description.content = item.description.content
      ]_patchVars

\* An item is always in an iteration and in an area, and its codebase is the one of its
\* repository, unless attributes have put the iteration past the checks.
AlwaysPlaced ==
    item.version # 0 =>
        /\ ~raw => item.iteration \in IterationRows
        /\ item.area \in AreaRows
        /\ item.codebase # Null => repos[item.codebase.id] = item.codebase.repo

\* A patch means the same in whatever order Go visits its attributes, leaves the work item
\* in an iteration and an area, and changes what it names and nothing else.
PatchesAreExact == [](OrdersAgree /\ AlwaysPlaced) /\ OnlyNamedChange
===============================================================================
