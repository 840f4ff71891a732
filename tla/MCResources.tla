------------------------------ MODULE MCResources ------------------------------
(* One run for components that share nothing: one of them moves in a behaviour, *)
(* and the others stay as they are.                                             *)
EXTENDS Comments, LabelsAndQueries, Areas, Users, FieldTypes, TemplateImport,
        Paging, CsvExport, ItemPatch, ItemList, TLC

CONSTANTS w1, u1, u2, u3, l1, q1, q2, s1, s2, n1, N1, v1, v2, v3

MCCreators == w1 :> u2
MCUserOf == s1 :> u1 @@ s2 :> u1
MCQueryCreator == q1 :> u1 @@ q2 :> u1

\* All names are in lower case here.  After requests overlapped and somebody was deleted,
\* they come one at a time, nobody has a space, and nobody else is deleted.
MCLowerCase(name) == name
UsersBound ==
    overlap /\ gone # {} =>
        owned = {} /\ Cardinality(gone) = 1 /\ \E p \in Services : ureq[p].pc = "idle"

-------------------------------------------------------------------------------
(* Types whose fields are alike, or not, and what clients send for them.   *)
(* The label of a field is its kind: two lists of a type have the same.    *)

Simple(kind, req) == [label |-> kind, kind |-> kind, base |-> kind, values |-> <<>>, default |-> FNil, required |-> req, readOnly |-> FALSE]
Enum(values) == [Simple("enum", TRUE) EXCEPT !.base = "string", !.values = [i \in DOMAIN values |-> FVal("string", values[i])]]
Meta == [Enum(<<"b">>) EXCEPT !.label = "meta", !.required = FALSE, !.readOnly = TRUE]
List(component) == [Simple("list", FALSE) EXCEPT !.base = component]
MCItemTypes ==
    "T1" :> ("f" :> Enum(<<"a", "b">>) @@ "g" :> List("user") @@ "h" :> Simple("instant", FALSE) @@ "m" :> Meta)
 @@ "T2" :> ("f" :> Simple("string", TRUE) @@ "g" :> Simple("user", FALSE) @@ "h" :> Simple("instant", FALSE))
 @@ "T3" :> ("f" :> List("string") @@ "g" :> List("user") @@ "h" :> Simple("integer", FALSE))
 @@ "T4" :> ("f" :> Simple("markup", FALSE) @@ "g" :> Simple("remotetracker", FALSE) @@ "h" :> Simple("codebase", FALSE))
 @@ "T5" :> ("f" :> Enum(<<"b", "uuid">>) @@ "h" :> Simple("codebase", FALSE) @@ "m" :> Meta)
MCInputs == {FNil, FVal("string", "a"), FVal("string", "b"), FVal("string", " "), FVal("string", "uuid"), FVal("float", "1"), FVal("float", "1.5"),
  FVal("time", "1"), FVal("markup", "text"), FVal("map", "odd"), FVal("codebase", "git"), FList(<<>>), FList(<<FVal("string", "uuid")>>), FList(<<FVal("string", "uuid"), FVal("string", "b")>>)}

MCSortedNames == <<"f", "g", "h", "m">>

-------------------------------------------------------------------------------
(* Releases of the templates.                                              *)

State(values, rewritable) == [kind |-> "enum", values |-> values, rewritable |-> rewritable]
Text == [kind |-> "string", values |-> <<>>, rewritable |-> FALSE]
Number == [kind |-> "integer", values |-> <<>>, rewritable |-> FALSE]
Wit(id, extends, fields, children) == [id |-> id, extends |-> extends, fields |-> fields, children |-> children]
BaseTemplate(fields) ==
    [id |-> "base", types |-> <<Wit("planner", NoType, fields, <<>>)>>, linkTypes |-> {"related"}, groups |-> <<>>, boards |-> <<>>]
Scrum(types, groups, boards) ==
    [id |-> "scrum", types |-> types, linkTypes |-> {"parent"}, groups |-> groups, boards |-> boards]
Story == Wit("story", "planner", "state" :> State(<<"new", "closed">>, FALSE), <<"task">>)
Task(values) == Wit("task", "planner", "state" :> State(values, FALSE), <<>>)
Base2 == BaseTemplate("state" :> State(<<"new", "open", "closed">>, TRUE) @@ "order" :> Text)
Bug2 == Wit("bug", "planner", "effort" :> Text @@ "severity" :> Text, <<"task">>)
Groups2 == << <<"story">>, <<"bug", "task">> >>
Boards2 == << {"todo"}, {"done", "doing"} >>
MCReleases == <<
    <<BaseTemplate("state" :> State(<<"new", "open">>, TRUE)),
      Scrum(<<Wit("bug", "planner", "effort" :> Text, <<>>), [Task(<<"new", "open">>) EXCEPT !.children = <<"bug">>]>>,
            << <<"bug", "task">> >>, << {"todo", "done"} >>)>>,
    \* fields, a value and a type are added
    <<Base2, Scrum(<<Bug2, Task(<<"new", "open", "closed">>), Story>>, Groups2, Boards2)>>,
    \* the values of the base are rewritten, and bugs take their effort from it
    <<BaseTemplate("state" :> State(<<"new", "closed">>, TRUE) @@ "order" :> Text @@ "effort" :> Number),
      Scrum(<<Wit("bug", "planner", "severity" :> Text, <<"task">>), Task(<<"new", "open", "closed">>), Story>>, Groups2, Boards2)>>,
    \* a value is removed
    <<Base2, Scrum(<<Bug2, Task(<<"new", "closed">>), Story>>, Groups2, Boards2)>>,
    \* a field is removed
    <<Base2, Scrum(<<Wit("bug", "planner", "effort" :> Text, <<"task">>), Task(<<"new", "open", "closed">>), Story>>, Groups2, Boards2)>>,
    \* a group has no types
    <<Base2, Scrum(<<Bug2, Task(<<"new", "open", "closed">>), Story>>, << <<>> >>, Boards2)>> >>

-------------------------------------------------------------------------------
(* Pages, exports, requests and filters.                                   *)

MCOffsets == (-1)..9
MCLimits == (-1)..6 \cup {NoLimit}

\* A field with two labels, and two fields with one.
MCCsvTypes == << "title" :> 3 @@ "points" :> 1, "title" :> 2 @@ "effort" :> 2 @@ "size" :> 2 >>
MCCsvItems == << [type |-> 1, values |-> "title" :> "t1" @@ "points" :> "p1", parent |-> 3],
                 [type |-> 2, values |-> "title" :> "t2" @@ "effort" :> "e2" @@ "size" :> "s2", parent |-> 1],
                 [type |-> 1, values |-> "title" :> "t3" @@ "points" :> "p3", parent |-> 0],
                 [type |-> 2, values |-> "title" :> "t4" @@ "effort" :> "e4" @@ "size" :> "s4", parent |-> 1] >>

\* Requests with description and markup, with nulls, with relations that may be deleted,
\* and with an iteration among the attributes.
Source(rel, attr) == [rel |-> rel, attr |-> attr]
Described(content, markup) == [content |-> content, markup |-> markup]
MCPatchSources == {
    Source(<<>>, "description" :> Described("text", "PlainText") @@ "markup" :> "Markdown" @@ "other" :> "x"),
    Source("iteration" :> Null @@ "labels" :> {}, "description" :> Described("more", "odd")),
    Source("iteration" :> "sprint" @@ "assignees" :> {"ann"}, "codebase" :> "git"),
    Source("area" :> Null @@ "assignees" :> Null @@ "columns" :> {"todo"},
           "codebase" :> "other git" @@ "iteration" :> "nowhere") }

Item(space, assignee, state) == [space |-> space, assignee |-> assignee, state |-> state]
MCListItems == <<Item("home", "ann", "new"), Item("home", NoAssignee, "closed"), Item("other", "ann", "new")>>
\* "sprint" is below "release", moves to the root, and is deleted; then its items stay in it.
MCTrees == { "root" :> {"release", "sprint"} @@ "release" :> {"sprint"} @@ "sprint" :> {},
             "root" :> {"release", "sprint"} @@ "release" :> {} @@ "sprint" :> {},
             "root" :> {"release"} @@ "release" :> {} }
\* The item of the other space stays as it is.
ListsBound == iterationOf[3] = "release" /\ parentLink[3] = "none"
MCListFilters ==
    [assignee : {NotGiven, "ann"}, iteration : {NotGiven, "release", "sprint"}, state : {NotGiven},
     parentless : {FALSE}, offset : {0, 1}, limit : {1}]
    \cup [assignee : {NotGiven}, iteration : {NotGiven, "root"}, state : {NotGiven}, parentless : {TRUE}, offset : {0, 1}, limit : {1}]
    \cup [assignee : {NotGiven, "ann"}, iteration : {"root"}, state : {"new"}, parentless : {FALSE}, offset : {0, 1}, limit : {1}]

-------------------------------------------------------------------------------

VARIABLE moving     \* the component that moves, "none" at first

Moves(component) == moving \in {"none", component} /\ moving' = component

Init ==
    /\ moving = "none"
    /\ CommentsInit /\ RowsInit /\ AreasInit /\ UsersInit /\ FieldsInit /\ ImportInit
    /\ PagingInit /\ CsvInit /\ PatchInit /\ ListInit

Next ==
    \/ /\ Moves("comments") /\ CommentsNext
       /\ UNCHANGED <<rowVars, areaVars, userVars, fieldVars, importVars, pagingVars, csvVars, patchVars, listVars>>
    \/ /\ Moves("rows") /\ RowsNext
       /\ UNCHANGED <<commentVars, areaVars, userVars, fieldVars, importVars, pagingVars, csvVars, patchVars, listVars>>
    \/ /\ Moves("areas") /\ AreasNext
       /\ UNCHANGED <<commentVars, rowVars, userVars, fieldVars, importVars, pagingVars, csvVars, patchVars, listVars>>
    \/ /\ Moves("users") /\ UsersNext /\ UsersBound'
       /\ UNCHANGED <<commentVars, rowVars, areaVars, fieldVars, importVars, pagingVars, csvVars, patchVars, listVars>>
    \/ /\ Moves("fields") /\ FieldsNext
       /\ UNCHANGED <<commentVars, rowVars, areaVars, userVars, importVars, pagingVars, csvVars, patchVars, listVars>>
    \/ /\ Moves("templates") /\ ImportNext
       /\ UNCHANGED <<commentVars, rowVars, areaVars, userVars, fieldVars, pagingVars, csvVars, patchVars, listVars>>
    \/ /\ Moves("pages") /\ PagingNext
       /\ UNCHANGED <<commentVars, rowVars, areaVars, userVars, fieldVars, importVars, csvVars, patchVars, listVars>>
    \/ /\ Moves("export") /\ CsvNext
       /\ UNCHANGED <<commentVars, rowVars, areaVars, userVars, fieldVars, importVars, pagingVars, patchVars, listVars>>
    \/ /\ Moves("patches") /\ PatchNext
       /\ UNCHANGED <<commentVars, rowVars, areaVars, userVars, fieldVars, importVars, pagingVars, csvVars, listVars>>
    \/ /\ Moves("lists") /\ ListNext /\ ListsBound'
       /\ UNCHANGED <<commentVars, rowVars, areaVars, userVars, fieldVars, importVars, pagingVars, csvVars, patchVars>>

Spec ==
    Init /\ [][Next]_<<moving, commentVars, rowVars, areaVars, userVars, fieldVars, importVars, pagingVars, csvVars, patchVars, listVars>>
===============================================================================
