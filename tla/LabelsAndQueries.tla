--------------------------- MODULE LabelsAndQueries ---------------------------
(***************************************************************************)
(* Labels and saved queries of a space, two tables of versioned rows       *)
(* (label/label.go, query/query.go, controller/label.go,                   *)
(* controller/query.go).  Names come here trimmed and not empty; a column  *)
(* "color" stands for what a row has besides: the colors of a label, the   *)
(* filter of a query.                                                      *)
(***************************************************************************)
EXTENDS Naturals

CONSTANTS
    Labels, Queries,    \* identifiers of rows
    Names, Colors,      \* what a request may set
    Sessions,           \* requests that run at a time
    UserOf,             \* UserOf[s]: whose request it is
    QueryCreator,       \* QueryCreator[q]: who makes query q
    NoValue,
    MaxVersion          \* bound on the versions of a row

ASSUME RowsAssumption ==
    /\ Labels \cap Queries = {}
    /\ NoValue \notin Names \cup Colors \cup Labels \cup Queries
    /\ MaxVersion \in Nat

Rows == Labels \cup Queries

VARIABLES
    rows,           \* name, color, version, deleted_at
    rreq            \* rreq[s]: the request

rowVars == <<rows, rreq>>

RMissing == [name |-> NoValue, color |-> NoValue, version |-> 0, deleted |-> TRUE, created |-> FALSE]
RIdle == [pc |-> "idle", row |-> NoValue, loaded |-> RMissing, name |-> NoValue, color |-> NoValue, found |-> 0]

RowsInit ==
    /\ rows = [r \in Rows |-> RMissing]
    /\ rreq = [s \in Sessions |-> RIdle]

-------------------------------------------------------------------------------

\* labels_name_space_id_unique_idx and queries_title_space_id_creator_unique
Taken(r, name) ==
    \E o \in Rows \ {r} :
        /\ ~rows[o].deleted /\ rows[o].name = name
        /\ \/ {r, o} \subseteq Labels
           \/ {r, o} \subseteq Queries /\ QueryCreator[r] = QueryCreator[o]

\* Create; a filter that is empty is answered like the others and not stored.
CreateRow(s, r, name, color) ==
    /\ rreq[s].pc = "idle"
    /\ ~rows[r].created /\ ~Taken(r, name)
    /\ r \in Queries => QueryCreator[r] = UserOf[s]
    /\ rows' = [rows EXCEPT ![r] = [name |-> name, color |-> color, version |-> 0, deleted |-> FALSE, created |-> TRUE]]
    /\ UNCHANGED rreq

\* Update: the row is loaded, the version in the request is that of the row; anybody may
\* change a label, only its creator a query.
LoadRow(s, r, name, color) ==
    /\ rreq[s].pc = "idle"
    /\ ~rows[r].deleted /\ rows[r].version < MaxVersion
    /\ r \in Queries => QueryCreator[r] = UserOf[s]
    /\ rreq' = [rreq EXCEPT ![s] = [RIdle EXCEPT !.pc = "find", !.row = r, !.loaded = rows[r], !.name = name, !.color = color]]
    /\ UNCHANGED rows

\* Save reads the row again, for its version.
FindRow(s) ==
    LET r == rreq[s].row
    IN  /\ rreq[s].pc = "find"
        /\ rreq' = [rreq EXCEPT ![s] = IF rows[r].deleted THEN RIdle
                                       ELSE [@ EXCEPT !.pc = "save", !.found = rows[r].version]]
        /\ UNCHANGED rows

Wanted(new, old) == IF new = NoValue THEN old ELSE new

\* Mutant of Matches: the version that was read last is compared.
MatchesFound(s) == ~rows[rreq[s].row].deleted /\ rows[rreq[s].row].version = rreq[s].found

\* The row still has the version that was loaded.
Matches(s) == ~rows[rreq[s].row].deleted /\ rows[rreq[s].row].version = rreq[s].loaded.version

\* Save writes all columns of the row that was loaded; a version conflict, a name that
\* is taken or a row that is gone is an error.
SaveRow(s) ==
    LET r == rreq[s].row
        name == Wanted(rreq[s].name, rreq[s].loaded.name)
    IN  /\ rreq[s].pc = "save"
        /\ rows' = IF Matches(s) /\ ~Taken(r, name)
                   THEN [rows EXCEPT ![r] = [@ EXCEPT !.name = name, !.version = rreq[s].found + 1,
                                                      !.color = Wanted(rreq[s].color, rreq[s].loaded.color)]]
                   ELSE rows
        /\ rreq' = [rreq EXCEPT ![s] = RIdle]

\* Delete of a query, by its creator.
DeleteQuery(s, r) ==
    /\ rreq[s].pc = "idle"
    /\ ~rows[r].deleted /\ QueryCreator[r] = UserOf[s]
    /\ rows' = [rows EXCEPT ![r].deleted = TRUE]
    /\ UNCHANGED rreq

RowsNext ==
    \E s \in Sessions :
        \/ \E r \in Rows, name \in Names, color \in Colors : CreateRow(s, r, name, color)
        \/ \E r \in Rows : \/ \E name \in Names : LoadRow(s, r, name, NoValue)
                           \/ \E color \in Colors : LoadRow(s, r, NoValue, color)
        \/ FindRow(s) \/ SaveRow(s)
        \/ \E r \in Queries : DeleteQuery(s, r)

RowsSpec == RowsInit /\ [][RowsNext]_rowVars

-------------------------------------------------------------------------------

\* Type invariant; the version of a row never gets ahead of its bound.
RowsTypeOK ==
    /\ rows \in [Rows -> [name : Names \cup {NoValue}, color : Colors \cup {NoValue},
                          version : 0..MaxVersion, deleted : BOOLEAN, created : BOOLEAN]]
    /\ \A s \in Sessions : rreq[s].pc # "idle" => rreq[s].row \in Rows /\ rows[rreq[s].row].created

\* An update changes what its request names and nothing else, although it writes back a
\* whole row that was loaded two steps before: a request that changes the color of a
\* label does not undo a change of its name that was made in between, and a query that
\* was deleted in between does not come back.
NothingElseChanges ==
    [][\A s \in Sessions, r \in Rows :
            rreq[s].pc = "save" /\ rreq'[s].pc = "idle" /\ rows'[r] # rows[r] =>
                /\ r = rreq[s].row /\ ~rows[r].deleted
                /\ rows'[r].version = rows[r].version + 1
                /\ rreq[s].name = NoValue => rows'[r].name = rows[r].name
                /\ rreq[s].color = NoValue => rows'[r].color = rows[r].color]_rowVars

\* Two labels of the space, or two queries of one user in it, never have the same name,
\* however they came by it.
NamesAreUnique ==
    \A r, o \in Rows : r # o /\ ~rows[r].deleted /\ ~rows[o].deleted /\ rows[r].name = rows[o].name =>
        /\ ~({r, o} \subseteq Labels)
        /\ {r, o} \subseteq Queries => QueryCreator[r] # QueryCreator[o]

\* Labels and queries keep different names, and an update writes what its request names
\* and nothing that another request has replaced meanwhile.
UpdatesAreExact == [](RowsTypeOK /\ NamesAreUnique) /\ NothingElseChanges
===============================================================================
