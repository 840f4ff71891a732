------------------------------ MODULE WorkItems ------------------------------
(***************************************************************************)
(* Work items: the requests that create, update, reorder and delete them   *)
(* (controller/workitem.go, controller/workitems.go), the repository's     *)
(* Create, Save, Reorder and Delete (workitem/workitem_repository.go),     *)
(* their revisions and the numbers of the spaces.                          *)
(*                                                                         *)
(* Requests run concurrently in READ COMMITTED isolation.  A request reads *)
(* a work item in one statement and changes it in a later one; a statement *)
(* that changes a row locks it until its transaction ends, and what it     *)
(* writes becomes visible with the commit.                                 *)
(*                                                                         *)
(* The value of the fields is abstracted to the set of changes it          *)
(* contains, each named by the version it made.  The order of the work     *)
(* items is in WorkItemOrder, their links are in WorkItemLinks.            *)
(***************************************************************************)
EXTENDS Integers, Sequences, FiniteSets

CONSTANTS
    Items,          \* identifiers of the work items that may be created
    Spaces,
    Clients,        \* concurrent requests
    MaxVersion,     \* bound on the version a client updates
    MaxReorder,     \* bound on the number of work items in a reorder request
    None            \* no client, no space, no request

ASSUME WorkItemsAssumption ==
    /\ MaxVersion \in Nat
    /\ MaxReorder \in Nat \ {0}
    /\ None \notin Clients \cup Spaces

VARIABLES
    rows,           \* the table work_items: rows[i]
    revisions,      \* the table work_item_revisions: revisions[i], in order of time
    lastNumber,     \* the table work_item_number_sequences: current_val of a space
    rowLock,        \* rowLock[i]: the request whose transaction has locked the row
    numberLock,     \* numberLock[s]: likewise for the rows of the number sequences
    pc,             \* where each request is
    req,            \* its parameters
    loaded,         \* the copy of the work item that it works on
    pending         \* pending[c][i]: what its transaction has written about i, in order

vars == <<rows, revisions, lastNumber, rowLock, numberLock, pc, req, loaded, pending>>
tables == <<rows, revisions, lastNumber>>
locks == <<rowLock, numberLock>>

Versions == 0 .. MaxVersion + 1
AbsentRow == [status |-> "absent", version |-> 0, fields |-> {}, space |-> None, number |-> 0]
Row == [status : {"absent", "live", "deleted"}, version : Versions, fields : SUBSET Versions,
        space : Spaces \cup {None}, number : Nat]
Copy == [version : {-1} \cup Versions, fields : SUBSET Versions]
NothingLoaded == [version |-> -1, fields |-> {}]
NothingWritten == [i \in Items |-> <<>>]
Revision == [type : {"create", "update", "delete"}, version : Versions, fields : SUBSET Versions]
WriteRec == [row : Row, rev : Revision]

\* Labels: cr_ = create, up_ = update, re_ = reorder, de_ = delete.
CreatePCs == {"cr_nextval", "cr_insert"}
UpdatePCs == {"up_save"}
ReorderPCs == {"re_load", "re_check", "re_save"}
DeletePCs == {"de_read", "de_delete"}
PCs == {"idle", "commit"} \cup CreatePCs \cup UpdatePCs \cup ReorderPCs \cup DeletePCs

\* One work item of a request and the version the client sends along; a request
\* without a version gets -1 (getVersion).
Entry == [item : Items, version : -1 .. MaxVersion]

Init ==
    /\ rows = [i \in Items |-> AbsentRow]
    /\ revisions = [i \in Items |-> <<>>]
    /\ lastNumber = [s \in Spaces |-> 0]
    /\ rowLock = [i \in Items |-> None]
    /\ numberLock = [s \in Spaces |-> None]
    /\ pc = [c \in Clients |-> "idle"]
    /\ req = [c \in Clients |-> None]
    /\ loaded = [c \in Clients |-> NothingLoaded]
    /\ pending = [c \in Clients |-> NothingWritten]

Goto(c, label) == pc' = [pc EXCEPT ![c] = label]

\* The row as the transaction of c sees it: its own latest write, or the committed one.
View(c, i) ==
    LET writes == pending[c][i] IN
    IF writes = <<>> THEN rows[i] ELSE writes[Len(writes)].row

\* A statement of c's transaction changes the row of i, and a revision is stored.
Write(c, i, row, rev) ==
    pending' = [pending EXCEPT ![c][i] = Append(@, [row |-> row, rev |-> rev])]

\* The versions a client may send for a work item: none, or one that it has read.
VersionsRead(i) == -1 .. (IF rows[i].version < MaxVersion THEN rows[i].version ELSE MaxVersion)

\* The transaction ends and releases its locks; the client is answered.
Answer(c) ==
    /\ pc' = [pc EXCEPT ![c] = "idle"]
    /\ req' = [req EXCEPT ![c] = None]
    /\ loaded' = [loaded EXCEPT ![c] = NothingLoaded]
    /\ pending' = [pending EXCEPT ![c] = NothingWritten]
    /\ rowLock' = [i \in Items |-> IF rowLock[i] = c THEN None ELSE rowLock[i]]
    /\ numberLock' = [s \in Spaces |-> IF numberLock[s] = c THEN None ELSE numberLock[s]]

\* Mutant of Rollback: an open transaction that is forgotten, with its locks.
RollbackKeepsLocks(c) ==
    /\ pc' = [pc EXCEPT ![c] = "idle"]
    /\ req' = [req EXCEPT ![c] = None]
    /\ loaded' = [loaded EXCEPT ![c] = NothingLoaded]
    /\ pending' = [pending EXCEPT ![c] = NothingWritten]
    /\ UNCHANGED <<tables, locks>>

Rollback(c) == Answer(c) /\ UNCHANGED tables

\* What a transaction wrote becomes visible, with a revision of every change.
Commit(c) ==
    /\ pc[c] = "commit"
    /\ rows' = [i \in Items |-> View(c, i)]
    /\ revisions' = [i \in Items |->
                        revisions[i] \o [k \in DOMAIN pending[c][i] |-> pending[c][i][k].rev]]
    /\ lastNumber' = [s \in Spaces |-> IF numberLock[s] = c THEN lastNumber[s] + 1 ELSE lastNumber[s]]
    /\ Answer(c)

-------------------------------------------------------------------------------
(* POST /spaces/:id/workitems *)

\* The request has found its space and its type.
ReceiveCreate(c) ==
    /\ pc[c] = "idle"
    /\ \E s \in Spaces : req' = [req EXCEPT ![c] = s]
    /\ Goto(c, "cr_nextval")
    /\ UNCHANGED <<tables, locks, loaded, pending>>

\* Mutant of NextVal: the number is read and not locked.
NextValUnlocked(c) ==
    /\ pc[c] = "cr_nextval"
    /\ numberLock' = [numberLock EXCEPT ![req[c]] = c]
    /\ Goto(c, "cr_insert")
    /\ UNCHANGED <<tables, rowLock, req, loaded, pending>>

\* NextVal: the upsert locks the row of the space in the number sequences; who comes
\* second waits for the first one's transaction to end, and sees its outcome.
NextVal(c) ==
    /\ pc[c] = "cr_nextval"
    /\ numberLock[req[c]] = None
    /\ numberLock' = [numberLock EXCEPT ![req[c]] = c]
    /\ Goto(c, "cr_insert")
    /\ UNCHANGED <<tables, rowLock, req, loaded, pending>>

\* Create: INSERT INTO work_items under a new id.  (None is left at the bound only.)
InsertWorkItem(c) ==
    /\ pc[c] = "cr_insert"
    /\ LET free == {i \in Items : rows[i] = AbsentRow /\ rowLock[i] = None} IN
         \/ \E i \in free :
              /\ rowLock' = [rowLock EXCEPT ![i] = c]
              /\ Write(c, i, [status |-> "live", version |-> 0, fields |-> {},
                             space |-> req[c], number |-> lastNumber[req[c]] + 1],
                            [type |-> "create", version |-> 0, fields |-> {}])
              /\ Goto(c, "commit")
              /\ UNCHANGED <<tables, numberLock, req, loaded>>
         \/ free = {} /\ Rollback(c)

-------------------------------------------------------------------------------
(* PATCH /workitems/:id *)

\* A first transaction loads the work item; the user's right to edit it is checked.
LoadForUpdate(c) ==
    /\ pc[c] = "idle"
    /\ \E i \in Items :
         /\ rows[i].status = "live"
         /\ \E v \in VersionsRead(i) : req' = [req EXCEPT ![c] = [item |-> i, version |-> v]]
         /\ loaded' = [loaded EXCEPT ![c] = [version |-> rows[i].version, fields |-> rows[i].fields]]
    /\ Goto(c, "up_save")
    /\ UNCHANGED <<tables, locks, pending>>

\* The UPDATE of Save and Reorder: the fields of the copy, with what the client
\* changes, become version v + 1.
WriteChange(c, i, v) ==
    LET fields == loaded[c].fields \cup {v + 1} IN
    Write(c, i, [View(c, i) EXCEPT !.version = v + 1, !.fields = fields],
                [type |-> "update", version |-> v + 1, fields |-> fields])

\* Mutant of Save: a soft-deleted row is found, too.
SaveUnscoped(c) ==
    LET i == req[c].item
        v == req[c].version IN
    /\ pc[c] = "up_save"
    /\ rowLock[i] = None
    /\ IF rows[i].version = v
          THEN /\ rowLock' = [rowLock EXCEPT ![i] = c]
               /\ WriteChange(c, i, v)
               /\ Goto(c, "commit")
               /\ UNCHANGED <<tables, numberLock, req, loaded>>
          ELSE Rollback(c)

\* Save, in a second transaction: SELECT ... FOR UPDATE waits for the row's lock;
\* the version the client sent must be the current one.  The UPDATE that follows
\* finds the row as it was locked.
Save(c) ==
    LET i == req[c].item
        v == req[c].version IN
    /\ pc[c] = "up_save"
    /\ rowLock[i] = None
    /\ IF rows[i].status = "live" /\ rows[i].version = v
          THEN /\ rowLock' = [rowLock EXCEPT ![i] = c]
               /\ WriteChange(c, i, v)
               /\ Goto(c, "commit")
               /\ UNCHANGED <<tables, numberLock, req, loaded>>
          ELSE Rollback(c)

-------------------------------------------------------------------------------
(* PATCH /spaces/:id/workitems/reorder *)

\* The request names some work items, not necessarily different ones.
ReceiveReorder(c) ==
    /\ pc[c] = "idle"
    /\ \E n \in 1 .. MaxReorder : \E entries \in [1 .. n -> Entry] :
         /\ \A k \in 1 .. n : /\ rows[entries[k].item].status # "absent"
                              /\ entries[k].version \in VersionsRead(entries[k].item)
         /\ req' = [req EXCEPT ![c] = entries]
    /\ Goto(c, "re_load")
    /\ UNCHANGED <<tables, locks, loaded, pending>>

\* One transaction for all of them.  LoadByID reads the first one that is left.
LoadForReorder(c) ==
    /\ pc[c] = "re_load"
    /\ LET row == View(c, req[c][1].item) IN
         IF row.status = "live"
            THEN /\ loaded' = [loaded EXCEPT ![c] = [version |-> row.version, fields |-> row.fields]]
                 /\ Goto(c, "re_check")
                 /\ UNCHANGED <<tables, locks, req, pending>>
            ELSE Rollback(c)

\* Reorder reads it again, without a lock, and compares the version.
ReorderCheck(c) ==
    /\ pc[c] = "re_check"
    /\ LET row == View(c, req[c][1].item) IN
         IF row.status = "live" /\ row.version = req[c][1].version
            THEN Goto(c, "re_save") /\ UNCHANGED <<tables, locks, req, loaded, pending>>
            ELSE Rollback(c)

\* Mutant of ReorderSave: the UPDATE has no WHERE version = ?
ReorderSaveUnchecked(c) ==
    LET i == req[c][1].item
        v == req[c][1].version IN
    /\ pc[c] = "re_save"
    /\ rowLock[i] \in {None, c}
    /\ IF View(c, i).status = "live"
          THEN /\ rowLock' = [rowLock EXCEPT ![i] = c]
               /\ WriteChange(c, i, v)
               /\ req' = [req EXCEPT ![c] = Tail(@)]
               /\ Goto(c, IF Len(req[c]) = 1 THEN "commit" ELSE "re_load")
               /\ UNCHANGED <<tables, numberLock, loaded>>
          ELSE Rollback(c)

\* UPDATE ... WHERE version = ?: it waits for the row's lock and looks again at what
\* is there.  A row that was changed meanwhile is a version conflict; the fallback
\* of gorm's Save finds that row, or fails on the key of a soft-deleted one.
ReorderSave(c) ==
    LET i == req[c][1].item
        v == req[c][1].version IN
    /\ pc[c] = "re_save"
    /\ rowLock[i] \in {None, c}
    /\ IF View(c, i).status = "live" /\ View(c, i).version = v
          THEN /\ rowLock' = [rowLock EXCEPT ![i] = c]
               /\ WriteChange(c, i, v)
               /\ req' = [req EXCEPT ![c] = Tail(@)]
               /\ Goto(c, IF Len(req[c]) = 1 THEN "commit" ELSE "re_load")
               /\ UNCHANGED <<tables, numberLock, loaded>>
          ELSE Rollback(c)

-------------------------------------------------------------------------------
(* DELETE /workitems/:id *)

\* A first transaction loads the work item; the user's right to delete it is checked.
LoadForDelete(c) ==
    /\ pc[c] = "idle"
    /\ \E i \in Items : rows[i].status = "live" /\ req' = [req EXCEPT ![c] = i]
    /\ Goto(c, "de_read")
    /\ UNCHANGED <<tables, locks, loaded, pending>>

\* Delete reads id, version and type; that nothing is found goes unnoticed.
ReadForDelete(c) ==
    /\ pc[c] = "de_read"
    /\ LET row == rows[req[c]] IN
         loaded' = [loaded EXCEPT ![c] =
                       [version |-> IF row.status = "live" THEN row.version ELSE 0, fields |-> {}]]
    /\ Goto(c, "de_delete")
    /\ UNCHANGED <<tables, locks, req, pending>>

\* Mutant of DeleteRow: RowsAffected is not looked at.
DeleteRowAgain(c) ==
    LET i == req[c] IN
    /\ pc[c] = "de_delete"
    /\ rowLock[i] = None
    /\ rowLock' = [rowLock EXCEPT ![i] = c]
    /\ Write(c, i, [rows[i] EXCEPT !.status = "deleted"],
                   [type |-> "delete", version |-> loaded[c].version, fields |-> {}])
    /\ Goto(c, "commit")
    /\ UNCHANGED <<tables, numberLock, req, loaded>>

\* The soft delete, whatever the version is by now, and a revision with the version
\* that was read.
DeleteRow(c) ==
    LET i == req[c] IN
    /\ pc[c] = "de_delete"
    /\ rowLock[i] = None
    /\ IF rows[i].status = "live"
          THEN /\ rowLock' = [rowLock EXCEPT ![i] = c]
               /\ Write(c, i, [rows[i] EXCEPT !.status = "deleted"],
                              [type |-> "delete", version |-> loaded[c].version, fields |-> {}])
               /\ Goto(c, "commit")
               /\ UNCHANGED <<tables, numberLock, req, loaded>>
          ELSE Rollback(c)

-------------------------------------------------------------------------------
\* A statement fails, a field does not convert, or Transactional gives up.
Fault(c) == pc[c] # "idle" /\ Rollback(c)

\* Whom a blocked request waits for.
WaitsFor(c) ==
    CASE pc[c] = "cr_nextval" -> {numberLock[req[c]]}
      [] pc[c] = "up_save"    -> {rowLock[req[c].item]}
      [] pc[c] = "re_save"    -> {rowLock[req[c][1].item]} \ {c}
      [] pc[c] = "de_delete"  -> {rowLock[req[c]]}
      [] OTHER                -> {}

\* PostgreSQL aborts a transaction that waits in a circle.
DeadlockVictim(c) ==
    /\ \E D \in SUBSET Clients : c \in D /\ \A d \in D : WaitsFor(d) \cap D # {}
    /\ Rollback(c)

Arrive(c) == ReceiveCreate(c) \/ LoadForUpdate(c) \/ ReceiveReorder(c) \/ LoadForDelete(c)

Proceed(c) ==
    \/ NextVal(c) \/ InsertWorkItem(c) \/ Save(c)
    \/ LoadForReorder(c) \/ ReorderCheck(c) \/ ReorderSave(c)
    \/ ReadForDelete(c) \/ DeleteRow(c) \/ Commit(c) \/ DeadlockVictim(c)

Next == \E c \in Clients : Arrive(c) \/ Proceed(c) \/ Fault(c)

Spec == Init /\ [][Next]_vars

\* A request that is being served goes on, and PostgreSQL hands a lock to its waiters
\* in turn.  Nothing makes requests arrive.
Fairness == \A c \in Clients : WF_vars(Proceed(c)) /\ SF_vars(NextVal(c) \/ Save(c) \/ ReorderSave(c) \/ DeleteRow(c))

FairSpec == Spec /\ Fairness

-------------------------------------------------------------------------------
(* Properties *)

\* The parameters and the copy of a request fit to where it is.
RequestOK(label, r, copy) ==
    /\ label \in CreatePCs => r \in Spaces
    /\ label \in UpdatePCs => r \in Entry
    /\ label \in ReorderPCs => r \in Seq(Entry) /\ r # <<>>
    /\ label \in DeletePCs => r \in Items
    /\ copy \in Copy
    /\ label = "de_delete" => copy.version \in Versions

TypeOK ==
    /\ rows \in [Items -> Row]
    /\ revisions \in [Items -> Seq(Revision)]
    /\ lastNumber \in [Spaces -> Nat]
    /\ rowLock \in [Items -> Clients \cup {None}]
    /\ numberLock \in [Spaces -> Clients \cup {None}]
    /\ pending \in [Clients -> [Items -> Seq(WriteRec)]]
    /\ pc \in [Clients -> PCs]
    /\ DOMAIN req = Clients /\ DOMAIN loaded = Clients
    /\ \A c \in Clients : RequestOK(pc[c], req[c], loaded[c])

\* The fields of a work item contain every change up to its version, although Update and
\* Reorder work on copies read long before.
FieldsComplete == \A i \in Items : rows[i].fields = 1 .. rows[i].version

\* No update is lost: whatever was accepted (and has its revision) made a version of its
\* own, and the fields of the work item contain it, although two requests may have read
\* the same version.
NoLostUpdate ==
    /\ FieldsComplete
    /\ \A i \in Items : \A k, l \in DOMAIN revisions[i] :
         revisions[i][k].type = "update" /\ revisions[i][l].type = "update" =>
           /\ revisions[i][k].version \in rows[i].fields
           /\ k # l => revisions[i][k].version # revisions[i][l].version

\* The versions that clients send do what they are for: no update that was accepted is
\* undone by another one, a reorder request or a deletion.
WorkItemsSafe == TypeOK /\ NoLostUpdate

\* Numbers are "unique within the space": 1, 2, 3, ... without a gap, failed creations
\* and deleted work items included.
NumbersAreDense ==
    \A s \in Spaces :
        LET there == {i \in Items : rows[i].status # "absent" /\ rows[i].space = s} IN
        /\ {rows[i].number : i \in there} = 1 .. lastNumber[s]
        /\ Cardinality(there) = lastNumber[s]

\* The revisions tell a work item's life: its creation, every version in order, and
\* at most one deletion, at the end (whose revision may show an older version: Delete reads
\* it without a lock).
RevisionsFollowVersions ==
    \A i \in Items :
        LET revs == revisions[i]
            n == IF rows[i].status = "absent" THEN 0 ELSE rows[i].version + 1 IN
        /\ Len(revs) = n + IF rows[i].status = "deleted" THEN 1 ELSE 0
        /\ \A k \in 1 .. n : revs[k] = [type    |-> IF k = 1 THEN "create" ELSE "update",
                                        version |-> k - 1,
                                        fields  |-> 1 .. k - 1]
        /\ rows[i].status = "deleted" => revs[n + 1].type = "delete"

\* The requests implement ItemHistory.
History == INSTANCE ItemHistory
ImplementsHistory == History!Spec

\* Every request is answered: whoever waits in a circle is let out of it.
RequestsAnswered == \A c \in Clients : pc[c] # "idle" ~> pc[c] = "idle"
===============================================================================
