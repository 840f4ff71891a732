---------------------------- MODULE TrackerImport ----------------------------
(***************************************************************************)
(* Remote trackers: the schedule of tracker queries (remoteworkitem/       *)
(* scheduler.go), the requests that change it (controller/tracker.go,      *)
(* controller/trackerquery.go) and the imports it starts                   *)
(* (remoteworkitem/trackeritem_repository.go).                             *)
(*                                                                         *)
(* Cron runs every entry in a goroutine of its own, so imports overlap     *)
(* with each other and with requests.  A remote item is imported in one    *)
(* READ COMMITTED transaction; it is cut at each read whose result is used *)
(* later.  What a tracker answers, its field mapping and the conversion of *)
(* an item are abstracted to the items that match a query.                 *)
(***************************************************************************)
EXTENDS Naturals, FiniteSets, Sequences, TLC

CONSTANTS
    Trackers, Queries, Spaces,
    Stored,         \* the trackers and queries that are stored when the server starts
    TrackerOf,      \* TrackerOf[q]: the tracker of a query
    SpaceOf,        \* SpaceOf[q]: the space a query imports into
    RemoteItems,
    Matches,        \* Matches[q]: the items the tracker returns for a query
    CreatorOf,      \* CreatorOf[i]: the profile URL of an item's creator
    Jobs,           \* imports that may run at the same time
    MaxRows,        \* bound on the number of imported work items
    MaxCalls,       \* bound on the calls of ScheduleAllQueries
    None

ASSUME TrackerAssumption ==
    /\ TrackerOf \in [Queries -> Trackers]
    /\ SpaceOf \in [Queries -> Spaces]
    /\ Stored \subseteq Queries \cup Trackers
    /\ Matches \in [Queries -> SUBSET RemoteItems]
    /\ MaxRows \in Nat /\ MaxCalls \in Nat \ {0}
    /\ None \notin Queries \cup RemoteItems \cup Nat

VARIABLES
    trackers, queries,  \* rows that are not deleted
    toSchedule,     \* requests that have committed and are about to schedule
    calls,          \* calls[k]: the queries the k-th ScheduleAllQueries added, and the last
    trackerItems,   \* trackerItems[t, i]: number of rows of tracker_items
    identities,     \* profile URLs with an identity
    rows,           \* work items with a remote id
    job,            \* job[j]: the state of an import
    overlap         \* two imports have run at the same time

vars == <<trackers, queries, toSchedule, calls, trackerItems, identities, rows, job, overlap>>
store == <<trackerItems, identities, rows>>
schedule == <<trackers, queries, toSchedule, calls>>

Idle == [pc |-> "idle"]
Live == {r \in DOMAIN rows : rows[r].live}

\* The server starts with trackers and queries in its tables; main schedules them.
Init ==
    /\ trackers = Trackers \cap Stored /\ queries = Queries \cap Stored
    /\ toSchedule = 1 /\ calls = <<>>
    /\ trackerItems = [x \in Trackers \X RemoteItems |-> 0]
    /\ identities = {} /\ rows = <<>>
    /\ job = [j \in Jobs |-> Idle]
    /\ overlap = FALSE

-------------------------------------------------------------------------------
(* Requests; each ends with ScheduleAllQueries *)

\* TrackerqueryController.Create: the tracker exists; the query is created.
CreateQuery(q) ==
    /\ q \notin queries /\ TrackerOf[q] \in trackers
    /\ toSchedule + Len(calls) < MaxCalls
    /\ queries' = queries \cup {q}
    /\ toSchedule' = toSchedule + 1
    /\ UNCHANGED <<trackers, calls, store, job, overlap>>

\* TrackerqueryController.Delete.  With DeleteWi the work items of the query are deleted
\* first, but only those without a parent (parentExists is false): which of them
\* that are is up to the users.
DeleteQuery(q) ==
    /\ q \in queries
    /\ toSchedule + Len(calls) < MaxCalls
    /\ queries' = queries \ {q}
    /\ toSchedule' = toSchedule + 1
    /\ \E gone \in SUBSET {r \in Live : rows[r].query = q /\ rows[r].space = SpaceOf[q]} :
         rows' = [r \in DOMAIN rows |-> [rows[r] EXCEPT !.live = @ /\ r \notin gone]]
    /\ UNCHANGED <<trackers, calls, trackerItems, identities, job, overlap>>

\* TrackerController.Create.
CreateTracker(t) ==
    /\ t \notin trackers
    /\ toSchedule + Len(calls) < MaxCalls
    /\ trackers' = trackers \cup {t}
    /\ toSchedule' = toSchedule + 1
    /\ UNCHANGED <<queries, calls, store, job, overlap>>

\* TrackerController.Update calls the scheduler whether the update succeeds or not; the
\* URL and the type of a tracker are left out.
UpdateTracker ==
    /\ toSchedule + Len(calls) < MaxCalls
    /\ toSchedule' = toSchedule + 1
    /\ UNCHANGED <<trackers, queries, calls, store, job, overlap>>

\* TrackerController.Delete; the tracker's queries stay.
DeleteTracker(t) ==
    /\ t \in trackers
    /\ toSchedule + Len(calls) < MaxCalls
    /\ trackers' = trackers \ {t}
    /\ toSchedule' = toSchedule + 1
    /\ UNCHANGED <<queries, calls, store, job, overlap>>

\* fetchTrackerQueries: live queries of live trackers, in no particular order.
FetchTrackerQueries == {q \in queries : TrackerOf[q] \in trackers}

\* ScheduleAllQueries adds an entry per query to the cron table.  Nothing removes the
\* entries of earlier calls, and the closures of one call share the loop variable:
\* when they run, all of them see the query that came last.
ScheduleAllQueries ==
    /\ toSchedule > 0
    /\ toSchedule' = toSchedule - 1
    /\ \E last \in IF FetchTrackerQueries = {} THEN {None} ELSE FetchTrackerQueries :
         calls' = Append(calls, [queries |-> FetchTrackerQueries, last |-> last])
    /\ UNCHANGED <<trackers, queries, store, job, overlap>>

\* The process ends and is started again: cron entries and imports are gone.
Restart ==
    /\ Len(calls) > 0 /\ toSchedule + Len(calls) < MaxCalls
    /\ calls' = [k \in 1 .. Len(calls) |-> [queries |-> {}, last |-> None]]
    /\ toSchedule' = 1
    /\ job' = [j \in Jobs |-> Idle]
    /\ UNCHANGED <<trackers, queries, store, overlap>>

-------------------------------------------------------------------------------
(* Imports *)

\* A cron entry fires: the tracker is asked for the items of the query that the closure
\* sees.
Tick(j) ==
    /\ job[j].pc = "idle"
    /\ \E k \in 1 .. Len(calls) : \E entry \in calls[k].queries :
         job' = [job EXCEPT ![j] = [pc |-> "next", entry |-> entry, query |-> calls[k].last,
                                    todo |-> Matches[calls[k].last]]]
    /\ overlap' = (overlap \/ \E o \in Jobs \ {j} : job[o].pc # "idle")
    /\ UNCHANGED <<schedule, store>>

\* Mutant of NextItem: the channel is not closed.
NextItemNeverCloses(j) ==
    /\ job[j].pc = "next"
    /\ \E i \in job[j].todo :
         job' = [job EXCEPT ![j] = [pc |-> "upload", entry |-> job[j].entry,
                                    query |-> job[j].query, todo |-> job[j].todo \ {i}, item |-> i]]
    /\ UNCHANGED <<schedule, store, overlap>>

\* The next item arrives on the channel; Fetch ends early when the tracker fails, and
\* the channel is closed either way.
NextItem(j) ==
    /\ job[j].pc = "next"
    /\ \/ \E i \in job[j].todo :
            job' = [job EXCEPT ![j] = [pc |-> "upload", entry |-> job[j].entry,
                                       query |-> job[j].query, todo |-> job[j].todo \ {i}, item |-> i]]
       \/ job' = [job EXCEPT ![j] = Idle]
    /\ UNCHANGED <<schedule, store, overlap>>

\* Upload looks for the tracker item.
Upload(j) ==
    /\ job[j].pc = "upload"
    /\ job' = [job EXCEPT ![j] = [pc |-> "fetch", entry |-> @.entry, query |-> @.query,
                                  todo |-> @.todo, item |-> @.item,
                                  staged |-> trackerItems[<<TrackerOf[@.query], @.item>>] > 0]]
    /\ UNCHANGED <<schedule, store, overlap>>

\* Live work items of the query's space with the remote id of the item.
Existing(q, i) == {r \in Live : rows[r].space = SpaceOf[q] /\ rows[r].item = i}

\* Lookup: whether the creator has an identity already.
Lookup(i) == CreatorOf[i] \in identities

\* The creator is looked up, then upsert looks for a work item; the first one of several
\* is taken.
Fetch(j) ==
    /\ job[j].pc = "fetch"
    /\ LET found == Existing(job[j].query, job[j].item) IN
         \E r \in IF found = {} THEN {None} ELSE found :
           job' = [job EXCEPT ![j] = [pc |-> "write", entry |-> @.entry, query |-> @.query,
                                      todo |-> @.todo, item |-> @.item, staged |-> @.staged,
                                      known |-> Lookup(@.item), row |-> r, stale |-> FALSE]]
    /\ UNCHANGED <<schedule, store, overlap>>

\* setWorkItemFields: the work item as the query wants it.
WorkItem(q, i) == [space |-> SpaceOf[q], query |-> q, item |-> i, live |-> TRUE]

\* Mutant of SetWorkItemFields: the work item is attributed to the entry's query.
SetWorkItemFieldsOfEntry(j) == WorkItem(job[j].entry, job[j].item)

SetWorkItemFields(j) == WorkItem(job[j].query, job[j].item)

NextJob(j, r) ==
    [k \in Jobs |->
        IF k = j THEN [pc |-> "next", entry |-> job[j].entry, query |-> job[j].query, todo |-> job[j].todo]
        ELSE IF job[k].pc = "write" /\ job[k].row = r THEN [job[k] EXCEPT !.stale = TRUE]
        ELSE job[k]]

\* The writes and the commit.  tracker_items has no unique constraint (migration 078
\* drops the column it was on); a live profile URL is unique, so the second of two
\* concurrent creations of an identity fails; Save fails if the version of the work
\* item has moved on.
Write(j) ==
    /\ job[j].pc = "write"
    /\ LET q == job[j].query
           i == job[j].item
           r == job[j].row IN
         /\ ~job[j].known => ~Lookup(i)
         /\ r # None => ~job[j].stale
         /\ trackerItems' = IF job[j].staged THEN trackerItems
                                             ELSE [trackerItems EXCEPT ![<<TrackerOf[q], i>>] = @ + 1]
         /\ identities' = identities \cup {CreatorOf[i]}
         /\ \/ /\ r = None /\ Len(rows) < MaxRows
               /\ rows' = Append(rows, SetWorkItemFields(j))
            \/ /\ r # None /\ rows[r].live
               /\ rows' = [rows EXCEPT ![r] = SetWorkItemFields(j)]
         /\ job' = NextJob(j, r)
    /\ UNCHANGED <<schedule, overlap>>

\* An error rolls the item back; the import goes on with the next one.
RollBack(j) ==
    /\ job[j].pc \in {"upload", "fetch", "write"}
    /\ job' = [job EXCEPT ![j] = [pc |-> "next", entry |-> @.entry, query |-> @.query, todo |-> @.todo]]
    /\ UNCHANGED <<schedule, store, overlap>>

Import(j) == NextItem(j) \/ Upload(j) \/ Fetch(j) \/ Write(j) \/ RollBack(j)

Next ==
    \/ \E q \in Queries : CreateQuery(q) \/ DeleteQuery(q)
    \/ \E t \in Trackers : CreateTracker(t) \/ DeleteTracker(t)
    \/ UpdateTracker
    \/ ScheduleAllQueries \/ Restart
    \/ \E j \in Jobs : Tick(j) \/ Import(j)

\* Goroutines of imports run; nothing else is owed.
Spec == Init /\ [][Next]_vars /\ \A j \in Jobs : WF_vars(Import(j))

-------------------------------------------------------------------------------
(* Properties *)

TypeOK ==
    /\ trackers \subseteq Trackers /\ queries \subseteq Queries
    /\ toSchedule \in Nat /\ toSchedule + Len(calls) <= MaxCalls
    /\ \A k \in 1 .. Len(calls) : calls[k].queries \subseteq Queries
    /\ \A r \in DOMAIN rows : rows[r].query \in Queries /\ rows[r].item \in RemoteItems
    /\ \A j \in Jobs : job[j].pc \in {"idle", "next", "upload", "fetch", "write"}

\* A work item comes with everything its import had to store: the tracker item it was
\* made from and its creator's identity, however imports overlap and fail.
ImportedAsAWhole ==
    \A r \in DOMAIN rows :
        /\ CreatorOf[rows[r].item] \in identities
        /\ trackerItems[<<TrackerOf[rows[r].query], rows[r].item>>] > 0

\* The query a work item is attributed to is one that finds it, although the closure
\* that imported it may have been scheduled for another query.
AttributedToItsQuery ==
    \A r \in DOMAIN rows :
        rows[r].item \in Matches[rows[r].query] /\ rows[r].space = SpaceOf[rows[r].query]

\* While imports do not overlap a remote item is one work item of a space and one
\* tracker item of a tracker, although several queries find it again and again.
SerialNoDuplicates ==
    ~overlap =>
        /\ \A r, s \in Live :
             rows[r].item = rows[s].item /\ rows[r].space = rows[s].space => r = s
        /\ \A x \in Trackers \X RemoteItems : trackerItems[x] <= 1

\* An import stores the remote item together with its work item or neither of them, under
\* the query whose items were fetched, and once if the jobs do not overlap.
ImportsAreSound == TypeOK /\ ImportedAsAWhole /\ AttributedToItsQuery /\ SerialNoDuplicates

\* Every import ends, whatever the tracker and the database answer.
ImportsEnd == \A j \in Jobs : job[j].pc # "idle" ~> job[j].pc = "idle"

-------------------------------------------------------------------------------
(* What the code says and the model refutes *)

\* "ScheduleAllQueries fetch and import of remote tracker items": the entry of a query
\* imports the items of that query.
EntriesRunTheirQuery == \A j \in Jobs : job[j].pc # "idle" => job[j].query = job[j].entry
===============================================================================
