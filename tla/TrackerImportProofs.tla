-------------------------- MODULE TrackerImportProofs --------------------------
(***************************************************************************)
(* Imports store a remote item as a whole and under a query that finds it, *)
(* and as one work item as long as they do not overlap, for any number of  *)
(* trackers, queries, items and imports.                                   *)
(*                                                                         *)
(* The inductive invariant follows what an import has read: rows of the    *)
(* staging table and identities are never removed, so what it has found is *)
(* still there when it writes; what it has not found is still missing as   *)
(* long as it is the only import.                                          *)
(***************************************************************************)
EXTENDS TrackerImport, TLAPS

ItemRow == [space : Spaces, query : Queries, item : RemoteItems, live : BOOLEAN]

CallRec == [queries : SUBSET Queries, last : Queries \cup {None}]

WritingJob ==
    [pc : {"write"}, entry : Queries, query : Queries, todo : SUBSET RemoteItems, item : RemoteItems,
     staged : BOOLEAN, known : BOOLEAN, row : Nat \cup {None}, stale : BOOLEAN]

\* What an import has read is so, and stays so.
JobOK(r, table, items, ids) ==
    /\ r.pc \in {"idle", "next", "upload", "fetch", "write"}
    /\ r.pc # "idle" => r.entry \in Queries /\ r.query \in Queries /\ r.todo \subseteq Matches[r.query]
    /\ r.pc \in {"upload", "fetch", "write"} => r.item \in Matches[r.query]
    /\ r.pc \in {"fetch", "write"} =>
         r.staged \in BOOLEAN /\ (r.staged => items[<<TrackerOf[r.query], r.item>>] > 0)
    /\ r.pc = "write" =>
         /\ r \in WritingJob
         /\ r.known => CreatorOf[r.item] \in ids
         /\ r.row # None => /\ r.row \in 1 .. Len(table)
                            /\ table[r.row].item = r.item /\ table[r.row].space = SpaceOf[r.query]

TablesOK ==
    /\ trackers \subseteq Trackers /\ queries \subseteq Queries
    /\ toSchedule \in Nat /\ calls \in Seq(CallRec) /\ toSchedule + Len(calls) <= MaxCalls
    /\ \A k \in 1 .. Len(calls) : calls[k].queries # {} => calls[k].last \in Queries
    /\ trackerItems \in [Trackers \X RemoteItems -> Nat]
    /\ rows \in Seq(ItemRow)
    /\ overlap \in BOOLEAN
    /\ job = [j \in Jobs |-> job[j]]

JobsOK == \A j \in Jobs : JobOK(job[j], rows, trackerItems, identities)

\* The work items that are live.
Alive(table) == {r \in 1 .. Len(table) : table[r].live}

OneWorkItem(table) ==
    \A r, s \in Alive(table) : table[r].item = table[s].item /\ table[r].space = table[s].space => r = s

\* What an import has not found is still missing.
StillMissing(r, table, items) ==
    /\ r.pc \in {"fetch", "write"} => r.staged \/ items[<<TrackerOf[r.query], r.item>>] = 0
    /\ r.pc = "write" /\ r.row = None =>
         ~\E s \in Alive(table) : table[s].space = SpaceOf[r.query] /\ table[s].item = r.item

Serial ==
    ~overlap =>
        /\ \A j, k \in Jobs : job[j].pc # "idle" /\ job[k].pc # "idle" => j = k
        /\ \A j \in Jobs : StillMissing(job[j], rows, trackerItems)
        /\ OneWorkItem(rows)
        /\ \A x \in Trackers \X RemoteItems : trackerItems[x] <= 1

IInv == TablesOK /\ JobsOK /\ ImportedAsAWhole /\ AttributedToItsQuery /\ Serial


-------------------------------------------------------------------------------

LEMMA IInvSound == IInv => ImportsAreSound
<1> SUFFICES ASSUME IInv  PROVE  ImportsAreSound
  OBVIOUS
<1>1. DOMAIN rows = 1 .. Len(rows) /\ \A r \in 1 .. Len(rows) : rows[r] \in ItemRow
  BY DEF IInv, TablesOK
<1>2. Live = Alive(rows)
  BY <1>1 DEF Live, Alive
<1>3. TypeOK
  <2>1. \A k \in 1 .. Len(calls) : calls[k].queries \subseteq Queries
    <3>1. \A k \in 1 .. Len(calls) : calls[k] \in CallRec
      BY DEF IInv, TablesOK
    <3> QED  BY <3>1 DEF CallRec
  <2>2. \A r \in DOMAIN rows : rows[r].query \in Queries /\ rows[r].item \in RemoteItems
    BY <1>1 DEF ItemRow
  <2>3. \A j \in Jobs : job[j].pc \in {"idle", "next", "upload", "fetch", "write"}
    BY DEF IInv, JobsOK, JobOK
  <2>4. /\ trackers \subseteq Trackers /\ queries \subseteq Queries
        /\ toSchedule \in Nat /\ toSchedule + Len(calls) <= MaxCalls
    BY DEF IInv, TablesOK
  <2> QED  BY <2>1, <2>2, <2>3, <2>4 DEF TypeOK
<1>4. SerialNoDuplicates
  <2>1. ~overlap => OneWorkItem(rows) /\ \A x \in Trackers \X RemoteItems : trackerItems[x] <= 1
    BY DEF IInv, Serial
  <2> QED  BY <1>2, <2>1 DEF SerialNoDuplicates, OneWorkItem
<1> QED  BY <1>3, <1>4 DEF IInv, ImportsAreSound

LEMMA IInvInit == Init => IInv
<1> SUFFICES ASSUME Init  PROVE  IInv
  OBVIOUS
<1>1. rows = <<>> /\ calls = <<>> /\ Len(rows) = 0 /\ Len(calls) = 0 /\ toSchedule = 1
  BY DEF Init
<1>2. trackerItems \in [Trackers \X RemoteItems -> Nat] /\ \A x \in Trackers \X RemoteItems : trackerItems[x] <= 1
  BY DEF Init
<1>3. job = [j \in Jobs |-> Idle] /\ Idle.pc = "idle"
  BY DEF Init, Idle
<1>4. TablesOK
  <2>1. trackers \subseteq Trackers /\ queries \subseteq Queries /\ overlap \in BOOLEAN
    BY DEF Init
  <2>2. toSchedule \in Nat /\ toSchedule + Len(calls) <= MaxCalls
    BY <1>1, TrackerAssumption
  <2>3. calls \in Seq(CallRec) /\ rows \in Seq(ItemRow)
    BY <1>1
  <2>4. \A k \in 1 .. Len(calls) : calls[k].queries # {} => calls[k].last \in Queries
    BY <1>1
  <2>5. job = [j \in Jobs |-> job[j]]
    BY <1>3
  <2> QED  BY <1>2, <2>1, <2>2, <2>3, <2>4, <2>5 DEF TablesOK
<1>5. JobsOK
  BY <1>3 DEF JobsOK, JobOK
<1>6. ImportedAsAWhole /\ AttributedToItsQuery
  BY <1>1 DEF ImportedAsAWhole, AttributedToItsQuery
<1>7. Serial
  BY <1>1, <1>2, <1>3 DEF Serial, StillMissing, OneWorkItem, Alive
<1> QED  BY <1>4, <1>5, <1>6, <1>7 DEF IInv

\* Rows of a table that has been mapped.
LEMMA MappedSeq ==
    ASSUME NEW S, NEW n \in Nat, NEW f \in [1 .. n -> S]
    PROVE  f \in Seq(S) /\ Len(f) = n
  OBVIOUS

-------------------------------------------------------------------------------
(* Requests and the schedule                                               *)

\* A request that leaves what is imported alone.
LEMMA ScheduleStep ==
    ASSUME IInv, UNCHANGED <<store, job, overlap>>,
           trackers' \subseteq Trackers, queries' \subseteq Queries, toSchedule' \in Nat,
           calls' \in Seq(CallRec), toSchedule' + Len(calls') <= MaxCalls,
           \A k \in 1 .. Len(calls') : calls'[k].queries # {} => calls'[k].last \in Queries
    PROVE  IInv'
<1>1. UNCHANGED <<trackerItems, identities, rows, job, overlap>>
  BY DEF store
<1>2. TablesOK'
  BY <1>1 DEF IInv, TablesOK
<1>3. JobsOK' /\ ImportedAsAWhole' /\ AttributedToItsQuery'
  BY <1>1 DEF IInv, JobsOK, ImportedAsAWhole, AttributedToItsQuery
<1>4. Serial'
  BY <1>1 DEF IInv, Serial
<1> QED  BY <1>2, <1>3, <1>4 DEF IInv

LEMMA RequestSteps ==
    ASSUME IInv,
           \/ \E q \in Queries : CreateQuery(q)
           \/ \E t \in Trackers : CreateTracker(t) \/ DeleteTracker(t)
           \/ UpdateTracker
    PROVE  IInv'
<1>1. /\ trackers \subseteq Trackers /\ queries \subseteq Queries /\ toSchedule \in Nat /\ calls \in Seq(CallRec)
      /\ Len(calls) \in Nat /\ MaxCalls \in Nat
      /\ \A k \in 1 .. Len(calls) : calls[k].queries # {} => calls[k].last \in Queries
  BY TrackerAssumption DEF IInv, TablesOK
<1>2. /\ UNCHANGED <<store, job, overlap, calls>> /\ toSchedule' = toSchedule + 1 /\ toSchedule + Len(calls) < MaxCalls
      /\ trackers' \subseteq Trackers /\ queries' \subseteq Queries
  BY <1>1 DEF CreateQuery, CreateTracker, DeleteTracker, UpdateTracker
<1>3. toSchedule' \in Nat /\ toSchedule' + Len(calls') <= MaxCalls
  BY <1>1, <1>2
<1> QED  BY <1>1, <1>2, <1>3, ScheduleStep

LEMMA ScheduleAllStep ==
    ASSUME IInv, ScheduleAllQueries
    PROVE  IInv'
<1>1. /\ trackers \subseteq Trackers /\ queries \subseteq Queries /\ toSchedule \in Nat /\ calls \in Seq(CallRec)
      /\ Len(calls) \in Nat /\ MaxCalls \in Nat /\ toSchedule + Len(calls) <= MaxCalls
      /\ \A k \in 1 .. Len(calls) : calls[k].queries # {} => calls[k].last \in Queries
  BY TrackerAssumption DEF IInv, TablesOK
<1>2. PICK last \in IF FetchTrackerQueries = {} THEN {None} ELSE FetchTrackerQueries :
         calls' = Append(calls, [queries |-> FetchTrackerQueries, last |-> last])
  BY DEF ScheduleAllQueries
<1>3. PICK call : call = [queries |-> FetchTrackerQueries, last |-> last]
  OBVIOUS
<1>4. call \in CallRec /\ (call.queries # {} => call.last \in Queries)
  BY <1>1, <1>2, <1>3 DEF FetchTrackerQueries, CallRec
<1>5. /\ calls' \in Seq(CallRec) /\ Len(calls') = Len(calls) + 1
      /\ \A k \in 1 .. Len(calls') : calls'[k] = IF k <= Len(calls) THEN calls[k] ELSE call
  BY <1>1, <1>2, <1>3, <1>4
<1>6. \A k \in 1 .. Len(calls') : calls'[k].queries # {} => calls'[k].last \in Queries
  BY <1>1, <1>4, <1>5
<1>7. /\ toSchedule' \in Nat /\ toSchedule' + Len(calls') <= MaxCalls
      /\ UNCHANGED <<store, job, overlap, trackers, queries>>
  BY <1>1, <1>5 DEF ScheduleAllQueries
<1> QED  BY <1>1, <1>5, <1>6, <1>7, ScheduleStep

LEMMA RestartStep ==
    ASSUME IInv, Restart
    PROVE  IInv'
<1>1. /\ Len(calls) \in Nat /\ MaxCalls \in Nat /\ toSchedule \in Nat /\ toSchedule + Len(calls) < MaxCalls
  BY TrackerAssumption DEF IInv, TablesOK, Restart
<1>2. PICK none : none = [queries |-> {}, last |-> None]
  OBVIOUS
<1>3. none \in CallRec /\ none.queries = {} /\ calls' = [k \in 1 .. Len(calls) |-> none]
  BY <1>2 DEF CallRec, Restart
<1>4. calls' \in Seq(CallRec) /\ Len(calls') = Len(calls) /\ \A k \in 1 .. Len(calls') : calls'[k].queries = {}
  BY <1>1, <1>3, MappedSeq
<1>5. /\ UNCHANGED <<trackers, queries, trackerItems, identities, rows, overlap>> /\ toSchedule' = 1
      /\ job' = [j \in Jobs |-> Idle] /\ Idle.pc = "idle"
  BY DEF Restart, store, Idle
<1>6. TablesOK'
  BY <1>1, <1>4, <1>5 DEF IInv, TablesOK
<1>7. JobsOK' /\ ImportedAsAWhole' /\ AttributedToItsQuery'
  BY <1>5 DEF IInv, JobsOK, JobOK, ImportedAsAWhole, AttributedToItsQuery
<1>8. Serial'
  BY <1>5 DEF IInv, Serial, StillMissing
<1> QED  BY <1>6, <1>7, <1>8 DEF IInv


\* DeleteQuery marks some work items as deleted.
LEMMA DeleteQueryStep ==
    ASSUME IInv, NEW q \in Queries, DeleteQuery(q)
    PROVE  IInv'
<1>0. rows \in Seq(ItemRow) /\ Len(rows) \in Nat /\ DOMAIN rows = 1 .. Len(rows) /\ \A r \in 1 .. Len(rows) : rows[r] \in ItemRow
  BY DEF IInv, TablesOK
<1>1. PICK gone : rows' = [r \in DOMAIN rows |-> [rows[r] EXCEPT !.live = @ /\ r \notin gone]]
  BY DEF DeleteQuery
<1>2. ASSUME NEW r \in 1 .. Len(rows)
      PROVE  /\ rows'[r] \in ItemRow /\ rows'[r].item = rows[r].item /\ rows'[r].space = rows[r].space
             /\ rows'[r].query = rows[r].query /\ (rows'[r].live => rows[r].live)
  <2>1. rows'[r] = [rows[r] EXCEPT !.live = rows[r].live /\ r \notin gone]
    BY <1>0, <1>1
  <2>2. rows[r] \in ItemRow
    BY <1>0
  <2> QED  BY <2>1, <2>2 DEF ItemRow
<1>3. rows' \in Seq(ItemRow) /\ Len(rows') = Len(rows)
  <2>1. rows' \in [1 .. Len(rows) -> ItemRow]
    BY <1>0, <1>1, <1>2
  <2> QED  BY <1>0, <2>1, MappedSeq
<1>4. /\ UNCHANGED <<trackers, calls, trackerItems, identities, job, overlap>>
      /\ queries' \subseteq queries /\ toSchedule' = toSchedule + 1 /\ toSchedule + Len(calls) < MaxCalls
  BY DEF DeleteQuery
<1>5. TablesOK'
  <2>1. toSchedule \in Nat /\ Len(calls) \in Nat /\ MaxCalls \in Nat
    BY TrackerAssumption DEF IInv, TablesOK
  <2>2. toSchedule' \in Nat /\ toSchedule' + Len(calls') <= MaxCalls
    BY <1>4, <2>1
  <2> QED  BY <1>3, <1>4, <2>2 DEF IInv, TablesOK
<1>6. JobsOK'
  <2>1. ASSUME NEW r, JobOK(r, rows, trackerItems, identities)  PROVE  JobOK(r, rows', trackerItems, identities)
    BY <1>2, <1>3, <2>1 DEF JobOK
  <2> QED  BY <1>4, <2>1 DEF IInv, JobsOK
<1>7. ImportedAsAWhole' /\ AttributedToItsQuery'
  <2>1. DOMAIN rows' = 1 .. Len(rows)
    BY <1>0, <1>1
  <2>2. ImportedAsAWhole'
    BY <1>0, <1>2, <1>4, <2>1 DEF IInv, ImportedAsAWhole
  <2>3. AttributedToItsQuery'
    BY <1>0, <1>2, <2>1 DEF IInv, AttributedToItsQuery
  <2> QED  BY <2>2, <2>3
<1>8. Serial'
  <2>1. Alive(rows') \subseteq Alive(rows)
    BY <1>2, <1>3 DEF Alive
  <2>2. \A r \in Alive(rows') : rows'[r].item = rows[r].item /\ rows'[r].space = rows[r].space
    BY <1>2, <1>3 DEF Alive
  <2>3. OneWorkItem(rows) => OneWorkItem(rows')
    BY <2>1, <2>2 DEF OneWorkItem
  <2>4. ASSUME NEW r, StillMissing(r, rows, trackerItems)  PROVE  StillMissing(r, rows', trackerItems)
    BY <2>1, <2>2, <2>4 DEF StillMissing
  <2> QED  BY <1>4, <2>3, <2>4 DEF IInv, Serial
<1> QED  BY <1>5, <1>6, <1>7, <1>8 DEF IInv

-------------------------------------------------------------------------------
(* Imports                                                                 *)

\* A step of an import that stores nothing.
LEMMA ReadStep ==
    ASSUME IInv, NEW j \in Jobs, NEW r, job' = [job EXCEPT ![j] = r],
           UNCHANGED <<schedule, store>>, JobOK(r, rows, trackerItems, identities),
           overlap' \in BOOLEAN, overlap => overlap',
           ~overlap' => /\ StillMissing(r, rows, trackerItems)
                        /\ r.pc # "idle" => \A k \in Jobs \ {j} : job[k].pc = "idle"
    PROVE  IInv'
<1>1. /\ UNCHANGED <<trackers, queries, toSchedule, calls, trackerItems, identities, rows>>
      /\ job = [k \in Jobs |-> job[k]]
  BY DEF schedule, store, IInv, TablesOK
<1>2. job' = [k \in Jobs |-> job'[k]] /\ \A k \in Jobs : job'[k] = IF k = j THEN r ELSE job[k]
  BY <1>1
<1>3. TablesOK'
  BY <1>1, <1>2 DEF IInv, TablesOK
<1>4. JobsOK'
  BY <1>1, <1>2 DEF IInv, JobsOK
<1>5. ImportedAsAWhole' /\ AttributedToItsQuery'
  BY <1>1 DEF IInv, ImportedAsAWhole, AttributedToItsQuery
<1>6. Serial'
  <2> SUFFICES ASSUME ~overlap'
               PROVE  /\ \A k, l \in Jobs : job'[k].pc # "idle" /\ job'[l].pc # "idle" => k = l
                      /\ \A k \in Jobs : StillMissing(job'[k], rows', trackerItems')
                      /\ OneWorkItem(rows')
                      /\ \A x \in Trackers \X RemoteItems : trackerItems'[x] <= 1
    BY DEF Serial
  <2>1. ~overlap
    OBVIOUS
  <2>2. \A k, l \in Jobs : job'[k].pc # "idle" /\ job'[l].pc # "idle" => k = l
    BY <1>2, <2>1 DEF IInv, Serial
  <2>3. \A k \in Jobs : StillMissing(job'[k], rows', trackerItems')
    BY <1>1, <1>2, <2>1 DEF IInv, Serial
  <2> QED  BY <1>1, <2>1, <2>2, <2>3 DEF IInv, Serial
<1> QED  BY <1>3, <1>4, <1>5, <1>6 DEF IInv

\* In a step of an import that is under way, nobody else is, if nothing overlaps.
LEMMA Alone ==
    ASSUME IInv, NEW j \in Jobs, job[j].pc # "idle", ~overlap
    PROVE  (\A k \in Jobs \ {j} : job[k].pc = "idle") /\ StillMissing(job[j], rows, trackerItems)
  BY DEF IInv, Serial

LEMMA TickStep ==
    ASSUME IInv, NEW j \in Jobs, Tick(j)
    PROVE  IInv'
<1>1. PICK k \in 1 .. Len(calls) : \E entry \in calls[k].queries :
         job' = [job EXCEPT ![j] = [pc |-> "next", entry |-> entry, query |-> calls[k].last,
                                    todo |-> Matches[calls[k].last]]]
  BY DEF Tick
<1>2. PICK entry \in calls[k].queries :
         job' = [job EXCEPT ![j] = [pc |-> "next", entry |-> entry, query |-> calls[k].last,
                                    todo |-> Matches[calls[k].last]]]
  BY <1>1
<1>3. PICK r : r = [pc |-> "next", entry |-> entry, query |-> calls[k].last, todo |-> Matches[calls[k].last]]
  OBVIOUS
<1>4. calls[k] \in CallRec /\ calls[k].last \in Queries
  BY <1>2 DEF IInv, TablesOK
<1>5. entry \in Queries
  BY <1>2, <1>4 DEF CallRec
<1>6. JobOK(r, rows, trackerItems, identities)
  BY <1>3, <1>4, <1>5 DEF JobOK
<1>7. StillMissing(r, rows, trackerItems)
  BY <1>3 DEF StillMissing
<1>8. /\ overlap' = (overlap \/ \E o \in Jobs \ {j} : job[o].pc # "idle") /\ UNCHANGED <<schedule, store>>
  BY DEF Tick
<1>9. /\ overlap' \in BOOLEAN /\ (overlap => overlap')
      /\ ~overlap' => \A o \in Jobs \ {j} : job[o].pc = "idle"
  BY <1>8
<1>10. job' = [job EXCEPT ![j] = r]
  BY <1>2, <1>3
<1> QED  BY <1>6, <1>7, <1>8, <1>9, <1>10, ReadStep

\* An import goes on to another record.
LEMMA GoesOn ==
    ASSUME IInv, NEW j \in Jobs, job[j].pc # "idle", NEW r, job' = [job EXCEPT ![j] = r],
           UNCHANGED <<schedule, store, overlap>>, JobOK(r, rows, trackerItems, identities),
           ~overlap => StillMissing(r, rows, trackerItems)
    PROVE  IInv'
<1>1. overlap' \in BOOLEAN /\ (overlap => overlap') /\ UNCHANGED <<schedule, store>>
  BY DEF IInv, TablesOK
<1>2. ~overlap' => /\ StillMissing(r, rows, trackerItems)
                   /\ r.pc # "idle" => \A k \in Jobs \ {j} : job[k].pc = "idle"
  BY Alone
<1> QED  BY <1>1, <1>2, ReadStep


\* What a tracker returns for a query, and the table of tracker items.
LEMMA JobTypes ==
    ASSUME IInv, NEW j \in Jobs
    PROVE  /\ JobOK(job[j], rows, trackerItems, identities)
           /\ job[j].pc # "idle" => Matches[job[j].query] \subseteq RemoteItems
           /\ job[j].pc \in {"upload", "fetch", "write"} =>
                /\ job[j].item \in RemoteItems /\ TrackerOf[job[j].query] \in Trackers
                /\ trackerItems[<<TrackerOf[job[j].query], job[j].item>>] \in Nat
<1>1. JobOK(job[j], rows, trackerItems, identities)
  BY DEF IInv, JobsOK
<1>2. job[j].pc # "idle" => job[j].query \in Queries
  BY <1>1 DEF JobOK
<1>3. job[j].pc # "idle" => Matches[job[j].query] \subseteq RemoteItems /\ TrackerOf[job[j].query] \in Trackers
  BY <1>2, TrackerAssumption
<1>4. job[j].pc \in {"upload", "fetch", "write"} => job[j].item \in RemoteItems
  BY <1>1, <1>3 DEF JobOK
<1>5. trackerItems \in [Trackers \X RemoteItems -> Nat]
  BY DEF IInv, TablesOK
<1>6. job[j].pc \in {"upload", "fetch", "write"} => <<TrackerOf[job[j].query], job[j].item>> \in Trackers \X RemoteItems
  BY <1>3, <1>4
<1> QED  BY <1>1, <1>3, <1>4, <1>5, <1>6

LEMMA NextItemStep ==
    ASSUME IInv, NEW j \in Jobs, NextItem(j)
    PROVE  IInv'
<1>1. /\ job[j].pc = "next" /\ UNCHANGED <<schedule, store, overlap>>
  BY DEF NextItem
<1>2. JobOK(job[j], rows, trackerItems, identities)
  BY JobTypes
<1>3. ASSUME NEW i \in job[j].todo,
             job' = [job EXCEPT ![j] = [pc |-> "upload", entry |-> job[j].entry,
                                        query |-> job[j].query, todo |-> job[j].todo \ {i}, item |-> i]]
      PROVE  IInv'
  <2>1. PICK r : r = [pc |-> "upload", entry |-> job[j].entry, query |-> job[j].query, todo |-> job[j].todo \ {i}, item |-> i]
    OBVIOUS
  <2>2. JobOK(r, rows, trackerItems, identities)
    BY <1>1, <1>2, <1>3, <2>1 DEF JobOK
  <2>3. StillMissing(r, rows, trackerItems)
    BY <2>1 DEF StillMissing
  <2>4. job' = [job EXCEPT ![j] = r]
    BY <1>3, <2>1
  <2> QED  BY <1>1, <2>2, <2>3, <2>4, GoesOn
<1>4. ASSUME job' = [job EXCEPT ![j] = Idle]  PROVE  IInv'
  <2>1. JobOK(Idle, rows, trackerItems, identities) /\ StillMissing(Idle, rows, trackerItems)
    BY DEF JobOK, StillMissing, Idle
  <2> QED  BY <1>1, <1>4, <2>1, GoesOn
<1> QED  BY <1>3, <1>4 DEF NextItem

LEMMA UploadStep ==
    ASSUME IInv, NEW j \in Jobs, Upload(j)
    PROVE  IInv'
<1>1. PICK o : o = job[j]
  OBVIOUS
<1>2. PICK staged \in BOOLEAN : staged = (trackerItems[<<TrackerOf[o.query], o.item>>] > 0)
  <2> SUFFICES ASSUME NEW e  PROVE  \E b \in BOOLEAN : b = (e > 0)
    OBVIOUS
  <2>1. CASE e > 0
    <3>1. TRUE = (e > 0)
      BY <2>1
    <3> QED  BY <3>1
  <2>2. CASE ~(e > 0)
    <3>1. FALSE = (e > 0)
      BY <2>2
    <3> QED  BY <3>1
  <2> QED  BY <2>1, <2>2
<1>3. PICK r : r = [pc |-> "fetch", entry |-> o.entry, query |-> o.query, todo |-> o.todo, item |-> o.item, staged |-> staged]
  OBVIOUS
<1>4. job = [k \in Jobs |-> job[k]]
  BY DEF IInv, TablesOK
<1>5. o.pc = "upload" /\ job' = [job EXCEPT ![j] = r] /\ UNCHANGED <<schedule, store, overlap>>
  BY <1>1, <1>2, <1>3, <1>4 DEF Upload
<1>6. JobOK(o, rows, trackerItems, identities) /\ trackerItems[<<TrackerOf[o.query], o.item>>] \in Nat
  BY <1>1, <1>5, JobTypes
<1>7. /\ staged => trackerItems[<<TrackerOf[o.query], o.item>>] > 0
      /\ ~staged => trackerItems[<<TrackerOf[o.query], o.item>>] = 0
  <2>1. CASE trackerItems[<<TrackerOf[o.query], o.item>>] > 0
    <3>1. staged = TRUE
      BY <1>2, <2>1
    <3> QED  BY <2>1, <3>1
  <2>2. CASE ~(trackerItems[<<TrackerOf[o.query], o.item>>] > 0)
    <3>1. staged = FALSE
      BY <1>2, <2>2
    <3>2. trackerItems[<<TrackerOf[o.query], o.item>>] = 0
      BY <1>6, <2>2
    <3> QED  BY <3>1, <3>2
  <2> QED  BY <2>1, <2>2
<1>8. JobOK(r, rows, trackerItems, identities)
  BY <1>2, <1>3, <1>5, <1>6, <1>7 DEF JobOK
<1>9. StillMissing(r, rows, trackerItems)
  BY <1>3, <1>7 DEF StillMissing
<1> QED  BY <1>1, <1>5, <1>8, <1>9, GoesOn

LEMMA FetchStep ==
    ASSUME IInv, NEW j \in Jobs, Fetch(j)
    PROVE  IInv'
<1>1. PICK o : o = job[j]
  OBVIOUS
<1>2. job = [k \in Jobs |-> job[k]]
  BY DEF IInv, TablesOK
<1>3. PICK found : found = Existing(o.query, o.item)
  OBVIOUS
<1>4. PICK row \in IF found = {} THEN {None} ELSE found :
         job' = [job EXCEPT ![j] = [pc |-> "write", entry |-> @.entry, query |-> @.query,
                                    todo |-> @.todo, item |-> @.item, staged |-> @.staged,
                                    known |-> Lookup(@.item), row |-> row, stale |-> FALSE]]
  BY <1>1, <1>3 DEF Fetch
<1>5. PICK known \in BOOLEAN : known = Lookup(o.item)
  <2>1. CASE Lookup(o.item)
    <3>1. TRUE = Lookup(o.item)
      BY <2>1 DEF Lookup
    <3> QED  BY <3>1
  <2>2. CASE ~Lookup(o.item)
    <3>1. FALSE = Lookup(o.item)
      BY <2>2 DEF Lookup
    <3> QED  BY <3>1
  <2> QED  BY <2>1, <2>2
<1>6. PICK r : r = [pc |-> "write", entry |-> o.entry, query |-> o.query, todo |-> o.todo, item |-> o.item,
                    staged |-> o.staged, known |-> known, row |-> row, stale |-> FALSE]
  OBVIOUS
<1>7. job' = [job EXCEPT ![j] = r]
  BY <1>1, <1>2, <1>4, <1>5, <1>6
<1>8. o.pc = "fetch" /\ UNCHANGED <<schedule, store, overlap>>
  BY <1>1 DEF Fetch
<1>9. /\ JobOK(o, rows, trackerItems, identities) /\ o.item \in RemoteItems
      /\ Matches[o.query] \subseteq RemoteItems /\ (~overlap => StillMissing(o, rows, trackerItems))
  BY <1>1, <1>8, JobTypes, Alone
<1>10. rows \in Seq(ItemRow) /\ DOMAIN rows = 1 .. Len(rows) /\ Len(rows) \in Nat
  BY DEF IInv, TablesOK
<1>11. found = {s \in Alive(rows) : rows[s].space = SpaceOf[o.query] /\ rows[s].item = o.item}
  BY <1>3, <1>10 DEF Existing, Live, Alive
<1>12. /\ row # None => /\ row \in 1 .. Len(rows) /\ rows[row].item = o.item /\ rows[row].space = SpaceOf[o.query]
       /\ row = None => found = {}
       /\ row \in Nat \cup {None}
  <2>1. None \notin 1 .. Len(rows)
    BY <1>10, TrackerAssumption
  <2> QED  BY <1>4, <1>10, <1>11, <2>1 DEF Alive
<1>13. known \in BOOLEAN /\ (known => CreatorOf[o.item] \in identities)
  BY <1>5, Zenon DEF Lookup
<1>14. r \in WritingJob
  BY <1>6, <1>8, <1>9, <1>12, <1>13 DEF JobOK, WritingJob
<1>15. JobOK(r, rows, trackerItems, identities)
  BY <1>6, <1>8, <1>9, <1>12, <1>13, <1>14 DEF JobOK
<1>16. ~overlap => StillMissing(r, rows, trackerItems)
  BY <1>6, <1>8, <1>9, <1>11, <1>12 DEF StillMissing
<1> QED  BY <1>1, <1>7, <1>8, <1>15, <1>16, GoesOn

LEMMA RollBackStep ==
    ASSUME IInv, NEW j \in Jobs, RollBack(j)
    PROVE  IInv'
<1>1. PICK o : o = job[j]
  OBVIOUS
<1>2. job = [k \in Jobs |-> job[k]]
  BY DEF IInv, TablesOK
<1>3. PICK r : r = [pc |-> "next", entry |-> o.entry, query |-> o.query, todo |-> o.todo]
  OBVIOUS
<1>4. o.pc \in {"upload", "fetch", "write"} /\ job' = [job EXCEPT ![j] = r] /\ UNCHANGED <<schedule, store, overlap>>
  BY <1>1, <1>2, <1>3 DEF RollBack
<1>5. JobOK(o, rows, trackerItems, identities)
  BY <1>1, JobTypes
<1>6. JobOK(r, rows, trackerItems, identities) /\ StillMissing(r, rows, trackerItems)
  BY <1>3, <1>4, <1>5 DEF JobOK, StillMissing
<1> QED  BY <1>1, <1>4, <1>6, GoesOn


\* What Write does to the tables: nothing is removed, items keep their work item and space,
\* and what is new is the work item of the import.
WrittenBy(j) ==
    /\ trackerItems' \in [Trackers \X RemoteItems -> Nat]
    /\ \A x \in Trackers \X RemoteItems : trackerItems[x] <= trackerItems'[x]
    /\ trackerItems'[<<TrackerOf[job[j].query], job[j].item>>] > 0
    /\ identities \subseteq identities' /\ CreatorOf[job[j].item] \in identities'
    /\ rows' \in Seq(ItemRow) /\ Len(rows) <= Len(rows')
    /\ \A s \in 1 .. Len(rows) : rows'[s].item = rows[s].item /\ rows'[s].space = rows[s].space
    /\ \A s \in 1 .. Len(rows') :
         \/ s \in 1 .. Len(rows) /\ rows'[s] = rows[s]
         \/ rows'[s] = WorkItem(job[j].query, job[j].item)

LEMMA WriteTables ==
    ASSUME IInv, NEW j \in Jobs, Write(j)
    PROVE  /\ WrittenBy(j)
           /\ ~overlap => OneWorkItem(rows') /\ \A x \in Trackers \X RemoteItems : trackerItems'[x] <= 1
<1>1. PICK o : o = job[j]
  OBVIOUS
<1>2. PICK q : q = o.query
  OBVIOUS
<1>3. PICK i : i = o.item
  OBVIOUS
<1>4. PICK r : r = o.row
  OBVIOUS
<1>5. PICK new : new = WorkItem(q, i)
  OBVIOUS
<1>6. PICK key : key = <<TrackerOf[q], i>>
  OBVIOUS
<1>7. /\ o.pc = "write"
      /\ trackerItems' = IF o.staged THEN trackerItems ELSE [trackerItems EXCEPT ![key] = @ + 1]
      /\ identities' = identities \cup {CreatorOf[i]}
      /\ \/ r = None /\ rows' = Append(rows, new)
         \/ r # None /\ rows[r].live /\ rows' = [rows EXCEPT ![r] = new]
  BY <1>1, <1>2, <1>3, <1>4, <1>5, <1>6 DEF Write, SetWorkItemFields
<1>8. /\ JobOK(o, rows, trackerItems, identities) /\ i \in RemoteItems /\ q \in Queries /\ o.staged \in BOOLEAN
      /\ TrackerOf[q] \in Trackers /\ key \in Trackers \X RemoteItems
  <2>1. JobOK(o, rows, trackerItems, identities) /\ i \in RemoteItems /\ TrackerOf[q] \in Trackers
    BY <1>1, <1>2, <1>3, <1>7, JobTypes
  <2> QED  BY <1>2, <1>6, <1>7, <2>1 DEF JobOK
<1>9. new \in ItemRow /\ new.item = i /\ new.space = SpaceOf[q] /\ new.query = q /\ new.live = TRUE
  BY <1>5, <1>8, TrackerAssumption DEF WorkItem, ItemRow
<1>10. /\ trackerItems \in [Trackers \X RemoteItems -> Nat] /\ rows \in Seq(ItemRow) /\ Len(rows) \in Nat
       /\ DOMAIN rows = 1 .. Len(rows) /\ \A s \in 1 .. Len(rows) : rows[s] \in ItemRow
  BY DEF IInv, TablesOK
<1>11. r # None => r \in 1 .. Len(rows) /\ rows[r].item = i /\ rows[r].space = SpaceOf[q]
  BY <1>2, <1>3, <1>4, <1>7, <1>8 DEF JobOK
<1>12. ~overlap =>
         /\ o.staged \/ trackerItems[key] = 0
         /\ r = None => ~\E s \in Alive(rows) : rows[s].space = SpaceOf[q] /\ rows[s].item = i
         /\ OneWorkItem(rows) /\ \A x \in Trackers \X RemoteItems : trackerItems[x] <= 1
  BY <1>1, <1>2, <1>3, <1>4, <1>6, <1>7, Alone DEF StillMissing, IInv, Serial
<1>13. /\ trackerItems' \in [Trackers \X RemoteItems -> Nat]
       /\ \A x \in Trackers \X RemoteItems : trackerItems[x] <= trackerItems'[x]
       /\ trackerItems'[key] > 0
       /\ ~overlap => \A x \in Trackers \X RemoteItems : trackerItems'[x] <= 1
  <2>1. CASE o.staged
    <3>1. trackerItems' = trackerItems
      BY <1>7, <2>1
    <3>2. trackerItems[key] > 0
      BY <1>2, <1>3, <1>6, <1>7, <1>8, <2>1 DEF JobOK
    <3> QED  BY <1>10, <1>12, <3>1, <3>2
  <2>2. CASE ~o.staged
    <3>1. trackerItems' = [trackerItems EXCEPT ![key] = trackerItems[key] + 1]
      BY <1>7, <2>2
    <3>2. \A x \in Trackers \X RemoteItems : trackerItems'[x] = IF x = key THEN trackerItems[key] + 1 ELSE trackerItems[x]
      BY <1>8, <1>10, <3>1
    <3>3. trackerItems' \in [Trackers \X RemoteItems -> Nat]
      BY <1>8, <1>10, <3>1
    <3>4. trackerItems[key] \in Nat /\ \A x \in Trackers \X RemoteItems : trackerItems[x] \in Nat
      BY <1>8, <1>10
    <3>5. \A x \in Trackers \X RemoteItems : trackerItems[x] <= trackerItems'[x]
      BY <3>2, <3>4
    <3>6. trackerItems'[key] > 0
      BY <1>8, <3>2, <3>4
    <3>7. ~overlap => \A x \in Trackers \X RemoteItems : trackerItems'[x] <= 1
      BY <1>12, <2>2, <3>2
    <3> QED  BY <3>3, <3>5, <3>6, <3>7
  <2> QED  BY <1>8, <2>1, <2>2
<1>14. /\ rows' \in Seq(ItemRow) /\ Len(rows) <= Len(rows')
       /\ \A s \in 1 .. Len(rows) : rows'[s].item = rows[s].item /\ rows'[s].space = rows[s].space
       /\ \A s \in 1 .. Len(rows') : (s \in 1 .. Len(rows) /\ rows'[s] = rows[s]) \/ rows'[s] = new
       /\ ~overlap => OneWorkItem(rows')
  <2>1. CASE r = None /\ rows' = Append(rows, new)
    <3>1. /\ rows' \in Seq(ItemRow) /\ Len(rows') = Len(rows) + 1 /\ rows'[Len(rows) + 1] = new
          /\ \A s \in 1 .. Len(rows) : rows'[s] = rows[s]
      BY <1>9, <1>10, <2>1
    <3>2. \A s \in 1 .. Len(rows') : s \in 1 .. Len(rows) \/ s = Len(rows) + 1
      BY <1>10, <3>1
    <3>3. Alive(rows') \subseteq Alive(rows) \cup {Len(rows) + 1}
      BY <3>1, <3>2 DEF Alive
    <3>4. ~overlap => OneWorkItem(rows')
      <4> SUFFICES ASSUME ~overlap, NEW s \in Alive(rows'), NEW t \in Alive(rows'),
                          rows'[s].item = rows'[t].item, rows'[s].space = rows'[t].space
                   PROVE  s = t
        BY DEF OneWorkItem
      <4>1. \A a \in Alive(rows) : rows'[a] = rows[a] /\ ~(rows[a].space = new.space /\ rows[a].item = new.item)
        BY <1>9, <1>12, <2>1, <3>1 DEF Alive
      <4>2. CASE s \in Alive(rows) /\ t \in Alive(rows)
        BY <1>12, <4>1, <4>2 DEF OneWorkItem
      <4>3. CASE ~(s \in Alive(rows) /\ t \in Alive(rows))
        BY <3>1, <3>3, <4>1, <4>3
      <4> QED  BY <4>2, <4>3
    <3> QED  BY <1>10, <3>1, <3>2, <3>4
  <2>2. CASE r # None /\ rows[r].live /\ rows' = [rows EXCEPT ![r] = new]
    <3>1. rows' \in Seq(ItemRow) /\ Len(rows') = Len(rows)
      BY <1>9, <1>10, <1>11, <2>2
    <3>2. \A s \in 1 .. Len(rows) : rows'[s] = IF s = r THEN new ELSE rows[s]
      BY <1>10, <2>2
    <3>3. \A s \in 1 .. Len(rows) : rows'[s].item = rows[s].item /\ rows'[s].space = rows[s].space
      BY <1>9, <1>11, <2>2, <3>2
    <3>4. Alive(rows') \subseteq Alive(rows)
      BY <2>2, <3>1, <3>2 DEF Alive
    <3>5. \A s \in Alive(rows') : rows'[s].item = rows[s].item /\ rows'[s].space = rows[s].space
      BY <3>1, <3>3 DEF Alive
    <3>6. ~overlap => OneWorkItem(rows')
      BY <1>12, <3>4, <3>5 DEF OneWorkItem
    <3> QED  BY <1>10, <3>1, <3>2, <3>3, <3>6
  <2> QED  BY <1>7, <2>1, <2>2
<1>15. identities \subseteq identities' /\ CreatorOf[i] \in identities'
  BY <1>7
<1>16. i = job[j].item /\ q = job[j].query /\ new = WorkItem(job[j].query, job[j].item)
       /\ key = <<TrackerOf[job[j].query], job[j].item>>
  BY <1>1, <1>2, <1>3, <1>5, <1>6
<1> QED  BY <1>13, <1>14, <1>15, <1>16 DEF WrittenBy


\* The other imports keep what they have read, but for the version of a work item that was
\* written under their hands.
LEMMA WriteJobs ==
    ASSUME IInv, NEW j \in Jobs, Write(j), WrittenBy(j), NEW k \in Jobs
    PROVE  /\ JobOK(job'[k], rows', trackerItems', identities')
           /\ k # j /\ job[k].pc = "idle" => job'[k] = job[k]
           /\ job'[j].pc = "next"
<1>1. PICK o : o = job[k]
  OBVIOUS
<1>2. JobOK(o, rows, trackerItems, identities)
  BY <1>1, JobTypes
<1>3. PICK next : next = [pc |-> "next", entry |-> job[j].entry, query |-> job[j].query, todo |-> job[j].todo]
  OBVIOUS
<1>4. /\ job'[j] = next
      /\ k # j => job'[k] = IF o.pc = "write" /\ o.row = job[j].row THEN [o EXCEPT !.stale = TRUE] ELSE o
  BY <1>1, <1>3 DEF Write, NextJob
<1>5. next.pc = "next" /\ JobOK(next, rows', trackerItems', identities')
  <2>1. JobOK(job[j], rows, trackerItems, identities) /\ job[j].pc = "write"
    BY JobTypes DEF Write
  <2> QED  BY <1>3, <2>1 DEF JobOK
<1>6. PICK e : e = <<TrackerOf[o.query], o.item>>
  OBVIOUS
<1>7. o.pc \in {"fetch", "write"} /\ trackerItems[e] > 0 => trackerItems'[e] > 0
  <2> SUFFICES ASSUME o.pc \in {"fetch", "write"}, trackerItems[e] > 0  PROVE  trackerItems'[e] > 0
    OBVIOUS
  <2>1. e \in Trackers \X RemoteItems /\ trackerItems[e] \in Nat
    BY <1>1, <1>6, JobTypes
  <2>2. trackerItems[e] <= trackerItems'[e] /\ trackerItems'[e] \in Nat
    BY <2>1 DEF WrittenBy
  <2> QED  BY <2>1, <2>2
<1>8. /\ identities \subseteq identities' /\ Len(rows) \in Nat /\ Len(rows') \in Nat /\ Len(rows) <= Len(rows')
      /\ \A s \in 1 .. Len(rows) : rows'[s].item = rows[s].item /\ rows'[s].space = rows[s].space
  BY DEF WrittenBy, IInv, TablesOK
<1>9. o.pc = "write" /\ o.row # None =>
         /\ o.row \in 1 .. Len(rows')
         /\ rows'[o.row].item = o.item /\ rows'[o.row].space = SpaceOf[o.query]
  BY <1>2, <1>8 DEF JobOK
<1>10. JobOK(o, rows', trackerItems', identities')
  BY <1>2, <1>6, <1>7, <1>8, <1>9 DEF JobOK
<1>11. ASSUME o.pc = "write"  PROVE  JobOK([o EXCEPT !.stale = TRUE], rows', trackerItems', identities')
  <2>1. o \in WritingJob
    BY <1>2, <1>11 DEF JobOK
  <2>2. PICK n : n = [o EXCEPT !.stale = TRUE]
    OBVIOUS
  <2>3. /\ n \in WritingJob /\ n.pc = o.pc /\ n.entry = o.entry /\ n.query = o.query /\ n.todo = o.todo
        /\ n.item = o.item /\ n.staged = o.staged /\ n.known = o.known /\ n.row = o.row
    BY <2>1, <2>2 DEF WritingJob
  <2>4. JobOK(n, rows', trackerItems', identities')
    BY <1>10, <1>11, <2>3 DEF JobOK
  <2> QED  BY <2>2, <2>4
<1> QED  BY <1>1, <1>4, <1>5, <1>10, <1>11

LEMMA WriteStep ==
    ASSUME IInv, NEW j \in Jobs, Write(j)
    PROVE  IInv'
<1>1. /\ WrittenBy(j)
      /\ ~overlap => OneWorkItem(rows') /\ \A x \in Trackers \X RemoteItems : trackerItems'[x] <= 1
  BY WriteTables
<1>2. UNCHANGED <<trackers, queries, toSchedule, calls, overlap>> /\ job' = [k \in Jobs |-> job'[k]]
  BY DEF Write, schedule, NextJob
<1>3. TablesOK'
  BY <1>1, <1>2 DEF IInv, TablesOK, WrittenBy
<1>4. JobsOK'
  BY <1>1, WriteJobs DEF JobsOK
<1>5. PICK q : q = job[j].query
  OBVIOUS
<1>6. PICK i : i = job[j].item
  OBVIOUS
<1>7. /\ q \in Queries /\ i \in Matches[q] /\ WorkItem(q, i).item = i /\ WorkItem(q, i).query = q
      /\ WorkItem(q, i).space = SpaceOf[q]
  BY <1>5, <1>6, JobTypes DEF Write, JobOK, WorkItem
<1>8. /\ DOMAIN rows = 1 .. Len(rows) /\ DOMAIN rows' = 1 .. Len(rows') /\ \A s \in 1 .. Len(rows) : rows[s] \in ItemRow
  BY <1>1 DEF WrittenBy, IInv, TablesOK
<1>9. ImportedAsAWhole'
  <2> SUFFICES ASSUME NEW s \in 1 .. Len(rows')
               PROVE  /\ CreatorOf[rows'[s].item] \in identities'
                      /\ trackerItems'[<<TrackerOf[rows'[s].query], rows'[s].item>>] > 0
    BY <1>8 DEF ImportedAsAWhole
  <2>1. CASE s \in 1 .. Len(rows) /\ rows'[s] = rows[s]
    <3>1. PICK e : e = <<TrackerOf[rows[s].query], rows[s].item>>
      OBVIOUS
    <3>2. CreatorOf[rows[s].item] \in identities /\ trackerItems[e] > 0
      BY <1>8, <2>1, <3>1 DEF IInv, ImportedAsAWhole
    <3>3. e \in Trackers \X RemoteItems
      BY <1>8, <2>1, <3>1, TrackerAssumption DEF ItemRow
    <3>4. trackerItems[e] \in Nat /\ trackerItems'[e] \in Nat /\ trackerItems[e] <= trackerItems'[e]
      BY <1>1, <3>3 DEF WrittenBy, IInv, TablesOK
    <3>5. trackerItems'[e] > 0 /\ CreatorOf[rows[s].item] \in identities'
      BY <1>1, <3>2, <3>4 DEF WrittenBy
    <3> QED  BY <2>1, <3>1, <3>5
  <2>2. CASE rows'[s] = WorkItem(q, i)
    BY <1>1, <1>5, <1>6, <1>7, <2>2 DEF WrittenBy
  <2> QED  BY <1>1, <1>5, <1>6, <2>1, <2>2 DEF WrittenBy
<1>10. AttributedToItsQuery'
  <2> SUFFICES ASSUME NEW s \in 1 .. Len(rows')
               PROVE  rows'[s].item \in Matches[rows'[s].query] /\ rows'[s].space = SpaceOf[rows'[s].query]
    BY <1>8 DEF AttributedToItsQuery
  <2>1. CASE s \in 1 .. Len(rows) /\ rows'[s] = rows[s]
    BY <1>8, <2>1 DEF IInv, AttributedToItsQuery
  <2>2. CASE rows'[s] = WorkItem(q, i)
    BY <1>7, <2>2
  <2> QED  BY <1>1, <1>5, <1>6, <2>1, <2>2 DEF WrittenBy
<1>11. Serial'
  <2> SUFFICES ASSUME ~overlap
               PROVE  /\ \A k, l \in Jobs : job'[k].pc # "idle" /\ job'[l].pc # "idle" => k = l
                      /\ \A k \in Jobs : StillMissing(job'[k], rows', trackerItems')
                      /\ OneWorkItem(rows')
                      /\ \A x \in Trackers \X RemoteItems : trackerItems'[x] <= 1
    BY <1>2 DEF Serial
  <2>1. job[j].pc = "write"
    BY DEF Write
  <2>2. \A k \in Jobs \ {j} : job[k].pc = "idle"
    BY <2>1, Alone
  <2>3. job'[j].pc = "next" /\ \A k \in Jobs \ {j} : job'[k] = job[k]
    BY <1>1, <2>2, WriteJobs
  <2>4. \A k \in Jobs : job'[k].pc \in {"idle", "next"} /\ (job'[k].pc # "idle" => k = j)
    BY <2>2, <2>3
  <2>5. \A k \in Jobs : StillMissing(job'[k], rows', trackerItems')
    BY <2>4 DEF StillMissing
  <2> QED  BY <1>1, <2>4, <2>5
<1> QED  BY <1>3, <1>4, <1>9, <1>10, <1>11 DEF IInv

-------------------------------------------------------------------------------

LEMMA IInvStep == IInv /\ [Next]_vars => IInv'
<1> SUFFICES ASSUME IInv, [Next]_vars  PROVE  IInv'
  OBVIOUS
<1>1. ASSUME NEW q \in Queries, DeleteQuery(q)  PROVE  IInv'
  BY <1>1, DeleteQueryStep
<1>2. ASSUME \/ \E q \in Queries : CreateQuery(q)
             \/ \E t \in Trackers : CreateTracker(t) \/ DeleteTracker(t)
             \/ UpdateTracker
      PROVE  IInv'
  BY <1>2, RequestSteps
<1>3. ASSUME ScheduleAllQueries \/ Restart  PROVE  IInv'
  BY <1>3, ScheduleAllStep, RestartStep
<1>4. ASSUME NEW j \in Jobs, Tick(j)  PROVE  IInv'
  BY <1>4, TickStep
<1>5. ASSUME NEW j \in Jobs, Import(j)  PROVE  IInv'
  BY <1>5, NextItemStep, UploadStep, FetchStep, WriteStep, RollBackStep DEF Import
<1>6. CASE UNCHANGED vars
  <2>1. UNCHANGED <<trackers, queries, toSchedule, calls, store, job, overlap>>
    BY <1>6 DEF vars, store
  <2>2. /\ trackers \subseteq Trackers /\ queries \subseteq Queries /\ toSchedule \in Nat /\ calls \in Seq(CallRec)
        /\ toSchedule + Len(calls) <= MaxCalls
        /\ \A k \in 1 .. Len(calls) : calls[k].queries # {} => calls[k].last \in Queries
    BY DEF IInv, TablesOK
  <2> QED  BY <2>1, <2>2, ScheduleStep
<1> QED  BY <1>1, <1>2, <1>3, <1>4, <1>5, <1>6 DEF Next

\* An import stores a remote item with its work item and its creator, or nothing of it,
\* under a query that finds the item (upsert and Upload in
\* remoteworkitem/trackeritem_repository.go), whatever imports, requests and restarts
\* overlap; an item becomes one work item of a space as long as imports do not overlap.
THEOREM ImportsStaySound == Spec => []ImportsAreSound
<1>1. Spec => []IInv
  BY IInvInit, IInvStep, PTL DEF Spec
<1> QED  BY <1>1, IInvSound, PTL
===============================================================================
