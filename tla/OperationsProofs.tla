--------------------------- MODULE OperationsProofs ---------------------------
(***************************************************************************)
(* Proofs about what runs in other processes than the one that answers:    *)
(* schema migrations, the cluster behind the deployments and the           *)
(* goroutines of the event watch.                                          *)
(*                                                                         *)
(* Migration, for any number of processes, versions, steps and faults: the *)
(* inductive invariant adds to the properties what each point of the loop  *)
(* knows: a process past AcquireLock has the lock, a process past          *)
(* ReadVersion has read the version that is still the current one, and a   *)
(* process that leaves the loop has seen the newest version.               *)
(*                                                                         *)
(* Deployments, for any number of clients, roll-outs, builds and requests: *)
(* the versions of a config's controllers are counted from 1 in the order  *)
(* they were created, so the fold over the candidates keeps the newest one *)
(* and a controller that was created after it has failed; what a request   *)
(* has read stays true while the cluster moves, or is marked out of date.  *)
(*                                                                         *)
(* EventWatch, for any number of events, changes and lists: the newest     *)
(* state of an event is sent or on its way, and none is sent after it.     *)
(***************************************************************************)
EXTENDS Migration, Deployments, EventWatch, FiniteSetTheorems, TLAPS

(* Migration *)

\* The rows are 0 .. k for some k: the existential form of NoGaps, which needs
\* no induction to find the maximum.
RowsArePrefix == \E k \in -1 .. NumVersions - 1 : versionRows = 0 .. k

LockHeld ==
    \A p \in Procs : pc[p] \in {"read", "steps", "insert", "commit"} => lock = p

\* What p read is still true: its next version is the first one without a row.
ReadIsCurrent ==
    \A p \in Procs : pc[p] \in {"steps", "insert", "commit"} =>
        \A w \in Versions : w \in versionRows <=> w < nextVersion[p]

TxContents ==
    \A p \in Procs :
        /\ pc[p] \in {"lock", "read"} => stepsRun[p] = 0 /\ ~rowInserted[p]
        /\ pc[p] = "steps" => /\ nextVersion[p] \in Versions
                              /\ stepsRun[p] <= StepsOf[nextVersion[p]]
                              /\ ~rowInserted[p]
        /\ pc[p] = "insert" => /\ nextVersion[p] \in Versions
                               /\ stepsRun[p] = StepsOf[nextVersion[p]]
                               /\ ~rowInserted[p]
        /\ pc[p] = "commit" => IF rowInserted[p]
                                  THEN /\ nextVersion[p] \in Versions
                                       /\ stepsRun[p] = StepsOf[nextVersion[p]]
                                  ELSE nextVersion[p] >= NumVersions

ExitsAreCurrent ==
    \A p \in Procs :
        /\ pc[p] = "loop" /\ nextVersion[p] >= NumVersions => versionRows = Versions
        /\ pc[p] = "done" => versionRows = Versions

IInv ==
    /\ TypeOK
    /\ SchemaMatchesVersions
    /\ RowsArePrefix
    /\ LockHeld
    /\ ReadIsCurrent
    /\ TxContents
    /\ ExitsAreCurrent

\* getCurrentVersion computes the k of RowsArePrefix: the highest row, or -1 when
\* there is none.
LEMMA CurrentVersionIs ==
    ASSUME NEW k \in -1 .. NumVersions - 1, versionRows = 0 .. k
    PROVE  CurrentVersion = k
<1>1. CASE k = -1
  BY <1>1 DEF CurrentVersion
<1>2. CASE k # -1
  <2>1. k \in versionRows /\ \A w \in versionRows : w <= k
    BY <1>2, MigrationAssumption
  <2>2. \A v \in versionRows : (\A w \in versionRows : w <= v) => v = k
    BY <2>1, MigrationAssumption
  <2> QED BY <2>1, <2>2 DEF CurrentVersion
<1> QED BY <1>1, <1>2

\* Every step of Migrate, of any process, keeps the inductive invariant.
LEMMA IInvStep == IInv /\ [Next]_vars => IInv'
<1> SUFFICES ASSUME IInv, [Next]_vars PROVE IInv'
  OBVIOUS
<1> USE MigrationAssumption
<1>a. /\ TypeOK /\ SchemaMatchesVersions /\ RowsArePrefix /\ LockHeld
      /\ ReadIsCurrent /\ TxContents /\ ExitsAreCurrent
  BY DEF IInv
<1> USE <1>a
<1>1. ASSUME NEW p \in Procs, Start(p) PROVE IInv'
  <2>1. TypeOK'
    BY <1>1 DEF TypeOK, PCs, Start, GoTo
  <2>2. SchemaMatchesVersions' /\ RowsArePrefix'
    BY <1>1 DEF SchemaMatchesVersions, RowsArePrefix, Start
  <2>3. LockHeld'
    BY <1>1 DEF TypeOK, LockHeld, Start, GoTo
  <2>4. ReadIsCurrent'
    BY <1>1 DEF TypeOK, ReadIsCurrent, Start, GoTo
  <2>5. TxContents'
    BY <1>1 DEF TypeOK, TxContents, Start, GoTo
  <2>6. ExitsAreCurrent'
    <3>1. NumVersions = 0 => versionRows = Versions
      BY DEF TypeOK, Versions
    <3> QED BY <1>1, <3>1 DEF TypeOK, ExitsAreCurrent, Start, GoTo
  <2> QED BY <2>1, <2>2, <2>3, <2>4, <2>5, <2>6 DEF IInv
<1>2. ASSUME NEW p \in Procs, Begin(p) PROVE IInv'
  <2>1. TypeOK'
    <3>1. rowInserted' \in [Procs -> BOOLEAN]
      BY <1>2, Zenon DEF TypeOK, Begin
    <3> QED BY <1>2, <3>1 DEF TypeOK, PCs, Begin, GoTo
  <2>2. SchemaMatchesVersions' /\ RowsArePrefix'
    BY <1>2 DEF SchemaMatchesVersions, RowsArePrefix, Begin
  <2>3. LockHeld'
    BY <1>2 DEF TypeOK, LockHeld, Begin, GoTo
  <2>4. ReadIsCurrent'
    BY <1>2 DEF TypeOK, ReadIsCurrent, Begin, GoTo
  <2>5. TxContents'
    BY <1>2 DEF TypeOK, TxContents, Begin, GoTo
  <2>6. ExitsAreCurrent'
    BY <1>2 DEF TypeOK, ExitsAreCurrent, Begin, GoTo
  <2> QED BY <2>1, <2>2, <2>3, <2>4, <2>5, <2>6 DEF IInv
<1>3. ASSUME NEW p \in Procs, AcquireLock(p) PROVE IInv'
  <2>1. TypeOK'
    BY <1>3 DEF TypeOK, PCs, AcquireLock, GoTo
  <2>2. SchemaMatchesVersions' /\ RowsArePrefix'
    BY <1>3 DEF SchemaMatchesVersions, RowsArePrefix, AcquireLock
  <2>3. LockHeld'
    BY <1>3 DEF TypeOK, LockHeld, AcquireLock, GoTo
  <2>4. ReadIsCurrent'
    BY <1>3 DEF TypeOK, ReadIsCurrent, AcquireLock, GoTo
  <2>5. TxContents'
    BY <1>3 DEF TypeOK, TxContents, AcquireLock, GoTo
  <2>6. ExitsAreCurrent'
    BY <1>3 DEF TypeOK, ExitsAreCurrent, AcquireLock, GoTo
  <2> QED BY <2>1, <2>2, <2>3, <2>4, <2>5, <2>6 DEF IInv
<1>4. ASSUME NEW p \in Procs, ReadVersion(p) PROVE IInv'
  <2>1. PICK k \in -1 .. NumVersions - 1 : versionRows = 0 .. k
    BY DEF IInv, RowsArePrefix
  <2>2. CurrentVersion = k
    BY <2>1, CurrentVersionIs
  <2>3. nextVersion' = [nextVersion EXCEPT ![p] = k + 1]
    BY <1>4, <2>2 DEF ReadVersion
  <2>4. \A w \in Versions : w \in versionRows <=> w < k + 1
    BY <2>1 DEF Versions
  <2>5. pc' = [pc EXCEPT ![p] = IF k + 1 >= NumVersions THEN "commit" ELSE "steps"]
    BY <1>4, <2>2 DEF ReadVersion, GoTo
  <2>6. TypeOK'
    BY <1>4, <2>3, <2>5 DEF TypeOK, PCs, ReadVersion
  <2>7. SchemaMatchesVersions' /\ RowsArePrefix'
    BY <1>4 DEF SchemaMatchesVersions, RowsArePrefix, ReadVersion
  <2>8. LockHeld'
    BY <1>4, <2>5 DEF TypeOK, LockHeld, ReadVersion
  <2>9. ReadIsCurrent'
    BY <1>4, <2>3, <2>4, <2>5 DEF TypeOK, ReadIsCurrent, ReadVersion
  <2>10. TxContents'
    <3>1. k + 1 < NumVersions => k + 1 \in Versions /\ 0 <= StepsOf[k + 1]
      BY DEF Versions
    <3> QED BY <1>4, <2>3, <2>5, <3>1 DEF TypeOK, TxContents, ReadVersion
  <2>11. ExitsAreCurrent'
    BY <1>4, <2>3, <2>5 DEF TypeOK, ExitsAreCurrent, ReadVersion
  <2> QED BY <2>6, <2>7, <2>8, <2>9, <2>10, <2>11 DEF IInv
<1>5. ASSUME NEW p \in Procs, RunStep(p) PROVE IInv'
  <2>1. TypeOK'
    BY <1>5 DEF TypeOK, PCs, RunStep, GoTo
  <2>2. SchemaMatchesVersions' /\ RowsArePrefix'
    BY <1>5 DEF SchemaMatchesVersions, RowsArePrefix, RunStep
  <2>3. LockHeld'
    BY <1>5 DEF TypeOK, LockHeld, RunStep, GoTo
  <2>4. ReadIsCurrent'
    BY <1>5 DEF TypeOK, ReadIsCurrent, RunStep, GoTo
  <2>5. TxContents'
    BY <1>5 DEF TypeOK, TxContents, RunStep, GoTo
  <2>6. ExitsAreCurrent'
    BY <1>5 DEF TypeOK, ExitsAreCurrent, RunStep, GoTo
  <2> QED BY <2>1, <2>2, <2>3, <2>4, <2>5, <2>6 DEF IInv
<1>6. ASSUME NEW p \in Procs, InsertVersion(p) PROVE IInv'
  <2>1. TypeOK'
    BY <1>6 DEF TypeOK, PCs, InsertVersion, GoTo, ReleaseLock
  <2>2. SchemaMatchesVersions' /\ RowsArePrefix'
    BY <1>6 DEF SchemaMatchesVersions, RowsArePrefix, InsertVersion
  <2>3. LockHeld'
    BY <1>6 DEF TypeOK, LockHeld, InsertVersion, GoTo, ReleaseLock
  <2>4. ReadIsCurrent'
    BY <1>6 DEF TypeOK, ReadIsCurrent, InsertVersion, GoTo, ReleaseLock
  <2>5. TxContents'
    BY <1>6 DEF TypeOK, TxContents, InsertVersion, GoTo, ReleaseLock
  <2>6. ExitsAreCurrent'
    BY <1>6 DEF TypeOK, ExitsAreCurrent, InsertVersion, GoTo, ReleaseLock
  <2> QED BY <2>1, <2>2, <2>3, <2>4, <2>5, <2>6 DEF IInv
<1>7. ASSUME NEW p \in Procs, Commit(p) PROVE IInv'
  <2>1. lock = p /\ \A q \in Procs : q # p => pc[q] \notin {"read", "steps", "insert", "commit"}
    BY <1>7 DEF LockHeld, Commit
  <2>2. CASE ~rowInserted[p]
    <3>1. versionRows' = versionRows /\ schema' = schema
      BY <1>7, <2>2 DEF Commit
    <3>2. versionRows = Versions
      <4>1. pc[p] = "commit"
        BY <1>7 DEF Commit
      <4>2. nextVersion[p] >= NumVersions /\ nextVersion[p] \in Nat
        BY <2>2, <4>1 DEF TxContents, TypeOK
      <4>3. \A w \in Versions : w \in versionRows <=> w < nextVersion[p]
        BY <4>1 DEF ReadIsCurrent
      <4>4. \A w \in Versions : w < nextVersion[p]
        BY <4>2 DEF Versions
      <4>5. versionRows \subseteq Versions
        BY DEF TypeOK
      <4> QED BY <4>3, <4>4, <4>5
    <3>3. TypeOK'
      BY <1>7, <3>1 DEF TypeOK, PCs, Commit, GoTo, ReleaseLock
    <3>4. SchemaMatchesVersions' /\ RowsArePrefix'
      BY <3>1 DEF SchemaMatchesVersions, RowsArePrefix
    <3>5. LockHeld' /\ ReadIsCurrent' /\ TxContents'
      BY <1>7, <2>1 DEF TypeOK, LockHeld, ReadIsCurrent, TxContents, Commit, GoTo, ReleaseLock
    <3>6. ExitsAreCurrent'
      BY <1>7, <3>1, <3>2 DEF TypeOK, ExitsAreCurrent, Commit, GoTo
    <3> QED BY <3>3, <3>4, <3>5, <3>6 DEF IInv
  <2>3. CASE rowInserted[p]
    <3> DEFINE n == nextVersion[p]
    <3>1. /\ n \in Versions /\ stepsRun[p] = StepsOf[n]
          /\ \A w \in Versions : w \in versionRows <=> w < n
      <4>1. pc[p] = "commit"
        BY <1>7 DEF Commit
      <4>2. n \in Versions /\ stepsRun[p] = StepsOf[n]
        BY <2>3, <4>1 DEF TxContents
      <4> QED BY <4>1, <4>2 DEF ReadIsCurrent
    <3>2. versionRows' = versionRows \cup {n} /\ schema' = [schema EXCEPT ![n] = @ + stepsRun[p]]
      BY <1>7, <2>3 DEF Commit
    <3>3. versionRows' = 0 .. n
      <4>1. \A w \in Versions : w \in versionRows' <=> w <= n
        BY <3>1, <3>2 DEF Versions
      <4>2. versionRows' \subseteq Versions
        BY <3>1, <3>2 DEF TypeOK
      <4>3. \A w : w \in 0 .. n <=> w \in Versions /\ w <= n
        BY <3>1 DEF Versions
      <4> QED BY <4>1, <4>2, <4>3
    <3>4. TypeOK'
      BY <1>7, <3>1, <3>2 DEF TypeOK, PCs, Commit, GoTo, ReleaseLock
    <3>5. SchemaMatchesVersions'
      BY <3>1, <3>2 DEF TypeOK, SchemaMatchesVersions
    <3>6. RowsArePrefix'
      BY <3>1, <3>3 DEF RowsArePrefix, Versions
    <3>7. LockHeld' /\ ReadIsCurrent' /\ TxContents'
      BY <1>7, <2>1 DEF TypeOK, LockHeld, ReadIsCurrent, TxContents, Commit, GoTo, ReleaseLock
    <3>8. ExitsAreCurrent'
      <4>1. n + 1 >= NumVersions => versionRows' = Versions
        BY <3>1, <3>3 DEF Versions
      <4>2. \A q \in Procs : (pc[q] = "done" \/ (pc[q] = "loop" /\ nextVersion[q] >= NumVersions))
                               => versionRows' = Versions
        BY <3>1, <3>2 DEF ExitsAreCurrent
      <4> QED BY <1>7, <4>1, <4>2 DEF TypeOK, ExitsAreCurrent, Commit, GoTo
    <3> QED BY <3>4, <3>5, <3>6, <3>7, <3>8 DEF IInv
  <2> QED BY <2>2, <2>3
<1>8. ASSUME NEW p \in Procs, Fault(p) PROVE IInv'
  <2>1. TypeOK'
    BY <1>8 DEF TypeOK, PCs, Fault, InTx, GoTo, ReleaseLock
  <2>2. SchemaMatchesVersions' /\ RowsArePrefix'
    BY <1>8 DEF SchemaMatchesVersions, RowsArePrefix, Fault
  <2>3. LockHeld'
    BY <1>8 DEF TypeOK, LockHeld, Fault, InTx, GoTo, ReleaseLock
  <2>4. ReadIsCurrent'
    BY <1>8 DEF TypeOK, ReadIsCurrent, Fault, InTx, GoTo, ReleaseLock
  <2>5. TxContents'
    BY <1>8 DEF TypeOK, TxContents, Fault, InTx, GoTo, ReleaseLock
  <2>6. ExitsAreCurrent'
    BY <1>8 DEF TypeOK, ExitsAreCurrent, Fault, InTx, GoTo, ReleaseLock
  <2> QED BY <2>1, <2>2, <2>3, <2>4, <2>5, <2>6 DEF IInv
<1>9. ASSUME NEW p \in Procs, Restart(p) PROVE IInv'
  <2>1. TypeOK'
    BY <1>9 DEF TypeOK, PCs, Restart, GoTo
  <2>2. SchemaMatchesVersions' /\ RowsArePrefix'
    BY <1>9 DEF SchemaMatchesVersions, RowsArePrefix, Restart
  <2>3. LockHeld'
    BY <1>9 DEF TypeOK, LockHeld, Restart, GoTo
  <2>4. ReadIsCurrent'
    BY <1>9 DEF TypeOK, ReadIsCurrent, Restart, GoTo
  <2>5. TxContents'
    BY <1>9 DEF TypeOK, TxContents, Restart, GoTo
  <2>6. ExitsAreCurrent'
    BY <1>9 DEF TypeOK, ExitsAreCurrent, Restart, GoTo
  <2> QED BY <2>1, <2>2, <2>3, <2>4, <2>5, <2>6 DEF IInv
<1>10. ASSUME UNCHANGED vars PROVE IInv'
  BY <1>10 DEF IInv, TypeOK, PCs, SchemaMatchesVersions, RowsArePrefix, LockHeld,
               ReadIsCurrent, TxContents, ExitsAreCurrent, vars
<1> QED
  BY <1>1, <1>2, <1>3, <1>4, <1>5, <1>6, <1>7, <1>8, <1>9, <1>10 DEF Next, Run, Finished

LEMMA IInvInit == Init => IInv
<1> SUFFICES ASSUME Init PROVE IInv
  OBVIOUS
<1>1. versionRows = 0 .. -1
  BY DEF Init
<1>2. RowsArePrefix
  BY <1>1, MigrationAssumption DEF RowsArePrefix
<1> QED
  BY <1>2, MigrationAssumption
  DEF Init, IInv, TypeOK, PCs, Versions, SchemaMatchesVersions, LockHeld,
      ReadIsCurrent, TxContents, ExitsAreCurrent

LEMMA IInvHolds == Spec => []IInv
<1> QED BY IInvInit, IInvStep, PTL DEF Spec

\* The variables of Migrate and of the database keep their types.
THEOREM MigrationTypeCorrect == Spec => []TypeOK
<1>1. IInv => TypeOK
  BY DEF IInv
<1> QED BY <1>1, IInvHolds, PTL

\* However many processes migrate, crash and restart, the version table and the
\* schema agree: every version with a row has run each of its steps exactly once.
THEOREM MigrationSchemaMatches == Spec => []SchemaMatchesVersions
<1>1. IInv => SchemaMatchesVersions
  BY DEF IInv
<1> QED BY <1>1, IInvHolds, PTL

\* Versions are entered in order, with no gap.
THEOREM MigrationNoGaps == Spec => []NoGaps
<1>1. IInv => NoGaps
  BY MigrationAssumption DEF IInv, RowsArePrefix, NoGaps, Versions
<1> QED BY <1>1, IInvHolds, PTL

\* Migrate returns nil only when the database is at the newest version.
THEOREM MigrationDoneMeansCurrent == Spec => []DoneMeansCurrent
<1>1. IInv => DoneMeansCurrent
  BY DEF IInv, ExitsAreCurrent, DoneMeansCurrent
<1> QED BY <1>1, IInvHolds, PTL

\* Concurrent runs of Migrate never collide on the unique version column.
THEOREM MigrationNoDuplicateVersion == Spec => []NoDuplicateVersion
<1>1. IInv => NoDuplicateVersion
  BY MigrationAssumption DEF IInv, TypeOK, TxContents, ReadIsCurrent, NoDuplicateVersion, Versions
<1> QED BY <1>1, IInvHolds, PTL

\* What the run of Migration checks, for any number of processes, steps and faults.
THEOREM MigrationIsSafe == Spec => []MigrationSafe
<1>1. TypeOK /\ SchemaMatchesVersions /\ NoGaps /\ DoneMeansCurrent /\ NoDuplicateVersion => MigrationSafe
  BY DEF MigrationSafe
<1> QED
  BY <1>1, MigrationTypeCorrect, MigrationSchemaMatches, MigrationNoGaps, MigrationDoneMeansCurrent,
     MigrationNoDuplicateVersion, PTL

\* A commit enters the version after the current one, or none.
LEMMA HistoryStep ==
    ASSUME IInv, [Next]_vars
    PROVE  [History!Next]_CurrentVersion
<1>1. CASE UNCHANGED versionRows
  BY <1>1 DEF CurrentVersion
<1>2. ASSUME NEW p \in Procs, Commit(p), rowInserted[p] PROVE History!Next
  <2> DEFINE v == nextVersion[p]
  <2>1. PICK k \in -1 .. NumVersions - 1 : versionRows = 0 .. k
    BY DEF IInv, RowsArePrefix
  <2>2. v \in Versions /\ \A w \in Versions : w \in versionRows <=> w < v
    BY <1>2 DEF Commit, IInv, TxContents, ReadIsCurrent
  <2>3. versionRows' = versionRows \cup {v}
    BY <1>2 DEF Commit
  <2> HIDE DEF v
  <2>4. v \in Int /\ 0 <= v /\ v < NumVersions
    BY <2>2, MigrationAssumption DEF Versions
  <2>5. k = v - 1
    <3>1. CASE k = -1
      <4>1. 0 \in Versions /\ 0 \notin versionRows
        BY <2>1, <2>4, <3>1, MigrationAssumption DEF Versions
      <4>2. ~(0 < v)
        BY <2>2, <4>1
      <4> QED BY <2>4, <3>1, <4>2
    <3>2. CASE k # -1
      <4>1. k \in Versions /\ k \in versionRows
        BY <2>1, <3>2, MigrationAssumption DEF Versions
      <4>2. k < v
        BY <2>2, <4>1
      <4>3. CASE k + 1 = v
        BY <2>4, <4>3
      <4>4. CASE k + 1 # v
        <5>1. k + 1 \in Versions /\ k + 1 < v
          BY <2>4, <4>1, <4>2, <4>4, MigrationAssumption DEF Versions
        <5>2. k + 1 \in versionRows
          BY <2>2, <5>1
        <5> QED BY <2>1, <5>2
      <4> QED BY <4>3, <4>4
    <3> QED BY <3>1, <3>2
  <2>6. versionRows' = 0 .. v
    BY <2>1, <2>3, <2>4, <2>5
  <2>7. CurrentVersion = v - 1
    BY <2>1, <2>5, CurrentVersionIs
  <2>8. CurrentVersion' = v
    <3>1. v \in versionRows' /\ \A w \in versionRows' : w <= v
      BY <2>4, <2>6
    <3>2. \A u \in versionRows' : (\A w \in versionRows' : w <= u) => u = v
      BY <2>4, <2>6, <3>1
    <3>3. versionRows' # {}
      BY <3>1
    <3> QED BY <3>1, <3>2, <3>3 DEF CurrentVersion
  <2> QED BY <2>4, <2>7, <2>8 DEF History!Next, History!Upgrade
<1>3. UNCHANGED versionRows \/ \E p \in Procs : Commit(p) /\ rowInserted[p]
  BY DEF Next, Run, Start, Begin, AcquireLock, ReadVersion, RunStep, InsertVersion, Commit, Restart,
         Fault, Finished, vars
<1> QED BY <1>1, <1>2, <1>3

\* Whoever migrates and wherever it is interrupted, the newest version of the database starts
\* at none and only ever moves one version up, all of its steps with it: the safety part of
\* ImplementsHistory (that it gets to the end is fairness, and left to the model checker).
THEOREM MigrationFollowsHistory == Spec => History!Init /\ [][History!Next]_CurrentVersion
<1>1. Init => History!Init
  BY DEF Init, History!Init, CurrentVersion
<1>2. IInv /\ [Next]_vars => [History!Next]_CurrentVersion
  BY HistoryStep
<1> QED BY <1>1, <1>2, IInvHolds, PTL DEF Spec

-------------------------------------------------------------------------------
(* Deployments: the choice of the current controller *)

\* A set of naturals that is not empty has a smallest element.
LEMMA SmallestElement ==
    ASSUME NEW T \in SUBSET Nat, T # {}
    PROVE  \E x \in T : \A y \in T : x <= y
<1>1. PICK x \in T : \A y \in T : ~(<<y, x>> \in OpToRel(<, Nat))
  BY NatLessThanWellFounded, WFMin
<1>2. \A y \in T : ~(y < x)
  BY <1>1 DEF OpToRel
<1> QED  BY <1>2

\* A set of naturals with a bound has a largest element.
LEMMA LargestElement ==
    ASSUME NEW T \in SUBSET Nat, T # {}, NEW b \in Nat, \A y \in T : y <= b
    PROVE  Max(T) \in T /\ \A y \in T : y <= Max(T)
<1> DEFINE D == {b - y : y \in T}
<1>1. D \in SUBSET Nat /\ D # {}
  <2>1. \A y \in T : b - y \in Nat
    OBVIOUS
  <2> QED  BY <2>1
<1>2. PICK d \in D : \A e \in D : d <= e
  <2> HIDE DEF D
  <2> QED  BY <1>1, SmallestElement
<1>3. PICK x \in T : d = b - x
  OBVIOUS
<1>4. \A y \in T : x >= y
  <2> TAKE y \in T
  <2>1. d <= b - y
    BY <1>2
  <2> QED  BY <1>3, <2>1
<1>5. Max(T) \in T /\ \A y \in T : Max(T) >= y
  BY <1>4 DEF Max
<1> QED  BY <1>5

\* The loop of getMostRecentByDeploymentVersion, over controllers with different versions in any
\* order, ends with the one of the largest version.
LEMMA NewestIsKept ==
    ASSUME NEW n \in Nat, NEW b \in Nat, NEW order, DOMAIN order = 1..n, None \notin Nat,
           \A i \in 1..n : order[i] # None /\ order[i].version \in Nat /\ order[i].version <= b,
           \A i, j \in 1..n : order[i].version = order[j].version => i = j
    PROVE  LET r == FoldLeft(Newer, None, order)
           IN  IF n = 0 THEN r = None
               ELSE \E i \in 1..n : r = order[i] /\ \A j \in 1..n : order[j].version <= order[i].version
<1> DEFINE Body(f) == [s \in SUBSET (1..n) |->
                         IF s = {} THEN None ELSE Newer(f[s \ {Max(s)}], order[Max(s)])]
           iter == CHOOSE f : f = Body(f)
           IsNewest(i, s) == i \in s /\ \A j \in s : order[j].version <= order[i].version
           newest(s) == CHOOSE i \in s : IsNewest(i, s)
           g == [s \in SUBSET (1..n) |-> IF s = {} THEN None ELSE order[newest(s)]]
<1>1. FoldLeft(Newer, None, order) = iter[1..n]
  BY DEF FoldLeft, MapThenFoldSet
<1>2. ASSUME NEW s \in SUBSET (1..n), s # {}
      PROVE  /\ Max(s) \in s /\ IsNewest(newest(s), s)
             /\ \A i \in s : IsNewest(i, s) => i = newest(s)
  <2>1. \A y \in s : y \in 1..n /\ y \in Nat /\ y <= n
    OBVIOUS
  <2>2. Max(s) \in s
    <3>1. s \in SUBSET Nat
      BY <2>1
    <3> QED  BY <1>2, <2>1, <3>1, LargestElement
  <2> DEFINE V == {order[i].version : i \in s}
  <2>3. V \in SUBSET Nat /\ V # {} /\ \A v \in V : v <= b
    <3>1. \A i \in s : order[i].version \in Nat /\ order[i].version <= b
      BY <2>1
    <3>2. V \in SUBSET Nat /\ \A v \in V : v <= b
      BY <3>1
    <3>3. PICK i \in s : TRUE
      BY <1>2
    <3>4. order[i].version \in V
      OBVIOUS
    <3> QED  BY <3>2, <3>4
  <2>4. Max(V) \in V /\ \A v \in V : v <= Max(V)
    <3> HIDE DEF V
    <3> QED  BY <2>3, LargestElement
  <2>5. PICK i \in s : order[i].version = Max(V)
    BY <2>4
  <2>6. IsNewest(i, s)
    BY <2>4, <2>5
  <2>7. IsNewest(newest(s), s)
    <3> HIDE DEF IsNewest
    <3> QED  BY <2>6
  <2>8. ASSUME NEW j \in s, IsNewest(j, s)
        PROVE  j = newest(s)
    <3> DEFINE k == newest(s)
    <3>1. k \in s /\ k \in 1..n /\ j \in 1..n
      BY <1>2, <2>7
    <3> HIDE DEF k
    <3>2. order[j].version <= order[k].version /\ order[k].version <= order[j].version
      BY <2>7, <2>8, <3>1 DEF k
    <3>3. order[j].version = order[k].version
      BY <3>1, <3>2
    <3> QED  BY <3>1, <3>3 DEF k
  <2> QED  BY <2>2, <2>7, <2>8
<1> HIDE DEF newest
<1>3. g = Body(g)
  <2>1. ASSUME NEW s \in SUBSET (1..n)
        PROVE  g[s] = Body(g)[s]
    <3>1. CASE s = {}
      BY <3>1
    <3>2. CASE s # {}
      <4> DEFINE m == Max(s)
                 t == s \ {m}
                 k == newest(s)
      <4>1. m \in s /\ IsNewest(k, s) /\ \A i \in s : IsNewest(i, s) => i = k
        BY <1>2, <3>2
      <4>2. t \in SUBSET (1..n) /\ g[s] = order[k] /\ Body(g)[s] = Newer(g[t], order[m])
        BY <3>2
      <4> HIDE DEF m
      <4>3. m \in 1..n /\ order[m].version \in Nat
        BY <4>1
      <4>4. CASE t = {}
        <5>1. g[t] = None /\ k = m
          BY <4>1, <4>4
        <5>2. Newer(g[t], order[m]) = order[m]
          BY <5>1 DEF Newer
        <5> QED  BY <4>2, <5>1, <5>2
      <4>5. CASE t # {}
        <5> DEFINE a == newest(t)
        <5>1. IsNewest(a, t) /\ g[t] = order[a]
          BY <1>2, <4>2, <4>5
        <5> HIDE DEF a, g, Body, k
        <5>2. a \in s /\ a \in 1..n /\ order[a].version \in Nat /\ order[a] # None /\ order[a].version # None /\ order[m].version # None
          BY <4>3, <5>1
        <5>3. Newer(g[t], order[m]) = IF order[m].version > order[a].version THEN order[m] ELSE order[a]
          BY <5>1, <5>2 DEF Newer
        <5>4. CASE order[m].version > order[a].version
          <6>1. IsNewest(m, s)
            <7> SUFFICES ASSUME NEW j \in s PROVE order[j].version <= order[m].version
              BY <4>1
            <7>1. CASE j = m
              BY <4>3, <7>1
            <7>2. CASE j # m
              <8>1. order[j].version <= order[a].version /\ order[j].version \in Nat
                BY <5>1, <7>2
              <8> QED  BY <4>3, <5>2, <5>4, <8>1
            <7> QED  BY <7>1, <7>2
          <6> QED  BY <4>1, <4>2, <5>3, <5>4, <6>1
        <5>5. CASE ~(order[m].version > order[a].version)
          <6>1. IsNewest(a, s)
            <7> SUFFICES ASSUME NEW j \in s PROVE order[j].version <= order[a].version
              BY <5>2
            <7>1. CASE j = m
              BY <4>3, <5>2, <5>5, <7>1
            <7>2. CASE j # m
              BY <5>1, <7>2
            <7> QED  BY <7>1, <7>2
          <6> QED  BY <4>1, <4>2, <5>2, <5>3, <5>5, <6>1
        <5> QED  BY <5>4, <5>5
      <4> QED  BY <4>4, <4>5
    <3> QED  BY <3>1, <3>2
  <2> HIDE DEF newest
  <2> QED  BY <2>1
<1> HIDE DEF g
<1>4. iter = Body(iter)
  BY <1>3
<1> HIDE DEF iter
<1>5. \A k \in 0..n : iter[1..k] = g[1..k]
  <2> DEFINE Wrong == {k \in 0..n : iter[1..k] # g[1..k]}
  <2>1. SUFFICES ASSUME Wrong # {} PROVE FALSE
    OBVIOUS
  <2>2. PICK k \in Wrong : \A j \in Wrong : k <= j
    <3>1. Wrong \in SUBSET Nat
      OBVIOUS
    <3> HIDE DEF Wrong
    <3> QED  BY <2>1, <3>1, SmallestElement
  <2>3. k \in 0..n /\ iter[1..k] # g[1..k] /\ 1..k \in SUBSET (1..n)
    OBVIOUS
  <2>4. iter[1..k] = Body(iter)[1..k] /\ g[1..k] = Body(g)[1..k]
    BY <1>3, <1>4
  <2>5. CASE k = 0
    <3>1. 1..k = {}
      BY <2>5
    <3> QED  BY <2>3, <2>4, <3>1
  <2>6. CASE k # 0
    <3>1. k \in 1..k /\ k - 1 \in 0..n /\ ~(k <= k - 1) /\ 1..k # {}
      <4> HIDE DEF Body, iter, g, Wrong
      <4>1. k \in Nat \ {0} /\ k <= n
        BY <2>3, <2>6
      <4>2. k \in 1..k
        BY <4>1
      <4>3. k - 1 \in 0..n /\ ~(k <= k - 1)
        BY <4>1
      <4> QED  BY <4>2, <4>3
    <3>2. Max(1..k) = k
      <4>1. 1..k \in SUBSET Nat /\ k \in Nat /\ \A y \in 1..k : y <= k
        BY <2>3
      <4>2. Max(1..k) \in 1..k /\ \A y \in 1..k : y <= Max(1..k)
        BY <3>1, <4>1, LargestElement
      <4> QED  BY <3>1, <4>1, <4>2
    <3>3. (1..k) \ {k} = 1..(k - 1)
      BY <2>3
    <3>4. iter[1..(k - 1)] = g[1..(k - 1)]
      BY <2>2, <3>1
    <3>5. Body(iter)[1..k] = Newer(iter[1..(k - 1)], order[k]) /\ Body(g)[1..k] = Newer(g[1..(k - 1)], order[k])
      BY <2>3, <3>1, <3>2, <3>3
    <3> QED  BY <2>3, <2>4, <3>4, <3>5
  <2> QED  BY <2>5, <2>6
<1>6. FoldLeft(Newer, None, order) = g[1..n]
  BY <1>1, <1>5
<1>7. CASE n = 0
  <2>1. g[1..n] = None
    BY <1>7 DEF g
  <2> QED  BY <1>6, <1>7, <2>1
<1>8. CASE n # 0
  <2>1. 1..n # {} /\ g[1..n] = order[newest(1..n)]
    BY <1>8 DEF g
  <2>2. IsNewest(newest(1..n), 1..n)
    BY <1>2, <2>1
  <2> QED  BY <1>6, <1>8, <2>1, <2>2
<1> QED  BY <1>7, <1>8

-------------------------------------------------------------------------------
(* Deployments: the inductive invariant. *)

\* Types of what the cluster and the requests hold.
OrNone(S) == S \cup {None}
ConfigType == [uid : 1..3, replicas : 0..MaxReplicas]
ControllerType ==
    [rank : Nat, created : 1..MaxRollOuts, owner : 1..3, version : Nat,
     phase : {"New", "Pending", "Running", "Complete", "Failed"}, replicas : 0..MaxReplicas]
ReferenceType == [created : 1..MaxRollOuts, owner : 1..3]
AllRules == GetBuildsRules \cup GetDeploymentRules \cup ScaleDeploymentRules
DRequestType ==
    [pc : {"idle", "builds", "config", "rcs", "pods", "answer", "getscale", "setscale"},
     op : OrNone({"get", "scale"}), name : OrNone(Names), uid : OrNone(1..3),
     current : OrNone(ReferenceType), floor : OrNone(ReferenceType), want : 0..MaxReplicas,
     scale : OrNone(0..MaxReplicas), fresh : BOOLEAN,
     calls : SUBSET AllRules]

\* The first deployment config of the application was deleted.
Ended(owner, D) == owner = 1 /\ (D[App] = None \/ D[App].uid # 1)

\* A controller that was read is there, or went with its deployment config.
KnownIn(x, R, D) == x = None \/ Ended(x.owner, D) \/ \E rc \in R : rc.owner = x.owner /\ rc.created = x.created

\* Deployment configs keep their names and uids.
ConfigsOK(D) ==
    /\ D \in [Names -> OrNone(ConfigType)]
    /\ \A n \in Names : D[n] # None => (D[n].uid = 2 <=> n = Other)

\* The controllers of a deployment config have the versions from 1 on, in the order they were
\* created.
VersionsAreCounted(R) ==
    /\ \A rc, o \in R : rc.owner = o.owner => (rc.created < o.created <=> rc.version < o.version)
    /\ \A u \in 1..3 : \E k \in Nat : {rc.version : rc \in ReplicationControllers(R, u)} = 1..k

\* Controllers are told apart by when they were created, and go with their config.
ControllersOK(R, D) ==
    /\ R \subseteq ControllerType
    /\ \A rc, o \in R : rc.created = o.created => rc = o
    /\ VersionsAreCounted(R)
    /\ \A rc \in R : ~Ended(rc.owner, D)

\* A request has the parameters of the step it is at, and has made calls of its kind.
InOrder(r) ==
    /\ r.pc \notin {"idle", "builds"} => r.name \in Names
    /\ r.pc = "builds" => r.op \in {"get", "scale"}
    /\ r.pc = "rcs" => r.uid # None
    /\ r.pc \in {"pods", "answer"} => r.current # None
    /\ r.pc \in {"getscale", "setscale"} => r.op = "scale"
    /\ r.pc \in {"config", "rcs", "pods", "answer"} => r.op = "get"
    /\ r.calls \subseteq GetBuildsRules \cup (IF r.op = "scale" THEN ScaleDeploymentRules ELSE GetDeploymentRules)

\* The controller that was shown before a request has found an earlier one has failed.
NoStepBack(r, R) ==
    /\ r.pc \in {"pods", "answer"} /\ r.floor # None
    /\ r.floor.owner = r.current.owner /\ r.current.created < r.floor.created
    => \A rc \in R : rc.owner = r.floor.owner /\ rc.created = r.floor.created => rc.phase = "Failed"

\* What has been read of the scale is current as long as nobody has changed the config.
ScaleIsCurrent(r, D) ==
    r.pc = "setscale" /\ r.fresh => D[r.name] # None /\ r.scale = D[r.name].replicas

\* What a request knows while the cluster moves under it.
RequestIsRight(r, R, D) ==
    /\ InOrder(r) /\ KnownIn(r.floor, R, D) /\ KnownIn(r.current, R, D)
    /\ NoStepBack(r, R) /\ ScaleIsCurrent(r, D)

\* The inductive invariant.
DInv ==
    /\ ConfigsOK(dcs) /\ ControllersOK(rcs, dcs)
    /\ builds \in Seq(Annotations) /\ Len(builds) <= MaxBuilds
    /\ req \in [Clients -> DRequestType]
    /\ \A c \in Clients : RequestIsRight(req[c], rcs, dcs)
    /\ shown \in OrNone(ReferenceType) /\ KnownIn(shown, rcs, dcs)
    /\ requests \in 0..MaxRequests
    /\ ScaleReportsWhatItReplaced

\* The controllers of a deployment config are as many as their versions.
LEMMA ControllersAreFinite ==
    ASSUME NEW R, NEW D, ControllersOK(R, D), NEW u \in 1..3, NEW k \in Nat,
           {rc.version : rc \in ReplicationControllers(R, u)} = 1..k,
           NEW C \in SUBSET ReplicationControllers(R, u)
    PROVE  /\ IsFiniteSet(C) /\ Cardinality(C) \in Nat
           /\ \A rc, o \in C : rc.version = o.version => rc = o
           /\ \A rc \in C : rc.version \in 1..k
           /\ C = ReplicationControllers(R, u) => Cardinality(C) = k
<1> DEFINE f == [rc \in C |-> rc.version]
<1>1. \A rc \in C : rc \in R /\ rc.owner = u /\ rc \in ControllerType
  BY DEF ReplicationControllers, ControllersOK
<1>2. \A rc \in C : rc.version \in 1..k
  OBVIOUS
<1>3. ASSUME NEW rc \in C, NEW o \in C, rc.version = o.version
      PROVE  rc = o
  <2>1. rc.created \in Nat /\ o.created \in Nat /\ rc.version \in Nat /\ rc.owner = o.owner
    BY <1>1, DeploymentsAssumption DEF ControllerType
  <2>2. ~(rc.created < o.created) /\ ~(o.created < rc.created)
    BY <1>1, <1>3, <2>1 DEF ControllersOK, VersionsAreCounted
  <2>3. rc.created = o.created
    BY <2>1, <2>2
  <2> QED  BY <1>1, <2>3 DEF ControllersOK
<1>4. f \in Injection(C, 1..k)
  BY <1>2, <1>3 DEF Injection, IsInjective
<1>5. IsFiniteSet(1..k) /\ Cardinality(1..k) = k
  BY FS_Interval
<1>6. IsFiniteSet(C) /\ Cardinality(C) \in Nat
  BY <1>4, <1>5, FS_Injection, FS_CardinalityType
<1>7. ASSUME C = ReplicationControllers(R, u)
      PROVE  Cardinality(C) = k
  <2>1. f \in Surjection(C, 1..k)
    <3>1. ASSUME NEW v \in 1..k
          PROVE  \E rc \in C : f[rc] = v
      BY <1>7, <3>1
    <3> QED  BY <1>2, <3>1 DEF Surjection
  <2> QED  BY <1>4, <1>5, <2>1, FS_Injection
<1> QED  BY <1>2, <1>3, <1>6, <1>7

\* getCurrentDeployment: the candidate with the largest version, if there is one.
LEMMA CurrentIsFound ==
    ASSUME NEW R, NEW D, ControllersOK(R, D), NEW u \in 1..3, NEW current \in CurrentDeployments(R, u)
    PROVE  \/ current = None
           \/ /\ current \in Candidates(ReplicationControllers(R, u))
              /\ \A o \in Candidates(ReplicationControllers(R, u)) : o.version <= current.version
<1> DEFINE C == Candidates(ReplicationControllers(R, u))
           n == Cardinality(C)
<1>1. PICK k \in Nat : {rc.version : rc \in ReplicationControllers(R, u)} = 1..k
  BY DEF ControllersOK, VersionsAreCounted
<1>2. C \in SUBSET ReplicationControllers(R, u) /\ C \subseteq ControllerType
  BY DEF Candidates, Active, ReplicationControllers, ControllersOK
<1>3. PICK order \in SetToSeqs(C) : current = FoldLeft(Newer, None, order)
  BY DEF CurrentDeployments
<1> HIDE DEF C
<1>4. /\ IsFiniteSet(C) /\ n \in Nat
      /\ \A rc, o \in C : rc.version = o.version => rc = o
      /\ \A rc \in C : rc.version \in 1..k
  BY <1>1, <1>2, ControllersAreFinite
<1>5. order \in [1..n -> C] /\ \A i, j \in 1..n : i # j => order[i] # order[j]
  BY <1>3 DEF SetToSeqs
<1>6. \A o \in C : \E i \in 1..n : order[i] = o
  <2>1. order \in Injection(1..n, C)
    BY <1>5 DEF Injection, IsInjective
  <2>2. IsFiniteSet(1..n) /\ Cardinality(1..n) = n
    BY <1>4, FS_Interval
  <2>3. order \in Surjection(1..n, C)
    BY <1>4, <2>1, <2>2, FS_Injection
  <2> QED  BY <2>3 DEF Surjection
<1>7. \A rc \in C : rc # None /\ rc.version \in Nat /\ rc.version <= k
  <2> DEFINE AnyController == [rank : Nat, created : Nat, owner : Nat, version : Nat,
                               phase : {"New", "Pending", "Running", "Complete", "Failed"}, replicas : Nat]
  <2>1. \A rc \in C : rc \in AnyController
    <3> SUFFICES ASSUME NEW rc \in C
                 PROVE  rc \in AnyController
      OBVIOUS
    <3>1. 1..MaxRollOuts \subseteq Nat /\ 0..MaxReplicas \subseteq Nat /\ 1..3 \subseteq Nat
      BY DeploymentsAssumption
    <3>3. rc \in ControllerType
      BY <1>2
    <3> QED  BY <3>1, <3>3 DEF ControllerType
  <2>2. None \notin AnyController
    BY DeploymentsAssumption
  <2>3. \A rc \in C : rc # None
    BY <2>1, <2>2
  <2> QED  BY <1>4, <2>3
<1> HIDE DEF n
<1>8. /\ \A i \in 1..n : order[i] # None /\ order[i].version \in Nat /\ order[i].version <= k
      /\ \A i, j \in 1..n : order[i].version = order[j].version => i = j
      /\ DOMAIN order = 1..n
  BY <1>4, <1>5, <1>7
<1>9. None \notin Nat
  BY DeploymentsAssumption
<1>10. IF n = 0 THEN current = None
       ELSE \E i \in 1..n : current = order[i] /\ \A j \in 1..n : order[j].version <= order[i].version
  BY <1>3, <1>4, <1>8, <1>9, NewestIsKept
<1>11. CASE n = 0
  BY <1>10, <1>11
<1>12. CASE n # 0
  <2>1. PICK i \in 1..n : current = order[i] /\ \A j \in 1..n : order[j].version <= order[i].version
    BY <1>10, <1>12
  <2> QED  BY <1>5, <1>6, <2>1 DEF C
<1> QED  BY <1>11, <1>12

\* A controller that is later than the current one has failed: one that is being rolled out is
\* a candidate, and so is the completed one that was created last.
LEMMA LaterHasFailed ==
    ASSUME NEW R, NEW D, ControllersOK(R, D), NEW u \in 1..3, NEW current \in CurrentDeployments(R, u),
           current # None, NEW rc \in R, rc.owner = u, current.created < rc.created
    PROVE  rc.phase = "Failed"
<1> DEFINE M == ReplicationControllers(R, u)
           done == {o \in M : o.phase = "Complete"}
           T == {o.created : o \in done}
<1>1. /\ current \in Candidates(M)
      /\ \A o \in Candidates(M) : o.version <= current.version
  BY CurrentIsFound
<1>2. \A o \in M : o \in R /\ o.owner = u /\ o \in ControllerType /\ o.created \in Nat /\ o.created <= MaxRollOuts /\ o.version \in Nat
  BY DeploymentsAssumption DEF ControllersOK, ControllerType, ReplicationControllers
<1>3. rc \in M /\ current \in M
  BY <1>1 DEF ReplicationControllers, Candidates, Active
<1>4. \A o \in M : current.created < o.created => o \notin Candidates(M)
  <2> SUFFICES ASSUME NEW o \in M, current.created < o.created, o \in Candidates(M)
               PROVE  FALSE
    OBVIOUS
  <2>1. current.version < o.version
    BY <1>2, <1>3 DEF ControllersOK, VersionsAreCounted
  <2> QED  BY <1>1, <1>2, <1>3, <2>1
<1>5. rc.phase # "Complete"
  <2> SUFFICES ASSUME rc.phase = "Complete" PROVE FALSE
    OBVIOUS
  <2>1. T \in SUBSET Nat /\ rc.created \in T /\ \A x \in T : x <= MaxRollOuts
    BY <1>2, <1>3
  <2>2. Max(T) \in T /\ \A x \in T : x <= Max(T)
    <3> HIDE DEF T
    <3> QED  BY <2>1, LargestElement, DeploymentsAssumption
  <2>3. PICK last \in done : last.created = Max(T)
    BY <2>2
  <2>4. last \in Active(M)
    BY <2>2, <2>3 DEF Active
  <2>5. current.created < last.created
    <3>1. rc.created <= last.created
      BY <2>1, <2>2, <2>3
    <3> QED  BY <1>2, <1>3, <2>3, <3>1
  <2> QED  BY <1>4, <2>3, <2>4, <2>5 DEF Candidates
<1>6. ~IsVisible(rc)
  BY <1>3, <1>4 DEF Candidates
<1> QED  BY <1>2, <1>3, <1>5, <1>6 DEF IsVisible, ControllerType

\* What the cluster may do to the controllers: they are only removed with the first deployment
\* config, which is not rolled out again; failed ones stay so, and new ones are created later.
Keeps(R, D, R2, D2) ==
    /\ \A u \in 1..3 : Ended(u, D) => Ended(u, D2)
    /\ \A rc \in R : Ended(rc.owner, D2) \/ \E o \in R2 : o.owner = rc.owner /\ o.created = rc.created
    /\ \A o \in R2 :
        \/ \E rc \in R : rc.owner = o.owner /\ rc.created = o.created /\ (rc.phase = "Failed" => o.phase = "Failed")
        \/ ~Ended(o.owner, D) /\ \A rc \in R : rc.created < o.created

\* What is known stays known.
LEMMA KnownStays ==
    ASSUME NEW R, NEW D, NEW R2, NEW D2, Keeps(R, D, R2, D2), NEW x \in OrNone(ReferenceType), KnownIn(x, R, D)
    PROVE  KnownIn(x, R2, D2)
<1>1. CASE x = None
  BY <1>1 DEF KnownIn
<1>2. CASE x # None
  <2>1. x.owner \in 1..3
    BY <1>2 DEF OrNone, ReferenceType
  <2>2. CASE Ended(x.owner, D)
    BY <2>1, <2>2 DEF Keeps, KnownIn
  <2>3. CASE \E rc \in R : rc.owner = x.owner /\ rc.created = x.created
    <3>1. PICK rc \in R : rc.owner = x.owner /\ rc.created = x.created
      BY <2>3
    <3>2. Ended(rc.owner, D2) \/ \E o \in R2 : o.owner = rc.owner /\ o.created = rc.created
      BY DEF Keeps
    <3> QED  BY <3>1, <3>2 DEF KnownIn
  <2> QED  BY <1>2, <2>2, <2>3 DEF KnownIn
<1> QED  BY <1>1, <1>2

\* What has been read is no longer current.
OutOfDate(r) == [r EXCEPT !.fresh = FALSE]

\* A request that the cluster moves under stays right, if what it has read of a config that has
\* changed is out of date.
LEMMA RequestStays ==
    ASSUME NEW R, NEW D, NEW R2, NEW D2, Keeps(R, D, R2, D2), R \subseteq ControllerType,
           NEW r \in DRequestType, RequestIsRight(r, R, D),
           NEW q, q = r \/ q = OutOfDate(r),
           q.fresh /\ r.name \in Names /\ D[r.name] # None => D2[r.name] = D[r.name]
    PROVE  q \in DRequestType /\ RequestIsRight(q, R2, D2)
<1>1. q \in DRequestType
  BY DEF DRequestType, OutOfDate
<1>2. /\ q.pc = r.pc /\ q.op = r.op /\ q.name = r.name /\ q.uid = r.uid /\ q.current = r.current
      /\ q.floor = r.floor /\ q.scale = r.scale /\ q.calls = r.calls
  BY DEF DRequestType, OutOfDate
<1>3. q.fresh => r.fresh
  BY DEF DRequestType, OutOfDate
<1>4. InOrder(q)
  BY <1>2 DEF RequestIsRight, InOrder
<1>5. KnownIn(q.floor, R2, D2) /\ KnownIn(q.current, R2, D2)
  <2>1. r.floor \in OrNone(ReferenceType) /\ r.current \in OrNone(ReferenceType)
    BY DEF DRequestType
  <2> QED  BY <1>2, <2>1, KnownStays DEF RequestIsRight
<1>6. NoStepBack(q, R2)
  <2> SUFFICES ASSUME q.pc \in {"pods", "answer"}, q.floor # None,
                      q.floor.owner = q.current.owner, q.current.created < q.floor.created,
                      NEW o \in R2, o.owner = q.floor.owner, o.created = q.floor.created
               PROVE  o.phase = "Failed"
    BY DEF NoStepBack
  <2>1. q.floor \in ReferenceType
    BY <1>1 DEF DRequestType, OrNone
  <2>2. \A rc \in R : rc.owner = q.floor.owner /\ rc.created = q.floor.created => rc.phase = "Failed"
    BY <1>2 DEF RequestIsRight, NoStepBack
  <2>3. CASE \E rc \in R : rc.owner = o.owner /\ rc.created = o.created /\ (rc.phase = "Failed" => o.phase = "Failed")
    BY <2>2, <2>3
  <2>4. CASE ~Ended(o.owner, D) /\ \A rc \in R : rc.created < o.created
    <3>1. PICK rc \in R : rc.owner = q.floor.owner /\ rc.created = q.floor.created
      BY <1>2, <2>4 DEF RequestIsRight, KnownIn
    <3>2. rc.created < rc.created /\ rc.created \in Int
      BY <2>4, <3>1 DEF ControllerType
    <3> QED  BY <3>2
  <2> QED  BY <2>3, <2>4 DEF Keeps
<1>7. ScaleIsCurrent(q, D2)
  <2> SUFFICES ASSUME q.pc = "setscale", q.fresh
               PROVE  D2[q.name] # None /\ q.scale = D2[q.name].replicas
    BY DEF ScaleIsCurrent
  <2>1. r.pc = "setscale" /\ r.fresh
    BY <1>2, <1>3
  <2>2. D[r.name] # None /\ r.scale = D[r.name].replicas
    BY <2>1 DEF RequestIsRight, ScaleIsCurrent
  <2>3. r.name \in Names
    BY <2>1 DEF RequestIsRight, InOrder
  <2> QED  BY <1>2, <2>2, <2>3
<1> QED  BY <1>1, <1>4, <1>5, <1>6, <1>7 DEF RequestIsRight

\* A step of the cluster.
LEMMA ClusterMoves ==
    ASSUME DInv, ConfigsOK(dcs'), ControllersOK(rcs', dcs'), Keeps(rcs, dcs, rcs', dcs'),
           builds' \in Seq(Annotations), Len(builds') <= MaxBuilds,
           UNCHANGED <<shown, scaled, requests>>,
           \/ req' = req /\ \A n \in Names : dcs[n] # None => dcs'[n] = dcs[n]
           \/ \E n \in Names : req' = Outdated(n) /\ \A m \in Names \ {n} : dcs'[m] = dcs[m]
    PROVE  DInv'
<1>1. /\ req \in [Clients -> DRequestType] /\ rcs \subseteq ControllerType
      /\ \A c \in Clients : req[c] \in DRequestType /\ RequestIsRight(req[c], rcs, dcs)
  BY DEF DInv, ControllersOK
<1>2. /\ req' \in [Clients -> DRequestType]
      /\ \A c \in Clients : RequestIsRight(req'[c], rcs', dcs')
  <2>1. CASE req' = req /\ \A n \in Names : dcs[n] # None => dcs'[n] = dcs[n]
    <3>1. ASSUME NEW c \in Clients
          PROVE  req[c] \in DRequestType /\ RequestIsRight(req[c], rcs', dcs')
      BY <1>1, <2>1, RequestStays
    <3> QED  BY <1>1, <2>1, <3>1
  <2>2. ASSUME NEW n \in Names, req' = Outdated(n), \A m \in Names \ {n} : dcs'[m] = dcs[m]
        PROVE  /\ req' \in [Clients -> DRequestType]
               /\ \A c \in Clients : RequestIsRight(req'[c], rcs', dcs')
    <3>1. ASSUME NEW c \in Clients
          PROVE  req'[c] \in DRequestType /\ RequestIsRight(req'[c], rcs', dcs')
      <4>r. PICK r \in DRequestType : r = req[c]
        BY <1>1
      <4>q. PICK q : q = req'[c]
        OBVIOUS
      <4>1. q = IF r.name = n THEN OutOfDate(r) ELSE r
        BY <2>2, <4>r, <4>q DEF Outdated, OutOfDate
      <4>2. r \in DRequestType /\ RequestIsRight(r, rcs, dcs)
        BY <1>1, <4>r
      <4>3. q.fresh /\ r.name \in Names /\ dcs[r.name] # None => dcs'[r.name] = dcs[r.name]
        <5>1. CASE r.name = n
          <6>1. q.fresh = FALSE
            BY <4>1, <4>2, <5>1 DEF DRequestType, OutOfDate
          <6> QED  BY <6>1
        <5>2. CASE r.name # n
          BY <2>2, <5>2
        <5> QED  BY <5>1, <5>2
      <4>4. q = r \/ q = OutOfDate(r)
        BY <4>1
      <4>5. q \in DRequestType /\ RequestIsRight(q, rcs', dcs')
        BY <1>1, <4>2, <4>3, <4>4, RequestStays
      <4> QED  BY <4>5, <4>q
    <3>2. req' = [c \in Clients |-> req'[c]]
      BY <2>2 DEF Outdated
    <3> QED  BY <3>1, <3>2
  <2> QED  BY <2>1, <2>2
<1>3. KnownIn(shown, rcs', dcs')
  BY KnownStays DEF DInv
<1> QED  BY <1>2, <1>3 DEF DInv, ScaleReportsWhatItReplaced

\* Roll-outs go on: controllers change their phase and their number of replicas.
LEMMA ControllersChange ==
    ASSUME DInv, NEW h \in [rcs -> ControllerType], rcs' = {h[rc] : rc \in rcs},
           \A rc \in rcs : /\ h[rc].owner = rc.owner /\ h[rc].created = rc.created /\ h[rc].version = rc.version
                           /\ rc.phase = "Failed" => h[rc].phase = "Failed",
           UNCHANGED <<dcs, builds, shown, scaled, requests>>,
           req' = req \/ \E n \in Names : req' = Outdated(n)
    PROVE  DInv'
<1>1. ControllersOK(rcs, dcs) /\ ConfigsOK(dcs)
  BY DEF DInv
<1>2. Keeps(rcs, dcs, rcs', dcs')
  BY DEF Keeps
<1>3. ControllersOK(rcs', dcs')
  <2>1. rcs' \subseteq ControllerType
    OBVIOUS
  <2>2. \A a, b \in rcs' : a.created = b.created => a = b
    BY <1>1 DEF ControllersOK
  <2>3. \A a, b \in rcs' : a.owner = b.owner => (a.created < b.created <=> a.version < b.version)
    BY <1>1 DEF ControllersOK, VersionsAreCounted
  <2>4. ASSUME NEW u \in 1..3
        PROVE  \E k \in Nat : {rc.version : rc \in ReplicationControllers(rcs', u)} = 1..k
    <3>1. PICK k \in Nat : {rc.version : rc \in ReplicationControllers(rcs, u)} = 1..k
      BY <1>1 DEF ControllersOK, VersionsAreCounted
    <3>2. {rc.version : rc \in ReplicationControllers(rcs', u)} = {rc.version : rc \in ReplicationControllers(rcs, u)}
      <4>1. ASSUME NEW o \in ReplicationControllers(rcs', u)
            PROVE  \E rc \in ReplicationControllers(rcs, u) : rc.version = o.version
        BY <4>1 DEF ReplicationControllers
      <4>2. ASSUME NEW rc \in ReplicationControllers(rcs, u)
            PROVE  \E o \in ReplicationControllers(rcs', u) : o.version = rc.version
        <5>1. h[rc] \in ReplicationControllers(rcs', u) /\ h[rc].version = rc.version
          BY <4>2 DEF ReplicationControllers
        <5> QED  BY <5>1
      <4> DEFINE A == ReplicationControllers(rcs, u)
                 B == ReplicationControllers(rcs', u)
      <4>3. (\A o \in B : \E rc \in A : rc.version = o.version) /\ (\A rc \in A : \E o \in B : o.version = rc.version)
        BY <4>1, <4>2
      <4> HIDE DEF A, B
      <4>4. {rc.version : rc \in B} \subseteq {rc.version : rc \in A}
        BY <4>3
      <4>5. {rc.version : rc \in A} \subseteq {rc.version : rc \in B}
        BY <4>3
      <4>6. {rc.version : rc \in B} = {rc.version : rc \in A}
        BY <4>4, <4>5
      <4> QED  BY <4>6 DEF A, B
    <3> QED  BY <3>1, <3>2
  <2>5. \A rc \in rcs' : ~Ended(rc.owner, dcs')
    BY <1>1 DEF ControllersOK
  <2> QED  BY <2>1, <2>2, <2>3, <2>4, <2>5 DEF ControllersOK, VersionsAreCounted
<1>4. builds' \in Seq(Annotations) /\ Len(builds') <= MaxBuilds
  BY DEF DInv
<1> QED  BY <1>1, <1>2, <1>3, <1>4, ClusterMoves

\* One roll-out goes on.
LEMMA ProgressStep ==
    ASSUME DInv, NEW n \in Names, NEW rc \in rcs, Progress(n, rc), UNCHANGED <<shown, scaled, requests>>
    PROVE  DInv'
<1> DEFINE old == {o \in rcs : o.owner = rc.owner /\ o # rc}
           step(phase, replicas) == [rc EXCEPT !.phase = phase, !.replicas = replicas]
<1>1. /\ rc.phase \in {"New", "Pending", "Running"} /\ rcs \subseteq ControllerType /\ dcs[n].replicas \in 0..MaxReplicas
      /\ req' = Outdated(n) /\ UNCHANGED <<dcs, builds>> /\ MaxReplicas \in Nat
  BY DeploymentsAssumption DEF Progress, InProgress, DInv, ConfigsOK, ControllersOK, OrNone, ConfigType
<1>2. ASSUME NEW phase \in {"Pending", "Running", "Complete", "Failed"}, NEW replicas \in 0..MaxReplicas
      PROVE  /\ step(phase, replicas) \in ControllerType
             /\ step(phase, replicas).owner = rc.owner /\ step(phase, replicas).created = rc.created
             /\ step(phase, replicas).version = rc.version
  BY <1>1 DEF ControllerType
<1>3. ASSUME NEW phase \in {"Pending", "Running", "Complete", "Failed"}, NEW replicas \in 0..MaxReplicas,
             rcs' = (rcs \ {rc}) \cup {step(phase, replicas)}
      PROVE  DInv'
  <2> DEFINE h == [o \in rcs |-> IF o = rc THEN step(phase, replicas) ELSE o]
  <2>1. h \in [rcs -> ControllerType] /\ rcs' = {h[o] : o \in rcs}
    <3> HIDE DEF step
    <3> QED  BY <1>1, <1>2, <1>3
  <2>2. \A o \in rcs : /\ h[o].owner = o.owner /\ h[o].created = o.created /\ h[o].version = o.version
                       /\ o.phase = "Failed" => h[o].phase = "Failed"
    <3> HIDE DEF step
    <3> QED  BY <1>1, <1>2
  <2> HIDE DEF h
  <2> QED  BY <1>1, <2>1, <2>2, ControllersChange
<1>4. ASSUME rcs' = (rcs \ (old \cup {rc})) \cup {[o EXCEPT !.replicas = 0] : o \in old}
                        \cup {step("Complete", dcs[n].replicas)}
      PROVE  DInv'
  <2>0. PICK new : new = step("Complete", dcs[n].replicas)
    OBVIOUS
  <2> DEFINE down(o) == [o EXCEPT !.replicas = 0]
             h == [o \in rcs |-> IF o = rc THEN new ELSE IF o.owner = rc.owner THEN down(o) ELSE o]
  <2>1. \A o \in rcs : /\ down(o) \in ControllerType /\ down(o).owner = o.owner /\ down(o).created = o.created
                       /\ down(o).version = o.version /\ down(o).phase = o.phase
    BY <1>1 DEF ControllerType
  <2>2. /\ new \in ControllerType /\ new.owner = rc.owner /\ new.created = rc.created /\ new.version = rc.version
    BY <1>1, <1>2, <2>0
  <2>3. rcs' = (rcs \ (old \cup {rc})) \cup {down(o) : o \in old} \cup {new}
    BY <1>4, <2>0
  <2> HIDE DEF down, step
  <2>4. h \in [rcs -> ControllerType]
    BY <1>1, <2>1, <2>2
  <2>5. rcs' = {h[o] : o \in rcs}
    <3>1. ASSUME NEW o \in rcs PROVE h[o] \in rcs'
      BY <2>3, <3>1
    <3>2. ASSUME NEW x \in rcs' PROVE \E o \in rcs : x = h[o]
      BY <2>3, <3>2
    <3> QED  BY <3>1, <3>2
  <2>6. \A o \in rcs : /\ h[o].owner = o.owner /\ h[o].created = o.created /\ h[o].version = o.version
                       /\ o.phase = "Failed" => h[o].phase = "Failed"
    BY <1>1, <2>1, <2>2
  <2> HIDE DEF h
  <2> QED  BY <1>1, <2>4, <2>5, <2>6, ControllersChange
<1>5. \/ rcs' = (rcs \ {rc}) \cup {step("Pending", 0)}
      \/ rcs' = (rcs \ {rc}) \cup {step("Running", dcs[n].replicas)}
      \/ rcs' = (rcs \ (old \cup {rc})) \cup {[o EXCEPT !.replicas = 0] : o \in old}
                        \cup {step("Complete", dcs[n].replicas)}
      \/ rcs' = (rcs \ {rc}) \cup {step("Failed", 0)}
  BY DEF Progress
<1> HIDE DEF step, old
<1>6. 0 \in 0..MaxReplicas
  BY <1>1
<1> QED  BY <1>1, <1>3, <1>4, <1>5, <1>6

\* The active controller is scaled.
LEMMA FollowStep ==
    ASSUME DInv, NEW n \in Names, Follow(n), UNCHANGED <<shown, scaled, requests>>
    PROVE  DInv'
<1>1. PICK rc \in rcs : rcs' = (rcs \ {rc}) \cup {[rc EXCEPT !.replicas = dcs[n].replicas]}
  BY DEF Follow
<1>2. /\ rcs \subseteq ControllerType /\ dcs[n].replicas \in 0..MaxReplicas /\ UNCHANGED <<dcs, builds, req>>
  BY DEF Follow, DInv, ConfigsOK, ControllersOK, OrNone, ConfigType
<1>3. PICK new : new = [rc EXCEPT !.replicas = dcs[n].replicas]
  OBVIOUS
<1>4. /\ new \in ControllerType /\ new.owner = rc.owner /\ new.created = rc.created /\ new.version = rc.version
      /\ new.phase = rc.phase
  BY <1>2, <1>3 DEF ControllerType
<1> DEFINE h == [o \in rcs |-> IF o = rc THEN new ELSE o]
<1>5. h \in [rcs -> ControllerType] /\ rcs' = {h[o] : o \in rcs}
  BY <1>1, <1>2, <1>3, <1>4
<1>6. \A o \in rcs : /\ h[o].owner = o.owner /\ h[o].created = o.created /\ h[o].version = o.version
                     /\ o.phase = "Failed" => h[o].phase = "Failed"
  BY <1>4
<1> HIDE DEF h
<1> QED  BY <1>2, <1>5, <1>6, ControllersChange

\* A deployment config is made, or deleted with its controllers.
LEMMA ConfigStep ==
    ASSUME DInv, NEW n \in Names, CreateConfig(n) \/ DeleteConfig(n), UNCHANGED <<shown, scaled, requests>>
    PROVE  DInv'
<1>1. ControllersOK(rcs, dcs) /\ ConfigsOK(dcs) /\ Names = {App, Other} /\ App # Other /\ 1 \in 0..MaxReplicas
  BY DeploymentsAssumption DEF DInv, Names
<1>2. builds' \in Seq(Annotations) /\ Len(builds') <= MaxBuilds
  BY DEF DInv, CreateConfig, DeleteConfig
<1>3. None \notin ConfigType
  <2>1. 1..3 \subseteq Nat /\ 0..MaxReplicas \subseteq Nat
    BY DeploymentsAssumption
  <2>2. ConfigType \subseteq [uid : Nat, replicas : Nat]
    BY <2>1 DEF ConfigType
  <2> QED  BY <2>2, DeploymentsAssumption
<1>4. CASE CreateConfig(n)
  <2>0. PICK new : new = [uid |-> IF n = App THEN 3 ELSE 2, replicas |-> 1]
    OBVIOUS
  <2>1. /\ new \in ConfigType /\ new.uid = IF n = App THEN 3 ELSE 2
    BY <1>1, <2>0 DEF ConfigType
  <2>2. /\ dcs[n] = None /\ dcs' = [dcs EXCEPT ![n] = new] /\ UNCHANGED <<builds, rcs, req>>
    BY <1>4, <2>0 DEF CreateConfig
  <2>3. dcs \in [Names -> OrNone(ConfigType)]
    BY <1>1 DEF ConfigsOK
  <2>4. \A m \in Names : dcs'[m] = IF m = n THEN new ELSE dcs[m]
    BY <2>2, <2>3
  <2>5. ConfigsOK(dcs')
    BY <1>1, <2>1, <2>2, <2>3, <2>4 DEF ConfigsOK, OrNone
  <2>6. \A u \in 1..3 : Ended(u, dcs) <=> Ended(u, dcs')
    BY <1>1, <1>3, <2>1, <2>2, <2>4 DEF Ended
  <2>7. \A rc \in rcs : rc.owner \in 1..3
    BY <1>1 DEF ControllersOK, ControllerType
  <2>8. ControllersOK(rcs', dcs')
    BY <1>1, <2>2, <2>6, <2>7 DEF ControllersOK
  <2>9. Keeps(rcs, dcs, rcs', dcs')
    BY <2>2, <2>6 DEF Keeps
  <2>10. \A m \in Names : dcs[m] # None => dcs'[m] = dcs[m]
    BY <2>2, <2>4
  <2> QED  BY <1>2, <2>2, <2>5, <2>8, <2>9, <2>10, ClusterMoves
<1>5. CASE DeleteConfig(n)
  <2>1. n = App /\ dcs[App] # None /\ dcs[App].uid = 1
    BY <1>1, <1>5 DEF DeleteConfig, ConfigsOK
  <2>2. /\ rcs' = {rc \in rcs : rc.owner # 1} /\ dcs' = [dcs EXCEPT ![App] = None]
        /\ req' = Outdated(App) /\ UNCHANGED builds
    BY <1>5, <2>1 DEF DeleteConfig
  <2>3. dcs \in [Names -> OrNone(ConfigType)]
    BY <1>1 DEF ConfigsOK
  <2>4. \A m \in Names : dcs'[m] = IF m = App THEN None ELSE dcs[m]
    BY <1>1, <2>2, <2>3
  <2>5. ConfigsOK(dcs')
    BY <1>1, <2>2, <2>3, <2>4 DEF ConfigsOK, OrNone
  <2>6. \A u \in 1..3 : Ended(u, dcs') <=> u = 1
    BY <1>1, <2>4 DEF Ended
  <2>7. \A rc \in rcs : rc.owner \in 1..3
    BY <1>1 DEF ControllersOK, ControllerType
  <2>8. ControllersOK(rcs', dcs')
    <3>1. ASSUME NEW u \in 1..3
          PROVE  \E k \in Nat : {rc.version : rc \in ReplicationControllers(rcs', u)} = 1..k
      <4>1. CASE u = 1
        <5>1. ReplicationControllers(rcs', u) = {}
          BY <2>2, <4>1 DEF ReplicationControllers
        <5>2. {rc.version : rc \in ReplicationControllers(rcs', u)} = 1..0
          BY <5>1
        <5> QED  BY <5>2
      <4>2. CASE u # 1
        <5>1. ReplicationControllers(rcs', u) = ReplicationControllers(rcs, u)
          BY <2>2, <4>2 DEF ReplicationControllers
        <5> QED  BY <1>1, <5>1 DEF ControllersOK, VersionsAreCounted
      <4> QED  BY <4>1, <4>2
    <3>2. \A rc \in rcs' : ~Ended(rc.owner, dcs')
      BY <2>2, <2>6, <2>7
    <3> QED  BY <1>1, <2>2, <3>1, <3>2 DEF ControllersOK, VersionsAreCounted
  <2>9. Keeps(rcs, dcs, rcs', dcs')
    <3>1. \A u \in 1..3 : Ended(u, dcs) => Ended(u, dcs')
      BY <2>6 DEF Ended
    <3>2. \A rc \in rcs : Ended(rc.owner, dcs') \/ rc \in rcs'
      BY <2>2, <2>6, <2>7
    <3>3. \A o \in rcs' : o \in rcs
      BY <2>2
    <3> QED  BY <3>1, <3>2, <3>3 DEF Keeps
  <2>10. App \in Names /\ \A m \in Names \ {App} : dcs'[m] = dcs[m]
    BY <1>1, <2>4
  <2>11. UNCHANGED <<shown, scaled, requests>>
    OBVIOUS
  <2> QED  BY <1>2, <2>2, <2>5, <2>8, <2>9, <2>10, <2>11, ClusterMoves
<1> QED  BY <1>4, <1>5

\* A roll-out begins: the new controller is the last one that was created, and has the next
\* version of its deployment config.
LEMMA RollOutStep ==
    ASSUME DInv, NEW n \in Names, RollOut(n), UNCHANGED <<shown, scaled, requests>>
    PROVE  DInv'
<1> DEFINE u == dcs[n].uid
           mine == ReplicationControllers(rcs, u)
           T == {rc.created : rc \in rcs}
           last == IF rcs = {} THEN 0 ELSE Max(T)
<1>1. ControllersOK(rcs, dcs) /\ ConfigsOK(dcs) /\ MaxRollOuts \in Nat
  BY DeploymentsAssumption DEF DInv
<1>2. dcs[n] # None /\ u \in 1..3 /\ ~Ended(u, dcs)
  BY <1>1, DeploymentsAssumption DEF RollOut, ConfigsOK, OrNone, ConfigType, Ended, Names
<1>3. PICK new : new = [rank |-> last + 1, created |-> last + 1, owner |-> u,
                        version |-> Cardinality(mine) + 1, phase |-> "New", replicas |-> 0]
  OBVIOUS
<1>4. /\ last < MaxRollOuts /\ rcs' = rcs \cup {new} /\ req' = Outdated(n) /\ UNCHANGED <<dcs, builds>>
  BY <1>3 DEF RollOut, ReplicationControllers
<1>5. \A rc \in rcs : rc \in ControllerType /\ rc.created \in Nat /\ rc.created <= MaxRollOuts /\ rc.version \in Nat
  BY <1>1 DEF ControllersOK, ControllerType
<1>6. last \in Nat /\ \A rc \in rcs : rc.created <= last
  <2>1. CASE rcs = {}
    BY <2>1
  <2>2. CASE rcs # {}
    <3>1. T \in SUBSET Nat /\ \A x \in T : x <= MaxRollOuts
      BY <1>5
    <3>2. PICK rc \in rcs : TRUE
      BY <2>2
    <3>3. rc.created \in T
      OBVIOUS
    <3>4. Max(T) \in T /\ \A x \in T : x <= Max(T)
      <4> HIDE DEF T
      <4> QED  BY <1>1, <3>1, <3>3, LargestElement
    <3> QED  BY <2>2, <3>1, <3>4
  <2> QED  BY <2>1, <2>2
<1>7. PICK k \in Nat : {rc.version : rc \in mine} = 1..k
  BY <1>1, <1>2 DEF ControllersOK, VersionsAreCounted
<1>8. Cardinality(mine) = k
  BY <1>1, <1>2, <1>7, ControllersAreFinite
<1> HIDE DEF last
<1>9. /\ new \in ControllerType /\ new.created = last + 1 /\ new.owner = u /\ new.version = k + 1
  BY <1>1, <1>2, <1>3, <1>4, <1>6, <1>8, DeploymentsAssumption DEF ControllerType
<1>10. \A rc \in rcs : rc.created < new.created
  BY <1>5, <1>6, <1>9
<1>11. \A rc \in rcs : rc.owner = u => rc.version < new.version
  <2> SUFFICES ASSUME NEW rc \in rcs, rc.owner = u
               PROVE  rc.version < new.version
    OBVIOUS
  <2>1. rc \in mine
    BY DEF ReplicationControllers
  <2>2. rc.version \in 1..k
    BY <1>7, <2>1
  <2> QED  BY <1>9, <2>2
<1>12. ControllersOK(rcs', dcs')
  <2>1. rcs' \subseteq ControllerType
    BY <1>4, <1>5, <1>9
  <2>2. \A rc, o \in rcs' : rc.created = o.created => rc = o
    BY <1>1, <1>4, <1>5, <1>9, <1>10 DEF ControllersOK
  <2>3. ASSUME NEW rc \in rcs', NEW o \in rcs', rc.owner = o.owner
        PROVE  rc.created < o.created <=> rc.version < o.version
    <3>1. CASE rc \in rcs /\ o \in rcs
      BY <1>1, <2>3, <3>1 DEF ControllersOK, VersionsAreCounted
    <3>2. CASE rc \in rcs /\ o = new
      BY <1>9, <1>10, <1>11, <2>3, <3>2
    <3>3. CASE rc = new /\ o \in rcs
      <4>1. o.created < rc.created /\ o.version < rc.version /\ o.created \in Nat /\ o.version \in Nat
        BY <1>5, <1>9, <1>10, <1>11, <2>3, <3>3
      <4>2. rc.created \in Nat /\ rc.version \in Nat
        BY <1>6, <1>9, <3>3
      <4> QED  BY <4>1, <4>2
    <3>4. CASE rc = new /\ o = new
      BY <1>6, <1>9, <3>4
    <3> QED  BY <1>4, <3>1, <3>2, <3>3, <3>4
  <2>4. ASSUME NEW v \in 1..3
        PROVE  \E j \in Nat : {rc.version : rc \in ReplicationControllers(rcs', v)} = 1..j
    <3>1. CASE v = u
      <4>1. ReplicationControllers(rcs', v) = mine \cup {new}
        BY <1>4, <1>9, <3>1 DEF ReplicationControllers
      <4> HIDE DEF mine
      <4>2. {rc.version : rc \in ReplicationControllers(rcs', v)} = (1..k) \cup {k + 1}
        BY <1>7, <1>9, <4>1
      <4>3. (1..k) \cup {k + 1} = 1..(k + 1) /\ k + 1 \in Nat
        OBVIOUS
      <4> QED  BY <4>2, <4>3
    <3>2. CASE v # u
      <4>1. ReplicationControllers(rcs', v) = ReplicationControllers(rcs, v)
        BY <1>4, <1>9, <3>2 DEF ReplicationControllers
      <4> QED  BY <1>1, <4>1 DEF ControllersOK, VersionsAreCounted
    <3> QED  BY <3>1, <3>2
  <2>5. \A rc \in rcs' : ~Ended(rc.owner, dcs')
    BY <1>1, <1>2, <1>4, <1>9 DEF ControllersOK
  <2> QED  BY <2>1, <2>2, <2>3, <2>4, <2>5 DEF ControllersOK, VersionsAreCounted
<1>13. Keeps(rcs, dcs, rcs', dcs')
  BY <1>2, <1>4, <1>9, <1>10 DEF Keeps
<1>14. builds' \in Seq(Annotations) /\ Len(builds') <= MaxBuilds /\ ConfigsOK(dcs') /\ \A m \in Names : dcs'[m] = dcs[m]
  BY <1>1, <1>4 DEF DInv
<1> QED  BY <1>4, <1>12, <1>13, <1>14, ClusterMoves

\* A request goes on, and the cluster stays as it is.
LEMMA RequestMoves ==
    ASSUME DInv, UNCHANGED <<cluster, scaled>>, NEW c \in Clients, NEW r \in DRequestType,
           RequestIsRight(r, rcs, dcs), req' = [req EXCEPT ![c] = r],
           shown' \in OrNone(ReferenceType), KnownIn(shown', rcs, dcs), requests' \in 0..MaxRequests
    PROVE  DInv'
<1>1. req \in [Clients -> DRequestType] /\ \A b \in Clients : RequestIsRight(req[b], rcs, dcs)
  BY DEF DInv
<1>2. req' \in [Clients -> DRequestType] /\ \A b \in Clients : RequestIsRight(req'[b], rcs, dcs)
  <2>1. \A b \in Clients : req'[b] = IF b = c THEN r ELSE req[b]
    BY <1>1
  <2> QED  BY <1>1, <2>1
<1> QED  BY <1>2 DEF DInv, cluster, ScaleReportsWhatItReplaced

\* A request that is over.
LEMMA IdleIsRight ==
    ASSUME NEW R, NEW D
    PROVE  Idle \in DRequestType /\ RequestIsRight(Idle, R, D)
<1>1. Idle \in DRequestType
  BY DeploymentsAssumption DEF Idle, DRequestType, OrNone
<1>2. Idle.pc = "idle" /\ Idle.floor = None /\ Idle.current = None /\ Idle.calls = {}
  BY DEF Idle
<1> QED  BY <1>1, <1>2 DEF RequestIsRight, InOrder, KnownIn, NoStepBack, ScaleIsCurrent

\* A request starts with the controller that was shown last.
LEMMA StartStep ==
    ASSUME DInv, NEW c \in Clients, NEW op \in {"get", "scale"}, NEW want \in 0..MaxReplicas, StartRequest(c, op, want)
    PROVE  DInv'
<1>1. PICK r : r = [Idle EXCEPT !.pc = "builds", !.op = op, !.want = want, !.floor = shown]
  OBVIOUS
<1>2. Idle \in DRequestType /\ shown \in OrNone(ReferenceType) /\ KnownIn(shown, rcs, dcs) /\ requests \in 0..MaxRequests
  BY IdleIsRight DEF DInv
<1>3. r \in DRequestType
  BY <1>1, <1>2 DEF DRequestType, OrNone
<1>4. r.pc = "builds" /\ r.op = op /\ r.floor = shown /\ r.current = None /\ r.calls = {}
  BY <1>1 DEF Idle
<1>5. RequestIsRight(r, rcs, dcs)
  BY <1>2, <1>4 DEF RequestIsRight, InOrder, KnownIn, NoStepBack, ScaleIsCurrent
<1>6. req' = [req EXCEPT ![c] = r] /\ shown' = shown /\ requests' \in 0..MaxRequests /\ UNCHANGED <<cluster, scaled>>
  BY <1>1, <1>2, DeploymentsAssumption DEF StartRequest
<1> QED  BY <1>2, <1>3, <1>5, <1>6, RequestMoves

\* What the steps of a request have in common: it is right, and the rest stays.
LEMMA StepBegins ==
    ASSUME DInv, NEW c \in Clients
    PROVE  /\ req[c] \in DRequestType /\ RequestIsRight(req[c], rcs, dcs)
           /\ shown \in OrNone(ReferenceType) /\ KnownIn(shown, rcs, dcs) /\ requests \in 0..MaxRequests
  BY DEF DInv

\* A request ends without a deployment.
LEMMA DoneStep ==
    ASSUME DInv, NEW c \in Clients, Done(c), UNCHANGED <<cluster, shown, scaled, requests>>
    PROVE  DInv'
<1>1. req' = [req EXCEPT ![c] = Idle]
  BY DEF Done
<1> QED  BY <1>1, StepBegins, IdleIsRight, RequestMoves

\* The name is the application's or one that the newest annotated build carries.
LEMMA FindNameStep ==
    ASSUME DInv, NEW c \in Clients, FindName(c)
    PROVE  DInv'
<1> DEFINE annotated == {i \in DOMAIN builds : builds[i] # {}}
<1>1. PICK name \in DeploymentConfigNames(builds, App) :
        Go(c, IF req[c].op = "scale" THEN "getscale" ELSE "config", [req[c] EXCEPT !.name = name], <<"builds", "list">>)
  BY DEF FindName
<1>2. name \in Names
  <2>1. CASE annotated = {}
    BY <1>1, <2>1 DEF DeploymentConfigNames, Names
  <2>2. CASE annotated # {}
    <3>1. builds \in Seq(Annotations) /\ Len(builds) \in Nat
      BY DEF DInv
    <3>2. annotated \in SUBSET Nat /\ \A i \in annotated : i \in 1..Len(builds) /\ i <= Len(builds)
      BY <3>1
    <3>3. Max(annotated) \in annotated
      <4> HIDE DEF annotated
      <4> QED  BY <2>2, <3>1, <3>2, LargestElement
    <3>4. builds[Max(annotated)] \in Annotations
      BY <3>1, <3>2, <3>3
    <3>5. name \in builds[Max(annotated)]
      BY <1>1, <2>2 DEF DeploymentConfigNames, NamesFromEnvServices
    <3> QED  BY <3>4, <3>5, DeploymentsAssumption DEF Names
  <2> QED  BY <2>1, <2>2
<1>3. PICK q \in DRequestType : q = req[c] /\ RequestIsRight(q, rcs, dcs) /\ q.pc = "builds"
  BY StepBegins DEF FindName
<1>4. PICK at \in {"getscale", "config"} : at = IF q.op = "scale" THEN "getscale" ELSE "config"
  OBVIOUS
<1>5. PICK r : r = [[q EXCEPT !.name = name] EXCEPT !.pc = at, !.calls = @ \cup {<<"builds", "list">>}]
  OBVIOUS
<1>6. req' = [req EXCEPT ![c] = r]
  BY <1>1, <1>3, <1>4, <1>5 DEF Go
<1>7. /\ r.pc = at /\ r.name = name /\ r.op = q.op /\ r.calls = q.calls \cup {<<"builds", "list">>}
      /\ r.floor = q.floor /\ r.current = q.current
  BY <1>3, <1>5 DEF DRequestType
<1>8. r \in DRequestType
  <2>1. PICK calls \in SUBSET AllRules : calls = q.calls \cup {<<"builds", "list">>}
    BY <1>3 DEF DRequestType, AllRules, GetBuildsRules
  <2>2. name \in OrNone(Names)
    BY <1>2 DEF OrNone
  <2> QED  BY <1>3, <1>5, <2>1, <2>2 DEF DRequestType
<1>9. q.op \in {"get", "scale"}
  BY <1>3 DEF RequestIsRight, InOrder, DRequestType, OrNone
<1>10. InOrder(r)
  BY <1>2, <1>3, <1>4, <1>7, <1>9 DEF RequestIsRight, InOrder, GetBuildsRules
<1>11. RequestIsRight(r, rcs, dcs)
  <2>1. KnownIn(r.floor, rcs, dcs) /\ KnownIn(r.current, rcs, dcs)
    BY <1>3, <1>7 DEF RequestIsRight
  <2> QED  BY <1>4, <1>7, <1>10, <2>1 DEF RequestIsRight, NoStepBack, ScaleIsCurrent
<1> QED  BY <1>6, <1>8, <1>11, StepBegins, RequestMoves DEF FindName

\* The config is there, or there is no deployment.
LEMMA GetConfigStep ==
    ASSUME DInv, NEW c \in Clients, GetConfig(c)
    PROVE  DInv'
<1>1. UNCHANGED <<cluster, shown, scaled, requests>>
  BY DEF GetConfig
<1>2. CASE Done(c)
  BY <1>1, <1>2, DoneStep
<1>3. CASE ~Done(c)
  <2>1. PICK q \in DRequestType : q = req[c] /\ RequestIsRight(q, rcs, dcs) /\ q.pc = "config"
    BY StepBegins DEF GetConfig
  <2>2. q.name \in Existing /\ Go(c, "rcs", [q EXCEPT !.uid = dcs[q.name].uid], <<"deploymentconfigs", "get">>)
    BY <1>3, <2>1 DEF GetConfig
  <2>3. dcs[q.name].uid \in 1..3 /\ dcs[q.name].uid # None
    <3>1. q.name \in Names /\ dcs[q.name] # None
      BY <2>2 DEF Existing
    <3>2. dcs[q.name] \in ConfigType
      BY <3>1 DEF DInv, ConfigsOK, OrNone
    <3> QED  BY <3>2, DeploymentsAssumption DEF ConfigType
  <2>4. PICK uid \in 1..3 : uid = dcs[q.name].uid /\ uid # None
    BY <2>3
  <2>5. PICK r : r = [[q EXCEPT !.uid = uid] EXCEPT !.pc = "rcs", !.calls = @ \cup {<<"deploymentconfigs", "get">>}]
    OBVIOUS
  <2>6. req' = [req EXCEPT ![c] = r]
    BY <2>2, <2>4, <2>5 DEF Go
  <2>7. /\ r.pc = "rcs" /\ r.uid = uid /\ r.name = q.name /\ r.op = q.op /\ r.floor = q.floor /\ r.current = q.current
        /\ r.calls = q.calls \cup {<<"deploymentconfigs", "get">>}
    BY <2>1, <2>5 DEF DRequestType
  <2>8. r \in DRequestType
    <3>1. PICK calls \in SUBSET AllRules : calls = q.calls \cup {<<"deploymentconfigs", "get">>}
      BY <2>1 DEF DRequestType, AllRules, GetDeploymentRules
    <3>2. uid \in OrNone(1..3)
      BY <2>4 DEF OrNone
    <3> QED  BY <2>1, <2>5, <3>1, <3>2 DEF DRequestType
  <2>9. InOrder(r)
    BY <2>1, <2>4, <2>7 DEF RequestIsRight, InOrder, GetDeploymentRules
  <2>10. KnownIn(r.floor, rcs, dcs) /\ KnownIn(r.current, rcs, dcs)
    BY <2>1, <2>7 DEF RequestIsRight
  <2>11. RequestIsRight(r, rcs, dcs)
    BY <2>7, <2>9, <2>10 DEF RequestIsRight, NoStepBack, ScaleIsCurrent
  <2> QED  BY <1>1, <2>6, <2>8, <2>11, StepBegins, RequestMoves
<1> QED  BY <1>2, <1>3

\* The choice of the current controller is the one step that could go back.
LEMMA ListControllersStep ==
    ASSUME DInv, NEW c \in Clients, ListControllers(c)
    PROVE  DInv'
<1>1. UNCHANGED <<cluster, shown, scaled, requests>>
  BY DEF ListControllers
<1>2. PICK q \in DRequestType : q = req[c] /\ RequestIsRight(q, rcs, dcs) /\ q.pc = "rcs"
  BY StepBegins DEF ListControllers
<1>3. PICK current \in CurrentDeployments(rcs, q.uid) :
        IF current = None THEN Done(c)
        ELSE Go(c, "pods", [q EXCEPT !.current = [created |-> current.created, owner |-> current.owner]], <<"replicationcontrollers", "list">>)
  BY <1>2 DEF ListControllers
<1>4. CASE current = None
  BY <1>1, <1>3, <1>4, DoneStep
<1>5. CASE current # None
  <2>1. q.uid \in 1..3 /\ ControllersOK(rcs, dcs)
    BY <1>2 DEF RequestIsRight, InOrder, DRequestType, OrNone, DInv
  <2>2. current \in rcs /\ current.owner = q.uid /\ current \in ControllerType
    <3>1. current \in Candidates(ReplicationControllers(rcs, q.uid))
      BY <1>5, <2>1, CurrentIsFound
    <3> QED  BY <2>1, <3>1 DEF Candidates, Active, ReplicationControllers, ControllersOK
  <2>3. PICK ref : ref = [created |-> current.created, owner |-> current.owner]
    OBVIOUS
  <2>4. ref \in ReferenceType /\ ref.created = current.created /\ ref.owner = current.owner /\ ref # None
    <3>1. ref \in ReferenceType
      BY <2>2, <2>3 DEF ReferenceType, ControllerType
    <3>2. ref \in [created : Nat, owner : Nat]
      BY <2>2, <2>3, DeploymentsAssumption DEF ControllerType
    <3> QED  BY <2>3, <3>1, <3>2, DeploymentsAssumption
  <2>5. PICK r : r = [[q EXCEPT !.current = ref] EXCEPT !.pc = "pods", !.calls = @ \cup {<<"replicationcontrollers", "list">>}]
    OBVIOUS
  <2>6. req' = [req EXCEPT ![c] = r]
    BY <1>3, <1>5, <2>3, <2>5 DEF Go
  <2>7. /\ r.pc = "pods" /\ r.current = ref /\ r.name = q.name /\ r.op = q.op /\ r.floor = q.floor
        /\ r.calls = q.calls \cup {<<"replicationcontrollers", "list">>}
    BY <1>2, <2>5 DEF DRequestType
  <2>8. r \in DRequestType
    <3>1. PICK calls \in SUBSET AllRules : calls = q.calls \cup {<<"replicationcontrollers", "list">>}
      BY <1>2 DEF DRequestType, AllRules, GetDeploymentRules
    <3>2. ref \in OrNone(ReferenceType)
      BY <2>4 DEF OrNone
    <3> QED  BY <1>2, <2>5, <3>1, <3>2 DEF DRequestType
  <2>9. InOrder(r)
    BY <1>2, <2>4, <2>7 DEF RequestIsRight, InOrder, GetDeploymentRules
  <2>10. KnownIn(r.floor, rcs, dcs) /\ KnownIn(r.current, rcs, dcs)
    BY <1>2, <2>2, <2>4, <2>7 DEF RequestIsRight, KnownIn
  <2>11. NoStepBack(r, rcs)
    <3> SUFFICES ASSUME r.floor.owner = r.current.owner, r.current.created < r.floor.created,
                        NEW rc \in rcs, rc.owner = r.floor.owner, rc.created = r.floor.created
                 PROVE  rc.phase = "Failed"
      BY DEF NoStepBack
    <3> QED  BY <1>5, <2>1, <2>2, <2>4, <2>7, LaterHasFailed
  <2>12. RequestIsRight(r, rcs, dcs)
    BY <2>7, <2>9, <2>10, <2>11 DEF RequestIsRight, ScaleIsCurrent
  <2> QED  BY <1>1, <2>6, <2>8, <2>12, StepBegins, RequestMoves
<1> QED  BY <1>4, <1>5

\* Listing pods, services and routes leaves the choice alone.
LEMMA ListPodsStep ==
    ASSUME DInv, NEW c \in Clients, ListPodsAndRoutes(c)
    PROVE  DInv'
<1> DEFINE listed == {<<"pods", "list">>, <<"services", "list">>, <<"routes", "list">>}
<1>1. UNCHANGED <<cluster, shown, scaled, requests>>
  BY DEF ListPodsAndRoutes
<1>2. PICK q \in DRequestType : q = req[c] /\ RequestIsRight(q, rcs, dcs) /\ q.pc = "pods"
  BY StepBegins DEF ListPodsAndRoutes
<1>3. PICK r : r = [q EXCEPT !.pc = "answer", !.calls = @ \cup listed]
  OBVIOUS
<1>4. req' = [req EXCEPT ![c] = r]
  <2>1. req \in [Clients -> DRequestType]
    BY DEF DInv
  <2> QED  BY <1>2, <1>3, <2>1 DEF ListPodsAndRoutes
<1>5. /\ r.pc = "answer" /\ r.current = q.current /\ r.name = q.name /\ r.op = q.op /\ r.floor = q.floor
      /\ r.calls = q.calls \cup listed
  BY <1>2, <1>3 DEF DRequestType
<1>6. r \in DRequestType
  <2>1. PICK calls \in SUBSET AllRules : calls = q.calls \cup listed
    BY <1>2 DEF DRequestType, AllRules, GetDeploymentRules
  <2> QED  BY <1>2, <1>3, <2>1 DEF DRequestType
<1>7. InOrder(r)
  BY <1>2, <1>5 DEF RequestIsRight, InOrder, GetDeploymentRules
<1>8. KnownIn(r.floor, rcs, dcs) /\ KnownIn(r.current, rcs, dcs) /\ NoStepBack(r, rcs)
  BY <1>2, <1>5 DEF RequestIsRight, NoStepBack
<1>9. RequestIsRight(r, rcs, dcs)
  BY <1>5, <1>7, <1>8 DEF RequestIsRight, ScaleIsCurrent
<1> QED  BY <1>1, <1>4, <1>6, <1>9, StepBegins, RequestMoves

\* The client is shown the controller that was found.
LEMMA GetDeploymentStep ==
    ASSUME DInv, NEW c \in Clients, GetDeployment(c)
    PROVE  DInv'
<1>1. /\ req' = [req EXCEPT ![c] = Idle] /\ shown' = req[c].current /\ UNCHANGED <<cluster, scaled, requests>>
  BY DEF GetDeployment, Done
<1>2. req[c].current \in OrNone(ReferenceType) /\ KnownIn(req[c].current, rcs, dcs) /\ requests \in 0..MaxRequests
  BY StepBegins DEF DRequestType, RequestIsRight
<1> QED  BY <1>1, <1>2, IdleIsRight, RequestMoves

\* The scale that is read is the current one.
LEMMA GetScaleStep ==
    ASSUME DInv, NEW c \in Clients, GetScale(c)
    PROVE  DInv'
<1>1. UNCHANGED <<cluster, shown, scaled, requests>>
  BY DEF GetScale
<1>2. CASE Done(c)
  BY <1>1, <1>2, DoneStep
<1>3. CASE ~Done(c)
  <2>1. PICK q \in DRequestType : q = req[c] /\ RequestIsRight(q, rcs, dcs) /\ q.pc = "getscale"
    BY StepBegins DEF GetScale
  <2>2. /\ q.name \in Existing
        /\ Go(c, "setscale", [q EXCEPT !.scale = dcs[q.name].replicas, !.fresh = TRUE], <<"deploymentconfigs/scale", "get">>)
    BY <1>3, <2>1 DEF GetScale
  <2>3. q.name \in Names /\ dcs[q.name] # None
    BY <2>2 DEF Existing
  <2>4. PICK scale \in 0..MaxReplicas : scale = dcs[q.name].replicas
    <3>1. dcs[q.name] \in ConfigType
      BY <2>3 DEF DInv, ConfigsOK, OrNone
    <3> QED  BY <3>1 DEF ConfigType
  <2>5. PICK r : r = [[q EXCEPT !.scale = scale, !.fresh = TRUE]
                        EXCEPT !.pc = "setscale", !.calls = @ \cup {<<"deploymentconfigs/scale", "get">>}]
    OBVIOUS
  <2>6. req' = [req EXCEPT ![c] = r]
    BY <2>2, <2>4, <2>5 DEF Go
  <2>7. /\ r.pc = "setscale" /\ r.scale = scale /\ r.name = q.name /\ r.op = q.op /\ r.floor = q.floor /\ r.current = q.current
        /\ r.calls = q.calls \cup {<<"deploymentconfigs/scale", "get">>}
    BY <2>1, <2>5 DEF DRequestType
  <2>8. r \in DRequestType
    <3>1. PICK calls \in SUBSET AllRules : calls = q.calls \cup {<<"deploymentconfigs/scale", "get">>}
      BY <2>1 DEF DRequestType, AllRules, ScaleDeploymentRules
    <3>2. scale \in OrNone(0..MaxReplicas)
      BY <2>4 DEF OrNone
    <3> QED  BY <2>1, <2>5, <3>1, <3>2 DEF DRequestType
  <2>9. InOrder(r)
    BY <2>1, <2>3, <2>7 DEF RequestIsRight, InOrder, ScaleDeploymentRules
  <2>10. KnownIn(r.floor, rcs, dcs) /\ KnownIn(r.current, rcs, dcs)
    BY <2>1, <2>7 DEF RequestIsRight
  <2>11. RequestIsRight(r, rcs, dcs)
    BY <2>3, <2>4, <2>7, <2>9, <2>10 DEF RequestIsRight, NoStepBack, ScaleIsCurrent
  <2> QED  BY <1>1, <2>6, <2>8, <2>11, StepBegins, RequestMoves
<1> QED  BY <1>2, <1>3

\* The scale is written to the config it was read from, if nobody has changed that since.
LEMMA SetScaleStep ==
    ASSUME DInv, NEW c \in Clients, SetScale(c)
    PROVE  DInv'
<1>1. PICK q \in DRequestType : q = req[c] /\ RequestIsRight(q, rcs, dcs) /\ q.pc = "setscale"
  BY StepBegins DEF SetScale
<1>2. PICK n \in Names : n = q.name
  BY <1>1 DEF RequestIsRight, InOrder
<1>3. /\ UNCHANGED <<builds, rcs, shown, requests>>
      /\ req' = [Outdated(n) EXCEPT ![c] = Idle]
      /\ IF Accepts(c)
         THEN /\ dcs' = [dcs EXCEPT ![n].replicas = q.want]
              /\ scaled' = [reported |-> q.scale, replaced |-> dcs[n].replicas]
         ELSE UNCHANGED <<dcs, scaled>>
  BY <1>1, <1>2 DEF SetScale
<1>4. /\ ConfigsOK(dcs) /\ ControllersOK(rcs, dcs) /\ dcs \in [Names -> OrNone(ConfigType)]
      /\ req \in [Clients -> DRequestType] /\ q.want \in 0..MaxReplicas
  BY <1>1 DEF DInv, ConfigsOK, DRequestType
<1>5. /\ \A m \in Names \ {n} : dcs'[m] = dcs[m]
      /\ ConfigsOK(dcs') /\ \A u : Ended(u, dcs) <=> Ended(u, dcs')
  <2>1. CASE Accepts(c)
    <3>1. dcs[n] # None
      BY <1>1, <1>2, <2>1 DEF Accepts, Existing
    <3>2. dcs[n] \in ConfigType
      BY <1>4, <3>1 DEF OrNone
    <3>3. PICK new : new = [dcs[n] EXCEPT !.replicas = q.want]
      OBVIOUS
    <3>4. new \in ConfigType /\ new.uid = dcs[n].uid
      BY <1>4, <3>2, <3>3 DEF ConfigType
    <3>5. dcs' = [dcs EXCEPT ![n] = new]
      BY <1>3, <1>4, <2>1, <3>3
    <3>6. \A m \in Names : dcs'[m] = IF m = n THEN new ELSE dcs[m]
      BY <1>4, <3>5
    <3>7. new # None
      <4>1. ConfigType \subseteq [uid : Nat, replicas : Nat]
        BY DeploymentsAssumption DEF ConfigType
      <4> QED  BY <3>4, <4>1, DeploymentsAssumption
    <3>8. ConfigsOK(dcs')
      BY <1>4, <3>1, <3>4, <3>5, <3>6 DEF ConfigsOK, OrNone
    <3>9. App \in Names
      BY DEF Names
    <3> QED  BY <3>1, <3>4, <3>6, <3>7, <3>8, <3>9 DEF Ended
  <2>2. CASE ~Accepts(c)
    BY <1>3, <1>4, <2>2
  <2> QED  BY <2>1, <2>2
<1>6. ControllersOK(rcs', dcs')
  BY <1>3, <1>4, <1>5 DEF ControllersOK
<1>7. Keeps(rcs, dcs, rcs', dcs')
  BY <1>3, <1>5 DEF Keeps
<1>8. ASSUME NEW b \in Clients
      PROVE  req'[b] \in DRequestType /\ RequestIsRight(req'[b], rcs', dcs')
  <2>1. CASE b = c
    <3>1. req'[b] = Idle
      BY <1>3, <2>1 DEF Outdated
    <3> QED  BY <3>1, IdleIsRight
  <2>2. CASE b # c
    <3>1. PICK r \in DRequestType : r = req[b] /\ RequestIsRight(r, rcs, dcs)
      BY StepBegins
    <3>2. PICK p : p = req'[b]
      OBVIOUS
    <3>3. p = IF r.name = n THEN OutOfDate(r) ELSE r
      BY <1>3, <2>2, <3>1, <3>2 DEF Outdated, OutOfDate
    <3>4. p = r \/ p = OutOfDate(r)
      BY <3>3
    <3>5. p.fresh /\ r.name \in Names /\ dcs[r.name] # None => dcs'[r.name] = dcs[r.name]
      <4>1. CASE r.name = n
        <5>1. p.fresh = FALSE
          BY <3>1, <3>3, <4>1 DEF DRequestType, OutOfDate
        <5> QED  BY <5>1
      <4>2. CASE r.name # n
        BY <1>5, <4>2
      <4> QED  BY <4>1, <4>2
    <3>6. rcs \subseteq ControllerType
      BY <1>4 DEF ControllersOK
    <3>7. p \in DRequestType /\ RequestIsRight(p, rcs', dcs')
      BY <1>7, <3>1, <3>4, <3>5, <3>6, RequestStays
    <3> QED  BY <3>2, <3>7
  <2> QED  BY <2>1, <2>2
<1>9. req' \in [Clients -> DRequestType]
  <2>1. req' = [b \in Clients |-> req'[b]]
    BY <1>3 DEF Outdated
  <2> QED  BY <1>8, <2>1
<1>10. ScaleReportsWhatItReplaced'
  <2>1. CASE Accepts(c)
    <3>1. q.fresh
      BY <1>1, <2>1 DEF Accepts
    <3>2. q.scale = dcs[n].replicas
      BY <1>1, <1>2, <3>1 DEF RequestIsRight, ScaleIsCurrent
    <3> QED  BY <1>3, <2>1, <3>2 DEF ScaleReportsWhatItReplaced
  <2>2. CASE ~Accepts(c)
    BY <1>3, <2>2 DEF DInv, ScaleReportsWhatItReplaced
  <2> QED  BY <2>1, <2>2
<1>11. KnownIn(shown', rcs', dcs') /\ shown' \in OrNone(ReferenceType)
  BY <1>3, <1>7, KnownStays DEF DInv
<1> QED  BY <1>3, <1>5, <1>6, <1>8, <1>9, <1>10, <1>11 DEF DInv

\* A build leaves configs and controllers alone.
LEMMA BuildStep ==
    ASSUME DInv, Build, UNCHANGED <<shown, scaled, requests>>
    PROVE  DInv'
<1>1. PICK names \in Annotations : builds' = Append(builds, names)
  BY DEF Build
<1>2. /\ builds \in Seq(Annotations) /\ Len(builds) < MaxBuilds /\ MaxBuilds \in Nat
      /\ ConfigsOK(dcs) /\ ControllersOK(rcs, dcs) /\ UNCHANGED <<dcs, rcs, req>>
  BY DeploymentsAssumption DEF DInv, Build
<1>3. builds' \in Seq(Annotations) /\ Len(builds') <= MaxBuilds
  BY <1>1, <1>2
<1>4. Keeps(rcs, dcs, rcs', dcs')
  BY <1>2 DEF Keeps
<1> QED  BY <1>2, <1>3, <1>4, ClusterMoves

\* A deployment that was rolled out once.
LEMMA DInit == DeploymentsInit => DInv
<1> SUFFICES ASSUME DeploymentsInit
             PROVE  DInv
  OBVIOUS
<1>1. PICK replicas \in 0..1 : dcs = [n \in Names |-> IF n = App THEN [uid |-> 1, replicas |-> replicas] ELSE None]
  BY DEF DeploymentsInit
<1>2. PICK config : config = [uid |-> 1, replicas |-> replicas]
  OBVIOUS
<1>3. /\ config \in ConfigType /\ config.uid = 1 /\ config.replicas = replicas /\ replicas \in 0..MaxReplicas
      /\ Names = {App, Other} /\ App # Other
  BY <1>2, DeploymentsAssumption DEF ConfigType, Names
<1>4. dcs = [n \in Names |-> IF n = App THEN config ELSE None]
  BY <1>1, <1>2
<1>5. dcs[App] = config /\ dcs[Other] = None /\ config # None
  <2>1. config \in [uid : Nat, replicas : Nat]
    BY <1>2, <1>3, DeploymentsAssumption
  <2> QED  BY <1>3, <1>4, <2>1, DeploymentsAssumption
<1>6. ConfigsOK(dcs)
  BY <1>3, <1>4, <1>5 DEF ConfigsOK, OrNone
<1>7. PICK first : first = [rank |-> 1, created |-> 1, owner |-> 1, version |-> 1, phase |-> "Complete", replicas |-> replicas]
  OBVIOUS
<1>8. rcs = {first} /\ first \in ControllerType /\ first.owner = 1 /\ first.version = 1 /\ first.created = 1
  BY <1>3, <1>5, <1>7, DeploymentsAssumption DEF DeploymentsInit, ControllerType
<1>9. VersionsAreCounted(rcs)
  <2>1. ASSUME NEW u \in 1..3
        PROVE  \E k \in Nat : {rc.version : rc \in ReplicationControllers(rcs, u)} = 1..k
    <3>1. CASE u = 1
      <4>1. ReplicationControllers(rcs, u) = {first}
        BY <1>8, <3>1 DEF ReplicationControllers
      <4>2. {rc.version : rc \in ReplicationControllers(rcs, u)} = 1..1
        BY <1>8, <4>1
      <4> QED  BY <4>2
    <3>2. CASE u # 1
      <4>1. ReplicationControllers(rcs, u) = {}
        BY <1>8, <3>2 DEF ReplicationControllers
      <4>2. {rc.version : rc \in ReplicationControllers(rcs, u)} = 1..0
        BY <4>1
      <4> QED  BY <4>2
    <3> QED  BY <3>1, <3>2
  <2> QED  BY <1>8, <2>1 DEF VersionsAreCounted
<1>10. ControllersOK(rcs, dcs)
  BY <1>3, <1>5, <1>8, <1>9 DEF ControllersOK, Ended
<1>11. req \in [Clients -> DRequestType] /\ \A c \in Clients : RequestIsRight(req[c], rcs, dcs)
  BY IdleIsRight DEF DeploymentsInit
<1>12. builds \in Seq(Annotations) /\ Len(builds) <= MaxBuilds /\ requests \in 0..MaxRequests
  BY DeploymentsAssumption DEF DeploymentsInit
<1>13. shown \in OrNone(ReferenceType) /\ KnownIn(shown, rcs, dcs) /\ ScaleReportsWhatItReplaced
  BY DEF DeploymentsInit, OrNone, KnownIn, ScaleReportsWhatItReplaced
<1> QED  BY <1>6, <1>10, <1>11, <1>12, <1>13 DEF DInv

\* A question about a view changes nothing else.
LEMMA NothingMoves ==
    ASSUME DInv, UNCHANGED <<cluster, req, shown, scaled, requests>>
    PROVE  DInv'
<1>1. UNCHANGED <<dcs, builds, rcs, req, shown, scaled, requests>>
  BY DEF cluster
<1> QED  BY <1>1 DEF DInv, ScaleReportsWhatItReplaced

\* One step per action.
LEMMA DStep == DInv /\ [DeploymentsNext]_deploymentVars => DInv'
<1> SUFFICES ASSUME DInv, [DeploymentsNext]_deploymentVars
             PROVE  DInv'
  OBVIOUS
<1>1. CASE UNCHANGED deploymentVars
  BY <1>1, NothingMoves DEF deploymentVars, cluster
<1>2. CASE UNCHANGED <<shown, scaled, asked, requests>> /\ Build
  BY <1>2, BuildStep
<1>3. ASSUME UNCHANGED <<shown, scaled, asked, requests>>, NEW n \in Names,
             CreateConfig(n) \/ DeleteConfig(n) \/ RollOut(n) \/ Follow(n) \/ \E rc \in rcs : Progress(n, rc)
      PROVE  DInv'
  BY <1>3, ConfigStep, RollOutStep, FollowStep, ProgressStep
<1>4. ASSUME NEW c \in Clients,
             StartRequest(c, "get", 0) \/ \E n \in 0..MaxReplicas : StartRequest(c, "scale", n)
      PROVE  DInv'
  <2>1. 0 \in 0..MaxReplicas
    BY DeploymentsAssumption
  <2> QED  BY <1>4, <2>1, StartStep
<1>5. ASSUME NEW c \in Clients,
             FindName(c) \/ GetConfig(c) \/ ListControllers(c) \/ ListPodsAndRoutes(c)
                \/ GetDeployment(c) \/ GetScale(c) \/ SetScale(c)
      PROVE  DInv'
  BY <1>5, FindNameStep, GetConfigStep, ListControllersStep, ListPodsStep, GetDeploymentStep, GetScaleStep, SetScaleStep
<1>6. ASSUME NEW q \in Questions, Ask(q)
      PROVE  DInv'
  BY <1>6, NothingMoves DEF Ask
<1> QED  BY <1>1, <1>2, <1>3, <1>4, <1>5, <1>6 DEF DeploymentsNext

\* The only step that answers is GetDeployment, and it shows what the request has found.
LEMMA AnswerShowsTheCurrent ==
    ASSUME DInv, DeploymentsNext, NEW c \in Clients, req[c].pc = "answer", req'[c].pc = "idle"
    PROVE  shown' = req[c].current
<1>1. req \in [Clients -> DRequestType]
  BY DEF DInv
<1>2. \A n : Outdated(n)[c].pc = req[c].pc
  <2> TAKE n
  <2>1. PICK r \in DRequestType : r = req[c]
    BY <1>1
  <2>2. [r EXCEPT !.fresh = FALSE].pc = r.pc
    BY DEF DRequestType
  <2> QED  BY <2>1, <2>2 DEF Outdated
<1>3. ~(req' = req) /\ \A n : ~(req' = Outdated(n))
  BY <1>2
<1>4. ASSUME NEW b \in Clients, b # c, NEW r
      PROVE  ~(req' = [req EXCEPT ![b] = r])
  BY <1>1, <1>4
<1>5. ASSUME NEW b \in Clients, b # c, NEW n
      PROVE  ~(req' = [Outdated(n) EXCEPT ![b] = Idle])
  <2>1. [Outdated(n) EXCEPT ![b] = Idle][c] = Outdated(n)[c]
    BY <1>5 DEF Outdated
  <2> QED  BY <1>2, <2>1
<1>6. ~Build
  BY <1>3 DEF Build
<1>7. ASSUME NEW n \in Names
      PROVE  ~CreateConfig(n) /\ ~DeleteConfig(n) /\ ~RollOut(n) /\ ~Follow(n) /\ \A rc \in rcs : ~Progress(n, rc)
  BY <1>3 DEF CreateConfig, DeleteConfig, RollOut, Follow, Progress
<1>8. ASSUME NEW q \in Questions
      PROVE  ~Ask(q)
  BY <1>3 DEF Ask
<1>9. PICK b \in Clients :
            \/ StartRequest(b, "get", 0)
            \/ \E n \in 0..MaxReplicas : StartRequest(b, "scale", n)
            \/ FindName(b) \/ GetConfig(b) \/ ListControllers(b) \/ ListPodsAndRoutes(b)
            \/ GetDeployment(b) \/ GetScale(b) \/ SetScale(b)
  BY <1>6, <1>7, <1>8 DEF DeploymentsNext
<1>10. CASE b = c
  <2>1. GetDeployment(c)
    BY <1>9, <1>10 DEF StartRequest, FindName, GetConfig, ListControllers, ListPodsAndRoutes, GetScale, SetScale
  <2> QED  BY <2>1 DEF GetDeployment
<1>11. CASE b # c
  <2>1. ~Done(b) /\ \A at, r, call : ~Go(b, at, r, call)
    BY <1>4, <1>11 DEF Done, Go
  <2>2. ~SetScale(b)
    BY <1>5, <1>11 DEF SetScale
  <2>3. ~ListPodsAndRoutes(b)
    <3>1. ASSUME ListPodsAndRoutes(b)
          PROVE  \E r : req' = [req EXCEPT ![b] = r]
      BY <1>1, <3>1 DEF ListPodsAndRoutes
    <3> QED  BY <1>4, <1>11, <3>1
  <2>4. \A op, want : ~StartRequest(b, op, want)
    BY <1>4, <1>11 DEF StartRequest
  <2>5. ~GetConfig(b) /\ ~GetScale(b) /\ ~GetDeployment(b) /\ ~FindName(b)
    BY <2>1 DEF GetConfig, GetScale, GetDeployment, FindName
  <2>6. ~ListControllers(b)
    BY <2>1 DEF ListControllers
  <2> QED  BY <1>9, <2>2, <2>3, <2>4, <2>5, <2>6
<1> QED  BY <1>10, <1>11

\* A client is never shown an earlier roll-out than before on its own account: only if the later
\* one has failed or went with its deployment config, at whatever points of the chain of calls the
\* cluster moved (getCurrentDeployment, GetDeployment).
THEOREM ShownNeverStepsBack == DeploymentsSpec => ShownMovesForward
<1> DEFINE Forward(c) ==
      /\ req[c].pc = "answer" /\ req'[c].pc = "idle"
      /\ req[c].floor # None /\ req[c].floor.owner = shown'.owner
      /\ shown'.created < req[c].floor.created
      => \A rc \in rcs : rc.owner = shown'.owner /\ rc.created = req[c].floor.created => rc.phase = "Failed"
<1>1. DInv /\ [DeploymentsNext]_deploymentVars => [\A c \in Clients : Forward(c)]_deploymentVars
  <2> SUFFICES ASSUME DInv, DeploymentsNext, NEW c \in Clients,
                      req[c].pc = "answer", req'[c].pc = "idle", req[c].floor # None,
                      req[c].floor.owner = shown'.owner, shown'.created < req[c].floor.created
               PROVE  \A rc \in rcs : rc.owner = shown'.owner /\ rc.created = req[c].floor.created => rc.phase = "Failed"
    OBVIOUS
  <2>1. shown' = req[c].current
    BY AnswerShowsTheCurrent
  <2>2. NoStepBack(req[c], rcs)
    BY DEF DInv, RequestIsRight
  <2> QED  BY <2>1, <2>2 DEF NoStepBack
<1> QED  BY <1>1, DInit, DStep, PTL DEF DeploymentsSpec, ShownMovesForward

\* What a request reports of the scale it has replaced, and the calls it makes.
RequestsAreRight == DeploymentsTypeOK /\ ScaleReportsWhatItReplaced /\ CallsAreChecked

\* The invariant implies what is promised of requests.
LEMMA DSound == DInv => RequestsAreRight
<1> SUFFICES ASSUME DInv
             PROVE  DeploymentsTypeOK /\ ScaleReportsWhatItReplaced /\ CallsAreChecked
  BY DEF RequestsAreRight
<1>1. \A n \in Names : dcs[n] = None \/ dcs[n].replicas \in 0..MaxReplicas
  BY DEF DInv, ConfigsOK, OrNone, ConfigType
<1>2. /\ \A rc \in rcs : /\ rc.created \in 1..MaxRollOuts /\ rc.replicas \in 0..MaxReplicas
                         /\ rc.phase \in {"New", "Pending", "Running", "Complete", "Failed"}
      /\ \A rc, o \in rcs : rc.created = o.created => rc = o
  BY DEF DInv, ControllersOK, ControllerType
<1>3. ASSUME NEW c \in Clients
      PROVE  /\ req[c].current = None \/ req[c].current.created \in 1..MaxRollOuts
             /\ req[c].pc \notin {"idle", "builds"} => req[c].name \in Names
             /\ req[c].calls \subseteq
                    GetBuildsRules \cup (IF req[c].op = "scale" THEN ScaleDeploymentRules ELSE GetDeploymentRules)
  <2>1. req[c] \in DRequestType /\ InOrder(req[c])
    BY DEF DInv, RequestIsRight
  <2> QED  BY <2>1 DEF InOrder, DRequestType, OrNone, ReferenceType
<1> QED  BY <1>1, <1>2, <1>3 DEF DInv, DeploymentsTypeOK, CallsAreChecked

\* A request that scales reports the number of replicas it has replaced, although others scale and
\* roll out between its two calls; every call of a request is one that the client was checked for;
\* and the state keeps its types.
THEOREM DeploymentRequestsAreRight == DeploymentsSpec => []RequestsAreRight
  BY DInit, DStep, DSound, PTL DEF DeploymentsSpec

-------------------------------------------------------------------------------
(* EventWatch: versions only grow along the way of an event (wire, FIFO,     *)
(* hand, client), the keys of the FIFO's items are queued, and the last      *)
(* message about an event, or else what became of it, is its newest state.   *)

Message == [key : Keys, version : Nat]

WatchTypes ==
    /\ events \in [Keys -> Nat] /\ items \in [Keys -> Nat] /\ sent \in [Keys -> Nat]
    /\ clock \in Nat /\ lists \in Nat
    /\ wire \in Seq(Message) /\ queue \in Seq(Keys)
    /\ hand \in SUBSET Message /\ (\A e, f \in hand : e = f)
    /\ watch \in {"up", "down"} /\ (watch = "down" => wire = <<>>)
    /\ handler \in {"pop", "send", "done"} /\ (handler # "send" => hand = {})
    /\ lists = 0 => /\ watch = "down" /\ hand = {}
                    /\ \A k \in Keys : sent[k] = 0 /\ items[k] = 0

VersionsGrow ==
    /\ \A k \in Keys :
         /\ events[k] <= clock /\ items[k] <= clock /\ sent[k] <= clock
         /\ events[k] # 0 => events[k] >= items[k] /\ events[k] >= sent[k]
         /\ items[k] # 0 => items[k] >= sent[k] /\ (lists <= 1 => items[k] > sent[k])
    /\ \A e \in hand :
         /\ e.version # 0 /\ e.version <= clock
         /\ e.version >= sent[e.key] /\ (lists <= 1 => e.version > sent[e.key])
         /\ events[e.key] # 0 => events[e.key] >= e.version
         /\ items[e.key] # 0 => items[e.key] >= e.version /\ (lists <= 1 => items[e.key] > e.version)

\* Message n is newer than all that is further on its way.
MessageIsNewer(n) ==
    LET k == wire[n].key
        v == wire[n].version
    IN /\ v <= clock /\ (events[k] # 0 => events[k] >= v)
       /\ v # 0 => /\ v > items[k] /\ v > sent[k]
                   /\ \A e \in hand : e.key = k => v > e.version
                   /\ \A m \in 1..(n - 1) : wire[m].key = k => v > wire[m].version

WireIsNewer == \A n \in 1..Len(wire) : MessageIsNewer(n)

ItemsAreQueued == \A k \in Keys : items[k] # 0 => \E n \in 1..Len(queue) : queue[n] = k

\* No message about event k is under way.
Quiet(k) == \A n \in 1..Len(wire) : wire[n].key # k

WireIsFresh ==
    \A n \in 1..Len(wire) : \E m \in n..Len(wire) : wire[m] = [key |-> wire[n].key, version |-> events[wire[n].key]]

StoreIsFresh ==
    handler # "done" /\ watch = "up" =>
        \A k \in Keys : Quiet(k) =>
            \/ items[k] = events[k]
            \/ /\ items[k] = 0
               /\ sent[k] = events[k] \/ [key |-> k, version |-> events[k]] \in hand

WatchInv ==
    WatchTypes /\ VersionsGrow /\ WireIsNewer /\ ItemsAreQueued /\ WireIsFresh /\ StoreIsFresh

\* What is left of a queue without its first n elements.
LEMMA RestOfQueue ==
    ASSUME NEW S, NEW q \in Seq(S), NEW n \in 1..Len(q)
    PROVE  /\ SubSeq(q, n + 1, Len(q)) \in Seq(S) /\ Len(SubSeq(q, n + 1, Len(q))) = Len(q) - n
           /\ \A m \in 1..(Len(q) - n) : SubSeq(q, n + 1, Len(q))[m] = q[m + n]
<1>1. Len(q) \in Nat /\ n \in Nat /\ n <= Len(q)
  OBVIOUS
<1> DEFINE rest == SubSeq(q, n + 1, Len(q))
<1>2. rest \in Seq(S)
  BY <1>1
<1>3. Len(rest) = Len(q) - n
  BY <1>1
<1>4. \A m \in 1..(Len(q) - n) : rest[m] = q[m + n]
  BY <1>1, <1>3
<1> QED  BY <1>2, <1>3, <1>4

LEMMA WatchChange == WatchInv /\ Change => WatchInv'
<1> SUFFICES ASSUME WatchInv, Change  PROVE  WatchInv'
  OBVIOUS
<1>1. /\ clock' = clock + 1
      /\ UNCHANGED <<watch, lists, items, queue, sent, hand, handler>>
  BY DEF Change, storeVars, handlerVars
<1>2. PICK k \in Keys, v \in {0, clock + 1} :
         /\ v # events[k] /\ events' = [events EXCEPT ![k] = v]
         /\ wire' = IF watch = "up" THEN Append(wire, [key |-> k, version |-> v]) ELSE wire
  BY DEF Change
<1>3. WatchTypes
  BY DEF WatchInv
<1>4. /\ events' \in [Keys -> Nat] /\ events'[k] = v /\ (\A j \in Keys : j # k => events'[j] = events[j])
      /\ v \in Nat /\ clock \in Nat
  BY <1>2, <1>3 DEF WatchTypes
<1>5. WatchTypes'
  <2>1. [key |-> k, version |-> v] \in Message
    BY <1>4 DEF Message
  <2>2. wire' \in Seq(Message) /\ (watch = "down" => wire' = <<>>)
    BY <1>2, <1>3, <2>1 DEF WatchTypes
  <2> QED  BY <1>1, <1>3, <1>4, <2>2 DEF WatchTypes
<1>6. VersionsGrow'
  <2>1. ASSUME NEW j \in Keys
        PROVE  /\ events'[j] <= clock' /\ items[j] <= clock' /\ sent[j] <= clock'
               /\ events'[j] # 0 => events'[j] >= items[j] /\ events'[j] >= sent[j]
    <3>1. /\ events[j] <= clock /\ items[j] <= clock /\ sent[j] <= clock
          /\ events[j] # 0 => events[j] >= items[j] /\ events[j] >= sent[j]
          /\ events[j] \in Nat /\ items[j] \in Nat /\ sent[j] \in Nat
      BY <1>3 DEF WatchInv, VersionsGrow, WatchTypes
    <3>2. CASE j = k
      BY <1>1, <1>2, <1>4, <3>1, <3>2
    <3>3. CASE j # k
      BY <1>1, <1>4, <3>1, <3>3
    <3> QED  BY <3>2, <3>3
  <2>2. ASSUME NEW e \in hand
        PROVE  e.version <= clock' /\ (events'[e.key] # 0 => events'[e.key] >= e.version)
    <3>1. e.key \in Keys /\ e.version \in Nat
      BY <1>3 DEF WatchTypes, Message
    <3>2. e.version <= clock /\ (events[e.key] # 0 => events[e.key] >= e.version)
      BY DEF WatchInv, VersionsGrow
    <3>3. events'[e.key] = events[e.key] \/ events'[e.key] \in {0, clock + 1}
      BY <1>4, <3>1
    <3> QED  BY <1>1, <1>4, <3>1, <3>2, <3>3
  <2>3. VersionsGrow
    BY DEF WatchInv
  <2> QED  BY <1>1, <2>1, <2>2, <2>3 DEF VersionsGrow
<1>7. ItemsAreQueued'
  BY <1>1 DEF WatchInv, ItemsAreQueued
<1>8. CASE watch = "down"
  <2>1. wire' = <<>> /\ Len(wire') = 0 /\ watch' # "up"
    BY <1>1, <1>2, <1>3, <1>8 DEF WatchTypes
  <2>2. WireIsNewer' /\ WireIsFresh' /\ StoreIsFresh'
    BY <2>1 DEF WireIsNewer, WireIsFresh, StoreIsFresh
  <2> QED  BY <1>5, <1>6, <1>7, <2>2 DEF WatchInv
<1>9. CASE watch = "up"
  <2>0. PICK L \in Nat : L = Len(wire)
    BY <1>3 DEF WatchTypes
  <2> DEFINE new == [key |-> k, version |-> v]
  <2>1. /\ L \in Nat /\ Len(wire') = L + 1 /\ wire'[L + 1] = new
        /\ \A n \in 1..L : wire'[n] = wire[n] /\ wire[n] \in Message
    BY <1>2, <1>3, <1>9, <2>0 DEF WatchTypes
  <2>2. WireIsNewer'
    <3>1. ASSUME NEW n \in 1..L  PROVE  MessageIsNewer(n)'
      <4>1. MessageIsNewer(n) /\ wire'[n] = wire[n] /\ wire[n].key \in Keys /\ wire[n].version \in Nat
        BY <2>0, <2>1 DEF WatchInv, WireIsNewer, Message
      <4>2. \A m \in 1..(n - 1) : wire'[m] = wire[m]
        BY <2>1
      <4>3. events'[wire[n].key] = events[wire[n].key] \/ events'[wire[n].key] \in {0, clock + 1}
        BY <1>4, <4>1
      <4>4. /\ wire[n].version <= clock
            /\ events[wire[n].key] # 0 => events[wire[n].key] >= wire[n].version
            /\ wire[n].version # 0 => /\ wire[n].version > items[wire[n].key] /\ wire[n].version > sent[wire[n].key]
                   /\ \A e \in hand : e.key = wire[n].key => wire[n].version > e.version
                   /\ \A m \in 1..(n - 1) : wire[m].key = wire[n].key => wire[n].version > wire[m].version
        BY <4>1 DEF MessageIsNewer
      <4>5. wire[n].version <= clock' /\ (events'[wire[n].key] # 0 => events'[wire[n].key] >= wire[n].version)
        BY <1>1, <1>4, <4>1, <4>3, <4>4
      <4> QED  BY <1>1, <4>1, <4>2, <4>4, <4>5 DEF MessageIsNewer
    <3>2. MessageIsNewer(L + 1)'
      <4>1. new.key = k /\ new.version = v
        OBVIOUS
      <4>2. ASSUME v # 0  PROVE  v > items[k] /\ v > sent[k] /\ \A e \in hand : e.key = k => v > e.version
        <5>1. v = clock + 1 /\ VersionsGrow
          BY <1>2, <4>2 DEF WatchInv
        <5>2. items[k] <= clock /\ sent[k] <= clock /\ items[k] \in Nat /\ sent[k] \in Nat
          BY <1>3, <5>1 DEF VersionsGrow, WatchTypes
        <5>3. \A e \in hand : e.version <= clock /\ e.version \in Nat
          BY <1>3, <5>1 DEF VersionsGrow, WatchTypes, Message
        <5> QED  BY <1>4, <5>1, <5>2, <5>3
      <4>3. ASSUME v # 0, NEW m \in 1..L  PROVE  v > wire[m].version
        <5>1. MessageIsNewer(m) /\ wire[m].version \in Nat
          BY <2>0, <2>1 DEF WatchInv, WireIsNewer, Message
        <5>2. wire[m].version <= clock
          BY <5>1 DEF MessageIsNewer
        <5>3. v = clock + 1
          BY <1>2, <4>3
        <5> QED  BY <1>4, <5>1, <5>2, <5>3
      <4>4. v # 0 => \A m \in 1..((L + 1) - 1) : wire'[m].key = k => v > wire'[m].version
        <5>1. \A m \in 1..((L + 1) - 1) : m \in 1..L /\ wire'[m] = wire[m]
          BY <2>1
        <5> QED  BY <4>3, <5>1
      <4>5. v <= clock' /\ (events'[k] # 0 => events'[k] >= v)
        BY <1>1, <1>4
      <4>6. wire'[L + 1].key = k /\ wire'[L + 1].version = v
        BY <2>1, <4>1
      <4> HIDE DEF new
      <4> QED  BY <1>1, <4>2, <4>4, <4>5, <4>6 DEF MessageIsNewer
    <3>3. \A n \in 1..Len(wire') : n \in 1..L \/ n = L + 1
      BY <2>1
    <3> QED  BY <3>1, <3>2, <3>3 DEF WireIsNewer
  <2>3. WireIsFresh'
    <3> SUFFICES ASSUME NEW n \in 1..(L + 1)
                 PROVE  \E m \in n..(L + 1) : wire'[m] = [key |-> wire'[n].key, version |-> events'[wire'[n].key]]
      BY <2>1 DEF WireIsFresh
    <3>1. CASE wire'[n].key = k
      BY <1>4, <2>1, <3>1
    <3>2. CASE wire'[n].key # k
      <4>1. n \in 1..L
        BY <2>1, <3>2
      <4>2. PICK m \in n..L : wire[m] = [key |-> wire[n].key, version |-> events[wire[n].key]]
        BY <2>0, <4>1 DEF WatchInv, WireIsFresh
      <4>3. wire'[n] = wire[n] /\ wire'[m] = wire[m] /\ wire[n].key \in Keys
        BY <2>1, <4>1 DEF Message
      <4> QED  BY <1>4, <2>1, <3>2, <4>1, <4>2, <4>3
    <3> QED  BY <3>1, <3>2
  <2>4. StoreIsFresh'
    <3> SUFFICES ASSUME handler' # "done", NEW j \in Keys, Quiet(j)'
                 PROVE  \/ items'[j] = events'[j]
                        \/ /\ items'[j] = 0
                           /\ sent'[j] = events'[j] \/ [key |-> j, version |-> events'[j]] \in hand'
      BY DEF StoreIsFresh
    <3>1. j # k
      BY <2>1 DEF Quiet
    <3>2. Quiet(j)
      BY <2>0, <2>1 DEF Quiet
    <3> QED  BY <1>1, <1>4, <1>9, <3>1, <3>2 DEF WatchInv, StoreIsFresh
  <2> QED  BY <1>5, <1>6, <1>7, <2>2, <2>3, <2>4 DEF WatchInv
<1> QED  BY <1>3, <1>8, <1>9 DEF WatchTypes

LEMMA WatchRelist == WatchInv /\ Relist => WatchInv'
<1> SUFFICES ASSUME WatchInv, Relist  PROVE  WatchInv'
  OBVIOUS
<1> DEFINE S == {k \in Keys : events[k] # 0}
<1>1. /\ watch' = "up" /\ lists' = lists + 1 /\ wire' = <<>> /\ Len(wire') = 0
      /\ items' = events /\ queue' \in Orders(S)
      /\ UNCHANGED <<events, clock, sent, hand, handler>>
  BY DEF Relist, eventVars, handlerVars
<1>2. WatchTypes /\ VersionsGrow
  BY DEF WatchInv
<1>3. Cardinality(S) \in Nat
  BY WatchAssumption, FS_Subset, FS_CardinalityType
<1>4. /\ queue' \in Seq(Keys) /\ Len(queue') = Cardinality(S)
      /\ \A k \in S : \E n \in 1..Cardinality(S) : queue'[n] = k
  <2>1. /\ queue' \in [1..Cardinality(S) -> S]
        /\ \A k \in S : \E n \in 1..Cardinality(S) : queue'[n] = k
    BY <1>1 DEF Orders
  <2>2. S \subseteq Keys
    OBVIOUS
  <2>3. PICK c \in Nat : c = Cardinality(S)
    BY <1>3
  <2> HIDE DEF S
  <2>4. queue' \in Seq(Keys) /\ Len(queue') = c
    BY <2>1, <2>2, <2>3
  <2> QED  BY <2>1, <2>3, <2>4
<1>5. WatchTypes'
  <2>1. wire' \in Seq(Message)
    BY <1>1
  <2> QED  BY <1>1, <1>2, <1>4, <2>1 DEF WatchTypes
<1>6. lists' <= 1 => lists = 0
  BY <1>1, <1>2 DEF WatchTypes
<1>7. VersionsGrow'
  <2>1. ASSUME NEW k \in Keys
        PROVE  /\ events[k] <= clock /\ sent[k] <= clock
               /\ events[k] # 0 => events[k] >= sent[k] /\ (lists' <= 1 => events[k] > sent[k])
    BY <1>2, <1>6 DEF WatchTypes, VersionsGrow
  <2>2. ASSUME NEW e \in hand
        PROVE  /\ e.version # 0 /\ e.version <= clock /\ e.version >= sent[e.key] /\ ~(lists' <= 1)
               /\ events[e.key] # 0 => events[e.key] >= e.version
    BY <1>2, <1>6 DEF WatchTypes, VersionsGrow
  <2> QED  BY <1>1, <1>2, <2>1, <2>2 DEF VersionsGrow, WatchTypes
<1>8. ItemsAreQueued'
  BY <1>1, <1>4 DEF ItemsAreQueued
<1>9. WireIsNewer' /\ WireIsFresh' /\ StoreIsFresh'
  BY <1>1 DEF WireIsNewer, WireIsFresh, StoreIsFresh
<1> QED  BY <1>5, <1>7, <1>8, <1>9 DEF WatchInv

LEMMA WatchDeliver == WatchInv /\ Deliver => WatchInv'
<1> SUFFICES ASSUME WatchInv, Deliver  PROVE  WatchInv'
  OBVIOUS
<1> DEFINE k == wire[1].key
           v == wire[1].version
           L == Len(wire)
<1>1. /\ wire # <<>> /\ wire' = Tail(wire)
      /\ items' = [items EXCEPT ![k] = v]
      /\ queue' = IF v # 0 /\ items[k] = 0 THEN Append(queue, k) ELSE queue
      /\ UNCHANGED <<events, clock, watch, lists, sent, hand, handler>>
  <2>1. wire # <<>> /\ wire \in Seq(Message)
    BY DEF Deliver, WatchInv, WatchTypes
  <2>2. Head(wire) = wire[1]
    BY <2>1
  <2> QED  BY <2>2 DEF Deliver, eventVars, handlerVars
<1>2. WatchTypes /\ VersionsGrow
  BY DEF WatchInv
<1>3. /\ L \in Nat \ {0} /\ Len(wire') = L - 1 /\ wire' \in Seq(Message)
      /\ \A n \in 1..L : wire[n] \in Message
      /\ \A n \in 1..(L - 1) : wire'[n] = wire[n + 1]
  BY <1>1, <1>2 DEF WatchTypes
<1>4. wire[1] \in Message /\ k \in Keys /\ v \in Nat
  BY <1>3 DEF Message
<1>5. items' \in [Keys -> Nat] /\ items'[k] = v /\ \A j \in Keys : j # k => items'[j] = items[j]
  BY <1>1, <1>2, <1>4 DEF WatchTypes
<1>6. lists # 0 /\ watch = "up"
  BY <1>1, <1>2 DEF WatchTypes
<1>7. /\ v <= clock /\ (events[k] # 0 => events[k] >= v)
      /\ v # 0 => v > items[k] /\ v > sent[k] /\ \A e \in hand : e.key = k => v > e.version
  <2>1. MessageIsNewer(1)
    BY <1>3 DEF WatchInv, WireIsNewer
  <2> QED  BY <2>1 DEF MessageIsNewer
<1> HIDE DEF k, v, L
<1>8. WatchTypes'
  <2>1. queue' \in Seq(Keys)
    BY <1>1, <1>2, <1>4 DEF WatchTypes
  <2> QED  BY <1>1, <1>2, <1>3, <1>5, <1>6, <2>1 DEF WatchTypes
<1>9. VersionsGrow'
  <2>1. ASSUME NEW j \in Keys
        PROVE  /\ events[j] <= clock /\ items'[j] <= clock /\ sent[j] <= clock
               /\ events[j] # 0 => events[j] >= items'[j] /\ events[j] >= sent[j]
               /\ items'[j] # 0 => items'[j] >= sent[j] /\ (lists <= 1 => items'[j] > sent[j])
    <3>1. CASE j = k
      BY <1>2, <1>4, <1>5, <1>7, <3>1 DEF VersionsGrow, WatchTypes
    <3>2. CASE j # k
      BY <1>2, <1>5, <3>2 DEF VersionsGrow, WatchTypes
    <3> QED  BY <3>1, <3>2
  <2>2. ASSUME NEW e \in hand
        PROVE  items'[e.key] # 0 => items'[e.key] >= e.version /\ (lists <= 1 => items'[e.key] > e.version)
    <3>1. e.key \in Keys /\ e.version \in Nat
      BY <1>2 DEF WatchTypes, Message
    <3>2. CASE e.key = k
      BY <1>4, <1>5, <1>7, <3>1, <3>2
    <3>3. CASE e.key # k
      BY <1>2, <1>5, <3>1, <3>3 DEF VersionsGrow
    <3> QED  BY <3>2, <3>3
  <2> QED  BY <1>1, <1>2, <2>1, <2>2 DEF VersionsGrow
<1>10. WireIsNewer'
  <2> SUFFICES ASSUME NEW n \in 1..(L - 1)  PROVE  MessageIsNewer(n)'
    BY <1>3 DEF WireIsNewer
  <2> DEFINE j == wire[n + 1].key
             w == wire[n + 1].version
  <2>1. MessageIsNewer(n + 1) /\ wire'[n] = wire[n + 1] /\ j \in Keys /\ w \in Nat
    BY <1>3 DEF WatchInv, WireIsNewer, L, Message
  <2>2. /\ w <= clock /\ (events[j] # 0 => events[j] >= w)
        /\ w # 0 => /\ w > items[j] /\ w > sent[j]
                    /\ \A e \in hand : e.key = j => w > e.version
                    /\ \A m \in 1..((n + 1) - 1) : wire[m].key = j => w > wire[m].version
    BY <2>1 DEF MessageIsNewer
  <2>3. w # 0 => w > items'[j]
    <3>1. CASE j = k
      <4>1. 1 \in 1..((n + 1) - 1)
        BY <1>3
      <4> QED  BY <1>5, <2>2, <3>1, <4>1 DEF k, v
    <3>2. CASE j # k
      BY <1>5, <2>1, <2>2, <3>2
    <3> QED  BY <3>1, <3>2
  <2>4. ASSUME w # 0, NEW m \in 1..(n - 1)  PROVE  wire'[m].key = j => w > wire'[m].version
    <3>1. m + 1 \in 1..((n + 1) - 1) /\ wire'[m] = wire[m + 1]
      BY <1>3
    <3> QED  BY <2>2, <2>4, <3>1
  <2> HIDE DEF j, w
  <2>5. wire'[n].key = j /\ wire'[n].version = w
    BY <2>1 DEF j, w
  <2> QED  BY <1>1, <2>2, <2>3, <2>4, <2>5 DEF MessageIsNewer
<1>11. ItemsAreQueued'
  <2> SUFFICES ASSUME NEW j \in Keys, items'[j] # 0  PROVE  \E n \in 1..Len(queue') : queue'[n] = j
    BY DEF ItemsAreQueued
  <2>1. queue \in Seq(Keys) /\ Len(queue) \in Nat
    BY <1>2 DEF WatchTypes
  <2>2. \A n \in 1..Len(queue) : n \in 1..Len(queue') /\ queue'[n] = queue[n]
    BY <1>1, <1>4, <2>1
  <2>3. CASE items[j] # 0
    BY <2>2, <2>3 DEF WatchInv, ItemsAreQueued
  <2>4. CASE items[j] = 0
    <3>1. j = k /\ v # 0
      BY <1>5, <2>4
    <3>2. queue' = Append(queue, k)
      BY <1>1, <2>4, <3>1
    <3> QED  BY <1>4, <2>1, <3>1, <3>2
  <2> QED  BY <2>3, <2>4
<1>12. WireIsFresh'
  <2> SUFFICES ASSUME NEW n \in 1..(L - 1)
               PROVE  \E m \in n..(L - 1) : wire'[m] = [key |-> wire'[n].key, version |-> events'[wire'[n].key]]
    BY <1>3 DEF WireIsFresh
  <2>1. n + 1 \in 1..L /\ wire'[n] = wire[n + 1]
    BY <1>3
  <2>2. PICK m \in (n + 1)..L : wire[m] = [key |-> wire[n + 1].key, version |-> events[wire[n + 1].key]]
    BY <2>1 DEF WatchInv, WireIsFresh, L
  <2>3. m - 1 \in n..(L - 1) /\ wire'[m - 1] = wire[m]
    BY <1>3
  <2> QED  BY <1>1, <2>1, <2>2, <2>3
<1>13. StoreIsFresh'
  <2> SUFFICES ASSUME handler # "done", NEW j \in Keys, Quiet(j)'
               PROVE  \/ items'[j] = events[j]
                      \/ /\ items'[j] = 0
                         /\ sent[j] = events[j] \/ [key |-> j, version |-> events[j]] \in hand
    BY <1>1 DEF StoreIsFresh
  <2>1. \A n \in 2..L : wire[n].key # j
    <3> SUFFICES ASSUME NEW n \in 2..L  PROVE  wire[n].key # j
      OBVIOUS
    <3>1. n - 1 \in 1..(L - 1) /\ wire'[n - 1] = wire[n]
      BY <1>3
    <3> QED  BY <1>3, <3>1 DEF Quiet
  <2>2. CASE j = k
    <3>1. PICK m \in 1..L : wire[m] = [key |-> k, version |-> events[k]]
      BY <1>3 DEF WatchInv, WireIsFresh, L, k
    <3>2. m = 1
      BY <2>1, <2>2, <3>1
    <3> QED  BY <1>5, <2>2, <3>1, <3>2 DEF v
  <2>3. CASE j # k
    <3>1. Quiet(j)
      BY <2>1, <2>3 DEF Quiet, k, L
    <3> QED  BY <1>5, <1>6, <2>3, <3>1 DEF WatchInv, StoreIsFresh
  <2> QED  BY <2>2, <2>3
<1> QED  BY <1>8, <1>9, <1>10, <1>11, <1>12, <1>13 DEF WatchInv

LEMMA WatchPop == WatchInv /\ Pop => WatchInv'
<1> SUFFICES ASSUME WatchInv, Pop  PROVE  WatchInv'
  OBVIOUS
<1>1. UNCHANGED <<events, clock, watch, lists, wire, sent>> /\ handler = "pop"
  BY DEF Pop, eventVars, reflectorVars
<1>2. WatchTypes /\ VersionsGrow /\ hand = {}
  BY <1>1 DEF WatchInv, WatchTypes
<1>3. WireIsFresh'
  BY <1>1 DEF WatchInv, WireIsFresh
<1>4. CASE queue' = <<>> /\ items' = items /\ hand' = {} /\ handler' \in {"pop", "done"}
           /\ \A n \in DOMAIN queue : items[queue[n]] = 0
  <2>1. \A k \in Keys : items[k] = 0
    <3>1. DOMAIN queue = 1..Len(queue)
      BY <1>2 DEF WatchTypes
    <3> QED  BY <1>4, <3>1 DEF WatchInv, ItemsAreQueued
  <2>2. WatchTypes'
    BY <1>1, <1>2, <1>4 DEF WatchTypes
  <2>3. VersionsGrow'
    BY <1>1, <1>2, <1>4 DEF VersionsGrow
  <2>4. WireIsNewer'
    BY <1>1, <1>2, <1>4 DEF WatchInv, WireIsNewer, MessageIsNewer
  <2>5. ItemsAreQueued'
    BY <1>4, <2>1 DEF ItemsAreQueued
  <2>6. StoreIsFresh'
    BY <1>1, <1>2, <1>4 DEF WatchInv, StoreIsFresh, Quiet
  <2> QED  BY <1>3, <2>2, <2>3, <2>4, <2>5, <2>6 DEF WatchInv
<1>5. ASSUME NEW n \in DOMAIN queue,
             items[queue[n]] # 0, \A m \in 1..(n - 1) : items[queue[m]] = 0,
             hand' = {[key |-> queue[n], version |-> items[queue[n]]]}, handler' = "send",
             items' = [items EXCEPT ![queue[n]] = 0],
             queue' = SubSeq(queue, n + 1, Len(queue))
      PROVE  WatchInv'
  <2> DEFINE k == queue[n]
             v == items[k]
             e == [key |-> k, version |-> v]
  <2>1. /\ queue \in Seq(Keys) /\ Len(queue) \in Nat /\ n \in 1..Len(queue) /\ k \in Keys /\ v \in Nat /\ v # 0
        /\ items \in [Keys -> Nat]
    <3>1. queue \in Seq(Keys) /\ items \in [Keys -> Nat]
      BY <1>2 DEF WatchTypes
    <3>2. DOMAIN queue = 1..Len(queue) /\ Len(queue) \in Nat
      BY <3>1
    <3>3. queue[n] \in Keys
      BY <3>1, <3>2
    <3> QED  BY <1>5, <3>1, <3>2, <3>3
  <2>2. items' \in [Keys -> Nat] /\ items'[k] = 0 /\ \A j \in Keys : j # k => items'[j] = items[j]
    BY <1>5, <2>1
  <2>3. /\ queue' \in Seq(Keys) /\ Len(queue') = Len(queue) - n
        /\ \A m \in 1..(Len(queue) - n) : queue'[m] = queue[m + n]
    BY <1>5, <2>1, RestOfQueue
  <2>4. e \in Message /\ hand' = {e} /\ e.key = k /\ e.version = v
    BY <1>5, <2>1 DEF Message
  <2>z. lists # 0
    BY <1>2, <2>1 DEF WatchTypes
  <2> HIDE DEF k, v, e
  <2>5. WatchTypes'
    BY <1>1, <1>2, <1>5, <2>2, <2>3, <2>4, <2>z DEF WatchTypes
  <2>6. VersionsGrow'
    <3>1. ASSUME NEW j \in Keys
          PROVE  /\ events[j] <= clock /\ items'[j] <= clock /\ sent[j] <= clock
                 /\ events[j] # 0 => events[j] >= items'[j] /\ events[j] >= sent[j]
                 /\ items'[j] # 0 => items'[j] >= sent[j] /\ (lists <= 1 => items'[j] > sent[j])
      <4>1. CASE j = k
        BY <1>2, <2>2, <4>1 DEF VersionsGrow, WatchTypes
      <4>2. CASE j # k
        BY <1>2, <2>2, <4>2 DEF VersionsGrow
      <4> QED  BY <4>1, <4>2
    <3>2. /\ v # 0 /\ v <= clock /\ v >= sent[k] /\ (lists <= 1 => v > sent[k])
          /\ events[k] # 0 => events[k] >= v
      BY <1>2, <2>1 DEF VersionsGrow, v
    <3> QED  BY <1>1, <2>2, <2>4, <3>1, <3>2 DEF VersionsGrow
  <2>7. WireIsNewer'
    <3> SUFFICES ASSUME NEW m \in 1..Len(wire)  PROVE  MessageIsNewer(m)'
      BY <1>1 DEF WireIsNewer
    <3>1. MessageIsNewer(m) /\ wire[m].key \in Keys /\ wire[m].version \in Nat
      <4>1. wire[m] \in Message
        BY <1>2 DEF WatchTypes
      <4> QED  BY <4>1 DEF WatchInv, WireIsNewer, Message
    <3>2. wire[m].version # 0 => wire[m].version > items'[wire[m].key]
      BY <2>2, <3>1 DEF MessageIsNewer
    <3>3. wire[m].version # 0 => \A f \in hand' : f.key = wire[m].key => wire[m].version > f.version
      BY <2>4, <3>1 DEF MessageIsNewer, v
    <3> QED  BY <1>1, <3>1, <3>2, <3>3 DEF MessageIsNewer
  <2>8. ItemsAreQueued'
    <3> SUFFICES ASSUME NEW j \in Keys, items'[j] # 0  PROVE  \E m \in 1..Len(queue') : queue'[m] = j
      BY DEF ItemsAreQueued
    <3>1. items[j] # 0 /\ j # k
      BY <2>2
    <3>2. PICK m \in 1..Len(queue) : queue[m] = j
      BY <3>1 DEF WatchInv, ItemsAreQueued
    <3>3. m > n
      BY <1>5, <2>1, <3>1, <3>2 DEF k
    <3>4. m - n \in 1..(Len(queue) - n) /\ queue'[m - n] = queue[m]
      <4>1. m - n \in 1..(Len(queue) - n) /\ (m - n) + n = m
        BY <2>1, <3>3
      <4> QED  BY <2>3, <4>1
    <3> QED  BY <2>3, <3>2, <3>4
  <2>9. StoreIsFresh'
    <3> SUFFICES ASSUME watch = "up", NEW j \in Keys, Quiet(j)
                 PROVE  \/ items'[j] = events[j]
                        \/ /\ items'[j] = 0
                           /\ sent[j] = events[j] \/ [key |-> j, version |-> events[j]] \in hand'
      BY <1>1 DEF StoreIsFresh, Quiet
    <3>1. \/ items[j] = events[j]
          \/ items[j] = 0 /\ (sent[j] = events[j] \/ [key |-> j, version |-> events[j]] \in hand)
      BY <1>1 DEF WatchInv, StoreIsFresh
    <3>2. CASE j = k
      BY <2>1, <2>2, <2>4, <3>1, <3>2 DEF v, e
    <3>3. CASE j # k
      BY <1>2, <2>2, <3>1, <3>3
    <3> QED  BY <3>2, <3>3
  <2> QED  BY <1>3, <2>5, <2>6, <2>7, <2>8, <2>9 DEF WatchInv
<1> QED  BY <1>2, <1>4, <1>5 DEF Pop, Return

LEMMA WatchSend == WatchInv /\ Send => WatchInv'
<1> SUFFICES ASSUME WatchInv, Send  PROVE  WatchInv'
  OBVIOUS
<1>1. UNCHANGED <<events, clock, watch, lists, wire, items, queue>> /\ handler = "send" /\ hand' = {}
  BY DEF Send, Return, eventVars, reflectorVars
<1>2. WatchTypes /\ VersionsGrow
  BY DEF WatchInv
<1>3. WireIsFresh' /\ ItemsAreQueued'
  BY <1>1 DEF WatchInv, WireIsFresh, ItemsAreQueued
<1>4. CASE handler' = "done" /\ sent' = sent
  <2>1. WatchTypes'
    BY <1>1, <1>2, <1>4 DEF WatchTypes
  <2>2. VersionsGrow'
    BY <1>1, <1>2, <1>4 DEF VersionsGrow
  <2>3. WireIsNewer'
    BY <1>1, <1>4 DEF WatchInv, WireIsNewer, MessageIsNewer
  <2> QED  BY <1>3, <1>4, <2>1, <2>2, <2>3 DEF WatchInv, StoreIsFresh
<1>5. ASSUME NEW e \in hand, sent' = [sent EXCEPT ![e.key] = e.version], handler' = "pop"
      PROVE  WatchInv'
  <2> DEFINE k == e.key
             v == e.version
  <2>1. k \in Keys /\ v \in Nat /\ v # 0 /\ v <= clock /\ e = [key |-> k, version |-> v]
    BY <1>2 DEF WatchTypes, VersionsGrow, Message
  <2>2. sent' \in [Keys -> Nat] /\ sent'[k] = v /\ \A j \in Keys : j # k => sent'[j] = sent[j]
    BY <1>2, <1>5, <2>1 DEF WatchTypes
  <2>3. /\ events[k] # 0 => events[k] >= v
        /\ items[k] # 0 => items[k] >= v /\ (lists <= 1 => items[k] > v)
    BY <1>2 DEF VersionsGrow
  <2>4. lists # 0 /\ hand = {e}
    BY <1>2 DEF WatchTypes
  <2> HIDE DEF k, v
  <2>5. WatchTypes'
    BY <1>1, <1>2, <1>5, <2>2, <2>4 DEF WatchTypes
  <2>6. VersionsGrow'
    <3>1. ASSUME NEW j \in Keys
          PROVE  /\ events[j] <= clock /\ items[j] <= clock /\ sent'[j] <= clock
                 /\ events[j] # 0 => events[j] >= items[j] /\ events[j] >= sent'[j]
                 /\ items[j] # 0 => items[j] >= sent'[j] /\ (lists <= 1 => items[j] > sent'[j])
      <4>1. CASE j = k
        BY <1>2, <2>1, <2>2, <2>3, <4>1 DEF VersionsGrow
      <4>2. CASE j # k
        BY <1>2, <2>2, <4>2 DEF VersionsGrow
      <4> QED  BY <4>1, <4>2
    <3> QED  BY <1>1, <3>1 DEF VersionsGrow
  <2>7. WireIsNewer'
    <3> SUFFICES ASSUME NEW m \in 1..Len(wire)  PROVE  MessageIsNewer(m)'
      BY <1>1 DEF WireIsNewer
    <3>1. MessageIsNewer(m) /\ wire[m].key \in Keys /\ wire[m].version \in Nat
      <4>1. wire[m] \in Message
        BY <1>2 DEF WatchTypes
      <4> QED  BY <4>1 DEF WatchInv, WireIsNewer, Message
    <3>2. wire[m].version # 0 => wire[m].version > sent'[wire[m].key]
      BY <2>2, <2>4, <3>1 DEF MessageIsNewer, k, v
    <3> QED  BY <1>1, <3>1, <3>2 DEF MessageIsNewer
  <2>8. StoreIsFresh'
    <3> SUFFICES ASSUME watch = "up", NEW j \in Keys, Quiet(j)
                 PROVE  \/ items[j] = events[j]
                        \/ items[j] = 0 /\ sent'[j] = events[j]
      BY <1>1 DEF StoreIsFresh, Quiet
    <3>1. \/ items[j] = events[j]
          \/ items[j] = 0 /\ (sent[j] = events[j] \/ [key |-> j, version |-> events[j]] = e)
      BY <1>1, <2>4 DEF WatchInv, StoreIsFresh
    <3>2. CASE j # k
      BY <2>1, <2>2, <3>1, <3>2
    <3>3. CASE j = k
      <4>1. [key |-> j, version |-> events[j]] = e => sent'[j] = events[j]
        BY <2>1, <2>2, <3>3
      <4>2. items[j] = 0 /\ sent[j] = events[j] => items[j] = events[j] \/ sent'[j] = events[j]
        BY <1>2, <2>1, <2>2, <2>3, <3>3 DEF VersionsGrow, WatchTypes, k, v
      <4> QED  BY <3>1, <4>1, <4>2
    <3> QED  BY <3>2, <3>3
  <2> QED  BY <1>3, <2>5, <2>6, <2>7, <2>8 DEF WatchInv
<1> QED  BY <1>4, <1>5 DEF Send, Return

LEMMA WatchStep == WatchInv /\ [WatchNext]_watchVars => WatchInv'
<1> SUFFICES ASSUME WatchInv, [WatchNext]_watchVars  PROVE  WatchInv'
  OBVIOUS
<1>1. CASE Break
  <2>1. /\ watch' = "down" /\ wire' = <<>> /\ Len(wire') = 0
        /\ UNCHANGED <<events, clock, lists, items, queue, sent, hand, handler>>
    BY <1>1 DEF Break, eventVars, storeVars, handlerVars
  <2>2. wire' \in Seq(Message)
    BY <2>1
  <2> QED  BY <2>1, <2>2 DEF WatchInv, WatchTypes, VersionsGrow, WireIsNewer, ItemsAreQueued, WireIsFresh, StoreIsFresh
<1>2. CASE Leave \/ Receive \/ UNCHANGED watchVars
  <2>1. UNCHANGED <<events, clock, watch, lists, wire, items, queue, sent, hand, handler>>
    BY <1>2 DEF Leave, Receive, watchVars, eventVars, reflectorVars, storeVars, handlerVars
  <2> QED  BY <2>1 DEF WatchInv, WatchTypes, VersionsGrow, WireIsNewer, MessageIsNewer, ItemsAreQueued,
                       WireIsFresh, StoreIsFresh, Quiet
<1> QED  BY <1>1, <1>2, WatchChange, WatchRelist, WatchDeliver, WatchPop, WatchSend DEF WatchNext

\* While the handler goes on, the newest state of every event has been sent or is on its way, and
\* what is sent of an event never steps back, for any number of events, changes and lists and
\* however reflector, handler and reader interleave (WatchEnvironmentEventsWSHandler).
THEOREM WatchForgetsNothing ==
    WatchInit /\ [][WatchNext]_watchVars => []NewestIsNotLost /\ SentMovesForward
<1>1. WatchInit => WatchInv
  <2> SUFFICES ASSUME WatchInit  PROVE  WatchInv
    OBVIOUS
  <2>1. wire = <<>> /\ wire \in Seq(Message) /\ Len(wire) = 0 /\ queue \in Seq(Keys) /\ watch # "up"
    BY DEF WatchInit
  <2> QED  BY <2>1 DEF WatchInit, NoEvents, WatchInv, WatchTypes, VersionsGrow, WireIsNewer, ItemsAreQueued,
                       WireIsFresh, StoreIsFresh
<1>2. WatchInv => NewestIsNotLost
  <2> SUFFICES ASSUME WatchInv, handler # "done", watch = "up", NEW k \in Keys, events[k] # 0, sent[k] # events[k]
               PROVE  OnItsWay(k)
    BY DEF NewestIsNotLost
  <2>1. wire \in Seq(Message) /\ queue \in Seq(Keys) /\ DOMAIN wire = 1..Len(wire) /\ DOMAIN queue = 1..Len(queue)
    BY DEF WatchInv, WatchTypes
  <2>2. CASE Quiet(k)
    <3>1. items[k] = events[k] \/ [key |-> k, version |-> events[k]] \in hand
      BY <2>2 DEF WatchInv, StoreIsFresh
    <3> QED  BY <2>1, <3>1 DEF WatchInv, ItemsAreQueued, OnItsWay
  <2>3. CASE ~Quiet(k)
    <3>1. PICK n \in 1..Len(wire) : wire[n].key = k
      BY <2>3 DEF Quiet
    <3>2. PICK m \in n..Len(wire) : wire[m] = [key |-> k, version |-> events[k]]
      BY <3>1 DEF WatchInv, WireIsFresh
    <3>3. m \in DOMAIN wire
      BY <2>1, <3>1, <3>2
    <3> QED  BY <3>2, <3>3 DEF OnItsWay
  <2> QED  BY <2>2, <2>3
<1>3. WatchInv /\ [WatchNext]_watchVars =>
        [/\ \A k \in Keys : sent'[k] >= sent[k]
         /\ Send /\ handler' = "pop" /\ lists <= 1 => \E e \in hand : e.version > sent[e.key]]_watchVars
  <2> SUFFICES ASSUME WatchInv, WatchNext
               PROVE  /\ \A k \in Keys : sent'[k] >= sent[k]
                      /\ Send /\ handler' = "pop" /\ lists <= 1 => \E e \in hand : e.version > sent[e.key]
    OBVIOUS
  <2>1. WatchTypes /\ VersionsGrow
    BY DEF WatchInv
  <2>2. CASE Send
    <3>1. CASE sent' = sent /\ handler' = "done"
      BY <2>1, <3>1 DEF WatchTypes
    <3>2. ASSUME NEW e \in hand, sent' = [sent EXCEPT ![e.key] = e.version]
          PROVE  (\A k \in Keys : sent'[k] >= sent[k]) /\ (lists <= 1 => e.version > sent[e.key])
      BY <2>1, <3>2 DEF WatchTypes, VersionsGrow, Message
    <3> QED  BY <2>2, <3>1, <3>2 DEF Send, Return
  <2>3. CASE ~Send
    <3>1. sent' = sent
      BY <2>3 DEF WatchNext, Change, Relist, Break, Deliver, Leave, Receive, Pop, handlerVars
    <3> QED  BY <2>1, <2>3, <3>1 DEF WatchTypes
  <2> QED  BY <2>2, <2>3
<1> QED  BY <1>1, <1>2, <1>3, WatchStep, PTL DEF SentMovesForward
===============================================================================
