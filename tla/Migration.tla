------------------------------ MODULE Migration ------------------------------
(***************************************************************************)
(* The database migration every process of the service runs when it starts *)
(* (migration/migration.go, Migrate, called from main.go).  Each iteration *)
(* of the loop in Migrate is one PostgreSQL transaction: it takes the      *)
(* transaction-level advisory lock, reads the current version, runs the    *)
(* steps of the next version, inserts the version row and commits.         *)
(*                                                                         *)
(* Several processes (pods) run it at once, each may crash, and a step,    *)
(* the insert or the commit may fail.  The effect of a transaction becomes *)
(* visible to others at its commit and vanishes at its rollback.           *)
(***************************************************************************)
EXTENDS Integers

CONSTANTS
    Procs,          \* processes that run Migrate
    NumVersions,    \* len(m): how many versions GetMigrations returns
    StepsOf,        \* StepsOf[v]: the number of functions that make up version v
    MaxFaults,      \* bound on crashes and errors, over all processes
    NoProc          \* holder of a free lock

Versions == 0 .. NumVersions - 1

ASSUME MigrationAssumption ==
    /\ NumVersions \in Nat
    /\ StepsOf \in [Versions -> Nat]
    /\ MaxFaults \in Nat
    /\ NoProc \notin Procs

VARIABLES
    versionRows,    \* the committed rows of table "version"
    schema,         \* schema[v]: committed executions of steps of version v
    lock,           \* holder of advisory lock AdvisoryLockID, or NoProc
    pc,             \* where each process is in Migrate
    nextVersion,    \* loop variable of Migrate
    stepsRun,       \* steps of m[nextVersion] run in the open transaction
    rowInserted,    \* the open transaction has inserted its version row
    faults          \* faults so far

vars == <<versionRows, schema, lock, pc, nextVersion, stepsRun, rowInserted, faults>>

\* "start": before the first iteration; "loop": at the loop's condition; the
\* other labels up to "commit" are points inside an open transaction.
PCs == {"start", "loop", "lock", "read", "steps", "insert", "commit", "done", "failed"}

InTx(p) == pc[p] \in {"lock", "read", "steps", "insert", "commit"}

Init ==
    /\ versionRows = {}
    /\ schema = [v \in Versions |-> 0]
    /\ lock = NoProc
    /\ pc = [p \in Procs |-> "start"]
    /\ nextVersion = [p \in Procs |-> 0]
    /\ stepsRun = [p \in Procs |-> 0]
    /\ rowInserted = [p \in Procs |-> FALSE]
    /\ faults = 0

GoTo(p, label) == pc' = [pc EXCEPT ![p] = label]

\* The transaction of p ends: its advisory lock, if it has it, is released.
ReleaseLock(p) == lock' = IF lock = p THEN NoProc ELSE lock

-------------------------------------------------------------------------------
\* Migrate is entered.
Start(p) ==
    /\ pc[p] = "start"
    /\ nextVersion' = [nextVersion EXCEPT ![p] = 0]
    /\ GoTo(p, "loop")
    /\ UNCHANGED <<versionRows, schema, lock, stepsRun, rowInserted, faults>>

\* The loop's condition: begin the transaction of this iteration or return nil.
Begin(p) ==
    /\ pc[p] = "loop"
    /\ IF nextVersion[p] < NumVersions
          THEN /\ GoTo(p, "lock")
               /\ stepsRun' = [stepsRun EXCEPT ![p] = 0]
               /\ rowInserted' = [rowInserted EXCEPT ![p] = FALSE]
          ELSE GoTo(p, "done") /\ UNCHANGED <<stepsRun, rowInserted>>
    /\ UNCHANGED <<versionRows, schema, lock, nextVersion, faults>>

\* SELECT pg_advisory_xact_lock: blocks while another transaction has the lock.
AcquireLock(p) ==
    /\ pc[p] = "lock"
    /\ lock = NoProc
    /\ lock' = p
    /\ GoTo(p, "read")
    /\ UNCHANGED <<versionRows, schema, nextVersion, stepsRun, rowInserted, faults>>

\* getCurrentVersion: the highest committed row, -1 when there is no table yet.
CurrentVersion ==
    IF versionRows = {} THEN -1
    ELSE CHOOSE v \in versionRows : \A w \in versionRows : w <= v

\* Mutant of ReadVersion: the newest version is never applied.
ReadVersionStopsEarly(p) ==
    /\ pc[p] = "read"
    /\ nextVersion' = [nextVersion EXCEPT ![p] = CurrentVersion + 1]
    /\ GoTo(p, IF CurrentVersion + 2 >= NumVersions THEN "commit" ELSE "steps")
    /\ UNCHANGED <<versionRows, schema, lock, stepsRun, rowInserted, faults>>

\* The process sets the loop variable to the version after the current one.
ReadVersion(p) ==
    /\ pc[p] = "read"
    /\ nextVersion' = [nextVersion EXCEPT ![p] = CurrentVersion + 1]
    /\ GoTo(p, IF CurrentVersion + 1 >= NumVersions THEN "commit" ELSE "steps")
    /\ UNCHANGED <<versionRows, schema, lock, stepsRun, rowInserted, faults>>

\* One function of m[nextVersion] succeeds.
RunStep(p) ==
    /\ pc[p] = "steps"
    /\ IF stepsRun[p] < StepsOf[nextVersion[p]]
          THEN stepsRun' = [stepsRun EXCEPT ![p] = @ + 1] /\ UNCHANGED pc
          ELSE GoTo(p, "insert") /\ UNCHANGED stepsRun
    /\ UNCHANGED <<versionRows, schema, lock, nextVersion, rowInserted, faults>>

\* INSERT INTO version(version): the column is unique, so the statement fails
\* (and Migrate rolls back and returns) when the row exists.
InsertVersion(p) ==
    /\ pc[p] = "insert"
    /\ IF nextVersion[p] \in versionRows
          THEN /\ GoTo(p, "failed")
               /\ ReleaseLock(p)
               /\ UNCHANGED rowInserted
          ELSE /\ GoTo(p, "commit")
               /\ rowInserted' = [rowInserted EXCEPT ![p] = TRUE]
               /\ UNCHANGED lock
    /\ UNCHANGED <<versionRows, schema, nextVersion, stepsRun, faults>>

\* tx.Commit, then nextVersion++ and back to the loop's condition.
Commit(p) ==
    /\ pc[p] = "commit"
    /\ versionRows' = IF rowInserted[p] THEN versionRows \cup {nextVersion[p]} ELSE versionRows
    /\ schema' = IF rowInserted[p]
                    THEN [schema EXCEPT ![nextVersion[p]] = @ + stepsRun[p]] ELSE schema
    /\ nextVersion' = [nextVersion EXCEPT ![p] = @ + 1]
    /\ ReleaseLock(p)
    /\ GoTo(p, "loop")
    /\ UNCHANGED <<stepsRun, rowInserted, faults>>

\* Mutant of Fault: the steps run outside of the transaction and stay.
FaultWithoutRollback(p) ==
    /\ InTx(p)
    /\ faults < MaxFaults
    /\ faults' = faults + 1
    /\ schema' = IF nextVersion[p] \in Versions
                    THEN [schema EXCEPT ![nextVersion[p]] = @ + stepsRun[p]] ELSE schema
    /\ ReleaseLock(p)
    /\ GoTo(p, "failed")
    /\ UNCHANGED <<versionRows, nextVersion, stepsRun, rowInserted>>

\* Mutant of Fault: a session-level lock survives the rollback.
FaultKeepsLock(p) ==
    /\ InTx(p)
    /\ faults < MaxFaults
    /\ faults' = faults + 1
    /\ GoTo(p, "failed")
    /\ UNCHANGED <<versionRows, schema, lock, nextVersion, stepsRun, rowInserted>>

\* A statement or the commit fails, or the connection or process is lost: the
\* transaction is rolled back, which undoes the steps it ran, and Migrate
\* returns the error (main.go then panics).
Fault(p) ==
    /\ InTx(p)
    /\ faults < MaxFaults
    /\ faults' = faults + 1
    /\ ReleaseLock(p)
    /\ GoTo(p, "failed")
    /\ UNCHANGED <<versionRows, schema, nextVersion, stepsRun, rowInserted>>

\* The platform starts the process again after the panic or crash.
Restart(p) ==
    /\ pc[p] = "failed"
    /\ GoTo(p, "start")
    /\ UNCHANGED <<versionRows, schema, lock, nextVersion, stepsRun, rowInserted, faults>>

Run(p) == \/ Start(p) \/ Begin(p) \/ AcquireLock(p) \/ ReadVersion(p)
          \/ RunStep(p) \/ InsertVersion(p) \/ Commit(p) \/ Restart(p)

\* Every process has returned nil: Migrate has nothing left to do.
Finished ==
    /\ \A p \in Procs : pc[p] = "done"
    /\ UNCHANGED vars

Next == (\E p \in Procs : Run(p) \/ Fault(p)) \/ Finished

\* A process that can take a step does (it is a running thread, and PostgreSQL
\* grants a free advisory lock to a waiter), and the platform restarts it.
\* Strong fairness for the lock: PostgreSQL queues the waiters.
Fairness ==
    /\ \A p \in Procs : WF_vars(Run(p))
    /\ \A p \in Procs : SF_vars(AcquireLock(p))

Spec == Init /\ [][Next]_vars /\ Fairness

-------------------------------------------------------------------------------
(* Properties *)

TypeOK ==
    /\ versionRows \subseteq Versions
    /\ schema \in [Versions -> Nat]
    /\ lock \in Procs \cup {NoProc}
    /\ pc \in [Procs -> PCs]
    /\ nextVersion \in [Procs -> Nat]
    /\ stepsRun \in [Procs -> Nat]
    /\ rowInserted \in [Procs -> BOOLEAN]
    /\ faults \in 0 .. MaxFaults

\* The version table tells the truth about the schema: a version has a row
\* exactly when each of its steps is in the schema once, and otherwise none of
\* them is, for any number of concurrent and crashing runs of Migrate.
SchemaMatchesVersions ==
    \A v \in Versions : schema[v] = IF v \in versionRows THEN StepsOf[v] ELSE 0

\* Versions are applied in the order of GetMigrations, with no gap.
NoGaps == \A v \in versionRows : \A w \in Versions : w < v => w \in versionRows

\* When Migrate returns nil the database is at the newest version, whether the
\* process itself or another one got it there (the service relies on it: main.go
\* goes on to use the schema).
DoneMeansCurrent == \A p \in Procs : pc[p] = "done" => versionRows = Versions

\* No concurrent run ever fails on the unique constraint of table version: only
\* a fault makes Migrate return an error (TestConcurrentMigrations).
NoDuplicateVersion == \A p \in Procs : pc[p] = "insert" => nextVersion[p] \notin versionRows

\* Whatever processes migrate the database at once, and wherever one of them fails:
\* schema and version table agree, no version is skipped or inserted twice, and who is let
\* go on finds the newest version.
MigrationSafe == TypeOK /\ SchemaMatchesVersions /\ NoGaps /\ DoneMeansCurrent /\ NoDuplicateVersion

\* Every process gets through, faults notwithstanding.
EventuallyDone == \A p \in Procs : <>[](pc[p] = "done")

\* The migration implements the abstract history of the schema.
History == INSTANCE MigrationHistory WITH level <- CurrentVersion
ImplementsHistory == History!Spec
===============================================================================
