---------------------------- MODULE Transactional ----------------------------
(***************************************************************************)
(* application.Transactional: a controller's function runs in a goroutine  *)
(* of its own, inside a database transaction, and reports its outcome      *)
(* through a channel; the caller waits for the report or for the           *)
(* transaction timeout, whichever comes first.                             *)
(*                                                                         *)
(* The calls share a connection pool (main.go, SetMaxOpenConns).  A        *)
(* transaction holds a connection from its begin to its end, and some      *)
(* functions ask the pool for a second one meanwhile: Reorder in           *)
(* controller/workitems.go queries c.db for the children of a work item.   *)
(***************************************************************************)
EXTENDS Integers, FiniteSets

CONSTANTS
    Calls,          \* concurrent calls of Transactional
    Nesting,        \* the calls whose function needs a second connection
    NumWrites,      \* how many statements a function executes
    PoolSize        \* SetMaxOpenConns

ASSUME TransactionalAssumption ==
    /\ Nesting \subseteq Calls
    /\ NumWrites \in Nat
    /\ PoolSize \in Nat \ {0}

VARIABLES
    pc,             \* the caller: "begin", "select" or "answered"
    answer,         \* what Transactional returned: "none", "nil" or "error"
    tx,             \* the transaction: "none", "open", "committed" or "rolledback"
    worker,         \* the goroutine: "none", "running", "nested", "sending" or "done"
    nested,         \* it has used its second connection
    written,        \* the statements it has executed in the transaction
    result,         \* what it reports: "none", "nil" or "error"
    channel,        \* errorChan: "none", or a report
    stored          \* the statements whose effect is in the database

vars == <<pc, answer, tx, worker, nested, written, result, channel, stored>>

Init ==
    /\ pc = [c \in Calls |-> "begin"]
    /\ answer = [c \in Calls |-> "none"]
    /\ tx = [c \in Calls |-> "none"]
    /\ worker = [c \in Calls |-> "none"]
    /\ nested = [c \in Calls |-> FALSE]
    /\ written = [c \in Calls |-> 0]
    /\ result = [c \in Calls |-> "none"]
    /\ channel = [c \in Calls |-> "none"]
    /\ stored = [c \in Calls |-> 0]

\* The connections in use.
InUse == Cardinality({c \in Calls : tx[c] = "open"}) + Cardinality({c \in Calls : worker[c] = "nested"})

-------------------------------------------------------------------------------
(* The caller *)

\* BeginTransaction waits, without a timeout, for a connection; then the goroutine starts.
Begin(c) ==
    /\ pc[c] = "begin"
    /\ InUse < PoolSize
    /\ pc' = [pc EXCEPT ![c] = "select"]
    /\ tx' = [tx EXCEPT ![c] = "open"]
    /\ worker' = [worker EXCEPT ![c] = "running"]
    /\ UNCHANGED <<answer, nested, written, result, channel, stored>>

Return(c, err) ==
    /\ pc' = [pc EXCEPT ![c] = "answered"]
    /\ answer' = [answer EXCEPT ![c] = err]
    /\ UNCHANGED <<worker, nested, written, result>>

\* "database BeginTransaction failed!"
BeginFails(c) ==
    /\ pc[c] = "begin"
    /\ Return(c, "error")
    /\ UNCHANGED <<tx, channel, stored>>

\* The transaction ends: what was executed in it is stored, or is not.
CommitTx(c) ==
    /\ tx' = [tx EXCEPT ![c] = "committed"]
    /\ stored' = [stored EXCEPT ![c] = written[c]]

RollbackTx(c) ==
    /\ tx' = [tx EXCEPT ![c] = "rolledback"]
    /\ UNCHANGED stored

\* The report arrives first.  An error rolls back; else the transaction is committed,
\* and nil is returned even if that fails.
Receive(c) ==
    /\ pc[c] = "select"
    /\ channel[c] # "none"
    /\ channel' = [channel EXCEPT ![c] = "none"]
    /\ \/ channel[c] = "nil" /\ CommitTx(c)
       \/ RollbackTx(c)     \* after an error, or because the commit fails
    /\ Return(c, channel[c])

\* Mutant of Timeout: the timer is looked at once the goroutine has reported.
TimeoutAfterReport(c) ==
    /\ pc[c] = "select" /\ channel[c] # "none"
    /\ RollbackTx(c)
    /\ Return(c, "error")
    /\ UNCHANGED channel

\* databaseTransactionTimeout is over first, or at the same time.
Timeout(c) ==
    /\ pc[c] = "select"
    /\ RollbackTx(c)
    /\ Return(c, "error")
    /\ UNCHANGED channel

-------------------------------------------------------------------------------
(* The goroutine, which may outlive the call *)

\* Mutant of Execute: without a transaction the statement goes to the database itself.
ExecuteAnyway(c) ==
    /\ worker[c] = "running" /\ written[c] < NumWrites
    /\ written' = [written EXCEPT ![c] = @ + 1]
    /\ stored' = IF tx[c] = "open" THEN stored ELSE [stored EXCEPT ![c] = @ + 1]
    /\ UNCHANGED <<pc, answer, tx, worker, nested, result, channel>>

\* A statement.  Once the transaction has ended, it fails or panics (GormTransaction's
\* db is nil), which is recovered and reported as an error as well.
Execute(c) ==
    /\ worker[c] = "running" /\ written[c] < NumWrites
    /\ IF tx[c] = "open"
          THEN written' = [written EXCEPT ![c] = @ + 1] /\ UNCHANGED <<worker, result>>
          ELSE /\ worker' = [worker EXCEPT ![c] = "sending"]
               /\ result' = [result EXCEPT ![c] = "error"]
               /\ UNCHANGED written
    /\ UNCHANGED <<pc, answer, tx, nested, channel, stored>>

\* A query that does not go through the transaction waits for a connection of its own.
Nest(c) ==
    /\ worker[c] = "running" /\ c \in Nesting /\ ~nested[c]
    /\ InUse < PoolSize
    /\ worker' = [worker EXCEPT ![c] = "nested"]
    /\ nested' = [nested EXCEPT ![c] = TRUE]
    /\ UNCHANGED <<pc, answer, tx, written, result, channel, stored>>

Unnest(c) ==
    /\ worker[c] = "nested"
    /\ worker' = [worker EXCEPT ![c] = "running"]
    /\ UNCHANGED <<pc, answer, tx, nested, written, result, channel, stored>>

\* todo returns: nil at its end only, an error (or a panic) anywhere.
Finish(c) ==
    /\ worker[c] = "running"
    /\ \E r \in {"nil", "error"} :
         /\ r = "nil" => written[c] = NumWrites /\ (c \in Nesting => nested[c])
         /\ result' = [result EXCEPT ![c] = r]
    /\ worker' = [worker EXCEPT ![c] = "sending"]
    /\ UNCHANGED <<pc, answer, tx, nested, written, channel, stored>>

\* Mutant of Send: the channel has no buffer, so that somebody must be receiving.
SendUnbuffered(c) ==
    /\ worker[c] = "sending" /\ pc[c] = "select"
    /\ channel' = [channel EXCEPT ![c] = result[c]]
    /\ worker' = [worker EXCEPT ![c] = "done"]
    /\ UNCHANGED <<pc, answer, tx, nested, written, result, stored>>

\* errorChan <- ...: the buffer of one report is empty.
Send(c) ==
    /\ worker[c] = "sending" /\ channel[c] = "none"
    /\ channel' = [channel EXCEPT ![c] = result[c]]
    /\ worker' = [worker EXCEPT ![c] = "done"]
    /\ UNCHANGED <<pc, answer, tx, nested, written, result, stored>>

-------------------------------------------------------------------------------
Caller(c) == Begin(c) \/ BeginFails(c) \/ Receive(c) \/ Timeout(c)
Worker(c) == Execute(c) \/ Nest(c) \/ Unnest(c) \/ Finish(c) \/ Send(c)

\* Every call has been answered, and every goroutine has ended.
AllDone ==
    /\ \A c \in Calls : pc[c] = "answered" /\ worker[c] \in {"none", "done"}
    /\ UNCHANGED vars

Next == (\E c \in Calls : Caller(c) \/ Worker(c)) \/ AllDone

Spec == Init /\ [][Next]_vars

\* The timer fires, goroutines are scheduled, a function that has executed its
\* statements returns, and database/sql hands out connections in the order in which
\* they were asked for.
Fairness ==
    \A c \in Calls :
        /\ WF_vars(Receive(c) \/ Timeout(c))
        /\ SF_vars(Begin(c)) /\ SF_vars(Nest(c))
        /\ WF_vars(Execute(c)) /\ WF_vars(Unnest(c)) /\ WF_vars(Send(c))
        /\ WF_vars(Finish(c) /\ written[c] = NumWrites /\ (c \in Nesting => nested[c]))

FairSpec == Spec /\ Fairness

-------------------------------------------------------------------------------
(* Properties *)

TypeOK ==
    /\ pc \in [Calls -> {"begin", "select", "answered"}]
    /\ answer \in [Calls -> {"none", "nil", "error"}]
    /\ tx \in [Calls -> {"none", "open", "committed", "rolledback"}]
    /\ worker \in [Calls -> {"none", "running", "nested", "sending", "done"}]
    /\ nested \in [Calls -> BOOLEAN]
    /\ written \in [Calls -> 0 .. NumWrites]
    /\ result \in [Calls -> {"none", "nil", "error"}]
    /\ channel \in [Calls -> {"none", "nil", "error"}]
    /\ stored \in [Calls -> 0 .. NumWrites]
    /\ \A c \in Calls : tx[c] = "open" <=> pc[c] = "select"

\* A function's statements are stored all or none, however the timeout, its end and its
\* statements interleave.
AllOrNothing == \A c \in Calls : stored[c] \in {0, NumWrites}

\* "If todo returns an error, the transaction is rolled back": a call that returns an
\* error, after a timeout, too, has stored nothing, and the goroutine that it leaves
\* behind never will.
ErrorMeansNothingStored == \A c \in Calls : answer[c] = "error" => stored[c] = 0

\* A transactional function stores all or nothing, and nothing if its caller gets an
\* error, also when it goes on after the timeout.
TransactionsSafe == TypeOK /\ AllOrNothing /\ ErrorMeansNothingStored

\* Every call is answered, although calls may hold all connections and wait for more.
CallsAnswered == \A c \in Calls : pc[c] = "begin" ~> pc[c] = "answered"

\* No goroutine is left behind for ever.
WorkersEnd == \A c \in Calls : worker[c] = "running" ~> worker[c] = "done"
===============================================================================
