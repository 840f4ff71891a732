----------------------------- MODULE CommentCount -----------------------------
(***************************************************************************)
(* The number of comments of a work item that is shown                     *)
(* (controller/work_item_comments.go, workItemIncludeCommentsAndTotal):    *)
(* a goroutine counts in a transaction of its own while the request goes   *)
(* on, and hands the number over through a channel without a buffer.  Its  *)
(* transaction runs in a third goroutine (application.Transactional).      *)
(***************************************************************************)
EXTENDS Integers

CONSTANTS CommentTotal         \* the number of comments

ASSUME CountAssumption == CommentTotal \in Nat \ {0}

VARIABLES
    request,        \* "convert", "read" or "done"
    shownCount,     \* what the request has read from the channel, or -1
    counter,        \* the goroutine: "begin", "wait" or "done"
    todo,           \* the function in the transaction: "none", "count", "send", "send zero" or "done"
    countChannel,   \* "open" or "closed"
    txOpen,         \* the transaction is open
    failed          \* the transaction did not begin, the count failed, or the timeout came

countVars == <<request, shownCount, counter, todo, countChannel, txOpen, failed>>

CountInit ==
    /\ request = "convert" /\ shownCount = 0 - 1
    /\ counter = "begin" /\ todo = "none"
    /\ countChannel = "open" /\ txOpen = FALSE /\ failed = FALSE

\* ConvertWorkItem reaches the function that includes the total, or fails before.
Convert ==
    /\ request = "convert" /\ request' \in {"read", "done"}
    /\ UNCHANGED <<shownCount, counter, todo, countChannel, txOpen, failed>>

\* Mutant of CloseCount: the channel is left open.
CloseCountNever == counter' = "done" /\ UNCHANGED countChannel

\* defer close(count), when Transactional returns.
CloseCount == counter' = "done" /\ countChannel' = "closed"

\* BeginTransaction
BeginCount ==
    /\ counter = "begin"
    /\ \/ counter' = "wait" /\ todo' = "count" /\ txOpen' = TRUE /\ UNCHANGED <<countChannel, failed>>
       \/ CloseCount /\ failed' = TRUE /\ UNCHANGED <<todo, txOpen>>
    /\ UNCHANGED <<request, shownCount>>

\* Count; if it fails, zero is sent.
CountComments ==
    /\ todo = "count"
    /\ \/ todo' = "send" /\ UNCHANGED failed
       \/ todo' = "send zero" /\ failed' = TRUE
    /\ UNCHANGED <<request, shownCount, counter, countChannel, txOpen>>

\* The number is handed over.
HandOver ==
    /\ todo \in {"send", "send zero"} /\ request = "read" /\ countChannel = "open"
    /\ todo' = "done" /\ request' = "done"
    /\ shownCount' = IF todo = "send" THEN CommentTotal ELSE 0
    /\ UNCHANGED <<counter, countChannel, txOpen, failed>>

\* Receiving from a closed channel gives zero.
ReadClosed ==
    /\ request = "read" /\ countChannel = "closed"
    /\ request' = "done" /\ shownCount' = 0
    /\ UNCHANGED <<counter, todo, countChannel, txOpen, failed>>

\* Sending to a closed channel panics, which Transactional recovers from.
SendPanics ==
    /\ todo \in {"send", "send zero"} /\ countChannel = "closed" /\ todo' = "done"
    /\ UNCHANGED <<request, shownCount, counter, countChannel, txOpen, failed>>

\* The function has returned: the transaction is committed or rolled back.
EndCount ==
    /\ counter = "wait" /\ todo = "done"
    /\ txOpen' = FALSE /\ CloseCount
    /\ UNCHANGED <<request, shownCount, todo, failed>>

\* The timeout of the transaction: it is rolled back while the function is still waiting.
CountTimeout ==
    /\ counter = "wait"
    /\ txOpen' = FALSE /\ CloseCount /\ failed' = TRUE
    /\ UNCHANGED <<request, shownCount, todo>>

CountNext ==
    \/ Convert \/ BeginCount \/ CountComments \/ HandOver
    \/ ReadClosed \/ SendPanics \/ EndCount \/ CountTimeout

\* Goroutines are scheduled and timers fire.
CountSpec == CountInit /\ [][CountNext]_countVars /\ WF_countVars(CountNext)

-------------------------------------------------------------------------------

\* The total that is shown is the number of comments, unless the transaction could not
\* begin, failed or took too long: the channel is not closed before the number went through.
TotalIsShown == shownCount # 0 - 1 /\ ~failed => shownCount = CommentTotal

\* Once the request or the goroutine has made a step, nobody waits forever for the other
\* end of the channel, also when the request fails before it reads it or the count before
\* it is sent, and no transaction is left open.
CountEnds ==
    request # "convert" \/ counter # "begin" ~>
        request = "done" /\ counter = "done" /\ todo \in {"none", "done"} /\ ~txOpen

\* The request gets the number of comments from the goroutine that counts them, or goes on
\* without it, and neither waits for the other for ever.
CountIsReliable == []TotalIsShown /\ CountEnds
===============================================================================
