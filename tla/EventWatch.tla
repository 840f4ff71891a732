------------------------------ MODULE EventWatch ------------------------------
(***************************************************************************)
(* The web socket that forwards the events of a namespace                  *)
(* (controller/deployments.go, WatchEnvironmentEventsWSHandler, and        *)
(* WatchEventsInNamespace): a reflector lists the events and then watches  *)
(* them, and keeps them in a FIFO of one item per event; the handler pops  *)
(* and sends them, and a second goroutine waits for the client to go away  *)
(* and closes the FIFO.                                                    *)
(*                                                                         *)
(* Reflector and FIFO are of client-go: an event that is still queued is   *)
(* replaced by its update and dropped by its deletion, and every new list  *)
(* replaces what is queued, in any order.  A list is assumed not to be     *)
(* older than what the watch before it has told.                           *)
(***************************************************************************)
EXTENDS Naturals, Sequences, FiniteSets

CONSTANTS
    Keys,           \* what MetaNamespaceKeyFunc calls the events of the namespace
    MaxChanges,     \* bound on the changes of the events
    MaxLists        \* bound on the lists of the reflector

ASSUME WatchAssumption == IsFiniteSet(Keys) /\ MaxChanges \in Nat /\ MaxLists \in Nat

VARIABLES
    events,         \* events[k]: the version of event k, or 0 when there is none
    clock,          \* versions given out so far
    watch,          \* the reflector's watch is "down" or "up"
    lists,          \* how often the reflector has listed the events
    wire,           \* the changes that the watch has not delivered yet
    items, queue,   \* the FIFO: items[k] is the version held of event k, or 0
    closed,         \* the FIFO is closed
    stopped,        \* stopCh is closed, which ends the reflector
    socket,         \* "open", or closed by the "client" or the "server"
    handler,        \* "pop", "send" or "done"
    hand,           \* the event that was popped, if any
    reader,         \* "receive" or "done"
    sent            \* sent[k]: the version of event k that was sent last

eventVars == <<events, clock>>
reflectorVars == <<watch, lists, wire>>
storeVars == <<items, queue, closed, stopped>>
handlerVars == <<socket, handler, hand, reader, sent>>
watchVars == <<eventVars, reflectorVars, storeVars, handlerVars>>

NoEvents == [k \in Keys |-> 0]

WatchInit ==
    /\ events = NoEvents /\ clock = 0
    /\ watch = "down" /\ lists = 0 /\ wire = <<>>
    /\ items = NoEvents /\ queue = <<>> /\ closed = FALSE /\ stopped = FALSE
    /\ socket = "open" /\ handler = "pop" /\ hand = {} /\ reader = "receive"
    /\ sent = NoEvents

-------------------------------------------------------------------------------
(* The cluster and client-go *)

\* External: an event is created, counted again or removed.
Change ==
    /\ clock < MaxChanges /\ clock' = clock + 1
    /\ \E k \in Keys, v \in {0, clock + 1} :
         /\ v # events[k]
         /\ events' = [events EXCEPT ![k] = v]
         /\ wire' = IF watch = "up" THEN Append(wire, [key |-> k, version |-> v]) ELSE wire
    /\ UNCHANGED <<watch, lists, storeVars, handlerVars>>

Orders(S) ==
    {q \in [1..Cardinality(S) -> S] : \A k \in S : \E n \in 1..Cardinality(S) : q[n] = k}

\* External: the reflector lists the events, replaces what the FIFO holds, in the order
\* in which a Go map is visited, and watches from there.
Relist ==
    /\ ~stopped /\ watch = "down"
    /\ watch' = "up" /\ lists' = lists + 1 /\ wire' = <<>>
    /\ items' = events
    /\ queue' \in Orders({k \in Keys : events[k] # 0})
    /\ UNCHANGED <<eventVars, closed, stopped, handlerVars>>

\* External: the watch is lost, with what it had not delivered.
Break ==
    /\ watch = "up" /\ lists < MaxLists
    /\ watch' = "down" /\ wire' = <<>>
    /\ UNCHANGED <<eventVars, lists, storeVars, handlerVars>>

\* External: Add and Update of the FIFO queue a key that has no item; Delete takes the
\* item and leaves the key.
Deliver ==
    /\ ~stopped /\ wire # <<>>
    /\ wire' = Tail(wire)
    /\ LET k == Head(wire).key
           v == Head(wire).version
       IN /\ items' = [items EXCEPT ![k] = v]
          /\ queue' = IF v # 0 /\ items[k] = 0 THEN Append(queue, k) ELSE queue
    /\ UNCHANGED <<eventVars, watch, lists, closed, stopped, handlerVars>>

-------------------------------------------------------------------------------
(* The handler and its reader *)

\* External: the client closes the socket, or the connection breaks.
Leave ==
    /\ socket = "open" /\ socket' = "client"
    /\ UNCHANGED <<eventVars, reflectorVars, storeVars, handler, hand, reader, sent>>

\* websocket.Message.Receive fails: the store is closed.
Receive ==
    /\ reader = "receive" /\ socket # "open"
    /\ closed' = TRUE /\ reader' = "done"
    /\ UNCHANGED <<eventVars, reflectorVars, items, queue, stopped, socket, handler, hand, sent>>

\* The deferred calls: stopCh, the client and the socket are closed.
Return ==
    /\ handler' = "done" /\ stopped' = TRUE /\ hand' = {}
    /\ socket' = IF socket = "open" THEN "server" ELSE socket

\* Pop takes the first key that has an item, and waits if there is none; a closed store
\* that is empty gives no event, which ends the handler.
Pop ==
    /\ handler = "pop"
    /\ \/ \E n \in DOMAIN queue :
            /\ items[queue[n]] # 0
            /\ \A m \in 1..(n - 1) : items[queue[m]] = 0
            /\ hand' = {[key |-> queue[n], version |-> items[queue[n]]]} /\ handler' = "send"
            /\ items' = [items EXCEPT ![queue[n]] = 0]
            /\ queue' = SubSeq(queue, n + 1, Len(queue))
            /\ UNCHANGED <<stopped, socket>>
       \/ /\ \A n \in DOMAIN queue : items[queue[n]] = 0
          /\ queue' = <<>> /\ items' = items
          /\ \/ closed /\ Return
             \/ ~closed /\ queue # <<>> /\ UNCHANGED <<handler, stopped, hand, socket>>
    /\ UNCHANGED <<eventVars, reflectorVars, closed, reader, sent>>

\* Mutant of Send: an event that could not be sent is left out and the handler goes on.
SendAnyway ==
    /\ handler = "send" /\ handler' = "pop" /\ hand' = {}
    /\ \/ socket = "open" /\ \E e \in hand : sent' = [sent EXCEPT ![e.key] = e.version]
       \/ sent' = sent
    /\ UNCHANGED <<eventVars, reflectorVars, storeVars, socket, reader>>

\* The event is sent; an error ends the handler.
Send ==
    /\ handler = "send"
    /\ \/ /\ socket = "open"
          /\ \E e \in hand : sent' = [sent EXCEPT ![e.key] = e.version]
          /\ hand' = {} /\ handler' = "pop" /\ UNCHANGED <<socket, stopped>>
       \/ Return /\ sent' = sent
    /\ UNCHANGED <<eventVars, reflectorVars, items, queue, closed, reader>>

WatchNext == Change \/ Relist \/ Break \/ Deliver \/ Leave \/ Receive \/ Pop \/ Send

\* The goroutines are scheduled, the reflector's too; events and the client are not.
WatchSpec ==
    /\ WatchInit /\ [][WatchNext]_watchVars
    /\ WF_watchVars(Relist) /\ WF_watchVars(Deliver)
    /\ WF_watchVars(Receive) /\ WF_watchVars(Pop) /\ WF_watchVars(Send)

-------------------------------------------------------------------------------

\* Type invariant.
WatchTypeOK ==
    /\ \A k \in Keys : {events[k], items[k], sent[k]} \subseteq 0..clock
    /\ \A n \in DOMAIN wire : wire[n] \in [key : Keys, version : Nat]
    /\ \A n \in DOMAIN queue : queue[n] \in Keys
    /\ hand \subseteq [key : Keys, version : Nat]

\* What is known of event k and not yet sent: on the wire, queued or popped.
OnItsWay(k) ==
    \/ \E n \in DOMAIN wire : wire[n] = [key |-> k, version |-> events[k]]
    \/ items[k] = events[k] /\ \E n \in DOMAIN queue : queue[n] = k
    \/ [key |-> k, version |-> events[k]] \in hand

\* While the handler goes on and the watch is up, the newest state of every event has
\* been sent or is on its way, whatever was coalesced, dropped or listed again.
NewestIsNotLost ==
    handler # "done" /\ watch = "up" =>
        \A k \in Keys : events[k] # 0 => sent[k] = events[k] \/ OnItsWay(k)

\* What is sent of an event never steps back, and until a watch breaks nothing is sent
\* twice.  Of different events no order is promised.
SentMovesForward ==
    [][/\ \A k \in Keys : sent'[k] >= sent[k]
       /\ Send /\ handler' = "pop" /\ lists <= 1 => \E e \in hand : e.version > sent[e.key]]_watchVars

\* A client that stays sees the newest state of every event in the end, the handler
\* being the only one that may give up.
NewestIsSent == <>[](handler = "done" \/ \A k \in Keys : events[k] # 0 => sent[k] = events[k])

\* No goroutine is left behind: once the client has gone, or the handler has given up,
\* handler, reader and reflector end, although the handler waits for an event
\* and the reader for a message.
WatchEnds == (socket # "open") ~> (handler = "done" /\ reader = "done" /\ stopped)

\* A client that watches gets the newest state of each event, never an older one after
\* it, until one of the two gives up, and then everything that was started for it ends.
WatchIsReliable == [](WatchTypeOK /\ NewestIsNotLost) /\ SentMovesForward /\ NewestIsSent /\ WatchEnds
===============================================================================
