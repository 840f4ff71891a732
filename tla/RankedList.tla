----------------------------- MODULE RankedList -----------------------------
(***************************************************************************)
(* What a client sees of the order of the work items: one list per space,  *)
(* from the top to the bottom, and the requests that are not yet answered. *)
(* A new work item goes to the top; a reorder request takes some work      *)
(* items, one after the other, and puts each of them at an end of the list *)
(* or next to a target.  A request is served at once, or refused.  After   *)
(* the first deletion the list is gone: nothing is promised about places.  *)
(***************************************************************************)
EXTENDS Sequences, SequencesExt

CONSTANTS Items, Spaces, Clients, Directions, MaxBatch, None

VARIABLES
    list,       \* list[s]: the work items of a space, the top one first; None once it is gone
    asked       \* asked[c]: what c has asked for: None, a space to create a work item in, or a move

Moves == UNION {[space : Spaces, direction : Directions, target : Items, batch : [1 .. n -> Items]] :
                n \in 1 .. MaxBatch}

Init ==
    /\ list = [s \in Spaces |-> <<>>]
    /\ asked = [c \in Clients |-> None]

\* l with i moved; a work item that is moved next to itself stays.
Moved(l, i, direction, target) ==
    LET others == Remove(l, i)
        at == IF target \in ToSet(others) THEN CHOOSE k \in DOMAIN others : others[k] = target ELSE 0 IN
    CASE direction = "top"    -> <<i>> \o others
      [] direction = "bottom" -> Append(others, i)
      [] target = i           -> l
      [] direction = "above"  -> InsertAt(others, at, i)
      [] direction = "below"  -> InsertAt(others, at + 1, i)

Ask(c) ==
    /\ asked[c] = None
    /\ \E r \in Spaces \cup Moves : asked' = [asked EXCEPT ![c] = r]
    /\ UNCHANGED list

Answer(c) == asked[c] # None /\ asked' = [asked EXCEPT ![c] = None]

Refuse(c) == Answer(c) /\ UNCHANGED list

Create(c) ==
    LET s == asked[c] IN
    /\ Answer(c)
    /\ s \in Spaces
    /\ \E i \in Items :
         /\ \A t \in Spaces : ~Contains(list[t], i)
         /\ list' = [list EXCEPT ![s] = <<i>> \o @]

Reorder(c) ==
    LET r == asked[c] IN
    /\ Answer(c)
    /\ r \notin Spaces
    /\ \A k \in DOMAIN r.batch : Contains(list[r.space], r.batch[k])
    /\ r.direction \in {"above", "below"} => Contains(list[r.space], r.target)
    /\ list' = [list EXCEPT ![r.space] =
                  FoldLeft(LAMBDA l, i : Moved(l, i, r.direction, r.target), @, r.batch)]

Delete == list' = None /\ UNCHANGED asked

Next ==
    \/ \E c \in Clients : Ask(c) \/ Refuse(c)
    \/ list # None /\ (Delete \/ \E c \in Clients : Create(c) \/ Reorder(c))

Spec == Init /\ [][Next]_<<list, asked>>
===============================================================================
