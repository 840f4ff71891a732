----------------------------- MODULE ItemHistory -----------------------------
(***************************************************************************)
(* What the work item repository promises about its rows: a work item is   *)
(* created with version 0 and the next number of its space, every accepted *)
(* change builds on the version just before it, and a deleted work item    *)
(* never changes again.  There are no requests, locks or stale copies.     *)
(***************************************************************************)
EXTENDS Integers, FiniteSets

CONSTANTS Items, Spaces, None

VARIABLES rows, lastNumber

\* The row of a work item: whether it is there, its version, the changes its
\* fields contain (each named by the version it made), and where it belongs.
AbsentRow == [status |-> "absent", version |-> 0, fields |-> {}, space |-> None, number |-> 0]

Init == rows = [i \in Items |-> AbsentRow] /\ lastNumber = [s \in Spaces |-> 0]

Create(i, s) ==
    /\ rows[i] = AbsentRow
    /\ lastNumber' = [lastNumber EXCEPT ![s] = @ + 1]
    /\ rows' = [rows EXCEPT ![i] = [status |-> "live", version |-> 0, fields |-> {},
                                    space |-> s, number |-> lastNumber'[s]]]

\* A transaction changes some work items, each a number of times.
Updated(i) ==
    /\ rows[i].status = "live"
    /\ \E n \in 1 .. 1 + rows'[i].version :
         LET v == rows[i].version + n IN
         rows'[i] = [rows[i] EXCEPT !.version = v,
                                    !.fields = @ \cup (rows[i].version + 1) .. v]

Update ==
    /\ DOMAIN rows' = Items
    /\ \A i \in Items : Updated(i) \/ rows'[i] = rows[i]
    /\ UNCHANGED lastNumber

Delete(i) ==
    /\ rows[i].status = "live"
    /\ rows' = [rows EXCEPT ![i].status = "deleted"]
    /\ UNCHANGED lastNumber

Next == Update \/ \E i \in Items : Delete(i) \/ \E s \in Spaces : Create(i, s)

Spec == Init /\ [][Next]_<<rows, lastNumber>>
===============================================================================
