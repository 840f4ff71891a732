------------------------- MODULE WorkItemOrderProofs -------------------------
(***************************************************************************)
(* The execution order of work items, for one client (Alone) and as long   *)
(* as midpoints are exact (CanBeHalved): orders stay distinct until        *)
(* something is deleted, and a move leaves the work item where its request *)
(* says.                                                                   *)
(*                                                                         *)
(* The inductive invariant measures how fine the orders have become: after *)
(* m moves every order is a positive multiple of OrderValue halved m       *)
(* times, so the midpoint of two of them is still a number between them.   *)
(***************************************************************************)
EXTENDS WorkItemOrder, WellFoundedInduction, TLAPS

\* There is one client, or none.
Alone == \A a, b \in Clients : a = b

\* OrderValue can be halved as often as there are moves, as a double precision number can.
Halvings == {h \in [0 .. MaxMoves -> Nat \ {0}] :
                /\ h[0] = OrderValue
                /\ \A m \in 1 .. MaxMoves : h[m - 1] = 2 * h[m]}
CanBeHalved == Halvings # {}
Half == CHOOSE h \in Halvings : TRUE

\* x is a positive multiple of OrderValue halved m times.
Multiple(x, m) == \E k \in Nat \ {0} : x = k * Half[m]

------------------------------------------------------------------------------
(* Numbers *)

\* A set of naturals that is not empty has a smallest element.
LEMMA SmallestNumber ==
    ASSUME NEW T \in SUBSET Nat, T # {}
    PROVE  Min(T) \in T /\ \A y \in T : Min(T) <= y
<1>1. PICK x \in T : \A y \in T : ~(<<y, x>> \in OpToRel(<, Nat))
  BY NatLessThanWellFounded, WFMin
<1>2. \A y \in T : ~(y < x)
  BY <1>1 DEF OpToRel
<1>3. \A y \in T : x <= y
  BY <1>2
<1> QED  BY <1>3 DEF Min

\* A set of naturals with a bound has a largest element.
LEMMA LargestNumber ==
    ASSUME NEW T \in SUBSET Nat, T # {}, NEW b \in Nat, \A y \in T : y <= b
    PROVE  Max(T) \in T /\ \A y \in T : Max(T) >= y
<1> DEFINE D == {b - y : y \in T}
<1>1. D \in SUBSET Nat /\ D # {}
  <2>1. \A y \in T : b - y \in Nat
    OBVIOUS
  <2> QED  BY <2>1
<1>2. PICK d \in D : \A e \in D : d <= e
  <2> HIDE DEF D
  <2> QED  BY <1>1, SmallestNumber
<1>3. PICK x \in T : d = b - x
  OBVIOUS
<1>4. \A y \in T : x >= y
  <2> TAKE y \in T
  <2>1. d <= b - y
    BY <1>2
  <2> QED  BY <1>3, <2>1
<1> QED  BY <1>4 DEF Max

\* What Half is.
LEMMA Halves ==
    ASSUME CanBeHalved
    PROVE  /\ Half \in [0 .. MaxMoves -> Nat \ {0}] /\ Half[0] = OrderValue
           /\ \A m \in 1 .. MaxMoves : Half[m - 1] = 2 * Half[m]
<1>1. Half \in Halvings
  BY DEF CanBeHalved, Half
<1> QED  BY <1>1 DEF Halvings

\* Multiples are positive.
LEMMA MultiplePositive ==
    ASSUME CanBeHalved, NEW m \in 0 .. MaxMoves, NEW x, Multiple(x, m)
    PROVE  x \in Nat \ {0}
<1>1. PICK k \in Nat \ {0} : x = k * Half[m]
  BY DEF Multiple
<1>2. PICK h \in Nat \ {0} : h = Half[m]
  BY Halves
<1>3. k * h \in Nat /\ k * h # 0
  OBVIOUS
<1> QED  BY <1>1, <1>2, <1>3

\* The next halving: a multiple of a number is an even one of its half.
LEMMA NextHalving ==
    ASSUME CanBeHalved, NEW m \in 0 .. MaxMoves - 1, NEW k \in Nat \ {0}
    PROVE  /\ m + 1 \in 0 .. MaxMoves /\ Half[m + 1] \in Nat \ {0}
           /\ k * Half[m] = 2 * (k * Half[m + 1])
           /\ k * Half[m] = (2 * k) * Half[m + 1]
<1>1. m + 1 \in 1 .. MaxMoves /\ m + 1 \in 0 .. MaxMoves /\ (m + 1) - 1 = m
  BY OrderAssumption
<1>2. Half[m] = 2 * Half[m + 1] /\ Half[m + 1] \in Nat \ {0}
  BY <1>1, Halves
<1>3. PICK h \in Nat \ {0} : h = Half[m + 1]
  BY <1>2
<1>4. k * (2 * h) = 2 * (k * h) /\ k * (2 * h) = (2 * k) * h
  OBVIOUS
<1> QED  BY <1>1, <1>2, <1>3, <1>4

\* Multiples stay multiples.
LEMMA MultipleNext ==
    ASSUME CanBeHalved, NEW m \in 0 .. MaxMoves - 1, NEW x, Multiple(x, m)
    PROVE  Multiple(x, m + 1)
<1>1. PICK k \in Nat \ {0} : x = k * Half[m]
  BY DEF Multiple
<1>2. x = (2 * k) * Half[m + 1]
  BY <1>1, NextHalving
<1>3. 2 * k \in Nat \ {0}
  OBVIOUS
<1> QED  BY <1>2, <1>3 DEF Multiple

\* Also after several halvings.
LEMMA MultipleFiner ==
    ASSUME CanBeHalved, NEW m \in 0 .. MaxMoves, NEW n \in m .. MaxMoves, NEW x, Multiple(x, m)
    PROVE  Multiple(x, n)
<1> DEFINE T == {j \in m .. MaxMoves : ~Multiple(x, j)}
<1> SUFFICES ASSUME T # {} PROVE FALSE
  BY OrderAssumption
<1>1. T \in SUBSET Nat
  BY OrderAssumption
<1>2. Min(T) \in T /\ \A j \in T : Min(T) <= j
  <2> HIDE DEF T
  <2> QED  BY <1>1, SmallestNumber
<1>3. PICK j \in T : \A i \in T : j <= i
  BY <1>2
<1>4. j # m /\ j \in m .. MaxMoves /\ ~Multiple(x, j)
  BY <1>3
<1>5. j - 1 \in m .. MaxMoves /\ j - 1 \in 0 .. MaxMoves - 1 /\ (j - 1) + 1 = j
  BY <1>4, OrderAssumption
<1>6. Multiple(x, j - 1)
  BY <1>3, <1>5
<1> QED  BY <1>4, <1>5, <1>6, MultipleNext

\* The distance of new work items is a multiple, however often it was halved.
LEMMA DistanceIsMultiple ==
    ASSUME CanBeHalved, NEW m \in 0 .. MaxMoves
    PROVE  Multiple(OrderValue, m)
<1>1. OrderValue = 1 * Half[0] /\ 0 \in 0 .. MaxMoves /\ m \in 0 .. MaxMoves
  BY Halves, OrderAssumption
<1>2. Multiple(OrderValue, 0)
  BY <1>1 DEF Multiple
<1> QED  BY <1>1, <1>2, MultipleFiner

\* Sums of multiples are multiples.
LEMMA SumIsMultiple ==
    ASSUME CanBeHalved, NEW m \in 0 .. MaxMoves, NEW x, NEW y, Multiple(x, m), Multiple(y, m)
    PROVE  Multiple(x + y, m)
<1>1. PICK k \in Nat \ {0} : x = k * Half[m]
  BY DEF Multiple
<1>2. PICK l \in Nat \ {0} : y = l * Half[m]
  BY DEF Multiple
<1>3. PICK h \in Nat \ {0} : h = Half[m]
  BY Halves
<1>4. k * h + l * h = (k + l) * h /\ k + l \in Nat \ {0}
  OBVIOUS
<1> QED  BY <1>1, <1>2, <1>3, <1>4 DEF Multiple

\* The midpoint of two multiples is a multiple of the next halving.
LEMMA MidpointIsMultiple ==
    ASSUME CanBeHalved, NEW m \in 0 .. MaxMoves - 1, NEW x, NEW y, Multiple(x, m), Multiple(y, m)
    PROVE  /\ Multiple(CalculateOrder(x, y), m + 1)
           /\ x < y => x < CalculateOrder(x, y) /\ CalculateOrder(x, y) < y
           /\ y < x => y < CalculateOrder(x, y) /\ CalculateOrder(x, y) < x
<1>1. PICK k \in Nat \ {0} : x = k * Half[m]
  BY DEF Multiple
<1>2. PICK l \in Nat \ {0} : y = l * Half[m]
  BY DEF Multiple
<1>3. PICK h \in Nat \ {0} : h = Half[m + 1]
  BY NextHalving
<1>4. x = 2 * (k * h) /\ y = 2 * (l * h)
  BY <1>1, <1>2, <1>3, NextHalving
<1>5. PICK a, b \in Nat : a = k * h /\ b = l * h /\ a + b = (k + l) * h
  <2>1. k * h \in Nat /\ l * h \in Nat /\ k * h + l * h = (k + l) * h
    OBVIOUS
  <2> QED  BY <2>1
<1>6. CalculateOrder(x, y) = a + b
  <2>1. x = 2 * a /\ y = 2 * b
    BY <1>4, <1>5
  <2>2. (2 * a + 2 * b) \div 2 = a + b
    OBVIOUS
  <2> QED  BY <2>1, <2>2 DEF CalculateOrder
<1>7. Multiple(a + b, m + 1)
  <2>1. k + l \in Nat \ {0}
    OBVIOUS
  <2> QED  BY <1>3, <1>5, <2>1 DEF Multiple
<1>8. x = 2 * a /\ y = 2 * b
  BY <1>4, <1>5
<1> QED  BY <1>6, <1>7, <1>8

\* So is the half of one.
LEMMA HalfIsMultiple ==
    ASSUME CanBeHalved, NEW m \in 0 .. MaxMoves - 1, NEW x, Multiple(x, m)
    PROVE  /\ Multiple(x \div 2, m + 1) /\ x \div 2 < x
           /\ CalculateOrder(x, 0) = x \div 2
<1>1. PICK k \in Nat \ {0} : x = k * Half[m]
  BY DEF Multiple
<1>2. PICK h \in Nat \ {0} : h = Half[m + 1]
  BY NextHalving
<1>3. x = 2 * (k * h)
  BY <1>1, <1>2, NextHalving
<1>4. PICK a \in Nat \ {0} : a = k * h
  <2>1. k * h \in Nat /\ k * h # 0
    OBVIOUS
  <2> QED  BY <2>1
<1>5. x = 2 * a
  BY <1>3, <1>4
<1>6. (2 * a) \div 2 = a /\ (2 * a + 0) \div 2 = a /\ a < 2 * a
  OBVIOUS
<1>7. Multiple(a, m + 1)
  BY <1>2, <1>4 DEF Multiple
<1> QED  BY <1>5, <1>6, <1>7 DEF CalculateOrder

------------------------------------------------------------------------------
(* Tables *)

AllLive(t) == \A i \in Items : t[i].status # "deleted"

\* The live rows of a space.
LiveRows(t, s) == {i \in Items : t[i].status = "live" /\ t[i].space = s}

\* What OrdersAreRight says of the orders of a table.
Apart(t) == AllLive(t) => \A s \in Spaces : \A i, j \in LiveRows(t, s) : t[i].order = t[j].order => i = j

\* A table whose orders are multiples of OrderValue halved m times.
TableOK(t, m) ==
    /\ t \in [Items -> Row \cup {AbsentRow}]
    /\ \A i \in Items : t[i].status # "absent" => Multiple(t[i].order, m)
    /\ \E b \in Nat : \A i \in Items : t[i].order <= b
    /\ Apart(t)

\* The order o is where a request wants i.
AsAsked(t, s, i, direction, target, o) ==
    /\ direction = "top" => \A j \in LiveRows(t, s) \ {i} : o >= t[j].order
    /\ direction = "bottom" => \A j \in LiveRows(t, s) \ {i} : o <= t[j].order
    /\ direction = "above" => target = i \/ o > t[target].order
    /\ direction = "below" => target = i \/ o < t[target].order

\* It is one that no other work item has, as far as nothing was deleted.
IsFree(t, s, i, o) == AllLive(t) => \A j \in LiveRows(t, s) \ {i} : t[j].order # o

\* Rows have a status, a space and a number for their order.
LEMMA RowTypes ==
    ASSUME NEW t, t \in [Items -> Row \cup {AbsentRow}], NEW i \in Items
    PROVE  /\ t[i].order \in Nat /\ t[i].version \in Nat
           /\ t[i].status \in {"absent", "live", "deleted"}
           /\ t[i].status # "absent" => t[i] \in Row /\ t[i].space \in Spaces
BY DEF Row, AbsentRow

\* A table stays sound when midpoints become finer.
LEMMA TableFiner ==
    ASSUME CanBeHalved, NEW m \in 0 .. MaxMoves, NEW n \in m .. MaxMoves, NEW t, TableOK(t, m)
    PROVE  TableOK(t, n)
BY MultipleFiner DEF TableOK

\* The orders of a space are numbers with a bound, those of its rows.
LEMMA OrdersOfSpace ==
    ASSUME NEW m, NEW t, TableOK(t, m), NEW s
    PROVE  /\ Orders(t, RowsOf(t, s)) \in SUBSET Nat
           /\ \E b \in Nat : \A x \in Orders(t, RowsOf(t, s)) : x <= b
           /\ \A x \in Orders(t, RowsOf(t, s)) : Multiple(x, m)
           /\ \A j \in LiveRows(t, s) : t[j].order \in Orders(t, RowsOf(t, s))
           /\ AllLive(t) => \A x \in Orders(t, RowsOf(t, s)) : \E j \in LiveRows(t, s) : t[j].order = x
<1>1. \A i \in Items : t[i].order \in Nat
  BY RowTypes DEF TableOK
<1>2. PICK b \in Nat : \A i \in Items : t[i].order <= b
  BY DEF TableOK
<1>3. \A i \in RowsOf(t, s) : i \in Items /\ t[i].status # "absent" /\ t[i].space = s
  BY DEF RowsOf
<1>4. \A x \in Orders(t, RowsOf(t, s)) : \E i \in RowsOf(t, s) : x = t[i].order
  BY DEF Orders
<1>5. Orders(t, RowsOf(t, s)) \in SUBSET Nat
  BY <1>1, <1>3, <1>4
<1>6. \A x \in Orders(t, RowsOf(t, s)) : x <= b
  BY <1>2, <1>3, <1>4
<1>7. \A x \in Orders(t, RowsOf(t, s)) : Multiple(x, m)
  BY <1>3, <1>4 DEF TableOK
<1>8. \A j \in LiveRows(t, s) : t[j].order \in Orders(t, RowsOf(t, s))
  BY DEF LiveRows, Orders, RowsOf
<1>9. ASSUME AllLive(t) PROVE RowsOf(t, s) \subseteq LiveRows(t, s)
  <2>1. \A i \in Items : t[i].status \in {"absent", "live", "deleted"}
    BY RowTypes DEF TableOK
  <2> QED  BY <1>9, <2>1 DEF RowsOf, LiveRows, AllLive
<1>10. AllLive(t) => \A x \in Orders(t, RowsOf(t, s)) : \E j \in LiveRows(t, s) : t[j].order = x
  BY <1>4, <1>9
<1> QED  BY <1>2, <1>5, <1>6, <1>7, <1>8, <1>10

\* What the subqueries have found: x is the largest, or smallest, of some orders.
LEMMA HighestFound ==
    ASSUME NEW S \in SUBSET Nat, NEW b \in Nat, \A y \in S : y <= b, NEW x \in Highest(S)
    PROVE  x \in S /\ \A y \in S : y <= x
<1>1. S # {} /\ x = Max(S)
  BY DEF Highest
<1>2. Max(S) \in S /\ \A y \in S : Max(S) >= y
  BY <1>1, LargestNumber
<1> QED  BY <1>1, <1>2

\* What Lowest returns is a smallest element.
LEMMA LowestFound ==
    ASSUME NEW S \in SUBSET Nat, NEW x \in Lowest(S)
    PROVE  x \in S /\ \A y \in S : x <= y
<1>1. S # {} /\ x = Min(S)
  BY DEF Lowest
<1> QED  BY <1>1, SmallestNumber

\* If nothing was deleted, a query finds a row when its subquery finds an order.
LEMMA FoundIfAny ==
    ASSUME NEW m, NEW t, TableOK(t, m), NEW s, AllLive(t), NEW S \in SUBSET Orders(t, RowsOf(t, s)), S # {}
    PROVE  LiveWith(t, Highest(S)) # {} /\ LiveWith(t, Lowest(S)) # {}
<1>1. S \in SUBSET Nat
  BY OrdersOfSpace
<1>2. PICK b \in Nat : \A x \in S : x <= b
  <2>1. PICK b \in Nat : \A x \in Orders(t, RowsOf(t, s)) : x <= b
    BY OrdersOfSpace
  <2> QED  BY <2>1
<1>3. Max(S) \in S /\ Min(S) \in S
  BY <1>1, <1>2, LargestNumber, SmallestNumber
<1>4. \A x \in S : \E j \in LiveRows(t, s) : t[j].order = x
  BY OrdersOfSpace
<1>5. PICK j \in LiveRows(t, s) : t[j].order = Max(S)
  BY <1>3, <1>4
<1>6. PICK k \in LiveRows(t, s) : t[k].order = Min(S)
  BY <1>3, <1>4
<1>7. j \in LiveWith(t, Highest(S)) /\ k \in LiveWith(t, Lowest(S))
  BY <1>5, <1>6 DEF LiveWith, LiveRows, Highest, Lowest
<1> QED  BY <1>7

\* The order of a new work item is free.
LEMMA NewOrder ==
    ASSUME CanBeHalved, NEW m \in 0 .. MaxMoves, NEW t, TableOK(t, m), NEW s, NEW top, top = TopItems(t, s),
           NEW o, o = (IF top = {} THEN 0 ELSE Max(Orders(t, top))) + OrderValue, NEW i
    PROVE  Multiple(o, m) /\ IsFree(t, s, i, o)
<1> DEFINE all == Orders(t, RowsOf(t, s))
<1>1. all \in SUBSET Nat /\ \A x \in all : Multiple(x, m)
  BY OrdersOfSpace
<1>2. PICK b \in Nat : \A x \in all : x <= b
  BY OrdersOfSpace
<1>3. \A j \in LiveRows(t, s) : t[j].order \in all
  BY OrdersOfSpace
<1>4. Multiple(OrderValue, m) /\ OrderValue \in Nat \ {0}
  BY DistanceIsMultiple, OrderAssumption
<1>5. top = LiveWith(t, Highest(all))
  BY DEF TopItems
<1>6. CASE top = {}
  <2>1. o = OrderValue
    BY <1>4, <1>6
  <2>2. AllLive(t) => all = {}
    BY <1>5, <1>6, FoundIfAny
  <2> HIDE DEF all
  <2> QED  BY <1>3, <1>4, <2>1, <2>2 DEF IsFree
<1>7. CASE top # {}
  <2>1. PICK j \in top : TRUE
    BY <1>7
  <2>2. \A k \in top : t[k].order \in Highest(all)
    BY <1>5 DEF LiveWith
  <2>3. PICK x : x \in Highest(all) /\ \A k \in top : t[k].order = x
    BY <2>1, <2>2 DEF Highest
  <2> HIDE DEF all
  <2>4. x \in all /\ \A y \in all : y <= x
    BY <1>1, <1>2, <2>3, HighestFound
  <2>5. Orders(t, top) = {x}
    BY <2>1, <2>3 DEF Orders
  <2>6. Max({x}) = x
    BY <1>1, <2>4 DEF Max
  <2>7. o = x + OrderValue /\ x \in Nat
    BY <1>1, <1>7, <2>4, <2>5, <2>6
  <2>8. Multiple(o, m)
    BY <1>1, <1>4, <2>4, <2>7, SumIsMultiple
  <2>9. \A y \in all : y # o
    BY <1>1, <1>4, <2>4, <2>7
  <2> QED  BY <1>3, <2>8, <2>9 DEF IsFree
<1> QED  BY <1>6, <1>7

\* MoveNextTo: the order next to the target is on the side that was asked for, and free.
NextTo(t, i, f, direction, second, o) ==
    IF second = {}
       THEN o = IF direction = "below" THEN CalculateOrder(f, 0) ELSE f + OrderValue
       ELSE \E j \in second : o = IF j = i THEN t[i].order ELSE CalculateOrder(f, t[j].order)

\* A row that is live in a space, and its order.
IsLive(t, s, i) == i \in Items /\ t[i].status = "live" /\ t[i].space = s

\* The order of a live row is one of its space's.
LEMMA LiveOrder ==
    ASSUME NEW m, NEW t, TableOK(t, m), NEW s, NEW i, IsLive(t, s, i)
    PROVE  /\ t[i].order \in Orders(t, RowsOf(t, s)) /\ t[i].order \in Nat
           /\ Multiple(t[i].order, m)
<1>1. i \in LiveRows(t, s)
  BY DEF IsLive, LiveRows
<1> QED  BY <1>1, OrdersOfSpace

\* Who keeps the order of its own row, has a free one.
LEMMA OwnOrder ==
    ASSUME NEW m, NEW t, TableOK(t, m), NEW s \in Spaces, NEW i, IsLive(t, s, i)
    PROVE  IsFree(t, s, i, t[i].order)
<1>1. i \in LiveRows(t, s)
  BY DEF IsLive, LiveRows
<1> QED  BY <1>1 DEF TableOK, Apart, IsFree

\* A midpoint of two orders with none between is free.
LEMMA BetweenIsFree ==
    ASSUME NEW m, NEW t, TableOK(t, m), NEW s, NEW i, NEW o \in Nat,
           \A x \in Orders(t, RowsOf(t, s)) : x # o
    PROVE  IsFree(t, s, i, o)
BY OrdersOfSpace DEF IsFree

\* Below the target: the midpoint of the target and the next one below.
LEMMA MovedBelow ==
    ASSUME CanBeHalved, NEW m \in 0 .. MaxMoves - 1, NEW t, TableOK(t, m), NEW s \in Spaces,
           NEW i, IsLive(t, s, i), NEW target, IsLive(t, s, target), NEW f, f = t[target].order,
           NEW second, second = SecondItems(t, s, f, "below"), NEW o, NextTo(t, i, f, "below", second, o)
    PROVE  Multiple(o, m + 1) /\ o < f /\ IsFree(t, s, i, o)
<1> PICK all : all = Orders(t, RowsOf(t, s))
  OBVIOUS
<1> DEFINE lower == {x \in all : x < f}
<1>1. all \in SUBSET Nat /\ \A x \in all : Multiple(x, m)
  BY OrdersOfSpace
<1>2. PICK b \in Nat : \A x \in all : x <= b
  BY OrdersOfSpace
<1>3. f \in all /\ f \in Nat /\ Multiple(f, m)
  BY LiveOrder
<1>4. second = LiveWith(t, Highest(lower))
  BY DEF SecondItems
<1>5. CASE second = {}
  <2>1. o = f \div 2 /\ Multiple(f \div 2, m + 1) /\ f \div 2 < f
    BY <1>3, <1>5, HalfIsMultiple DEF NextTo
  <2>2. AllLive(t) => lower = {}
    <3>1. lower \in SUBSET Orders(t, RowsOf(t, s))
      OBVIOUS
    <3> HIDE DEF lower
    <3> QED  BY <1>4, <1>5, <3>1, FoundIfAny
  <2>3. AllLive(t) => \A x \in all : x # o
    BY <1>1, <1>3, <2>1, <2>2
  <2>4. o \in Nat
    BY <1>3, <2>1
  <2>5. IsFree(t, s, i, o)
    BY <2>3, <2>4, BetweenIsFree DEF IsFree
  <2> QED  BY <2>1, <2>5
<1>6. CASE second # {}
  <2> PICK j \in second : o = IF j = i THEN t[i].order ELSE CalculateOrder(f, t[j].order)
    BY <1>6 DEF NextTo
  <2> PICK x : x = t[j].order
    OBVIOUS
  <2>1. x \in Highest(lower)
    BY <1>4 DEF LiveWith
  <2>2. x \in lower /\ \A y \in lower : y <= x
    <3>1. lower \in SUBSET Nat /\ \A y \in lower : y <= b
      BY <1>1, <1>2
    <3> HIDE DEF lower
    <3> QED  BY <1>2, <2>1, <3>1, HighestFound
  <2>3. x \in all /\ x < f /\ x \in Nat /\ \A y \in all : y < f => y <= x
    BY <1>1, <2>2
  <2> HIDE DEF lower
  <2>4. CASE j = i
    <3>1. o = t[i].order /\ o = x
      BY <2>4
    <3>2. Multiple(x, m + 1)
      BY <1>1, <2>3, MultipleNext
    <3> QED  BY <2>3, <3>1, <3>2, OwnOrder
  <2>5. CASE j # i
    <3>1. o = CalculateOrder(f, x)
      BY <2>5
    <3>2. Multiple(o, m + 1) /\ x < o /\ o < f
      BY <1>1, <1>3, <2>3, <3>1, MidpointIsMultiple
    <3>3. o \in Nat
      BY <3>2, MultiplePositive, NextHalving, OrderAssumption
    <3>4. \A y \in all : y # o
      BY <1>1, <1>3, <2>3, <3>2, <3>3
    <3> QED  BY <3>2, <3>3, <3>4, BetweenIsFree
  <2> QED  BY <2>4, <2>5
<1> QED  BY <1>5, <1>6

\* Above the target: the midpoint of the target and the next one above, or the distance above it.
LEMMA MovedAbove ==
    ASSUME CanBeHalved, NEW m \in 0 .. MaxMoves - 1, NEW t, TableOK(t, m), NEW s \in Spaces,
           NEW i, IsLive(t, s, i), NEW target, IsLive(t, s, target), NEW f, f = t[target].order,
           NEW second, second = SecondItems(t, s, f, "above"), NEW o, NextTo(t, i, f, "above", second, o)
    PROVE  Multiple(o, m + 1) /\ o > f /\ IsFree(t, s, i, o)
<1> PICK all : all = Orders(t, RowsOf(t, s))
  OBVIOUS
<1> DEFINE higher == {x \in all : x > f}
<1>1. all \in SUBSET Nat /\ \A x \in all : Multiple(x, m)
  BY OrdersOfSpace
<1>2. f \in all /\ f \in Nat /\ Multiple(f, m)
  BY LiveOrder
<1>3. second = LiveWith(t, Lowest(higher))
  BY DEF SecondItems
<1>4. CASE second = {}
  <2>1. Multiple(f + OrderValue, m + 1) /\ OrderValue \in Nat \ {0}
    <3>1. m \in 0 .. MaxMoves /\ Multiple(OrderValue, m)
      BY DistanceIsMultiple, OrderAssumption
    <3>2. Multiple(f + OrderValue, m)
      BY <1>2, <3>1, SumIsMultiple
    <3> QED  BY <3>2, MultipleNext, OrderAssumption
  <2>2. o = f + OrderValue
    BY <1>4 DEF NextTo
  <2>3. AllLive(t) => higher = {}
    <3>1. higher \in SUBSET Orders(t, RowsOf(t, s))
      OBVIOUS
    <3> HIDE DEF higher
    <3> QED  BY <1>3, <1>4, <3>1, FoundIfAny
  <2>4. AllLive(t) => \A x \in all : x # o
    BY <1>1, <1>2, <2>1, <2>2, <2>3
  <2>5. o \in Nat /\ o > f
    BY <1>2, <2>1, <2>2
  <2>6. IsFree(t, s, i, o)
    BY <2>4, <2>5, BetweenIsFree DEF IsFree
  <2> QED  BY <2>1, <2>2, <2>5, <2>6
<1>5. CASE second # {}
  <2> PICK j \in second : o = IF j = i THEN t[i].order ELSE CalculateOrder(f, t[j].order)
    BY <1>5 DEF NextTo
  <2> PICK x : x = t[j].order
    OBVIOUS
  <2>1. x \in Lowest(higher)
    BY <1>3 DEF LiveWith
  <2>2. x \in higher /\ \A y \in higher : x <= y
    <3>1. higher \in SUBSET Nat
      BY <1>1
    <3> HIDE DEF higher
    <3> QED  BY <2>1, <3>1, LowestFound
  <2>3. x \in all /\ x > f /\ x \in Nat /\ \A y \in all : y > f => x <= y
    BY <1>1, <2>2
  <2> HIDE DEF higher
  <2>4. CASE j = i
    <3>1. o = t[i].order /\ o = x
      BY <2>4
    <3>2. Multiple(x, m + 1)
      BY <1>1, <2>3, MultipleNext
    <3> QED  BY <2>3, <3>1, <3>2, OwnOrder
  <2>5. CASE j # i
    <3>1. o = CalculateOrder(f, x)
      BY <2>5
    <3>2. Multiple(o, m + 1) /\ f < o /\ o < x
      BY <1>1, <1>2, <2>3, <3>1, MidpointIsMultiple
    <3>3. o \in Nat
      BY <3>2, MultiplePositive, NextHalving, OrderAssumption
    <3>4. \A y \in all : y # o
      BY <1>1, <1>2, <2>3, <3>2, <3>3
    <3>5. o > f
      BY <1>2, <3>2, <3>3
    <3> QED  BY <3>2, <3>3, <3>4, <3>5, BetweenIsFree
  <2> QED  BY <2>4, <2>5
<1> QED  BY <1>4, <1>5

\* To the top: above the highest order, unless the row has it.
LEMMA MovedToTop ==
    ASSUME CanBeHalved, NEW m \in 0 .. MaxMoves - 1, NEW t, TableOK(t, m), NEW s \in Spaces,
           NEW i, IsLive(t, s, i), NEW j \in TopItems(t, s),
           NEW o, o = IF j = i THEN t[i].order ELSE t[j].order + OrderValue
    PROVE  Multiple(o, m + 1) /\ IsFree(t, s, i, o) /\ \A k \in LiveRows(t, s) : o >= t[k].order
<1> PICK all : all = Orders(t, RowsOf(t, s))
  OBVIOUS
<1> PICK x : x = t[j].order
  OBVIOUS
<1>1. all \in SUBSET Nat /\ (\A y \in all : Multiple(y, m)) /\ \A k \in LiveRows(t, s) : t[k].order \in all
  BY OrdersOfSpace
<1>2. PICK b \in Nat : \A y \in all : y <= b
  BY OrdersOfSpace
<1>3. x \in Highest(all)
  BY DEF TopItems, LiveWith
<1>4. x \in all /\ \A y \in all : y <= x
  BY <1>1, <1>2, <1>3, HighestFound
<1>5. CASE j = i
  <2>1. o = t[i].order /\ o = x
    BY <1>5
  <2>2. Multiple(x, m + 1)
    BY <1>1, <1>4, MultipleNext
  <2>3. \A k \in LiveRows(t, s) : x >= t[k].order
    BY <1>1, <1>4
  <2> QED  BY <2>1, <2>2, <2>3, OwnOrder
<1>6. CASE j # i
  <2>1. o = x + OrderValue
    BY <1>6
  <2>2. m \in 0 .. MaxMoves /\ Multiple(OrderValue, m) /\ OrderValue \in Nat \ {0}
    BY DistanceIsMultiple, OrderAssumption
  <2>3. Multiple(o, m)
    BY <1>1, <1>4, <2>1, <2>2, SumIsMultiple
  <2>4. Multiple(o, m + 1)
    BY <2>3, MultipleNext
  <2>5. o \in Nat /\ (\A y \in all : y # o) /\ \A y \in all : o >= y
    BY <1>1, <1>4, <2>1, <2>2
  <2>6. \A k \in LiveRows(t, s) : o >= t[k].order
    BY <1>1, <2>5
  <2> QED  BY <2>4, <2>5, <2>6, BetweenIsFree
<1> QED  BY <1>5, <1>6

\* To the bottom: half the lowest order, unless the row has it.
LEMMA MovedToBottom ==
    ASSUME CanBeHalved, NEW m \in 0 .. MaxMoves - 1, NEW t, TableOK(t, m), NEW s \in Spaces,
           NEW i, IsLive(t, s, i), NEW j \in BottomItems(t, s),
           NEW o, o = IF j = i THEN t[i].order ELSE t[j].order \div 2
    PROVE  Multiple(o, m + 1) /\ IsFree(t, s, i, o) /\ \A k \in LiveRows(t, s) : o <= t[k].order
<1> PICK all : all = Orders(t, RowsOf(t, s))
  OBVIOUS
<1> PICK x : x = t[j].order
  OBVIOUS
<1>1. all \in SUBSET Nat /\ (\A y \in all : Multiple(y, m)) /\ \A k \in LiveRows(t, s) : t[k].order \in all
  BY OrdersOfSpace
<1>2. x \in Lowest(all)
  BY DEF BottomItems, LiveWith
<1>3. x \in all /\ \A y \in all : x <= y
  BY <1>1, <1>2, LowestFound
<1>4. CASE j = i
  <2>1. o = t[i].order /\ o = x
    BY <1>4
  <2>2. Multiple(x, m + 1)
    BY <1>1, <1>3, MultipleNext
  <2>3. \A k \in LiveRows(t, s) : x <= t[k].order
    BY <1>1, <1>3
  <2> QED  BY <2>1, <2>2, <2>3, OwnOrder
<1>5. CASE j # i
  <2>1. o = x \div 2 /\ Multiple(x \div 2, m + 1) /\ x \div 2 < x
    BY <1>1, <1>3, <1>5, HalfIsMultiple
  <2>2. o \in Nat
    BY <1>1, <1>3, <2>1
  <2>3. (\A y \in all : y # o) /\ \A y \in all : o <= y
    BY <1>1, <1>3, <2>1, <2>2
  <2>4. \A k \in LiveRows(t, s) : o <= t[k].order
    BY <1>1, <2>3
  <2> QED  BY <2>1, <2>2, <2>3, <2>4, BetweenIsFree
<1> QED  BY <1>4, <1>5

\* A move of a row to a free order.
MovedIn(t, i, o) == [j \in Items |-> IF j = i THEN [t[i] EXCEPT !.order = o, !.version = @ + 1] ELSE t[j]]

\* Two tables have the same rows in the same spaces.
SameRows(t, u) == \A i \in Items : u[i].status = t[i].status /\ u[i].space = t[i].space

\* A table in which a work item got a free order is as good as before, one halving later.
LEMMA TableMoved ==
    ASSUME CanBeHalved, NEW m \in 0 .. MaxMoves - 1, NEW t, TableOK(t, m), NEW s \in Spaces,
           NEW i, IsLive(t, s, i), NEW o, Multiple(o, m + 1), IsFree(t, s, i, o), NEW u, u = MovedIn(t, i, o)
    PROVE  /\ TableOK(u, m + 1) /\ SameRows(t, u) /\ u[i].order = o /\ u[i] \in Row
           /\ \A j \in Items \ {i} : u[j] = t[j]
<1>1. m + 1 \in 0 .. MaxMoves /\ m \in 0 .. MaxMoves /\ m + 1 \in m .. MaxMoves
  BY OrderAssumption
<1>2. o \in Nat \ {0}
  BY <1>1, MultiplePositive
<1>3. i \in Items /\ t[i].status = "live" /\ t[i].space = s
  BY DEF IsLive
<1>4. t[i] \in Row
  BY <1>3, RowTypes DEF TableOK
<1>5. u[i] \in Row /\ u[i].order = o /\ u[i].status = "live" /\ u[i].space = s
  <2>1. u[i] = [t[i] EXCEPT !.order = o, !.version = @ + 1]
    BY <1>3 DEF MovedIn
  <2>2. t[i].version + 1 \in Nat /\ t[i] = [t[i] EXCEPT !.order = t[i].order]
    BY <1>4 DEF Row
  <2> QED  BY <1>2, <1>3, <1>4, <2>1, <2>2 DEF Row
<1>6. \A j \in Items \ {i} : u[j] = t[j]
  BY <1>3 DEF MovedIn
<1>7. SameRows(t, u)
  BY <1>3, <1>5, <1>6 DEF SameRows
<1>8. u \in [Items -> Row \cup {AbsentRow}]
  <2>1. u = [j \in Items |-> u[j]]
    BY DEF MovedIn
  <2>2. \A j \in Items : u[j] \in Row \cup {AbsentRow}
    BY <1>5, <1>6 DEF TableOK
  <2> QED  BY <2>1, <2>2
<1>9. \A j \in Items : u[j].status # "absent" => Multiple(u[j].order, m + 1)
  <2>1. \A j \in Items : t[j].status # "absent" => Multiple(t[j].order, m + 1)
    BY <1>1, TableFiner DEF TableOK
  <2> QED  BY <1>5, <1>6, <2>1
<1>10. \E b \in Nat : \A j \in Items : u[j].order <= b
  <2>1. PICK b \in Nat : \A j \in Items : t[j].order <= b
    BY DEF TableOK
  <2>2. \A j \in Items : t[j].order \in Nat
    BY RowTypes DEF TableOK
  <2>3. b + o \in Nat /\ \A j \in Items : u[j].order <= b + o
    BY <1>2, <1>5, <1>6, <2>1, <2>2
  <2> QED  BY <2>3
<1>11. Apart(u)
  <2> SUFFICES ASSUME AllLive(u), NEW p \in Spaces, NEW j \in LiveRows(u, p), NEW k \in LiveRows(u, p),
                      u[j].order = u[k].order
               PROVE  j = k
    BY DEF Apart
  <2>1. AllLive(t)
    BY <1>7 DEF SameRows, AllLive
  <2>2. j \in LiveRows(t, p) /\ k \in LiveRows(t, p)
    BY <1>7 DEF SameRows, LiveRows
  <2>3. \A l \in LiveRows(t, s) \ {i} : t[l].order # o
    BY <2>1 DEF IsFree
  <2>4. CASE j # i /\ k # i
    <3>1. t[j].order = t[k].order
      BY <1>6, <2>2, <2>4 DEF LiveRows
    <3> QED  BY <2>1, <2>2, <3>1 DEF TableOK, Apart
  <2>5. CASE j = i /\ k # i
    <3>1. k \in LiveRows(t, s) /\ t[k].order = o
      BY <1>3, <1>5, <1>6, <2>2, <2>5 DEF LiveRows
    <3> QED  BY <2>3, <2>5, <3>1
  <2>6. CASE j # i /\ k = i
    <3>1. j \in LiveRows(t, s) /\ t[j].order = o
      BY <1>3, <1>5, <1>6, <2>2, <2>6 DEF LiveRows
    <3> QED  BY <2>3, <2>6, <3>1
  <2> QED  BY <2>4, <2>5, <2>6
<1> QED  BY <1>5, <1>6, <1>7, <1>8, <1>9, <1>10, <1>11 DEF TableOK

\* Where a row was to be put, it is.
LEMMA PlaceKept ==
    ASSUME NEW t, NEW u, NEW i \in Items, SameRows(t, u), \A j \in Items \ {i} : u[j] = t[j],
           NEW s, NEW direction, NEW target \in Items, NEW o, AsAsked(t, s, i, direction, target, o)
    PROVE  AsAsked(u, s, i, direction, target, o)
<1>1. LiveRows(u, s) = LiveRows(t, s) /\ \A j \in LiveRows(t, s) : j \in Items
  BY DEF SameRows, LiveRows
<1>2. \A j \in LiveRows(t, s) \ {i} : u[j].order = t[j].order
  BY <1>1
<1>3. target # i => u[target].order = t[target].order
  OBVIOUS
<1> QED  BY <1>1, <1>2, <1>3 DEF AsAsked

\* A new row with a free order.
LEMMA TableInserted ==
    ASSUME CanBeHalved, NEW m \in 0 .. MaxMoves, NEW t, TableOK(t, m), NEW s \in Spaces,
           NEW i \in Items, t[i] = AbsentRow, NEW o, Multiple(o, m), IsFree(t, s, i, o),
           NEW u, u = [t EXCEPT ![i] = [status |-> "live", space |-> s, order |-> o, version |-> 0]]
    PROVE  TableOK(u, m)
<1>1. o \in Nat \ {0}
  BY MultiplePositive
<1>2. t \in [Items -> Row \cup {AbsentRow}]
  BY DEF TableOK
<1>3. u[i] = [status |-> "live", space |-> s, order |-> o, version |-> 0]
  BY <1>2
<1>4. u[i] \in Row /\ u[i].order = o /\ u[i].status = "live" /\ u[i].space = s
  BY <1>1, <1>3 DEF Row
<1>5. \A j \in Items \ {i} : u[j] = t[j]
  BY <1>2
<1>6. u \in [Items -> Row \cup {AbsentRow}]
  BY <1>2, <1>3, <1>4
<1>7. \A j \in Items : u[j].status # "absent" => Multiple(u[j].order, m)
  BY <1>4, <1>5 DEF TableOK
<1>8. \E b \in Nat : \A j \in Items : u[j].order <= b
  <2>1. PICK b \in Nat : \A j \in Items : t[j].order <= b
    BY DEF TableOK
  <2>2. \A j \in Items : t[j].order \in Nat
    BY <1>2, RowTypes
  <2>3. b + o \in Nat /\ \A j \in Items : u[j].order <= b + o
    BY <1>1, <1>4, <1>5, <2>1, <2>2
  <2> QED  BY <2>3
<1>9. Apart(u)
  <2> SUFFICES ASSUME AllLive(u), NEW p \in Spaces, NEW j \in LiveRows(u, p), NEW k \in LiveRows(u, p),
                      u[j].order = u[k].order
               PROVE  j = k
    BY DEF Apart
  <2>1. AllLive(t)
    BY <1>5 DEF AbsentRow, AllLive
  <2>2. \A l \in LiveRows(t, s) \ {i} : t[l].order # o
    BY <2>1 DEF IsFree
  <2>3. \A l \in LiveRows(u, p) : l # i => l \in LiveRows(t, p)
    BY <1>5 DEF LiveRows
  <2>4. \A l \in LiveRows(u, p) : l \in Items /\ u[l].space = p
    BY DEF LiveRows
  <2>5. CASE j # i /\ k # i
    <3>1. t[j].order = t[k].order
      BY <1>5, <2>4, <2>5
    <3> QED  BY <2>1, <2>3, <2>5, <3>1 DEF TableOK, Apart
  <2>6. CASE j = i /\ k # i
    <3>1. p = s /\ t[k].order = o
      BY <1>4, <1>5, <2>4, <2>6
    <3> QED  BY <2>2, <2>3, <2>6, <3>1
  <2>7. CASE j # i /\ k = i
    <3>1. p = s /\ t[j].order = o
      BY <1>4, <1>5, <2>4, <2>7
    <3> QED  BY <2>2, <2>3, <2>7, <3>1
  <2> QED  BY <2>5, <2>6, <2>7
<1> QED  BY <1>6, <1>7, <1>8, <1>9 DEF TableOK

\* After a deletion, orders may meet.
LEMMA TableDeleted ==
    ASSUME NEW m, NEW t, TableOK(t, m), NEW i \in Items, t[i].status = "live",
           NEW u, u = [t EXCEPT ![i].status = "deleted"]
    PROVE  TableOK(u, m)
<1>1. t \in [Items -> Row \cup {AbsentRow}] /\ t[i] \in Row
  BY RowTypes DEF TableOK
<1>2. u[i] = [t[i] EXCEPT !.status = "deleted"] /\ \A j \in Items \ {i} : u[j] = t[j]
  BY <1>1
<1>3. u[i] \in Row /\ u[i].status = "deleted" /\ u[i].order = t[i].order
  BY <1>1, <1>2 DEF Row
<1>4. u \in [Items -> Row \cup {AbsentRow}]
  BY <1>1, <1>2, <1>3
<1>5. Apart(u)
  BY <1>3 DEF Apart, AllLive
<1>6. \A j \in Items : u[j].order = t[j].order /\ (u[j].status # "absent" => t[j].status # "absent")
  BY <1>2, <1>3
<1> QED  BY <1>4, <1>5, <1>6 DEF TableOK

------------------------------------------------------------------------------
(* The requests *)

\* A reorder request has a batch to move.
Moving == {"re_load", "re_first", "re_second", "re_end", "re_save", "commit"}
Loaded == {"re_first", "re_second", "re_end", "re_save"}

\* The moves that are behind the orders which c sees.
Done(c) == IF pc[c] \in Moving THEN moves - (Len(req[c].batch) - req[c].at + 1) ELSE moves

\* The tables of c, before and after what it has changed, and the moves it has reserved.
TablesOK(c) ==
    /\ TableOK(rows, Done(c)) /\ TableOK(View(c), Done(c)) /\ SameRows(rows, View(c))
    /\ pc[c] \notin Moving => pending[c] = <<>>
    /\ pc[c] \in Moving => Len(req[c].batch) <= moves

\* The order of a new work item is free.
CreateOK(c) ==
    pc[c] = "cr_insert" => Multiple(order[c], moves) /\ \A i \in Items : IsFree(rows, req[c], i, order[c])

\* What was loaded is still so.
LoadedOK(c) ==
    /\ pc[c] \in Loaded \cup {"commit"} => IsLive(View(c), req[c].space, item[c].id)
    /\ pc[c] \in Loaded => item[c].order = View(c)[item[c].id].order
    /\ pc[c] \in {"re_first", "re_second"} => req[c].direction \in {"above", "below"}
    /\ pc[c] = "re_end" => req[c].direction \in {"top", "bottom"}
    /\ pc[c] = "re_second" => /\ IsLive(View(c), req[c].space, req[c].target)
                              /\ found[c] = View(c)[req[c].target].order

\* The order that was computed is where the request wants the row, and free; then the row has it.
OrderOK(c) ==
    /\ pc[c] = "re_save" => Multiple(order[c], Done(c) + 1)
    /\ pc[c] = "re_save" => IsFree(View(c), req[c].space, item[c].id, order[c])
    /\ pc[c] \in {"re_save", "commit"} =>
          AsAsked(View(c), req[c].space, item[c].id, req[c].direction, req[c].target, order[c])
    /\ pc[c] = "commit" => View(c)[item[c].id].order = order[c]

Shapes ==
    /\ req = [c \in Clients |-> req[c]] /\ item = [c \in Clients |-> item[c]]
    /\ found = [c \in Clients |-> found[c]] /\ order = [c \in Clients |-> order[c]]
    /\ pending = [c \in Clients |-> pending[c]]

ClientOK(c) == TablesOK(c) /\ CreateOK(c) /\ LoadedOK(c) /\ OrderOK(c)

OrderInv ==
    /\ Alone /\ CanBeHalved
    /\ TypeOK /\ Shapes
    /\ Apart(rows)
    /\ \A c \in Clients : ClientOK(c)

\* What TypeOK says of one client.
ClientTypeOK(c) ==
    /\ pc[c] \in {"cr_insert", "re_save"} => order[c] \in Nat \ {0}
    /\ pc[c] = "re_second" => found[c] \in Nat \ {0}
    /\ pc[c] \in {"cr_highest", "cr_insert"} => req[c] \in Spaces
    /\ pc[c] \in Moving =>
         /\ req[c] \in [space : Spaces, direction : Directions, target : Items, at : Nat, batch : Seq(Entry)]
         /\ IF pc[c] = "commit" THEN req[c].at = Len(req[c].batch) + 1 ELSE req[c].at \in DOMAIN req[c].batch
    /\ DOMAIN pending[c] \subseteq Items
    /\ \A i \in DOMAIN pending[c] : pending[c][i] \in Row

\* To one client, TypeOK is a statement about each client: no locks of others.
LEMMA TypesOfClients ==
    ASSUME Alone
    PROVE  TypeOK <=> /\ rows \in [Items -> Row \cup {AbsentRow}] /\ pc \in [Clients -> PCs]
                      /\ moves \in 0 .. MaxMoves /\ \A c \in Clients : ClientTypeOK(c)
BY DEF TypeOK, ClientTypeOK, Moving, Alone, Unlocked

\* The same of the next state.
LEMMA TypesOfClientsNext ==
    ASSUME Alone
    PROVE  TypeOK' <=> /\ rows' \in [Items -> Row \cup {AbsentRow}] /\ pc' \in [Clients -> PCs]
                       /\ moves' \in 0 .. MaxMoves /\ \A c \in Clients : ClientTypeOK(c)'
BY DEF TypeOK, ClientTypeOK, Moving, Alone, Unlocked

\* How far a request is.
LEMMA DoneInRange ==
    ASSUME OrderInv, NEW c \in Clients
    PROVE  /\ Done(c) \in 0 .. moves /\ Done(c) \in 0 .. MaxMoves /\ moves \in 0 .. MaxMoves /\ moves \in Done(c) .. MaxMoves
           /\ pc[c] = "commit" \/ pc[c] \notin Moving => Done(c) = moves
           /\ pc[c] \in Moving \ {"commit"} => Done(c) + 1 <= moves /\ Done(c) \in 0 .. MaxMoves - 1
<1>1. moves \in Nat /\ moves <= MaxMoves /\ MaxMoves \in Nat /\ ClientTypeOK(c) /\ TablesOK(c)
  BY OrderAssumption, TypesOfClients DEF OrderInv, ClientOK
<1>2. CASE pc[c] \notin Moving
  BY <1>1, <1>2 DEF Done, Moving
<1>3. CASE pc[c] = "commit"
  <2>1. req[c].at = Len(req[c].batch) + 1 /\ Len(req[c].batch) \in Nat
    BY <1>1, <1>3 DEF ClientTypeOK, Moving
  <2> QED  BY <1>1, <1>3, <2>1 DEF Done, Moving
<1>4. CASE pc[c] \in Moving \ {"commit"}
  <2>1. req[c].at \in 1 .. Len(req[c].batch) /\ Len(req[c].batch) \in Nat
    BY <1>1, <1>4 DEF ClientTypeOK
  <2>2. Len(req[c].batch) <= moves
    BY <1>1, <1>4 DEF TablesOK
  <2>3. Done(c) = moves - (Len(req[c].batch) - req[c].at + 1)
    BY <1>4 DEF Done
  <2>4. PICK n, k \in Nat : n = Len(req[c].batch) /\ k = req[c].at
    BY <2>1
  <2>5. Done(c) = moves - (n - k + 1) /\ k \in 1 .. n /\ n <= moves
    BY <2>1, <2>2, <2>3, <2>4
  <2>6. Done(c) \in 0 .. moves /\ Done(c) + 1 <= moves
    BY <1>1, <2>5
  <2> QED  BY <1>1, <1>4, <2>6
<1> QED  BY <1>2, <1>3, <1>4

\* A client that is alone changes nobody else's view.
LEMMA AloneNext ==
    ASSUME OrderInv, NEW c \in Clients, pc' \in [Clients -> PCs], moves' \in 0 .. MaxMoves,
           rows' \in [Items -> Row \cup {AbsentRow}], Apart(rows'), Shapes', ClientTypeOK(c)', ClientOK(c)'
    PROVE  OrderInv'
<1>1. \A b \in Clients : b = c
  BY DEF OrderInv, Alone
<1>2. \A b \in Clients : ClientTypeOK(b)'
  BY <1>1
<1>3. \A b \in Clients : ClientOK(b)'
  BY <1>1
<1>4. Alone /\ CanBeHalved
  BY DEF OrderInv
<1>5. TypeOK'
  BY <1>2, <1>4, TypesOfClientsNext
<1>6. Apart(rows)'
  OBVIOUS
<1> QED  BY <1>3, <1>4, <1>5, <1>6 DEF OrderInv

\* A transaction that ends leaves a sound table, whatever it was about.
LEMMA Answered ==
    ASSUME OrderInv, NEW c \in Clients, Answer(c), moves' = moves, TableOK(rows', moves)
    PROVE  OrderInv'
<1>1. TypeOK /\ Shapes /\ pc \in [Clients -> PCs]
  BY DEF OrderInv, TypeOK
<1>2. /\ pc' = [pc EXCEPT ![c] = "idle"] /\ req' = [req EXCEPT ![c] = None] /\ item' = [item EXCEPT ![c] = None]
      /\ found' = [found EXCEPT ![c] = 0] /\ order' = [order EXCEPT ![c] = 0] /\ pending' = [pending EXCEPT ![c] = <<>>]
  BY DEF Answer, Goto
<1>3. pc' \in [Clients -> PCs] /\ pc'[c] = "idle"
  BY <1>1, <1>2 DEF PCs
<1>4. Shapes' /\ pending'[c] = <<>>
  BY <1>1, <1>2 DEF Shapes
<1>5. moves' \in 0 .. MaxMoves
  BY <1>1 DEF TypeOK
<1>6. rows' \in [Items -> Row \cup {AbsentRow}] /\ Apart(rows')
  BY DEF TableOK
<1>7. View(c)' = rows'
  <2>1. DOMAIN pending'[c] = {}
    BY <1>4
  <2>2. View(c)' = [i \in Items |-> rows'[i]]
    BY <2>1 DEF View
  <2> QED  BY <1>6, <2>2
<1>8. Done(c)' = moves
  BY <1>3 DEF Done, Moving
<1>9. TablesOK(c)'
  <2>1. TableOK(rows', Done(c)') /\ TableOK(View(c)', Done(c)') /\ SameRows(rows', View(c)')
    BY <1>7, <1>8 DEF SameRows
  <2> QED  BY <1>3, <1>4, <2>1 DEF TablesOK, Moving
<1>10. CreateOK(c)' /\ LoadedOK(c)' /\ OrderOK(c)'
  BY <1>3 DEF CreateOK, LoadedOK, OrderOK, Loaded
<1>11. ClientTypeOK(c)'
  BY <1>3, <1>4 DEF ClientTypeOK, Moving
<1> QED  BY <1>3, <1>4, <1>5, <1>6, <1>9, <1>10, <1>11, AloneNext DEF ClientOK

\* Nothing is lost when it is rolled back.
LEMMA RolledBack ==
    ASSUME OrderInv, NEW c \in Clients, Rollback(c)
    PROVE  OrderInv'
<1>1. TableOK(rows, Done(c)) /\ CanBeHalved
  BY DEF OrderInv, ClientOK, TablesOK
<1>2. TableOK(rows, moves)
  BY <1>1, DoneInRange, TableFiner
<1>3. Answer(c) /\ moves' = moves /\ rows' = rows
  BY DEF Rollback
<1> QED  BY <1>2, <1>3, Answered

\* A step within a request that changes no row.
LEMMA Reads ==
    ASSUME OrderInv, NEW c \in Clients, UNCHANGED <<rows, req, pending, moves>>,
           NEW step, pc' = [pc EXCEPT ![c] = step],
           pc[c] \in Moving \ {"commit"} /\ step \in Moving \ {"commit"},
           item' = [d \in Clients |-> item'[d]], found' = [d \in Clients |-> found'[d]], order' = [d \in Clients |-> order'[d]],
           step = "re_save" => order'[c] \in Nat \ {0},
           step = "re_second" => found'[c] \in Nat \ {0},
           LoadedOK(c)', OrderOK(c)'
    PROVE  OrderInv'
<1>1. TypeOK /\ Shapes /\ pc \in [Clients -> PCs] /\ ClientTypeOK(c) /\ TablesOK(c)
  BY TypesOfClients DEF OrderInv, TypeOK, ClientOK
<1>2. pc' \in [Clients -> PCs] /\ pc'[c] = step
  BY <1>1 DEF PCs, Moving
<1>3. Shapes'
  BY <1>1 DEF Shapes
<1>4. moves' \in 0 .. MaxMoves /\ rows' \in [Items -> Row \cup {AbsentRow}] /\ Apart(rows')
  BY <1>1 DEF TypeOK, OrderInv
<1>5. View(c)' = View(c)
  BY DEF View
<1>6. Done(c)' = Done(c)
  BY <1>2 DEF Done
<1>7. TablesOK(c)'
  <2>1. TableOK(rows', Done(c)') /\ TableOK(View(c)', Done(c)') /\ SameRows(rows', View(c)')
    BY <1>1, <1>5, <1>6 DEF TablesOK
  <2> QED  BY <1>1, <1>2, <2>1 DEF TablesOK
<1>8. CreateOK(c)'
  BY <1>2 DEF CreateOK, Moving
<1>9. ClientTypeOK(c)'
  <2>1. /\ pc[c] # "commit" /\ pc'[c] # "commit" /\ pc[c] \in Moving /\ pc'[c] \in Moving
        /\ pc'[c] \notin {"cr_highest", "cr_insert"}
    BY <1>2 DEF Moving
  <2>2. /\ req[c] \in [space : Spaces, direction : Directions, target : Items, at : Nat, batch : Seq(Entry)]
        /\ req[c].at \in DOMAIN req[c].batch
    BY <1>1, <2>1 DEF ClientTypeOK
  <2> QED  BY <1>1, <1>2, <2>1, <2>2 DEF ClientTypeOK
<1> QED  BY <1>2, <1>3, <1>4, <1>7, <1>8, <1>9, AloneNext DEF ClientOK

\* A request to create a work item arrives.
LEMMA CreateReceived ==
    ASSUME OrderInv, NEW c \in Clients, ReceiveCreate(c)
    PROVE  OrderInv'
<1>1. PICK s \in Spaces : req' = [req EXCEPT ![c] = s]
  BY DEF ReceiveCreate
<1>2. TypeOK /\ Shapes /\ pc \in [Clients -> PCs] /\ ClientTypeOK(c) /\ TablesOK(c)
  BY TypesOfClients DEF OrderInv, TypeOK, ClientOK
<1>3. pc[c] = "idle" /\ pc' = [pc EXCEPT ![c] = "cr_highest"] /\ UNCHANGED <<rows, item, found, order, pending, moves>>
  BY DEF ReceiveCreate, Goto
<1>4. pc' \in [Clients -> PCs] /\ pc'[c] = "cr_highest"
  BY <1>2, <1>3 DEF PCs
<1>5. Shapes' /\ req'[c] = s
  BY <1>1, <1>2, <1>3 DEF Shapes
<1>6. moves' \in 0 .. MaxMoves /\ rows' \in [Items -> Row \cup {AbsentRow}] /\ Apart(rows')
  BY <1>2, <1>3 DEF TypeOK, OrderInv
<1>7. View(c)' = View(c)
  BY <1>3 DEF View
<1>8. Done(c)' = Done(c)
  BY <1>3, <1>4 DEF Done, Moving
<1>9. TablesOK(c)'
  <2>1. TableOK(rows', Done(c)') /\ TableOK(View(c)', Done(c)') /\ SameRows(rows', View(c)')
    BY <1>2, <1>3, <1>7, <1>8 DEF TablesOK
  <2>2. pending'[c] = <<>>
    BY <1>2, <1>3 DEF TablesOK, Moving
  <2> QED  BY <1>4, <2>1, <2>2 DEF TablesOK, Moving
<1>10. CreateOK(c)' /\ LoadedOK(c)' /\ OrderOK(c)'
  BY <1>4 DEF CreateOK, LoadedOK, OrderOK, Loaded
<1>11. ClientTypeOK(c)'
  BY <1>2, <1>3, <1>4, <1>5 DEF ClientTypeOK, Moving
<1> QED  BY <1>4, <1>5, <1>6, <1>9, <1>10, <1>11, AloneNext DEF ClientOK

\* It finds an order above all others.
LEMMA CreateOrdered ==
    ASSUME OrderInv, NEW c \in Clients, LoadHighestOrder(c)
    PROVE  OrderInv'
<1> PICK top : top = TopItems(View(c), req[c])
  OBVIOUS
<1> PICK o : o = (IF top = {} THEN 0 ELSE Max(Orders(View(c), top))) + OrderValue
  OBVIOUS
<1>1. /\ pc[c] = "cr_highest" /\ pc' = [pc EXCEPT ![c] = "cr_insert"] /\ UNCHANGED <<rows, req, item, found, pending, moves>>
      /\ order' = [order EXCEPT ![c] = o]
  BY DEF LoadHighestOrder, Goto
<1>2. TypeOK /\ Shapes /\ pc \in [Clients -> PCs] /\ ClientTypeOK(c) /\ TablesOK(c) /\ CanBeHalved
  BY TypesOfClients DEF OrderInv, TypeOK, ClientOK
<1>3. pc' \in [Clients -> PCs] /\ pc'[c] = "cr_insert"
  BY <1>1, <1>2 DEF PCs
<1>4. Shapes' /\ order'[c] = o
  BY <1>1, <1>2 DEF Shapes
<1>5. moves' \in 0 .. MaxMoves /\ rows' \in [Items -> Row \cup {AbsentRow}] /\ Apart(rows')
  BY <1>1, <1>2 DEF TypeOK, OrderInv
<1>6. Done(c) = moves /\ Done(c)' = moves /\ moves \in 0 .. MaxMoves
  BY <1>1, <1>2, <1>3 DEF Done, Moving, TypeOK
<1>7. View(c) = rows /\ View(c)' = rows /\ pending'[c] = <<>>
  <2>1. pending[c] = <<>>
    BY <1>1, <1>2 DEF TablesOK, Moving
  <2>2. View(c) = [i \in Items |-> rows[i]] /\ View(c)' = [i \in Items |-> rows[i]]
    BY <1>1, <2>1 DEF View
  <2> QED  BY <1>1, <1>2, <2>1, <2>2 DEF TypeOK
<1>8. TableOK(rows, moves)
  BY <1>2, <1>6 DEF TablesOK
<1>9. Multiple(o, moves) /\ \A i : IsFree(rows, req[c], i, o)
  BY <1>2, <1>6, <1>7, <1>8, NewOrder
<1>10. TablesOK(c)'
  <2>1. TableOK(rows', Done(c)') /\ TableOK(View(c)', Done(c)') /\ SameRows(rows', View(c)')
    BY <1>1, <1>6, <1>7, <1>8 DEF SameRows
  <2> QED  BY <1>3, <1>7, <2>1 DEF TablesOK, Moving
<1>11. CreateOK(c)'
  BY <1>1, <1>4, <1>9 DEF CreateOK
<1>12. LoadedOK(c)' /\ OrderOK(c)'
  BY <1>3 DEF LoadedOK, OrderOK, Loaded
<1>13. ClientTypeOK(c)'
  <2>1. o \in Nat \ {0}
    BY <1>2, <1>6, <1>9, MultiplePositive
  <2>2. req'[c] \in Spaces /\ pending'[c] = pending[c]
    BY <1>1, <1>2 DEF ClientTypeOK
  <2> QED  BY <1>2, <1>3, <1>4, <2>1, <2>2 DEF ClientTypeOK, Moving
<1> QED  BY <1>3, <1>4, <1>5, <1>10, <1>11, <1>12, <1>13, AloneNext DEF ClientOK

\* It inserts the work item.
LEMMA CreateInserted ==
    ASSUME OrderInv, NEW c \in Clients, InsertWorkItem(c)
    PROVE  OrderInv'
<1>1. CASE Rollback(c)
  BY <1>1, RolledBack
<1>2. CASE ~Rollback(c)
  <2>1. PICK i \in Items :
            /\ rows[i] = AbsentRow /\ Answer(c) /\ moves' = moves
            /\ rows' = [rows EXCEPT ![i] = [status |-> "live", space |-> req[c], order |-> order[c], version |-> 0]]
    BY <1>2 DEF InsertWorkItem
  <2>2. pc[c] = "cr_insert"
    BY DEF InsertWorkItem
  <2>3. CanBeHalved /\ ClientTypeOK(c) /\ TablesOK(c) /\ CreateOK(c) /\ moves \in 0 .. MaxMoves
    BY TypesOfClients DEF OrderInv, TypeOK, ClientOK
  <2>4. Done(c) = moves
    BY <2>2 DEF Done, Moving
  <2>5. TableOK(rows, moves)
    BY <2>3, <2>4 DEF TablesOK
  <2>6. req[c] \in Spaces /\ Multiple(order[c], moves) /\ IsFree(rows, req[c], i, order[c])
    BY <2>2, <2>3 DEF ClientTypeOK, CreateOK
  <2>7. TableOK(rows', moves)
    BY <2>1, <2>3, <2>5, <2>6, TableInserted
  <2> QED  BY <2>1, <2>7, Answered
<1> QED  BY <1>1, <1>2

\* A request to reorder work items arrives, and reserves its moves.
LEMMA ReorderReceived ==
    ASSUME OrderInv, NEW c \in Clients, ReceiveReorder(c)
    PROVE  OrderInv'
<1>a. \E s \in Spaces, d \in Directions, n \in 1 .. MaxBatch, t \in Items : \E batch \in [1 .. n -> RowsOf(rows, s)] :
              /\ moves + n <= MaxMoves
              /\ rows[t].status # "absent"
              /\ moves' = moves + n
              /\ req' = [req EXCEPT ![c] =
                           [space |-> s, direction |-> d, target |-> t, at |-> 1,
                            batch |-> [k \in 1 .. n |-> [item |-> batch[k], version |-> rows[batch[k]].version]]]]
  BY DEF ReceiveReorder
<1>b. PICK s \in Spaces, d \in Directions, n \in 1 .. MaxBatch, t \in Items : \E batch \in [1 .. n -> RowsOf(rows, s)] :
              /\ moves + n <= MaxMoves
              /\ rows[t].status # "absent"
              /\ moves' = moves + n
              /\ req' = [req EXCEPT ![c] =
                           [space |-> s, direction |-> d, target |-> t, at |-> 1,
                            batch |-> [k \in 1 .. n |-> [item |-> batch[k], version |-> rows[batch[k]].version]]]]
  BY <1>a
<1>1. PICK b \in [1 .. n -> RowsOf(rows, s)] :
              /\ moves + n <= MaxMoves
              /\ rows[t].status # "absent"
              /\ moves' = moves + n
              /\ req' = [req EXCEPT ![c] =
                           [space |-> s, direction |-> d, target |-> t, at |-> 1,
                            batch |-> [k \in 1 .. n |-> [item |-> b[k], version |-> rows[b[k]].version]]]]
  BY <1>b
<1>c. PICK batch : batch = [k \in 1 .. n |-> [item |-> b[k], version |-> rows[b[k]].version]]
  OBVIOUS
<1>2. /\ pc[c] = "idle" /\ pc' = [pc EXCEPT ![c] = "re_load"] /\ UNCHANGED <<rows, item, found, order, pending>>
      /\ req' = [req EXCEPT ![c] = [space |-> s, direction |-> d, target |-> t, at |-> 1, batch |-> batch]]
  BY <1>1, <1>c DEF ReceiveReorder, Goto
<1>3. TypeOK /\ Shapes /\ pc \in [Clients -> PCs] /\ ClientTypeOK(c) /\ TablesOK(c) /\ moves \in 0 .. MaxMoves
  BY TypesOfClients DEF OrderInv, TypeOK, ClientOK
<1>4. pc' \in [Clients -> PCs] /\ pc'[c] = "re_load"
  BY <1>2, <1>3 DEF PCs
<1>5. Shapes' /\ req'[c] = [space |-> s, direction |-> d, target |-> t, at |-> 1, batch |-> batch]
  BY <1>2, <1>3 DEF Shapes
<1>6. n \in Nat /\ n >= 1 /\ batch \in Seq(Entry) /\ Len(batch) = n /\ DOMAIN batch = 1 .. n
  <2>1. n \in Nat /\ n >= 1
    BY OrderAssumption
  <2>2. \A k \in 1 .. n : b[k] \in Items /\ rows[b[k]].version \in Nat
    BY <1>3, RowTypes DEF RowsOf, TypeOK
  <2>3. batch \in [1 .. n -> Entry]
    BY <1>c, <2>2 DEF Entry
  <2> QED  BY <1>c, <2>1, <2>3
<1>7. moves' \in 0 .. MaxMoves /\ rows' \in [Items -> Row \cup {AbsentRow}] /\ Apart(rows')
  BY <1>1, <1>2, <1>3, <1>6, OrderAssumption DEF TypeOK, OrderInv
<1>8. View(c)' = View(c) /\ pending'[c] = pending[c]
  BY <1>2 DEF View
<1>9. Done(c) = moves /\ Done(c)' = moves
  <2>1. Done(c)' = moves' - (Len(batch) - 1 + 1)
    BY <1>4, <1>5 DEF Done, Moving
  <2>2. Done(c)' = moves
    BY <1>1, <1>3, <1>6, <2>1
  <2> QED  BY <1>2, <2>2 DEF Done, Moving
<1>10. TablesOK(c)'
  <2>1. TableOK(rows', Done(c)') /\ TableOK(View(c)', Done(c)') /\ SameRows(rows', View(c)')
    BY <1>2, <1>3, <1>8, <1>9 DEF TablesOK
  <2>2. Len(req'[c].batch) <= moves'
    BY <1>1, <1>3, <1>5, <1>6
  <2> QED  BY <1>4, <2>1, <2>2 DEF TablesOK, Moving
<1>11. CreateOK(c)' /\ LoadedOK(c)' /\ OrderOK(c)'
  BY <1>4 DEF CreateOK, LoadedOK, OrderOK, Loaded
<1>12. ClientTypeOK(c)'
  <2>1. req'[c] \in [space : Spaces, direction : Directions, target : Items, at : Nat, batch : Seq(Entry)]
    BY <1>5, <1>6
  <2>2. req'[c].at \in DOMAIN req'[c].batch
    BY <1>5, <1>6
  <2> QED  BY <1>3, <1>4, <1>8, <2>1, <2>2 DEF ClientTypeOK, Moving
<1> QED  BY <1>4, <1>5, <1>7, <1>10, <1>11, <1>12, AloneNext DEF ClientOK

\* What a request that is under way knows.
LEMMA UnderWay ==
    ASSUME OrderInv, NEW c \in Clients, pc[c] \in Moving \ {"commit"}
    PROVE  /\ CanBeHalved /\ TableOK(View(c), Done(c)) /\ Done(c) \in 0 .. MaxMoves - 1
           /\ req[c].space \in Spaces /\ req[c].direction \in Directions /\ req[c].target \in Items
           /\ req[c].at \in 1 .. Len(req[c].batch) /\ Len(req[c].batch) \in Nat /\ Len(req[c].batch) <= moves
           /\ req[c].batch[req[c].at] \in Entry
           /\ req[c] \in [space : Spaces, direction : Directions, target : Items, at : Nat, batch : Seq(Entry)]
<1>1. ClientTypeOK(c) /\ TablesOK(c) /\ CanBeHalved
  BY TypesOfClients DEF OrderInv, ClientOK
<1>2. /\ req[c] \in [space : Spaces, direction : Directions, target : Items, at : Nat, batch : Seq(Entry)]
      /\ req[c].at \in DOMAIN req[c].batch
  BY <1>1 DEF ClientTypeOK
<1>3. Len(req[c].batch) <= moves
  BY <1>1 DEF TablesOK
<1> QED  BY <1>1, <1>2, <1>3, DoneInRange DEF TablesOK

\* The work item is loaded.
LEMMA ItemLoaded ==
    ASSUME OrderInv, NEW c \in Clients, LoadItem(c)
    PROVE  OrderInv'
<1> PICK e, row : e = req[c].batch[req[c].at] /\ row = View(c)[e.item]
  OBVIOUS
<1> PICK step : step = IF req[c].direction \in {"above", "below"} THEN "re_first" ELSE "re_end"
  OBVIOUS
<1>1. pc[c] = "re_load" /\ pc[c] \in Moving \ {"commit"}
  BY DEF LoadItem, Moving
<1>2. CASE Rollback(c)
  BY <1>2, RolledBack
<1>3. CASE ~Rollback(c)
  <2>1. /\ row.status = "live" /\ row.space = req[c].space
        /\ item' = [item EXCEPT ![c] = [id |-> e.item, order |-> row.order, version |-> row.version]]
        /\ pc' = [pc EXCEPT ![c] = step] /\ UNCHANGED <<rows, req, found, order, pending, moves>>
    BY <1>3 DEF LoadItem, Goto
  <2>2. Shapes /\ pc \in [Clients -> PCs]
    BY DEF OrderInv, TypeOK
  <2>3. item'[c].id = e.item /\ item'[c].order = row.order
    BY <2>1, <2>2 DEF Shapes
  <2>4. e.item \in Items /\ req[c].direction \in Directions
    BY <1>1, UnderWay DEF Entry
  <2>5. pc'[c] = step /\ step \in {"re_first", "re_end"} /\ step \in Moving \ {"commit"}
    BY <2>1, <2>2 DEF Moving
  <2>6. View(c)' = View(c)
    BY <2>1 DEF View
  <2>7. IsLive(View(c)', req[c].space, item'[c].id) /\ item'[c].order = View(c)'[item'[c].id].order
    BY <2>1, <2>3, <2>4, <2>6 DEF IsLive
  <2>8. LoadedOK(c)'
    <3>1. step = "re_first" => req[c].direction \in {"above", "below"}
      OBVIOUS
    <3>2. step = "re_end" => req[c].direction \in {"top", "bottom"}
      BY <2>4, OrderAssumption
    <3> QED  BY <2>1, <2>5, <2>7, <3>1, <3>2 DEF LoadedOK
  <2>9. OrderOK(c)'
    BY <2>5 DEF OrderOK
  <2>10. /\ item' = [d \in Clients |-> item'[d]] /\ found' = [d \in Clients |-> found'[d]]
         /\ order' = [d \in Clients |-> order'[d]]
    BY <2>1, <2>2 DEF Shapes
  <2> QED  BY <1>1, <2>1, <2>5, <2>8, <2>9, <2>10, Reads
<1> QED  BY <1>2, <1>3

\* The order of the target is read.
LEMMA TargetFound ==
    ASSUME OrderInv, NEW c \in Clients, FindFirstItem(c)
    PROVE  OrderInv'
<1> PICK row : row = View(c)[req[c].target]
  OBVIOUS
<1>1. pc[c] = "re_first" /\ pc[c] \in Moving \ {"commit"} /\ pc[c] \in Loaded
  BY DEF FindFirstItem, Moving, Loaded
<1>2. CASE Rollback(c)
  BY <1>2, RolledBack
<1>3. CASE ~Rollback(c)
  <2>1. /\ row.status = "live" /\ row.space = req[c].space /\ found' = [found EXCEPT ![c] = row.order]
        /\ pc' = [pc EXCEPT ![c] = "re_second"] /\ UNCHANGED <<rows, req, item, order, pending, moves>>
    BY <1>3 DEF FindFirstItem, Goto
  <2>2. Shapes /\ pc \in [Clients -> PCs] /\ LoadedOK(c)
    BY DEF OrderInv, TypeOK, ClientOK
  <2>3. found'[c] = row.order
    BY <2>1, <2>2 DEF Shapes
  <2>4. pc'[c] = "re_second" /\ "re_second" \in Moving \ {"commit"}
    BY <2>1, <2>2 DEF Moving
  <2>5. View(c)' = View(c)
    BY <2>1 DEF View
  <2>6. IsLive(View(c), req[c].space, req[c].target)
    BY <1>1, <2>1, UnderWay DEF IsLive
  <2>7. LoadedOK(c)'
    BY <1>1, <2>1, <2>2, <2>3, <2>4, <2>5, <2>6 DEF LoadedOK, Loaded
  <2>8. OrderOK(c)'
    BY <2>4 DEF OrderOK
  <2>9. /\ item' = [d \in Clients |-> item'[d]] /\ found' = [d \in Clients |-> found'[d]]
        /\ order' = [d \in Clients |-> order'[d]]
    BY <2>1, <2>2 DEF Shapes
  <2>10. found'[c] \in Nat \ {0}
    <3>1. Multiple(row.order, Done(c)) /\ Done(c) \in 0 .. MaxMoves /\ CanBeHalved
      BY <1>1, <2>6, UnderWay, LiveOrder, DoneInRange
    <3> QED  BY <2>3, <3>1, MultiplePositive
  <2> QED  BY <1>1, <2>1, <2>4, <2>7, <2>8, <2>9, <2>10, Reads
<1> QED  BY <1>2, <1>3

\* A request that has computed an order which is free and where it is to be.
LEMMA OrderComputed ==
    ASSUME OrderInv, NEW c \in Clients, pc[c] \in Loaded, pc[c] \in Moving \ {"commit"},
           NEW o, order' = [order EXCEPT ![c] = o], pc' = [pc EXCEPT ![c] = "re_save"],
           UNCHANGED <<rows, req, item, found, pending, moves>>,
           Multiple(o, Done(c) + 1), IsFree(View(c), req[c].space, item[c].id, o),
           AsAsked(View(c), req[c].space, item[c].id, req[c].direction, req[c].target, o)
    PROVE  OrderInv'
<1>1. Shapes /\ pc \in [Clients -> PCs] /\ LoadedOK(c) /\ CanBeHalved
  BY DEF OrderInv, TypeOK, ClientOK
<1>2. order'[c] = o
  BY <1>1 DEF Shapes
<1>3. pc'[c] = "re_save" /\ "re_save" \in Moving \ {"commit"} /\ "re_save" \in Loaded
  BY <1>1 DEF Moving, Loaded
<1>4. View(c)' = View(c)
  BY DEF View
<1>5. Done(c)' = Done(c)
  BY <1>3 DEF Done
<1>6. LoadedOK(c)'
  BY <1>1, <1>3, <1>4 DEF LoadedOK
<1>7. OrderOK(c)'
  BY <1>2, <1>3, <1>4, <1>5 DEF OrderOK
<1>8. o \in Nat \ {0}
  <2>1. Done(c) \in 0 .. MaxMoves - 1
    BY UnderWay
  <2>2. Done(c) + 1 \in 0 .. MaxMoves
    BY <2>1, OrderAssumption
  <2> QED  BY <1>1, <2>2, MultiplePositive
<1>9. /\ item' = [d \in Clients |-> item'[d]] /\ found' = [d \in Clients |-> found'[d]]
      /\ order' = [d \in Clients |-> order'[d]]
  BY <1>1 DEF Shapes
<1> QED  BY <1>2, <1>3, <1>6, <1>7, <1>8, <1>9, Reads

\* Next to the target.
LEMMA NextFound ==
    ASSUME OrderInv, NEW c \in Clients, FindSecondItem(c)
    PROVE  OrderInv'
<1> PICK second : second = SecondItems(View(c), req[c].space, found[c], req[c].direction)
  OBVIOUS
<1>1. /\ pc[c] = "re_second" /\ pc' = [pc EXCEPT ![c] = "re_save"]
      /\ UNCHANGED <<rows, req, item, found, pending, moves>>
  BY DEF FindSecondItem, Goto
<1>2. PICK o \in MoveNextTo(c, second) : order' = [order EXCEPT ![c] = o]
  BY DEF FindSecondItem
<1>3. pc[c] \in Loaded /\ pc[c] \in Moving \ {"commit"}
  BY <1>1 DEF Loaded, Moving
<1>4. LoadedOK(c)
  BY DEF OrderInv, ClientOK
<1>5. /\ IsLive(View(c), req[c].space, item[c].id) /\ item[c].order = View(c)[item[c].id].order
      /\ IsLive(View(c), req[c].space, req[c].target) /\ found[c] = View(c)[req[c].target].order
      /\ req[c].direction \in {"above", "below"}
  BY <1>1, <1>3, <1>4 DEF LoadedOK
<1> PICK t, m, s, i, target, f :
        /\ t = View(c) /\ m = Done(c) /\ s = req[c].space /\ i = item[c].id /\ target = req[c].target /\ f = found[c]
  OBVIOUS
<1>6. NextTo(t, i, f, req[c].direction, second, o)
  BY <1>2, <1>5 DEF MoveNextTo, NextTo
<1>7. CanBeHalved /\ TableOK(t, m) /\ m \in 0 .. MaxMoves - 1 /\ s \in Spaces
  BY <1>3, UnderWay
<1>8. CASE req[c].direction = "below"
  <2>1. Multiple(o, m + 1) /\ o < f /\ IsFree(t, s, i, o)
    BY <1>5, <1>6, <1>7, <1>8, MovedBelow
  <2>2. AsAsked(t, s, i, req[c].direction, target, o)
    BY <1>5, <1>8, <2>1 DEF AsAsked
  <2> QED  BY <1>1, <1>2, <1>3, <2>1, <2>2, OrderComputed
<1>9. CASE req[c].direction = "above"
  <2>1. Multiple(o, m + 1) /\ o > f /\ IsFree(t, s, i, o)
    BY <1>5, <1>6, <1>7, <1>9, MovedAbove
  <2>2. AsAsked(t, s, i, req[c].direction, target, o)
    BY <1>5, <1>9, <2>1 DEF AsAsked
  <2> QED  BY <1>1, <1>2, <1>3, <2>1, <2>2, OrderComputed
<1> QED  BY <1>5, <1>8, <1>9

\* To an end of the list.
LEMMA EndFound ==
    ASSUME OrderInv, NEW c \in Clients, FindEnd(c)
    PROVE  OrderInv'
<1>1. pc[c] = "re_end" /\ pc[c] \in Loaded /\ pc[c] \in Moving \ {"commit"}
  BY DEF FindEnd, Loaded, Moving
<1>2. LoadedOK(c)
  BY DEF OrderInv, ClientOK
<1>3. /\ IsLive(View(c), req[c].space, item[c].id) /\ item[c].order = View(c)[item[c].id].order
      /\ req[c].direction \in {"top", "bottom"}
  BY <1>1, <1>2 DEF LoadedOK
<1> PICK t, m, s, i : t = View(c) /\ m = Done(c) /\ s = req[c].space /\ i = item[c].id
  OBVIOUS
<1>4. CanBeHalved /\ TableOK(t, m) /\ m \in 0 .. MaxMoves - 1 /\ s \in Spaces
  BY <1>1, UnderWay
<1>5. CASE Rollback(c)
  BY <1>5, RolledBack
<1>6. CASE ~Rollback(c) /\ req[c].direction = "top"
  <2>1. PICK j \in TopItems(t, s) :
            /\ order' = [order EXCEPT ![c] = CASE j = item[c].id -> item[c].order
                                               [] j # item[c].id /\ TRUE -> t[j].order + OrderValue
                                               [] j # item[c].id /\ ~TRUE -> t[j].order \div 2]
            /\ pc' = [pc EXCEPT ![c] = "re_save"] /\ UNCHANGED <<rows, req, item, found, pending, moves>>
    BY <1>6 DEF FindEnd, Goto
  <2>2. PICK o : o = IF j = i THEN t[i].order ELSE t[j].order + OrderValue
    OBVIOUS
  <2>3. order' = [order EXCEPT ![c] = o]
    BY <1>3, <2>1, <2>2
  <2>4. Multiple(o, m + 1) /\ IsFree(t, s, i, o) /\ \A k \in LiveRows(t, s) : o >= t[k].order
    BY <1>3, <1>4, <2>2, MovedToTop
  <2>5. AsAsked(t, s, i, req[c].direction, req[c].target, o)
    BY <1>6, <2>4 DEF AsAsked
  <2> QED  BY <1>1, <2>1, <2>3, <2>4, <2>5, OrderComputed
<1>7. CASE ~Rollback(c) /\ req[c].direction = "bottom"
  <2>1. PICK j \in BottomItems(t, s) :
            /\ order' = [order EXCEPT ![c] = CASE j = item[c].id -> item[c].order
                                               [] j # item[c].id /\ FALSE -> t[j].order + OrderValue
                                               [] j # item[c].id /\ ~FALSE -> t[j].order \div 2]
            /\ pc' = [pc EXCEPT ![c] = "re_save"] /\ UNCHANGED <<rows, req, item, found, pending, moves>>
    BY <1>7 DEF FindEnd, Goto
  <2>2. PICK o : o = IF j = i THEN t[i].order ELSE t[j].order \div 2
    OBVIOUS
  <2>3. order' = [order EXCEPT ![c] = o]
    BY <1>3, <2>1, <2>2
  <2>4. Multiple(o, m + 1) /\ IsFree(t, s, i, o) /\ \A k \in LiveRows(t, s) : o <= t[k].order
    BY <1>3, <1>4, <2>2, MovedToBottom
  <2>5. AsAsked(t, s, i, req[c].direction, req[c].target, o)
    BY <1>7, <2>4 DEF AsAsked
  <2> QED  BY <1>1, <2>1, <2>3, <2>4, <2>5, OrderComputed
<1> QED  BY <1>3, <1>5, <1>6, <1>7

\* The work item gets its order, in the request's own view.
LEMMA ItemSaved ==
    ASSUME OrderInv, NEW c \in Clients, SaveItem(c)
    PROVE  OrderInv'
<1> PICK i, o, t, s, n, step : /\ i = item[c].id /\ o = order[c] /\ t = View(c) /\ s = req[c].space /\ n = req[c].at
                               /\ step = IF n = Len(req[c].batch) THEN "commit" ELSE "re_load"
  OBVIOUS
<1>1. pc[c] = "re_save" /\ pc[c] \in Moving \ {"commit"} /\ pc[c] \in Loaded
  BY DEF SaveItem, Moving, Loaded
<1>2. CASE Rollback(c)
  BY <1>2, RolledBack
<1>3. CASE ~Rollback(c)
  <2>1. /\ pending' = [pending EXCEPT ![c] = [j \in DOMAIN pending[c] \cup {i} |->
               IF j = i THEN [t[i] EXCEPT !.order = o, !.version = @ + 1] ELSE pending[c][j]]]
        /\ req' = [req EXCEPT ![c].at = @ + 1]
        /\ pc' = [pc EXCEPT ![c] = step]
        /\ UNCHANGED <<rows, item, found, order, moves>>
    BY <1>3 DEF SaveItem, Goto
  <2>2. Shapes /\ pc \in [Clients -> PCs] /\ ClientOK(c) /\ ClientTypeOK(c) /\ TypeOK
    BY TypesOfClients DEF OrderInv, TypeOK
  <2>3. /\ CanBeHalved /\ TableOK(t, Done(c)) /\ Done(c) \in 0 .. MaxMoves - 1 /\ s \in Spaces
        /\ n \in 1 .. Len(req[c].batch) /\ Len(req[c].batch) \in Nat /\ Len(req[c].batch) <= moves
        /\ req[c] \in [space : Spaces, direction : Directions, target : Items, at : Nat, batch : Seq(Entry)]
    BY <1>1, UnderWay
  <2>4. IsLive(t, s, i) /\ i \in Items
    BY <1>1, <2>2 DEF ClientOK, LoadedOK, IsLive
  <2>5. Multiple(o, Done(c) + 1) /\ IsFree(t, s, i, o) /\ AsAsked(t, s, i, req[c].direction, req[c].target, o)
    BY <1>1, <2>2 DEF ClientOK, OrderOK
  <2>6. PICK u : u = MovedIn(t, i, o)
    OBVIOUS
  <2>7. /\ TableOK(u, Done(c) + 1) /\ SameRows(t, u) /\ u[i].order = o /\ u[i] \in Row
        /\ \A j \in Items \ {i} : u[j] = t[j]
    BY <2>3, <2>4, <2>5, <2>6, TableMoved
  <2>8. pending'[c] = [j \in DOMAIN pending[c] \cup {i} |->
               IF j = i THEN [t[i] EXCEPT !.order = o, !.version = @ + 1] ELSE pending[c][j]]
    BY <2>1, <2>2 DEF Shapes
  <2>9. View(c)' = u
    <3>0. rows' = rows
      BY <2>1
    <3>1. View(c)' = [j \in Items |-> IF j \in DOMAIN pending'[c] THEN pending'[c][j] ELSE rows[j]]
      BY <3>0 DEF View
    <3>2. \A j \in Items : t[j] = IF j \in DOMAIN pending[c] THEN pending[c][j] ELSE rows[j]
      BY DEF View
    <3>3. \A j \in Items : View(c)'[j] = u[j]
      BY <2>6, <2>8, <3>1, <3>2 DEF MovedIn
    <3>4. u = [j \in Items |-> u[j]]
      BY <2>6 DEF MovedIn
    <3> QED  BY <3>1, <3>3, <3>4
  <2>10. pc'[c] = step /\ step \in Moving /\ step \in {"commit", "re_load"} /\ pc' \in [Clients -> PCs]
    BY <2>1, <2>2 DEF Moving, PCs
  <2>11. Shapes'
    BY <2>1, <2>2 DEF Shapes
  <2>12. /\ req'[c] = [req[c] EXCEPT !.at = n + 1]
         /\ req'[c].at = n + 1 /\ req'[c].batch = req[c].batch /\ req'[c].space = s
         /\ req'[c].direction = req[c].direction /\ req'[c].target = req[c].target
         /\ req'[c] \in [space : Spaces, direction : Directions, target : Items, at : Nat, batch : Seq(Entry)]
    <3>1. req'[c] = [req[c] EXCEPT !.at = n + 1]
      BY <2>1, <2>2 DEF Shapes
    <3> QED  BY <2>3, <3>1
  <2>13. Done(c)' = Done(c) + 1
    <3>1. Done(c) = moves - (Len(req[c].batch) - n + 1)
      BY <1>1 DEF Done
    <3>2. Done(c)' = moves - (Len(req[c].batch) - (n + 1) + 1)
      BY <2>1, <2>10, <2>12 DEF Done
    <3>3. moves \in Nat
      BY <2>2, OrderAssumption DEF TypeOK
    <3> QED  BY <2>3, <3>1, <3>2, <3>3
  <2>14. TablesOK(c)'
    <3>1. TableOK(rows, Done(c)) /\ SameRows(rows, t)
      BY <2>2 DEF ClientOK, TablesOK
    <3>2. Done(c) \in 0 .. MaxMoves /\ Done(c) + 1 \in Done(c) .. MaxMoves
      BY <2>3, OrderAssumption
    <3>3. TableOK(rows, Done(c) + 1)
      BY <2>3, <3>1, <3>2, TableFiner
    <3>4. SameRows(rows, u)
      BY <2>7, <3>1 DEF SameRows
    <3>5. TableOK(rows', Done(c)') /\ TableOK(View(c)', Done(c)') /\ SameRows(rows', View(c)')
      BY <2>1, <2>7, <2>9, <2>13, <3>3, <3>4
    <3>6. Len(req'[c].batch) <= moves'
      BY <2>1, <2>3, <2>12
    <3> QED  BY <2>10, <3>5, <3>6 DEF TablesOK
  <2>15. CreateOK(c)'
    BY <2>10 DEF CreateOK
  <2>16. LoadedOK(c)'
    <3>1. IsLive(View(c)', req'[c].space, item'[c].id)
      BY <2>1, <2>4, <2>7, <2>9, <2>12 DEF IsLive, SameRows
    <3> QED  BY <2>10, <3>1 DEF LoadedOK, Loaded
  <2>17. OrderOK(c)'
    <3>1. req[c].target \in Items
      BY <2>3
    <3>2. AsAsked(u, s, i, req[c].direction, req[c].target, o)
      BY <2>4, <2>5, <2>7, <3>1, PlaceKept
    <3>3. AsAsked(View(c)', req'[c].space, item'[c].id, req'[c].direction, req'[c].target, order'[c])
      BY <2>1, <2>9, <2>12, <3>2
    <3>4. View(c)'[item'[c].id].order = order'[c]
      BY <2>1, <2>7, <2>9
    <3> QED  BY <2>10, <3>3, <3>4 DEF OrderOK
  <2>18. ClientTypeOK(c)'
    <3>1. step = "commit" => req'[c].at = Len(req'[c].batch) + 1
      BY <2>12
    <3>2. step = "re_load" => req'[c].at \in DOMAIN req'[c].batch
      BY <2>3, <2>12
    <3>3. DOMAIN pending'[c] \subseteq Items /\ \A j \in DOMAIN pending'[c] : pending'[c][j] \in Row
      <4>1. [t[i] EXCEPT !.order = o, !.version = @ + 1] = u[i]
        BY <2>4, <2>6 DEF MovedIn
      <4> QED  BY <2>2, <2>4, <2>7, <2>8, <4>1 DEF ClientTypeOK
    <3> QED  BY <2>10, <2>12, <3>1, <3>2, <3>3 DEF ClientTypeOK
  <2>19. moves' \in 0 .. MaxMoves /\ rows' \in [Items -> Row \cup {AbsentRow}] /\ Apart(rows')
    BY <2>1, <2>2 DEF TypeOK, OrderInv
  <2> QED  BY <2>10, <2>11, <2>14, <2>15, <2>16, <2>17, <2>18, <2>19, AloneNext DEF ClientOK
<1> QED  BY <1>2, <1>3

\* The transaction commits, with the view of the request.
LEMMA MovesCommitted ==
    ASSUME OrderInv, NEW c \in Clients, Commit(c)
    PROVE  OrderInv'
<1>1. pc[c] = "commit" /\ rows' = View(c) /\ Answer(c) /\ moves' = moves
  BY DEF Commit
<1>2. TableOK(View(c), Done(c))
  BY DEF OrderInv, ClientOK, TablesOK
<1> QED  BY <1>1, <1>2, DoneInRange, Answered

\* A work item is deleted.
LEMMA ItemDeleted ==
    ASSUME OrderInv, NEW c \in Clients, DeleteWorkItem(c)
    PROVE  OrderInv'
<1>1. PICK i \in Items : rows[i].status = "live" /\ rows' = [rows EXCEPT ![i].status = "deleted"]
  BY OrderAssumption DEF DeleteWorkItem
<1>2. pc[c] = "idle" /\ UNCHANGED <<pc, req, item, found, order, pending, moves>>
  BY DEF DeleteWorkItem
<1>3. TypeOK /\ Shapes /\ TablesOK(c) /\ ClientTypeOK(c)
  BY TypesOfClients DEF OrderInv, ClientOK
<1>4. Done(c) = moves /\ Done(c)' = moves
  BY <1>2 DEF Done, Moving
<1>5. TableOK(rows', moves)
  BY <1>1, <1>3, <1>4, TableDeleted DEF TablesOK
<1>6. rows' \in [Items -> Row \cup {AbsentRow}] /\ Apart(rows')
  BY <1>5 DEF TableOK
<1>7. pc' \in [Clients -> PCs] /\ moves' \in 0 .. MaxMoves /\ Shapes'
  BY <1>2, <1>3 DEF TypeOK, Shapes
<1>8. View(c)' = rows' /\ pending'[c] = <<>>
  <2>1. pending[c] = <<>>
    BY <1>2, <1>3 DEF TablesOK, Moving
  <2>2. View(c)' = [j \in Items |-> rows'[j]]
    BY <1>2, <2>1 DEF View
  <2> QED  BY <1>2, <1>6, <2>1, <2>2
<1>9. TablesOK(c)'
  <2>1. TableOK(rows', Done(c)') /\ TableOK(View(c)', Done(c)') /\ SameRows(rows', View(c)')
    BY <1>4, <1>5, <1>8 DEF SameRows
  <2> QED  BY <1>2, <1>8, <2>1 DEF TablesOK, Moving
<1>10. CreateOK(c)' /\ LoadedOK(c)' /\ OrderOK(c)'
  BY <1>2 DEF CreateOK, LoadedOK, OrderOK, Loaded
<1>11. ClientTypeOK(c)'
  BY <1>2, <1>3 DEF ClientTypeOK, Moving
<1> QED  BY <1>6, <1>7, <1>9, <1>10, <1>11, AloneNext DEF ClientOK

\* Every step keeps the orders in order.
LEMMA OrderStep == OrderInv /\ [Next]_vars => OrderInv'
<1> SUFFICES ASSUME OrderInv, [Next]_vars PROVE OrderInv'
  OBVIOUS
<1>1. ASSUME NEW c \in Clients, Fault(c) PROVE OrderInv'
  BY <1>1, RolledBack DEF Fault
<1>2. CASE UNCHANGED vars
  <2>1. \A c \in Clients : /\ View(c)' = View(c) /\ Done(c)' = Done(c)
    BY <1>2 DEF vars, View, Done
  <2>2. ASSUME NEW c \in Clients PROVE ClientOK(c)'
    <3>1. ClientOK(c) /\ View(c)' = View(c) /\ Done(c)' = Done(c)
      BY <2>1 DEF OrderInv
    <3>2. TablesOK(c)'
      BY <1>2, <3>1 DEF vars, ClientOK, TablesOK
    <3>3. CreateOK(c)'
      BY <1>2, <3>1 DEF vars, ClientOK, CreateOK
    <3>4. LoadedOK(c)'
      BY <1>2, <3>1 DEF vars, ClientOK, LoadedOK
    <3>5. OrderOK(c)'
      BY <1>2, <3>1 DEF vars, ClientOK, OrderOK
    <3> QED  BY <3>2, <3>3, <3>4, <3>5 DEF ClientOK
  <2>3. TypeOK' /\ Shapes' /\ Apart(rows)'
    BY <1>2 DEF vars, OrderInv, TypeOK, Shapes, Unlocked
  <2> QED  BY <2>2, <2>3 DEF OrderInv
<1> QED  BY <1>1, <1>2, CreateReceived, CreateOrdered, CreateInserted, ReorderReceived, ItemLoaded, TargetFound,
            NextFound, EndFound, ItemSaved, MovesCommitted, ItemDeleted DEF Next

\* In the beginning there are no work items.
LEMMA OrderBegins == Alone /\ CanBeHalved /\ Init => OrderInv
<1> SUFFICES ASSUME Alone, CanBeHalved, Init PROVE OrderInv
  OBVIOUS
<1>1. /\ rows = [i \in Items |-> AbsentRow] /\ \A i \in Items : rows[i] = AbsentRow
      /\ moves = 0 /\ moves \in 0 .. MaxMoves
  BY OrderAssumption DEF Init
<1>2. \A c \in Clients : pc[c] = "idle" /\ pending[c] = <<>>
  BY DEF Init
<1>3. Apart(rows)
  BY <1>1 DEF Apart, LiveRows, AbsentRow
<1>4. TableOK(rows, moves)
  <2>1. \A i \in Items : rows[i].order <= 0 /\ rows[i].status = "absent"
    BY <1>1 DEF AbsentRow
  <2> QED  BY <1>1, <1>3, <2>1 DEF TableOK
<1>5. Shapes /\ pc \in [Clients -> PCs]
  BY DEF Init, Shapes, PCs
<1>6. ASSUME NEW c \in Clients PROVE ClientOK(c) /\ ClientTypeOK(c)
  <2>1. Done(c) = moves
    BY <1>2 DEF Done, Moving
  <2>2. View(c) = rows
    <3>1. View(c) = [i \in Items |-> rows[i]]
      BY <1>2 DEF View
    <3> QED  BY <1>1, <3>1
  <2>3. TablesOK(c)
    BY <1>2, <1>4, <2>1, <2>2 DEF TablesOK, SameRows, Moving
  <2>4. CreateOK(c) /\ LoadedOK(c) /\ OrderOK(c)
    BY <1>2 DEF CreateOK, LoadedOK, OrderOK, Loaded
  <2>5. ClientTypeOK(c)
    BY <1>2 DEF ClientTypeOK, Moving
  <2> QED  BY <2>3, <2>4, <2>5 DEF ClientOK
<1>7. TypeOK
  BY <1>1, <1>4, <1>5, <1>6, TypesOfClients DEF TableOK
<1> QED  BY <1>3, <1>5, <1>6, <1>7 DEF OrderInv

\* What a request that succeeds leaves behind is what it asked for.
LEMMA CommittedAsAsked ==
    ASSUME OrderInv, [Next]_vars, NEW c \in Clients, MovedAndCommitted(c)
    PROVE  LET o == rows'[item[c].id].order
               others == {rows'[j].order : j \in LiveIn(req[c].space) \ {item[c].id}}
               target == {rows'[req[c].target].order : x \in {req[c].target} \ {item[c].id}} IN
           CASE req[c].direction = "top"    -> \A x \in others : o >= x
             [] req[c].direction = "bottom" -> \A x \in others : o <= x
             [] req[c].direction = "above"  -> \A x \in target : o > x
             [] req[c].direction = "below"  -> \A x \in target : o < x
<1>1. pc[c] = "commit" /\ pc'[c] = "idle" /\ rows' # rows
  BY DEF MovedAndCommitted
<1>2. \A b \in Clients : b = c
  BY DEF OrderInv, Alone
<1>3. Commit(c)
  <2>1. \A b \in Clients : pc[b] = "commit"
    BY <1>1, <1>2
  <2>2. ~UNCHANGED vars
    BY <1>1 DEF vars
  <2>3. Commit(c) \/ Fault(c)
    BY <1>2, <2>1, <2>2 DEF Next, ReceiveCreate, LoadHighestOrder, InsertWorkItem, ReceiveReorder, LoadItem, FindFirstItem,
                            FindSecondItem, FindEnd, SaveItem, DeleteWorkItem
  <2> QED  BY <1>1, <2>3 DEF Fault, Rollback
<1> PICK i, t, s, o : i = item[c].id /\ t = View(c) /\ s = req[c].space /\ o = order[c]
  OBVIOUS
<1>4. rows' = t
  BY <1>3 DEF Commit
<1>5. ClientOK(c) /\ ClientTypeOK(c)
  BY TypesOfClients DEF OrderInv
<1>6. t[i].order = o /\ AsAsked(t, s, i, req[c].direction, req[c].target, o)
  BY <1>1, <1>5 DEF ClientOK, OrderOK
<1>7. LiveIn(s) = LiveRows(t, s)
  BY <1>5 DEF ClientOK, TablesOK, SameRows, LiveIn, LiveRows
<1>8. req[c].direction \in {"top", "bottom", "above", "below"}
  BY <1>1, <1>5, OrderAssumption DEF ClientTypeOK, Moving
<1>9. CASE req[c].direction = "top"
  BY <1>4, <1>6, <1>7, <1>9 DEF AsAsked
<1>10. CASE req[c].direction = "bottom"
  BY <1>4, <1>6, <1>7, <1>10 DEF AsAsked
<1>11. CASE req[c].direction = "above"
  BY <1>4, <1>6, <1>7, <1>11 DEF AsAsked
<1>12. CASE req[c].direction = "below"
  BY <1>4, <1>6, <1>7, <1>12 DEF AsAsked
<1> QED  BY <1>8, <1>9, <1>10, <1>11, <1>12

\* OrdersAreRight of the run, for any number of work items, spaces, moves and batches: to one
\* client, until midpoints are no longer exact.
THEOREM OrdersOfOneClient == Alone /\ CanBeHalved /\ Spec => OrdersAreRight
<1>1. OrderInv => TypeOK /\ DistinctOrders
  BY DEF OrderInv, Apart, DistinctOrders, NothingDeleted, AllLive, LiveIn, LiveRows
<1>2. OrderInv /\ [Next]_vars =>
        [\A c \in Clients : MovedAndCommitted(c) =>
         LET o == rows'[item[c].id].order
             others == {rows'[j].order : j \in LiveIn(req[c].space) \ {item[c].id}}
             target == {rows'[req[c].target].order : x \in {req[c].target} \ {item[c].id}} IN
         CASE req[c].direction = "top"    -> \A x \in others : o >= x
           [] req[c].direction = "bottom" -> \A x \in others : o <= x
           [] req[c].direction = "above"  -> \A x \in target : o > x
           [] req[c].direction = "below"  -> \A x \in target : o < x]_vars
  BY CommittedAsAsked
<1>3. Alone /\ CanBeHalved /\ Spec => []OrderInv
  BY OrderBegins, OrderStep, PTL DEF Spec
<1>4. Alone /\ CanBeHalved /\ Spec => EndsUpWhereAsked
  BY <1>2, <1>3, PTL DEF Spec, EndsUpWhereAsked
<1> QED  BY <1>1, <1>3, <1>4, PTL DEF OrdersAreRight
=============================================================================
