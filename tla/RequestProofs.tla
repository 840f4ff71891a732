---------------------------- MODULE RequestProofs ----------------------------
(***************************************************************************)
(* Proofs about what one request does: the transaction that it runs in,    *)
(* what its attributes and relations make of a work item, the items that   *)
(* it lists or exports as CSV, and the number of comments that it shows.   *)
(***************************************************************************)
EXTENDS Transactional, ItemPatch, ItemList, CsvExport, CommentCount,
        SequenceTheorems, FiniteSetTheorems, WellFoundedInduction, TLAPS

-------------------------------------------------------------------------------
(* Transactional stores all of a function's statements or none, and none   *)
(* when it returns an error.  The inductive invariant adds what the report *)
(* in the channel stands for: a goroutine that still runs has not          *)
(* reported, and who reports nil has executed all of its statements and    *)
(* executes no more.  A call that has not been answered has stored         *)
(* nothing.                                                                *)

ReportOK(c) ==
    /\ pc[c] = "begin" => worker[c] = "none"
    /\ worker[c] \in {"none", "running", "nested"} => result[c] = "none"
    /\ result[c] = "nil" => written[c] = NumWrites
    /\ channel[c] = "nil" => result[c] = "nil"
    /\ worker[c] # "done" => channel[c] = "none"

OutcomeOK(c) ==
    /\ stored[c] \in {0, NumWrites}
    /\ pc[c] # "answered" => stored[c] = 0 /\ answer[c] = "none"
    /\ answer[c] = "error" => stored[c] = 0

TransactionInv == TypeOK /\ (\A c \in Calls : ReportOK(c)) /\ (\A c \in Calls : OutcomeOK(c))

\* The invariant holds initially, and every step keeps it.
LEMMA TransactionInit == Init => TransactionInv
BY TransactionalAssumption DEF Init, TransactionInv, TypeOK, ReportOK, OutcomeOK

\* A step of c changes nothing of another call.
OthersUnchanged(c) ==
    \A b \in Calls \ {c} :
        /\ pc'[b] = pc[b] /\ answer'[b] = answer[b] /\ tx'[b] = tx[b] /\ worker'[b] = worker[b]
        /\ written'[b] = written[b] /\ result'[b] = result[b]
        /\ channel'[b] = channel[b] /\ stored'[b] = stored[b]

\* So that it is enough to look at c.
LEMMA OneCall ==
    ASSUME TransactionInv, NEW c \in Calls, OthersUnchanged(c), TypeOK', ReportOK(c)', OutcomeOK(c)'
    PROVE  TransactionInv'
<1>1. ASSUME NEW b \in Calls \ {c} PROVE ReportOK(b)' /\ OutcomeOK(b)'
  BY DEF OthersUnchanged, TransactionInv, ReportOK, OutcomeOK
<1> QED BY <1>1 DEF TransactionInv

\* A step of one call keeps the invariant of every call.
LEMMA TransactionStep == TransactionInv /\ [Next]_vars => TransactionInv'
<1> SUFFICES ASSUME TransactionInv, [Next]_vars PROVE TransactionInv'
  OBVIOUS
<1>t. TypeOK /\ \A c \in Calls : ReportOK(c) /\ OutcomeOK(c)
  BY DEF TransactionInv
<1>1. ASSUME NEW c \in Calls, Begin(c) PROVE TransactionInv'
  <2>1. TypeOK' /\ OthersUnchanged(c)
    BY <1>1, <1>t DEF Begin, TypeOK, OthersUnchanged
  <2>2. ReportOK(c)'
    BY <1>1, <1>t DEF Begin, TypeOK, ReportOK
  <2>3. OutcomeOK(c)'
    BY <1>1, <1>t DEF Begin, TypeOK, OutcomeOK
  <2> QED BY <2>1, <2>2, <2>3, OneCall
<1>2. ASSUME NEW c \in Calls, BeginFails(c) PROVE TransactionInv'
  <2>1. TypeOK' /\ OthersUnchanged(c)
    BY <1>2, <1>t DEF BeginFails, Return, TypeOK, OthersUnchanged
  <2>2. ReportOK(c)'
    BY <1>2, <1>t DEF BeginFails, Return, TypeOK, ReportOK
  <2>3. OutcomeOK(c)'
    BY <1>2, <1>t DEF BeginFails, Return, TypeOK, OutcomeOK
  <2> QED BY <2>1, <2>2, <2>3, OneCall
<1>3. ASSUME NEW c \in Calls, Receive(c) PROVE TransactionInv'
  <2>1. TypeOK' /\ OthersUnchanged(c)
    BY <1>3, <1>t DEF Receive, CommitTx, RollbackTx, Return, TypeOK, OthersUnchanged
  <2>2. ReportOK(c)'
    BY <1>3, <1>t DEF Receive, CommitTx, RollbackTx, Return, TypeOK, ReportOK
  <2>3. OutcomeOK(c)'
    <3>1. channel[c] = "nil" => written[c] = NumWrites
      BY <1>t DEF ReportOK
    <3> QED BY <1>3, <1>t, <3>1 DEF Receive, CommitTx, RollbackTx, Return, TypeOK, OutcomeOK
  <2> QED BY <2>1, <2>2, <2>3, OneCall
<1>4. ASSUME NEW c \in Calls, Timeout(c) PROVE TransactionInv'
  <2>1. TypeOK' /\ OthersUnchanged(c)
    BY <1>4, <1>t DEF Timeout, RollbackTx, Return, TypeOK, OthersUnchanged
  <2>2. ReportOK(c)'
    BY <1>4, <1>t DEF Timeout, RollbackTx, Return, TypeOK, ReportOK
  <2>3. OutcomeOK(c)'
    BY <1>4, <1>t DEF Timeout, RollbackTx, Return, TypeOK, OutcomeOK
  <2> QED BY <2>1, <2>2, <2>3, OneCall
<1>5. ASSUME NEW c \in Calls, Execute(c) PROVE TransactionInv'
  <2>1. TypeOK' /\ OthersUnchanged(c)
    BY <1>5, <1>t, TransactionalAssumption DEF Execute, TypeOK, OthersUnchanged
  <2>2. ReportOK(c)'
    BY <1>5, <1>t DEF Execute, TypeOK, ReportOK
  <2>3. OutcomeOK(c)'
    BY <1>5, <1>t DEF Execute, TypeOK, OutcomeOK
  <2> QED BY <2>1, <2>2, <2>3, OneCall
<1>6. ASSUME NEW c \in Calls, Nest(c) \/ Unnest(c) PROVE TransactionInv'
  <2>1. TypeOK' /\ OthersUnchanged(c)
    BY <1>6, <1>t, ZenonT(30) DEF Nest, Unnest, TypeOK, OthersUnchanged
  <2>2. ReportOK(c)'
    BY <1>6, <1>t DEF Nest, Unnest, TypeOK, ReportOK
  <2>3. OutcomeOK(c)'
    BY <1>6, <1>t DEF Nest, Unnest, TypeOK, OutcomeOK
  <2> QED BY <2>1, <2>2, <2>3, OneCall
<1>7. ASSUME NEW c \in Calls, Finish(c) PROVE TransactionInv'
  <2>1. TypeOK' /\ OthersUnchanged(c)
    BY <1>7, <1>t DEF Finish, TypeOK, OthersUnchanged
  <2>2. ReportOK(c)'
    BY <1>7, <1>t DEF Finish, TypeOK, ReportOK
  <2>3. OutcomeOK(c)'
    BY <1>7, <1>t DEF Finish, TypeOK, OutcomeOK
  <2> QED BY <2>1, <2>2, <2>3, OneCall
<1>8. ASSUME NEW c \in Calls, Send(c) PROVE TransactionInv'
  <2>1. TypeOK' /\ OthersUnchanged(c)
    BY <1>8, <1>t DEF Send, TypeOK, OthersUnchanged
  <2>2. ReportOK(c)'
    BY <1>8, <1>t DEF Send, TypeOK, ReportOK
  <2>3. OutcomeOK(c)'
    BY <1>8, <1>t DEF Send, TypeOK, OutcomeOK
  <2> QED BY <2>1, <2>2, <2>3, OneCall
<1>9. CASE UNCHANGED vars
  BY <1>9 DEF vars, TransactionInv, TypeOK, ReportOK, OutcomeOK
<1> QED BY <1>1, <1>2, <1>3, <1>4, <1>5, <1>6, <1>7, <1>8, <1>9 DEF Next, Caller, Worker, AllDone

\* So it always holds.
LEMMA TransactionInvariant == Spec => []TransactionInv
BY TransactionInit, TransactionStep, PTL DEF Spec

\* A transaction is open exactly while its caller waits for the report or the timeout.
THEOREM TransactionalTypeCorrect == Spec => []TypeOK
<1>1. TransactionInv => TypeOK
  BY DEF TransactionInv
<1> QED BY <1>1, TransactionInvariant, PTL

\* What Transactional is for: the statements of a function are stored all or none.
THEOREM TransactionalAllOrNothing == Spec => []AllOrNothing
<1>1. TransactionInv => AllOrNothing
  BY DEF TransactionInv, OutcomeOK, AllOrNothing
<1> QED BY <1>1, TransactionInvariant, PTL

\* A call that returns an error, be it after a timeout, stores nothing, then and later.
THEOREM TransactionalErrorSafe == Spec => []ErrorMeansNothingStored
<1>1. TransactionInv => ErrorMeansNothingStored
  BY DEF TransactionInv, OutcomeOK, ErrorMeansNothingStored
<1> QED BY <1>1, TransactionInvariant, PTL

\* What the run of Transactional checks of its results, for any number of calls and any
\* size of the pool.
THEOREM TransactionalIsSafe == Spec => []TransactionsSafe
<1>1. TypeOK /\ AllOrNothing /\ ErrorMeansNothingStored => TransactionsSafe
  BY DEF TransactionsSafe
<1> QED BY <1>1, TransactionalTypeCorrect, TransactionalAllOrNothing, TransactionalErrorSafe, PTL

-------------------------------------------------------------------------------
(* Numbers, and sequences of the elements of a set *)

\* A set of naturals that is not empty has a smallest element.
LEMMA SmallestElement ==
    ASSUME NEW T \in SUBSET Nat, T # {}
    PROVE  \E x \in T : \A y \in T : x <= y
<1>1. PICK x \in T : \A y \in T : ~(<<y, x>> \in OpToRel(<, Nat))
  BY NatLessThanWellFounded, WFMin
<1>2. \A y \in T : ~(y < x)
  BY <1>1 DEF OpToRel
<1> QED  BY <1>2

\* A set of naturals with a bound has a largest element.
LEMMA LargestElement ==
    ASSUME NEW T \in SUBSET Nat, T # {}, NEW b \in Nat, \A y \in T : y <= b
    PROVE  Max(T) \in T /\ \A y \in T : y <= Max(T)
<1> DEFINE D == {b - y : y \in T}
<1>1. D \in SUBSET Nat /\ D # {}
  <2>1. \A y \in T : b - y \in Nat
    OBVIOUS
  <2> QED  BY <2>1
<1>2. PICK d \in D : \A e \in D : d <= e
  <2> HIDE DEF D
  <2> QED  BY <1>1, SmallestElement
<1>3. PICK x \in T : d = b - x
  OBVIOUS
<1>4. \A y \in T : x >= y
  <2> TAKE y \in T
  <2>1. d <= b - y
    BY <1>2
  <2> QED  BY <1>3, <2>1
<1>5. Max(T) \in T /\ \A y \in T : Max(T) >= y
  BY <1>4 DEF Max
<1> QED  BY <1>5

\* A finite set with a strict order of its elements can be arranged as a sequence in that order:
\* the place of an element is the number of those before it.
LEMMA Arranged ==
    ASSUME NEW S, IsFiniteSet(S), NEW R,
           \A x \in S : <<x, x>> \notin R,
           \A x, y \in S : x # y => <<x, y>> \in R \/ <<y, x>> \in R,
           \A x, y, z \in S : <<x, y>> \in R /\ <<y, z>> \in R => <<x, z>> \in R
    PROVE  \E s \in SetToSeqs(S) : \A i, j \in DOMAIN s : i < j => <<s[i], s[j]>> \in R
<1> DEFINE n == Cardinality(S)
           before(x) == {y \in S : <<y, x>> \in R}
           place == [x \in S |-> Cardinality(before(x)) + 1]
<1>1. n \in Nat
  BY FS_CardinalityType
<1>2. ASSUME NEW x \in S
      PROVE  /\ IsFiniteSet(before(x)) /\ place[x] = Cardinality(before(x)) + 1
             /\ place[x] \in 1..n
  <2>1. before(x) \in SUBSET (S \ {x})
    OBVIOUS
  <2>2. IsFiniteSet(S \ {x}) /\ Cardinality(S \ {x}) = n - 1
    BY FS_RemoveElement
  <2> HIDE DEF before, n
  <2>3. IsFiniteSet(before(x)) /\ Cardinality(before(x)) <= n - 1
    BY <2>1, <2>2, FS_Subset
  <2>4. Cardinality(before(x)) \in Nat
    BY <2>3, FS_CardinalityType
  <2> QED  BY <1>1, <2>3, <2>4
<1>3. ASSUME NEW x \in S, NEW y \in S, <<x, y>> \in R
      PROVE  place[x] < place[y]
  <2>1. before(x) \cup {x} \in SUBSET before(y) /\ x \notin before(x)
    BY <1>3
  <2> HIDE DEF before, n, place
  <2>2. /\ IsFiniteSet(before(x) \cup {x})
        /\ Cardinality(before(x) \cup {x}) = Cardinality(before(x)) + 1
    BY <1>2, <2>1, FS_AddElement
  <2>3. Cardinality(before(x) \cup {x}) <= Cardinality(before(y))
    BY <1>2, <2>1, FS_Subset
  <2>4. Cardinality(before(x)) \in Nat /\ Cardinality(before(y)) \in Nat
    BY <1>2, FS_CardinalityType
  <2> QED  BY <1>2, <2>2, <2>3, <2>4
<1>4. place \in Injection(S, 1..n)
  <2>1. place \in [S -> 1..n]
    BY <1>2
  <2>2. ASSUME NEW x \in S, NEW y \in S, x # y
        PROVE  place[x] # place[y]
    <3>1. place[x] \in Nat /\ place[y] \in Nat
      <4>1. place[x] \in 1..n /\ place[y] \in 1..n
        BY <1>2
      <4> HIDE DEF place, n
      <4> QED  BY <1>1, <4>1
    <3>2. <<x, y>> \in R \/ <<y, x>> \in R
      BY <2>2
    <3>3. place[x] < place[y] \/ place[y] < place[x]
      BY <1>3, <3>2
    <3> HIDE DEF place
    <3> QED  BY <3>1, <3>3
  <2> HIDE DEF place, n
  <2> QED  BY <2>1, <2>2 DEF Injection, IsInjective
<1>5. place \in Surjection(S, 1..n)
  <2>1. IsFiniteSet(1..n) /\ Cardinality(1..n) = n
    BY <1>1, FS_Interval
  <2> QED  BY <1>4, <2>1, FS_Injection
<1> HIDE DEF place
<1> DEFINE at == [k \in 1..n |-> CHOOSE x \in S : place[x] = k]
<1>6. ASSUME NEW k \in 1..n
      PROVE  at[k] \in S /\ place[at[k]] = k
  BY <1>5 DEF Surjection
<1>7. ASSUME NEW i \in 1..n, NEW j \in 1..n, i < j
      PROVE  <<at[i], at[j]>> \in R
  <2> DEFINE x == at[i]  y == at[j]
  <2>1. x \in S /\ y \in S /\ place[x] = i /\ place[y] = j
    BY <1>6
  <2> HIDE DEF at
  <2>2. x # y /\ ~(place[y] < place[x])
    BY <1>7, <2>1
  <2> QED  BY <1>3, <2>1, <2>2
<1>8. at \in SetToSeqs(S) /\ DOMAIN at = 1..n
  <2>1. \A i, j \in 1..n : i # j => at[i] # at[j]
    BY <1>6
  <2> QED  BY <1>6, <2>1 DEF SetToSeqs
<1> QED  BY <1>7, <1>8

\* Naturals, in the order of their size.
LEMMA ArrangedNumbers ==
    ASSUME NEW S \in SUBSET Nat, IsFiniteSet(S)
    PROVE  \E s \in SetToSeqs(S) : \A i, j \in DOMAIN s : i < j => s[i] < s[j]
<1> DEFINE R == {p \in S \X S : p[1] < p[2]}
<1>1. \A x, y \in S : <<x, y>> \in R <=> x < y
  OBVIOUS
<1>2. \A x \in S : x \in Nat
  OBVIOUS
<1> HIDE DEF R
<1>3. /\ \A x \in S : <<x, x>> \notin R
      /\ \A x, y \in S : x # y => <<x, y>> \in R \/ <<y, x>> \in R
      /\ \A x, y, z \in S : <<x, y>> \in R /\ <<y, z>> \in R => <<x, z>> \in R
  BY <1>1, <1>2
<1>4. PICK s \in SetToSeqs(S) : \A i, j \in DOMAIN s : i < j => <<s[i], s[j]>> \in R
  BY <1>3, Arranged
<1>5. s \in [1..Cardinality(S) -> S]
  BY DEF SetToSeqs
<1> QED  BY <1>1, <1>4, <1>5

\* What SetToSeqs says: each element has one place.
LEMMA SequenceOfSet ==
    ASSUME NEW S, IsFiniteSet(S), NEW s \in SetToSeqs(S)
    PROVE  /\ s \in Seq(S) /\ Len(s) = Cardinality(S) /\ DOMAIN s = 1..Cardinality(S)
           /\ \A x \in S : \E i \in DOMAIN s : s[i] = x
<1>1. s \in [1..Cardinality(S) -> S] /\ \A i, j \in 1..Cardinality(S) : i # j => s[i] # s[j]
  BY DEF SetToSeqs
<1>2. Cardinality(S) \in Nat
  BY FS_CardinalityType
<1>3. IsFiniteSet(1..Cardinality(S)) /\ Cardinality(1..Cardinality(S)) = Cardinality(S)
  BY <1>2, FS_Interval
<1>4. s \in Injection(1..Cardinality(S), S)
  BY <1>1 DEF Injection, IsInjective
<1>5. s \in Surjection(1..Cardinality(S), S)
  BY <1>3, <1>4, FS_Injection
<1>6. s \in Seq(S) /\ Len(s) = Cardinality(S)
  BY <1>1, <1>2
<1> QED  BY <1>1, <1>5, <1>6 DEF Surjection

-------------------------------------------------------------------------------
(* Requests about work items *)

Fields == {"version", "assignees", "labels", "columns", "iteration", "area", "description", "codebase", "other"}
Attributes == {"description", "markup", "codebase", "iteration", "other"}

IsItem(x) == x = [f \in Fields |-> x[f]]

ConvOf(ok, target, known) == [ok |-> ok, target |-> target, repos |-> known]

\* What the attributes of a set of keys make of a description, of the codebases and of an item, in
\* whatever order.
DescriptionAfter(old, attr, keys) ==
    IF keys \cap {"description", "markup"} = {} THEN old
    ELSE [content |-> IF "description" \in keys THEN attr.description.content ELSE IF old = Null THEN "" ELSE old.content,
          markup  |-> IF "markup" \in keys THEN attr.markup ELSE IF old = Null THEN attr.description.markup ELSE old.markup]

ReposAfter(known, attr, keys) == IF "codebase" \in keys THEN ReposWith(known, attr.codebase) ELSE known

FieldAfter(old, known, attr, keys, f) ==
    IF f = "description" THEN DescriptionAfter(old.description, attr, keys)
    ELSE IF f \notin keys THEN old[f]
    ELSE IF f = "codebase" THEN CodebaseIn(ReposWith(known, attr.codebase), attr.codebase)
    ELSE attr[f]

ItemAfter(old, known, attr, keys) == [f \in Fields |-> FieldAfter(old, known, attr, keys, f)]

ConvAfter(ok, old, known, attr, keys) == ConvOf(ok, ItemAfter(old, known, attr, keys), ReposAfter(known, attr, keys))

\* A field of an item, set.
LEMMA SetField ==
    ASSUME NEW x, IsItem(x), NEW f \in Fields, NEW value
    PROVE  [x EXCEPT ![f] = value] = [g \in Fields |-> IF g = f THEN value ELSE x[g]]
<1>1. DOMAIN x = Fields
  BY DEF IsItem
<1>2. [x EXCEPT ![f] = value] = [g \in DOMAIN x |-> IF g = f THEN value ELSE x[g]]
  OBVIOUS
<1> QED  BY <1>1, <1>2

\* A conversion is a record of three fields.
LEMMA ConvParts ==
    ASSUME NEW ok, NEW target, NEW known
    PROVE  /\ ConvOf(ok, target, known).ok = ok
           /\ ConvOf(ok, target, known).target = target
           /\ ConvOf(ok, target, known).repos = known
BY DEF ConvOf

\* A conversion that is refused loses nothing but its success.
LEMMA ConvRefused ==
    ASSUME NEW ok, NEW target, NEW known
    PROVE  Refused(ConvOf(ok, target, known)) = ConvOf(FALSE, target, known)
<1>1. PICK no : no = FALSE
  OBVIOUS
<1>2. [ConvOf(ok, target, known) EXCEPT !.ok = no] = ConvOf(no, target, known)
  BY DEF ConvOf
<1> QED  BY <1>1, <1>2, Zenon DEF Refused

\* An item with one field set.
With(x, f, value) == [g \in Fields |-> IF g = f THEN value ELSE x[g]]

\* A description that is given another text, and another markup.
Worded(d, text) == IF d = Null THEN text ELSE [d EXCEPT !.content = text.content]
Marked(d, markup) == IF d = Null THEN [content |-> "", markup |-> markup] ELSE [d EXCEPT !.markup = markup]

\* What SetAttribute does, key by key.
LEMMA SetOther ==
    ASSUME NEW ok, NEW target, IsItem(target), NEW known, NEW value, NEW key \in {"iteration", "other"}
    PROVE  SetAttribute(ConvOf(ok, target, known), key, value) = ConvOf(ok, With(target, key, value), known)
<1>1. SetAttribute(ConvOf(ok, target, known), key, value) = ConvOf(ok, [target EXCEPT ![key] = value], known)
  BY DEF SetAttribute, ConvOf
<1>2. key \in Fields
  BY DEF Fields
<1> QED  BY <1>1, <1>2, SetField DEF With

\* The text of the description.
LEMMA SetDescriptionPart ==
    ASSUME NEW ok, NEW target, IsItem(target), NEW known, NEW value
    PROVE  SetAttribute(ConvOf(ok, target, known), "description", value) =
              ConvOf(ok, With(target, "description", Worded(target.description, value)), known)
<1>1. SetAttribute(ConvOf(ok, target, known), "description", value) = ConvOf(ok, SetDescription(target, value), known)
  BY DEF SetAttribute, ConvOf
<1>2. "description" \in Fields
  BY DEF Fields
<1>3. SetDescription(target, value) =
          With(target, "description", Worded(target.description, value))
  BY <1>2, SetField DEF SetDescription, With, Worded
<1> QED  BY <1>1, <1>3

\* The markup of the description.
LEMMA SetMarkupPart ==
    ASSUME NEW ok, NEW target, IsItem(target), NEW known, NEW value
    PROVE  SetAttribute(ConvOf(ok, target, known), "markup", value) =
              ConvOf(ok, With(target, "description", Marked(target.description, value)), known)
<1>1. SetAttribute(ConvOf(ok, target, known), "markup", value) = ConvOf(ok, SetMarkup(target, value), known)
  BY DEF SetAttribute, ConvOf
<1>2. "description" \in Fields
  BY DEF Fields
<1>3. SetMarkup(target, value) =
          With(target, "description", Marked(target.description, value))
  BY <1>2, SetField DEF SetMarkup, With, Marked
<1> QED  BY <1>1, <1>3

\* The codebase, with its repository.
LEMMA SetCodebasePart ==
    ASSUME NEW ok, NEW target, IsItem(target), NEW known, NEW value
    PROVE  SetAttribute(ConvOf(ok, target, known), "codebase", value) =
              ConvOf(ok, With(target, "codebase", CodebaseIn(ReposWith(known, value), value)), ReposWith(known, value))
<1> DEFINE conv == ConvOf(ok, target, known)
<1>1. SetAttribute(conv, "codebase", value) = SetupCodebase(conv, value)
  BY DEF SetAttribute
<1>2. conv.repos = known
  BY DEF ConvOf
<1> PICK all, new : all = ReposWith(known, value) /\ new = CodebaseIn(all, value)
  OBVIOUS
<1>3. SetupCodebase(conv, value) = [conv EXCEPT !.repos = all, !.target.codebase = new]
  <2> HIDE DEF conv
  <2> QED  BY <1>2 DEF SetupCodebase
<1>4. [conv EXCEPT !.repos = all, !.target.codebase = new] = ConvOf(ok, [target EXCEPT !["codebase"] = new], all)
  <2>1. [conv EXCEPT !.repos = all] = ConvOf(ok, target, all)
    BY DEF ConvOf
  <2>2. [ConvOf(ok, target, all) EXCEPT !.target.codebase = new] = ConvOf(ok, [target EXCEPT !["codebase"] = new], all)
    BY DEF ConvOf
  <2> QED  BY <2>1, <2>2
<1>5. "codebase" \in Fields
  BY DEF Fields
<1>6. [target EXCEPT !["codebase"] = new] = With(target, "codebase", new)
  BY <1>5, SetField DEF With
<1> QED  BY <1>1, <1>3, <1>4, <1>6

\* A description, after the attributes of some keys, is one again, or none.
LEMMA DescriptionStays ==
    ASSUME NEW d \in Descriptions \cup {Null}, NEW source \in PatchSources, NEW keys, keys \subseteq DOMAIN source.attr
    PROVE  /\ DescriptionAfter(d, source.attr, keys) \in Descriptions \cup {Null}
           /\ keys \cap {"description", "markup"} # {} => DescriptionAfter(d, source.attr, keys) \in Descriptions
<1> DEFINE with(key) == {one \in PatchSources : key \in DOMAIN one.attr}
           C == {""} \cup {one.attr.description.content : one \in with("description")}
           M == {one.attr.markup : one \in with("markup")} \cup {one.attr.description.markup : one \in with("description")}
<1>1. Descriptions = [content : C, markup : M]
  BY DEF Descriptions
<1>2. "description" \in keys => source.attr.description.content \in C /\ source.attr.description.markup \in M
  OBVIOUS
<1>3. "markup" \in keys => source.attr.markup \in M
  OBVIOUS
<1>4. "" \in C
  OBVIOUS
<1> HIDE DEF C, M
<1>5. d # Null => d.content \in C /\ d.markup \in M
  BY <1>1
<1>6. CASE keys \cap {"description", "markup"} = {}
  BY <1>6 DEF DescriptionAfter
<1>7. CASE keys \cap {"description", "markup"} # {}
  BY <1>1, <1>2, <1>3, <1>4, <1>5, <1>7 DEF DescriptionAfter
<1> QED  BY <1>6, <1>7

\* Descriptions have a text and a markup.
LEMMA DescriptionShape ==
    ASSUME NEW d \in Descriptions
    PROVE  d = [content |-> d.content, markup |-> d.markup] /\ d # Null
BY PatchAssumption DEF Descriptions

\* Text and markup are set apart from one another.
TextOf(content, markup) == [content |-> content, markup |-> markup]

\* A new text keeps the markup.
LEMMA SetContent ==
    ASSUME NEW d, d # Null, NEW content, NEW markup, d = TextOf(content, markup), NEW text
    PROVE  Worded(d, text) = TextOf(text.content, markup)
BY DEF TextOf, Worded

\* A new markup keeps the text.
LEMMA SetMarkupOf ==
    ASSUME NEW content, NEW markup, NEW new
    PROVE  [TextOf(content, markup) EXCEPT !.markup = new] = TextOf(content, new)
BY DEF TextOf

\* What a description is once its text is given, too, and once its markup is.
LEMMA TextGiven ==
    ASSUME NEW d \in Descriptions \cup {Null}, NEW attr, NEW keys, "description" \notin keys, attr.description \in Descriptions,
           "markup" \in keys => DescriptionAfter(d, attr, keys) \in Descriptions
    PROVE  DescriptionAfter(d, attr, keys \cup {"description"}) = Worded(DescriptionAfter(d, attr, keys), attr.description)
<1> PICK before, text : before = DescriptionAfter(d, attr, keys) /\ text = attr.description
  OBVIOUS
<1>1. text = TextOf(text.content, text.markup)
  BY DescriptionShape DEF TextOf
<1>2. DescriptionAfter(d, attr, keys \cup {"description"}) =
          TextOf(text.content, IF "markup" \in keys THEN attr.markup ELSE IF d = Null THEN text.markup ELSE d.markup)
  BY DEF DescriptionAfter, TextOf
<1>3. CASE "markup" \in keys
  <2>1. before = TextOf(IF d = Null THEN "" ELSE d.content, attr.markup)
    BY <1>3 DEF DescriptionAfter, TextOf
  <2>2. before # Null
    BY <1>3, DescriptionShape
  <2>3. Worded(before, text) = TextOf(text.content, attr.markup)
    BY <2>1, <2>2, SetContent
  <2> QED  BY <1>2, <1>3, <2>3
<1>4. CASE "markup" \notin keys
  <2>1. before = d
    BY <1>4 DEF DescriptionAfter
  <2>2. CASE d = Null
    BY <1>1, <1>2, <1>4, <2>1, <2>2 DEF Worded
  <2>3. CASE d # Null
    <3>1. d = TextOf(d.content, d.markup)
      BY <2>3, DescriptionShape DEF TextOf
    <3>2. Worded(d, text) = TextOf(text.content, d.markup)
      BY <2>3, <3>1, SetContent
    <3> QED  BY <1>2, <1>4, <2>1, <2>3, <3>2
  <2> QED  BY <2>2, <2>3
<1> QED  BY <1>3, <1>4

\* The same for the markup.
LEMMA MarkupGiven ==
    ASSUME NEW d \in Descriptions \cup {Null}, NEW attr, NEW keys, "markup" \notin keys,
           "description" \in keys => DescriptionAfter(d, attr, keys) \in Descriptions
    PROVE  DescriptionAfter(d, attr, keys \cup {"markup"}) = Marked(DescriptionAfter(d, attr, keys), attr.markup)
<1> PICK before, text : before = DescriptionAfter(d, attr, keys) /\ text = attr.description
  OBVIOUS
<1>1. DescriptionAfter(d, attr, keys \cup {"markup"}) =
          TextOf(IF "description" \in keys THEN text.content ELSE IF d = Null THEN "" ELSE d.content, attr.markup)
  BY DEF DescriptionAfter, TextOf
<1>2. CASE "description" \in keys
  <2>1. before = TextOf(text.content, IF d = Null THEN text.markup ELSE d.markup)
    BY <1>2 DEF DescriptionAfter, TextOf
  <2>2. before # Null
    BY <1>2, DescriptionShape
  <2>3. [before EXCEPT !.markup = attr.markup] = TextOf(text.content, attr.markup)
    BY <2>1, SetMarkupOf
  <2> QED  BY <1>1, <1>2, <2>2, <2>3 DEF Marked
<1>3. CASE "description" \notin keys
  <2>1. before = d
    BY <1>3 DEF DescriptionAfter
  <2>2. CASE d = Null
    BY <1>1, <1>3, <2>1, <2>2 DEF Marked, TextOf
  <2>3. CASE d # Null
    <3>1. d = TextOf(d.content, d.markup)
      BY <2>3, DescriptionShape DEF TextOf
    <3>2. [d EXCEPT !.markup = attr.markup] = TextOf(d.content, attr.markup)
      BY <3>1, SetMarkupOf
    <3> QED  BY <1>1, <1>3, <2>1, <2>3, <3>2 DEF Marked
  <2> QED  BY <2>2, <2>3
<1> QED  BY <1>2, <1>3

\* The attribute of one more key.
CanBeNext(old, source, keys, key) ==
    /\ IsItem(old) /\ old.description \in Descriptions \cup {Null} /\ source \in PatchSources
    /\ keys \subseteq Attributes \cap DOMAIN source.attr
    /\ key \in (Attributes \cap DOMAIN source.attr) \ keys

IsNext(ok, old, known, source, keys, key) ==
    SetAttribute(ConvAfter(ok, old, known, source.attr, keys), key, source.attr[key]) =
        ConvAfter(ok, old, known, source.attr, keys \cup {key})

\* One more attribute, in the conversion with those that have been visited.
LEMMA OneMoreAttribute ==
    ASSUME NEW ok, NEW old, NEW known, NEW source, NEW keys, NEW key, CanBeNext(old, source, keys, key)
    PROVE  IsNext(ok, old, known, source, keys, key)
<1>0. /\ IsItem(old) /\ old.description \in Descriptions \cup {Null} /\ source \in PatchSources
      /\ key \in Attributes \ keys /\ keys \cup {key} \subseteq DOMAIN source.attr
  BY DEF CanBeNext
<1> PICK attr : attr = source.attr
  OBVIOUS
<1> PICK more : more = keys \cup {key}
  OBVIOUS
<1> PICK x, y : x = ItemAfter(old, known, attr, keys) /\ y = ItemAfter(old, known, attr, more)
  OBVIOUS
<1> PICK r1, r2 : r1 = ReposAfter(known, attr, keys) /\ r2 = ReposAfter(known, attr, more)
  OBVIOUS
<1>1. SUFFICES SetAttribute(ConvOf(ok, x, r1), key, attr[key]) = ConvOf(ok, y, r2)
  BY DEF ConvAfter, IsNext
<1> USE <1>0
<1>2. IsItem(x) /\ IsItem(y)
  BY DEF IsItem, ItemAfter
<1>3. \A f \in Fields : x[f] = FieldAfter(old, known, attr, keys, f) /\ y[f] = FieldAfter(old, known, attr, more, f)
  BY DEF ItemAfter
<1>4. {"iteration", "other", "codebase", "description"} \subseteq Fields
  BY DEF Fields
<1>5. key # "codebase" => r2 = r1
  BY DEF ReposAfter
<1>6. CASE key \in {"iteration", "other"}
  <2>1. y = With(x, key, attr[key])
    <3>1. \A g \in Fields : y[g] = IF g = key THEN attr[key] ELSE x[g]
      BY <1>3, <1>6 DEF FieldAfter, DescriptionAfter
    <3> QED  BY <1>2, <3>1 DEF IsItem, With
  <2> QED  BY <1>2, <1>5, <1>6, <2>1, SetOther
<1>7. CASE key = "codebase"
  <2>1. r1 = known /\ attr[key] = attr.codebase /\ r2 = ReposWith(r1, attr.codebase)
    BY <1>7 DEF ReposAfter
  <2>2. y = With(x, "codebase", CodebaseIn(r2, attr.codebase))
    <3>1. ASSUME NEW g \in Fields
          PROVE  y[g] = IF g = "codebase" THEN CodebaseIn(r2, attr.codebase) ELSE x[g]
      <4>1. DescriptionAfter(old.description, attr, more) = DescriptionAfter(old.description, attr, keys)
        BY <1>7 DEF DescriptionAfter
      <4>2. ReposWith(known, attr.codebase) = r2
        BY <2>1
      <4> QED  BY <1>3, <1>7, <4>1, <4>2 DEF FieldAfter
    <3> QED  BY <1>2, <3>1 DEF IsItem, With
  <2> QED  BY <1>2, <1>7, <2>1, <2>2, SetCodebasePart
<1>8. x.description = DescriptionAfter(old.description, attr, keys) /\ y.description = DescriptionAfter(old.description, attr, more)
  BY <1>3, <1>4 DEF FieldAfter
<1>9. x.description \in Descriptions \cup {Null} /\ ("description" \in DOMAIN attr => attr.description \in Descriptions)
  BY <1>0, <1>8, DescriptionStays, PatchAssumption
<1>10. key \in {"description", "markup"} => y = With(x, "description", y.description)
  <2>1. key \in {"description", "markup"} => \A g \in Fields : y[g] = IF g = "description" THEN y.description ELSE x[g]
    BY <1>3 DEF FieldAfter, Fields
  <2> QED  BY <1>2, <2>1 DEF IsItem, With
<1>11. keys \cap {"description", "markup"} # {} => x.description \in Descriptions
  BY <1>0, <1>8, DescriptionStays
<1>12. CASE key = "description"
  <2> PICK new : new = Worded(x.description, attr.description)
    OBVIOUS
  <2>1. y.description = new
    BY <1>8, <1>9, <1>11, <1>12, TextGiven
  <2>2. SetAttribute(ConvOf(ok, x, r1), "description", attr.description) = ConvOf(ok, With(x, "description", new), r1)
    BY <1>2, SetDescriptionPart
  <2> QED  BY <1>5, <1>10, <1>12, <2>1, <2>2
<1>13. CASE key = "markup"
  <2> PICK new : new = Marked(x.description, attr.markup)
    OBVIOUS
  <2>1. y.description = new
    BY <1>8, <1>11, <1>13, MarkupGiven
  <2>2. SetAttribute(ConvOf(ok, x, r1), "markup", attr.markup) = ConvOf(ok, With(x, "description", new), r1)
    BY <1>2, SetMarkupPart
  <2> QED  BY <1>5, <1>10, <1>13, <2>1, <2>2
<1> QED  BY <1>6, <1>7, <1>12, <1>13 DEF Attributes

\* No attributes change nothing.
LEMMA NoAttributes ==
    ASSUME NEW ok, NEW old, IsItem(old), NEW known, NEW attr
    PROVE  ConvAfter(ok, old, known, attr, {}) = ConvOf(ok, old, known)
<1>1. ReposAfter(known, attr, {}) = known
  BY DEF ReposAfter
<1>2. ItemAfter(old, known, attr, {}) = old
  <2>1. \A f \in Fields : FieldAfter(old, known, attr, {}, f) = old[f]
    BY DEF FieldAfter, DescriptionAfter
  <2> QED  BY <2>1 DEF ItemAfter, IsItem
<1> QED  BY <1>1, <1>2 DEF ConvAfter

\* The loop over the attributes, in whatever order.
Visited(source, begun, order) == FoldLeft(LAMBDA conv, key : SetAttribute(conv, key, source.attr[key]), begun, order)

\* The loop comes to the same for every order: it is the conversion with all attributes.
LEMMA AllAttributes ==
    ASSUME NEW ok, NEW old, IsItem(old), old.description \in Descriptions \cup {Null}, NEW known, NEW source \in PatchSources,
           NEW order \in Orders(source)
    PROVE  Visited(source, ConvOf(ok, old, known), order) = ConvAfter(ok, old, known, source.attr, DOMAIN source.attr)
<1> PICK all : all = DOMAIN source.attr
  OBVIOUS
<1>1. all \subseteq Attributes /\ IsFiniteSet(all) /\ order \in SetToSeqs(all)
  <2>1. IsFiniteSet(Attributes)
    <3>1. IsFiniteSet({}) /\ Attributes = ((((({} \cup {"description"}) \cup {"markup"}) \cup {"codebase"}) \cup {"iteration"}) \cup {"other"})
      BY FS_EmptySet DEF Attributes
    <3> QED  BY <3>1, FS_AddElement
  <2>2. all \subseteq Attributes
    BY PatchAssumption DEF Attributes
  <2> QED  BY <2>1, <2>2, FS_Subset DEF Orders
<1> PICK n : n = Cardinality(all)
  OBVIOUS
<1>2. /\ n \in Nat /\ DOMAIN order = 1..n
      /\ \A i \in 1..n : order[i] \in all
      /\ \A i, j \in 1..n : i # j => order[i] # order[j]
      /\ \A x \in all : \E i \in 1..n : order[i] = x
  BY <1>1, FS_CardinalityType, SequenceOfSet DEF SetToSeqs
<1> DEFINE base == ConvOf(ok, old, known)
           Body(f) == [s \in SUBSET (1..n) |->
                         IF s = {} THEN base
                         ELSE SetAttribute(f[s \ {Max(s)}], order[Max(s)], source.attr[order[Max(s)]])]
           iter == CHOOSE f : f = Body(f)
           visited(s) == {order[i] : i \in s}
           g == [s \in SUBSET (1..n) |-> ConvAfter(ok, old, known, source.attr, visited(s))]
<1>3. Visited(source, base, order) = iter[1..n]
  <2> HIDE DEF base
  <2> QED  BY <1>2 DEF Visited, FoldLeft, MapThenFoldSet
<1>4. ASSUME NEW s \in SUBSET (1..n), s # {}
      PROVE  Max(s) \in s
  <2>1. \A y \in 1..n : y \in Nat /\ y <= n
    BY <1>2
  <2>2. s \in SUBSET Nat /\ \A y \in s : y <= n
    BY <2>1
  <2> QED  BY <1>2, <1>4, <2>2, LargestElement
<1>5. g = Body(g)
  <2>1. ASSUME NEW s \in SUBSET (1..n)
        PROVE  g[s] = Body(g)[s]
    <3>1. CASE s = {}
      <4>1. visited(s) = {}
        BY <3>1
      <4>2. g[s] = ConvAfter(ok, old, known, source.attr, {})
        BY <4>1
      <4> QED  BY <3>1, <4>2, NoAttributes
    <3>2. CASE s # {}
      <4> PICK m : m = Max(s)
        OBVIOUS
      <4> PICK t : t = s \ {m}
        OBVIOUS
      <4>1. m \in s /\ m \in 1..n /\ t \in SUBSET (1..n) /\ m \notin t /\ s = t \cup {m}
        BY <1>4, <3>2
      <4>2. Body(g)[s] = SetAttribute(g[t], order[m], source.attr[order[m]])
        <5> HIDE DEF g
        <5> QED  BY <3>2
      <4>3. g[t] = ConvAfter(ok, old, known, source.attr, visited(t)) /\ g[s] = ConvAfter(ok, old, known, source.attr, visited(s))
        BY <4>1
      <4>4. visited(s) = visited(t) \cup {order[m]}
        BY <4>1
      <4>5. visited(t) \in SUBSET all /\ order[m] \in all \ visited(t)
        <5>1. \A i \in t : order[i] \in all /\ order[i] # order[m]
          BY <1>2, <4>1
        <5>2. order[m] \in all
          BY <1>2, <4>1
        <5> QED  BY <5>1, <5>2
      <4> HIDE DEF g, Body, visited
      <4>6. SetAttribute(ConvAfter(ok, old, known, source.attr, visited(t)), order[m], source.attr[order[m]]) =
                ConvAfter(ok, old, known, source.attr, visited(t) \cup {order[m]})
        <5> PICK set, last : set = visited(t) /\ last = order[m]
          OBVIOUS
        <5>1. CanBeNext(old, source, set, last)
          BY <1>1, <4>5 DEF CanBeNext
        <5>2. IsNext(ok, old, known, source, set, last)
          BY <5>1, OneMoreAttribute, Zenon
        <5> QED  BY <5>2 DEF IsNext
      <4> QED  BY <4>2, <4>3, <4>4, <4>6
    <3> QED  BY <3>1, <3>2
  <2> QED  BY <2>1
<1> HIDE DEF g
<1>6. iter = Body(iter)
  BY <1>5
<1> HIDE DEF iter
<1>7. \A k \in 0..n : iter[1..k] = g[1..k]
  <2> DEFINE Wrong == {k \in 0..n : iter[1..k] # g[1..k]}
  <2>1. SUFFICES ASSUME Wrong # {} PROVE FALSE
    OBVIOUS
  <2>2. PICK k \in Wrong : \A j \in Wrong : k <= j
    <3>1. Wrong \in SUBSET Nat
      BY <1>2
    <3> HIDE DEF Wrong
    <3> QED  BY <2>1, <3>1, SmallestElement
  <2>3. k \in 0..n /\ iter[1..k] # g[1..k] /\ 1..k \in SUBSET (1..n)
    BY <1>2
  <2>4. iter[1..k] = Body(iter)[1..k] /\ g[1..k] = Body(g)[1..k]
    BY <1>5, <1>6
  <2>5. CASE k = 0
    <3>1. 1..k = {}
      BY <2>5
    <3> QED  BY <2>3, <2>4, <3>1
  <2>6. CASE k # 0
    <3>1. k \in 1..k /\ k - 1 \in 0..n /\ ~(k <= k - 1) /\ 1..k # {}
      <4> HIDE DEF Body, iter, g, Wrong
      <4>1. k \in Nat \ {0} /\ k <= n
        BY <1>2, <2>3, <2>6
      <4>2. k \in 1..k
        BY <4>1
      <4>3. k - 1 \in 0..n /\ ~(k <= k - 1)
        BY <1>2, <4>1
      <4> QED  BY <4>2, <4>3
    <3>2. Max(1..k) = k
      <4>1. 1..k \in SUBSET Nat /\ k \in Nat /\ \A y \in 1..k : y <= k
        BY <1>2, <2>3
      <4>2. Max(1..k) \in 1..k /\ \A y \in 1..k : y <= Max(1..k)
        BY <3>1, <4>1, LargestElement
      <4> QED  BY <3>1, <4>1, <4>2
    <3>3. (1..k) \ {k} = 1..(k - 1)
      BY <1>2, <2>3
    <3>4. iter[1..(k - 1)] = g[1..(k - 1)]
      BY <2>2, <3>1
    <3> PICK a, b : a = iter[1..(k - 1)] /\ b = g[1..(k - 1)]
      OBVIOUS
    <3>5. /\ Body(iter)[1..k] = SetAttribute(a, order[k], source.attr[order[k]])
          /\ Body(g)[1..k] = SetAttribute(b, order[k], source.attr[order[k]])
      BY <2>3, <3>1, <3>2, <3>3
    <3> QED  BY <2>3, <2>4, <3>4, <3>5
  <2> QED  BY <2>5, <2>6
<1>8. g[1..n] = ConvAfter(ok, old, known, source.attr, all)
  <2>1. visited(1..n) = all
    BY <1>2
  <2> QED  BY <1>2, <2>1 DEF g
<1>9. iter[1..n] = g[1..n]
  <2>1. n \in 0..n
    BY <1>2
  <2> QED  BY <1>7, <2>1
<1> QED  BY <1>3, <1>8, <1>9

\* Conversions of items.
IsConv(conv) == conv = ConvOf(conv.ok, conv.target, conv.repos) /\ IsItem(conv.target)

\* A step of a conversion that sets at most the field f.
SetsOnly(conv, new, f) ==
    /\ IsConv(new) /\ new.repos = conv.repos /\ (new.ok => conv.ok)
    /\ \A g \in Fields \ {f} : new.target[g] = conv.target[g]

\* The field f of the item, set in a conversion.
LEMMA SetInTarget ==
    ASSUME NEW conv, IsConv(conv), NEW f \in Fields, NEW value
    PROVE  [conv EXCEPT !.target[f] = value] = ConvOf(conv.ok, With(conv.target, f, value), conv.repos)
<1> PICK ok, target, known : ok = conv.ok /\ target = conv.target /\ known = conv.repos
  OBVIOUS
<1>1. conv = ConvOf(ok, target, known) /\ IsItem(target)
  BY DEF IsConv
<1>2. [ConvOf(ok, target, known) EXCEPT !.target[f] = value] = ConvOf(ok, [target EXCEPT ![f] = value], known)
  BY DEF ConvOf
<1>3. [target EXCEPT ![f] = value] = With(target, f, value)
  BY <1>1, SetField DEF With
<1> QED  BY <1>1, <1>2, <1>3

\* Nothing else is set.
LEMMA FieldSet ==
    ASSUME NEW conv, IsConv(conv), NEW f \in Fields, NEW value, NEW new, new = [conv EXCEPT !.target[f] = value]
    PROVE  SetsOnly(conv, new, f) /\ new.target[f] = value
<1> PICK ok, target, known : ok = conv.ok /\ target = conv.target /\ known = conv.repos
  OBVIOUS
<1>1. new = ConvOf(ok, With(target, f, value), known)
  BY SetInTarget
<1>2. new.ok = ok /\ new.target = With(target, f, value) /\ new.repos = known
  BY <1>1 DEF ConvOf
<1>3. IsItem(With(target, f, value)) /\ \A g \in Fields : With(target, f, value)[g] = IF g = f THEN value ELSE target[g]
  BY DEF IsItem, With
<1> QED  BY <1>1, <1>2, <1>3 DEF SetsOnly, IsConv

\* A conversion that is refused, and one that is left alone.
LEMMA RefusedSetsNothing ==
    ASSUME NEW conv, IsConv(conv), NEW new, new = Refused(conv) \/ new = conv
    PROVE  /\ \A f \in Fields : SetsOnly(conv, new, f) /\ new.target[f] = conv.target[f]
           /\ new = Refused(conv) => ~new.ok
<1> PICK ok, target, known : ok = conv.ok /\ target = conv.target /\ known = conv.repos
  OBVIOUS
<1>1. conv = ConvOf(ok, target, known) /\ IsItem(target)
  BY DEF IsConv
<1>2. PICK no : no = FALSE
  OBVIOUS
<1>3. Refused(conv) = ConvOf(no, target, known)
  BY <1>1, <1>2, ConvRefused, Zenon
<1>4. Refused(conv).ok = no /\ Refused(conv).target = target /\ Refused(conv).repos = known
  BY <1>3 DEF ConvOf
<1>5. CASE new = conv
  <2>1. \A f \in Fields : SetsOnly(conv, new, f) /\ new.target[f] = conv.target[f]
    BY <1>5 DEF SetsOnly
  <2> QED  BY <1>2, <1>4, <2>1
<1>6. CASE new = Refused(conv)
  <2>1. IsConv(new) /\ new.target = target /\ new.repos = known /\ ~new.ok
    <3>1. new.ok = no
      BY <1>4, <1>6
    <3>2. ~new.ok
      BY <1>2, <3>1
    <3>3. new.target = target /\ new.repos = known /\ new = ConvOf(new.ok, new.target, new.repos)
      BY <1>3, <1>4, <1>6
    <3> QED  BY <1>1, <3>2, <3>3 DEF IsConv
  <2> QED  BY <2>1 DEF SetsOnly
<1> QED  BY <1>5, <1>6

\* The lists of a request.
LEMMA ListsSet ==
    ASSUME NEW conv, IsConv(conv), NEW rel
    PROVE  /\ SetsOnly(conv, SetAssignees(conv, rel), "assignees")
           /\ "assignees" \notin DOMAIN rel => SetAssignees(conv, rel) = conv
           /\ SetsOnly(conv, SetLabels(conv, rel), "labels")
           /\ "labels" \notin DOMAIN rel => SetLabels(conv, rel) = conv
           /\ SetsOnly(conv, SetColumns(conv, rel), "columns")
           /\ "columns" \notin DOMAIN rel => SetColumns(conv, rel) = conv
<1>1. {"assignees", "labels", "columns"} \subseteq Fields
  BY DEF Fields
<1>2. SetAssignees(conv, rel) \in {conv, Refused(conv), [conv EXCEPT !.target["assignees"] = {}],
                                   [conv EXCEPT !.target["assignees"] = rel.assignees]}
  BY DEF SetAssignees
<1>3. SetLabels(conv, rel) \in {conv, Refused(conv), [conv EXCEPT !.target["labels"] = rel.labels]}
  BY DEF SetLabels
<1>4. SetColumns(conv, rel) \in {conv, Refused(conv), [conv EXCEPT !.target["columns"] = rel.columns]}
  BY DEF SetColumns
<1>5. SetsOnly(conv, SetAssignees(conv, rel), "assignees")
  BY <1>1, <1>2, FieldSet, RefusedSetsNothing
<1>6. SetsOnly(conv, SetLabels(conv, rel), "labels")
  BY <1>1, <1>3, FieldSet, RefusedSetsNothing
<1>7. SetsOnly(conv, SetColumns(conv, rel), "columns")
  BY <1>1, <1>4, FieldSet, RefusedSetsNothing
<1> QED  BY <1>5, <1>6, <1>7 DEF SetAssignees, SetLabels, SetColumns

\* The places of a request: who is not in a place yet gets one.
LEMMA PlacesSet ==
    ASSUME NEW conv, IsConv(conv), NEW rel, NEW method
    PROVE  /\ SetsOnly(conv, SetIteration(conv, method, rel), "iteration")
           /\ SetsOnly(conv, SetArea(conv, method, rel), "area")
<1>1. "iteration" \in Fields /\ "area" \in Fields
  BY DEF Fields
<1> PICK one, two : /\ one = Placed(method, rel, "iteration", RootIteration, conv.target["iteration"])
                    /\ two = Placed(method, rel, "area", RootArea, conv.target["area"])
  OBVIOUS
<1>2. SetIteration(conv, method, rel) \in {Refused(conv), [conv EXCEPT !.target["iteration"] = one]}
  BY DEF SetIteration
<1>3. SetArea(conv, method, rel) \in {Refused(conv), [conv EXCEPT !.target["area"] = two]}
  BY DEF SetArea
<1> QED  BY <1>1, <1>2, <1>3, FieldSet, RefusedSetsNothing

\* A place is one that exists, or the one that the item had.
LEMMA PlacedWhere ==
    ASSUME NEW method, NEW rel, NEW key, NEW rows, NEW root \in rows, NEW old,
           key \in DOMAIN rel /\ rel[key] # Null => rel[key] \in rows
    PROVE  /\ Placed(method, rel, key, root, old) \in rows \/ (method # "POST" /\ Placed(method, rel, key, root, old) = old)
           /\ method # "POST" /\ key \notin DOMAIN rel => Placed(method, rel, key, root, old) = old
BY DEF Placed

\* The place of an item after its step.
PlaceIsRight(conv, rel, method, f, rows, next) ==
    /\ next.ok => next.target[f] \in rows \/ (method # "POST" /\ next.target[f] = conv.target[f])
    /\ method # "POST" /\ f \notin DOMAIN rel => next.target[f] = conv.target[f]

\* The step that sets a place.
LEMMA PlaceAfter ==
    ASSUME NEW conv, IsConv(conv), NEW rel, NEW method, NEW f \in Fields, NEW rows, NEW root \in rows, NEW next, NEW place,
           place = Placed(method, rel, f, root, conv.target[f]),
           next = Refused(conv) \/ next = [conv EXCEPT !.target[f] = place],
           next = Refused(conv) \/ (f \in DOMAIN rel /\ rel[f] # Null => rel[f] \in rows)
    PROVE  PlaceIsRight(conv, rel, method, f, rows, next)
<1> PICK old : old = conv.target[f]
  OBVIOUS
<1>2. CASE next = Refused(conv)
  BY <1>2, RefusedSetsNothing DEF PlaceIsRight
<1>3. CASE next # Refused(conv)
  <2>1. next.target[f] = place
    <3>1. next = [conv EXCEPT !.target[f] = place]
      BY <1>3
    <3>2. next = ConvOf(conv.ok, With(conv.target, f, place), conv.repos)
      BY <3>1, SetInTarget
    <3>3. next.target = With(conv.target, f, place)
      BY <3>2 DEF ConvOf
    <3> QED  BY <3>3 DEF With
  <2>2. /\ place \in rows \/ (method # "POST" /\ place = old)
        /\ method # "POST" /\ f \notin DOMAIN rel => place = old
    BY <1>3, PlacedWhere
  <2> QED  BY <2>1, <2>2 DEF PlaceIsRight
<1> QED  BY <1>2, <1>3

\* The iteration.
LEMMA IterationAfter ==
    ASSUME NEW conv, IsConv(conv), NEW rel, NEW method
    PROVE  PlaceIsRight(conv, rel, method, "iteration", IterationRows, SetIteration(conv, method, rel))
<1> PICK f, old, next : f = "iteration" /\ old = conv.target[f] /\ next = SetIteration(conv, method, rel)
  OBVIOUS
<1> PICK place : place = Placed(method, rel, f, RootIteration, old)
  OBVIOUS
<1>1. f \in Fields
  BY DEF Fields
<1>2. next = Refused(conv) \/ next = [conv EXCEPT !.target[f] = place]
  BY DEF SetIteration
<1>3. next = Refused(conv) \/ (f \in DOMAIN rel /\ rel[f] # Null => rel[f] \in IterationRows)
  BY DEF SetIteration
<1>4. PlaceIsRight(conv, rel, method, f, IterationRows, next)
  BY <1>1, <1>2, <1>3, PlaceAfter, PatchAssumption
<1> QED  BY <1>4

\* The area.
LEMMA AreaAfter ==
    ASSUME NEW conv, IsConv(conv), NEW rel, NEW method
    PROVE  PlaceIsRight(conv, rel, method, "area", AreaRows, SetArea(conv, method, rel))
<1> PICK f, old, next : f = "area" /\ old = conv.target[f] /\ next = SetArea(conv, method, rel)
  OBVIOUS
<1> PICK place : place = Placed(method, rel, f, RootArea, old)
  OBVIOUS
<1>1. f \in Fields
  BY DEF Fields
<1>2. next = Refused(conv) \/ next = [conv EXCEPT !.target[f] = place]
  BY DEF SetArea
<1>3. next = Refused(conv) \/ (f \in DOMAIN rel /\ rel[f] # Null => rel[f] \in AreaRows)
  BY DEF SetArea
<1>4. PlaceIsRight(conv, rel, method, f, AreaRows, next)
  BY <1>1, <1>2, <1>3, PlaceAfter, PatchAssumption
<1> QED  BY <1>4

\* What the relations of a request make of an item, before its attributes.
Related(method, rel, target) ==
    SetArea(SetIteration(SetColumns(SetLabels(SetAssignees(ConvOf(TRUE, target, repos), rel), rel), rel), method, rel), method, rel)

RelationFields == {"assignees", "labels", "columns", "iteration", "area"}

\* An item in its places: a new one always.
PlacesAreRight(method, target, conv) ==
    conv.ok => /\ conv.target["iteration"] \in IterationRows \/ (method # "POST" /\ conv.target["iteration"] = target["iteration"])
               /\ conv.target["area"] \in AreaRows \/ (method # "POST" /\ conv.target["area"] = target["area"])

\* The relations of a request change what they name, and put a new item into its places.
LEMMA RelationsChange ==
    ASSUME NEW method, NEW rel, NEW target, IsItem(target)
    PROVE  LET conv == Related(method, rel, target)
           IN  /\ IsConv(conv) /\ conv.repos = repos
               /\ \A f \in Fields \ RelationFields : conv.target[f] = target[f]
               /\ method # "POST" => \A f \in RelationFields \ DOMAIN rel : conv.target[f] = target[f]
               /\ PlacesAreRight(method, target, conv)
<1>a. PICK c0 : c0 = ConvOf(TRUE, target, repos)
  OBVIOUS
<1>b. PICK c1, c2, c3 : c1 = SetAssignees(c0, rel) /\ c2 = SetLabels(c1, rel) /\ c3 = SetColumns(c2, rel)
  OBVIOUS
<1>c. PICK c4, c5 : c4 = SetIteration(c3, method, rel) /\ c5 = SetArea(c4, method, rel)
  OBVIOUS
<1>1. c5 = Related(method, rel, target)
  BY <1>a, <1>b, <1>c, Zenon DEF Related
<1>2. IsConv(c0) /\ c0.repos = repos /\ c0.target = target
  <2>1. PICK yes : yes = TRUE
    OBVIOUS
  <2>2. c0 = ConvOf(yes, target, repos)
    BY <1>a, <2>1, Zenon
  <2>3. c0.ok = yes /\ c0.target = target /\ c0.repos = repos
    BY <2>2 DEF ConvOf
  <2>4. c0 = ConvOf(c0.ok, c0.target, c0.repos)
    BY <2>2, <2>3
  <2> QED  BY <2>3, <2>4 DEF IsConv
<1>3. SetsOnly(c0, c1, "assignees") /\ ("assignees" \notin DOMAIN rel => c1 = c0) /\ IsConv(c1)
  <2>1. SetsOnly(c0, c1, "assignees") /\ ("assignees" \notin DOMAIN rel => c1 = c0)
    BY <1>2, <1>b, ListsSet
  <2> QED  BY <2>1 DEF SetsOnly
<1>4. SetsOnly(c1, c2, "labels") /\ ("labels" \notin DOMAIN rel => c2 = c1) /\ IsConv(c2)
  <2>1. SetsOnly(c1, c2, "labels") /\ ("labels" \notin DOMAIN rel => c2 = c1)
    BY <1>3, <1>b, ListsSet
  <2> QED  BY <2>1 DEF SetsOnly
<1>5. SetsOnly(c2, c3, "columns") /\ ("columns" \notin DOMAIN rel => c3 = c2) /\ IsConv(c3)
  <2>1. SetsOnly(c2, c3, "columns") /\ ("columns" \notin DOMAIN rel => c3 = c2)
    BY <1>4, <1>b, ListsSet
  <2> QED  BY <2>1 DEF SetsOnly
<1>6. SetsOnly(c3, c4, "iteration") /\ PlaceIsRight(c3, rel, method, "iteration", IterationRows, c4) /\ IsConv(c4)
  <2>1. SetsOnly(c3, c4, "iteration") /\ PlaceIsRight(c3, rel, method, "iteration", IterationRows, c4)
    BY <1>5, <1>c, PlacesSet, IterationAfter
  <2> QED  BY <2>1 DEF SetsOnly
<1>7. SetsOnly(c4, c5, "area") /\ PlaceIsRight(c4, rel, method, "area", AreaRows, c5) /\ IsConv(c5)
  <2>1. SetsOnly(c4, c5, "area") /\ PlaceIsRight(c4, rel, method, "area", AreaRows, c5)
    BY <1>6, <1>c, PlacesSet, AreaAfter
  <2> QED  BY <2>1 DEF SetsOnly
<1>8. IsConv(c5) /\ c5.repos = repos
  <2>1. c1.repos = c0.repos /\ c2.repos = c1.repos /\ c3.repos = c2.repos
    BY <1>3, <1>4, <1>5 DEF SetsOnly
  <2>2. c4.repos = c3.repos /\ c5.repos = c4.repos
    BY <1>6, <1>7 DEF SetsOnly
  <2> QED  BY <1>2, <1>7, <2>1, <2>2
<1> PICK t1, t2, t3 : t1 = c1.target /\ t2 = c2.target /\ t3 = c3.target
  OBVIOUS
<1> PICK t4, t5 : t4 = c4.target /\ t5 = c5.target
  OBVIOUS
<1>9. /\ \A g \in Fields \ {"assignees"} : t1[g] = target[g]
      /\ \A g \in Fields \ {"labels"} : t2[g] = t1[g]
      /\ \A g \in Fields \ {"columns"} : t3[g] = t2[g]
      /\ \A g \in Fields \ {"iteration"} : t4[g] = t3[g]
      /\ \A g \in Fields \ {"area"} : t5[g] = t4[g]
  <2>1. \A g \in Fields \ {"assignees"} : t1[g] = target[g]
    BY <1>2, <1>3 DEF SetsOnly
  <2>2. \A g \in Fields \ {"labels"} : t2[g] = t1[g]
    BY <1>4 DEF SetsOnly
  <2>3. \A g \in Fields \ {"columns"} : t3[g] = t2[g]
    BY <1>5 DEF SetsOnly
  <2>4. \A g \in Fields \ {"iteration"} : t4[g] = t3[g]
    BY <1>6 DEF SetsOnly
  <2>5. \A g \in Fields \ {"area"} : t5[g] = t4[g]
    BY <1>7 DEF SetsOnly
  <2> QED  BY <2>1, <2>2, <2>3, <2>4, <2>5
<1>10. \A f \in Fields \ RelationFields : c5.target[f] = target[f]
  <2>1. \A f \in Fields \ RelationFields : t5[f] = target[f]
    BY <1>9 DEF RelationFields
  <2> QED  BY <2>1
<1>11. /\ c3.target["iteration"] = target["iteration"]
       /\ c4.target["area"] = target["area"]
       /\ c5.target["iteration"] = c4.target["iteration"]
       /\ c5.target["assignees"] = c1.target["assignees"]
       /\ c5.target["labels"] = c2.target["labels"] /\ c1.target["labels"] = target["labels"]
       /\ c5.target["columns"] = c3.target["columns"] /\ c2.target["columns"] = target["columns"]
  <2>1. {"assignees", "labels", "columns", "iteration", "area"} \subseteq Fields
    BY DEF Fields
  <2>2. /\ t3["iteration"] = target["iteration"] /\ t4["area"] = target["area"]
        /\ t5["iteration"] = t4["iteration"] /\ t5["assignees"] = t1["assignees"]
        /\ t5["labels"] = t2["labels"] /\ t1["labels"] = target["labels"]
        /\ t5["columns"] = t3["columns"] /\ t2["columns"] = target["columns"]
    BY <1>9, <2>1
  <2> QED  BY <2>2
<1>12. ASSUME method # "POST", NEW f \in RelationFields \ DOMAIN rel
       PROVE  c5.target[f] = target[f]
  <2>1. CASE f = "assignees"
    BY <1>2, <1>3, <1>11, <1>12, <2>1
  <2>2. CASE f = "labels"
    BY <1>4, <1>11, <1>12, <2>2
  <2>3. CASE f = "columns"
    BY <1>5, <1>11, <1>12, <2>3
  <2>4. CASE f = "iteration"
    BY <1>6, <1>11, <1>12, <2>4 DEF PlaceIsRight
  <2>5. CASE f = "area"
    BY <1>7, <1>11, <1>12, <2>5 DEF PlaceIsRight
  <2> QED  BY <1>12, <2>1, <2>2, <2>3, <2>4, <2>5 DEF RelationFields
<1>13. PlacesAreRight(method, target, c5)
  <2>1. c5.ok => c4.ok
    BY <1>7 DEF SetsOnly
  <2> QED  BY <1>6, <1>7, <1>11, <2>1 DEF PlacesAreRight, PlaceIsRight
<1> QED  BY <1>1, <1>8, <1>10, <1>12, <1>13

\* The whole conversion: the relations, then all attributes, whatever their order.
Attributed(source, conv) == ConvAfter(conv.ok, conv.target, repos, source.attr, DOMAIN source.attr)
Checked(conv) ==
    IF conv.target.description # Null /\ conv.target.description.markup \notin Markups THEN Refused(conv) ELSE conv
ConvertedTo(method, source, target) == Checked(Attributed(source, Related(method, source.rel, target)))

\* ConvertJSONAPIToWorkItem does not depend on the order of the attributes.
LEMMA ConvertedInAnyOrder ==
    ASSUME NEW method, NEW source \in PatchSources, NEW target, IsItem(target), target.description \in Descriptions \cup {Null},
           NEW order \in Orders(source)
    PROVE  ConvertJSONAPIToWorkItem(method, source, target, order) = ConvertedTo(method, source, target)
<1> PICK start : start = Related(method, source.rel, target)
  OBVIOUS
<1>1. start = ConvOf(start.ok, start.target, repos) /\ IsItem(start.target)
  BY RelationsChange DEF IsConv
<1>2. start.target["description"] = target["description"]
  <2>1. "description" \in Fields \ RelationFields
    BY DEF Fields, RelationFields
  <2> QED  BY <2>1, RelationsChange
<1> PICK done : done = Visited(source, start, order)
  OBVIOUS
<1>3. done = Attributed(source, start)
  <2> PICK ok, old : ok = start.ok /\ old = start.target
    OBVIOUS
  <2>1. Visited(source, ConvOf(ok, old, repos), order) = ConvAfter(ok, old, repos, source.attr, DOMAIN source.attr)
    BY <1>1, <1>2, AllAttributes
  <2> QED  BY <1>1, <2>1 DEF Attributed
<1>4. ConvertJSONAPIToWorkItem(method, source, target, order) = Checked(done)
  BY DEF ConvertJSONAPIToWorkItem, Related, ConvOf, Checked, Visited
<1> QED  BY <1>3, <1>4 DEF ConvertedTo

\* What the conversion of an item comes to.
ConversionIsRight(method, source, target, conv) ==
    LET keys == DOMAIN source.attr
    IN  /\ IsItem(conv.target)
        /\ conv.repos = ReposAfter(repos, source.attr, keys)
        /\ \A f \in Fields \ (RelationFields \cup keys \cup {"description"}) : conv.target[f] = target[f]
        /\ method # "POST" =>
              \A f \in Fields \ (DOMAIN source.rel \cup keys \cup {"description"}) : conv.target[f] = target[f]
        /\ conv.target["description"] = DescriptionAfter(target["description"], source.attr, keys)
        /\ "codebase" \in keys => conv.target["codebase"] = CodebaseIn(conv.repos, source.attr.codebase)
        /\ conv.ok =>
              /\ "iteration" \notin keys => \/ conv.target["iteration"] \in IterationRows
                                            \/ method # "POST" /\ conv.target["iteration"] = target["iteration"]
              /\ conv.target["area"] \in AreaRows \/ (method # "POST" /\ conv.target["area"] = target["area"])

\* The conversion comes to that.
LEMMA ConvertedIsRight ==
    ASSUME NEW method, NEW source \in PatchSources, NEW target, IsItem(target), target.description \in Descriptions \cup {Null},
           NEW conv, conv = ConvertedTo(method, source, target)
    PROVE  ConversionIsRight(method, source, target, conv)
<1> PICK start, done : start = Related(method, source.rel, target) /\ done = Attributed(source, start)
  OBVIOUS
<1> PICK keys, attr : keys = DOMAIN source.attr /\ attr = source.attr
  OBVIOUS
<1>1. /\ IsConv(start) /\ start.repos = repos
      /\ \A f \in Fields \ RelationFields : start.target[f] = target[f]
      /\ method # "POST" => \A f \in RelationFields \ DOMAIN source.rel : start.target[f] = target[f]
      /\ PlacesAreRight(method, target, start)
  BY RelationsChange
<1>2. done = ConvOf(start.ok, ItemAfter(start.target, repos, attr, keys), ReposAfter(repos, attr, keys))
  BY DEF Attributed, ConvAfter
<1> PICK x, known : x = ItemAfter(start.target, repos, attr, keys) /\ known = ReposAfter(repos, attr, keys)
  OBVIOUS
<1>3. done.ok = start.ok /\ done.target = x /\ done.repos = known
  BY <1>2 DEF ConvOf
<1>4. IsItem(x) /\ \A f \in Fields : x[f] = FieldAfter(start.target, repos, attr, keys, f)
  BY DEF IsItem, ItemAfter
<1>5. conv.target = x /\ conv.repos = known /\ (conv.ok => start.ok)
  <2>1. IsConv(done)
    BY <1>2, <1>3, <1>4 DEF IsConv
  <2>2. conv = Refused(done) \/ conv = done
    BY DEF ConvertedTo, Checked
  <2>3. "description" \in Fields
    BY DEF Fields
  <2>4. IsConv(conv) /\ conv.repos = done.repos /\ (conv.ok => done.ok) /\ \A f \in Fields : conv.target[f] = done.target[f]
    BY <2>1, <2>2, <2>3, RefusedSetsNothing DEF SetsOnly
  <2> PICK z : z = conv.target
    OBVIOUS
  <2>5. IsItem(z) /\ \A f \in Fields : z[f] = x[f]
    BY <1>3, <2>4 DEF IsConv
  <2>6. z = x
    BY <1>4, <2>5 DEF IsItem
  <2> QED  BY <1>3, <2>4, <2>6
<1>6. keys \subseteq Attributes
  BY PatchAssumption DEF Attributes
<1>7. {"description", "codebase", "iteration", "area"} \subseteq Fields /\ "description" \notin RelationFields /\ "codebase" \notin RelationFields
  BY DEF Fields, RelationFields
<1>8. \A f \in Fields \ (keys \cup {"description"}) : x[f] = start.target[f]
  BY <1>4 DEF FieldAfter
<1>9. x["description"] = DescriptionAfter(target["description"], attr, keys)
  <2>1. x["description"] = DescriptionAfter(start.target["description"], attr, keys)
    BY <1>4, <1>7 DEF FieldAfter
  <2> QED  BY <1>1, <1>7, <2>1
<1>10. "codebase" \in keys => x["codebase"] = CodebaseIn(known, attr.codebase)
  <2>1. "codebase" \in keys => known = ReposWith(repos, attr.codebase)
    BY DEF ReposAfter
  <2> QED  BY <1>4, <1>7, <2>1 DEF FieldAfter
<1>11. "area" \notin keys
  BY <1>6 DEF Attributes
<1>12. /\ "iteration" \notin keys => x["iteration"] = start.target["iteration"]
       /\ x["area"] = start.target["area"]
  BY <1>7, <1>8, <1>11
<1>13. start.ok =>
          /\ "iteration" \notin keys => \/ x["iteration"] \in IterationRows
                                        \/ method # "POST" /\ x["iteration"] = target["iteration"]
          /\ x["area"] \in AreaRows \/ (method # "POST" /\ x["area"] = target["area"])
  BY <1>1, <1>12 DEF PlacesAreRight
<1>14. /\ \A f \in Fields \ (RelationFields \cup keys \cup {"description"}) : x[f] = target[f]
       /\ method # "POST" => \A f \in Fields \ (DOMAIN source.rel \cup keys \cup {"description"}) : x[f] = target[f]
  BY <1>1, <1>8
<1> QED  BY <1>4, <1>5, <1>9, <1>10, <1>13, <1>14 DEF ConversionIsRight

\* A repository is known once it has been looked for, at the place of its codebase.
LEMMA RepositoryIsKnown ==
    ASSUME NEW S, NEW known \in Seq(S), NEW repo
    PROVE  /\ ReposWith(known, repo) \in Seq(S \cup {repo})
           /\ ReposWith(known, repo)[CodebaseIn(ReposWith(known, repo), repo).id] = CodebaseIn(ReposWith(known, repo), repo).repo
<1> PICK all : all = ReposWith(known, repo)
  OBVIOUS
<1>1. known \in Seq(S \cup {repo})
  OBVIOUS
<1>2. all \in Seq(S \cup {repo}) /\ \E i \in DOMAIN all : all[i] = repo
  <2>1. CASE \E i \in DOMAIN known : known[i] = repo
    BY <1>1, <2>1 DEF ReposWith
  <2>2. CASE ~\E i \in DOMAIN known : known[i] = repo
    <3>1. all = Append(known, repo)
      BY <2>2 DEF ReposWith
    <3>2. Len(all) = Len(known) + 1 /\ all[Len(known) + 1] = repo /\ all \in Seq(S \cup {repo})
      BY <1>1, <3>1, AppendProperties
    <3>3. Len(known) + 1 \in DOMAIN all
      BY <1>1, <3>2, LenProperties
    <3> QED  BY <3>2, <3>3
  <2> QED  BY <2>1, <2>2
<1> DEFINE id == CHOOSE i \in DOMAIN all : all[i] = repo
<1>3. all[id] = repo
  BY <1>2
<1>4. CodebaseIn(all, repo).id = id /\ CodebaseIn(all, repo).repo = repo
  BY DEF CodebaseIn
<1> QED  BY <1>2, <1>3, <1>4

\* The item that is stored differs by its version.
LEMMA StoredWithVersion ==
    ASSUME NEW x, IsItem(x), NEW n, NEW y, y = [x EXCEPT !.version = n]
    PROVE  IsItem(y) /\ y["version"] = n /\ \A f \in Fields \ {"version"} : y[f] = x[f]
<1>1. "version" \in Fields
  BY DEF Fields
<1>2. y = [g \in Fields |-> IF g = "version" THEN n ELSE x[g]]
  BY <1>1, SetField
<1> QED  BY <1>1, <1>2 DEF IsItem

\* An item like the stored one.
ItemOK(x) == IsItem(x) /\ x.description \in Descriptions \cup {Null} /\ x.version \in Nat

\* A request that has been loaded, and has a version that is not newer than its item: if that is
\* the version that is stored, so is the item.
PatchOK(c) ==
    patch[c].pc = "loaded" =>
        /\ patch[c].source \in PatchSources
        /\ ItemOK(patch[c].target)
        /\ patch[c].version \in Nat \ {0}
        /\ patch[c].version <= patch[c].target.version
        /\ patch[c].target.version <= item.version
        /\ patch[c].target.version = item.version => patch[c].target = item

PatchInv ==
    /\ ItemOK(item)
    /\ AlwaysPlaced
    /\ \E S : repos \in Seq(S)
    /\ seen = [c \in PatchClients |-> seen[c]]
    /\ \A c \in PatchClients : seen[c] \in Nat /\ seen[c] <= item.version
    /\ patch = [c \in PatchClients |-> patch[c]]
    /\ \A c \in PatchClients : PatchOK(c)

\* The new item that is not there yet.
LEMMA NoItemOK == ItemOK(NoItem) /\ NoItem.version = 0 /\ NoItem.codebase = Null
<1>1. IsItem(NoItem)
  BY DEF IsItem, NoItem, Fields
<1>2. NoItem.version = 0 /\ NoItem.description = Null /\ NoItem.codebase = Null
  BY DEF NoItem
<1> QED  BY <1>1, <1>2 DEF ItemOK

\* A step that stores a conversion.
Stores(method, source, target, conv, n) ==
    /\ source \in PatchSources /\ ItemOK(target) /\ n \in Nat
    /\ ConversionIsRight(method, source, target, conv) /\ conv.ok
    /\ item' = [conv.target EXCEPT !.version = n] /\ repos' = conv.repos
    /\ "iteration" \in DOMAIN source.attr => raw'
    /\ \/ method = "POST" /\ target = NoItem
       \/ method # "POST" /\ target = item /\ item.version # 0 /\ (raw => raw')

\* What an item has in the database after a request.
LEMMA StoredIsRight ==
    ASSUME PatchInv, NEW method, NEW source, NEW target, NEW conv, NEW n, Stores(method, source, target, conv, n)
    PROVE  ItemOK(item)' /\ item'.version = n /\ AlwaysPlaced' /\ \E S : repos' \in Seq(S)
<1> /\ source \in PatchSources /\ ItemOK(target) /\ n \in Nat
    /\ ConversionIsRight(method, source, target, conv) /\ conv.ok
    /\ item' = [conv.target EXCEPT !.version = n] /\ repos' = conv.repos
    /\ "iteration" \in DOMAIN source.attr => raw'
    /\ \/ method = "POST" /\ target = NoItem
       \/ method # "POST" /\ target = item /\ item.version # 0 /\ (raw => raw')
  BY DEF Stores
<1> PICK x, y : x = conv.target /\ y = item'
  OBVIOUS
<1> PICK keys, attr : keys = DOMAIN source.attr /\ attr = source.attr
  OBVIOUS
<1>1. /\ IsItem(x)
      /\ conv.repos = ReposAfter(repos, attr, keys)
      /\ \A f \in Fields \ (RelationFields \cup keys \cup {"description"}) : x[f] = target[f]
      /\ x["description"] = DescriptionAfter(target["description"], attr, keys)
      /\ "codebase" \in keys => x["codebase"] = CodebaseIn(conv.repos, attr.codebase)
      /\ "iteration" \notin keys => x["iteration"] \in IterationRows \/ (method # "POST" /\ x["iteration"] = target["iteration"])
      /\ x["area"] \in AreaRows \/ (method # "POST" /\ x["area"] = target["area"])
  BY DEF ConversionIsRight
<1>2. IsItem(y) /\ y["version"] = n /\ \A f \in Fields \ {"version"} : y[f] = x[f]
  BY <1>1, StoredWithVersion
<1>3. {"description", "codebase", "iteration", "area"} \subseteq Fields \ {"version"}
  BY DEF Fields
<1>4. y["description"] = x["description"] /\ y["codebase"] = x["codebase"] /\ y["iteration"] = x["iteration"] /\ y["area"] = x["area"]
  BY <1>2, <1>3
<1>5. y["description"] \in Descriptions \cup {Null}
  <2>1. target["description"] \in Descriptions \cup {Null}
    BY DEF ItemOK
  <2> QED  BY <1>1, <1>4, <2>1, DescriptionStays
<1>6. ItemOK(item)'
  <2>1. ItemOK(y)
    BY <1>2, <1>5 DEF ItemOK
  <2> QED  BY <2>1 DEF ItemOK, IsItem, Descriptions, Fields
<1>7. PICK S : repos \in Seq(S)
  BY DEF PatchInv
<1>8. (\E T : repos' \in Seq(T)) /\ (y["codebase"] # Null => repos'[y["codebase"].id] = y["codebase"].repo)
  <2>1. CASE "codebase" \in keys
    <3> PICK repo, all : repo = attr.codebase /\ all = ReposWith(repos, repo)
      OBVIOUS
    <3>1. repos' = all /\ y["codebase"] = CodebaseIn(all, repo)
      BY <1>1, <1>4, <2>1 DEF ReposAfter
    <3>2. all \in Seq(S \cup {repo}) /\ all[CodebaseIn(all, repo).id] = CodebaseIn(all, repo).repo
      BY <1>7, RepositoryIsKnown
    <3> QED  BY <3>1, <3>2
  <2>2. CASE "codebase" \notin keys
    <3>1. repos' = repos
      BY <1>1, <2>2 DEF ReposAfter
    <3>2. "codebase" \in Fields \ (RelationFields \cup keys \cup {"description"})
      BY <2>2 DEF Fields, RelationFields
    <3>3. y["codebase"] = target["codebase"]
      BY <1>1, <1>4, <3>2
    <3>4. target["codebase"] # Null => target = item /\ item.version # 0
      BY NoItemOK
    <3>5. y["codebase"] # Null => repos[y["codebase"].id] = y["codebase"].repo
      BY <3>3, <3>4 DEF PatchInv, AlwaysPlaced
    <3> QED  BY <1>7, <3>1, <3>5
  <2> QED  BY <2>1, <2>2
<1>9. ~raw' => y["iteration"] \in IterationRows
  <2>1. ~raw' => "iteration" \notin keys
    OBVIOUS
  <2>2. ~raw' /\ method # "POST" => target["iteration"] \in IterationRows
    BY DEF PatchInv, AlwaysPlaced
  <2> QED  BY <1>1, <1>4, <2>1, <2>2
<1>10. y["area"] \in AreaRows
  <2>1. method # "POST" => target["area"] \in AreaRows
    BY DEF PatchInv, AlwaysPlaced
  <2> QED  BY <1>1, <1>4, <2>1
<1>11. AlwaysPlaced'
  BY <1>8, <1>9, <1>10 DEF AlwaysPlaced
<1> QED  BY <1>2, <1>6, <1>8, <1>11

\* Requests and the item that are left alone stay as they were.
LEMMA PatchKept ==
    ASSUME NEW c, PatchOK(c), patch'[c] = patch[c], item' = item
    PROVE  PatchOK(c)'
<1>1. PICK p, x : p = patch[c] /\ x = item
  OBVIOUS
<1>2. p.pc = "loaded" =>
          /\ p.source \in PatchSources /\ ItemOK(p.target) /\ p.version \in Nat \ {0} /\ p.version <= p.target.version
          /\ p.target.version <= x.version
          /\ p.target.version = x.version => p.target = x
  BY <1>1 DEF PatchOK
<1>3. patch'[c] = p /\ item' = x
  BY <1>1
<1> QED  BY <1>2, <1>3 DEF PatchOK, ItemOK, IsItem, Fields, Descriptions

\* A request whose version is the stored one has loaded the stored item.
LEMMA SavedFromStored ==
    ASSUME PatchInv, NEW c \in PatchClients, NEW order \in Orders(patch[c].source), SavePatch(c, order)
    PROVE  /\ patch[c].source \in PatchSources /\ patch[c].target = item /\ item.version # 0
           /\ LET conv == ConvertedTo("PATCH", patch[c].source, item)
              IN  /\ conv.ok /\ ConversionIsRight("PATCH", patch[c].source, item, conv)
                  /\ item' = [conv.target EXCEPT !.version = item.version + 1] /\ repos' = conv.repos
<1>1. patch[c].pc = "loaded" /\ patch[c].version = item.version
  BY DEF SavePatch
<1>2. /\ patch[c].source \in PatchSources /\ patch[c].version \in Nat \ {0} /\ patch[c].target.version \in Nat
      /\ patch[c].version <= patch[c].target.version /\ patch[c].target.version <= item.version
      /\ patch[c].target.version = item.version => patch[c].target = item
  BY <1>1 DEF PatchInv, PatchOK, ItemOK
<1>3. patch[c].target = item /\ item.version # 0
  BY <1>1, <1>2
<1> PICK source, conv : source = patch[c].source /\ conv = ConvertedTo("PATCH", source, item)
  OBVIOUS
<1>4. IsItem(item) /\ item.description \in Descriptions \cup {Null}
  BY DEF PatchInv, ItemOK
<1>5. conv = ConvertJSONAPIToWorkItem("PATCH", patch[c].source, patch[c].target, order)
  BY <1>2, <1>3, <1>4, ConvertedInAnyOrder
<1>6. conv.ok /\ item' = [conv.target EXCEPT !.version = item.version + 1] /\ repos' = conv.repos
  BY <1>5 DEF SavePatch
<1>7. ConversionIsRight("PATCH", source, item, conv)
  BY <1>2, <1>4, ConvertedIsRight
<1> QED  BY <1>2, <1>3, <1>6, <1>7

\* A request that stores a new version leaves nobody with a newer one.
LEMMA PatchStep == PatchInv /\ [PatchNext]_patchVars => PatchInv'
<1> SUFFICES ASSUME PatchInv, [PatchNext]_patchVars PROVE PatchInv'
  OBVIOUS
<1>a. /\ ItemOK(item) /\ item.version \in Nat
      /\ \A c \in PatchClients : seen[c] \in Nat /\ seen[c] <= item.version
      /\ \A c \in PatchClients : PatchOK(c)
      /\ seen = [c \in PatchClients |-> seen[c]] /\ patch = [c \in PatchClients |-> patch[c]]
  BY DEF PatchInv, ItemOK
<1>1. ASSUME NEW c \in PatchClients, NEW source \in PatchSources, NEW order \in Orders(source), PostItem(c, source, order)
      PROVE  PatchInv'
  <2> PICK conv : conv = ConvertedTo("POST", source, NoItem)
    OBVIOUS
  <2>1. conv = ConvertJSONAPIToWorkItem("POST", source, NoItem, order)
    BY NoItemOK, ConvertedInAnyOrder DEF ItemOK
  <2>2. /\ item.version = 0 /\ conv.ok /\ item' = [conv.target EXCEPT !.version = 1] /\ repos' = conv.repos
        /\ seen' = [seen EXCEPT ![c] = 1] /\ raw' = ("iteration" \in DOMAIN source.attr) /\ patch' = patch
    BY <1>1, <2>1 DEF PostItem
  <2>3. ConversionIsRight("POST", source, NoItem, conv)
    BY NoItemOK, ConvertedIsRight DEF ItemOK
  <2>4. ItemOK(item)' /\ item'.version = 1 /\ AlwaysPlaced' /\ \E S : repos' \in Seq(S)
    <3>1. Stores("POST", source, NoItem, conv, 1)
      BY <2>2, <2>3, NoItemOK DEF Stores
    <3> QED  BY <3>1, StoredIsRight
  <2>5. seen' = [b \in PatchClients |-> seen'[b]] /\ \A b \in PatchClients : seen'[b] \in Nat /\ seen'[b] <= item'.version
    BY <1>a, <2>2, <2>4
  <2>6. ASSUME NEW b \in PatchClients PROVE PatchOK(b)'
    <3>1. patch[b].pc # "loaded"
      <4> SUFFICES ASSUME patch[b].pc = "loaded" PROVE FALSE
        OBVIOUS
      <4>1. /\ patch[b].version \in Nat \ {0} /\ patch[b].target.version \in Nat
            /\ patch[b].version <= patch[b].target.version /\ patch[b].target.version <= item.version
        BY <1>a DEF PatchOK, ItemOK
      <4> QED  BY <2>2, <4>1
    <3> QED  BY <2>2, <3>1 DEF PatchOK
  <2> QED  BY <1>a, <2>2, <2>4, <2>5, <2>6 DEF PatchInv
<1>2. ASSUME NEW c \in PatchClients, NEW source \in PatchSources, LoadForPatch(c, source)
      PROVE  PatchInv'
  <2>a. PICK new : new = [pc |-> "loaded", source |-> source, version |-> seen[c], target |-> item]
    OBVIOUS
  <2>1. patch' = [patch EXCEPT ![c] = new] /\ seen[c] # 0 /\ UNCHANGED <<item, existing, repos, seen, raw>>
    BY <1>2, <2>a DEF LoadForPatch
  <2>2. ASSUME NEW b \in PatchClients PROVE PatchOK(b)'
    <3>1. CASE b = c
      <4>1. patch'[b] = new
        BY <1>a, <2>1, <3>1
      <4>2. new.source = source /\ new.version = seen[c] /\ new.target = item
        BY <2>a
      <4>3. seen[c] \in Nat \ {0} /\ seen[c] <= item.version /\ ItemOK(new.target)
        BY <1>a, <2>1, <4>2
      <4>4. /\ new.source \in PatchSources /\ new.version \in Nat \ {0} /\ new.version <= new.target.version
            /\ new.target.version <= item'.version /\ new.target = item'
        BY <1>a, <2>1, <4>2, <4>3
      <4> QED  BY <4>1, <4>3, <4>4 DEF PatchOK, ItemOK, IsItem, Fields, Descriptions
    <3>2. CASE b # c
      <4>1. patch'[b] = patch[b]
        BY <1>a, <2>1, <3>2
      <4> QED  BY <1>a, <2>1, <4>1, PatchKept
    <3> QED  BY <3>1, <3>2
  <2> QED  BY <1>a, <2>1, <2>2 DEF PatchInv, AlwaysPlaced, ItemOK, IsItem, Fields, Descriptions
<1>3. ASSUME NEW c \in PatchClients, ShowItem(c)
      PROVE  PatchInv'
  <2>1. seen' = [seen EXCEPT ![c] = item.version] /\ UNCHANGED <<item, existing, repos, patch, raw>>
    BY <1>3 DEF ShowItem
  <2>2. \A b \in PatchClients : seen'[b] \in Nat /\ seen'[b] <= item'.version
    BY <1>a, <2>1
  <2>3. \A b \in PatchClients : PatchOK(b)'
    BY <1>a, <2>1 DEF PatchOK, ItemOK, IsItem, Fields, Descriptions
  <2> QED  BY <1>a, <2>1, <2>2, <2>3 DEF PatchInv, AlwaysPlaced, ItemOK, IsItem, Fields, Descriptions
<1>4. ASSUME NEW c \in PatchClients, NEW order \in Orders(patch[c].source), SavePatch(c, order)
      PROVE  PatchInv'
  <2> PICK source, conv : source = patch[c].source /\ conv = ConvertedTo("PATCH", source, item)
    OBVIOUS
  <2>1. /\ source \in PatchSources /\ item.version # 0 /\ conv.ok /\ ConversionIsRight("PATCH", source, item, conv)
        /\ item' = [conv.target EXCEPT !.version = item.version + 1] /\ repos' = conv.repos
    BY <1>4, SavedFromStored
  <2>2. /\ seen' = [seen EXCEPT ![c] = item.version + 1] /\ patch' = [patch EXCEPT ![c] = NoPatch]
        /\ raw => raw'
        /\ "iteration" \in DOMAIN source.attr => raw'
    BY <1>4 DEF SavePatch
  <2>3. ItemOK(item)' /\ item'.version = item.version + 1 /\ AlwaysPlaced' /\ \E S : repos' \in Seq(S)
    <3>1. item.version + 1 \in Nat
      BY <1>a
    <3>2. Stores("PATCH", source, item, conv, item.version + 1)
      BY <1>a, <2>1, <2>2, <3>1 DEF Stores
    <3> QED  BY <3>2, StoredIsRight
  <2>4. ASSUME NEW b \in PatchClients PROVE seen'[b] \in Nat /\ seen'[b] <= item'.version
    <3>1. seen'[b] = IF b = c THEN item.version + 1 ELSE seen[b]
      BY <1>a, <2>2
    <3> QED  BY <1>a, <2>3, <3>1
  <2>5. ASSUME NEW b \in PatchClients PROVE PatchOK(b)'
    <3>1. CASE b = c
      <4>1. patch'[b] = NoPatch
        BY <1>a, <2>2, <3>1
      <4> QED  BY <4>1 DEF NoPatch, PatchOK
    <3>2. CASE b # c
      <4> PICK p, v : p = patch[b] /\ v = item.version
        OBVIOUS
      <4>1. patch'[b] = p
        BY <1>a, <2>2, <3>2
      <4>2. p.pc = "loaded" =>
                /\ p.source \in PatchSources /\ ItemOK(p.target) /\ p.version \in Nat \ {0}
                /\ p.version <= p.target.version /\ p.target.version <= v
        BY <1>a DEF PatchOK
      <4>3. p.pc = "loaded" => p.target.version \in Nat /\ p.target.version <= v + 1 /\ p.target.version # v + 1
        BY <1>a, <4>2 DEF ItemOK
      <4>4. item'.version = v + 1
        BY <2>3
      <4>5. p.pc = "loaded" =>
                /\ p.source \in PatchSources /\ ItemOK(p.target) /\ p.version \in Nat \ {0}
                /\ p.version <= p.target.version /\ p.target.version <= item'.version
                /\ p.target.version = item'.version => p.target = item'
        BY <4>2, <4>3, <4>4
      <4> QED  BY <4>1, <4>5 DEF PatchOK, ItemOK, IsItem, Fields, Descriptions
    <3> QED  BY <3>1, <3>2
  <2> QED  BY <1>a, <2>2, <2>3, <2>4, <2>5 DEF PatchInv
<1>5. ASSUME NEW c \in PatchClients, PatchFails(c)
      PROVE  PatchInv'
  <2>1. patch' = [patch EXCEPT ![c] = NoPatch] /\ UNCHANGED <<item, existing, repos, seen, raw>>
    BY <1>5 DEF PatchFails
  <2>2. ASSUME NEW b \in PatchClients PROVE PatchOK(b)'
    <3>1. CASE b = c
      <4>1. patch'[b] = NoPatch
        BY <1>a, <2>1, <3>1
      <4> QED  BY <4>1 DEF NoPatch, PatchOK
    <3>2. CASE b # c
      <4>1. patch'[b] = patch[b]
        BY <1>a, <2>1, <3>2
      <4> QED  BY <1>a, <2>1, <4>1, PatchKept
    <3> QED  BY <3>1, <3>2
  <2> QED  BY <1>a, <2>1, <2>2 DEF PatchInv, AlwaysPlaced, ItemOK, IsItem, Fields, Descriptions
<1>6. ASSUME UNCHANGED <<item, repos, seen, patch, raw>>
      PROVE  PatchInv'
  <2>1. \A b \in PatchClients : PatchOK(b)'
    BY <1>a, <1>6 DEF PatchOK, ItemOK, IsItem, Fields, Descriptions
  <2> QED  BY <1>a, <1>6, <2>1 DEF PatchInv, AlwaysPlaced, ItemOK, IsItem, Fields, Descriptions
<1>7. (\E row \in existing : DeleteRelated(row)) \/ UNCHANGED patchVars => UNCHANGED <<item, repos, seen, patch, raw>>
  BY DEF DeleteRelated, patchVars
<1> QED  BY <1>1, <1>2, <1>3, <1>4, <1>5, <1>6, <1>7 DEF PatchNext

\* So requests and the item always fit together.
LEMMA PatchInvariant == PatchSpec => []PatchInv
<1>1. PatchInit => PatchInv
  <2> SUFFICES ASSUME PatchInit PROVE PatchInv
    OBVIOUS
  <2>1. item = NoItem /\ ItemOK(item) /\ item.version = 0 /\ AlwaysPlaced
    BY NoItemOK DEF PatchInit, AlwaysPlaced
  <2>2. \E S : repos \in Seq(S)
    <3> DEFINE none == {}
    <3>1. repos \in Seq(none)
      BY DEF PatchInit
    <3> HIDE DEF none
    <3> QED  BY <3>1
  <2>3. seen = [c \in PatchClients |-> seen[c]] /\ \A c \in PatchClients : seen[c] = 0
    BY DEF PatchInit
  <2>4. patch = [c \in PatchClients |-> patch[c]] /\ \A c \in PatchClients : patch[c] = NoPatch
    BY DEF PatchInit
  <2>5. \A c \in PatchClients : PatchOK(c)
    BY <2>4 DEF PatchOK, NoPatch
  <2> QED  BY <2>1, <2>2, <2>3, <2>4, <2>5 DEF PatchInv
<1> QED  BY <1>1, PatchStep, PTL DEF PatchSpec

\* What a request changes of the stored item.
NamedChange(c) ==
    LET named == DOMAIN patch[c].source.rel \cup DOMAIN patch[c].source.attr
    IN  /\ \A f \in {"assignees", "labels", "columns", "iteration", "area", "codebase", "other"} \ named : item'[f] = item[f]
        /\ item'.description # item.description =>
            /\ named \cap {"description", "markup"} # {}
            /\ item.description # Null /\ "markup" \notin named => item'.description.markup = item.description.markup
            /\ item.description # Null /\ "description" \notin named => item'.description.content = item.description.content

\* What is saved differs from the stored item where the request says so.
LEMMA SavedAsNamed ==
    ASSUME PatchInv, NEW c \in PatchClients, NEW order \in Orders(patch[c].source), SavePatch(c, order)
    PROVE  NamedChange(c)
<1> PICK source : source = patch[c].source
  OBVIOUS
<1> PICK conv : conv = ConvertedTo("PATCH", source, item)
  OBVIOUS
<1> PICK keys, attr, rel : keys = DOMAIN source.attr /\ attr = source.attr /\ rel = source.rel
  OBVIOUS
<1> PICK x, y : x = conv.target /\ y = item'
  OBVIOUS
<1>1. source \in PatchSources /\ ConversionIsRight("PATCH", source, item, conv) /\ y = [x EXCEPT !.version = item.version + 1]
  BY SavedFromStored
<1>2. /\ IsItem(x)
      /\ \A f \in Fields \ (DOMAIN rel \cup keys \cup {"description"}) : x[f] = item[f]
      /\ x["description"] = DescriptionAfter(item["description"], attr, keys)
  BY <1>1 DEF ConversionIsRight
<1>3. \A f \in Fields \ {"version"} : y[f] = x[f]
  BY <1>1, <1>2, StoredWithVersion
<1>4. ASSUME NEW f \in {"assignees", "labels", "columns", "iteration", "area", "codebase", "other"} \ (DOMAIN rel \cup keys)
      PROVE  y[f] = item[f]
  BY <1>2, <1>3 DEF Fields
<1>5. y["description"] = DescriptionAfter(item["description"], attr, keys)
  BY <1>2, <1>3 DEF Fields
<1> PICK d, e : d = item["description"] /\ e = y["description"]
  OBVIOUS
<1>6. e # d => keys \cap {"description", "markup"} # {}
  BY <1>5 DEF DescriptionAfter
<1>7. e # d /\ d # Null /\ "markup" \notin keys => e.markup = d.markup
  BY <1>5 DEF DescriptionAfter
<1>8. e # d /\ d # Null /\ "description" \notin keys => e.content = d.content
  BY <1>5 DEF DescriptionAfter
<1> QED  BY <1>4, <1>6, <1>7, <1>8 DEF NamedChange

\* PatchesAreExact of the run: the order in which Go visits the attributes of a request does not
\* matter, items are always in their places, and a request changes what it names and nothing else,
\* for any number of clients, requests, users, labels, iterations and areas.
THEOREM PatchesAreExactAlways == PatchSpec => PatchesAreExact
<1>1. PatchInv => OrdersAgree /\ AlwaysPlaced
  <2> SUFFICES ASSUME PatchInv PROVE OrdersAgree /\ AlwaysPlaced
    OBVIOUS
  <2>1. ASSUME NEW c \in PatchClients, patch[c].pc = "loaded",
               NEW one \in Orders(patch[c].source), NEW two \in Orders(patch[c].source)
        PROVE  ConvertJSONAPIToWorkItem("PATCH", patch[c].source, patch[c].target, one) =
                  ConvertJSONAPIToWorkItem("PATCH", patch[c].source, patch[c].target, two)
    <3>1. patch[c].source \in PatchSources /\ IsItem(patch[c].target) /\ patch[c].target.description \in Descriptions \cup {Null}
      BY <2>1 DEF PatchInv, PatchOK, ItemOK
    <3> QED  BY <3>1, ConvertedInAnyOrder
  <2> QED  BY <2>1 DEF OrdersAgree, PatchInv
<1>2. PatchInv /\ [PatchNext]_patchVars =>
        [item' # item => \A c \in PatchClients : patch'[c] # patch[c] => NamedChange(c)]_patchVars
  <2> SUFFICES ASSUME PatchInv, PatchNext, item' # item, NEW c \in PatchClients, patch'[c] # patch[c]
               PROVE  NamedChange(c)
    BY DEF patchVars
  <2>1. PICK b \in PatchClients : \E order \in Orders(patch[b].source) : SavePatch(b, order)
    BY DEF PatchNext, PostItem, LoadForPatch, ShowItem, PatchFails, DeleteRelated
  <2>2. patch' = [patch EXCEPT ![b] = NoPatch] /\ patch = [a \in PatchClients |-> patch[a]]
    BY <2>1 DEF SavePatch, PatchInv
  <2>3. b = c
    BY <2>2
  <2> QED  BY <2>1, <2>3, SavedAsNamed
<1>3. PatchSpec => OnlyNamedChange
  <2>1. PatchSpec => [][item' # item => \A c \in PatchClients : patch'[c] # patch[c] => NamedChange(c)]_patchVars
    BY <1>2, PatchInvariant, PTL DEF PatchSpec
  <2> QED  BY <2>1 DEF OnlyNamedChange, NamedChange
<1> QED  BY <1>1, <1>3, PatchInvariant, PTL DEF PatchesAreExact

-------------------------------------------------------------------------------
(* Lists of work items *)

\* An item fits an expression if all tests of an alternative hold.
Fits(exp, n) == \E tests \in exp : \A test \in tests : Holds(test, n)

\* The tests of one field.
LEMMA TestsOfFields ==
    ASSUME NEW n, NEW value
    PROVE  /\ Holds(<<"iteration", value>>, n) <=> iterationOf[n] = value
           /\ Holds(<<"assignee", value>>, n) <=> ListItems[n].assignee = value
           /\ Holds(<<"state", value>>, n) <=> ListItems[n].state = value
BY DEF Holds

\* What AndGiven adds is one more condition.
LEMMA AndGivenFits ==
    ASSUME NEW exp, NEW field, NEW value, NEW n
    PROVE  Fits(AndGiven(exp, field, value), n) <=> Fits(exp, n) /\ (value = NotGiven \/ Holds(<<field, value>>, n))
<1> DEFINE test == <<field, value>>
<1>1. Fits(And(exp, test), n) <=> Fits(exp, n) /\ Holds(test, n)
  <2> HIDE DEF test
  <2>1. ASSUME Fits(And(exp, test), n) PROVE Fits(exp, n) /\ Holds(test, n)
    <3>1. PICK tests \in exp : \A one \in tests \cup {test} : Holds(one, n)
      BY <2>1 DEF Fits, And
    <3> QED  BY <3>1 DEF Fits
  <2>2. ASSUME Fits(exp, n), Holds(test, n) PROVE Fits(And(exp, test), n)
    <3>1. PICK tests \in exp : \A one \in tests : Holds(one, n)
      BY <2>2 DEF Fits
    <3>2. tests \cup {test} \in And(exp, test) /\ \A one \in tests \cup {test} : Holds(one, n)
      BY <2>2, <3>1 DEF And
    <3> QED  BY <3>2 DEF Fits
  <2> QED  BY <2>1, <2>2
<1>2. CASE value = NotGiven
  BY <1>2 DEF AndGiven
<1>3. CASE value # NotGiven
  BY <1>1, <1>3 DEF AndGiven
<1> QED  BY <1>2, <1>3

\* What WithChildren adds is an alternative.
LEMMA WithChildrenFits ==
    ASSUME NEW exp, NEW children, NEW n
    PROVE  Fits(WithChildren(exp, children), n) <=> Fits(exp, n) \/ iterationOf[n] \in children
<1> DEFINE tests == {{<<"iteration", child>>} : child \in children}
<1>1. Fits(tests, n) <=> iterationOf[n] \in children
  <2>1. ASSUME Fits(tests, n) PROVE iterationOf[n] \in children
    <3>1. PICK child \in children : \A test \in {<<"iteration", child>>} : Holds(test, n)
      BY <2>1 DEF Fits
    <3>2. Holds(<<"iteration", child>>, n)
      BY <3>1
    <3> QED  BY <3>2, TestsOfFields
  <2>2. ASSUME iterationOf[n] \in children PROVE Fits(tests, n)
    <3>1. \A test \in {<<"iteration", iterationOf[n]>>} : Holds(test, n)
      BY TestsOfFields
    <3>2. {<<"iteration", iterationOf[n]>>} \in tests
      BY <2>2
    <3> QED  BY <3>1, <3>2 DEF Fits
  <2> QED  BY <2>1, <2>2
<1>2. Fits(Or(exp, tests), n) <=> Fits(exp, n) \/ Fits(tests, n)
  <2> HIDE DEF tests
  <2> QED  BY DEF Fits, Or
<1> QED  BY <1>1, <1>2 DEF WithChildren

\* What a filter asks of the fields of an item when children were read.
FieldsAsked(filter, children, n) ==
    /\ ListItems[n].space = ListSpace
    /\ filter.state \in {NotGiven, ListItems[n].state}
    /\ \/ /\ filter.assignee \in {NotGiven, ListItems[n].assignee}
          /\ filter.iteration \in {NotGiven, iterationOf[n]}
       \/ iterationOf[n] \in children

\* The WHERE clause asks for this.
LEMMA WhereIsAsked ==
    ASSUME NEW filter, NEW children, NEW n
    PROVE  Where(ExpressionOf(filter, children), n) <=> FieldsAsked(filter, children, n)
<1> DEFINE one == AndGiven(Always, "assignee", filter.assignee)
           two == AndGiven(one, "iteration", filter.iteration)
           three == WithChildren(two, children)
<1>1. ExpressionOf(filter, children) = AndGiven(three, "state", filter.state)
  BY DEF ExpressionOf
<1>2. Fits(Always, n)
  BY DEF Fits, Always
<1>3. Fits(one, n) <=> filter.assignee \in {NotGiven, ListItems[n].assignee}
  <2>1. Fits(one, n) <=> Fits(Always, n) /\ (filter.assignee = NotGiven \/ Holds(<<"assignee", filter.assignee>>, n))
    BY AndGivenFits
  <2> QED  BY <1>2, <2>1, TestsOfFields
<1> HIDE DEF one
<1>4. Fits(two, n) <=> Fits(one, n) /\ filter.iteration \in {NotGiven, iterationOf[n]}
  BY AndGivenFits, TestsOfFields
<1> HIDE DEF two
<1>5. Fits(three, n) <=> Fits(two, n) \/ iterationOf[n] \in children
  BY WithChildrenFits
<1> HIDE DEF three
<1>6. Fits(ExpressionOf(filter, children), n) <=> Fits(three, n) /\ filter.state \in {NotGiven, ListItems[n].state}
  <2>1. Fits(ExpressionOf(filter, children), n) <=>
            Fits(three, n) /\ (filter.state = NotGiven \/ Holds(<<"state", filter.state>>, n))
    BY <1>1, AndGivenFits
  <2> QED  BY <2>1, TestsOfFields
<1>7. Where(ExpressionOf(filter, children), n) <=> Fits(ExpressionOf(filter, children), n) /\ ListItems[n].space = ListSpace
  BY DEF Where, Fits
<1> QED  BY <1>3, <1>4, <1>5, <1>6, <1>7 DEF FieldsAsked

\* A listing is a record.
Listing(at, filter, children, broken, stale, exp, page, total) ==
    [pc |-> at, filter |-> filter, children |-> children, failed |-> broken, stale |-> stale,
     exp |-> exp, page |-> page, total |-> total]

\* The children of a listing are those of its iteration unless reading them failed or the tree
\* has changed since.
ChildrenKnown(filter, children, broken, stale) ==
    /\ filter \in ListFilters
    /\ filter.iteration = NotGiven => children = {}
    /\ stale = FALSE /\ broken = FALSE /\ filter.iteration # NotGiven => children = Below(filter.iteration)
    /\ broken = TRUE => children = {}
    /\ broken \in BOOLEAN /\ stale \in BOOLEAN

\* A request that has made its expression keeps it, and the children, until it asks the database.
ListInv ==
    /\ parentLink \in [DOMAIN ListItems -> {"none", "live", "deleted"}]
    /\ \E at, filter, children, broken, stale, exp, page, total :
            /\ listing = Listing(at, filter, children, broken, stale, exp, page, total)
            /\ at = "expression" => /\ exp = ExpressionOf(filter, children)
                                    /\ ChildrenKnown(filter, children, broken, stale)

\* The rows that are found, and the total.
LEMMA FoundRows ==
    ASSUME NEW filter, NEW exp
    PROVE  LET rows == {n \in DOMAIN ListItems : Where(exp, n) /\ WithoutParent(filter, n)}
           IN  /\ IsFiniteSet(rows) /\ Cardinality(rows) \in Nat
               /\ Found(filter, exp) \in Seq(rows) /\ Len(Found(filter, exp)) = Cardinality(rows)
<1> DEFINE rows == {n \in DOMAIN ListItems : Where(exp, n) /\ WithoutParent(filter, n)}
<1>1. rows \in SUBSET DOMAIN ListItems
  OBVIOUS
<1>2. Found(filter, exp) = CHOOSE s \in SetToSeqs(rows) : \A i, j \in DOMAIN s : i < j => s[i] < s[j]
  BY DEF Found
<1> HIDE DEF rows
<1>3. IsFiniteSet(rows) /\ rows \in SUBSET Nat
  BY <1>1, ListAssumption, FS_Subset
<1>4. Found(filter, exp) \in SetToSeqs(rows)
  BY <1>2, <1>3, ArrangedNumbers
<1>5. Found(filter, exp) \in Seq(rows) /\ Len(Found(filter, exp)) = Cardinality(rows)
  BY <1>3, <1>4, SequenceOfSet
<1>6. Cardinality(rows) \in Nat
  BY <1>3, FS_CardinalityType
<1> QED  BY <1>3, <1>5, <1>6 DEF rows

\* A page is a part of what was found, and full if enough was found.
LEMMA PageOfFound ==
    ASSUME NEW rows, NEW found \in Seq(rows), NEW offset \in Nat, NEW limit \in Nat \ {0}
    PROVE  LET page == SubSeq(found, Min({offset, Len(found)}) + 1, Min({offset + limit, Len(found)}))
           IN  /\ \A k \in DOMAIN page : page[k] \in rows
               /\ offset + limit <= Len(found) => Len(page) = limit
<1> DEFINE low == Min({offset, Len(found)})
           high == Min({offset + limit, Len(found)})
           page == SubSeq(found, low + 1, high)
<1>1. Len(found) \in Nat
  OBVIOUS
<1>2. low = IF offset <= Len(found) THEN offset ELSE Len(found)
  BY <1>1 DEF Min
<1>3. high = IF offset + limit <= Len(found) THEN offset + limit ELSE Len(found)
  BY <1>1 DEF Min
<1> HIDE DEF low, high
<1>4. low \in Nat /\ high \in Nat /\ high <= Len(found)
  BY <1>1, <1>2, <1>3
<1>5. \A i \in low + 1 .. high : found[i] \in rows
  BY <1>4
<1>6. /\ page \in Seq(rows)
      /\ Len(page) = IF low + 1 <= high THEN high - (low + 1) + 1 ELSE 0
  BY <1>4, <1>5, SubSeqProperties
<1>7. \A k \in DOMAIN page : page[k] \in rows
  BY <1>6
<1>8. offset + limit <= Len(found) => Len(page) = limit
  BY <1>1, <1>2, <1>3, <1>6
<1> QED  BY <1>7, <1>8 DEF low, high

\* It always does.
LEMMA ListInvariant == ListSpec => []ListInv
<1>1. ListInit => ListInv
  <2> SUFFICES ASSUME ListInit PROVE ListInv
    OBVIOUS
  <2>1. listing = Listing("idle", NotGiven, {}, FALSE, FALSE, Always, <<>>, 0)
    BY DEF ListInit, Idle, Listing
  <2>2. parentLink \in [DOMAIN ListItems -> {"none", "live", "deleted"}]
    BY DEF ListInit
  <2>3. \E at, filter, children, broken, stale, exp, page, total :
            /\ listing = Listing(at, filter, children, broken, stale, exp, page, total)
            /\ at = "expression" => /\ exp = ExpressionOf(filter, children)
                                    /\ ChildrenKnown(filter, children, broken, stale)
    <3> WITNESS "idle", NotGiven, {}, FALSE, FALSE, Always, <<>>, 0
    <3> QED  BY <2>1
  <2> QED  BY <2>2, <2>3 DEF ListInv
<1>2. ListInv /\ [ListNext]_listVars => ListInv'
  <2> SUFFICES ASSUME ListInv, [ListNext]_listVars PROVE ListInv'
    OBVIOUS
  <2>1. PICK at, asked, children, broken, stale, exp, page, total :
            /\ listing = Listing(at, asked, children, broken, stale, exp, page, total)
            /\ at = "expression" => exp = ExpressionOf(asked, children) /\ ChildrenKnown(asked, children, broken, stale)
    BY DEF ListInv
  <2>0. parentLink' \in [DOMAIN ListItems -> {"none", "live", "deleted"}]
    BY DEF ListInv, ListNext, MakeExpression, ListItemsFromDB, ListAgain, ChangeParent, MoveItem, ChangeTree, listVars
  <2>2. ASSUME NEW filter \in ListFilters, NEW broke \in BOOLEAN, MakeExpression(filter, broke) PROVE ListInv'
    <3>1. PICK read : read = LoadChildren(filter.iteration, broke)
      OBVIOUS
    <3>2. listing' = Listing("expression", filter, read, broke, FALSE, ExpressionOf(filter, read), <<>>, 0)
      BY <2>2, <3>1 DEF MakeExpression, Listing
    <3>3. ChildrenKnown(filter, read, broke, FALSE)'
      BY <2>2, <3>1 DEF MakeExpression, LoadChildren, ChildrenKnown, Below
    <3>4. ExpressionOf(filter, read)' = ExpressionOf(filter, read)
      BY DEF ExpressionOf, WithChildren, AndGiven, And, Or, Always
    <3> QED  BY <2>0, <3>2, <3>3, <3>4 DEF ListInv, Listing
  <2>3. ASSUME ListItemsFromDB PROVE ListInv'
    <3>1. PICK newPage, newTotal : listing' = [listing EXCEPT !.pc = "answered", !.page = newPage, !.total = newTotal]
      BY <2>3 DEF ListItemsFromDB
    <3>2. listing' = Listing("answered", asked, children, broken, stale, exp, newPage, newTotal)
      BY <2>1, <3>1 DEF Listing
    <3>3. \E a, f, c, b, s, e, p, t :
            /\ listing' = Listing(a, f, c, b, s, e, p, t)
            /\ a = "expression" => (e = ExpressionOf(f, c) /\ ChildrenKnown(f, c, b, s))'
      <4> WITNESS "answered", asked, children, broken, stale, exp, newPage, newTotal
      <4> QED  BY <3>2
    <3> QED  BY <2>0, <3>3 DEF ListInv
  <2>4. ASSUME ListAgain PROVE ListInv'
    <3>1. listing' = Listing("idle", NotGiven, {}, FALSE, FALSE, Always, <<>>, 0)
      BY <2>4 DEF ListAgain, Idle, Listing
    <3>2. \E a, f, c, b, s, e, p, t :
            /\ listing' = Listing(a, f, c, b, s, e, p, t)
            /\ a = "expression" => (e = ExpressionOf(f, c) /\ ChildrenKnown(f, c, b, s))'
      <4> WITNESS "idle", NotGiven, {}, FALSE, FALSE, Always, <<>>, 0
      <4> QED  BY <3>1
    <3> QED  BY <2>0, <3>2 DEF ListInv
  <2>5. ASSUME UNCHANGED <<listing, iterationTree>> PROVE ListInv'
    <3>1. listing' = Listing(at, asked, children, broken, stale, exp, page, total)
      BY <2>1, <2>5
    <3>2. at = "expression" => (exp = ExpressionOf(asked, children) /\ ChildrenKnown(asked, children, broken, stale))'
      <4>1. ExpressionOf(asked, children)' = ExpressionOf(asked, children)
        BY DEF ExpressionOf, WithChildren, AndGiven, And, Or, Always
      <4>2. ChildrenKnown(asked, children, broken, stale)' = ChildrenKnown(asked, children, broken, stale)
        BY <2>5 DEF ChildrenKnown, Below
      <4> QED  BY <2>1, <4>1, <4>2
    <3> QED  BY <2>0, <3>1, <3>2 DEF ListInv, Listing
  <2>6. ASSUME NEW tree \in Trees, ChangeTree(tree) PROVE ListInv'
    <3>1. PICK now : now = (at = "expression") /\ now \in BOOLEAN
      OBVIOUS
    <3>2. listing' = Listing(at, asked, children, broken, now, exp, page, total)
      BY <2>1, <2>6, <3>1 DEF ChangeTree, Listing
    <3>3. at = "expression" => (exp = ExpressionOf(asked, children) /\ ChildrenKnown(asked, children, broken, now))'
      <4>1. ExpressionOf(asked, children)' = ExpressionOf(asked, children)
        BY DEF ExpressionOf, WithChildren, AndGiven, And, Or, Always
      <4>2. at = "expression" => ChildrenKnown(asked, children, broken, now)'
        BY <2>1, <3>1 DEF ChildrenKnown
      <4> QED  BY <2>1, <4>1, <4>2
    <3> QED  BY <2>0, <3>2, <3>3 DEF ListInv, Listing
  <2>7. CASE UNCHANGED listVars
    BY <2>5, <2>7 DEF listVars
  <2>8. ASSUME NEW n \in DOMAIN ListItems, ChangeParent(n) \/ \E i \in DOMAIN iterationTree : MoveItem(n, i) PROVE ListInv'
    BY <2>5, <2>8 DEF ChangeParent, MoveItem
  <2> QED  BY <2>2, <2>3, <2>4, <2>6, <2>7, <2>8 DEF ListNext
<1> QED  BY <1>1, <1>2, PTL DEF ListSpec

\* The step that answers shows a page of the rows that are asked for, and their number.
LEMMA AnsweredList ==
    ASSUME ListInv, [ListNext]_listVars, Answers
    PROVE  /\ ChildrenKnown(listing.filter, listing.children, listing.failed, listing.stale)
           /\ LET filter == listing.filter
                  rows == {n \in DOMAIN ListItems : FieldsAsked(filter, listing.children, n) /\ WithoutParent(filter, n)}
              IN  /\ \A k \in DOMAIN listing'.page : listing'.page[k] \in rows
                  /\ listing'.total = Cardinality(rows)
                  /\ filter.offset + filter.limit <= Cardinality(rows) => Len(listing'.page) = filter.limit
<1>1. PICK at, filter, children, broken, stale, exp, page, total :
          /\ listing = Listing(at, filter, children, broken, stale, exp, page, total)
          /\ at = "expression" => exp = ExpressionOf(filter, children) /\ ChildrenKnown(filter, children, broken, stale)
  BY DEF ListInv
<1>2. ListItemsFromDB
  BY DEF Answers, ListNext, MakeExpression, ListAgain, Idle, ChangeParent, MoveItem, ChangeTree, listVars, ListInv, Listing
<1>3. exp = ExpressionOf(filter, children) /\ ChildrenKnown(filter, children, broken, stale)
  BY <1>1 DEF Answers, Listing
<1>4. filter.offset \in Nat /\ filter.limit \in Nat \ {0}
  BY <1>3, ListAssumption DEF ChildrenKnown
<1> DEFINE rows == {n \in DOMAIN ListItems : FieldsAsked(filter, children, n) /\ WithoutParent(filter, n)}
           found == Found(filter, exp)
           shown == SubSeq(found, Min({filter.offset, Len(found)}) + 1, Min({filter.offset + filter.limit, Len(found)}))
<1>5. found \in Seq(rows) /\ Len(found) = Cardinality(rows)
  <2>1. rows = {n \in DOMAIN ListItems : Where(exp, n) /\ WithoutParent(filter, n)}
    BY <1>3, WhereIsAsked
  <2> HIDE DEF rows
  <2> QED  BY <2>1, FoundRows
<1>6. listing' = [listing EXCEPT !.pc = "answered", !.page = shown, !.total = TotalOf(found, shown)]
  BY <1>1, <1>2 DEF ListItemsFromDB, Listing
<1>7. listing'.page = shown /\ listing'.total = Len(found)
  <2> HIDE DEF shown, found
  <2> QED  BY <1>1, <1>6 DEF TotalOf, Listing
<1>8. /\ \A k \in DOMAIN shown : shown[k] \in rows
      /\ filter.offset + filter.limit <= Len(found) => Len(shown) = filter.limit
  <2> HIDE DEF rows, found
  <2> QED  BY <1>4, <1>5, PageOfFound
<1>9. /\ listing.filter = filter /\ listing.children = children
      /\ listing.failed = broken /\ listing.stale = stale
  BY <1>1 DEF Listing
<1> HIDE DEF shown, found
<1> QED  BY <1>3, <1>5, <1>7, <1>8, <1>9

\* What is asked for and what is meant differ by the strays and by what is missed.
LEMMA AskedAndMeant ==
    ASSUME ChildrenKnown(listing.filter, listing.children, listing.failed, listing.stale), NEW n,
           parentLink[n] \in {"none", "live", "deleted"}
    PROVE  LET asked == FieldsAsked(listing.filter, listing.children, n) /\ WithoutParent(listing.filter, n)
           IN  /\ asked => Meant(listing.filter, n) \/ Stray(n)
               /\ Meant(listing.filter, n) => asked \/ Missed(n)
<1> PICK filter, children, broken, stale :
        /\ filter = listing.filter /\ children = listing.children
        /\ broken = listing.failed /\ stale = listing.stale
  OBVIOUS
<1>1. ASSUME FieldsAsked(filter, children, n), WithoutParent(filter, n) PROVE Meant(filter, n) \/ Stray(n)
  <2>1. MeantOtherwise(filter, n)
    BY <1>1 DEF FieldsAsked, WithoutParent, MeantOtherwise
  <2>2. CASE iterationOf[n] \notin children
    BY <1>1, <2>1, <2>2 DEF FieldsAsked, Meant
  <2>3. CASE iterationOf[n] \in children /\ filter.assignee \notin {NotGiven, ListItems[n].assignee}
    BY <2>1, <2>3 DEF Stray
  <2>4. CASE iterationOf[n] \in children /\ stale = TRUE
    BY <2>1, <2>4 DEF Stray
  <2>5. CASE /\ iterationOf[n] \in children /\ filter.assignee \in {NotGiven, ListItems[n].assignee}
             /\ stale = FALSE
    BY <2>1, <2>5 DEF ChildrenKnown, Meant
  <2> QED  BY <2>2, <2>3, <2>4, <2>5 DEF ChildrenKnown
<1>2. ASSUME Meant(filter, n), ~(FieldsAsked(filter, children, n) /\ WithoutParent(filter, n)) PROVE Missed(n)
  <2>1. CASE ~WithoutParent(filter, n)
    BY <1>2, <2>1 DEF WithoutParent, Meant, MeantOtherwise, Missed
  <2>2. CASE ~FieldsAsked(filter, children, n)
    <3>1. iterationOf[n] \in Below(filter.iteration) \ children /\ filter.iteration \notin {NotGiven, iterationOf[n]}
      BY <1>2, <2>2 DEF FieldsAsked, Meant, MeantOtherwise
    <3>2. stale = TRUE \/ broken = TRUE
      BY <3>1 DEF ChildrenKnown
    <3> QED  BY <3>1, <3>2 DEF Missed
  <2> QED  BY <1>2, <2>1, <2>2
<1> QED  BY <1>1, <1>2

\* ListsAreRight of the run: a list has the items that its filters mean, all of them over its
\* pages, and their number, but for what children add or leave out, for any items, trees of
\* iterations and filters.
THEOREM ListsAreRightAlways == ListSpec => ListsAreRight
<1>1. ASSUME ListInv, [ListNext]_listVars, Answers
      PROVE  \E found \in SUBSET DOMAIN ListItems :
                LET filter == listing.filter
                IN  /\ \A n \in found : Meant(filter, n) \/ Stray(n)
                    /\ \A n \in DOMAIN ListItems \ found : Meant(filter, n) => Missed(n)
                    /\ listing'.total = Cardinality(found)
                    /\ \A k \in DOMAIN listing'.page : listing'.page[k] \in found
                    /\ filter.offset + filter.limit <= Cardinality(found) => Len(listing'.page) = filter.limit
  <2> PICK rows : rows = {n \in DOMAIN ListItems :
                             FieldsAsked(listing.filter, listing.children, n) /\ WithoutParent(listing.filter, n)}
    OBVIOUS
  <2>1. /\ \A k \in DOMAIN listing'.page : listing'.page[k] \in rows
        /\ listing'.total = Cardinality(rows)
        /\ listing.filter.offset + listing.filter.limit <= Cardinality(rows) => Len(listing'.page) = listing.filter.limit
    BY <1>1, AnsweredList
  <2>2. /\ \A n \in rows : Meant(listing.filter, n) \/ Stray(n)
        /\ \A n \in DOMAIN ListItems \ rows : Meant(listing.filter, n) => Missed(n)
    BY <1>1, AnsweredList, AskedAndMeant DEF ListInv
  <2>3. rows \in SUBSET DOMAIN ListItems
    OBVIOUS
  <2> QED  BY <2>1, <2>2, <2>3
<1>2. ASSUME ListInv, [ListNext]_listVars, Answers
      PROVE  \A k \in DOMAIN listing'.page : Meant(listing.filter, listing'.page[k]) \/ Stray(listing'.page[k])
  BY <1>1, <1>2
<1>3. ListSpec => ListedAreWanted
  <2>1. ListInv /\ [ListNext]_listVars =>
          [Answers => \A k \in DOMAIN listing'.page :
                         Meant(listing.filter, listing'.page[k]) \/ Stray(listing'.page[k])]_listVars
    BY <1>2
  <2> QED  BY <2>1, ListInvariant, PTL DEF ListSpec, ListedAreWanted
<1>4. ListSpec => TotalIsComplete
  <2>1. ListInv /\ [ListNext]_listVars =>
          [Answers => \E found \in SUBSET DOMAIN ListItems :
            LET filter == listing.filter
            IN  /\ \A n \in found : Meant(filter, n) \/ Stray(n)
                /\ \A n \in DOMAIN ListItems \ found : Meant(filter, n) => Missed(n)
                /\ listing'.total = Cardinality(found)
                /\ \A k \in DOMAIN listing'.page : listing'.page[k] \in found
                /\ filter.offset + filter.limit <= Cardinality(found) => Len(listing'.page) = filter.limit]_listVars
    BY <1>1
  <2> QED  BY <2>1, ListInvariant, PTL DEF ListSpec, TotalIsComplete
<1> QED  BY <1>3, <1>4, PTL DEF ListsAreRight

-------------------------------------------------------------------------------
(* Work items as CSV *)

Unique(key) == \A other \in Keys \ {key} : LabelOf(other) # LabelOf(key)

\* The place of a field's column.
PlaceOf(key) == CHOOSE i \in DOMAIN SortedLabels : SortedLabels[i] = key

CellIsRight(line, key) ==
    line.cells[PlaceOf(key)] =
        IF key \in DOMAIN CsvItems[line.item].values THEN CsvItems[line.item].values[key] ELSE NoCell

\* What LinesAreRight says of one line.
LineIsRight(line) ==
    /\ \A key \in Keys : Unique(key) => CellIsRight(line, key)
    /\ line.parents \subseteq {CsvItems[line.item].parent}
    /\ \A c \in line.children : c \in DOMAIN CsvItems /\ CsvItems[c].parent = line.item

\* An export with these parts.
ExportOf(at, offset, size, items, links, keyOf) ==
    [pc |-> at, offset |-> offset, size |-> size, items |-> items, links |-> links, keyOf |-> keyOf]

\* Links of the window join items with their parents, the columns are those of some order of
\* the fields, and the window is not smaller than what is left of it.
ExportIsRight(at, offset, size, items, links, keyOf) ==
    /\ offset \in Nat /\ size \in Nat
    /\ items \in Seq(DOMAIN CsvItems) /\ Len(items) <= size
    /\ links \subseteq {<<CsvItems[n].parent, n>> : n \in DOMAIN CsvItems}
    /\ at = "convert" => \E order \in ColumnOrders : keyOf = SortedKeys(order)

\* The cache has every item under its own number.
CsvInv ==
    /\ live \subseteq DOMAIN CsvItems
    /\ \E at, offset, size, items, links, keyOf :
        export = ExportOf(at, offset, size, items, links, keyOf) /\ ExportIsRight(at, offset, size, items, links, keyOf)
    /\ \A id \in DOMAIN idNumberMap : idNumberMap[id] = id
    /\ \E S : csvLines \in Seq(S) /\ \A line \in S : LineIsRight(line)

\* Every field has a label.
LEMMA Labelled ==
    ASSUME NEW key \in Keys
    PROVE  LabelOf(key) \in Nat
<1> DEFINE T == {t \in DOMAIN CsvTypes : key \in DOMAIN CsvTypes[t]}
<1>1. T \in SUBSET Nat /\ T # {}
  BY CsvAssumption DEF Keys
<1>2. PICK t \in T : \A s \in T : t <= s
  <2> HIDE DEF T
  <2> QED  BY <1>1, SmallestElement
<1>3. \A s \in 1..(t - 1) : key \notin DOMAIN CsvTypes[s]
  <2> TAKE s \in 1..(t - 1)
  <2>1. s \in DOMAIN CsvTypes /\ ~(t <= s)
    BY CsvAssumption
  <2> QED  BY <1>2, <2>1
<1>4. MetIn(key) \in DOMAIN CsvTypes /\ key \in DOMAIN CsvTypes[MetIn(key)]
  BY <1>3 DEF MetIn
<1> QED  BY <1>4, CsvAssumption DEF LabelOf

\* There are finitely many fields.
LEMMA FiniteKeys == IsFiniteSet(Keys)
<1> DEFINE D == {DOMAIN CsvTypes[t] : t \in DOMAIN CsvTypes}
<1>1. IsFiniteSet(DOMAIN CsvTypes)
  BY CsvAssumption, FS_Interval
<1>2. IsFiniteSet(D)
  <2> DEFINE f == [t \in DOMAIN CsvTypes |-> DOMAIN CsvTypes[t]]
  <2>1. f \in Surjection(DOMAIN CsvTypes, D)
    BY DEF Surjection
  <2> QED  BY <1>1, <2>1, FS_Surjection
<1> QED  BY <1>2, CsvAssumption, FS_UNION DEF Keys

\* The columns can be sorted by their labels: fields with one label stand in any order.
LEMMA SortedColumns == SortedLabels \in SetToSeqs(Keys)
<1>1. PICK one \in SetToSeqs(Keys) : TRUE
  <2>1. PICK f : f \in Bijection(1..Cardinality(Keys), Keys)
    BY FiniteKeys, FS_CardinalityType DEF ExistsBijection
  <2>2. f \in SetToSeqs(Keys)
    BY <2>1 DEF Bijection, Injection, IsInjective, SetToSeqs
  <2> QED  BY <2>2
<1>2. /\ DOMAIN one \in SUBSET Nat
      /\ \A key \in Keys : \E i \in DOMAIN one : one[i] = key
  BY FiniteKeys, SequenceOfSet
<1> DEFINE at(key) == CHOOSE i \in DOMAIN one : one[i] = key
<1>3. \A key \in Keys : at(key) \in Nat /\ one[at(key)] = key
  BY <1>2
<1> HIDE DEF at
<1> DEFINE Before(a, b) == LabelOf(a) < LabelOf(b) \/ (LabelOf(a) = LabelOf(b) /\ at(a) < at(b))
           R == {p \in Keys \X Keys : Before(p[1], p[2])}
<1>4. \A a, b \in Keys : <<a, b>> \in R <=> Before(a, b)
  OBVIOUS
<1> HIDE DEF R
<1>5. \A a \in Keys : <<a, a>> \notin R
  BY <1>3, <1>4, Labelled
<1>6. \A a, b \in Keys : a # b => <<a, b>> \in R \/ <<b, a>> \in R
  <2> TAKE a, b \in Keys
  <2> HAVE a # b
  <2>1. at(a) # at(b) /\ at(a) \in Nat /\ at(b) \in Nat /\ LabelOf(a) \in Nat /\ LabelOf(b) \in Nat
    BY <1>3, Labelled
  <2>2. Before(a, b) \/ Before(b, a)
    BY <2>1
  <2> QED  BY <1>4, <2>2
<1>7. \A a, b, c \in Keys : <<a, b>> \in R /\ <<b, c>> \in R => <<a, c>> \in R
  <2> TAKE a, b, c \in Keys
  <2>1. /\ at(a) \in Nat /\ at(b) \in Nat /\ at(c) \in Nat
        /\ LabelOf(a) \in Nat /\ LabelOf(b) \in Nat /\ LabelOf(c) \in Nat
    BY <1>3, Labelled
  <2>2. Before(a, b) /\ Before(b, c) => Before(a, c)
    BY <2>1
  <2> QED  BY <1>4, <2>2
<1>8. PICK s \in SetToSeqs(Keys) : \A i, j \in DOMAIN s : i < j => <<s[i], s[j]>> \in R
  BY <1>5, <1>6, <1>7, FiniteKeys, Arranged
<1>9. \A i, j \in DOMAIN s : i < j => LabelOf(s[i]) <= LabelOf(s[j])
  <2> TAKE i, j \in DOMAIN s
  <2> HAVE i < j
  <2>1. s[i] \in Keys /\ s[j] \in Keys
    BY DEF SetToSeqs
  <2>2. Before(s[i], s[j])
    BY <1>4, <1>8, <2>1
  <2> QED  BY <2>1, <2>2, Labelled
<1> QED  BY <1>9 DEF SortedLabels

\* Whatever the order in which the fields were met, the column of a label that only one field
\* has shows this field.
LEMMA ColumnOfUnique ==
    ASSUME NEW key \in Keys, Unique(key), NEW order \in ColumnOrders
    PROVE  PlaceOf(key) \in DOMAIN SortedKeys(order) /\ SortedKeys(order)[PlaceOf(key)] = key
<1> DEFINE i == PlaceOf(key)
           first(j) == /\ LabelOf(order[j]) = LabelOf(SortedLabels[i])
                       /\ \A h \in 1..(j - 1) : LabelOf(order[h]) # LabelOf(SortedLabels[i])
<1>1. i \in DOMAIN SortedLabels /\ SortedLabels[i] = key
  <2>1. \E j \in DOMAIN SortedLabels : SortedLabels[j] = key
    BY FiniteKeys, SortedColumns, SequenceOfSet
  <2> QED  BY <2>1 DEF PlaceOf
<1> HIDE DEF i
<1>2. order \in SetToSeqs(Keys)
  BY DEF ColumnOrders
<1>3. DOMAIN order = 1..Cardinality(Keys) /\ Cardinality(Keys) \in Nat
  BY <1>2, FiniteKeys, SequenceOfSet, FS_CardinalityType
<1>4. \A j \in DOMAIN order : order[j] \in Keys
  BY <1>2, <1>3 DEF SetToSeqs
<1>5. \A j, h \in DOMAIN order : j # h => order[j] # order[h]
  BY <1>2, <1>3 DEF SetToSeqs
<1>6. PICK j \in DOMAIN order : order[j] = key
  BY <1>2, FiniteKeys, SequenceOfSet
<1>7. \A h \in DOMAIN order : LabelOf(order[h]) = LabelOf(key) => h = j
  BY <1>4, <1>5, <1>6 DEF Unique
<1>8. first(j)
  <2>1. \A h \in 1..(j - 1) : h \in DOMAIN order /\ h # j
    BY <1>3
  <2> QED  BY <1>1, <1>6, <1>7, <2>1
<1>9. \A h \in DOMAIN order : first(h) => h = j
  BY <1>1, <1>7
<1>10. SortedKeys(order)[i] = order[CHOOSE h \in DOMAIN order : first(h)] /\ i \in DOMAIN SortedKeys(order)
  BY <1>1 DEF SortedKeys
<1> HIDE DEF first
<1>11. (CHOOSE h \in DOMAIN order : first(h)) = j
  BY <1>8, <1>9
<1> QED  BY <1>6, <1>10, <1>11 DEF i

\* The cache gives every item its own number.
LEMMA CacheIsRight ==
    ASSUME NEW cache, \A id \in DOMAIN cache : cache[id] = id, NEW n, NEW ids
    PROVE  /\ \A id : NumberIn(cache, id) = id
           /\ \A id \in DOMAIN Remember(cache, n, ids) : Remember(cache, n, ids)[id] = id
BY DEF NumberIn, Remember

\* A line that is made from the items, the links of the window and the cache is right.
LEMMA NewLineIsRight ==
    ASSUME CsvInv, export.pc = "convert", NEW n \in DOMAIN CsvItems, NEW line,
           line = [item     |-> n,
                   window   |-> export.offset,
                   cells    |-> [i \in DOMAIN export.keyOf |-> IF export.keyOf[i] \in DOMAIN CsvItems[n].values
                                                               THEN CsvItems[n].values[export.keyOf[i]] ELSE NoCell],
                   parents  |-> {NumberIn(Remember(idNumberMap, n, {}), p) : p \in ParentsOf(n)},
                   children |-> {NumberIn(Remember(idNumberMap, n, {}), c) : c \in ChildrenOf(n)}]
    PROVE  LineIsRight(line)
<1> PICK at, offset, size, items, links, keyOf :
        export = ExportOf(at, offset, size, items, links, keyOf) /\ ExportIsRight(at, offset, size, items, links, keyOf)
  BY DEF CsvInv
<1>1. PICK order \in ColumnOrders : export.keyOf = SortedKeys(order)
  BY DEF ExportOf, ExportIsRight
<1>2. ASSUME NEW key \in Keys, Unique(key)
      PROVE  CellIsRight(line, key)
  <2>1. PlaceOf(key) \in DOMAIN export.keyOf /\ export.keyOf[PlaceOf(key)] = key
    BY <1>1, <1>2, ColumnOfUnique
  <2>2. line.item = n /\ line.cells[PlaceOf(key)] = IF key \in DOMAIN CsvItems[n].values THEN CsvItems[n].values[key] ELSE NoCell
    BY <2>1
  <2> QED  BY <2>2 DEF CellIsRight
<1>3. export.links \subseteq {<<CsvItems[m].parent, m>> : m \in DOMAIN CsvItems}
  BY DEF ExportOf, ExportIsRight
<1>4. /\ ParentsOf(n) \subseteq {CsvItems[n].parent}
      /\ \A c \in ChildrenOf(n) : c \in DOMAIN CsvItems /\ CsvItems[c].parent = n
  BY <1>3 DEF ParentsOf, ChildrenOf
<1>5. \A id : NumberIn(Remember(idNumberMap, n, {}), id) = id
  <2>1. \A id \in DOMAIN idNumberMap : idNumberMap[id] = id
    BY DEF CsvInv
  <2>2. \A id \in DOMAIN Remember(idNumberMap, n, {}) : Remember(idNumberMap, n, {})[id] = id
    BY <2>1, CacheIsRight
  <2> QED  BY <2>2 DEF NumberIn
<1>6. line.parents = ParentsOf(n) /\ line.children = ChildrenOf(n) /\ line.item = n
  BY <1>5
<1> QED  BY <1>2, <1>4, <1>6 DEF LineIsRight

\* The lines so far and one more are right.
LEMMA OneMoreLine ==
    ASSUME NEW S, NEW before \in Seq(S), \A line \in S : LineIsRight(line), NEW new, LineIsRight(new)
    PROVE  \E T : Append(before, new) \in Seq(T) /\ \A line \in T : LineIsRight(line)
<1> DEFINE T == S \cup {new}
<1>1. before \in Seq(T)
  OBVIOUS
<1>2. Append(before, new) \in Seq(T)
  BY <1>1, AppendProperties
<1>3. \A line \in T : LineIsRight(line)
  OBVIOUS
<1> HIDE DEF T
<1> QED  BY <1>2, <1>3

\* The smaller one of two numbers.
LEMMA MinOfTwo ==
    ASSUME NEW a \in Nat, NEW b \in Nat
    PROVE  Min({a, b}) = IF a <= b THEN a ELSE b
BY DEF Min

\* Every step of an export, and every deletion meanwhile, keeps that.
LEMMA CsvStep == CsvInv /\ [CsvNext]_csvVars => CsvInv'
<1> SUFFICES ASSUME CsvInv, [CsvNext]_csvVars PROVE CsvInv'
  OBVIOUS
<1> USE DEF ExportOf
<1>1. PICK at, offset, size, items, links, keyOf :
          export = ExportOf(at, offset, size, items, links, keyOf) /\ ExportIsRight(at, offset, size, items, links, keyOf)
  BY DEF CsvInv
<1>2. PICK S : csvLines \in Seq(S) /\ \A line \in S : LineIsRight(line)
  BY DEF CsvInv
<1>3. live \subseteq DOMAIN CsvItems /\ \A id \in DOMAIN idNumberMap : idNumberMap[id] = id
  BY DEF CsvInv
<1>4. ASSUME NEW at2, NEW offset2, NEW size2, NEW items2, NEW links2, NEW keyOf2,
             export' = ExportOf(at2, offset2, size2, items2, links2, keyOf2),
             ExportIsRight(at2, offset2, size2, items2, links2, keyOf2),
             live' \subseteq DOMAIN CsvItems, \A id \in DOMAIN idNumberMap' : idNumberMap'[id] = id,
             NEW T, csvLines' \in Seq(T), \A line \in T : LineIsRight(line)
      PROVE  CsvInv'
  BY <1>4, Zenon DEF CsvInv
<1>5. CASE QueryWindow
  <2> DEFINE high == Min({Len(LiveInOrder), offset + CsvWindow})
             window == SubSeq(LiveInOrder, offset + 1, high)
             joined == LinksOf(ToSet(window), {<<CsvItems[n].parent, n>> : n \in {m \in live : CsvItems[m].parent \in live}})
  <2>1. PICK order \in ColumnOrders :
            export' = [export EXCEPT !.pc = "convert", !.items = window, !.size = Len(window), !.links = joined,
                                     !.keyOf = SortedKeys(order)]
    BY <1>1, <1>5 DEF QueryWindow
  <2>2. export' = ExportOf("convert", offset, Len(window), window, joined, SortedKeys(order))
    <3> HIDE DEF window, joined
    <3> QED  BY <1>1, <2>1
  <2>3. LiveInOrder \in Seq(live) /\ Len(LiveInOrder) \in Nat
    <3>1. IsFiniteSet(live) /\ live \in SUBSET Nat
      <4>1. live \in SUBSET (1..Len(CsvItems)) /\ Len(CsvItems) \in Nat
        BY <1>3, CsvAssumption
      <4>2. IsFiniteSet(1..Len(CsvItems))
        BY <4>1, FS_Interval
      <4>3. IsFiniteSet(live)
        BY <4>1, <4>2, FS_Subset
      <4> QED  BY <4>1, <4>3
    <3>2. LiveInOrder \in SetToSeqs(live)
      BY <3>1, ArrangedNumbers DEF LiveInOrder
    <3> QED  BY <3>1, <3>2, SequenceOfSet
  <2>4. high \in Nat /\ high <= Len(LiveInOrder) /\ offset \in Nat
    <3>1. offset \in Nat /\ offset + CsvWindow \in Nat
      BY <1>1, CsvAssumption DEF ExportIsRight
    <3> QED  BY <2>3, <3>1, MinOfTwo
  <2>5. window \in Seq(DOMAIN CsvItems) /\ Len(window) \in Nat
    <3> HIDE DEF high
    <3>1. \A i \in offset + 1 .. high : LiveInOrder[i] \in DOMAIN CsvItems
      BY <1>3, <2>3, <2>4
    <3>2. window \in Seq(DOMAIN CsvItems)
      BY <2>4, <3>1, SubSeqProperties
    <3> HIDE DEF window
    <3> QED  BY <3>2
  <2>6. joined \subseteq {<<CsvItems[n].parent, n>> : n \in DOMAIN CsvItems}
    BY <1>3 DEF LinksOf
  <2>7. ExportIsRight("convert", offset, Len(window), window, joined, SortedKeys(order))
    <3> HIDE DEF window, joined
    <3> QED  BY <2>4, <2>5, <2>6 DEF ExportIsRight
  <2>8. UNCHANGED <<live, idNumberMap, csvLines>>
    BY <1>5 DEF QueryWindow
  <2> HIDE DEF window, joined
  <2> QED  BY <1>2, <1>3, <1>4, <2>2, <2>7, <2>8
<1>6. CASE ConvertLine
  <2> DEFINE n == Head(items)
  <2>1. items # <<>> /\ items \in Seq(DOMAIN CsvItems) /\ at = "convert"
    BY <1>1, <1>6 DEF ConvertLine, ExportIsRight
  <2>2. n \in DOMAIN CsvItems /\ Tail(items) \in Seq(DOMAIN CsvItems) /\ Len(Tail(items)) = Len(items) - 1
    BY <2>1, HeadTailProperties
  <2>3. PICK line :
            /\ csvLines' = Append(csvLines, line)
            /\ line = [item     |-> n,
                       window   |-> export.offset,
                       cells    |-> [i \in DOMAIN export.keyOf |-> IF export.keyOf[i] \in DOMAIN CsvItems[n].values
                                                                   THEN CsvItems[n].values[export.keyOf[i]] ELSE NoCell],
                       parents  |-> {NumberIn(Remember(idNumberMap, n, {}), p) : p \in ParentsOf(n)},
                       children |-> {NumberIn(Remember(idNumberMap, n, {}), c) : c \in ChildrenOf(n)}]
    BY <1>1, <1>6 DEF ConvertLine
  <2>4. idNumberMap' = Remember(idNumberMap, n, ParentsOf(n) \cup ChildrenOf(n)) /\ UNCHANGED live
    BY <1>1, <1>6 DEF ConvertLine
  <2>5. export' = ExportOf(at, offset, size, Tail(items), links, keyOf)
    BY <1>1, <1>6 DEF ConvertLine
  <2> HIDE DEF n
  <2>6. LineIsRight(line)
    BY <1>1, <2>1, <2>2, <2>3, NewLineIsRight
  <2>7. PICK T : csvLines' \in Seq(T) /\ \A other \in T : LineIsRight(other)
    <3>1. \E T : Append(csvLines, line) \in Seq(T) /\ \A other \in T : LineIsRight(other)
      BY <1>2, <2>6, OneMoreLine
    <3> QED  BY <2>3, <3>1
  <2>8. \A id \in DOMAIN idNumberMap' : idNumberMap'[id] = id
    BY <1>3, <2>4, CacheIsRight
  <2>9. ExportIsRight(at, offset, size, Tail(items), links, keyOf)
    BY <1>1, <2>1, <2>2 DEF ExportIsRight
  <2> QED  BY <1>3, <1>4, <2>4, <2>5, <2>7, <2>8, <2>9
<1>7. CASE ConvertFails
  <2>1. export' = ExportOf("failed", offset, size, <<>>, links, keyOf) /\ UNCHANGED <<live, idNumberMap>>
    BY <1>1, <1>7 DEF ConvertFails
  <2>2. csvLines' = SubSeq(csvLines, 1, Len(csvLines) - (size - Len(items)))
    BY <1>1, <1>7 DEF ConvertFails
  <2>3. Len(csvLines) - (size - Len(items)) \in Int /\ Len(csvLines) - (size - Len(items)) <= Len(csvLines)
    BY <1>1, <1>2 DEF ExportIsRight
  <2>4. csvLines' \in Seq(S)
    BY <1>2, <2>2, <2>3, SubSeqProperties
  <2>5. ExportIsRight("failed", offset, size, <<>>, links, keyOf)
    BY <1>1 DEF ExportIsRight
  <2> QED  BY <1>2, <1>3, <1>4, <2>1, <2>4, <2>5
<1>8. CASE WindowDone
  <2>1. PICK at2, offset2 :
            /\ export' = ExportOf(at2, offset2, size, items, links, keyOf)
            /\ at2 \in {"done", "query"} /\ offset2 \in {CsvWindow, offset + size}
    <3>1. PICK at2, offset2 : /\ export' = [export EXCEPT !.pc = at2, !.offset = offset2]
                              /\ at2 = IF size < (IF offset = 0 THEN 1 ELSE CsvWindow) THEN "done" ELSE "query"
                              /\ offset2 = IF offset = 0 THEN CsvWindow ELSE offset + size
      BY <1>1, <1>8 DEF WindowDone
    <3> QED  BY <1>1, <3>1
  <2>2. ExportIsRight(at2, offset2, size, items, links, keyOf)
    BY <1>1, <2>1, CsvAssumption DEF ExportIsRight
  <2>3. UNCHANGED <<live, idNumberMap, csvLines>>
    BY <1>8 DEF WindowDone
  <2> QED  BY <1>2, <1>3, <1>4, <2>1, <2>2, <2>3
<1>9. ASSUME NEW n \in DOMAIN CsvItems, DeleteCsvItem(n) PROVE CsvInv'
  BY <1>1, <1>2, <1>3, <1>4, <1>9 DEF DeleteCsvItem
<1>10. CASE UNCHANGED csvVars
  BY <1>1, <1>2, <1>3, <1>4, <1>10 DEF csvVars
<1> QED  BY <1>5, <1>6, <1>7, <1>8, <1>9, <1>10 DEF CsvNext

\* An item of the window that was read last, with or without a line yet.
InWindow(n) ==
    \/ \E k \in DOMAIN export.items : export.items[k] = n
    \/ \E k \in DOMAIN csvLines : csvLines[k].window = export.offset /\ csvLines[k].item = n

HasParent(parents, n) == CsvItems[n].parent \in live => CsvItems[n].parent \in parents
HasChildren(children, n) == \A c \in live : CsvItems[c].parent = n => c \in children

\* A line has the parent of its item, and all children or, if none is in its window, none.
LineIsComplete(line) ==
    /\ HasParent(line.parents, line.item)
    /\ \/ HasChildren(line.children, line.item)
       \/ /\ line.children = {}
          /\ \A j \in DOMAIN csvLines : csvLines[j].window = line.window => CsvItems[csvLines[j].item].parent # line.item

\* The links of a window were read with its items: what is not deleted now was there.  They do
\* not change until all items of the window have lines.  And windows get further.
WindowIsRight ==
    /\ \A n : InWindow(n) =>
            /\ HasParent(ParentsOf(n), n)
            /\ \/ HasChildren(ChildrenOf(n), n)
               \/ ChildrenOf(n) = {} /\ \A c : InWindow(c) => CsvItems[c].parent # n
    /\ \A k \in DOMAIN csvLines :
        /\ csvLines[k].window <= export.offset
        /\ csvLines[k].window = export.offset => csvLines[k].children = ChildrenOf(csvLines[k].item)

CompleteInv ==
    /\ \A k \in DOMAIN csvLines :
        /\ csvLines[k].window \in Nat /\ LineIsComplete(csvLines[k])
        /\ export.pc = "query" => csvLines[k].window < export.offset
    /\ export.pc = "convert" => WindowIsRight

\* The links that were read join the items of the window with all of their parents, and those that
\* have a child in the window with all of their children.
LEMMA LinksOfWindow ==
    ASSUME live \subseteq DOMAIN CsvItems, NEW window, window \subseteq live, NEW n \in window,
           NEW joined, joined = {<<CsvItems[m].parent, m>> : m \in {m \in live : CsvItems[m].parent \in live}}
    PROVE  LET links == LinksOf(window, joined)
               children == {link[2] : link \in {l \in links : l[1] = n}}
           IN  /\ HasParent({link[1] : link \in {l \in links : l[2] = n}}, n)
               /\ \/ HasChildren(children, n)
                  \/ children = {} /\ \A c \in window : CsvItems[c].parent # n
<1> DEFINE links == LinksOf(window, joined)
           children == {link[2] : link \in {l \in links : l[1] = n}}
<1>1. \A p, c : <<p, c>> \in joined <=> c \in live /\ p \in live /\ CsvItems[c].parent = p
  OBVIOUS
<1>2. \A p, c : <<p, c>> \in links <=>
            <<p, c>> \in joined /\ (c \in window \/ (p \in window /\ \E m \in window : <<p, m>> \in joined))
  BY DEF LinksOf
<1>3. HasParent({link[1] : link \in {l \in links : l[2] = n}}, n)
  <2> SUFFICES ASSUME CsvItems[n].parent \in live
               PROVE  \E link \in {l \in links : l[2] = n} : link[1] = CsvItems[n].parent
    BY DEF HasParent
  <2>1. <<CsvItems[n].parent, n>> \in links
    BY <1>1, <1>2
  <2> HIDE DEF links
  <2> QED  BY <2>1
<1>4. CASE \E m \in window : CsvItems[m].parent = n
  <2>1. \A c \in live : CsvItems[c].parent = n => <<n, c>> \in links
    BY <1>1, <1>2, <1>4
  <2>2. HasChildren(children, n)
    <3> SUFFICES ASSUME NEW c \in live, CsvItems[c].parent = n
                 PROVE  \E link \in {l \in links : l[1] = n} : link[2] = c
      BY DEF HasChildren
    <3>1. <<n, c>> \in links
      BY <2>1
    <3> HIDE DEF links
    <3> QED  BY <3>1
  <2> QED  BY <1>3, <2>2
<1>5. CASE \A m \in window : CsvItems[m].parent # n
  <2>1. \A c : <<n, c>> \notin links
    BY <1>1, <1>2, <1>5
  <2>2. \A link \in links : link = <<link[1], link[2]>>
    BY DEF LinksOf
  <2>3. children = {}
    <3> HIDE DEF links
    <3> QED  BY <2>1, <2>2
  <2> QED  BY <1>3, <1>5, <2>3
<1> QED  BY <1>4, <1>5

\* What is read for a new window fits its items.
LEMMA CompleteQuery == CsvInv /\ CompleteInv /\ QueryWindow => CompleteInv'
<1> SUFFICES ASSUME CsvInv, CompleteInv, QueryWindow PROVE CompleteInv'
  OBVIOUS
<1>1. PICK at, offset, size, items, links, keyOf :
          export = ExportOf(at, offset, size, items, links, keyOf) /\ ExportIsRight(at, offset, size, items, links, keyOf)
  BY DEF CsvInv
<1>2. live \subseteq DOMAIN CsvItems
  BY DEF CsvInv
<1>3. PICK high : high = Min({Len(LiveInOrder), offset + CsvWindow})
  OBVIOUS
<1>4. PICK window : window = SubSeq(LiveInOrder, offset + 1, high)
  OBVIOUS
<1>5. PICK joined : joined = {<<CsvItems[n].parent, n>> : n \in {m \in live : CsvItems[m].parent \in live}}
  OBVIOUS
<1>6. PICK order : export' = [export EXCEPT !.pc = "convert", !.items = window, !.size = Len(window),
                                            !.links = LinksOf(ToSet(window), joined), !.keyOf = SortedKeys(order)]
  BY <1>1, <1>3, <1>4, <1>5 DEF QueryWindow, ExportOf
<1>7. /\ export'.pc = "convert" /\ export'.items = window /\ export'.links = LinksOf(ToSet(window), joined)
      /\ export'.offset = offset /\ UNCHANGED <<live, csvLines>> /\ export.pc = "query" /\ export.offset = offset
  BY <1>1, <1>6 DEF QueryWindow, ExportOf
<1>8. LiveInOrder \in Seq(live) /\ Len(LiveInOrder) \in Nat
  <2>1. live \in SUBSET (1..Len(CsvItems)) /\ Len(CsvItems) \in Nat
    BY <1>2, CsvAssumption
  <2>2. IsFiniteSet(1..Len(CsvItems))
    BY <2>1, FS_Interval
  <2>3. IsFiniteSet(live)
    BY <2>1, <2>2, FS_Subset
  <2>4. LiveInOrder \in SetToSeqs(live)
    BY <2>1, <2>3, ArrangedNumbers DEF LiveInOrder
  <2> QED  BY <2>3, <2>4, SequenceOfSet
<1>9. high \in Nat /\ high <= Len(LiveInOrder) /\ offset \in Nat
  <2>1. offset \in Nat /\ offset + CsvWindow \in Nat
    BY <1>1, CsvAssumption DEF ExportIsRight
  <2> QED  BY <1>3, <1>8, <2>1, MinOfTwo
<1>10. window \in Seq(live)
  <2>1. \A i \in offset + 1 .. high : LiveInOrder[i] \in live
    BY <1>8, <1>9
  <2> QED  BY <1>4, <1>9, <2>1, SubSeqProperties
<1>11. \A k \in DOMAIN csvLines : csvLines[k].window \in Nat /\ csvLines[k].window < offset
  BY <1>7 DEF CompleteInv
<1>12. \A n : InWindow(n)' => n \in ToSet(window)
  BY <1>7, <1>9, <1>11 DEF InWindow, ToSet
<1>13. ToSet(window) \subseteq live
  BY <1>10 DEF ToSet
<1>14. \A n \in ToSet(window) :
            /\ HasParent(ParentsOf(n), n)'
            /\ \/ HasChildren(ChildrenOf(n), n)'
               \/ ChildrenOf(n)' = {} /\ \A c \in ToSet(window) : CsvItems[c].parent # n
  <2> TAKE n \in ToSet(window)
  <2>1. PICK chosen : chosen = LinksOf(ToSet(window), joined)
    OBVIOUS
  <2>2. /\ ParentsOf(n)' = {link[1] : link \in {l \in chosen : l[2] = n}}
        /\ ChildrenOf(n)' = {link[2] : link \in {l \in chosen : l[1] = n}}
    BY <1>7, <2>1 DEF ParentsOf, ChildrenOf
  <2>3. /\ HasParent({link[1] : link \in {l \in chosen : l[2] = n}}, n)
        /\ \/ HasChildren({link[2] : link \in {l \in chosen : l[1] = n}}, n)
           \/ /\ {link[2] : link \in {l \in chosen : l[1] = n}} = {}
              /\ \A c \in ToSet(window) : CsvItems[c].parent # n
    BY <1>2, <1>5, <1>13, <2>1, LinksOfWindow
  <2> QED  BY <1>7, <2>2, <2>3 DEF HasParent, HasChildren
<1>15. \A k \in DOMAIN csvLines' : csvLines'[k].window # export'.offset /\ csvLines'[k].window <= export'.offset
  BY <1>7, <1>9, <1>11
<1>16. WindowIsRight'
  BY <1>12, <1>14, <1>15 DEF WindowIsRight
<1> QED  BY <1>7, <1>16 DEF CompleteInv, LineIsComplete, HasParent, HasChildren

\* The line of the next item of a window is complete, and completes no other line's window.
LEMMA CompleteLine == CsvInv /\ CompleteInv /\ ConvertLine => CompleteInv'
<1> SUFFICES ASSUME CsvInv, CompleteInv, ConvertLine PROVE CompleteInv'
  OBVIOUS
<1>1. PICK at, offset, size, items, links, keyOf :
          export = ExportOf(at, offset, size, items, links, keyOf) /\ ExportIsRight(at, offset, size, items, links, keyOf)
  BY DEF CsvInv
<1>2. PICK S : csvLines \in Seq(S)
  BY DEF CsvInv
<1>3. /\ export.pc = "convert" /\ export.items = items /\ export.offset = offset
      /\ items # <<>> /\ items \in Seq(DOMAIN CsvItems) /\ offset \in Nat
  BY <1>1 DEF ConvertLine, ExportOf, ExportIsRight
<1>4. PICK n : n = Head(items)
  OBVIOUS
<1>5. PICK line :
          /\ csvLines' = Append(csvLines, line) /\ line.item = n /\ line.window = offset
          /\ line.parents = {NumberIn(Remember(idNumberMap, n, {}), p) : p \in ParentsOf(n)}
          /\ line.children = {NumberIn(Remember(idNumberMap, n, {}), c) : c \in ChildrenOf(n)}
  <2>1. PICK new :
            /\ csvLines' = Append(csvLines, new)
            /\ new = [item     |-> n,
                      window   |-> offset,
                      cells    |-> [i \in DOMAIN export.keyOf |-> IF export.keyOf[i] \in DOMAIN CsvItems[n].values
                                                                  THEN CsvItems[n].values[export.keyOf[i]] ELSE NoCell],
                      parents  |-> {NumberIn(Remember(idNumberMap, n, {}), p) : p \in ParentsOf(n)},
                      children |-> {NumberIn(Remember(idNumberMap, n, {}), c) : c \in ChildrenOf(n)}]
    BY <1>3, <1>4 DEF ConvertLine
  <2>2. /\ new.item = n /\ new.window = offset
        /\ new.parents = {NumberIn(Remember(idNumberMap, n, {}), p) : p \in ParentsOf(n)}
        /\ new.children = {NumberIn(Remember(idNumberMap, n, {}), c) : c \in ChildrenOf(n)}
    BY <2>1
  <2> QED  BY <2>1, <2>2
<1>6. \A id : NumberIn(Remember(idNumberMap, n, {}), id) = id
  <2>1. \A id \in DOMAIN Remember(idNumberMap, n, {}) : Remember(idNumberMap, n, {})[id] = id
    BY CacheIsRight DEF CsvInv
  <2> QED  BY <2>1 DEF NumberIn
<1>7. line.parents = ParentsOf(n) /\ line.children = ChildrenOf(n)
  BY <1>5, <1>6
<1>8. UNCHANGED live /\ export'.items = Tail(items) /\ export'.links = export.links /\ export'.offset = offset /\ export'.pc = "convert"
  BY <1>1, <1>3 DEF ConvertLine, ExportOf
<1>9. \A k \in DOMAIN csvLines' : csvLines'[k] = line \/ (k \in DOMAIN csvLines /\ csvLines'[k] = csvLines[k])
  BY <1>2, <1>5
<1>10. InWindow(n)
  BY <1>3, <1>4 DEF InWindow
<1>11. \A m : InWindow(m)' => InWindow(m)
  <2>1. \A k \in DOMAIN Tail(items) : k + 1 \in DOMAIN items /\ Tail(items)[k] = items[k + 1]
    BY <1>3
  <2>2. \A m : (\E k \in DOMAIN export'.items : export'.items[k] = m) => InWindow(m)
    BY <1>3, <1>8, <2>1 DEF InWindow
  <2>3. \A m : (\E k \in DOMAIN csvLines' : csvLines'[k].window = offset /\ csvLines'[k].item = m) => InWindow(m)
    BY <1>3, <1>5, <1>9, <1>10 DEF InWindow
  <2> QED  BY <1>8, <2>2, <2>3 DEF InWindow
<1>12. \A m : ParentsOf(m)' = ParentsOf(m) /\ ChildrenOf(m)' = ChildrenOf(m)
  BY <1>8 DEF ParentsOf, ChildrenOf
<1>13. WindowIsRight
  BY <1>3 DEF CompleteInv
<1>14. WindowIsRight'
  <2>1. \A k \in DOMAIN csvLines' :
            /\ csvLines'[k].window <= offset
            /\ csvLines'[k].window = offset => csvLines'[k].children = ChildrenOf(csvLines'[k].item)
    BY <1>3, <1>5, <1>7, <1>9, <1>13 DEF WindowIsRight
  <2>2. \A m : InWindow(m)' =>
            /\ HasParent(ParentsOf(m), m)
            /\ \/ HasChildren(ChildrenOf(m), m)
               \/ ChildrenOf(m) = {} /\ \A c : InWindow(c)' => CsvItems[c].parent # m
    BY <1>11, <1>13 DEF WindowIsRight
  <2> QED  BY <1>8, <1>12, <2>1, <2>2 DEF WindowIsRight, HasParent, HasChildren
<1>15. \A k \in DOMAIN csvLines' : HasParent(csvLines'[k].parents, csvLines'[k].item)
  <2>1. HasParent(line.parents, line.item)
    <3>1. HasParent(ParentsOf(n), n)
      BY <1>10, <1>13 DEF WindowIsRight
    <3> QED  BY <1>5, <1>7, <3>1
  <2> QED  BY <1>9, <2>1 DEF CompleteInv, LineIsComplete
<1>16. ASSUME NEW k \in DOMAIN csvLines'
       PROVE  \/ HasChildren(csvLines'[k].children, csvLines'[k].item)
              \/ /\ csvLines'[k].children = {}
                 /\ \A j \in DOMAIN csvLines' : csvLines'[j].window = csvLines'[k].window
                                                    => CsvItems[csvLines'[j].item].parent # csvLines'[k].item
  <2>1. CASE csvLines'[k].window = offset
    <3>1. InWindow(csvLines'[k].item)
      BY <1>8, <1>11, <2>1 DEF InWindow
    <3>2. csvLines'[k].children = ChildrenOf(csvLines'[k].item)
      BY <1>8, <1>12, <1>14, <2>1 DEF WindowIsRight
    <3>3. \A j \in DOMAIN csvLines' : csvLines'[j].window = offset => InWindow(csvLines'[j].item)
      BY <1>8, <1>11 DEF InWindow
    <3> QED  BY <1>13, <2>1, <3>1, <3>2, <3>3 DEF WindowIsRight
  <2>2. CASE csvLines'[k].window # offset
    <3>1. k \in DOMAIN csvLines /\ csvLines'[k] = csvLines[k]
      BY <1>5, <1>9, <2>2
    <3>2. \A j \in DOMAIN csvLines' : csvLines'[j].window = csvLines'[k].window =>
                                          j \in DOMAIN csvLines /\ csvLines'[j] = csvLines[j]
      BY <1>5, <1>9, <2>2
    <3> QED  BY <3>1, <3>2 DEF CompleteInv, LineIsComplete
  <2> QED  BY <2>1, <2>2
<1>17. \A k \in DOMAIN csvLines' : csvLines'[k].window \in Nat
  BY <1>3, <1>5, <1>9 DEF CompleteInv
<1>18. \A k \in DOMAIN csvLines' : LineIsComplete(csvLines[k])'
  BY <1>8, <1>15, <1>16 DEF LineIsComplete, HasParent, HasChildren
<1> QED  BY <1>8, <1>14, <1>17, <1>18 DEF CompleteInv

\* Every other step of an export, and every deletion meanwhile, keeps lines complete too.
LEMMA CompleteStep == CsvInv /\ CompleteInv /\ [CsvNext]_csvVars => CompleteInv'
<1> SUFFICES ASSUME CsvInv, CompleteInv, [CsvNext]_csvVars PROVE CompleteInv'
  OBVIOUS
<1>1. PICK at, offset, size, items, links, keyOf :
          export = ExportOf(at, offset, size, items, links, keyOf) /\ ExportIsRight(at, offset, size, items, links, keyOf)
  BY DEF CsvInv
<1>2. PICK S : csvLines \in Seq(S)
  BY DEF CsvInv
<1>3. CASE ConvertFails
  <2>1. export'.pc = "failed" /\ UNCHANGED live
    BY <1>1, <1>3 DEF ConvertFails, ExportOf
  <2>2. csvLines' = SubSeq(csvLines, 1, Len(csvLines) - (size - Len(items)))
    BY <1>1, <1>3 DEF ConvertFails, ExportOf
  <2>3. Len(csvLines) - (size - Len(items)) \in Int /\ Len(csvLines) - (size - Len(items)) <= Len(csvLines)
    BY <1>1, <1>2 DEF ExportIsRight
  <2>4. \A k \in DOMAIN csvLines' : k \in DOMAIN csvLines /\ csvLines'[k] = csvLines[k]
    BY <1>2, <2>2, <2>3
  <2> QED  BY <2>1, <2>4 DEF CompleteInv, LineIsComplete, HasParent, HasChildren
<1>4. CASE WindowDone
  <2>1. /\ export.pc = "convert" /\ items = <<>> /\ export.items = items /\ export.offset = offset
        /\ export'.pc = IF size < (IF offset = 0 THEN 1 ELSE CsvWindow) THEN "done" ELSE "query"
        /\ export'.offset = (IF offset = 0 THEN CsvWindow ELSE offset + size)
        /\ UNCHANGED <<live, csvLines>>
    BY <1>1, <1>4 DEF WindowDone, ExportOf
  <2>2. offset \in Nat /\ size \in Nat
    BY <1>1 DEF ExportIsRight
  <2>3. export'.pc # "convert" /\ (export'.pc = "query" => export'.offset > offset)
    BY <2>1, <2>2, CsvAssumption
  <2>4. \A k \in DOMAIN csvLines : csvLines[k].window \in Nat /\ csvLines[k].window <= offset
    BY <2>1 DEF CompleteInv, WindowIsRight
  <2>5. export'.pc = "query" => \A k \in DOMAIN csvLines' : csvLines'[k].window < export'.offset
    BY <2>1, <2>2, <2>3, <2>4, CsvAssumption
  <2> QED  BY <2>1, <2>3, <2>5 DEF CompleteInv, LineIsComplete, HasParent, HasChildren
<1>5. ASSUME NEW n \in DOMAIN CsvItems, DeleteCsvItem(n) PROVE CompleteInv'
  <2>1. live' \subseteq live /\ UNCHANGED <<export, csvLines>>
    BY <1>5 DEF DeleteCsvItem
  <2>2. \A k \in DOMAIN csvLines' : LineIsComplete(csvLines[k])'
    BY <2>1 DEF CompleteInv, LineIsComplete, HasParent, HasChildren
  <2>3. WindowIsRight => WindowIsRight'
    BY <2>1 DEF WindowIsRight, InWindow, ParentsOf, ChildrenOf, HasParent, HasChildren
  <2> QED  BY <2>1, <2>2, <2>3 DEF CompleteInv
<1>6. CASE UNCHANGED csvVars
  <2>1. UNCHANGED <<live, export, csvLines>>
    BY <1>6 DEF csvVars
  <2> QED  BY <2>1 DEF CompleteInv, LineIsComplete, WindowIsRight, InWindow, ParentsOf, ChildrenOf, HasParent, HasChildren
<1> QED  BY <1>3, <1>4, <1>5, <1>6, CompleteQuery, CompleteLine DEF CsvNext

\* LinesAreRight of the run: every cell of an export stands under the label of its field, and the
\* numbers on a line are those of its parent and its children, complete as far as windows allow, for
\* any types, items and windows, whatever is deleted meanwhile.
THEOREM ExportedLinesAreRight == CsvSpec => []LinesAreRight
<1>1. CsvInit => CsvInv
  <2> SUFFICES ASSUME CsvInit PROVE CsvInv
    OBVIOUS
  <2>1. export = ExportOf("query", 0, 0, <<>>, {}, <<>>) /\ ExportIsRight("query", 0, 0, <<>>, {}, <<>>)
    BY DEF CsvInit, ExportOf, ExportIsRight
  <2>2. csvLines \in Seq({})
    BY DEF CsvInit
  <2>3. live \subseteq DOMAIN CsvItems /\ \A id \in DOMAIN idNumberMap : idNumberMap[id] = id
    BY DEF CsvInit
  <2>4. \E at, offset, size, items, links, keyOf :
            export = ExportOf(at, offset, size, items, links, keyOf) /\ ExportIsRight(at, offset, size, items, links, keyOf)
    BY <2>1, Zenon
  <2>5. \E S : csvLines \in Seq(S) /\ \A line \in S : LineIsRight(line)
    <3> DEFINE S == {}
    <3>1. csvLines \in Seq(S) /\ \A line \in S : LineIsRight(line)
      BY <2>2
    <3> HIDE DEF S
    <3> QED  BY <3>1
  <2> QED  BY <2>3, <2>4, <2>5 DEF CsvInv
<1>2. CsvInit => CompleteInv
  BY DEF CsvInit, CompleteInv
<1>3. CsvInv /\ CompleteInv => LinesAreRight
  <2> SUFFICES ASSUME CsvInv, CompleteInv PROVE LinesAreRight
    OBVIOUS
  <2>1. ASSUME NEW k \in DOMAIN csvLines PROVE LineIsRight(csvLines[k])
    BY <2>1 DEF CsvInv
  <2>2. CellsFitTheHeader
    BY <2>1 DEF LineIsRight, CellIsRight, PlaceOf, Unique, CellsFitTheHeader
  <2>3. NumbersAreRight
    BY <2>1 DEF LineIsRight, CompleteInv, LineIsComplete, HasParent, HasChildren, NumbersAreRight
  <2> QED  BY <2>2, <2>3 DEF LinesAreRight
<1> QED  BY <1>1, <1>2, <1>3, CsvStep, CompleteStep, PTL DEF CsvSpec

-------------------------------------------------------------------------------
(* The number of comments *)

\* As long as nothing has failed, the channel is only closed by a goroutine whose number went
\* through, and the request has its number then.
CountInv ==
    /\ TotalIsShown
    /\ counter = "begin" => countChannel = "open"
    /\ ~failed => /\ countChannel = "closed" => todo = "done"
                  /\ todo = "done" => request = "done"
                  /\ todo # "send zero"

\* Every step of the request, of the goroutine and of the timeout keeps that.
LEMMA CountStep == CountInv /\ [CountNext]_countVars => CountInv'
<1> SUFFICES ASSUME CountInv, [CountNext]_countVars PROVE CountInv'
  OBVIOUS
<1>1. CASE Convert
  BY <1>1 DEF Convert, CountInv, TotalIsShown
<1>2. CASE BeginCount
  BY <1>2 DEF BeginCount, CloseCount, CountInv, TotalIsShown
<1>3. CASE CountComments
  BY <1>3 DEF CountComments, CountInv, TotalIsShown
<1>4. CASE HandOver
  BY <1>4 DEF HandOver, CountInv, TotalIsShown
<1>5. CASE ReadClosed
  BY <1>5 DEF ReadClosed, CountInv, TotalIsShown
<1>6. CASE SendPanics
  BY <1>6 DEF SendPanics, CountInv, TotalIsShown
<1>7. CASE EndCount
  BY <1>7 DEF EndCount, CloseCount, CountInv, TotalIsShown
<1>8. CASE CountTimeout
  BY <1>8 DEF CountTimeout, CloseCount, CountInv, TotalIsShown
<1>9. CASE UNCHANGED countVars
  BY <1>9 DEF countVars, CountInv, TotalIsShown
<1> QED  BY <1>1, <1>2, <1>3, <1>4, <1>5, <1>6, <1>7, <1>8, <1>9 DEF CountNext

\* The number that a request shows is that of the comments, whatever their number, unless the
\* transaction that counts them failed: the first part of CountIsReliable.
THEOREM ShownTotalIsRight == CountSpec => []TotalIsShown
<1>1. CountInit => CountInv
  BY DEF CountInit, CountInv, TotalIsShown
<1>2. CountInv => TotalIsShown
  BY DEF CountInv
<1> QED  BY <1>1, <1>2, CountStep, PTL DEF CountSpec
===============================================================================
