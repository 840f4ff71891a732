------------------------------ MODULE MCSearch ------------------------------
EXTENDS Search, TLC

CONSTANTS bug, story, ui, db, i1, i2, hostA, hostB

\* 1 is the parent of 2 and 4, and 2 of 3.  5 is created later.  One
\* more link is made: of 4 to 1, again when it was deleted, or of 5 to 2.
MCAttr == <<[state |-> "open", labels |-> None, iteration |-> None, type |-> story],
            [state |-> "open", labels |-> {ui, db}, iteration |-> i1, type |-> story],
            [state |-> "closed", labels |-> {ui}, iteration |-> i2, type |-> bug],
            [state |-> "open", labels |-> {db}, iteration |-> i2, type |-> story],
            [state |-> "open", labels |-> {}, iteration |-> i1, type |-> bug]>>
MCFirstParent == <<None, 1, 2, 1, None>>
MCNewLinks == {<<1, 4>>, <<2, 5>>}
MCLabelName == (ui :> "ui") @@ (db :> "db")
MCIterationName == (i1 :> "one") @@ (i2 :> "two")
MCBelow == (i1 :> {i1, i2}) @@ (i2 :> {i2})
MCTypeGroups == [Work |-> {story, bug}, Bugs |-> {bug}]
MCContaining == [pe |-> {"open"}, e |-> {"open", "closed"}]
MCHostOf == [c \in Clients |-> IF c = 1 THEN hostA ELSE hostB]

Leaves1 ==
    {"state" :> [str |-> "open"], "state" :> [ne |-> "open"], "state" :> [substr |-> "pe"],
     ("state" :> [str |-> "open"]) @@ ("negate" :> [bool |-> TRUE]),
     "iteration" :> [str |-> i1], ("iteration" :> [str |-> i1]) @@ ("child" :> [bool |-> FALSE]),
     "iteration" :> [eq |-> i1], "iteration" :> [ne |-> i1], "iteration" :> [null |-> TRUE],
     "label" :> [str |-> ui], "label" :> [ne |-> ui], "label" :> [null |-> TRUE], "label" :> [in |-> <<ui, db>>],
     "number" :> [eq |-> "3"], "iteration.name" :> [str |-> "two"], "label.name" :> [str |-> "ui"],
     "label.name" :> [in |-> <<"ui", "db">>], "parent.number" :> [eq |-> "1"],
     "typegroup.name" :> [str |-> "Work"]}

\* Documents the parser, the compiler or the database refuses, or that mean
\* something else than they seem to.
Odd ==
    {"colour" :> [str |-> "red"], "label" :> [substr |-> "u"], "label.name" :> [substr |-> "u"],
     "iteration.name" :> [null |-> TRUE], "iteration.secret" :> [str |-> "x"], "label.name" :> [ne |-> "ui"],
     ("state" :> [null |-> TRUE]) @@ ("negate" :> [bool |-> TRUE]),
     ("state" :> [ne |-> "open"]) @@ ("negate" :> [bool |-> FALSE]),
     ("iteration" :> [str |-> i1]) @@ ("state" :> [str |-> "open"]), "state" :> [other |-> TRUE],
     "number" :> [substr |-> "1"], "$AND" :> [list |-> <<>>],
     "$AND" :> [list |-> <<"state" :> [str |-> "open"], "$OR" :> [list |-> <<>>]>>],
     "$OR" :> [list |-> <<"$AND" :> [list |-> <<>>], "number" :> [eq |-> "1"]>>]}

Pairs ==
    LET Few == <<"state" :> [ne |-> "open"], ("child" :> [bool |-> FALSE]) @@ ("iteration" :> [str |-> i1]),
                "label.name" :> [str |-> "db"], "parent.number" :> [eq |-> "1"], "typegroup.name" :> [str |-> "Bugs"]>>
    IN  {op :> [list |-> <<Few[m], Few[n]>>] : op \in {"$AND", "$OR"}, <<m, n>> \in {p \in (1..5) \X (1..5) : p[1] < p[2]}}

Nested == {"$AND" :> [list |-> <<"$OR" :> [list |-> <<a, "number" :> [eq |-> "2"]>>], b>>] :
              a \in {"label" :> [str |-> ui], "iteration" :> [str |-> i2]},
              b \in {"state" :> [str |-> "open"], "iteration.name" :> [str |-> "two"]}}

MCDocs ==
    Leaves1 \cup Odd \cup Pairs \cup Nested \cup
    {d @@ ("$OPTS" :> [opts |-> TRUE]) : d \in {"state" :> [str |-> "open"], "label" :> [str |-> ui],
                                                "state" :> [ne |-> "open"], "number" :> [eq |-> "3"], "label" :> [str |-> db]}}
=============================================================================
