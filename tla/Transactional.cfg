\* Two calls, both nesting, on a pool of two connections: each can hold one
\* and wait for the other's, and one that nests keeps the other from beginning.
SPECIFICATION FairSpec
CONSTANTS
    Calls = {c1, c2}
    Nesting = {c1, c2}
    NumWrites = 2
    PoolSize = 2
INVARIANTS
    TransactionsSafe
PROPERTIES
    CallsAnswered
    WorkersEnd
