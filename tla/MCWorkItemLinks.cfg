SPECIFICATION Spec
CONSTANTS
    a = a
    b = b
    d = d
    e = e
    X = X
    Y = Y
    tree = tree
    dep = dep
    c1 = c1
    c2 = c2
    None = None
    Items = {a, b, d}
    Existing = {a, b, d}
    Deletable = {a}
    Spaces = {X, Y}
    SpaceOf <- TwoSpaces
    LinkTypes = {tree}
    Topology <- Topologies
    Clients = {c1, c2}
    MaxLinks = 2
INVARIANTS
    LinksSafe
    LinksTruthful
PROPERTIES
    ImplementsLinkGraph
    RequestsAnswered
CHECK_DEADLOCK FALSE
