SPECIFICATION Spec
CONSTANTS
    r = r
    q = q
    a = a
    b = b
    d = d
    X = X
    Y = Y
    n1 = n1
    n2 = n2
    None = None
    IDs = {r, q, a, b, d}
    Roots <- MCRoots
    Spaces = {X, Y}
    Names = {n1, n2}
    Items = {w}
    Home <- MCHome
    Clients = {c1, c2}
    Updates <- MCUpdates
    MaxRequests = 4
SYMMETRY Symmetry
INVARIANTS
    PathsAreSound
    SerialConsistency
PROPERTIES
    DeletedStaysDeleted
CHECK_DEADLOCK FALSE
