SPECIFICATION Spec
CONSTANTS
    Users = {u1, u2}
    SpaceIDs = {X, Y}
    SpaceNames = {n1}
    URLs = {r1, r2}
    CodebaseIDs = {b1, b2, b3}
    Clients = {c1, c2}
    PageLimit = 2
    MaxRequests = 3
    MaxFaults = 1
    None = None
SYMMETRY Symmetry
INVARIANTS
    SpacesAreSound
PROPERTIES
    OwnersEndLives
CHECK_DEADLOCK FALSE
