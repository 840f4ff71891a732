SPECIFICATION Spec
CONSTANTS
    None = None
    Items = {a, b, d}
    Spaces = {X, Y}
    Clients = {c1}
    OrderValue = 8
    Directions = {"above", "below", "top", "bottom"}
    Deletable = {a, b, d}
    MaxBatch = 2
    MaxMoves = 3
SYMMETRY Symmetry
PROPERTIES
    ImplementsRankedList
    OrdersAreRight
