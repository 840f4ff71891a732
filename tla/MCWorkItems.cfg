SPECIFICATION FairSpec
CONSTANTS
    None = None
    Items = {a, b}
    Spaces = {X}
    Clients = {c1, c2}
    MaxVersion = 0
    MaxReorder = 2
INVARIANTS
    WorkItemsSafe
    NumbersAreDense
    RevisionsFollowVersions
PROPERTIES
    ImplementsHistory
    RequestsAnswered
