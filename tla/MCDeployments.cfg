SPECIFICATION Spec
CONSTANTS
    None = None
    BucketDuration = 2
    App = App
    Other = Other
    Clients = {c1, c2}
    Questions <- MCQuestions
    Annotations <- MCAnnotations
    MaxRollOuts = 2
    MaxReplicas = 1
    MaxBuilds = 1
    MaxRequests = 2
    Keys = {k1, k2}
    MaxChanges = 3
    MaxLists = 2
    CommentTotal = 2
INVARIANTS
    ViewsAreRight
PROPERTIES
    ShownMovesForward
    WatchIsReliable
    CountIsReliable
CHECK_DEADLOCK FALSE
