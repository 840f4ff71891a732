SPECIFICATION Spec
CONSTANTS
    q1 = q1
    q2 = q2
    t1 = t1
    t2 = t2
    i1 = i1
    i2 = i2
    X = X
    u = u
    None = None
    Trackers = {t1, t2}
    Queries = {q1, q2}
    Spaces = {X}
    Stored = {q2, t1}
    TrackerOf <- MCTrackerOf
    SpaceOf <- MCSpaceOf
    RemoteItems = {i1, i2}
    Matches <- MCMatches
    CreatorOf <- MCCreatorOf
    Jobs = {j1, j2}
    MaxRows = 2
    MaxCalls = 2
INVARIANTS
    ImportsAreSound
PROPERTIES
    ImportsEnd
CHECK_DEADLOCK FALSE
