SPECIFICATION Spec
CONSTANTS
    p1 = p1
    p2 = p2
    p3 = p3
    Procs = {p1, p2, p3}
    NumVersions = 3
    StepsOf <- MCStepsOf
    MaxFaults = 2
    NoProc = NoProc
INVARIANTS
    MigrationSafe
PROPERTIES
    EventuallyDone
    ImplementsHistory
