SPECIFICATION Spec
CONSTANTS
    N = 5
    Existing = 4
    Attr <- MCAttr
    FirstParent <- MCFirstParent
    NewLinks <- MCNewLinks
    MaxLinks = 4
    MaxChanges = 2
    None = None
    bug = bug
    story = story
    ui = ui
    db = db
    i1 = i1
    i2 = i2
    hostA = hostA
    hostB = hostB
    LabelName <- MCLabelName
    IterationName <- MCIterationName
    Below <- MCBelow
    TypeGroups <- MCTypeGroups
    Containing <- MCContaining
    Docs <- MCDocs
    CsvLimit = 2
    Clients = {1, 2}
    HostOf <- MCHostOf
INVARIANTS
    FiltersMeanWhatTheySay
PROPERTIES
    AnswersAreComplete
