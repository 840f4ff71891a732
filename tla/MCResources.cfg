SPECIFICATION Spec
CONSTANTS
    w1 = w1
    u1 = u1
    u2 = u2
    u3 = u3
    l1 = l1
    q1 = q1
    q2 = q2
    s1 = s1
    s2 = s2
    n1 = n1
    N1 = N1
    v1 = v1
    v2 = v2
    v3 = v3
    CommentIDs = {w1}
    Creators <- MCCreators
    Authors = {u1, u2, u3}
    Collaborators = {u1}
    Bodies = {v1, v2}
    NoBody = v3
    MaxRevisions = 4
    Labels = {l1}
    Queries = {q1, q2}
    Names = {n1, N1}
    Colors = {v1}
    Sessions = {s1, s2}
    UserOf <- MCUserOf
    QueryCreator <- MCQueryCreator
    NoValue = v3
    MaxVersion = 1
    AreaRequests = {s1, s2}
    AreaNames = {n1, N1}
    NoArea = v3
    MaxAreas = 4
    UserIDs = {user1, user2}
    IdentityIDs = {id1, id2}
    UserNames = {n1}
    LowerCase <- MCLowerCase
    Data = {v1}
    Profiles = {v1}
    Obfuscated = v2
    Nothing = v3
    Services = {s1, s2}
    SortedNames <- MCSortedNames
    MetaState = "m"
    ItemTypes <- MCItemTypes
    Inputs <- MCInputs
    Known = {"uuid"}
    Replicas = {u1, u2}
    Releases <- MCReleases
    StateField = "state"
    WorkItems = {w1}
    PageSizeDefault = 2
    PageSizeMax = 4
    MaxRows = 7
    Offsets <- MCOffsets
    Limits <- MCLimits
    CsvTypes <- MCCsvTypes
    CsvItems <- MCCsvItems
    CsvWindow = 2
    PatchClients = {u1, u2}
    PatchSources <- MCPatchSources
    Identities = {"ann"}
    LabelRows = {}
    IterationRows = {"root iteration", "sprint"}
    AreaRows = {"root area"}
    RootIteration = "root iteration"
    RootArea = "root area"
    Null = Null
    MaxItemVersion = 2
    MaxCodebases = 2
    ListItems <- MCListItems
    ListSpace = "home"
    Trees <- MCTrees
    ListFilters <- MCListFilters
INVARIANTS
    CommentsAreAccountable
    AreasAreSound
    LinesAreRight
PROPERTIES
    UsersAreConsistent
    UpdatesAreExact
    FieldsSurvive
    TemplatesAreConsistent
    PagesAreConnected
    PatchesAreExact
    ListsAreRight
CHECK_DEADLOCK FALSE
