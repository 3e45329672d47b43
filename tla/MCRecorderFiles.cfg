CONSTANTS
    Contracts = {a, b}
    Expired = {x}
    MaxOldLines = 2
    MaxConnects = 3
    MaxSubscribes = 2
    MaxFailures = 1
    Keys = {j, k}
    Texts = {s, t}
    None = None
    MaxLines = 3
    MaxMergedLines = 1
    MaxLoads = 2
SPECIFICATION MCSpec
INVARIANTS
    FileFollowsQuery
    LoadedAsWritten
    SavedIsLoaded
PROPERTIES
    FirstListStays
    ListedInTheEnd
CHECK_DEADLOCK FALSE
