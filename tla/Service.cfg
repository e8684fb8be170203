SPECIFICATION Spec
CONSTANTS
    r1 = r1
    r2 = r2
    Ids = {r1, r2}
    Requests <- MCRequests
    Backends = {"sqlite", "postgres"}
    MaxOutages = 1
    NoState = NoState
    t1 = t1
    t2 = t2
    c1 = c1
    Tenants = {t1, t2}
    Convs = {c1}
    ItemIds = {1, 2, 3}
    Inputs <- MCItems
    Queries <- MCQueries
    DefaultLimit = 2
    MaxLimit = 2
    MaxWrites = 5
    NoParam = NoParam
    Bad = Bad
    i1 = i1
    i2 = i2
    i3 = i3
    i4 = i4
    unknown = unknown
    StoredInputs <- MCInputs
    Limits <- MCLimits
    Cursors <- MCCursors
    InputDefaultLimit = 2
    InputMaxLimit = 3
    MaxUsize = 20
    NoId = NoId
    Deployments <- MCDeployments
    MaxCrashes = 2
    Absent = Absent
    None = None
INVARIANTS
    ServedSoundly
    WalksComplete
    StoreOpensSoundly
PROPERTIES
    RequestsEnd
    WalksEnd
CHECK_DEADLOCK FALSE
