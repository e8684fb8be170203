SPECIFICATION FairSpec
CONSTANTS
    Slots = {s1, s2}
    Convs = {c1}
    ItemIds = {1, 2}
    Data <- MCData
    Metas <- MCMetas
    Payloads <- RacingPayloads
    PageLimit = 1
    MaxRequests = 3
    MaxNow = 1
    Faults = TRUE
    None = None
INVARIANT SyncKeepsStableItems
PROPERTY RequestsAnswered
