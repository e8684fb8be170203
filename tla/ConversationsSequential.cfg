SPECIFICATION Spec
CONSTANTS
    Slots = {s1}
    Convs = {c1, c2}
    ItemIds = {1, 2, 3}
    Data <- MCData
    Metas <- MCMetas
    Payloads <- PagingPayloads
    PageLimit = 2
    MaxRequests = 5
    MaxNow = 0
    Faults = FALSE
    None = None
INVARIANTS MessagesInSync
