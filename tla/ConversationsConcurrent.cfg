SPECIFICATION Spec
CONSTANTS
    Slots = {s1, s2}
    Convs = {c1}
    ItemIds = {1, 2}
    Data <- MCData
    Metas <- MCMetas
    Payloads <- RacingPayloads
    PageLimit = 1
    MaxRequests = 4
    MaxNow = 1
    Faults = FALSE
    None = None
INVARIANTS CreatedAtPreserved AppendOrder SyncKeepsStableItems
PROPERTIES ItemRowsImmutable FailedInsertLeavesNoRows SyncKeepsToMessages
SYMMETRY SlotSymmetry
