SPECIFICATION CancelSpec
CONSTANTS
    Slots = {s1, s2}
    Ids <- MCIds
    Requests <- StoringRequests
    Answers <- GoodAnswers
    Outputs <- StoringOutputs
    Headers <- AllHeaders
    OnInvalid = "continue"
    Backends = {"sqlite", "postgres"}
    MaxItems = 4
    MaxRequests = 3
    MaxFaults = 1
    MaxRestarts = 0
    None = None
INVARIANT InputPreserved
