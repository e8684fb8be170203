\* Two requests, room for one route: refresh, expiry, sweep and refusal race,
\* and JSON responses come in every split into chunks around the body limit.
SPECIFICATION MCSpec
CONSTANTS
    f1 = f1
    f2 = f2
    t1 = t1
    t2 = t2
    c1 = c1
    c2 = c2
    None = None
    Flows = {f1, f2}
    TaskIds = {t1, t2}
    Clusters = {c1, c2}
    Ttl = 2
    TerminalTtl = 1
    MaxTaskRoutes = 1
    EvictionInterval = 2
    MaxBody = 2
    MaxDoc = 1
    MaxEvents = 1
    MaxRequests = 2
    MaxNow = 3
SYMMETRY RoutingSymmetry
INVARIANTS StoreBounded CapturedOnce
PROPERTIES LiveRoutesKept SweepKeepsUp KeepsPromise
