SPECIFICATION ServiceSpec
CONSTANTS
    Users = {u1}
    Checks = {k1, k2}
    Nobody = Nobody
    Limit = 2
    WindowSeconds = 1
    TicksPerSecond = 2
    MaxTime = 3
    MaxAdmitted = 5
    Requests = {r1}
    ContentTypes = {note}
    DateModel = TRUE
    RerankModel = TRUE
    MaxAttempts = 3
    MaxDeltas = 1
    Runs = {t1}
    MaxBatches = 3
    MaxFaults = 2
INVARIANT LimitPerWindow
CHECK_DEADLOCK FALSE
