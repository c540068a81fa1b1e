SPECIFICATION ServiceSpec
CONSTANTS
    Users = {u1, u2}
    Checks = {k1, k2}
    Nobody = Nobody
    Limit = 1
    WindowSeconds = 1
    TicksPerSecond = 2
    MaxTime = 3
    MaxAdmitted = 3
    Requests = {r1}
    ContentTypes = {note}
    DateModel = TRUE
    RerankModel = TRUE
    MaxAttempts = 3
    MaxDeltas = 1
    Runs = {t1}
    MaxBatches = 3
    MaxFaults = 2
INVARIANTS RoutesTypeOK TypeOK
    BurstBound RetryAfterKept RefusedOnlyAtLimit
    EventOrder CallBudget
    RejectedNeverRuns RunsOnceUnlessCutOff
PROPERTIES NoCallAfterDelta EveryStreamEnds
CHECK_DEADLOCK FALSE
