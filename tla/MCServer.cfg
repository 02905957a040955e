CONSTANTS
    r1 = r1
    r2 = r2
    r3 = r3
    s1 = s1
    s2 = s2
    Requests = {r1, r2, r3}
    Statements = {s1, s2}
    Columns <- SmallColumns
    MaxBindParams = 2
    QueueCapacity = 1
    BatchSize = 3
    FlushInterval = 1
    MaxRows = 3
    MaxSockets = 2
    Keepalive = TRUE
    Handlers <- SmallHandlers
    Outputs <- SmallOutputs
    MaxFrames <- SmallFrames
    Kids = {k1, k2}
    NoKid = none
    Ttl = 2
    MinRefetch = 1
    FetchTime = 1
    MaxAge = 3
SPECIFICATION Spec
CHECK_DEADLOCK FALSE
INVARIANTS
    ServerTypeOK
    LogConserved
    SlotsExact
PROPERTIES
    LogSettles
    RefusalEarned
    AnswerCounts
    Reclaimed
    NoWithdrawnKey
    RotationHeals
