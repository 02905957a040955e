\* A process stops between the two statements that bury a job.
SPECIFICATION Spec
CONSTANTS
    w1 = w1
    w2 = w2
    r1 = r1
    r2 = r2
    old = old
    new = new
    tick = tick
    call = call
    NoName = NoName
    Workers = {w1, w2}
    Replicas = {r1, r2}
    Host <- MCHost
    Period <- MCPeriod
    Builds = {old}
    Ticks = {}
    Calls = {call}
    Declared <- MCCallsOnly
    Retries <- MCOnce
    Backoff = 1
    LeaseSeconds = 1
    QueueLimit = 0
    Requests = {q1}
    PayloadLimited = TRUE
    HandlersOverrun = FALSE
    MaxId = 3
    MaxFaults = 1
INVARIANT
    DeadIsFinal
