\* A tick that takes longer than its lease.
SPECIFICATION Spec
CONSTANTS
    w1 = w1
    w2 = w2
    r1 = r1
    r2 = r2
    old = old
    new = new
    tick = tick
    call = call
    NoName = NoName
    Workers = {w1, w2}
    Replicas = {r1, r2}
    Host <- MCHost
    Period <- MCPeriod
    Builds = {old}
    Ticks = {tick}
    Calls = {}
    Declared <- MCTickOnly
    Retries <- MCRetries
    Backoff = 1
    LeaseSeconds = 1
    QueueLimit = 0
    Requests = {}
    PayloadLimited = TRUE
    HandlersOverrun = TRUE
    MaxId = 3
    MaxFaults = 0
INVARIANT
    TicksNeverOverlap
