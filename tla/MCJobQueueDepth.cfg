\* Two requests dispatch into the last free place of the queue.
SPECIFICATION Spec
CONSTANTS
    w1 = w1
    w2 = w2
    r1 = r1
    r2 = r2
    old = old
    new = new
    tick = tick
    call = call
    NoName = NoName
    Workers = {w1, w2}
    Replicas = {r1, r2}
    Host <- MCHost
    Period <- MCPeriod
    Builds = {old}
    Ticks = {}
    Calls = {call}
    Declared <- MCCallsOnly
    Retries <- MCRetries
    Backoff = 1
    LeaseSeconds = 1
    QueueLimit = 1
    Requests = {q1, q2}
    PayloadLimited = TRUE
    HandlersOverrun = FALSE
    MaxId = 3
    MaxFaults = 0
INVARIANT
    DepthBounded
