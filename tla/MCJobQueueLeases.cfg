\* Attempts that settle within their lease, or die.
SPECIFICATION FairSpec
CONSTANTS
    w1 = w1
    w2 = w2
    r1 = r1
    r2 = r2
    old = old
    new = new
    tick = tick
    call = call
    NoName = NoName
    Workers = {w1, w2}
    Replicas = {r1, r2}
    Host <- MCHost
    Period <- MCPeriod
    Builds = {old}
    Ticks = {tick}
    Calls = {call}
    Declared <- MCSame
    Retries <- MCTwice
    Backoff = 1
    LeaseSeconds = 2
    QueueLimit = 0
    Requests = {q1}
    PayloadLimited = FALSE
    HandlersOverrun = FALSE
    MaxId = 3
    MaxFaults = 1
INVARIANTS
    LeaseExclusive
    TicksNeverOverlap
    ClaimCurrent
PROPERTIES
    Settles
    TickRecurs
