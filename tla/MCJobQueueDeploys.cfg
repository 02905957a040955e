\* Deploys, crashes, lost replies and attempts that outlive their lease.
SPECIFICATION Spec
CONSTANTS
    w1 = w1
    w2 = w2
    r1 = r1
    r2 = r2
    old = old
    new = new
    tick = tick
    call = call
    NoName = NoName
    Workers = {w1, w2}
    Replicas = {r1, r2}
    Host <- MCHost
    Period <- MCPeriod
    Builds = {old, new}
    Ticks = {tick}
    Calls = {call}
    Declared <- MCDropsTick
    Retries <- MCRetries
    Backoff = 1
    LeaseSeconds = 1
    QueueLimit = 1
    Requests = {q1}
    PayloadLimited = TRUE
    HandlersOverrun = TRUE
    MaxId = 3
    MaxFaults = 1
SYMMETRY MCSymmetry
INVARIANTS
    TypeOK
    NothingLost
    DeadAfterBudget
PROPERTIES
    ScheduleKept
    KeepsContract
