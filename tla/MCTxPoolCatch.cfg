\* A catch written in a block itself.
SPECIFICATION Spec
CONSTANTS
    c1 = c1
    c2 = c2
    q1 = q1
    q2 = q2
    NoConn = NoConn
    Conns = {c1, c2}
    Requests = {q1, q2}
    Catches = {"outside", "block"}
    Drops = {"outside"}
    MaxStmts = 2
    MaxLost = 1
\* A request that was answered, or dropped, is over.
CHECK_DEADLOCK FALSE
INVARIANTS
    AckedIsDurable
