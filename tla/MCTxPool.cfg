\* Futures are dropped and errors caught outside of blocks only.
SPECIFICATION Spec
CONSTANTS
    c1 = c1
    c2 = c2
    q1 = q1
    q2 = q2
    NoConn = NoConn
    Conns = {c1, c2}
    Requests = {q1, q2}
    Catches = {"outside"}
    Drops = {"outside"}
    MaxStmts = 3
    MaxLost = 1
SYMMETRY MCSymmetry
\* A request that was answered, or dropped, is over.
CHECK_DEADLOCK FALSE
INVARIANTS
    TypeOK
    PoolClean
    AckedIsDurable
    Usable
PROPERTIES
    BlocksAreAtomic
