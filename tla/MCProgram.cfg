CONSTANTS
    Requests = {r1}
    Programs <- SmallPrograms
    MaxDepth = 2
    Null = Null
    Queries <- SmallQueries
    Databases <- SmallDatabases
    Fresh <- SmallFresh
    Heaps <- SmallHeaps
    Nullable <- SmallNullable
    MaxWrites = 1
    MaxSeen = 5
    MaxInt = 4
    MaxTurns = 3
    Numbers <- SmallNumbers
    Locals <- SmallLocals
    Strings <- SmallStrings
    Durations = {"'30s'"}
    Spaced = {"a-b"}
    Junk = {"a-b", "a.b"}
SPECIFICATION Spec
CHECK_DEADLOCK FALSE
INVARIANTS
    ProgramTypeOK
    ContextSet
    RaisesCovered
    Unwinds
    ReadsAsWritten
    PagesOnce
    AcceptedRuns
    NativeAgrees
    WellTyped
PROPERTY FormatKeepsProgram
