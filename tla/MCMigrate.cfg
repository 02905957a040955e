\* Files of one deploy for every pair of edits, and of two deploys with a fault.
CONSTANTS
    d1 = d1
    d2 = d2
    Deploys = {d1, d2}
    Nobody = Nobody
    Orphan = Orphan
    Projects <- Histories
    MaxRuns = 3
SPECIFICATION Spec
\* Every command that was started may be over.
CHECK_DEADLOCK FALSE
INVARIANTS
    TypeOK
    RecordsTellSchema
    FilesApply
    UpDelivers
    FilesFit
PROPERTIES
    LockComes
