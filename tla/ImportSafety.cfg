SPECIFICATION Spec
CONSTANTS
    Jobs = {j1, j2, j3}
    Users = {u1, u2}
    Kinds <- BothKinds
    Tokens = {t1, t2, t3}
    Drains = {d1, d2}
    NoJob = NoJob
    MaxCandidates = 3
    LookupFails = TRUE
SYMMETRY Symmetry
INVARIANTS
    TypeOK
    UploadImportedOnce
    QueuedExactly
    RunningHasDrain
    CancelStopsWriting
PROPERTIES
    ServedInTurn
