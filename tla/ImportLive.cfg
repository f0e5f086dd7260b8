SPECIFICATION FairSpec
CONSTANTS
    Jobs = {j1, j2, j3}
    Users = {u1}
    Kinds <- BothKinds
    Tokens = {t1, t2}
    Drains = {d1, d2}
    NoJob = NoJob
    MaxCandidates = 1
    LookupFails = FALSE
CHECK_DEADLOCK FALSE
PROPERTIES
    EveryImportEnds
