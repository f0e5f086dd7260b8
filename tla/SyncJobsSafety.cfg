SPECIFICATION Spec
CONSTANTS
    Jobs = {j1, j2, j3}
    Users = {u1}
    Chains = {c1, c2}
    NoJob = NoJob
    Kinds <- AllKinds
    Offered <- Syncs
    SpareIds = 0
    Workers <- Enrichment
SYMMETRY Symmetry
VIEW View
INVARIANTS
    TypeOK
    OneCrawlPerUser
    ActiveHasRunner
    PauseBalanced
    ToldOnce
PROPERTIES
    WorkersStayAsleep
