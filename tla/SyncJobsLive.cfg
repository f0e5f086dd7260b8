SPECIFICATION FairSpec
CONSTANTS
    Jobs = {j1, j2, j3}
    Users = {u1}
    Chains = {c1}
    NoJob = NoJob
    Kinds <- AllKinds
    Offered <- PsnAndScan
    SpareIds = 1
    Workers <- NoWorkers
VIEW View
PROPERTIES
    EveryJobReported
    FollowupsAllRun
