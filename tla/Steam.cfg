SPECIFICATION FairSpec
CONSTANTS
    Apps = {10, 20}
    NoApp = NoApp
    Store <- WithPass
    Playable = {10}
    Catalog = {}
    Removed = {20}
    Doomed = {10}
    Compilations = {10}
    Working = {}
    Verified = {10}
    BatchSize = 2
    RequeueBatch = 1
    Hasty = FALSE
    MaxActs = 2
CHECK_DEADLOCK FALSE
INVARIANTS
    TypeOK
PROPERTIES
    HideStands
    EachFetched
    EachDemoted
    EachLinked
    CoversHeal
