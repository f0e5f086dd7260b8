SPECIFICATION FairSpec
CONSTANTS
    Users = {u1}
    Psn = {1}
    Steam = {2, 3}
    MaxSize = 2
    MaxPlays = 2
    Sessions = {TRUE, FALSE}
    Racing = FALSE
    PRIVATE_PROFILE_RUN = 2
    MaxActs = 2
INVARIANTS
    TypeOK
    GatesAreRight
PROPERTIES
    EachRecordedFetched
