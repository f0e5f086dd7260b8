SPECIFICATION FairSpec
CONSTANTS
    u1 = u1
    u2 = u2
    Users = {u1, u2}
    Owners <- Whose
    NoUser = NoUser
    m1 = m1
    m2 = m2
    plain = plain
    sequel = sequel
    Manual = {m1, m2}
    Synced = {1, 2}
    Completions = {c1}
    Titles = {plain, sequel}
    Score <- Scores
    Yearly <- Years
    SameId <- Known
    MIN = 65
    HIGH = 95
    Scanners = {k1, k2}
    MaxActs = 3
CHECK_DEADLOCK FALSE
INVARIANTS
    TypeOK
PROPERTIES
    CompletionsKept
    RefusalStands
    ReviewSettles
