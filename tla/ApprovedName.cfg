SPECIFICATION Spec
CONSTANTS
    cross = cross
    single = single
    ps4 = ps4
    vita = vita
    Games = {cross, single}
    Platforms = {ps4, vita}
    Covers <- Sets
    May <- Shown
    Ticks <- Ticked
    Pages = 2
    Hits = {"pending"}
    MaxActs = 1
PROPERTIES
    ApprovedNameStands
