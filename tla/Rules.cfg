SPECIFICATION Spec
CONSTANTS
    Digits = {"2"}
    Folded <- Fold1
    Longer <- Begin1
    Numerals = {"2", "10", "x"}
    Twins <- Twin1
    Typos <- Typo1
    Bought <- SomeBought
    TrophySets <- SomeSets
    Plays <- SomePlays
    MaxFeed = 2
    Queues <- SomeQueues
    Names <- SomeNames
    Hits <- SomeHits
    MaxHits = 3
    Days = {0, 2}
    Entries <- SomeEntries
    MaxLibrary = 3
    Titles <- SomeTitles
    SheetRows <- SomeRows
    MaxRows = 3
    Tabs = {7}
CHECK_DEADLOCK FALSE
INVARIANTS
    MergeLosesNothing
    OneRowPerGame
    NameByRules
    
    EachProposedOnce
