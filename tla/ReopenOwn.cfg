SPECIFICATION Spec
CONSTANTS
    Candidates = {c1, c2}
    Entries = {e1, e2}
    NoEntry = NoEntry
    d1 = d1
    text = text
    Dates = {d1}
    NoDate = NoDate
    Positions <- First
    Texts = {text}
    Files <- Both
    Requests = {r1}
    Exclusive = TRUE
    Deletes = FALSE
SYMMETRY Symmetry
CHECK_DEADLOCK FALSE
PROPERTY
    ReopenDeletesOwn
