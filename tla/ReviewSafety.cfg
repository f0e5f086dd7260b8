SPECIFICATION Spec
CONSTANTS
    Candidates = {c1, c2}
    Entries = {e1, e2}
    NoEntry = NoEntry
    d1 = d1
    text = text
    Dates = {d1}
    NoDate = NoDate
    Positions <- First
    Texts = {text}
    Files <- Single
    Requests = {r1, r2}
    Exclusive = TRUE
    Deletes = TRUE
SYMMETRY Symmetry
CHECK_DEADLOCK FALSE
INVARIANTS
    TypeOK
    CompletionsHeld

    
