SPECIFICATION FairSpec
CONSTANTS
    Handlers = {h1, h2}
    Workers = {w1, w2}
    Streams = {c1, c2}
    Patterns = {p1}
    Limit = 2
    MaxRequests = 4
    Nothing = Nothing
INVARIANTS
    SettledInOrder
    DeadServedOnlyIfLate
PROPERTIES
    RequestsApplied
CHECK_DEADLOCK FALSE
