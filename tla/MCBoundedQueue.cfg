SPECIFICATION FairSpec
CONSTANTS
    Threads = {t1, t2, t3}
    Values = {v1, v2}
    Limit = 2
    Nothing = Nothing
INVARIANTS
    NoLostWakeup
PROPERTIES
    ImplementsFifo
    NobodyForgotten
