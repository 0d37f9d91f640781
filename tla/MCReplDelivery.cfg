SPECIFICATION MCSpec
CONSTANTS
    a = a
    b = b
    Word = {a, b}
    Star = Star
    HashMark = HashMark
    StarText = StarText
    HashText = HashText
    EmptyToken = EmptyToken
    Threads = {t1, t2}
    Consumers = {c1, c2}
    Keys <- OneKey
    Patterns <- ThreePatterns
    MaxBatch = 2
    MaxKey = 0
    MaxPat = 0
SYMMETRY Symmetric
INVARIANT DeliveryComplete
