SPECIFICATION MCSpec
CONSTANTS
    a = a
    b = b
    Word = {a, b}
    Star = Star
    HashMark = HashMark
    StarText = StarText
    HashText = HashText
    EmptyToken = EmptyToken
    Threads = {t1, t2, t3}
    Consumers = {c1, c2}
    Keys <- TwoKeys
    Patterns <- MixedPatterns
    MaxBatch = 2
    MaxKey = 3
    MaxPat = 4
SYMMETRY Symmetric
INVARIANTS
    TablesAgree
    ConsumeTouchesLiveObjects
    AtMostOncePerSubscription
    SureDelivery
    MatchComplete
    MatchSoundNoStarAfterHash
    TokensServeIndex
PROPERTY ImplementsPubSub
