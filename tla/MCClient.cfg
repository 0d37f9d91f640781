SPECIFICATION Spec
CONSTANTS
    Wrapper = {w1, w2, w3}
    Free = Free
    Used = Used
    Null = Null
    MaxCheckers = 4
    Addrs = 1
    Units = 1
    NoChecker = NoChecker
    Args <- OneOrTwoAtOnce
INVARIANTS
    TypeOK
    AccountsBalance
    PoolFull
    OutputWatched
CHECK_DEADLOCK FALSE
