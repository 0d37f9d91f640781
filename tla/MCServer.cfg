SPECIFICATION FairSpec
CONSTANTS
    Wrapper = {w1, w2, w3, w4}
    Free = Free
    Used = Used
    Null = Null
    Threads = {t1, t2, t3}
    Listener = t1
    MaxConns = 3
    NoObject = NoObject
    NoThread = NoThread
    t1 = t1
    t2 = t2
    t3 = t3
    Programs <- BothPrograms
INVARIANTS
    HandlersSafe
    SharedOnlyAfterAnEnd
    RegistryExact
    RoundRobin
PROPERTY AcceptorServes
CHECK_DEADLOCK FALSE
