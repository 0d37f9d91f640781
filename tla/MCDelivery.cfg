SPECIFICATION FairSpec
CONSTANTS
    Threads = {t1, t2, t3}
    Consumers = {c1, c2}
    Closable = {c2}
    NoThread = NoThread
    MaxPush = 2
    MaxConnEvents = 2
INVARIANTS
    NoLostWakeup
    OneUserOfConn
    DeliveredInOrder
    PushTargetAlive
PROPERTY AllDelivered
CHECK_DEADLOCK FALSE
