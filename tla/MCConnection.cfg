SPECIFICATION FairSpec
CONSTANTS
    Ids = {s1, s2}
    Threads = {t1, t2}
INVARIANTS
    OutputAnnounced
    ServedWritable
PROPERTIES
    FlushEnds
    ImplementsSession
CHECK_DEADLOCK FALSE
