SPECIFICATION Spec
CONSTANTS
    Ids = {s1, s2}
    Threads = {t1, t2}
INVARIANT NeverUsedAfterEnd
CHECK_DEADLOCK FALSE
