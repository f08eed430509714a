SPECIFICATION Spec
CONSTANTS
    r1 = r1
    r2 = r2
    t1 = t1
    t2 = t2
    s1 = s1
    s2 = s2
    s3 = s3
    s4 = s4
    None = None
    Requests <- TwoRequests
    Threads = {t1, t2}
    Systems = {s1, s2, s3, s4}
INVARIANT
    OneScenario
CHECK_DEADLOCK FALSE
