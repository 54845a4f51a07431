\* Three writers that never retry, one of which may die.
SPECIFICATION FairSpec
CONSTANTS
    p1 = p1
    p2 = p2
    p3 = p3
    p4 = p4
    Proc = {p1, p2, p3}
    Workloads <- Writers
    MaxTries = 0
    ReadLock = TRUE
    Errors = {}
    Crashes = TRUE
PROPERTY CommandsEnd
CHECK_DEADLOCK FALSE
