\* A jobs command and pkg check -d, which upgrades a lock it does not hold.
SPECIFICATION Spec
CONSTANTS
    p1 = p1
    p2 = p2
    p3 = p3
    p4 = p4
    Proc = {p1, p2}
    Workloads <- JobsAndCheck
    MaxTries = 2
    ReadLock = TRUE
    Errors = {}
    Crashes = FALSE
INVARIANT ExclusiveIsAlone
CHECK_DEADLOCK FALSE
