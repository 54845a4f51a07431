\* Writers: a reset decided on a scan that is out of date.
SPECIFICATION Spec
CONSTANTS
    p1 = p1
    p2 = p2
    p3 = p3
    p4 = p4
    Proc = {p1, p2}
    Workloads <- Writers
    MaxTries = 2
    ReadLock = TRUE
    Errors = {}
    Crashes = FALSE
PROPERTY ResetIsSafe
CHECK_DEADLOCK FALSE
