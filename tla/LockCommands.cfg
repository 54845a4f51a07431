\* Any two commands, or three readers and writers; crashes; p2 meets SQL errors.
SPECIFICATION FairSpec
CONSTANTS
    p1 = p1
    p2 = p2
    p3 = p3
    p4 = p4
    Proc = {p1, p2, p3, p4}
    Workloads <- TwoOrThree
    MaxTries = 1
    ReadLock = TRUE
    Errors = {p2}
    Crashes = TRUE
INVARIANTS TypeOK LocksExclude RowsRecordHolders WorkIsRegistered QuiescentIsFree
PROPERTIES StepsAreLockSteps StaleLockRecovered
CHECK_DEADLOCK FALSE
