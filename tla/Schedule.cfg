\* Every transaction of two packages, and upgrades of three with conflicts.
SPECIFICATION FairSpec
CONSTANTS
    Uid = {1, 2, 3}
    Requests <- AllRequests
    NoJob = NoJob
INVARIANTS TypeOK OrderRespectsEdges SortIsComplete PathIsAssertSound FailsOnlyOnCircularDependencies
PROPERTY Terminates
CHECK_DEADLOCK FALSE
