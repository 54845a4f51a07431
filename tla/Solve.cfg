\* Every universe and request; conflicts are found and solved again.
SPECIFICATION FairSpec
CONSTANTS
    Uid = {1, 2, 3}
    Ver = {0, 1, 2}
    Path = {1, 2}
    Feature = {1}
    Worlds <- AllWorlds
    MaxPlans = 3
    AnyPkg = AnyPkg
INVARIANTS SolveTypeOK DependenciesMet FoundConflictsExcluded SharingIsRegistered FailureHasCulprit
PROPERTY RoundsEnd
CHECK_DEADLOCK FALSE
