\* Two and three packages, a vital one and pkg itself: splits, failures, crashes.
SPECIFICATION FairExecuteSpec
CONSTANTS
    Uid = {1, 2, 3}
    Requests <- SolvedRequests
    NoJob = NoJob
    Self = {3}
    Forced = FALSE
INVARIANTS ExecuteTypeOK DependenciesPresent NoConflictRegistered DamageIsLocal CompletedIsSolved SplitOldIsGone RegisteredIsOnDisk
PROPERTIES NewStaysNew ExecutionEnds
CHECK_DEADLOCK FALSE
