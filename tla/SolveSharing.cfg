\* Two packages are upgraded, any files: the new ones may share a path.
SPECIFICATION Spec
CONSTANTS
    Uid = {1, 2, 3}
    Ver = {0, 1, 2}
    Path = {1, 2}
    Feature = {1}
    Worlds <- BothWorlds
    MaxPlans = 3
    AnyPkg = AnyPkg
INVARIANT NoPathIsShared
CHECK_DEADLOCK FALSE
