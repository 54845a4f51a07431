\* A package is kept although what provides its requirement is upgraded away.
SPECIFICATION Spec
CONSTANTS
    Uid = {1, 2, 3}
    Ver = {0, 1, 2}
    Path = {1, 2}
    Feature = {1}
    Worlds <- RequireWorlds
    MaxPlans = 3
    AnyPkg = AnyPkg
INVARIANT RequirementsMet
CHECK_DEADLOCK FALSE
