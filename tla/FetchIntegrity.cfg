\* The integrity check of `pkg fetch' against archives of the right size.
SPECIFICATION Spec
CONSTANTS
    p1 = p1
    p2 = p2
    p3 = p3
    big = big
    small = small
    Proc = {p1, p2, p3}
    Archive = {big, small}
    Size <- MCSize
    Jobs <- MCJobs
    Together <- MCTogether
    None = None
INVARIANTS IntegrityCheckChecks
CHECK_DEADLOCK FALSE
