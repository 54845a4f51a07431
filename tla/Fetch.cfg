\* Two commands race for an archive; a third finds what they left.
SPECIFICATION FairSpec
CONSTANTS
    p1 = p1
    p2 = p2
    p3 = p3
    big = big
    small = small
    Proc = {p1, p2, p3}
    Archive = {big, small}
    Size <- MCSize
    Jobs <- MCJobs
    Together <- MCTogether
    None = None
INVARIANTS FetchTypeOK FetchRepairs
PROPERTIES FetchesEnd
CHECK_DEADLOCK FALSE
