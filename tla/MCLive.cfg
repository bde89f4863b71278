SPECIFICATION FairSpec
CONSTANTS
    r1 = r1
    r2 = r2
    q1 = q1
    q2 = q2
    m1 = m1
    l1 = l1
    l2 = l2
    a1 = a1
    a2 = a2
    None = None
CHECK_DEADLOCK FALSE
PROPERTIES EventuallyRunAll RequestsEnd ClosedInTheEnd
