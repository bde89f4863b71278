SPECIFICATION FairSpec
CONSTANTS
    Loans = {l1, l2}
    Requests = {q1, q2}
    None = None
    l1 = l1
    l2 = l2
    l3 = l3
    Openings <- OpeningsRefinance
    MaxRequests = 2
CHECK_DEADLOCK FALSE
INVARIANT DeniedIsUnlinked
