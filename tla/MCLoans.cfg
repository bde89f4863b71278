SPECIFICATION Spec
CONSTANTS
    Loans = {l1, l2, l3}
    Requests = {q1, q2}
    None = None
    l1 = l1
    l2 = l2
    l3 = l3
    Openings <- OpeningsMany
    MaxRequests = 4
CHECK_DEADLOCK FALSE
SYMMETRY RequestSymmetry
INVARIANTS TypeOK BooksAgree OneMailPerDecision FileSparesListed PaidKeepsNoReminder
PROPERTY ImplementsBook
