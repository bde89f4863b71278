SPECIFICATION Spec
CONSTANTS
    Names = {a, A, b}
    LowerNames = {a, b}
    Requests = {q1, q2}
    MaxRequests = 3
CHECK_DEADLOCK FALSE
INVARIANT StoredIsListed
