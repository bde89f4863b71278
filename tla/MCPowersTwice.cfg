SPECIFICATION Spec
CONSTANTS
    Members = {u1, u2}
    Nobody = Nobody
    Powers = {p1, p2}
    Requests = {q1, q2}
    MaxRequests = 4
CHECK_DEADLOCK FALSE

PROPERTY OnlyPendingIsDecided
