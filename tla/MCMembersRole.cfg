SPECIFICATION Spec
CONSTANTS
    u1 = u1
    u2 = u2
    i1 = i1
    i2 = i2
    Members = {u1, u2}
    Nobody = Nobody
    Opening <- OpeningTwo
    Identity <- IdentityTwo
    Identifications = {i1, i2, i3}
    Malformed = Malformed
    Requests = {q1, q2}
    MaxRequests = 3
    MaxLines = 2
CHECK_DEADLOCK FALSE
SYMMETRY RequestSymmetry

PROPERTY RoleByAdminAlone
