SPECIFICATION Spec
CONSTANTS
    Suite = {"members", "powers", "subscriptions", "activities", "years", "files", "accounts", "resets", "caps"}
    Nobody = Nobody
    Malformed = Malformed
    Users = {u1, u2}
    u1 = u1
    u2 = u2
    i1 = i1
    i2 = i2
    i3 = i3
    p1 = p1
    p2 = p2
    a1 = a1
    a2 = a2
    a3 = a3
    e1 = e1
    e2 = e2
    e3 = e3
    b1 = b1
    b2 = b2
    Requests = {q1, q2}
SYMMETRY RequestSymmetry
INVARIANTS TypesOK FinancesHold SubscriptionsHold OneYearEnabled
    FilesHold LoginsHold ResetsHold CapsHold
PROPERTIES PrivilegedByAdminOrEcho LoanFitsUnlessMoved PowersHold ChargesTheActive
    AccountsStayClosed
CHECK_DEADLOCK FALSE
