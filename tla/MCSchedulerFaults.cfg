SPECIFICATION TablesSpec
CONSTANTS
    Runners = {r1, r2}
    Requests = {q1}
    Members = {m1}
    Loans = {l1}
    Accounts = {a1}
    m1 = m1
    l1 = l1
    a1 = a1
    Step <- MCStep
    Leads <- MCLeads
    Legacy <- LegacyChain
    MaxDay = 1
    MaxWrites = 1
    MaxFaults = 2
CHECK_DEADLOCK FALSE
SYMMETRY RunnerSymmetry
INVARIANTS TypeOK ClaimExcludes ReturnedIsFinal LossNeedsFault
PROPERTIES DeletedStaysDeleted ImplementsQueue
