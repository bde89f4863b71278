SPECIFICATION TablesSpec
CONSTANTS
    Runners = {r1, r2}
    Requests = {q1, q2}
    Members = {m1}
    Loans = {l1}
    Accounts = {a1}
    m1 = m1
    l1 = l1
    a1 = a1
    Step <- MCStep
    Leads <- MCLeads
    Legacy <- LegacyChain
    MaxDay = 1
    MaxWrites = 2
    MaxFaults = 0
CHECK_DEADLOCK FALSE
SYMMETRY RunnerSymmetry
INVARIANTS HeldIsProcessed RunsInOrder OneChainUnlessOverlapped OneReminderPerDay
