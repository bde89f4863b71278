SPECIFICATION FairSpec
CONSTANTS
    Runners = {r1}
    Requests = {q1}
    Members = {m1}
    Loans = {l1}
    Accounts = {a1}
    m1 = m1
    l1 = l1
    a1 = a1
    Step <- MCStep
    Leads <- MCLeads
    Legacy <- LegacyReminder
    MaxDay = 0
    MaxWrites = 1
    MaxFaults = 0
CHECK_DEADLOCK FALSE
PROPERTY SkippedRowsAreClaimed
