------------------------------- MODULE MCLive --------------------------------
(***************************************************************************)
(* Instances for TLC under fairness: the scheduler, the loans' requests    *)
(* and the closing of CAPs. A behaviour is one of an instance, which the   *)
(* other variables take no part in.                                        *)
(***************************************************************************)
EXTENDS Naturals, Sequences, TLC

CONSTANTS r1, r2, q1, q2, m1, l1, l2, a1, a2, None

VARIABLES
    which,                                                      \* the instance
    day, faults,                                                \* of two of them
    job, unprocessed, processed, returned, pc, due, cur, summary,
    tx, overlaps, writes,                                       \* Scheduler
    loan, detail, reminders, req, mailed, undone, leftover, requests,   \* Loans
    state, end, creating, names, status, ran, closed, puts, reopened    \* CapClosing

ofScheduler == <<job, unprocessed, processed, returned, pc, due, cur, summary,
                 tx, overlaps, writes>>
ofLoans == <<loan, detail, reminders, req, mailed, undone, leftover, requests>>
ofCaps == <<state, end, creating, names, status, ran, closed, puts, reopened>>
vars == <<which, day, faults, ofScheduler, ofLoans, ofCaps>>

-----------------------------------------------------------------------------
\* The first row of a birthday chain, and one that is rejected at every pass.
LegacyRow(kind, owner, repeat, sound) ==
    [type |-> "notifications", kind |-> kind, owner |-> owner, date |-> 0,
     repeat |-> repeat, sound |-> sound, parent |-> 0]
LegacyPoison == <<LegacyRow("birthdate", m1, 4, TRUE),
                  LegacyRow("payment_reminder", l1, 1, FALSE)>>

Sch == INSTANCE Scheduler WITH
    Runners <- {r1, r2}, Requests <- {q1}, Members <- {m1}, Loans <- {l1}, Accounts <- {},
    Step <- <<1, 1, 2, 2>>, Leads <- {0, 1}, Legacy <- LegacyPoison,
    MaxDay <- 0, MaxWrites <- 1, MaxFaults <- 1

\* Two loans whose rows two requests can take in opposite orders, or one and
\* its refinance.
Loa == INSTANCE Loans WITH
    Loans <- {l1, l2}, Requests <- {q1, q2}, MaxRequests <- 2,
    Openings <- {l1 :> "approved" @@ l2 :> "approved", l1 :> "approved" @@ l2 :> "none"}

\* A CAP, and one that was removed by hand.
Cap == INSTANCE CapClosing WITH
    Accounts <- {a1, a2}, Orphans <- {a2}, MaxDay <- 2, MaxPuts <- 1, MaxFaults <- 2

ASSUME InstancesAssumption ==
    Sch!ConstantsAssumption /\ Loa!ConstantsAssumption /\ Cap!ConstantsAssumption

-----------------------------------------------------------------------------
NoScheduler == /\ job = {} /\ unprocessed = {} /\ processed = {} /\ returned = {}
               /\ pc = {} /\ due = {} /\ cur = {} /\ summary = {}
               /\ tx = {} /\ overlaps = {} /\ writes = {}
NoLoans == /\ loan = {} /\ detail = {} /\ reminders = {} /\ req = {}
           /\ mailed = {} /\ undone = {} /\ leftover = {} /\ requests = {}
NoCaps == /\ state = {} /\ end = {} /\ creating = {} /\ names = {} /\ status = {}
          /\ ran = {} /\ closed = {} /\ puts = {} /\ reopened = {}

Init ==
    \/ which = "scheduler" /\ Sch!Init /\ NoLoans /\ NoCaps
    \/ which = "loans" /\ Loa!Init /\ NoScheduler /\ NoCaps /\ day = {} /\ faults = {}
    \/ which = "caps" /\ Cap!Init /\ NoScheduler /\ NoLoans

OfScheduler(A) == which = "scheduler" /\ A /\ UNCHANGED <<which, ofLoans, ofCaps>>
OfLoans(A) == which = "loans" /\ A /\ UNCHANGED <<which, day, faults, ofScheduler, ofCaps>>
OfCaps(A) == which = "caps" /\ A /\ UNCHANGED <<which, ofScheduler, ofLoans>>

Next == OfScheduler(Sch!Next) \/ OfLoans(Loa!Next) \/ OfCaps(Cap!Next)

\* The fairness of each module, in the behaviours of its instance.
svars == <<day, faults, ofScheduler>>
cvars == <<day, faults, ofCaps>>

Fairness ==
    /\ \A r \in {r1, r2} : WF_svars(which = "scheduler" /\ Sch!RunnerStep(r))
    /\ WF_svars(which = "scheduler" /\
                  (Sch!Commit(q1) \/ Sch!Rollback(q1) \/ Sch!ScheduleNotification(q1)))
    /\ \A q \in {q1, q2} : /\ WF_ofLoans(which = "loans" /\ Loa!Statement(q))
                           /\ WF_ofLoans(which = "loans" /\ Loa!Rollback(q))
    /\ \A a \in {a1, a2} : WF_cvars(which = "caps" /\ Cap!Schedule(a))
    /\ \A i \in 1..2 : WF_cvars(which = "caps" /\ i \in Cap!Tasks /\ Cap!Run(i))

FairSpec == Init /\ [][Next]_vars /\ Fairness

-----------------------------------------------------------------------------
(* The properties: those of the modules, of the behaviours of their instances *)

\* bound: every row of the instance has an id of 5 at most.
MaxId == 5

\* Every runnable row is run, deleted or stranded by a fault, although a
\* malformed row fails at every pass.
EventuallyRun(id) ==
    (which = "scheduler" /\ id \in Sch!Ids /\ Sch!Runnable(id)) ~>
        (which = "scheduler" => id \in returned \/ id \notin Sch!Present \/ Sch!Stranded(id))
EventuallyRunAll == \A id \in 1..MaxId : EventuallyRun(id)

\* Two requests that take the rows of two loans in opposite orders both end.
RequestsEnd == \A q \in {q1, q2} : []<>(which = "loans" => req[q].at = "idle")

\* A CAP that reaches its end_date is closed in the end, or forsaken by a fault
\* or a reopening.
ClosedInTheEnd ==
    \A a \in {a1, a2} :
        (which = "caps" /\ state[a] = "active" /\ end[a] <= day)
            ~> (which = "caps" => state[a] # "active" \/ Cap!Forsaken(a) \/ reopened > 0)
=============================================================================
