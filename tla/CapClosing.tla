------------------------------ MODULE CapClosing ------------------------------
(***************************************************************************)
(* Saving accounts (CAPs) and their automatic closing (D12): the account,  *)
(* its close task and the executer that runs it                            *)
(* (src/saving-accounts/saving-account.service.ts,                         *)
(* src/scheduler/executers/saving-account-close.executer.ts).              *)
(*                                                                         *)
(* The scheduler is used through its abstract specification, TaskQueue,    *)
(* which module Scheduler implements: a task is taken, and then finished,  *)
(* given back or lost.                                                     *)
(*                                                                         *)
(* Definitions whose comment starts with "Variant:" are not the code's:    *)
(* each is the definition after it with one plausible bug, and shows that  *)
(* a property would notice that bug.                                       *)
(***************************************************************************)
EXTENDS Naturals, Sequences, FiniteSets

CONSTANTS
    Accounts,     \* rows of fondo_api_savingaccount, created or to be
    Orphans,      \* accounts removed by hand that a task still names
    MaxDay,       \* bound: the last day
    MaxPuts,      \* bound: how often an administrator writes a state
    MaxFaults     \* bound: crashes, lost answers and failed statements

VARIABLES
    state,        \* the state of each account, "absent" for no row
    end,          \* its end_date
    creating,     \* accounts inserted by a createAccount that goes on
    names,        \* the account each task names, in the order of the tasks
    status,       \* the status of each task, as in TaskQueue
    ran,          \* the taken tasks whose executer has run its UPDATE
    day,          \* today in America/Bogota
    closed,       \* history: how often the runner closed each account
    puts,         \* PUTs so far
    reopened,     \* history: PUTs that made a closed account active again
    faults        \* faults so far

vars == <<state, end, creating, names, status, ran, day, closed, puts, reopened, faults>>

ConstantsAssumption ==
    /\ IsFiniteSet(Accounts) /\ Orphans \subseteq Accounts
    /\ MaxDay \in Nat /\ MaxPuts \in Nat /\ MaxFaults \in Nat

Queue == INSTANCE TaskQueue

\* "other": PUT writes any smallint.
States == {"absent", "active", "closed", "other"}

Init ==
    /\ state = [a \in Accounts |-> "absent"]
    /\ end = [a \in Accounts |-> 0]
    /\ creating = {}
    /\ names \in [1..Cardinality(Orphans) -> Orphans]
    /\ \A i, j \in DOMAIN names : names[i] = names[j] => i = j
    /\ status = [i \in DOMAIN names |-> "pending"]
    /\ ran = {}
    /\ day = 0
    /\ closed = [a \in Accounts |-> 0]
    /\ puts = 0 /\ reopened = 0 /\ faults = 0

Fault == faults < MaxFaults /\ faults' = faults + 1

-----------------------------------------------------------------------------
(* Requests. *)

\* createAccount's first statement; the end_date may have passed.
Create(a) ==
    /\ state[a] = "absent" /\ a \notin Orphans
    /\ \E d \in 0..MaxDay : end' = [end EXCEPT ![a] = d]
    /\ state' = [state EXCEPT ![a] = "active"]
    /\ creating' = creating \cup {a}
    /\ UNCHANGED <<names, status, ran, day, closed, puts, reopened, faults>>

\* Variant: the insert is tried again without asking whether it was made.
ScheduleRetried(a) ==
    /\ a \in creating
    /\ names' = Append(names, a)
    /\ status' = Append(status, "pending")
    /\ UNCHANGED <<state, end, creating, ran, day, closed, puts, reopened, faults>>

\* createCloseSavingAccountTask, outside any transaction.
Schedule(a) ==
    /\ a \in creating
    /\ creating' = creating \ {a}
    /\ names' = Append(names, a)
    /\ status' = Append(status, "pending")
    /\ UNCHANGED <<state, end, ran, day, closed, puts, reopened, faults>>

\* The insert fails, or the process dies before it: the account stays.
ScheduleFails(a) ==
    /\ a \in creating
    /\ Fault
    /\ creating' = creating \ {a}
    /\ UNCHANGED <<state, end, names, status, ran, day, closed, puts, reopened>>

\* updateAccount, by an administrator or a treasurer.
Put(a, s) ==
    /\ state[a] # "absent"
    /\ puts < MaxPuts /\ puts' = puts + 1
    /\ state' = [state EXCEPT ![a] = s]
    /\ reopened' = IF state[a] # "active" /\ s = "active" THEN reopened + 1 ELSE reopened
    /\ UNCHANGED <<end, creating, names, status, ran, day, closed, faults>>

-----------------------------------------------------------------------------
(* The scheduler. *)

\* Variant: due on the day before.
TakeEarly(i) ==
    /\ Queue!Take(i)
    /\ end[names[i]] <= day + 1
    /\ UNCHANGED <<state, end, creating, names, ran, day, closed, puts, reopened, faults>>

\* run_date is the end_date; the runner selects what is due.
Take(i) ==
    /\ Queue!Take(i)
    /\ end[names[i]] <= day
    /\ UNCHANGED <<state, end, creating, names, ran, day, closed, puts, reopened, faults>>

\* Variant: UPDATE without "AND state = 0".
CloseBlind(i) ==
    LET a == names[i] IN
    /\ status[i] = "taken" /\ i \notin ran
    /\ state[a] # "absent"
    /\ state' = [state EXCEPT ![a] = "closed"]
    /\ closed' = [closed EXCEPT ![a] = @ + 1]
    /\ ran' = ran \cup {i}
    /\ UNCHANGED <<end, creating, names, status, day, puts, reopened, faults>>

\* closeAccount: UPDATE ... SET state = 1 WHERE id = ? AND state = 0; a row in
\* another state is left alone and is a success.
Close(i) ==
    LET a == names[i] IN
    /\ status[i] = "taken" /\ i \notin ran
    /\ state[a] # "absent"
    /\ state' = [state EXCEPT ![a] = IF @ = "active" THEN "closed" ELSE @]
    /\ closed' = [closed EXCEPT ![a] = IF state[a] = "active" THEN @ + 1 ELSE @]
    /\ ran' = ran \cup {i}
    /\ UNCHANGED <<end, creating, names, status, day, puts, reopened, faults>>

\* Variant: an account that does not exist is reported as closed.
CloseMissingDone(i) ==
    /\ state[names[i]] = "absent"
    /\ Queue!Finish(i)
    /\ UNCHANGED <<state, end, creating, names, ran, day, closed, puts, reopened, faults>>

\* closeAccount throws for an account that does not exist: the task is given
\* back, so that this stays visible.
CloseMissing(i) ==
    /\ state[names[i]] = "absent"
    /\ status[i] = "taken"
    /\ status' = [status EXCEPT ![i] = "pending"]
    /\ UNCHANGED <<state, end, creating, names, ran, day, closed, puts, reopened, faults>>

\* Variant: a close that fails is not retried ("return { ok: false }").
FailsForGood(i) ==
    /\ status[i] = "taken"
    /\ Fault
    /\ Queue!Finish(i)
    /\ ran' = ran \ {i}
    /\ UNCHANGED <<state, end, creating, names, day, closed, puts, reopened>>

\* Variant: the task is finished whether the UPDATE ran or not.
FinishAny(i) ==
    /\ Queue!Finish(i)
    /\ ran' = ran \ {i}
    /\ UNCHANGED <<state, end, creating, names, day, closed, puts, reopened, faults>>

\* The executer returns.
Finish(i) ==
    /\ i \in ran
    /\ Queue!Finish(i)
    /\ ran' = ran \ {i}
    /\ UNCHANGED <<state, end, creating, names, day, closed, puts, reopened, faults>>

\* A statement of the executer throws, applied or not: the task is given back.
Fails(i) ==
    /\ status[i] = "taken"
    /\ Fault
    /\ status' = [status EXCEPT ![i] = "pending"]
    /\ ran' = ran \ {i}
    /\ UNCHANGED <<state, end, creating, names, day, closed, puts, reopened>>

\* The answer to the claim is lost, or the process dies with the task taken.
Lost(i) ==
    /\ Queue!Drop(i)
    /\ Fault
    /\ ran' = ran \ {i}
    /\ UNCHANGED <<state, end, creating, names, day, closed, puts, reopened>>

NextDay ==
    /\ day < MaxDay
    /\ day' = day + 1
    /\ UNCHANGED <<state, end, creating, names, status, ran, closed, puts, reopened, faults>>

Tasks == DOMAIN names
Run(i) == Take(i) \/ Close(i) \/ CloseMissing(i) \/ Finish(i)

Next ==
    \/ \E a \in Accounts : \/ Create(a) \/ Schedule(a) \/ ScheduleFails(a)
                           \/ \E s \in States \ {"absent"} : Put(a, s)
    \/ \E i \in Tasks : Run(i) \/ Fails(i) \/ Lost(i)
    \/ NextDay

Spec == Init /\ [][Next]_vars

\* A live process goes on with the createAccount it serves, and the scheduler
\* runs what is due (Scheduler, EventuallyRun).
Fairness ==
    /\ \A a \in Accounts : WF_vars(Schedule(a))
    /\ \A i \in 1..(Cardinality(Accounts)) : WF_vars(i \in Tasks /\ Run(i))

FairSpec == Spec /\ Fairness

-----------------------------------------------------------------------------
(* Properties. *)

\* Every variable has its type; there is one task per account at most.
TypeOK ==
    /\ state \in [Accounts -> States]
    /\ end \in [Accounts -> 0..MaxDay]
    /\ creating \subseteq {a \in Accounts : state[a] # "absent"}
    /\ names \in Seq(Accounts) /\ status \in Seq(Queue!Statuses)
    /\ DOMAIN names = DOMAIN status
    /\ \A i, j \in Tasks : names[i] = names[j] => i = j
    /\ \A i \in Tasks : names[i] \notin creating
    /\ ran \subseteq {i \in Tasks : status[i] = "taken"}
    /\ day \in 0..MaxDay
    /\ closed \in [Accounts -> Nat]
    /\ puts \in 0..MaxPuts /\ reopened \in 0..MaxPuts /\ faults \in 0..MaxFaults

\* The runner closes no account before its end_date.
NeverClosedEarly == \A a \in Accounts : closed[a] > 0 => end[a] <= day

\* The close is idempotent: a task that is retried closes its account again
\* only if an administrator made it active in between (C78).
ClosedOncePerOpening ==
    \A a \in Accounts : closed[a] <= 1 + reopened

\* A task whose account does not exist is never reported as done: it stays in
\* the queue, or a fault lost it.
MissingStaysVisible ==
    \A i \in Tasks : state[names[i]] = "absent" => status[i] # "done"

\* An active account that nobody is going to close any more is the trace of a
\* fault or of a reopening: findUnclosedPastDue reports it once it is overdue.
Driven(a) == a \in creating \/ \E i \in Tasks : names[i] = a /\ status[i] \in {"pending", "taken"}
UndrivenNeedsCause ==
    Cardinality({a \in Accounts : state[a] = "active" /\ ~Driven(a)}) <= faults + reopened

\* An account that reaches its end_date is closed in the end, failed attempts
\* notwithstanding, unless its task was lost or never written, or an
\* administrator made an account active again.
Forsaken(a) == a \notin creating /\ \A i \in Tasks : names[i] = a => status[i] = "lost"
ClosedInTheEnd ==
    \A a \in Accounts :
        (state[a] = "active" /\ end[a] <= day)
            ~> (state[a] # "active" \/ Forsaken(a) \/ reopened > 0)
=============================================================================
