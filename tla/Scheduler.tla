------------------------------ MODULE Scheduler ------------------------------
(***************************************************************************)
(* The task table fondo_api_schedulertask, the processes that run its      *)
(* tasks (src/scheduler) and the web requests that write it                *)
(* (NotificationService, UserService, LoanService, SavingAccountService).  *)
(*                                                                         *)
(* Every await of the code on the database is a step of its own: another   *)
(* runner, a request or a crash may come between any two of them.  The     *)
(* database is PostgreSQL at READ COMMITTED, so a statement sees what is   *)
(* committed when it starts, and a transaction's writes appear at once.    *)
(*                                                                         *)
(* The columns of a row other than "processed" are never updated by any    *)
(* code, so job[id] keeps them for every row ever inserted and the sets    *)
(* unprocessed and processed say which rows are present.                   *)
(*                                                                         *)
(* Definitions whose comment starts with "Variant:" are not the code's:    *)
(* each is the definition after it with one plausible bug, and shows that  *)
(* a property would notice that bug.                                       *)
(***************************************************************************)
EXTENDS Naturals, Sequences, FiniteSets

CONSTANTS
    Runners,      \* processes deployed with SCHEDULER_ENABLED=true
    Requests,     \* web requests that may hold a transaction at one time
    Members,      \* owner ids of birthdays
    Loans,        \* owner ids of payment reminders
    Accounts,     \* saving accounts (CAPs)
    Step,         \* days that repeat = 1..4 moves a run_date by
    Leads,        \* how many days before the payday a reminder is sent
    Legacy,       \* the rows the table holds when the runner is first deployed
    MaxDay,       \* bound: the last day
    MaxWrites,    \* bound: how many requests write the table
    MaxFaults     \* bound: crashes, lost answers and failed statements

VARIABLES
    job,          \* the immutable columns of each row, by id
    unprocessed,  \* ids of the rows with processed = false
    processed,    \* ids of the rows with processed = true
    returned,     \* history: ids whose executer has returned
    day,          \* today in America/Bogota
    pc,           \* what each runner does next
    due,          \* the rows its pass has loaded and not reached yet
    cur,          \* the row it has claimed, 0 for none
    summary,      \* SchedulerRunSummary of its pass, as sets of ids
    tx,           \* the transaction each request has open
    overlaps,     \* history: birthday edits while a runner held a row of the member
    writes,       \* requests so far
    faults        \* faults so far

table == <<job, unprocessed, processed, returned>>
runner == <<pc, due, cur, summary>>
web == <<tx, overlaps, writes>>
vars == <<table, day, runner, web, faults>>

KnownTypes == {"notifications", "closeSavingAccount"}
Types == KnownTypes \cup {"unknown"}
Kinds == {"birthdate", "payment_reminder", "close_saving_account"}
Owners == Members \cup Loans \cup Accounts
Yearly == 4

\* sound: the payload has every key its executer requires, in the right shape.
\* parent: history, the row this one was cloned from, 0 for none.
Row == [type : Types, kind : Kinds, owner : Owners, date : Nat, repeat : Nat,
        sound : BOOLEAN, parent : Nat]

\* The rows SchedulerRunSummary's two counters count; the pass logs them.
Summary == [skippedClaimed : SUBSET Nat, errored : SUBSET Nat]
NoSummary == [skippedClaimed |-> {}, errored |-> {}]

Ops == {"none", "birthday", "reminders", "payout"}
NoTx == [op |-> "none", owner |-> CHOOSE o \in Owners : TRUE,
         todo |-> {}, drop |-> {}, add |-> <<>>]

ASSUME ConstantsAssumption ==
    /\ Owners # {}
    /\ Step \in [1..4 -> Nat \ {0}]
    /\ Leads \subseteq Nat
    /\ Legacy \in Seq(Row)
    /\ \A i \in 1..Len(Legacy) : Legacy[i].parent = 0
    /\ MaxDay \in Nat /\ MaxWrites \in Nat /\ MaxFaults \in Nat

Ids == 1..Len(job)
Present == unprocessed \cup processed

Init ==
    /\ job = Legacy
    /\ unprocessed = 1..Len(Legacy)
    /\ processed = {} /\ returned = {}
    /\ day = 0
    /\ pc = [r \in Runners |-> "idle"]
    /\ due = [r \in Runners |-> {}]
    /\ cur = [r \in Runners |-> 0]
    /\ summary = [r \in Runners |-> NoSummary]
    /\ tx = [q \in Requests |-> NoTx]
    /\ overlaps = 0 /\ writes = 0 /\ faults = 0

(***************************************************************************)
(* Faults: a crash, a statement that fails, an answer that is lost.        *)
(***************************************************************************)
Fault == faults < MaxFaults /\ faults' = faults + 1
NoFault == UNCHANGED faults

(***************************************************************************)
(* A runner's pass.                                                        *)
(***************************************************************************)

\* findDueUnprocessed: processed = false and run_date <= today.
DueUnprocessed == {id \in unprocessed : job[id].date <= day}

\* A row a transaction has deleted and not committed: an UPDATE of it waits.
Locked(id) == \E q \in Requests : id \in tx[q].drop

\* handleCron fires on an idle process only (waitForCompletion).  A pass that
\* loads nothing changes nothing and is not a step.
StartPass(r) ==
    /\ pc[r] = "idle"
    /\ DueUnprocessed # {}
    /\ pc' = [pc EXCEPT ![r] = "loop"]
    /\ due' = [due EXCEPT ![r] = DueUnprocessed]
    /\ UNCHANGED <<table, day, cur, summary, web, faults>>

\* ExecuterFactory.get throws before the claim.
UnknownType(r, id) ==
    /\ pc[r] = "loop" /\ id \in due[r]
    /\ job[id].type \notin KnownTypes
    /\ due' = [due EXCEPT ![r] = @ \ {id}]
    /\ summary' = [summary EXCEPT ![r].errored = @ \cup {id}]
    /\ UNCHANGED <<table, day, pc, cur, web, faults>>

\* Variant: UPDATE without "AND processed = false".
ClaimBlind(r, id) ==
    /\ pc[r] = "loop" /\ id \in due[r]
    /\ job[id].type \in KnownTypes
    /\ id \in Present
    /\ unprocessed' = unprocessed \ {id}
    /\ processed' = processed \cup {id}
    /\ due' = [due EXCEPT ![r] = @ \ {id}]
    /\ cur' = [cur EXCEPT ![r] = id]
    /\ pc' = [pc EXCEPT ![r] = "run"]
    /\ UNCHANGED <<job, returned, day, summary, web, faults>>

\* Variant: the row is read again, and marked only after its executer returned.
ClaimRead(r, id) ==
    /\ pc[r] = "loop" /\ id \in due[r]
    /\ job[id].type \in KnownTypes
    /\ id \in unprocessed
    /\ due' = [due EXCEPT ![r] = @ \ {id}]
    /\ cur' = [cur EXCEPT ![r] = id]
    /\ pc' = [pc EXCEPT ![r] = "run"]
    /\ UNCHANGED <<table, day, summary, web, faults>>

\* UPDATE ... SET processed = true WHERE id = ? AND processed = false, count 1.
ClaimWon(r, id) ==
    /\ pc[r] = "loop" /\ id \in due[r]
    /\ job[id].type \in KnownTypes
    /\ ~Locked(id)
    /\ id \in unprocessed
    /\ unprocessed' = unprocessed \ {id}
    /\ processed' = processed \cup {id}
    /\ due' = [due EXCEPT ![r] = @ \ {id}]
    /\ cur' = [cur EXCEPT ![r] = id]
    /\ pc' = [pc EXCEPT ![r] = "run"]
    /\ UNCHANGED <<job, returned, day, summary, web, faults>>

\* The same statement with count 0: the row is skipped.
ClaimLost(r, id) ==
    /\ pc[r] = "loop" /\ id \in due[r]
    /\ job[id].type \in KnownTypes
    /\ ~Locked(id)
    /\ id \notin unprocessed
    /\ due' = [due EXCEPT ![r] = @ \ {id}]
    /\ summary' = [summary EXCEPT ![r].skippedClaimed = @ \cup {id}]
    /\ UNCHANGED <<table, day, pc, cur, web, faults>>

\* The statement throws, before or after the database has applied it.  The
\* inner try starts after the claim, so nothing is released.
ClaimFails(r, id) ==
    /\ pc[r] = "loop" /\ id \in due[r]
    /\ job[id].type \in KnownTypes
    /\ Fault
    /\ \/ UNCHANGED <<unprocessed, processed>>
       \/ /\ id \in unprocessed /\ ~Locked(id)
          /\ unprocessed' = unprocessed \ {id}
          /\ processed' = processed \cup {id}
    /\ due' = [due EXCEPT ![r] = @ \ {id}]
    /\ summary' = [summary EXCEPT ![r].errored = @ \cup {id}]
    /\ UNCHANGED <<job, returned, day, pc, cur, web>>

\* executer.run(payload) returns, whether or not it delivered (ok is logged,
\* nothing else depends on it).
ExecuterReturns(r) ==
    /\ pc[r] = "run"
    /\ job[cur[r]].sound
    /\ returned' = returned \cup {cur[r]}
    /\ pc' = [pc EXCEPT ![r] = "clone"]
    /\ UNCHANGED <<job, unprocessed, processed, day, due, cur, summary, web, faults>>

\* Variant: the error is caught where nothing is released.
RejectsSilently(r) ==
    /\ pc[r] = "run"
    /\ ~job[cur[r]].sound
    /\ pc' = [pc EXCEPT ![r] = "loop"]
    /\ cur' = [cur EXCEPT ![r] = 0]
    /\ UNCHANGED <<table, day, due, summary, web, faults>>

\* executer.run(payload) throws: the payload is malformed ...
ExecuterRejects(r) ==
    /\ pc[r] = "run"
    /\ ~job[cur[r]].sound
    /\ pc' = [pc EXCEPT ![r] = "release"]
    /\ UNCHANGED <<table, day, due, cur, summary, web, faults>>

\* ... or a query of the executer failed.
ExecuterFails(r) ==
    /\ pc[r] = "run"
    /\ job[cur[r]].sound
    /\ Fault
    /\ pc' = [pc EXCEPT ![r] = "release"]
    /\ UNCHANGED <<table, day, due, cur, summary, web>>

\* Variant: one row's error ends the pass.
ErrorAborts(r) ==
    /\ pc' = [pc EXCEPT ![r] = "loop"]
    /\ cur' = [cur EXCEPT ![r] = 0]
    /\ due' = [due EXCEPT ![r] = {}]
    /\ summary' = [summary EXCEPT ![r].errored = @ \cup {cur[r]}]
    /\ UNCHANGED <<returned, day, web>>

\* Variant: a row that failed is put back on the list, to be tried again in
\* this pass.
ErrorRetries(r) ==
    /\ pc' = [pc EXCEPT ![r] = "loop"]
    /\ cur' = [cur EXCEPT ![r] = 0]
    /\ due' = [due EXCEPT ![r] = @ \cup {cur[r]}]
    /\ summary' = [summary EXCEPT ![r].errored = @ \cup {cur[r]}]
    /\ UNCHANGED <<returned, day, web>>

\* The outer catch: the row counts as errored and the pass goes on.
Errored(r) ==
    /\ pc' = [pc EXCEPT ![r] = "loop"]
    /\ cur' = [cur EXCEPT ![r] = 0]
    /\ summary' = [summary EXCEPT ![r].errored = @ \cup {cur[r]}]
    /\ UNCHANGED <<returned, day, due, web>>

\* Variant: the row is saved as it was read, which inserts it if it is gone.
ReleaseSaves(r) ==
    /\ pc[r] = "release"
    /\ ~Locked(cur[r])
    /\ processed' = processed \ {cur[r]}
    /\ unprocessed' = unprocessed \cup {cur[r]}
    /\ Errored(r)
    /\ UNCHANGED <<job, faults>>

\* UPDATE ... SET processed = false WHERE id = ?; no row, no effect.
Release(r) ==
    /\ pc[r] = "release"
    /\ ~Locked(cur[r])
    /\ processed' = processed \ {cur[r]}
    /\ unprocessed' = IF cur[r] \in Present THEN unprocessed \cup {cur[r]} ELSE unprocessed
    /\ Errored(r)
    /\ UNCHANGED <<job, faults>>

\* The release throws in its turn: logged, and the row stays claimed.
ReleaseFails(r) ==
    /\ pc[r] = "release"
    /\ Fault
    /\ Errored(r)
    /\ UNCHANGED <<job, unprocessed, processed>>

\* isSchedulerRepeat
Repeats(id) == job[id].repeat \in 1..4
Successor(id) == [job[id] EXCEPT !.date = @ + Step[job[id].repeat], !.parent = id]

\* createRepeatInstance with repeat = NONE clones nothing.
NoRepeat(r) ==
    /\ pc[r] = "clone"
    /\ job[cur[r]].repeat = 0
    /\ pc' = [pc EXCEPT ![r] = "loop"]
    /\ cur' = [cur EXCEPT ![r] = 0]
    /\ UNCHANGED <<table, day, due, summary, web, faults>>

\* Variant: the clone goes through the same-day dedupe.
CloneIfAbsent(r) ==
    /\ pc[r] = "clone"
    /\ Repeats(cur[r])
    /\ LET next == Successor(cur[r]) IN
          IF \E id \in unprocessed : /\ job[id].kind = next.kind /\ job[id].owner = next.owner
                                     /\ job[id].date = next.date
          THEN UNCHANGED <<job, unprocessed>>
          ELSE /\ job' = Append(job, next)
               /\ unprocessed' = unprocessed \cup {Len(job) + 1}
    /\ pc' = [pc EXCEPT ![r] = "loop"]
    /\ cur' = [cur EXCEPT ![r] = 0]
    /\ UNCHANGED <<processed, returned, day, due, summary, web, faults>>

\* createRepeatInstance inserts the next occurrence, past the same-day dedupe.
Clone(r) ==
    /\ pc[r] = "clone"
    /\ Repeats(cur[r])
    /\ job' = Append(job, Successor(cur[r]))
    /\ unprocessed' = unprocessed \cup {Len(job) + 1}
    /\ pc' = [pc EXCEPT ![r] = "loop"]
    /\ cur' = [cur EXCEPT ![r] = 0]
    /\ UNCHANGED <<processed, returned, day, due, summary, web, faults>>

\* Variant: a repeat it cannot clone gives the row back.
RefusalReleases(r) ==
    /\ pc[r] = "clone"
    /\ job[cur[r]].repeat > 4
    /\ pc' = [pc EXCEPT ![r] = "release"]
    /\ UNCHANGED <<table, day, due, cur, summary, web, faults>>

\* Variant: a repeat outside 0..4 is cloned too, and moves the date by nothing.
RefusalClones(r) ==
    /\ pc[r] = "clone"
    /\ job[cur[r]].repeat > 4
    /\ job' = Append(job, [job[cur[r]] EXCEPT !.parent = cur[r]])
    /\ unprocessed' = unprocessed \cup {Len(job) + 1}
    /\ Errored(r)
    /\ UNCHANGED <<processed, faults>>

\* createRepeatInstance refuses a repeat outside 0..4 (P7-D3).
RepeatRefused(r) ==
    /\ pc[r] = "clone"
    /\ job[cur[r]].repeat > 4
    /\ Errored(r)
    /\ UNCHANGED <<job, unprocessed, processed, faults>>

\* The insert throws, before or after the database has applied it.
CloneFails(r) ==
    /\ pc[r] = "clone"
    /\ Repeats(cur[r])
    /\ Fault
    /\ \/ UNCHANGED <<job, unprocessed>>
       \/ /\ job' = Append(job, Successor(cur[r]))
          /\ unprocessed' = unprocessed \cup {Len(job) + 1}
    /\ Errored(r)
    /\ UNCHANGED processed

\* handleCron logs the summary and forgets it.
EndPass(r) ==
    /\ pc[r] = "loop" /\ due[r] = {}
    /\ pc' = [pc EXCEPT ![r] = "idle"]
    /\ summary' = [summary EXCEPT ![r] = NoSummary]
    /\ UNCHANGED <<table, day, due, cur, web, faults>>

\* The process dies inside a pass and is restarted: its list is gone.
Crash(r) ==
    /\ pc[r] # "idle"
    /\ Fault
    /\ pc' = [pc EXCEPT ![r] = "idle"]
    /\ due' = [due EXCEPT ![r] = {}]
    /\ cur' = [cur EXCEPT ![r] = 0]
    /\ summary' = [summary EXCEPT ![r] = NoSummary]
    /\ UNCHANGED <<table, day, web>>

RunnerStep(r) ==
    \/ StartPass(r)
    \/ \E id \in due[r] : UnknownType(r, id) \/ ClaimWon(r, id) \/ ClaimLost(r, id)
    \/ ExecuterReturns(r) \/ ExecuterRejects(r) \/ Release(r)
    \/ NoRepeat(r) \/ Clone(r) \/ RepeatRefused(r)
    \/ EndPass(r)

RunnerFault(r) ==
    \/ \E id \in due[r] : ClaimFails(r, id)
    \/ ExecuterFails(r) \/ ReleaseFails(r) \/ CloneFails(r)
    \/ Crash(r)

(***************************************************************************)
(* The requests that write the table.                                      *)
(***************************************************************************)
Web == writes < MaxWrites /\ writes' = writes + 1

\* Variant: the deletion spares the rows that have not run.
RowsRun(kind, owner) == {id \in processed : job[id].kind = kind /\ job[id].owner = owner}

\* deleteByOwnerAndType's rows, whether processed or not.
RowsOf(kind, owner) == {id \in Present : job[id].kind = kind /\ job[id].owner = owner}

NewRow(kind, owner, date) ==
    [type |-> IF kind = "close_saving_account" THEN "closeSavingAccount" ELSE "notifications",
     kind |-> kind, owner |-> owner, date |-> date,
     repeat |-> IF kind = "birthdate" THEN Yearly ELSE 0, sound |-> TRUE, parent |-> 0]

KindOf(op) == IF op = "birthday" THEN "birthdate" ELSE "payment_reminder"

\* Variant: nothing is locked before the dedupe reads.
FreeAlways(op, owner) == TRUE

\* The row lock that admits one transaction of an operation on an owner:
\* auth_user's (birthday), the LoanDetail's (reminders), the Loan's (payout).
Free(op, owner) == \A q \in Requests : tx[q].op = op => tx[q].owner # owner

Begin(q, op, owner, todo, drop) ==
    /\ tx[q].op = "none"
    /\ Free(op, owner)
    /\ Web
    /\ tx' = [tx EXCEPT ![q] = [op |-> op, owner |-> owner,
                                todo |-> todo, drop |-> drop, add |-> <<>>]]
    /\ UNCHANGED <<table, day, runner, faults>>

HeldKind(kind, owner) ==
    \E r \in Runners : cur[r] # 0 /\ job[cur[r]].kind = kind /\ job[cur[r]].owner = owner

\* updateUserPersonal up to removeSchNotifications('birthdate').  The next
\* birthday is today, before the last pass of the day, or within a year.
BeginBirthday(q, m) ==
    \E d \in day..(day + Step[Yearly]) :
        /\ Begin(q, "birthday", m, {d}, RowsOf("birthdate", m))
        /\ overlaps' = IF HeldKind("birthdate", m) THEN overlaps + 1 ELSE overlaps

\* updateLoanDetail up to createScheduledTask, one reminder per lead time.
BeginReminders(q, l) ==
    \E payday \in 0..MaxDay :
        /\ Begin(q, "reminders", l, {payday - k : k \in {k \in Leads : k <= payday}}, {})
        /\ UNCHANGED overlaps

\* updateLoanIn(PAID_OUT) up to removeSchNotifications('payment_reminder').
BeginPayout(q, l) ==
    /\ Begin(q, "payout", l, {}, RowsOf("payment_reminder", l))
    /\ UNCHANGED overlaps

\* scheduleNotification: existsUnprocessedOnDay, then create unless it does.
\* The transaction sees what is committed, less what it has deleted itself.
ScheduleNotification(q) ==
    \E d \in tx[q].todo :
        LET kind == KindOf(tx[q].op)
            already == \E id \in unprocessed \ tx[q].drop :
                          job[id].kind = kind /\ job[id].owner = tx[q].owner /\ job[id].date = d
        IN  /\ tx' = [tx EXCEPT ![q].todo = @ \ {d},
                                ![q].add = IF already THEN @
                                           ELSE Append(@, NewRow(kind, tx[q].owner, d))]
            /\ UNCHANGED <<table, day, runner, overlaps, writes, faults>>

Commit(q) ==
    /\ tx[q].op # "none" /\ tx[q].todo = {}
    /\ job' = job \o tx[q].add
    /\ unprocessed' = (unprocessed \ tx[q].drop) \cup (Len(job)+1)..(Len(job)+Len(tx[q].add))
    /\ processed' = processed \ tx[q].drop
    /\ tx' = [tx EXCEPT ![q] = NoTx]
    /\ UNCHANGED <<returned, day, runner, overlaps, writes, faults>>

\* A statement fails, the transaction times out or the process dies.
Rollback(q) ==
    /\ tx[q].op # "none"
    /\ tx' = [tx EXCEPT ![q] = NoTx]
    /\ UNCHANGED <<table, day, runner, overlaps, writes, faults>>

\* createAccount's createCloseSavingAccountTask, a statement of its own, once
\* per account.
ScheduleClose(a) ==
    /\ \A id \in Ids : job[id].owner # a
    /\ Web
    /\ \E d \in 0..MaxDay : job' = Append(job, NewRow("close_saving_account", a, d))
    /\ unprocessed' = unprocessed \cup {Len(job) + 1}
    /\ UNCHANGED <<processed, returned, day, runner, tx, overlaps, faults>>

WebStep(q) ==
    \/ \E m \in Members : BeginBirthday(q, m)
    \/ \E l \in Loans : BeginReminders(q, l) \/ BeginPayout(q, l)
    \/ ScheduleNotification(q) \/ Commit(q) \/ Rollback(q)

NextDay ==
    /\ day < MaxDay
    /\ day' = day + 1
    /\ UNCHANGED <<table, runner, web, faults>>

Next ==
    \/ \E r \in Runners : RunnerStep(r) \/ RunnerFault(r)
    \/ \E q \in Requests : WebStep(q)
    \/ \E a \in Accounts : ScheduleClose(a)
    \/ NextDay

Spec == Init /\ [][Next]_vars

(***************************************************************************)
(* Fairness.  A deployed runner keeps running: the cron fires twice a day  *)
(* and no statement waits forever, since a transaction is bounded by a     *)
(* timeout and so ends.  Nothing is assumed of faults, of requests that    *)
(* have not begun, or of the day.                                          *)
(***************************************************************************)
Fairness ==
    /\ \A r \in Runners : WF_vars(RunnerStep(r))
    /\ \A q \in Requests : WF_vars(Commit(q) \/ Rollback(q) \/ ScheduleNotification(q))

FairSpec == Spec /\ Fairness

-----------------------------------------------------------------------------
(***************************************************************************)
(* Properties.                                                             *)
(***************************************************************************)

Tx == [op : Ops, owner : Owners, todo : SUBSET Nat, drop : SUBSET Nat, add : Seq(Row)]

\* A pass handles each row of its list once: the rows still on the list, the
\* row in hand and the rows counted as errored or as claimed elsewhere are
\* different rows, and nothing of a pass is left when the process is idle.
OncePerPass ==
    \A r \in Runners :
        /\ cur[r] # 0 => cur[r] \notin due[r] \cup summary[r].errored \cup summary[r].skippedClaimed
        /\ due[r] \cap summary[r].errored = {}
        /\ due[r] \cap summary[r].skippedClaimed = {}
        /\ summary[r].errored \cap summary[r].skippedClaimed = {}
        /\ pc[r] = "idle" => due[r] = {} /\ summary[r] = NoSummary

\* Every variable has its type: ids name rows that were inserted, a row is
\* processed or unprocessed but not both, a runner holds a row exactly between
\* its claim and the end of its handling, and a pass handles a row once.
TypeOK ==
    /\ job \in Seq(Row)
    /\ unprocessed \subseteq Ids /\ processed \subseteq Ids
    /\ unprocessed \cap processed = {}
    /\ returned \subseteq Ids
    /\ day \in 0..MaxDay
    /\ pc \in [Runners -> {"idle", "loop", "run", "release", "clone"}]
    /\ due \in [Runners -> SUBSET Ids]
    /\ cur \in [Runners -> Ids \cup {0}]
    /\ \A r \in Runners : cur[r] = 0 <=> pc[r] \in {"idle", "loop"}
    /\ summary \in [Runners -> Summary]
    /\ OncePerPass
    /\ tx \in [Requests -> Tx]
    /\ \A q \in Requests : tx[q].drop \subseteq Ids
    /\ overlaps \in Nat /\ writes \in 0..MaxWrites /\ faults \in 0..MaxFaults

\* A runner that is executing row id, or about to give it back.
Running(r, id) == cur[r] = id /\ pc[r] \in {"run", "release"}
Held(id) == \E r \in Runners : cur[r] = id

\* Two runners never handle the same row at the same time: the claim is the
\* lock, however stale the lists they loaded (scheduler.runner.ts:84-90).
ClaimExcludes ==
    \A r, s \in Runners : cur[r] = cur[s] /\ cur[r] # 0 => r = s

\* A row in a runner's hands is never unprocessed, so no later pass, of any
\* process, loads it meanwhile; deleting it does not make it claimable.
HeldIsProcessed ==
    \A r \in Runners : cur[r] # 0 => cur[r] \notin unprocessed

\* A row whose executer returned is never offered again, and until then its
\* runner is the only one that can finish it.
ReturnedIsFinal ==
    /\ returned \cap unprocessed = {}
    /\ \A r \in Runners : /\ pc[r] \in {"run", "release"} => cur[r] \notin returned
                          /\ pc[r] = "clone" => cur[r] \in returned

\* A row a request deleted stays deleted, though a runner may hold it as it
\* goes: giving the claim back updates the row and never writes it anew.
DeletedStaysDeleted ==
    [][\A id \in Ids : id \notin Present => id \notin Present']_vars

\* A chain never forks: no row is cloned twice, and only after its executer
\* returned; a clone is later than its parent and its copy otherwise.
ChainsDoNotFork ==
    \A i \in Ids : job[i].parent # 0 =>
        LET p == job[i].parent IN
        /\ p < i /\ p \in returned
        /\ job[p].date < job[i].date
        /\ job[i] = [job[p] EXCEPT !.date = job[i].date, !.parent = p]
        /\ \A j \in Ids : job[j].parent = p => j = i

\* A row marked processed whose work was not done and that nobody will do.
Stranded(id) == id \in processed /\ id \notin returned /\ ~Held(id)

\* Work is lost, and a repeating chain ends, only by a fault: each fault
\* strands at most one row, or leaves one returned row without the successor its
\* runner was about to write; so with none, processed means that the executer
\* returned or is running, and a chain goes on but for a deletion or for a repeat
\* nobody writes (handleCron: "a row is only processed if it was claimed and its
\* executer returned").
Continued(id) == \/ \E i \in Ids : job[i].parent = id
                 \/ \E r \in Runners : cur[r] = id /\ pc[r] = "clone"
LossNeedsFault ==
    Cardinality({id \in Ids : Stranded(id)})
        + Cardinality({id \in returned : Repeats(id) /\ ~Continued(id)}) <= faults

\* No task runs before its day, though the list was loaded on an earlier one
\* and rows are written meanwhile.
NeverEarly == \A r \in Runners : cur[r] # 0 => job[cur[r]].date <= day

\* A row runs on its day or later, and is followed once.
RunsInOrder == NeverEarly /\ ChainsDoNotFork

\* Saving a birthdate leaves the member one chain, whatever the runners do,
\* unless one of them holds a row of his as the edit deletes it: that runner
\* still clones the old payload.  Chains beyond the first are counted.
ChainOf(m) == {id \in Ids : /\ job[id].kind = "birthdate" /\ job[id].owner = m
                            /\ id \in unprocessed \/ Held(id)}
OneChainUnlessOverlapped ==
    \A m \in Members : Cardinality(ChainOf(m)) <= 1 + overlaps

\* Two payment files uploaded at once do not schedule the same reminder twice,
\* though the dedupe reads before it inserts: the LoanDetail row they update
\* first makes the second upload wait.  A claim given back after a failure can
\* repeat a reminder written meanwhile.
OneReminderPerDay ==
    \A i, j \in {id \in unprocessed : job[id].kind = "payment_reminder" /\ job[id].sound} :
        job[i].owner = job[j].owner /\ job[i].date = job[j].date => i = j \/ faults > 0

\* SchedulerRunSummary.errored: "Rows whose executer threw. The claim was
\* released; the row is unprocessed again."
ErroredRowsAreReleased ==
    [][\A r \in Runners : summary'[r].errored \ summary[r].errored \subseteq unprocessed']_vars

\* SchedulerRunSummary.skippedClaimed: "Rows another runner had already claimed
\* between the read and the claim."
SkippedRowsAreClaimed ==
    [][\A r \in Runners :
         summary'[r].skippedClaimed \ summary[r].skippedClaimed \subseteq processed]_vars

\* A row that should be run, with an executer that can run it, is run, deleted
\* or stranded by a fault, whatever the other rows do: a row that is rejected
\* at every pass starves nobody.
Runnable(id) == /\ id \in unprocessed /\ job[id].date <= day
                /\ job[id].type \in KnownTypes /\ job[id].sound
EventuallyRun(id) ==
    (id \in Ids /\ Runnable(id)) ~>
        (id \in returned \/ id \notin Present \/ Stranded(id))

(***************************************************************************)
(* The scheduler implements TaskQueue.                                     *)
(***************************************************************************)
Status(id) ==
    IF \E r \in Runners : Running(r, id) THEN "taken"
    ELSE IF id \in returned THEN "done"
    ELSE IF id \in processed THEN "lost"
    ELSE IF id \in unprocessed THEN "pending"
    ELSE "gone"

Queue == INSTANCE TaskQueue WITH status <- [id \in Ids |-> Status(id)]

\* Every behaviour of the table, the runners and the requests is one of the
\* queue: whatever is interleaved, a row is worked at most once at a time, done
\* at most once, and offered again only after it was given back.
ImplementsQueue == Queue!Spec
=============================================================================
