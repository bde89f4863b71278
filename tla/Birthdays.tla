------------------------------ MODULE Birthdays ------------------------------
(***************************************************************************)
(* One member's birthday announcements over the years: where a save of the *)
(* profile puts the task (src/users/birthday-run-date.ts), and where its   *)
(* yearly clones go from there (relativedelta.util.ts). Claims, failures   *)
(* and concurrent runners are in Scheduler; here every pass runs at its    *)
(* hour, and what matters is the calendar and the time of day.             *)
(*                                                                         *)
(* Of each year the days around the end of February are looked at, where   *)
(* the birthdays are.                                                      *)
(*                                                                         *)
(* Definitions whose comment starts with "Variant:" are not the code's:    *)
(* each is the definition after it with one plausible bug.                 *)
(***************************************************************************)
EXTENDS Dates, Sequences

CONSTANTS
    Years,         \* the years looked at
    Birthdates,    \* the member's birthdate is one of these
    MaxSaves       \* bound: how many times the profile is saved

VARIABLES
    birthdate,
    now,           \* Bogota's wall clock, and whether the pass of the hour has run
    tasks,         \* fondo_api_schedulertask: the member's birthday rows
    save,          \* the save under way: the run date it has computed
    saves,         \* how many have committed
    owed,          \* history: the first year an announcement is promised for
    sent           \* history: the announcements, each with saves at the time

vars == <<birthdate, now, tasks, save, saves, owed, sent>>

SCHEDULER_PASS_HOURS == {10, 14}
LAST_SCHEDULER_PASS_HOUR == 14

\* Before, at, between and after the passes.
Hours == <<9, 10, 12, 14, 15>>
FirstHour == 9
LastHour == 15
FirstDay(y) == Date(y, 2, 26)
LastDay(y) == Date(y, 3, 3)

\* A date can be in every year and the next, and each birthday is well inside
\* the days looked at.
ConstantsAssumption ==
    /\ Years # {} /\ \A y \in Years : y \in Nat /\ 0 < y /\ y < 9999
    /\ \A d \in Birthdates :
          IsDate(d) /\ ((d.month = 2 /\ d.day \in 26..29) \/ (d.month = 3 /\ d.day = 1))

FirstYear == CHOOSE y \in Years : \A z \in Years : y <= z

NotSaving == [at |-> "none"]

Init ==
    /\ birthdate \in Birthdates
    /\ now = [date |-> FirstDay(FirstYear), hour |-> FirstHour, passed |-> FALSE]
    /\ tasks = {} /\ save = NotSaving /\ saves = 0
    /\ owed = 9999 /\ sent = <<>>

birthdayInYear(y) ==
    IF birthdate.month = 2 /\ birthdate.day = 29 /\ ~isLeapYear(y)
    THEN Date(y, 2, 28) ELSE Date(y, birthdate.month, birthdate.day)

\* Variant: the old system's, whatever the date is today.
nextBirthdayRunDateThisYear == birthdayInYear(now.date.year)

\* Variant: a birthday that is today is over.
nextBirthdayRunDateAfterToday ==
    LET thisYear == birthdayInYear(now.date.year) IN
    IF compare(thisYear, now.date) > 0 THEN thisYear ELSE birthdayInYear(now.date.year + 1)

\* The next birthday that has a pass to come (D48).
nextBirthdayRunDate ==
    LET thisYear == birthdayInYear(now.date.year)
        order == compare(thisYear, now.date)
    IN  IF order > 0 \/ (order = 0 /\ now.hour < LAST_SCHEDULER_PASS_HOUR)
        THEN thisYear ELSE birthdayInYear(now.date.year + 1)

\* updateUserPersonal reads the clock in createBirthdateNotification ...
ReadClock ==
    /\ save = NotSaving /\ saves < MaxSaves
    /\ save' = [at |-> "computed", run |-> nextBirthdayRunDate, hour |-> now.hour]
    /\ UNCHANGED <<birthdate, now, tasks, saves, owed, sent>>

\* A task for today that at most the last pass of the day will find.
Straddles == save.run = now.date /\ (now.hour > 10 \/ (now.hour = 10 /\ now.passed))

\* ... and commits: the member's birthday rows are replaced, those that have
\* run too. The dedupe of scheduleNotification finds none of them.
CommitSave ==
    /\ save # NotSaving /\ save' = NotSaving /\ saves' = saves + 1
    /\ tasks' = {[run_date |-> save.run, processed |-> FALSE]}
    /\ owed' = IF saves = 0 THEN (IF Straddles THEN save.run.year + 1 ELSE save.run.year) ELSE owed
    /\ UNCHANGED <<birthdate, now, sent>>

\* Variant: the clone takes the row's place without it being marked.
RunUnmarked(task) == {task, [run_date |-> nextRepeatRunDate(task.run_date, YEARLY), processed |-> FALSE]}

\* A row that has run, and its clone.
Run(task) == {[task EXCEPT !.processed = TRUE],
              [run_date |-> nextRepeatRunDate(task.run_date, YEARLY), processed |-> FALSE]}

\* findDueUnprocessed: also what is overdue (D7).
Due == {task \in tasks : ~task.processed /\ compare(task.run_date, now.date) <= 0}

\* The pass of the hour: there is never more than one row to run.
Pass ==
    /\ now.hour \in SCHEDULER_PASS_HOURS /\ ~now.passed
    /\ now' = [now EXCEPT !.passed = TRUE]
    /\ tasks' = (tasks \ Due) \cup UNION {Run(task) : task \in Due}
    /\ sent' = IF Due = {} THEN sent ELSE Append(sent, [date |-> now.date, saves |-> saves])
    /\ UNCHANGED <<birthdate, save, saves, owed>>

\* The day after the last of a year's is the first of the next year's.
DayAfter(d) == addRelativeDelta(d, [NoDelta EXCEPT !.days = 1])
Later(d) == IF d = LastDay(d.year) THEN FirstDay(d.year + 1) ELSE DayAfter(d)

\* Time passes, for a save under way a moment.
Tick ==
    /\ now.hour \in SCHEDULER_PASS_HOURS => now.passed
    /\ save # NotSaving => save.hour = now.hour /\ now.hour # LastHour
    /\ IF now.hour = LastHour
       THEN /\ Later(now.date).year \in Years
            /\ now' = [date |-> Later(now.date), hour |-> FirstHour, passed |-> FALSE]
       ELSE \E i \in 1..Len(Hours) - 1 :
               Hours[i] = now.hour /\ now' = [now EXCEPT !.hour = Hours[i + 1], !.passed = FALSE]
    /\ UNCHANGED <<birthdate, tasks, save, saves, owed, sent>>

Next == ReadClock \/ CommitSave \/ Pass \/ Tick
Spec == Init /\ [][Next]_vars

-----------------------------------------------------------------------------
(* Properties *)

\* The days a year's announcement may come on. A clone of 28 February stays
\* there, also when the year has a 29th; a save that computed the birthday
\* itself and committed after its last pass is picked up on the day after it.
Expected(y) == {birthdayInYear(y), DayAfter(birthdayInYear(y))}
               \cup IF birthdate.day = 29 THEN {Date(y, 2, 28)} ELSE {}

\* However late in the day or in the year the profile is saved, the members are
\* told "today" on the birthday (or as in Expected), and twice in a year only if
\* it was saved between the two. (nextBirthdayRunDate, createRepeatInstance.)
AnnouncedOnTheDay ==
    /\ \A i \in DOMAIN sent : sent[i].date \in Expected(sent[i].date.year)
    /\ \A i, j \in DOMAIN sent :
          i < j /\ sent[i].date.year = sent[j].date.year => sent[i].saves < sent[j].saves

\* From the year the first save was for, none goes by without an announcement,
\* whichever saves and clones replace the row meanwhile. (birthday-run-date.ts:
\* "the next anniversary that has not been missed". It does not hold for the
\* year of a very first save made on the birthday itself, after a pass: another
\* save at the moment of the last pass, or after a commit that came late for it,
\* moves that row to the next year before any pass has found it.)
NoBirthdayMissed ==
    \A y \in Years : y >= owed /\ compare(now.date, LastDay(y)) >= 0 =>
        \E i \in DOMAIN sent : sent[i].date.year = y
=============================================================================
