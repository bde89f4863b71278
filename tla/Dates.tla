-------------------------------- MODULE Dates --------------------------------
(***************************************************************************)
(* The calendar the money and the schedules are computed with              *)
(* (src/common/utils/date.util.ts, relativedelta.util.ts, rounding.util.ts):*)
(* operators alone. A date is a day of the proleptic Gregorian calendar; an *)
(* instant's time of day is kept by all of this and is left out.           *)
(*                                                                         *)
(* Definitions whose comment starts with "Variant:" are not the code's:    *)
(* each is the definition after it with one plausible bug.                 *)
(***************************************************************************)
EXTENDS Integers

Date(y, m, d) == [year |-> y, month |-> m, day |-> d]

isLeapYear(y) == (y % 4 = 0 /\ y % 100 # 0) \/ y % 400 = 0

daysInMonth(y, m) ==
    CASE m \in {4, 6, 9, 11} -> 30
      [] m = 2 -> IF isLeapYear(y) THEN 29 ELSE 28
      [] OTHER -> 31

\* strptimeIsoDate: a date whose parts come back from a Date unchanged.
IsDate(d) ==
    /\ d.year \in 1..9999 /\ d.month \in 1..12
    /\ d.day \in 1..daysInMonth(d.year, d.month)

isLastDay(d) == d.day = daysInMonth(d.year, d.month)

\* Less than 0, 0 or more than 0, as a is before, on or after b.
compare(a, b) ==
    IF a.year # b.year THEN a.year - b.year
    ELSE IF a.month # b.month THEN a.month - b.month ELSE a.day - b.day

-----------------------------------------------------------------------------
(* Days since 1 March of the year 0, as Date.UTC counts them, and back. A  *)
(* year is taken to begin in March, so that the leap day ends it.          *)

utcDays(d) ==
    LET y == IF d.month <= 2 THEN d.year - 1 ELSE d.year
        m == (d.month + 9) % 12
    IN  365 * y + y \div 4 - y \div 100 + y \div 400 + ((153 * m + 2) \div 5) + d.day - 1

fromDateColumn(n) ==
    LET inEra == n % 146097
        y == (inEra - inEra \div 1460 + inEra \div 36524 - inEra \div 146096) \div 365
        inYear == inEra - (365 * y + y \div 4 - y \div 100)
        m == (5 * inYear + 2) \div 153
        year == y + 400 * (n \div 146097)
    IN  Date(IF m < 10 THEN year ELSE year + 1, IF m < 10 THEN m + 3 ELSE m - 9,
             inYear - (153 * m + 2) \div 5 + 1)

-----------------------------------------------------------------------------
(* relativedelta *)

\* Variant: a day the month does not have rolls over into the next one.
addMonthsRolled(d, n) ==
    LET months == 12 * d.year + d.month - 1 + n
        first == Date(months \div 12, (months % 12) + 1, 1)
    IN  fromDateColumn(utcDays(first) + d.day - 1)

\* Years and months: the day is clamped to the month's last.
addMonths(d, n) ==
    LET months == 12 * d.year + d.month - 1 + n
        y == months \div 12
        m == (months % 12) + 1
        last == daysInMonth(y, m)
    IN  Date(y, m, IF d.day < last THEN d.day ELSE last)

\* Weeks and days are added after that, and are real days.
addRelativeDelta(d, delta) ==
    LET moved == addMonths(d, 12 * delta.years + delta.months)
        days == delta.days + 7 * delta.weeks
    IN  IF days = 0 THEN moved ELSE fromDateColumn(utcDays(moved) + days)

NoDelta == [years |-> 0, months |-> 0, weeks |-> 0, days |-> 0]

NONE == 0
DAILY == 1
WEEKLY == 2
MONTHLY == 3
YEARLY == 4

isSchedulerRepeat(value) == value \in NONE..YEARLY

REPEAT_DELTAS(repeat) ==
    CASE repeat = DAILY   -> [NoDelta EXCEPT !.days = 1]
      [] repeat = WEEKLY  -> [NoDelta EXCEPT !.weeks = 1]
      [] repeat = MONTHLY -> [NoDelta EXCEPT !.months = 1]
      [] repeat = YEARLY  -> [NoDelta EXCEPT !.years = 1]

\* The run date of a repeating task's clone: from the task's own, not from the
\* date the chain began with.
nextRepeatRunDate(runDate, repeat) == addRelativeDelta(runDate, REPEAT_DELTAS(repeat))

-----------------------------------------------------------------------------
(* Counting days for interests: months of 30 days, the US way. *)

\* Variant: a 31st counts for itself.
days360Whole(from, to) ==
    LET late == compare(to, from) < 0
        start == IF late THEN to ELSE from
        end == IF late THEN from ELSE to
        startDay == IF isLastDay(start) THEN 30 ELSE start.day
    IN  360 * (end.year - start.year) + 30 * (end.month - start.month) + end.day - startDay

\* In either order. The last day of a month, February's too, is a start on the
\* 30th; an end on the 31st is one on the 30th only after such a start.
days360(from, to) ==
    LET late == compare(to, from) < 0
        start == IF late THEN to ELSE from
        end == IF late THEN from ELSE to
        startDay == IF isLastDay(start) THEN 30 ELSE start.day
        endDay == IF startDay = 30 /\ end.day = 31 THEN 30 ELSE end.day
    IN  IF compare(from, to) = 0 THEN 0
        ELSE 360 * (end.year - start.year) + 30 * (end.month - start.month) + endDay - startDay

-----------------------------------------------------------------------------
(* Rounding num / den, both positive. *)

\* To the even neighbour when both are as near.
roundHalfEven(num, den) ==
    LET floor == num \div den
        twice == 2 * (num % den)
    IN  IF twice < den \/ (twice = den /\ floor % 2 = 0) THEN floor ELSE floor + 1
=============================================================================
