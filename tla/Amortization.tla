---------------------------- MODULE Amortization -----------------------------
(***************************************************************************)
(* The figures of one loan (src/loans/amortization.ts and the parts of     *)
(* loan.service.ts that use it): the rate is fixed as it is asked for, the *)
(* table and the detail are computed as it is approved, row after row, and *)
(* the interests to any date are projected from the detail. What else a    *)
(* decision does is in Loans, the quota of an application in Members.      *)
(*                                                                         *)
(* Amounts are exact here, in units of 1/Unit: the 28 digits of the code's *)
(* Decimal are not modelled, so neither is the side on which it puts what  *)
(* is half way between two integers only in exact arithmetic.              *)
(*                                                                         *)
(* Definitions whose comment starts with "Variant:" are not the code's:    *)
(* each is the definition after it with one plausible bug.                 *)
(***************************************************************************)
EXTENDS Dates, Sequences

CONSTANTS
    Values,        \* what is asked for
    Dates,         \* when a loan is disbursed
    Terms          \* terms in months, valid or not

\* A loan's value is a whole number of pesos.
ConstantsAssumption == Values \subseteq Nat

VARIABLES
    loan,          \* the loan's row
    table,         \* generateAmortizationTable's rows, as far as it is
    detail,        \* the loan's LoanDetail
    answer         \* the last projection

vars == <<loan, table, detail, answer>>

FEE_MONTHLY == 0
FEE_UNIQUE == 1
MIN_TIMELIMIT == 1
MAX_TIMELIMIT == 36

\* Variant: a term of 12 or 24 months falls through.
getRateOpen(timelimit) ==
    CASE timelimit \in 7..11  -> 20
      [] timelimit \in 13..23 -> 22
      [] timelimit \in 25..36 -> 25
      [] OTHER -> 15

\* In thousandths. What no band has, a term above 36 too, gets the last one.
getRate(timelimit) ==
    CASE timelimit \in 7..12  -> 20
      [] timelimit \in 13..24 -> 22
      [] timelimit \in 25..36 -> 25
      [] OTHER -> 15

None == [timelimit |-> 0]
Nowhere == Date(1, 1, 1)

Init == loan = None /\ table = <<>> /\ detail = None /\ answer = None

\* createLoan's checks of the term (D4): outside of its bounds it is a 400.
Apply ==
    /\ loan = None
    /\ \E value \in Values, date \in Dates, timelimit \in Terms, fee \in {FEE_MONTHLY, FEE_UNIQUE} :
          /\ timelimit \in MIN_TIMELIMIT..MAX_TIMELIMIT /\ IsDate(date)
          /\ loan' = [value |-> value, timelimit |-> timelimit, fee |-> fee,
                      rate |-> getRate(timelimit), disbursement_date |-> date]
    /\ UNCHANGED <<table, detail, answer>>

-----------------------------------------------------------------------------
(* generateAmortizationTable *)

instalments == IF loan.fee = FEE_MONTHLY THEN loan.timelimit ELSE 1

\* The unit: balances are whole numbers of 1/instalments, a day's interests on
\* one of them is a thousandth of a thirtieth.
Unit == instalments * 30000

\* In 1/Unit, of a balance in 1/instalments.
calculateInterests(rate, balance, from, to) == balance * rate * days360(from, to)

\* Variant: each date from the one before it.
PaymentDateAccumulated(i) ==
    IF i = 1 \/ loan.fee # FEE_MONTHLY
    THEN addRelativeDelta(loan.disbursement_date,
            [NoDelta EXCEPT !.months = IF loan.fee = FEE_MONTHLY THEN 1 ELSE loan.timelimit])
    ELSE addRelativeDelta(table[i - 1].payment_date, [NoDelta EXCEPT !.months = 1])

\* Every date is counted from the disbursement.
PaymentDate(i) ==
    addRelativeDelta(loan.disbursement_date,
        [NoDelta EXCEPT !.months = IF loan.fee = FEE_MONTHLY THEN i ELSE loan.timelimit])

\* One turn of the loop: the row's interests are over the days since the
\* payment before it, on what that payment left.
AddRow ==
    /\ loan # None /\ detail = None /\ Len(table) < instalments
    /\ LET i == Len(table) + 1
           from == IF i = 1 THEN loan.disbursement_date ELSE table[i - 1].payment_date
           balance == IF i = 1 THEN loan.value * instalments ELSE table[i - 1].final_balance
       IN  table' = Append(table,
               [from |-> from, payment_date |-> PaymentDate(i),
                interests |-> calculateInterests(loan.rate, balance, from, PaymentDate(i)),
                final_balance |-> balance - loan.value])
    /\ UNCHANGED <<loan, detail, answer>>

\* The rows' payments so far, in 1/Unit.
PaymentValue(i) == 30000 * loan.value + table[i].interests
Sum[i \in 0..Len(table)] == IF i = 0 THEN 0 ELSE Sum[i - 1] + PaymentValue(i)

\* The summary, and upsertLoanDetail: from_date and capital_balance are the
\* loan's own and not of the table.
SaveDetail ==
    /\ loan # None /\ detail = None /\ Len(table) = instalments
    /\ detail' = [payday_limit |-> table[1].payment_date,
                  minimum_payment |-> roundHalfEven(PaymentValue(1), Unit),
                  total_payment |-> roundHalfEven(Sum[instalments], Unit),
                  interests |-> roundHalfEven(table[1].interests, Unit),
                  from_date |-> loan.disbursement_date,
                  capital_balance |-> loan.value]
    /\ UNCHANGED <<loan, table, answer>>

\* Variant: the interests of what is to be paid.
ProjectedOfTotal(toDate) ==
    roundHalfEven(calculateInterests(loan.rate, detail.total_payment, detail.from_date, toDate), 30000)

\* Interests on the detail's balance since its from_date.
Projected(toDate) ==
    roundHalfEven(calculateInterests(loan.rate, detail.capital_balance, detail.from_date, toDate), 30000)

\* paymentProjection: without a detail it is a 404.
Project ==
    /\ detail # None
    /\ \E toDate \in Dates \cup {table[i].payment_date : i \in DOMAIN table} :
          answer' = [timelimit |-> loan.timelimit, to_date |-> toDate, interests |-> Projected(toDate)]
    /\ UNCHANGED <<loan, table, detail>>

Next == Apply \/ AddRow \/ SaveDetail \/ Project
Spec == Init /\ [][Next]_vars

-----------------------------------------------------------------------------
(* Properties *)

\* A payment is due on the day of the month the loan was disbursed on, or on
\* the last of a month that has no such day: after a February the dates go
\* back to the 29th, 30th or 31st, and each instalment is later than the one
\* before it. (PaymentDate is anchored; addRelativeDelta clamps.)
SameDayEveryMonth ==
    \A i \in DOMAIN table :
        LET paid == table[i].payment_date IN
        /\ \/ paid.day = loan.disbursement_date.day
           \/ paid.day < loan.disbursement_date.day /\ isLastDay(paid)
        /\ 12 * paid.year + paid.month = 12 * loan.disbursement_date.year + loan.disbursement_date.month
                                         + IF loan.fee = FEE_MONTHLY THEN i ELSE loan.timelimit
        /\ compare(paid, table[i].from) > 0

\* An instalment never pays for more than 30 days a month, and for fewer only
\* when a February is at one of its ends, two at most; so a loan is never dearer
\* than its rate a month on what is left of it. (days360 on clamped dates.)
NeverMoreThanThirtyDays ==
    \A i \in DOMAIN table :
        LET row == table[i]
            months == IF loan.fee = FEE_MONTHLY THEN 1 ELSE loan.timelimit
            days == days360(row.from, row.payment_date)
        IN  /\ days \in 30 * months - 2 .. 30 * months
            /\ days < 30 * months => 2 \in {row.from.month, row.payment_date.month}

\* A detail's figures agree with each other and with what the member is told
\* later: the projection to the first payment day is the interests announced
\* in the detail, the payments come to the loan and all its interests, and a
\* longer term within the bounds never has a lower rate.
FiguresAgree ==
    detail # None =>
        /\ Projected(detail.payday_limit) = detail.interests
        /\ table[instalments].final_balance = 0
        /\ \A t \in loan.timelimit .. MAX_TIMELIMIT : getRate(t) >= loan.rate
        /\ detail.total_payment >= loan.value + detail.interests - 1
=============================================================================
