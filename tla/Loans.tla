-------------------------------- MODULE Loans --------------------------------
(***************************************************************************)
(* The loans of the fund (src/loans/loan.service.ts): applications,        *)
(* approvals, denials and payouts, refinances and the monthly file, as     *)
(* concurrent requests.                                                    *)
(*                                                                         *)
(* A transaction runs at READ COMMITTED.  A statement reads what is        *)
(* committed, or what its own transaction wrote; an UPDATE waits for the   *)
(* row's lock, which is held to the end of the transaction; the writes     *)
(* appear when it commits.  req[q].rows holds the rows q has updated and   *)
(* not committed: the rows it has locked.                                  *)
(*                                                                         *)
(* Definitions whose comment starts with "Variant:" are not the code's:    *)
(* each is the definition after it with one plausible bug, and shows that  *)
(* a property would notice that bug.                                       *)
(***************************************************************************)
EXTENDS Naturals, FiniteSets

CONSTANTS
    Loans,        \* the rows of fondo_api_loan, created or to be
    Requests,     \* requests served at one time
    None,         \* no loan
    Openings,     \* the states the loans may be in at the start
    MaxRequests   \* bound: how many requests are served in all

VARIABLES
    loan,         \* fondo_api_loan, as committed
    detail,       \* loans with a row in fondo_api_loandetail, as committed
    reminders,    \* loans with pending payment reminders, as committed
    req,          \* what each request is doing and has not committed
    mailed,       \* history: the decision mails sent for each loan
    undone,       \* history: decisions mailed and then rolled back
    leftover,     \* history: paid loans that may keep reminders (see Leftover)
    requests      \* requests so far

vars == <<loan, detail, reminders, req, mailed, undone, leftover, requests>>
history == <<mailed, undone, leftover>>

ASSUME ConstantsAssumption ==
    /\ None \notin Loans
    /\ Openings \subseteq [Loans -> {"none", "waiting", "approved", "denied", "paid"}]
    /\ MaxRequests \in Nat

States == {"none", "waiting", "approved", "denied", "paid"}
LoanRow == [state : States, prev : Loans \cup {None}, refi : Loans \cup {None}]
NoRow == [state |-> "none", prev |-> None, refi |-> None]

\* op, at: the handler and its next statement.  id, from, to: the transition
\* asked for and the state it was read from.  child: the refinance created.
\* file: the ids of the upload; listed: those read; left: the lines, then the
\* loans, still to be handled.  rows, details, added, dropped: what is not yet
\* committed of the loans, the details and the reminders.
Idle == [op |-> "none", at |-> "idle", id |-> None, from |-> "none", to |-> "none",
         child |-> None, file |-> {}, listed |-> {}, left |-> {},
         rows |-> [l \in Loans |-> NoRow], details |-> {}, added |-> {}, dropped |-> {}]

Locked(q) == {l \in Loans : req[q].rows[l] # NoRow}
RowFree(q, l) == \A p \in Requests \ {q} : l \notin Locked(p)
DetailFree(q, l) == \A p \in Requests \ {q} : l \notin req[p].details

\* What a statement of q reads.
Sees(q, l) == IF l \in Locked(q) THEN req[q].rows[l] ELSE loan[l]

Init ==
    /\ \E opening \in Openings :
         /\ loan = [l \in Loans |-> [NoRow EXCEPT !.state = opening[l]]]
         /\ detail = {l \in Loans : opening[l] \in {"approved", "paid"}}
         /\ reminders = {l \in Loans : opening[l] = "approved"}
    /\ req = [q \in Requests |-> Idle]
    /\ mailed = [l \in Loans |-> [approved |-> 0, denied |-> 0]]
    /\ undone = [l \in Loans |-> 0]
    /\ leftover = {}
    /\ requests = 0

Request(q) ==
    /\ req[q].at = "idle"
    /\ requests < MaxRequests
    /\ requests' = requests + 1

\* bound: a row of Loans is left that no refinance under way needs.
RowLeft == Cardinality({q \in Requests : req[q].at = "create"})
             < Cardinality({l \in Loans : loan[l].state = "none"})

\* createLoan: the quota and the body have been checked; one insert.
CreateLoan(l) ==
    /\ loan[l].state = "none" /\ RowLeft
    /\ requests < MaxRequests
    /\ requests' = requests + 1
    /\ loan' = [loan EXCEPT ![l].state = "waiting"]
    /\ UNCHANGED <<detail, reminders, req, history>>

(***************************************************************************)
(* PATCH /api/loan/<id>: updateLoan, one transaction.                      *)
(***************************************************************************)

\* LEGAL_LOAN_TRANSITIONS (D9).
Legal(from, to) == \/ from = "waiting" /\ to \in {"approved", "denied"}
                   \/ from = "approved" /\ to \in {"paid", "denied"}

\* findUnique and assertLegalLoanTransition.  A refusal (404, 409) writes
\* nothing and is not a step.
PatchRead(q, l, to) ==
    /\ Request(q)
    /\ Legal(loan[l].state, to)
    /\ req' = [req EXCEPT ![q] = [Idle EXCEPT !.op = "patch", !.at = "cas", !.id = l,
                                              !.from = loan[l].state, !.to = to]]
    /\ UNCHANGED <<loan, detail, reminders, history>>

\* What follows the transition, in the order of updateLoanIn.
After(q) ==
    CASE req[q].to = "approved" -> IF loan[req[q].id].prev # None THEN "parent" ELSE "detail"
      [] req[q].to = "denied" -> "mail"
      [] OTHER -> "purge"

\* Variant: a plain UPDATE ... WHERE id = ?.
UpdateState(q) ==
    LET l == req[q].id IN
    /\ req[q].at = "cas"
    /\ RowFree(q, l)
    /\ req' = [req EXCEPT ![q].rows[l] = [loan[l] EXCEPT !.state = req[q].to],
                          ![q].at = After(q)]
    /\ UNCHANGED <<loan, detail, reminders, history, requests>>

\* UPDATE ... WHERE id = ? AND state = <the state read>, count 1.
CasWins(q) ==
    LET l == req[q].id IN
    /\ req[q].at = "cas"
    /\ RowFree(q, l)
    /\ loan[l].state = req[q].from
    /\ req' = [req EXCEPT ![q].rows[l] = [loan[l] EXCEPT !.state = req[q].to],
                          ![q].at = After(q)]
    /\ UNCHANGED <<loan, detail, reminders, history, requests>>

\* The same with count 0: 409.  The transaction of a PATCH ends; the monthly
\* file goes on with its next loan (C50).
CasLoses(q) ==
    /\ req[q].at = "cas"
    /\ RowFree(q, req[q].id)
    /\ loan[req[q].id].state # req[q].from
    /\ req' = [req EXCEPT ![q] = IF req[q].op = "file" THEN [@ EXCEPT !.at = "close"] ELSE Idle]
    /\ UNCHANGED <<loan, detail, reminders, history, requests>>

\* A refinance was approved: the loan it replaces is paid, with no guard.
PayParent(q) ==
    LET p == loan[req[q].id].prev IN
    /\ req[q].at = "parent"
    /\ RowFree(q, p)
    /\ req' = [req EXCEPT ![q].rows[p] = [loan[p] EXCEPT !.state = "paid"], ![q].at = "detail"]
    /\ UNCHANGED <<loan, detail, reminders, history, requests>>

\* Variant: a refinance keeps the detail of the loan it replaces.
KeepDetail(q) ==
    LET l == req[q].id IN
    /\ req[q].at = "detail"
    /\ DetailFree(q, l)
    /\ req' = [req EXCEPT ![q].details = IF loan[l].prev # None THEN @ ELSE @ \cup {l},
                          ![q].at = "mail"]
    /\ UNCHANGED <<loan, detail, reminders, history, requests>>

\* upsertLoanDetail.
UpsertDetail(q) ==
    LET l == req[q].id IN
    /\ req[q].at = "detail"
    /\ DetailFree(q, l)
    /\ req' = [req EXCEPT ![q].details = @ \cup {l}, ![q].at = "mail"]
    /\ UNCHANGED <<loan, detail, reminders, history, requests>>

\* sendMail never throws.
MailDecision(q) ==
    LET l == req[q].id IN
    /\ req[q].at = "mail"
    /\ mailed' = [mailed EXCEPT ![l][req[q].to] = @ + 1]
    /\ req' = [req EXCEPT ![q].at = IF req[q].to = "denied" /\ loan[l].prev # None
                                    THEN "unlink" ELSE "commit"]
    /\ UNCHANGED <<loan, detail, reminders, undone, leftover, requests>>

\* A refinance was refused: its parent's link is cleared, whatever it links.
Unlink(q) ==
    LET p == loan[req[q].id].prev IN
    /\ req[q].at = "unlink"
    /\ RowFree(q, p)
    /\ req' = [req EXCEPT ![q].rows[p] = [loan[p] EXCEPT !.refi = None], ![q].at = "commit"]
    /\ UNCHANGED <<loan, detail, reminders, history, requests>>

\* Variant: the monthly file closes a loan and leaves its reminders.
PurgePatchOnly(q) ==
    /\ req[q].at = "purge"
    /\ req' = [req EXCEPT ![q].dropped = IF req[q].op = "file" THEN @
                                         ELSE @ \cup ({req[q].id} \cap reminders),
                          ![q].at = IF req[q].op = "file" THEN "close" ELSE "commit"]
    /\ UNCHANGED <<loan, detail, reminders, history, requests>>

\* removeSchNotifications('payment_reminder', id): the committed rows.
Purge(q) ==
    /\ req[q].at = "purge"
    /\ req' = [req EXCEPT ![q].dropped = @ \cup ({req[q].id} \cap reminders),
                          ![q].at = IF req[q].op = "file" THEN "close" ELSE "commit"]
    /\ UNCHANGED <<loan, detail, reminders, history, requests>>

(***************************************************************************)
(* PATCH /api/loan: bulkUpdateLoans, one transaction.                      *)
(***************************************************************************)
FileBegin(q, S) ==
    /\ Request(q)
    /\ req' = [req EXCEPT ![q] = [Idle EXCEPT !.op = "file", !.at = "lines",
                                              !.file = S, !.left = S]]
    /\ UNCHANGED <<loan, detail, reminders, history>>

\* Variant: a loan without a detail is skipped before its id is noted.
LineNotesUpdated(q, l) ==
    /\ req[q].at = "lines" /\ l \in req[q].left
    /\ l \in detail => DetailFree(q, l)
    /\ LET found == {l} \cap detail IN
         \E new \in {found, found \ reminders} :
           req' = [req EXCEPT ![q].left = @ \ {l}, ![q].listed = @ \cup found,
                              ![q].details = @ \cup found, ![q].added = @ \cup new]
    /\ UNCHANGED <<loan, detail, reminders, history, requests>>

\* One line: the id is noted; the loan's detail, if it has one, is updated and
\* two reminders are scheduled, each unless one is pending on its own day
\* (existsUnprocessedOnDay). A loan that has reminders pending gets more when
\* the line's payday is another one.
Line(q, l) ==
    /\ req[q].at = "lines" /\ l \in req[q].left
    /\ l \in detail => DetailFree(q, l)
    /\ LET found == {l} \cap detail IN
         \E new \in {found, found \ reminders} :
           req' = [req EXCEPT ![q].left = @ \ {l}, ![q].listed = @ \cup {l},
                              ![q].details = @ \cup found, ![q].added = @ \cup new]
    /\ UNCHANGED <<loan, detail, reminders, history, requests>>

\* getLoans(state = APPROVED), less the ids noted.
ListApproved(q) ==
    /\ req[q].at = "lines" /\ req[q].left = {}
    /\ req' = [req EXCEPT ![q].left = {l \in Loans : loan[l].state = "approved"} \ req[q].listed,
                          ![q].at = "close"]
    /\ UNCHANGED <<loan, detail, reminders, history, requests>>

\* Variant: the list read before is taken at its word.
CloseUnread(q, l) ==
    /\ req[q].at = "close" /\ l \in req[q].left
    /\ RowFree(q, l)
    /\ req' = [req EXCEPT ![q].left = @ \ {l}, ![q].id = l, ![q].to = "paid",
                          ![q].rows[l] = [loan[l] EXCEPT !.state = "paid"],
                          ![q].from = "approved", ![q].at = "purge"]
    /\ UNCHANGED <<loan, detail, reminders, history, requests>>

\* updateLoanIn(id, PAID_OUT) reads the loan again; one that is no longer
\* approved is skipped (C50).
CloseRead(q, l) ==
    /\ req[q].at = "close" /\ l \in req[q].left
    /\ \/ /\ Legal(loan[l].state, "paid")
          /\ req' = [req EXCEPT ![q].left = @ \ {l}, ![q].id = l, ![q].from = loan[l].state,
                                ![q].to = "paid", ![q].at = "cas"]
       \/ /\ ~ Legal(loan[l].state, "paid")
          /\ req' = [req EXCEPT ![q].left = @ \ {l}]
    /\ UNCHANGED <<loan, detail, reminders, history, requests>>

(***************************************************************************)
(* The end of a transaction.                                               *)
(***************************************************************************)
Done(q) == \/ req[q].at = "commit"
           \/ req[q].at = "close" /\ req[q].left = {}

\* Paid loans that may keep reminders: a refinance pays its parent without
\* removing any, and a file schedules reminders for every loan it lists, also
\* one that is paid or is being paid by an open transaction.
Leftover(q) ==
    {p \in Locked(q) \ {req[q].id} : req[q].op = "patch" /\ req[q].rows[p].state = "paid"}
    \cup {l \in req[q].added : \/ loan[l].state = "paid"
                               \/ \E p \in Requests : req[p].rows[l].state = "paid"}

Commit(q) ==
    /\ Done(q)
    /\ loan' = [l \in Loans |-> Sees(q, l)]
    /\ detail' = detail \cup req[q].details
    /\ reminders' = (reminders \ req[q].dropped) \cup req[q].added
    /\ leftover' = leftover \cup Leftover(q)
    /\ req' = [req EXCEPT ![q] = Idle]
    /\ UNCHANGED <<mailed, undone, requests>>

\* Variant: only PATCH has a time limit.
PatchRollback(q) ==
    /\ req[q].op = "patch"
    /\ undone' = [l \in Loans |->
                    IF l = req[q].id /\ req[q].to # "paid" /\ req[q].at \in {"unlink", "commit"}
                    THEN undone[l] + 1 ELSE undone[l]]
    /\ req' = [req EXCEPT ![q] = Idle]
    /\ UNCHANGED <<loan, detail, reminders, mailed, leftover, requests>>

\* A malformed line, a failed statement, a deadlock, the transaction's time
\* limit or the death of the process: nothing is written, but a mail stays sent.
Rollback(q) ==
    /\ req[q].op \in {"patch", "file"}
    /\ undone' = [l \in Loans |->
                    IF l = req[q].id /\ req[q].to # "paid" /\ req[q].at \in {"unlink", "commit"}
                    THEN undone[l] + 1 ELSE undone[l]]
    /\ req' = [req EXCEPT ![q] = Idle]
    /\ UNCHANGED <<loan, detail, reminders, mailed, leftover, requests>>

(***************************************************************************)
(* POST /api/loan/<id>/refinance: no transaction.                          *)
(***************************************************************************)

\* Variant: the parent is linked before the refinance is created.
LinkFirst(q, l) ==
    /\ Request(q) /\ RowLeft
    /\ loan[l].state = "approved" /\ l \in detail
    /\ req' = [req EXCEPT ![q] = [Idle EXCEPT !.op = "refinance", !.at = "link", !.id = l]]
    /\ UNCHANGED <<loan, detail, reminders, history>>

\* The caller's own approved loan, with a detail to project.
RefinanceRead(q, l) ==
    /\ Request(q) /\ RowLeft
    /\ loan[l].state = "approved" /\ l \in detail
    /\ req' = [req EXCEPT ![q] = [Idle EXCEPT !.op = "refinance", !.at = "create", !.id = l]]
    /\ UNCHANGED <<loan, detail, reminders, history>>

\* createLoan with prev_loan.
RefinanceCreate(q, c) ==
    /\ req[q].at = "create"
    /\ loan[c].state = "none"
    /\ loan' = [loan EXCEPT ![c].state = "waiting", ![c].prev = req[q].id]
    /\ req' = [req EXCEPT ![q].child = c, ![q].at = "link"]
    /\ UNCHANGED <<detail, reminders, history, requests>>

\* Variant: a refinance written the wrong way round.
LinkChild(q) ==
    /\ req[q].at = "link"
    /\ RowFree(q, req[q].child)
    /\ loan' = [loan EXCEPT ![req[q].child].refi = req[q].id]
    /\ req' = [req EXCEPT ![q] = Idle]
    /\ UNCHANGED <<detail, reminders, history, requests>>

RefinanceLink(q) ==
    /\ req[q].at = "link"
    /\ RowFree(q, req[q].id)
    /\ loan' = [loan EXCEPT ![req[q].id].refi = req[q].child]
    /\ req' = [req EXCEPT ![q] = Idle]
    /\ UNCHANGED <<detail, reminders, history, requests>>

\* createLoan refuses (D30, C52), the notification's query fails, or the
\* process dies between the two writes.
RefinanceFails(q) ==
    /\ req[q].op = "refinance"
    /\ req' = [req EXCEPT ![q] = Idle]
    /\ UNCHANGED <<loan, detail, reminders, history, requests>>

\* The scheduler claims a reminder (module Scheduler); a row that an open
\* transaction has deleted makes it wait.
ReminderRuns(l) ==
    /\ l \in reminders
    /\ \A q \in Requests : l \notin req[q].dropped
    /\ reminders' = reminders \ {l}
    /\ UNCHANGED <<loan, detail, req, history, requests>>

Begin(q) ==
    \/ \E l \in Loans, to \in States : PatchRead(q, l, to)
    \/ \E S \in SUBSET Loans : FileBegin(q, S)
    \/ \E l \in Loans : RefinanceRead(q, l)

Statement(q) ==
    \/ CasWins(q) \/ CasLoses(q) \/ PayParent(q) \/ UpsertDetail(q) \/ MailDecision(q)
    \/ Unlink(q) \/ Purge(q)
    \/ \E l \in Loans : Line(q, l) \/ CloseRead(q, l)
    \/ ListApproved(q) \/ Commit(q)
    \/ (\E c \in Loans : RefinanceCreate(q, c)) \/ RefinanceLink(q)

Next ==
    \/ \E l \in Loans : CreateLoan(l) \/ ReminderRuns(l)
    \/ \E q \in Requests : Begin(q) \/ Statement(q) \/ Rollback(q) \/ RefinanceFails(q)

Spec == Init /\ [][Next]_vars

\* A request that can go on goes on, and a transaction that cannot is rolled
\* back at its time limit (20 s for a PATCH, 120 s for a file).
Fairness == \A q \in Requests : WF_vars(Statement(q)) /\ WF_vars(Rollback(q))

FairSpec == Spec /\ Fairness

-----------------------------------------------------------------------------
(***************************************************************************)
(* Properties.                                                             *)
(***************************************************************************)
Places == {"idle", "cas", "parent", "detail", "mail", "unlink", "purge", "commit",
           "lines", "close", "create", "link"}
RequestState ==
    [op : {"none", "patch", "file", "refinance"}, at : Places, id : Loans \cup {None},
     from : States, to : States, child : Loans \cup {None}, file : SUBSET Loans,
     listed : SUBSET Loans, left : SUBSET Loans, rows : [Loans -> LoanRow],
     details : SUBSET Loans, added : SUBSET Loans, dropped : SUBSET Loans]

\* Every variable has its type, and a request works on a loan that exists from
\* the first statement that needs it.
TypeOK ==
    /\ loan \in [Loans -> LoanRow]
    /\ detail \subseteq Loans /\ reminders \subseteq Loans /\ leftover \subseteq Loans
    /\ req \in [Requests -> RequestState]
    /\ \A q \in Requests :
         /\ req[q].at = "idle" <=> req[q].op = "none"
         /\ req[q].at \notin {"idle", "lines", "close"} => req[q].id \in Loans
         /\ req[q].at = "link" => req[q].child \in Loans
    /\ mailed \in [Loans -> [approved : Nat, denied : Nat]]
    /\ undone \in [Loans -> Nat]
    /\ requests \in 0..MaxRequests

\* What is committed of one loan agrees, whatever requests ran into each other:
\* an approved or paid loan has the detail its projection, its refinance and
\* the monthly file need, and a link to a refinance is the refinance's own.
DecidedHasDetail == \A l \in Loans : loan[l].state \in {"approved", "paid"} => l \in detail
LinksAgree == \A l \in Loans : loan[l].refi # None => loan[loan[l].refi].prev = l
BooksAgree == DecidedHasDetail /\ LinksAgree

\* The borrower is told of each decision once; one told twice was told of a
\* decision that was rolled back after the mail.
OneMailPerDecision ==
    \A l \in Loans : /\ mailed[l].approved <= 1 + undone[l]
                     /\ mailed[l].denied <= 1 + undone[l]

\* A loan that a file lists is not closed by that file, also when it had no
\* detail yet as its line was read and is approved before the loans are.
FileSparesListed ==
    \A q \in Requests : req[q].op = "file" => Locked(q) \cap req[q].file = {}

\* A loan that is closed by a payout or by a file keeps no reminder, unless a
\* file schedules one at the same time or later; one that a refinance pays
\* keeps those it has.
PaidKeepsNoReminder ==
    \A l \in reminders : loan[l].state = "paid" => l \in leftover

\* "The refinance was refused: unlink it from the loan it would have replaced."
DeniedIsUnlinked ==
    \A l \in Loans : loan[l].refi # None => loan[loan[l].refi].state # "denied"

\* Every request ends, though two files or two decisions may wait for each
\* other's rows.
RequestsEnd == \A q \in Requests : []<>(req[q].at = "idle")

(***************************************************************************)
(* The service implements LoanBook.                                        *)
(***************************************************************************)
Book == INSTANCE LoanBook WITH state <- [l \in Loans |-> loan[l].state]

\* Whatever requests interleave, what is committed changes as if each request
\* were one step.
ImplementsBook == Book!Spec
=============================================================================
