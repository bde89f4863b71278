----------------------------- MODULE LoansProofs -----------------------------
(***************************************************************************)
(* Proofs about Loans, for any loans, openings and number of requests.     *)
(*                                                                         *)
(* The committed loans agree because of what every open transaction holds  *)
(* in its locked rows.  LoansInv says it request by request: the rows a    *)
(* transaction has locked are the committed ones but for the change its    *)
(* statements so far have made (PatchOK, FileOK), no two hold the same row *)
(* (LocksOK), and a refinance points at a loan that has a detail (LinksOK, *)
(* RefinanceOK).  A commit then moves the committed loans from one state   *)
(* that agrees to another, and is one step of LoanBook.                    *)
(***************************************************************************)
EXTENDS Loans, TLAPS

-----------------------------------------------------------------------------
(***************************************************************************)
(* The inductive invariant.                                                *)
(***************************************************************************)

\* A locked row is a loan's, with the change of a statement: who it replaces is
\* never rewritten, and the loan that replaces it only cleared.
RowsOK(q) ==
    \A l \in Locked(q) :
        /\ loan[l].state # "none" /\ req[q].rows[l].state # "none"
        /\ req[q].rows[l].prev = loan[l].prev
        /\ req[q].rows[l].refi \in {loan[l].refi, None}

WroteNothing(q) == Locked(q) = {} /\ req[q].details = {}

\* A PATCH once its UPDATE has won, by the decision it makes.
ApprovalOK(q, l, p) ==
    /\ req[q].at \in {"parent", "detail", "mail", "commit"}
    /\ req[q].at \in {"parent", "detail"} => req[q].details = {}
    /\ req[q].at \in {"mail", "commit"} => req[q].details = {l}
    /\ req[q].at = "parent" => p # None
    /\ req[q].at # "parent" /\ p # None => p \in Locked(q) /\ req[q].rows[p].state = "paid"

DenialOK(q, l, p) ==
    /\ req[q].at \in {"mail", "unlink", "commit"}
    /\ req[q].details = {}
    /\ req[q].at = "unlink" => p # None
    /\ p \in Locked(q) => req[q].rows[p].state = loan[p].state

PayoutOK(q, l) ==
    /\ req[q].at \in {"purge", "commit"}
    /\ req[q].details = {}
    /\ Locked(q) = {l}

DecisionOK(q, l, p) ==
    /\ l \in Locked(q) /\ Locked(q) \subseteq {l, p}
    /\ loan[l].state = req[q].from /\ req[q].rows[l].state = req[q].to
    /\ req[q].to = "approved" => ApprovalOK(q, l, p)
    /\ req[q].to = "denied" => DenialOK(q, l, p)
    /\ req[q].to = "paid" => PayoutOK(q, l)

PatchOK(q) ==
    /\ req[q].at \in {"cas", "parent", "detail", "mail", "unlink", "purge", "commit"}
    /\ Legal(req[q].from, req[q].to)
    /\ req[q].at = "cas" => WroteNothing(q)
    /\ req[q].at # "cas" => DecisionOK(q, req[q].id, loan[req[q].id].prev)

\* A monthly file: it only closes approved loans, and only touches details that
\* are there.
FileOK(q) ==
    /\ req[q].at \in {"lines", "close", "cas", "purge"}
    /\ req[q].details \subseteq detail
    /\ req[q].at \in {"cas", "purge"} => req[q].to = "paid" /\ req[q].from = "approved"
    /\ \A l \in Locked(q) : loan[l].state = "approved" /\ req[q].rows[l].state = "paid"

\* A refinance: the loan it replaces has a detail, and the loan it creates
\* points back at it.
RefinanceOK(q) ==
    /\ req[q].at \in {"create", "link"}
    /\ WroteNothing(q)
    /\ req[q].id \in detail /\ loan[req[q].id].state # "none"
    /\ req[q].at = "link" => /\ loan[req[q].child].state # "none"
                             /\ loan[req[q].child].prev = req[q].id

RequestOK(q) ==
    /\ RowsOK(q)
    /\ req[q].op = "none" => WroteNothing(q)
    /\ req[q].op = "patch" => PatchOK(q)
    /\ req[q].op = "file" => FileOK(q)
    /\ req[q].op = "refinance" => RefinanceOK(q)

\* A row is locked by one transaction at a time.
LocksOK == \A p, q \in Requests : p # q => Locked(p) \cap Locked(q) = {}

\* A loan that replaces another replaces one that exists and has a detail.
LinksOK ==
    \A l \in Loans :
        /\ loan[l].state = "none" => loan[l].prev = None
        /\ loan[l].prev # None => /\ loan[l].prev # l /\ loan[l].prev \in detail
                                  /\ loan[loan[l].prev].state # "none"

LoansInv ==
    /\ TypeOK
    /\ LocksOK
    /\ LinksOK
    /\ BooksAgree
    /\ \A q \in Requests : RequestOK(q)

\* What the ids of a file's lines have become.
ListedFor(q) ==
    req[q].op = "file" =>
        /\ req[q].at = "lines" => req[q].file \subseteq req[q].left \cup req[q].listed
        /\ req[q].at = "lines" => Locked(q) = {}
        /\ req[q].at # "lines" => req[q].left \cap req[q].file = {}
        /\ req[q].at \in {"cas", "purge"} => req[q].id \notin req[q].file
        /\ Locked(q) \cap req[q].file = {}

ListedOK == \A q \in Requests : ListedFor(q)

\* q has mailed the decision `to` on l and neither committed nor rolled back.
Told(q, l, to) == req[q].op = "patch" /\ req[q].id = l /\ req[q].to = to
                  /\ req[q].at \in {"unlink", "commit"}

\* A decision beyond those undone was mailed only if it is committed or about
\* to be.
MailsOK ==
    \A l \in Loans :
        /\ mailed[l].approved <= undone[l] + 1
        /\ mailed[l].denied <= undone[l] + 1
        /\ /\ loan[l].state \in {"none", "waiting"}
           /\ \A q \in Requests : ~ Told(q, l, "approved")
           => mailed[l].approved <= undone[l]
        /\ /\ loan[l].state \in {"none", "waiting", "approved"}
           /\ \A q \in Requests : ~ Told(q, l, "denied")
           => mailed[l].denied <= undone[l]

\* The row of a loan that q closes, past the removal of its reminders.
Purged(q, l) ==
    /\ req[q].rows[l].state = "paid"
    /\ \/ req[q].op = "file" /\ ~ (req[q].at = "purge" /\ req[q].id = l)
       \/ req[q].op = "patch" /\ req[q].at = "commit" /\ req[q].id = l

\* A reminder of a loan being closed goes with it, unless it was committed
\* after the removal had read the reminders.
RemindersFor(q) ==
    \A l \in reminders : Purged(q, l) => l \in req[q].dropped \/ l \in leftover

RemindersOK == PaidKeepsNoReminder /\ \A q \in Requests : RemindersFor(q)

-----------------------------------------------------------------------------
(***************************************************************************)
(* What a statement leaves of its request, and what it writes there.       *)
(***************************************************************************)
SameAsk(r, s) ==
    s.op = r.op /\ s.id = r.id /\ s.from = r.from /\ s.to = r.to /\ s.child = r.child
SameFile(r, s) == s.file = r.file /\ s.listed = r.listed /\ s.left = r.left
SameWrites(r, s) == s.rows = r.rows /\ s.details = r.details
SameReminders(r, s) == s.added = r.added /\ s.dropped = r.dropped

\* Only q has moved.
OnlyMoves(q) ==
    /\ req' \in [Requests -> RequestState]
    /\ \A p \in Requests \ {q} : req'[p] = req[p]

LEMMA MovesOne ==
    ASSUME TypeOK, NEW q \in Requests, NEW s \in RequestState, req' = [req EXCEPT ![q] = s]
    PROVE  OnlyMoves(q) /\ req'[q] = s
  BY DEF OnlyMoves, TypeOK

\* Rows: what EXCEPT makes of one.
LEMMA RowWithState ==
    ASSUME NEW r \in LoanRow, NEW s \in States \ {"none"}
    PROVE  LET t == [r EXCEPT !.state = s] IN
           t \in LoanRow /\ t # NoRow /\ t.state = s /\ t.prev = r.prev /\ t.refi = r.refi
  BY DEF LoanRow, NoRow

LEMMA RowUnlinked ==
    ASSUME NEW r \in LoanRow
    PROVE  LET t == [r EXCEPT !.refi = None] IN
           t \in LoanRow /\ t.state = r.state /\ t.prev = r.prev /\ t.refi = None
  BY DEF LoanRow

\* Requests: what EXCEPT makes of one.
LEMMA WithRows ==
    ASSUME NEW r \in RequestState, NEW at \in Places, NEW rows \in [Loans -> LoanRow]
    PROVE  LET s == [r EXCEPT !.rows = rows, !.at = at] IN
           /\ s \in RequestState /\ s.at = at /\ s.rows = rows /\ s.details = r.details
           /\ SameAsk(r, s) /\ SameFile(r, s) /\ SameReminders(r, s)
  BY DEF RequestState, SameAsk, SameFile, SameReminders

LEMMA WithDetails ==
    ASSUME NEW r \in RequestState, NEW at \in Places, NEW details \in SUBSET Loans
    PROVE  LET s == [r EXCEPT !.details = details, !.at = at] IN
           /\ s \in RequestState /\ s.at = at /\ s.rows = r.rows /\ s.details = details
           /\ SameAsk(r, s) /\ SameFile(r, s) /\ SameReminders(r, s)
  BY DEF RequestState, SameAsk, SameFile, SameReminders

LEMMA WithDropped ==
    ASSUME NEW r \in RequestState, NEW at \in Places, NEW dropped \in SUBSET Loans
    PROVE  LET s == [r EXCEPT !.dropped = dropped, !.at = at] IN
           /\ s \in RequestState /\ s.at = at /\ s.dropped = dropped /\ s.added = r.added
           /\ SameAsk(r, s) /\ SameFile(r, s) /\ SameWrites(r, s)
  BY DEF RequestState, SameAsk, SameFile, SameWrites

LEMMA WithPlace ==
    ASSUME NEW r \in RequestState, NEW at \in Places
    PROVE  LET s == [r EXCEPT !.at = at] IN
           /\ s \in RequestState /\ s.at = at
           /\ SameAsk(r, s) /\ SameFile(r, s) /\ SameWrites(r, s) /\ SameReminders(r, s)
  BY DEF RequestState, SameAsk, SameFile, SameWrites, SameReminders

LEMMA WithChild ==
    ASSUME NEW r \in RequestState, NEW c \in Loans
    PROVE  LET s == [r EXCEPT !.child = c, !.at = "link"] IN
           /\ s \in RequestState /\ s.op = r.op /\ s.at = "link" /\ s.id = r.id
           /\ s.child = c /\ SameFile(r, s) /\ SameWrites(r, s) /\ SameReminders(r, s)
  BY DEF RequestState, SameFile, SameWrites, SameReminders, Places

LEMMA IdleType ==
    /\ Idle \in RequestState /\ Idle.op = "none" /\ Idle.at = "idle"
    /\ Idle.rows = [l \in Loans |-> NoRow] /\ Idle.details = {}
    /\ Idle.added = {} /\ Idle.dropped = {}
  BY DEF Idle, RequestState, NoRow, LoanRow, States, Places

-----------------------------------------------------------------------------
(***************************************************************************)
(* What each action does, in those terms.                                  *)
(***************************************************************************)

\* q has locked row l and written row there; its next statement is at.
Locks(q, l, at) ==
    /\ OnlyMoves(q)
    /\ req'[q].at = at /\ req'[q].details = req[q].details
    /\ SameAsk(req[q], req'[q]) /\ SameFile(req[q], req'[q]) /\ SameReminders(req[q], req'[q])
    /\ Locked(q)' = Locked(q) \cup {l}
    /\ req'[q].rows[l].prev = loan[l].prev
    /\ \A k \in Loans \ {l} : req'[q].rows[k] = req[q].rows[k]
    /\ UNCHANGED <<loan, detail, reminders, history, requests>>

LEMMA LocksRow ==
    ASSUME TypeOK, NEW q \in Requests, NEW l \in Loans, NEW row \in LoanRow, NEW at \in Places,
           row # NoRow, row.prev = loan[l].prev,
           req' = [req EXCEPT ![q].rows[l] = row, ![q].at = at],
           UNCHANGED <<loan, detail, reminders, history, requests>>
    PROVE  Locks(q, l, at) /\ req'[q].rows[l] = row
  <1> DEFINE r == req[q]
             rows == [r.rows EXCEPT ![l] = row]
             s == [r EXCEPT !.rows = rows, !.at = at]
  <1>1. r \in RequestState /\ r.rows \in [Loans -> LoanRow]
    BY DEF TypeOK, RequestState
  <1>2. rows \in [Loans -> LoanRow]
    BY <1>1
  <1>3. /\ s \in RequestState /\ s.at = at /\ s.rows = rows /\ s.details = r.details
        /\ SameAsk(r, s) /\ SameFile(r, s) /\ SameReminders(r, s)
    BY <1>1, <1>2, WithRows
  <1>4. req' = [req EXCEPT ![q] = s]
    OBVIOUS
  <1> HIDE DEF s
  <1>5. OnlyMoves(q) /\ req'[q] = s
    BY <1>3, <1>4, MovesOne
  <1>6. req'[q].rows[l] = row /\ \A k \in Loans \ {l} : req'[q].rows[k] = req[q].rows[k]
    BY <1>1, <1>3, <1>5
  <1>7. Locked(q)' = Locked(q) \cup {l}
    BY <1>6 DEF Locked, NoRow
  <1> QED
    BY <1>3, <1>5, <1>6, <1>7 DEF Locks

LEMMA CasWinsDoes ==
    ASSUME TypeOK, NEW q \in Requests, req[q].id \in Loans, req[q].to # "none", CasWins(q)
    PROVE  /\ Locks(q, req[q].id, After(q)) /\ RowFree(q, req[q].id)
           /\ req[q].at = "cas" /\ loan[req[q].id].state = req[q].from
           /\ req'[q].rows[req[q].id].state = req[q].to
           /\ req'[q].rows[req[q].id].refi = loan[req[q].id].refi
  <1>1. req[q].to \in States \ {"none"} /\ loan[req[q].id] \in LoanRow /\ After(q) \in Places
    <2>1. req[q] \in RequestState
      BY DEF TypeOK
    <2>2. req[q].to \in States \ {"none"} /\ loan[req[q].id] \in LoanRow
      BY <2>1 DEF TypeOK, RequestState
    <2> QED
      BY <2>2 DEF After, Places
  <1> DEFINE row == [loan[req[q].id] EXCEPT !.state = req[q].to]
  <1>2. /\ row \in LoanRow /\ row # NoRow /\ row.state = req[q].to
        /\ row.prev = loan[req[q].id].prev /\ row.refi = loan[req[q].id].refi
    BY <1>1, RowWithState
  <1>3. /\ req' = [req EXCEPT ![q].rows[req[q].id] = row, ![q].at = After(q)]
        /\ UNCHANGED <<loan, detail, reminders, history, requests>>
        /\ RowFree(q, req[q].id) /\ req[q].at = "cas" /\ loan[req[q].id].state = req[q].from
    BY DEF CasWins
  <1> HIDE DEF row
  <1>4. Locks(q, req[q].id, After(q)) /\ req'[q].rows[req[q].id] = row
    <2> DEFINE l == req[q].id
               at == After(q)
    <2>1. /\ row \in LoanRow /\ row # NoRow /\ row.prev = loan[l].prev /\ at \in Places
          /\ req' = [req EXCEPT ![q].rows[l] = row, ![q].at = at]
          /\ UNCHANGED <<loan, detail, reminders, history, requests>>
      BY <1>1, <1>2, <1>3
    <2> HIDE DEF l, at
    <2>2. l \in Loans
      BY DEF l
    <2>3. Locks(q, l, at) /\ req'[q].rows[l] = row
      BY <2>1, <2>2, LocksRow, ZenonT(30)
    <2> QED
      BY <2>3 DEF l, at
  <1> QED
    BY <1>2, <1>3, <1>4

LEMMA PayParentDoes ==
    ASSUME TypeOK, NEW q \in Requests, loan[req[q].id].prev \in Loans, PayParent(q)
    PROVE  LET p == loan[req[q].id].prev IN
           /\ Locks(q, p, "detail") /\ RowFree(q, p) /\ req[q].at = "parent"
           /\ req'[q].rows[p].state = "paid" /\ req'[q].rows[p].refi = loan[p].refi
  <1> DEFINE p == loan[req[q].id].prev
  <1>1. /\ p \in Loans /\ loan[p] \in LoanRow
        /\ "paid" \in States \ {"none"} /\ "detail" \in Places
    BY DEF TypeOK, States, Places
  <1> DEFINE row == [loan[p] EXCEPT !.state = "paid"]
  <1>2. /\ row \in LoanRow /\ row # NoRow /\ row.state = "paid"
        /\ row.prev = loan[p].prev /\ row.refi = loan[p].refi
    BY <1>1, RowWithState
  <1>3. /\ req' = [req EXCEPT ![q].rows[p] = row, ![q].at = "detail"]
        /\ UNCHANGED <<loan, detail, reminders, history, requests>>
        /\ RowFree(q, p) /\ req[q].at = "parent"
    BY DEF PayParent
  <1> HIDE DEF row, p
  <1>4. Locks(q, p, "detail") /\ req'[q].rows[p] = row
    <2> DEFINE at == "detail"
    <2>1. at \in Places /\ req' = [req EXCEPT ![q].rows[p] = row, ![q].at = at]
      BY <1>1, <1>3
    <2>2. UNCHANGED <<loan, detail, reminders, history, requests>>
      BY <1>3
    <2>3. p \in Loans /\ row \in LoanRow /\ row # NoRow /\ row.prev = loan[p].prev
      BY <1>1, <1>2
    <2> HIDE DEF at
    <2>4. Locks(q, p, at) /\ req'[q].rows[p] = row
      BY <2>1, <2>2, <2>3, LocksRow
    <2> QED
      BY <2>4 DEF at
  <1> QED
    BY <1>2, <1>3, <1>4 DEF p

LEMMA UnlinkDoes ==
    ASSUME TypeOK, NEW q \in Requests, loan[req[q].id].prev \in Loans,
           loan[loan[req[q].id].prev].state # "none", Unlink(q)
    PROVE  LET p == loan[req[q].id].prev IN
           /\ Locks(q, p, "commit") /\ RowFree(q, p) /\ req[q].at = "unlink"
           /\ req'[q].rows[p].state = loan[p].state /\ req'[q].rows[p].refi = None
  <1> DEFINE p == loan[req[q].id].prev
             row == [loan[p] EXCEPT !.refi = None]
  <1>1. loan[p] \in LoanRow /\ "commit" \in Places
    BY DEF TypeOK, Places
  <1>2. /\ row \in LoanRow /\ row.state = loan[p].state /\ row.prev = loan[p].prev
        /\ row.refi = None
    BY <1>1, RowUnlinked
  <1>3. row # NoRow
    BY <1>2 DEF NoRow
  <1>4. /\ req' = [req EXCEPT ![q].rows[p] = row, ![q].at = "commit"]
        /\ UNCHANGED <<loan, detail, reminders, history, requests>>
        /\ RowFree(q, p) /\ req[q].at = "unlink"
    BY DEF Unlink
  <1> HIDE DEF row
  <1>5. Locks(q, p, "commit") /\ req'[q].rows[p] = row
    BY <1>1, <1>2, <1>3, <1>4, LocksRow
  <1> QED
    BY <1>2, <1>4, <1>5

LEMMA UpsertDetailDoes ==
    ASSUME TypeOK, NEW q \in Requests, req[q].id \in Loans, UpsertDetail(q)
    PROVE  /\ OnlyMoves(q) /\ req[q].at = "detail" /\ req'[q].at = "mail"
           /\ req'[q].details = req[q].details \cup {req[q].id} /\ req'[q].rows = req[q].rows
           /\ SameAsk(req[q], req'[q]) /\ SameFile(req[q], req'[q])
           /\ SameReminders(req[q], req'[q])
           /\ UNCHANGED <<loan, detail, reminders, history, requests>>
  <1> DEFINE r == req[q]
             details == r.details \cup {r.id}
             s == [r EXCEPT !.details = details, !.at = "mail"]
  <1>1. r \in RequestState /\ details \in SUBSET Loans /\ "mail" \in Places
    BY DEF TypeOK, RequestState, Places
  <1>2. req' = [req EXCEPT ![q] = s] /\ r.at = "detail"
        /\ UNCHANGED <<loan, detail, reminders, history, requests>>
    BY DEF UpsertDetail
  <1>3. /\ s \in RequestState /\ s.at = "mail" /\ s.rows = r.rows /\ s.details = details
        /\ SameAsk(r, s) /\ SameFile(r, s) /\ SameReminders(r, s)
    BY <1>1, WithDetails
  <1> HIDE DEF s
  <1> QED
    BY <1>2, <1>3, MovesOne

LEMMA MailDecisionDoes ==
    ASSUME TypeOK, NEW q \in Requests, req[q].id \in Loans, req[q].to \in {"approved", "denied"},
           MailDecision(q)
    PROVE  /\ OnlyMoves(q) /\ req[q].at = "mail"
           /\ req'[q].at = IF req[q].to = "denied" /\ loan[req[q].id].prev # None
                           THEN "unlink" ELSE "commit"
           /\ SameAsk(req[q], req'[q]) /\ SameFile(req[q], req'[q])
           /\ SameWrites(req[q], req'[q]) /\ SameReminders(req[q], req'[q])
           /\ UNCHANGED <<loan, detail, reminders, undone, leftover, requests>>
           /\ mailed' \in [Loans -> [approved : Nat, denied : Nat]]
           /\ \A l \in Loans :
                /\ mailed'[l].approved = IF l = req[q].id /\ req[q].to = "approved"
                                         THEN mailed[l].approved + 1 ELSE mailed[l].approved
                /\ mailed'[l].denied = IF l = req[q].id /\ req[q].to = "denied"
                                       THEN mailed[l].denied + 1 ELSE mailed[l].denied
  <1> DEFINE r == req[q]
             at == IF r.to = "denied" /\ loan[r.id].prev # None THEN "unlink" ELSE "commit"
             s == [r EXCEPT !.at = at]
  <1>1. r \in RequestState /\ at \in Places
    BY DEF TypeOK, Places
  <1>2. req' = [req EXCEPT ![q] = s] /\ r.at = "mail"
        /\ UNCHANGED <<loan, detail, reminders, undone, leftover, requests>>
        /\ mailed' = [mailed EXCEPT ![r.id][r.to] = @ + 1]
    BY DEF MailDecision
  <1>3. /\ s \in RequestState /\ s.at = at /\ SameAsk(r, s) /\ SameFile(r, s)
        /\ SameWrites(r, s) /\ SameReminders(r, s)
    BY <1>1, WithPlace
  <1>4. /\ mailed' \in [Loans -> [approved : Nat, denied : Nat]]
        /\ \A l \in Loans :
             /\ mailed'[l].approved = IF l = r.id /\ r.to = "approved"
                                      THEN mailed[l].approved + 1 ELSE mailed[l].approved
             /\ mailed'[l].denied = IF l = r.id /\ r.to = "denied"
                                    THEN mailed[l].denied + 1 ELSE mailed[l].denied
    <2>1. CASE r.to = "approved"
      BY <1>2, <2>1 DEF TypeOK
    <2>2. CASE r.to = "denied"
      BY <1>2, <2>2 DEF TypeOK
    <2> QED
      BY <2>1, <2>2
  <1> HIDE DEF s
  <1> QED
    BY <1>2, <1>3, <1>4, MovesOne

LEMMA PurgeDoes ==
    ASSUME TypeOK, NEW q \in Requests, req[q].id \in Loans, Purge(q)
    PROVE  /\ OnlyMoves(q) /\ req[q].at = "purge"
           /\ req'[q].at = IF req[q].op = "file" THEN "close" ELSE "commit"
           /\ req'[q].added = req[q].added
           /\ req'[q].dropped = req[q].dropped \cup ({req[q].id} \cap reminders)
           /\ SameAsk(req[q], req'[q]) /\ SameFile(req[q], req'[q])
           /\ SameWrites(req[q], req'[q])
           /\ UNCHANGED <<loan, detail, reminders, history, requests>>
  <1> DEFINE r == req[q]
             dropped == r.dropped \cup ({r.id} \cap reminders)
             at == IF r.op = "file" THEN "close" ELSE "commit"
             s == [r EXCEPT !.dropped = dropped, !.at = at]
  <1>1. r \in RequestState /\ dropped \in SUBSET Loans /\ at \in Places
    BY DEF TypeOK, RequestState, Places
  <1>2. req' = [req EXCEPT ![q] = s] /\ r.at = "purge"
        /\ UNCHANGED <<loan, detail, reminders, history, requests>>
    BY DEF Purge
  <1> HIDE DEF dropped, at
  <1>3. /\ s \in RequestState /\ s.at = at /\ s.dropped = dropped /\ s.added = r.added
        /\ SameAsk(r, s) /\ SameFile(r, s) /\ SameWrites(r, s)
    BY <1>1, WithDropped
  <1> HIDE DEF s
  <1> QED
    BY <1>2, <1>3, MovesOne DEF dropped, at

LEMMA LineDoes ==
    ASSUME TypeOK, NEW q \in Requests, NEW l \in Loans, Line(q, l)
    PROVE  /\ OnlyMoves(q) /\ req[q].at = "lines" /\ req'[q].at = "lines"
           /\ req'[q].left = req[q].left \ {l} /\ req'[q].listed = req[q].listed \cup {l}
           /\ req'[q].file = req[q].file /\ req'[q].rows = req[q].rows
           /\ req'[q].details = req[q].details \cup ({l} \cap detail)
           /\ SameAsk(req[q], req'[q]) /\ req'[q].dropped = req[q].dropped
           /\ UNCHANGED <<loan, detail, reminders, history, requests>>
  <1>0. PICK new \in {{l} \cap detail, ({l} \cap detail) \ reminders} :
            req' = [req EXCEPT ![q].left = @ \ {l}, ![q].listed = @ \cup {l},
                               ![q].details = @ \cup ({l} \cap detail),
                               ![q].added = @ \cup new]
    BY DEF Line
  <1> DEFINE r == req[q]
             left == r.left \ {l}
             listed == r.listed \cup {l}
             details == r.details \cup ({l} \cap detail)
             added == r.added \cup new
             s == [r EXCEPT !.left = left, !.listed = listed, !.details = details,
                            !.added = added]
  <1>1. /\ r \in RequestState /\ left \in SUBSET Loans /\ listed \in SUBSET Loans
        /\ details \in SUBSET Loans /\ added \in SUBSET Loans
    BY DEF TypeOK, RequestState
  <1>2. req' = [req EXCEPT ![q] = s] /\ r.at = "lines"
        /\ UNCHANGED <<loan, detail, reminders, history, requests>>
    BY <1>0 DEF Line
  <1> HIDE DEF left, listed, details, added, r
  <1>3. /\ s \in RequestState /\ s.left = left /\ s.listed = listed /\ s.file = r.file
        /\ s.rows = r.rows /\ s.details = details /\ s.added = added /\ s.at = r.at
        /\ SameAsk(r, s) /\ s.dropped = r.dropped
    BY <1>1 DEF s, RequestState, SameAsk
  <1> HIDE DEF s
  <1> QED
    BY <1>2, <1>3, MovesOne DEF left, listed, details, r

LEMMA ListApprovedDoes ==
    ASSUME TypeOK, NEW q \in Requests, ListApproved(q)
    PROVE  /\ OnlyMoves(q) /\ req[q].at = "lines" /\ req'[q].at = "close" /\ req[q].left = {}
           /\ req'[q].left \cap req[q].listed = {} /\ req'[q].file = req[q].file
           /\ SameAsk(req[q], req'[q]) /\ SameWrites(req[q], req'[q])
           /\ SameReminders(req[q], req'[q])
           /\ UNCHANGED <<loan, detail, reminders, history, requests>>
  <1> DEFINE r == req[q]
             left == {l \in Loans : loan[l].state = "approved"} \ r.listed
             s == [r EXCEPT !.left = left, !.at = "close"]
  <1>1. r \in RequestState /\ left \in SUBSET Loans /\ "close" \in Places
    BY DEF TypeOK, Places
  <1>2. req' = [req EXCEPT ![q] = s] /\ r.at = "lines" /\ r.left = {}
        /\ UNCHANGED <<loan, detail, reminders, history, requests>>
    BY DEF ListApproved
  <1>3. left \cap r.listed = {}
    OBVIOUS
  <1> HIDE DEF left, r
  <1>4. /\ s \in RequestState /\ s.at = "close" /\ s.left = left /\ s.file = r.file
        /\ SameAsk(r, s) /\ SameWrites(r, s) /\ SameReminders(r, s)
    BY <1>1 DEF s, RequestState, SameAsk, SameWrites, SameReminders
  <1> HIDE DEF s
  <1> QED
    BY <1>2, <1>3, <1>4, MovesOne DEF r

\* CloseRead: the loan is taken up, or skipped because it is no longer approved.
LEMMA CloseReadDoes ==
    ASSUME TypeOK, NEW q \in Requests, NEW l \in Loans, CloseRead(q, l)
    PROVE  /\ OnlyMoves(q) /\ req[q].at = "close" /\ l \in req[q].left
           /\ req'[q].left = req[q].left \ {l}
           /\ req'[q].op = req[q].op /\ req'[q].file = req[q].file
           /\ SameWrites(req[q], req'[q]) /\ SameReminders(req[q], req'[q])
           /\ \/ /\ req'[q].at = "cas" /\ req'[q].id = l /\ req'[q].to = "paid"
                 /\ req'[q].from = "approved"
              \/ /\ req'[q].at = "close" /\ SameAsk(req[q], req'[q])
           /\ UNCHANGED <<loan, detail, reminders, history, requests>>
  <1> DEFINE r == req[q]
             left == r.left \ {l}
  <1>1. /\ r \in RequestState /\ left \in SUBSET Loans /\ loan[l].state \in States
        /\ "close" \in Places
    BY DEF TypeOK, RequestState, LoanRow, Places
  <1>2. r.at = "close" /\ l \in r.left /\ UNCHANGED <<loan, detail, reminders, history, requests>>
    BY DEF CloseRead
  <1>3. CASE Legal(loan[l].state, "paid")
    <2> DEFINE s == [r EXCEPT !.left = left, !.id = l, !.from = loan[l].state, !.to = "paid",
                              !.at = "cas"]
    <2>1. req' = [req EXCEPT ![q] = s]
      BY <1>3 DEF CloseRead
    <2>2. /\ s \in RequestState /\ s.op = r.op /\ s.at = "cas" /\ s.id = l
          /\ s.from = loan[l].state /\ s.to = "paid" /\ s.left = left /\ s.file = r.file
          /\ SameWrites(r, s) /\ SameReminders(r, s)
      BY <1>1 DEF s, RequestState, SameWrites, SameReminders, States, Places
    <2>3. loan[l].state = "approved"
      BY <1>3 DEF Legal
    <2> HIDE DEF s
    <2> QED
      BY <1>2, <2>1, <2>2, <2>3, MovesOne
  <1>4. CASE ~ Legal(loan[l].state, "paid")
    <2> DEFINE s == [r EXCEPT !.left = left, !.at = "close"]
    <2>1. s = [r EXCEPT !.left = left]
      BY <1>1, <1>2 DEF RequestState
    <2>2. req' = [req EXCEPT ![q] = [r EXCEPT !.left = left]]
      BY <1>4 DEF CloseRead
    <2>3. /\ s \in RequestState /\ s.at = "close" /\ s.left = left /\ s.file = r.file
          /\ SameAsk(r, s) /\ SameWrites(r, s) /\ SameReminders(r, s)
      BY <1>1 DEF s, RequestState, SameAsk, SameWrites, SameReminders
    <2> HIDE DEF s
    <2> QED
      BY <1>2, <2>1, <2>2, <2>3, MovesOne DEF SameAsk
  <1> QED
    BY <1>3, <1>4

LEMMA CasLosesDoes ==
    ASSUME TypeOK, NEW q \in Requests, CasLoses(q), req[q].op = "file"
    PROVE  /\ OnlyMoves(q) /\ req[q].at = "cas" /\ req'[q].at = "close"
           /\ SameAsk(req[q], req'[q]) /\ SameFile(req[q], req'[q])
           /\ SameWrites(req[q], req'[q]) /\ SameReminders(req[q], req'[q])
           /\ UNCHANGED <<loan, detail, reminders, history, requests>>
  <1> DEFINE s == [req[q] EXCEPT !.at = "close"]
  <1>1. req[q] \in RequestState /\ "close" \in Places
    BY DEF TypeOK, Places
  <1>2. req' = [req EXCEPT ![q] = s] /\ req[q].at = "cas"
        /\ UNCHANGED <<loan, detail, reminders, history, requests>>
    BY DEF CasLoses
  <1>3. /\ s \in RequestState /\ s.at = "close" /\ SameAsk(req[q], s) /\ SameFile(req[q], s)
        /\ SameWrites(req[q], s) /\ SameReminders(req[q], s)
    BY <1>1, WithPlace
  <1> HIDE DEF s
  <1> QED
    BY <1>2, <1>3, MovesOne

LEMMA RefinanceCreateDoes ==
    ASSUME TypeOK, NEW q \in Requests, NEW c \in Loans, req[q].id \in Loans,
           RefinanceCreate(q, c)
    PROVE  /\ OnlyMoves(q) /\ req[q].at = "create" /\ req'[q].at = "link"
           /\ req'[q].op = req[q].op /\ req'[q].id = req[q].id /\ req'[q].child = c
           /\ SameFile(req[q], req'[q]) /\ SameWrites(req[q], req'[q])
           /\ SameReminders(req[q], req'[q])
           /\ loan[c].state = "none" /\ loan' \in [Loans -> LoanRow]
           /\ loan'[c].state = "waiting" /\ loan'[c].prev = req[q].id
           /\ loan'[c].refi = loan[c].refi
           /\ \A l \in Loans \ {c} : loan'[l] = loan[l]
           /\ UNCHANGED <<detail, reminders, history, requests>>
  <1> DEFINE s == [req[q] EXCEPT !.child = c, !.at = "link"]
             row == [loan[c] EXCEPT !.state = "waiting", !.prev = req[q].id]
  <1>1. req[q] \in RequestState /\ loan[c] \in LoanRow
    BY DEF TypeOK
  <1>2. req' = [req EXCEPT ![q] = s] /\ req[q].at = "create" /\ loan[c].state = "none"
        /\ loan' = [loan EXCEPT ![c] = row]
        /\ UNCHANGED <<detail, reminders, history, requests>>
    BY DEF RefinanceCreate
  <1>3. /\ s \in RequestState /\ s.op = req[q].op /\ s.at = "link" /\ s.id = req[q].id
        /\ s.child = c /\ SameFile(req[q], s) /\ SameWrites(req[q], s)
        /\ SameReminders(req[q], s)
    BY <1>1, WithChild
  <1>4. /\ row \in LoanRow /\ row.state = "waiting" /\ row.prev = req[q].id
        /\ row.refi = loan[c].refi
    BY <1>1 DEF LoanRow, States
  <1> HIDE DEF s, row
  <1>5. loan' \in [Loans -> LoanRow] /\ loan'[c] = row /\ \A l \in Loans \ {c} : loan'[l] = loan[l]
    BY <1>2, <1>4 DEF TypeOK
  <1> QED
    BY <1>2, <1>3, <1>4, <1>5, MovesOne

\* A request that begins has written nothing.
LEMMA BeginDoes ==
    ASSUME TypeOK, NEW q \in Requests, Begin(q)
    PROVE  /\ OnlyMoves(q) /\ req[q].at = "idle"
           /\ req'[q].rows = [l \in Loans |-> NoRow] /\ req'[q].details = {}
           /\ \/ /\ req'[q].op = "patch" /\ req'[q].at = "cas" /\ req'[q].id \in Loans
                 /\ Legal(req'[q].from, req'[q].to)
              \/ /\ req'[q].op = "file" /\ req'[q].at = "lines"
                 /\ req'[q].file = req'[q].left
              \/ /\ req'[q].op = "refinance" /\ req'[q].at = "create"
                 /\ req'[q].id \in detail /\ loan[req'[q].id].state = "approved"
           /\ requests' \in 0..MaxRequests
           /\ UNCHANGED <<loan, detail, reminders, history>>
  <1>1. req[q].at = "idle" /\ requests' \in 0..MaxRequests
        /\ UNCHANGED <<loan, detail, reminders, history>>
    <2>1. Request(q) /\ UNCHANGED <<loan, detail, reminders, history>>
      BY Zenon DEF Begin, PatchRead, FileBegin, RefinanceRead
    <2> QED
      BY <2>1, ConstantsAssumption DEF Request, TypeOK
  <1>2. CASE \E l \in Loans, to \in States : PatchRead(q, l, to)
    <2>1. PICK l \in Loans, to \in States : PatchRead(q, l, to)
      BY <1>2
    <2> DEFINE s == [Idle EXCEPT !.op = "patch", !.at = "cas", !.id = l,
                                 !.from = loan[l].state, !.to = to]
    <2>2. req' = [req EXCEPT ![q] = s] /\ Legal(loan[l].state, to)
      BY <2>1 DEF PatchRead
    <2>3. loan[l].state \in States
      BY DEF TypeOK, LoanRow
    <2>4. /\ s \in RequestState /\ s.op = "patch" /\ s.at = "cas" /\ s.id = l
          /\ s.from = loan[l].state /\ s.to = to /\ SameWrites(Idle, s)
      BY <2>1, <2>3, IdleType DEF RequestState, SameWrites, Places
    <2> HIDE DEF s
    <2>5. OnlyMoves(q) /\ req'[q] = s
      BY <2>2, <2>4, MovesOne
    <2> QED
      BY <1>1, <2>2, <2>4, <2>5, IdleType DEF SameWrites
  <1>3. CASE \E S \in SUBSET Loans : FileBegin(q, S)
    <2>1. PICK S \in SUBSET Loans : FileBegin(q, S)
      BY <1>3
    <2> DEFINE s == [Idle EXCEPT !.op = "file", !.at = "lines", !.file = S, !.left = S]
    <2>2. req' = [req EXCEPT ![q] = s]
      BY <2>1 DEF FileBegin
    <2>3. /\ s \in RequestState /\ s.op = "file" /\ s.at = "lines" /\ s.file = S
          /\ s.left = S /\ SameWrites(Idle, s)
      BY IdleType DEF RequestState, SameWrites, Places
    <2> HIDE DEF s
    <2>4. OnlyMoves(q) /\ req'[q] = s
      BY <2>2, <2>3, MovesOne
    <2> QED
      BY <1>1, <2>2, <2>3, <2>4, IdleType DEF SameWrites
  <1>4. CASE \E l \in Loans : RefinanceRead(q, l)
    <2>1. PICK l \in Loans : RefinanceRead(q, l)
      BY <1>4
    <2> DEFINE s == [Idle EXCEPT !.op = "refinance", !.at = "create", !.id = l]
    <2>2. req' = [req EXCEPT ![q] = s] /\ loan[l].state = "approved" /\ l \in detail
      BY <2>1 DEF RefinanceRead
    <2>3. /\ s \in RequestState /\ s.op = "refinance" /\ s.at = "create" /\ s.id = l
          /\ SameWrites(Idle, s)
      BY IdleType DEF RequestState, SameWrites, Places
    <2> HIDE DEF s
    <2>4. OnlyMoves(q) /\ req'[q] = s
      BY <2>2, <2>3, MovesOne
    <2> QED
      BY <1>1, <2>2, <2>3, <2>4, IdleType DEF SameWrites
  <1> QED
    BY <1>2, <1>3, <1>4 DEF Begin

\* A request that ends holds nothing.
LEMMA EndDoes ==
    ASSUME TypeOK, NEW q \in Requests, req' = [req EXCEPT ![q] = Idle]
    PROVE  OnlyMoves(q) /\ req'[q] = Idle /\ Locked(q)' = {}
  <1>1. OnlyMoves(q) /\ req'[q] = Idle
    BY IdleType, MovesOne
  <1> QED
    BY <1>1, IdleType DEF Locked

-----------------------------------------------------------------------------
(***************************************************************************)
(* LoansInv is inductive.                                                  *)
(***************************************************************************)

\* What a request relies on in what is committed.
Kept(p) ==
    /\ detail \subseteq detail'
    /\ \A l \in Loans : loan[l].state # "none" =>
         loan'[l].state # "none" /\ loan'[l].prev = loan[l].prev
    /\ \A l \in Locked(p) : loan'[l] = loan[l]

LEMMA RequestKept ==
    ASSUME TypeOK, NEW p \in Requests, RequestOK(p), req'[p] = req[p], Kept(p)
    PROVE  RequestOK(p)' /\ Locked(p)' = Locked(p)
  <1>1. Locked(p)' = Locked(p) /\ Locked(p) \subseteq Loans
    BY DEF Locked
  <1>2. RowsOK(p)'
    BY <1>1 DEF RequestOK, RowsOK, Kept
  <1>3. (req[p].op = "none" => WroteNothing(p))'
    BY <1>1 DEF RequestOK, WroteNothing
  <1>4. (req[p].op = "patch" => PatchOK(p))'
    <2> SUFFICES ASSUME req[p].op = "patch"
                 PROVE  PatchOK(p)'
      OBVIOUS
    <2>1. PatchOK(p)
      BY DEF RequestOK
    <2>2. CASE req[p].at = "cas"
      BY <1>1, <2>1, <2>2 DEF PatchOK, WroteNothing
    <2>3. CASE req[p].at # "cas"
      <3> DEFINE l == req[p].id
                 r == loan[l].prev
      <3>1. DecisionOK(p, l, r)
        BY <2>1, <2>3 DEF PatchOK
      <3>2. loan'[l] = loan[l]
        BY <3>1 DEF DecisionOK, Kept
      <3>3. r \in Locked(p) => loan'[r] = loan[r]
        BY DEF Kept
      <3>4. ApprovalOK(p, l, r) => ApprovalOK(p, l, r)'
        BY <1>1, <3>2 DEF ApprovalOK
      <3>5. DenialOK(p, l, r) => DenialOK(p, l, r)'
        BY <1>1, <3>2, <3>3 DEF DenialOK
      <3>6. PayoutOK(p, l) => PayoutOK(p, l)'
        BY <1>1 DEF PayoutOK
      <3>7. DecisionOK(p, l, r)'
        BY <1>1, <3>1, <3>2, <3>4, <3>5, <3>6 DEF DecisionOK
      <3> QED
        BY <2>1, <2>3, <3>2, <3>7 DEF PatchOK
    <2> QED
      BY <2>2, <2>3
  <1>5. (req[p].op = "file" => FileOK(p))'
    BY <1>1 DEF RequestOK, FileOK, Kept
  <1>6. (req[p].op = "refinance" => RefinanceOK(p))'
    <2> SUFFICES ASSUME req[p].op = "refinance"
                 PROVE  RefinanceOK(p)'
      OBVIOUS
    <2>1. RefinanceOK(p) /\ req[p].id \in Loans /\ (req[p].at = "link" => req[p].child \in Loans)
      BY DEF RequestOK, RefinanceOK, TypeOK
    <2> QED
      BY <1>1, <2>1 DEF RefinanceOK, WroteNothing, Kept
  <1> QED
    BY <1>1, <1>2, <1>3, <1>4, <1>5, <1>6 DEF RequestOK

Typed(q) ==
    /\ req[q].at = "idle" <=> req[q].op = "none"
    /\ req[q].at \notin {"idle", "lines", "close"} => req[q].id \in Loans
    /\ req[q].at = "link" => req[q].child \in Loans

\* A step of q that commits nothing keeps LoansInv if it keeps q's part of it and
\* locks no row of another.
LEMMA QuietStep ==
    ASSUME LoansInv, NEW q \in Requests, OnlyMoves(q), UNCHANGED <<loan, detail, reminders>>,
           leftover' = leftover, undone' \in [Loans -> Nat], requests' \in 0..MaxRequests,
           mailed' \in [Loans -> [approved : Nat, denied : Nat]],
           RequestOK(q)', Typed(q)',
           \A p \in Requests \ {q} : Locked(p) \cap Locked(q)' = {}
    PROVE  LoansInv'
  <1>1. TypeOK'
    BY DEF LoansInv, TypeOK, OnlyMoves, Typed
  <1>2. \A p \in Requests \ {q} : RequestOK(p)' /\ Locked(p)' = Locked(p)
    <2> SUFFICES ASSUME NEW p \in Requests \ {q}
                 PROVE  RequestOK(p)' /\ Locked(p)' = Locked(p)
      OBVIOUS
    <2>1. Kept(p)
      BY DEF Kept
    <2>2. req'[p] = req[p] /\ TypeOK /\ RequestOK(p)
      BY DEF OnlyMoves, LoansInv
    <2> QED
      BY <2>1, <2>2, RequestKept
  <1>3. LocksOK'
    <2> SUFFICES ASSUME NEW p \in Requests, NEW k \in Requests, p # k
                 PROVE  Locked(p)' \cap Locked(k)' = {}
      BY DEF LocksOK
    <2>1. Locked(p) \cap Locked(k) = {}
      BY DEF LoansInv, LocksOK
    <2>2. CASE p = q
      BY <1>2, <2>2
    <2>3. CASE k = q
      BY <1>2, <2>3
    <2>4. CASE p # q /\ k # q
      BY <1>2, <2>1, <2>4
    <2> QED
      BY <2>2, <2>3, <2>4
  <1>4. LinksOK' /\ BooksAgree'
    BY DEF LoansInv, LinksOK, BooksAgree, DecidedHasDetail, LinksAgree
  <1> QED
    BY <1>1, <1>2, <1>3, <1>4 DEF LoansInv

\* What LoansInv says of the request at hand.
LEMMA OfRequest ==
    ASSUME LoansInv, NEW q \in Requests
    PROVE  /\ TypeOK /\ RequestOK(q) /\ Typed(q) /\ req[q] \in RequestState
           /\ Locked(q) \subseteq Loans
           /\ \A p \in Requests \ {q} : Locked(p) \cap Locked(q) = {}
           /\ undone \in [Loans -> Nat] /\ requests \in 0..MaxRequests
           /\ mailed \in [Loans -> [approved : Nat, denied : Nat]]
  BY DEF LoansInv, TypeOK, Typed, Locked, LocksOK

\* The statements of a decision that follow its UPDATE do not change what was asked.
LEMMA SameDecision ==
    ASSUME LoansInv, NEW q \in Requests,
           PayParent(q) \/ UpsertDetail(q) \/ MailDecision(q) \/ Unlink(q)
    PROVE  req'[q].op = req[q].op /\ req'[q].to = req[q].to
  <1>1. req[q] \in RequestState /\ req \in [Requests -> RequestState]
    BY DEF LoansInv, TypeOK
  <1>2. CASE PayParent(q)
    BY <1>1, <1>2 DEF PayParent, RequestState
  <1>3. CASE UpsertDetail(q)
    BY <1>1, <1>3 DEF UpsertDetail, RequestState
  <1>4. CASE MailDecision(q)
    BY <1>1, <1>4 DEF MailDecision, RequestState
  <1>5. CASE Unlink(q)
    BY <1>1, <1>5 DEF Unlink, RequestState
  <1> QED
    BY <1>2, <1>3, <1>4, <1>5

LEMMA PatchAt ==
    ASSUME LoansInv, NEW q \in Requests,
           req[q].at \in {"parent", "detail", "mail", "unlink", "commit"}
    PROVE  /\ req[q].op = "patch" /\ req[q].id \in Loans /\ PatchOK(q)
           /\ DecisionOK(q, req[q].id, loan[req[q].id].prev)
           /\ Legal(req[q].from, req[q].to)
           /\ loan[req[q].id].prev # None =>
                /\ loan[req[q].id].prev \in Loans \ {req[q].id}
                /\ loan[loan[req[q].id].prev].state # "none"
                /\ loan[req[q].id].prev \in detail
  <1>1. req[q].op = "patch" /\ req[q].id \in Loans
    <2>1. req[q].op \in {"none", "patch", "file", "refinance"}
      BY OfRequest DEF RequestState
    <2> QED
      BY <2>1, OfRequest DEF Typed, RequestOK, FileOK, RefinanceOK
  <1>2. PatchOK(q)
    BY <1>1, OfRequest DEF RequestOK
  <1>3. loan[req[q].id].prev # None => loan[req[q].id].prev \in Loans
    BY <1>1, OfRequest DEF TypeOK, LoanRow
  <1> QED
    BY <1>1, <1>2, <1>3 DEF PatchOK, LoansInv, LinksOK

LEMMA CasWinsKeeps == ASSUME LoansInv, NEW q \in Requests, CasWins(q)  PROVE LoansInv'
  <1> DEFINE l == req[q].id
             p == loan[l].prev
  <1>1. req[q].at = "cas" /\ l \in Loans /\ req[q].op \in {"patch", "file"}
    <2>1. req[q].at = "cas" /\ req[q].op \in {"none", "patch", "file", "refinance"}
      BY OfRequest DEF CasWins, RequestState
    <2> QED
      BY <2>1, OfRequest DEF Typed, RequestOK, RefinanceOK
  <1>2. Legal(req[q].from, req[q].to)
    BY <1>1, OfRequest DEF RequestOK, PatchOK, FileOK, Legal
  <1>3. /\ Locks(q, l, After(q)) /\ RowFree(q, l) /\ loan[l].state = req[q].from
        /\ req'[q].rows[l].state = req[q].to /\ req'[q].rows[l].refi = loan[l].refi
    BY <1>1, <1>2, OfRequest, CasWinsDoes DEF Legal
  <1>4. RowsOK(q)'
    <2>1. /\ Locked(q)' = Locked(q) \cup {l} /\ loan' = loan
          /\ \A k \in Loans \ {l} : req'[q].rows[k] = req[q].rows[k]
          /\ req'[q].rows[l].prev = loan[l].prev
      BY <1>3 DEF Locks
    <2>2. RowsOK(q) /\ Locked(q) \subseteq Loans
      BY OfRequest DEF RequestOK
    <2>3. ASSUME NEW k \in Locked(q), k # l
          PROVE  /\ loan'[k].state # "none" /\ req'[q].rows[k].state # "none"
                 /\ req'[q].rows[k].prev = loan'[k].prev
                 /\ req'[q].rows[k].refi \in {loan'[k].refi, None}
      BY <2>1, <2>2, <2>3 DEF RowsOK
    <2>4. /\ loan'[l].state # "none" /\ req'[q].rows[l].state # "none"
          /\ req'[q].rows[l].prev = loan'[l].prev
          /\ req'[q].rows[l].refi \in {loan'[l].refi, None}
      BY <1>2, <1>3, <2>1 DEF Legal
    <2> QED
      BY <2>1, <2>3, <2>4 DEF RowsOK
  <1>5. CASE req[q].op = "patch"
    <2>1. PatchOK(q) /\ WroteNothing(q)
      BY <1>1, <1>5, OfRequest DEF RequestOK, PatchOK
    <2>2. p # l
      BY <1>1, ConstantsAssumption DEF LoansInv, LinksOK
    <2>3. Locked(q)' = {l}
      BY <1>3, <2>1 DEF Locks, WroteNothing
    <2>4. /\ req'[q].at = After(q) /\ SameAsk(req[q], req'[q]) /\ loan' = loan
          /\ req'[q].details = {}
      BY <1>3, <2>1 DEF Locks, WroteNothing
    <2>5. DecisionOK(q, l, p)'
      <3>1. req'[q].id = l /\ loan'[l].prev = p /\ req'[q].to = req[q].to /\ req'[q].from = req[q].from
        BY <2>4 DEF SameAsk
      <3>2. req[q].to = "approved" => ApprovalOK(q, l, p)'
        BY <2>4, <3>1 DEF ApprovalOK, After
      <3>3. req[q].to = "denied" => DenialOK(q, l, p)'
        BY <2>2, <2>3, <2>4, <3>1 DEF DenialOK, After
      <3>4. req[q].to = "paid" => PayoutOK(q, l)'
        BY <2>3, <2>4, <3>1 DEF PayoutOK, After
      <3> QED
        BY <1>3, <2>3, <2>4, <3>1, <3>2, <3>3, <3>4 DEF DecisionOK
    <2>6. After(q) \in {"parent", "detail", "mail", "purge"}
      BY DEF After
    <2>7. PatchOK(q)'
      BY <1>2, <2>4, <2>5, <2>6 DEF PatchOK, SameAsk
    <2>8. RequestOK(q)' /\ Typed(q)'
      BY <1>1, <1>4, <1>5, <2>4, <2>6, <2>7 DEF RequestOK, Typed, SameAsk
    <2> QED
      BY <1>3, <2>3, <2>8, OfRequest, QuietStep DEF Locks, RowFree, history
  <1>6. CASE req[q].op = "file"
    <2>1. /\ FileOK(q) /\ req[q].to = "paid" /\ req[q].from = "approved"
      BY <1>1, <1>6, OfRequest DEF RequestOK, FileOK
    <2>2. After(q) = "purge"
      BY <2>1 DEF After
    <2>3. FileOK(q)'
      BY <1>3, <2>1, <2>2, OfRequest DEF FileOK, Locks, SameAsk
    <2>4. RequestOK(q)' /\ Typed(q)'
      BY <1>1, <1>3, <1>4, <1>6, <2>2, <2>3 DEF RequestOK, Typed, SameAsk, Locks
    <2> QED
      BY <1>3, <2>4, OfRequest, QuietStep DEF Locks, RowFree, history
  <1> QED
    BY <1>1, <1>5, <1>6

LEMMA PayParentKeeps == ASSUME LoansInv, NEW q \in Requests, PayParent(q)  PROVE LoansInv'
  <1> DEFINE l == req[q].id
             p == loan[l].prev
  <1>1. req[q].at = "parent"
    BY DEF PayParent
  <1>2. /\ req[q].op = "patch" /\ l \in Loans /\ DecisionOK(q, l, p)
        /\ Legal(req[q].from, req[q].to)
    BY <1>1, PatchAt
  <1>3. req[q].to = "approved" /\ ApprovalOK(q, l, p) /\ p # None
    BY <1>1, <1>2 DEF DecisionOK, ApprovalOK, DenialOK, PayoutOK, Legal
  <1>4. p \in Loans \ {l} /\ loan[p].state # "none"
    BY <1>1, <1>3, PatchAt
  <1>5. /\ Locks(q, p, "detail") /\ RowFree(q, p) /\ req'[q].rows[p].state = "paid"
        /\ req'[q].rows[p].refi = loan[p].refi
    BY <1>4, OfRequest, PayParentDoes
  <1> HIDE DEF p, l
  <1>6. RowsOK(q)'
    BY <1>4, <1>5, OfRequest DEF RequestOK, RowsOK, Locks
  <1>7. /\ req'[q].at = "detail" /\ SameAsk(req[q], req'[q]) /\ loan' = loan
        /\ req'[q].details = req[q].details /\ Locked(q)' = Locked(q) \cup {p}
        /\ req'[q].rows[l] = req[q].rows[l]
    BY <1>2, <1>4, <1>5 DEF Locks
  <1>8. DecisionOK(q, l, p)'
    BY <1>1, <1>2, <1>3, <1>5, <1>7 DEF DecisionOK, ApprovalOK, SameAsk, l, p
  <1>9. PatchOK(q)'
    BY <1>2, <1>7, <1>8 DEF PatchOK, SameAsk, l, p
  <1>10. RequestOK(q)' /\ Typed(q)'
    BY <1>2, <1>6, <1>7, <1>9 DEF RequestOK, Typed, SameAsk, l
  <1> QED
    BY <1>5, <1>10, OfRequest, QuietStep DEF Locks, RowFree, history

LEMMA UnlinkKeeps == ASSUME LoansInv, NEW q \in Requests, Unlink(q)  PROVE LoansInv'
  <1> DEFINE l == req[q].id
             p == loan[l].prev
  <1>1. req[q].at = "unlink"
    BY DEF Unlink
  <1>2. /\ req[q].op = "patch" /\ l \in Loans /\ DecisionOK(q, l, p)
        /\ Legal(req[q].from, req[q].to)
    BY <1>1, PatchAt
  <1>3. req[q].to = "denied" /\ DenialOK(q, l, p) /\ p # None
    BY <1>1, <1>2 DEF DecisionOK, ApprovalOK, DenialOK, PayoutOK, Legal
  <1>4. p \in Loans \ {l} /\ loan[p].state # "none"
    BY <1>1, <1>3, PatchAt
  <1>5. /\ Locks(q, p, "commit") /\ RowFree(q, p) /\ req'[q].rows[p].state = loan[p].state
        /\ req'[q].rows[p].refi = None
    BY <1>4, OfRequest, UnlinkDoes
  <1> HIDE DEF p, l
  <1>6. RowsOK(q)'
    BY <1>4, <1>5, OfRequest DEF RequestOK, RowsOK, Locks
  <1>7. /\ req'[q].at = "commit" /\ SameAsk(req[q], req'[q]) /\ loan' = loan
        /\ req'[q].details = req[q].details /\ Locked(q)' = Locked(q) \cup {p}
        /\ req'[q].rows[l] = req[q].rows[l]
    BY <1>2, <1>4, <1>5 DEF Locks
  <1>8. DecisionOK(q, l, p)'
    BY <1>1, <1>2, <1>3, <1>5, <1>7 DEF DecisionOK, DenialOK, SameAsk, l, p
  <1>9. PatchOK(q)'
    BY <1>2, <1>7, <1>8 DEF PatchOK, SameAsk, l, p
  <1>10. RequestOK(q)' /\ Typed(q)'
    BY <1>2, <1>6, <1>7, <1>9 DEF RequestOK, Typed, SameAsk, l
  <1> QED
    BY <1>5, <1>10, OfRequest, QuietStep DEF Locks, RowFree, history

LEMMA UpsertDetailKeeps ==
    ASSUME LoansInv, NEW q \in Requests, UpsertDetail(q)
    PROVE  LoansInv'
  <1> DEFINE l == req[q].id
             p == loan[l].prev
  <1>1. req[q].at = "detail"
    BY DEF UpsertDetail
  <1>2. /\ req[q].op = "patch" /\ l \in Loans /\ DecisionOK(q, l, p)
        /\ Legal(req[q].from, req[q].to)
    BY <1>1, PatchAt
  <1>3. req[q].to = "approved" /\ ApprovalOK(q, l, p)
    BY <1>1, <1>2 DEF DecisionOK, ApprovalOK, DenialOK, PayoutOK, Legal
  <1>4. /\ OnlyMoves(q) /\ req'[q].at = "mail" /\ req'[q].details = req[q].details \cup {l}
        /\ req'[q].rows = req[q].rows /\ SameAsk(req[q], req'[q])
        /\ UNCHANGED <<loan, detail, reminders, history, requests>>
    BY <1>2, OfRequest, UpsertDetailDoes
  <1>5. Locked(q)' = Locked(q)
    BY <1>4 DEF Locked
  <1>6. RowsOK(q)'
    BY <1>4, <1>5, OfRequest DEF RequestOK, RowsOK
  <1>7. DecisionOK(q, l, p)'
    BY <1>1, <1>2, <1>3, <1>4, <1>5 DEF DecisionOK, ApprovalOK, SameAsk
  <1>8. PatchOK(q)'
    BY <1>2, <1>4, <1>7 DEF PatchOK, SameAsk
  <1>9. RequestOK(q)' /\ Typed(q)'
    BY <1>2, <1>4, <1>6, <1>8 DEF RequestOK, Typed, SameAsk
  <1> QED
    BY <1>4, <1>5, <1>9, OfRequest, QuietStep DEF history

LEMMA MailDecisionKeeps ==
    ASSUME LoansInv, NEW q \in Requests, MailDecision(q)
    PROVE  LoansInv'
  <1> DEFINE l == req[q].id
             p == loan[l].prev
  <1>1. req[q].at = "mail"
    BY DEF MailDecision
  <1>2. /\ req[q].op = "patch" /\ l \in Loans /\ DecisionOK(q, l, p)
        /\ Legal(req[q].from, req[q].to)
    BY <1>1, PatchAt
  <1>3. req[q].to \in {"approved", "denied"}
    BY <1>1, <1>2 DEF DecisionOK, ApprovalOK, DenialOK, PayoutOK, Legal
  <1>4. /\ OnlyMoves(q) /\ SameWrites(req[q], req'[q]) /\ SameAsk(req[q], req'[q])
        /\ req'[q].at = IF req[q].to = "denied" /\ p # None THEN "unlink" ELSE "commit"
        /\ UNCHANGED <<loan, detail, reminders, undone, leftover, requests>>
        /\ mailed' \in [Loans -> [approved : Nat, denied : Nat]]
    BY <1>2, <1>3, OfRequest, MailDecisionDoes
  <1>5. Locked(q)' = Locked(q)
    BY <1>4 DEF Locked, SameWrites
  <1>6. RowsOK(q)'
    BY <1>4, <1>5, OfRequest DEF RequestOK, RowsOK, SameWrites
  <1>7. DecisionOK(q, l, p)'
    BY <1>1, <1>2, <1>3, <1>4, <1>5 DEF DecisionOK, ApprovalOK, DenialOK, SameAsk, SameWrites
  <1>8. PatchOK(q)'
    BY <1>2, <1>4, <1>7 DEF PatchOK, SameAsk
  <1>9. RequestOK(q)' /\ Typed(q)'
    BY <1>2, <1>4, <1>6, <1>8 DEF RequestOK, Typed, SameAsk
  <1> QED
    BY <1>4, <1>5, <1>9, OfRequest, QuietStep

LEMMA PurgeKeeps ==
    ASSUME LoansInv, NEW q \in Requests, Purge(q)
    PROVE  LoansInv'
  <1> DEFINE l == req[q].id
             p == loan[l].prev
  <1>1. req[q].at = "purge" /\ l \in Loans /\ req[q].op \in {"patch", "file"}
    <2>1. req[q].at = "purge" /\ req[q].op \in {"none", "patch", "file", "refinance"}
      BY OfRequest DEF Purge, RequestState
    <2> QED
      BY <2>1, OfRequest DEF Typed, RequestOK, RefinanceOK
  <1>2. /\ OnlyMoves(q) /\ req'[q].at = IF req[q].op = "file" THEN "close" ELSE "commit"
        /\ SameAsk(req[q], req'[q]) /\ SameWrites(req[q], req'[q])
        /\ UNCHANGED <<loan, detail, reminders, history, requests>>
    BY <1>1, OfRequest, PurgeDoes
  <1>3. Locked(q)' = Locked(q)
    BY <1>2 DEF Locked, SameWrites
  <1>4. RowsOK(q)'
    BY <1>2, <1>3, OfRequest DEF RequestOK, RowsOK, SameWrites
  <1>5. CASE req[q].op = "patch"
    <2>1. PatchOK(q) /\ DecisionOK(q, l, p)
      BY <1>1, <1>5, OfRequest DEF RequestOK, PatchOK
    <2>2. req[q].to = "paid" /\ PayoutOK(q, l)
      BY <1>1, <2>1 DEF PatchOK, DecisionOK, ApprovalOK, DenialOK, Legal
    <2>3. DecisionOK(q, l, p)'
      BY <1>2, <1>3, <1>5, <2>1, <2>2 DEF DecisionOK, PayoutOK, SameAsk, SameWrites
    <2>4. PatchOK(q)'
      BY <1>2, <1>5, <2>1, <2>3 DEF PatchOK, SameAsk
    <2> QED
      BY <1>1, <1>2, <1>4, <1>5, <2>4 , <1>3, OfRequest, QuietStep DEF RequestOK, Typed, SameAsk, history
  <1>6. CASE req[q].op = "file"
    <2>1. FileOK(q)'
      BY <1>2, <1>3, <1>6, OfRequest DEF RequestOK, FileOK, SameAsk, SameWrites
    <2> QED
      BY <1>1, <1>2, <1>3, <1>4, <1>6, <2>1, OfRequest, QuietStep DEF RequestOK, Typed, SameAsk, history
  <1> QED
    BY <1>1, <1>5, <1>6

\* The steps of a monthly file between its row updates.
LEMMA FileStepKeeps ==
    ASSUME LoansInv, NEW q \in Requests, req[q].op = "file", req'[q].op = "file", OnlyMoves(q),
           UNCHANGED <<loan, detail, reminders, history, requests>>,
           req'[q].rows = req[q].rows, req'[q].details \subseteq req[q].details \cup detail,
           \/ req'[q].at \in {"lines", "close"}
           \/ req'[q].at = "cas" /\ req'[q].to = "paid" /\ req'[q].from = "approved"
              /\ req'[q].id \in Loans
    PROVE  LoansInv'
  <1>1. Locked(q)' = Locked(q)
    BY DEF Locked
  <1>2. RowsOK(q)'
    BY <1>1, OfRequest DEF RequestOK, RowsOK
  <1>3. FileOK(q)'
    BY <1>1, OfRequest DEF RequestOK, FileOK
  <1> QED
    BY <1>1, <1>2, <1>3, OfRequest, QuietStep DEF RequestOK, Typed, history

LEMMA FileAt ==
    ASSUME LoansInv, NEW q \in Requests, req[q].at \in {"lines", "close"}
    PROVE  req[q].op = "file"
  <1>1. req[q].op \in {"none", "patch", "file", "refinance"}
    BY OfRequest DEF RequestState
  <1> QED
    BY <1>1, OfRequest DEF Typed, RequestOK, PatchOK, RefinanceOK

LEMMA LineKeeps ==
    ASSUME LoansInv, NEW q \in Requests, NEW l \in Loans, Line(q, l)
    PROVE  LoansInv'
  <1>1. req[q].op = "file"
    BY FileAt DEF Line
  <1>2. /\ OnlyMoves(q) /\ req'[q].at = "lines" /\ req'[q].rows = req[q].rows
        /\ req'[q].details = req[q].details \cup ({l} \cap detail)
        /\ SameAsk(req[q], req'[q])
        /\ UNCHANGED <<loan, detail, reminders, history, requests>>
    BY OfRequest, LineDoes
  <1> QED
    BY <1>1, <1>2, FileStepKeeps DEF SameAsk

LEMMA ListApprovedKeeps ==
    ASSUME LoansInv, NEW q \in Requests, ListApproved(q)
    PROVE  LoansInv'
  <1>1. req[q].op = "file"
    BY FileAt DEF ListApproved
  <1>2. /\ OnlyMoves(q) /\ req'[q].at = "close"
        /\ SameAsk(req[q], req'[q]) /\ SameWrites(req[q], req'[q])
        /\ UNCHANGED <<loan, detail, reminders, history, requests>>
    BY OfRequest, ListApprovedDoes
  <1> QED
    BY <1>1, <1>2, FileStepKeeps DEF SameAsk, SameWrites

LEMMA CloseReadKeeps ==
    ASSUME LoansInv, NEW q \in Requests, NEW l \in Loans, CloseRead(q, l)
    PROVE  LoansInv'
  <1>1. req[q].op = "file"
    BY FileAt DEF CloseRead
  <1>2. /\ OnlyMoves(q) /\ req'[q].op = req[q].op /\ SameWrites(req[q], req'[q])
        /\ \/ /\ req'[q].at = "cas" /\ req'[q].id = l /\ req'[q].to = "paid"
              /\ req'[q].from = "approved"
           \/ req'[q].at = "close"
        /\ UNCHANGED <<loan, detail, reminders, history, requests>>
    BY OfRequest, CloseReadDoes, Zenon
  <1> QED
    BY <1>1, <1>2, FileStepKeeps DEF SameWrites

\* A request that ends without writing.
LEMMA EndKeeps ==
    ASSUME LoansInv, NEW q \in Requests, req' = [req EXCEPT ![q] = Idle],
           UNCHANGED <<loan, detail, reminders, leftover, mailed, requests>>,
           undone' \in [Loans -> Nat]
    PROVE  LoansInv'
  <1>1. OnlyMoves(q) /\ req'[q] = Idle /\ Locked(q)' = {}
    BY OfRequest, EndDoes
  <1>2. RequestOK(q)' /\ Typed(q)'
    BY <1>1, IdleType DEF RequestOK, RowsOK, WroteNothing, Typed
  <1> QED
    BY <1>1, <1>2, OfRequest, QuietStep

LEMMA CasLosesKeeps ==
    ASSUME LoansInv, NEW q \in Requests, CasLoses(q)
    PROVE  LoansInv'
  <1>1. CASE req[q].op = "file"
    <2>1. /\ OnlyMoves(q) /\ req'[q].at = "close"
          /\ SameAsk(req[q], req'[q]) /\ SameWrites(req[q], req'[q])
          /\ UNCHANGED <<loan, detail, reminders, history, requests>>
      BY <1>1, OfRequest, CasLosesDoes
    <2> QED
      BY <1>1, <2>1, FileStepKeeps DEF SameAsk, SameWrites
  <1>2. CASE req[q].op # "file"
    <2>1. req' = [req EXCEPT ![q] = Idle]
          /\ UNCHANGED <<loan, detail, reminders, history, requests>>
      BY <1>2 DEF CasLoses
    <2> QED
      BY <2>1, OfRequest, EndKeeps DEF history
  <1> QED
    BY <1>1, <1>2

LEMMA UndoneGrows ==
    ASSUME LoansInv, NEW q \in Requests, Rollback(q)
    PROVE  /\ undone' \in [Loans -> Nat]
           /\ \A l \in Loans : undone[l] <= undone'[l]
           /\ \A l \in Loans : l = req[q].id /\ req[q].to # "paid" /\ req[q].at \in {"unlink", "commit"}
                => undone'[l] = undone[l] + 1
  BY OfRequest DEF Rollback

LEMMA RollbackKeeps ==
    ASSUME LoansInv, NEW q \in Requests, Rollback(q)
    PROVE  LoansInv'
  BY UndoneGrows, EndKeeps DEF Rollback

LEMMA RefinanceFailsKeeps ==
    ASSUME LoansInv, NEW q \in Requests, RefinanceFails(q)
    PROVE  LoansInv'
  BY OfRequest, EndKeeps DEF RefinanceFails, history

LEMMA BeginKeeps ==
    ASSUME LoansInv, NEW q \in Requests, Begin(q)
    PROVE  LoansInv'
  <1>1. /\ OnlyMoves(q) /\ req'[q].rows = [l \in Loans |-> NoRow] /\ req'[q].details = {}
        /\ \/ /\ req'[q].op = "patch" /\ req'[q].at = "cas" /\ req'[q].id \in Loans
              /\ Legal(req'[q].from, req'[q].to)
           \/ /\ req'[q].op = "file" /\ req'[q].at = "lines"
              /\ req'[q].file = req'[q].left
           \/ /\ req'[q].op = "refinance" /\ req'[q].at = "create"
              /\ req'[q].id \in detail /\ loan[req'[q].id].state = "approved"
        /\ requests' \in 0..MaxRequests
        /\ UNCHANGED <<loan, detail, reminders, history>>
    BY OfRequest, BeginDoes
  <1>2. Locked(q)' = {}
    BY <1>1 DEF Locked
  <1>3. RowsOK(q)' /\ WroteNothing(q)'
    BY <1>1, <1>2 DEF RowsOK, WroteNothing
  <1>4. RequestOK(q)'
    BY <1>1, <1>2, <1>3 DEF RequestOK, PatchOK, FileOK, RefinanceOK
  <1>5. Typed(q)'
    BY <1>1, OfRequest DEF Typed, TypeOK
  <1> QED
    BY <1>1, <1>2, <1>4, <1>5, OfRequest, QuietStep DEF history

\* A step that writes what is committed.
LEMMA WrittenStep ==
    ASSUME LoansInv, req' \in [Requests -> RequestState], loan' \in [Loans -> LoanRow],
           detail' \subseteq Loans, reminders' \subseteq Loans, leftover' \subseteq Loans,
           requests' \in 0..MaxRequests, UNCHANGED <<mailed, undone>>,
           \A p \in Requests : \/ req'[p] = req[p] /\ Kept(p)
                               \/ RequestOK(p)' /\ Typed(p)' /\ Locked(p)' = {},
           LinksOK', BooksAgree'
    PROVE  LoansInv'
  <1>1. \A p \in Requests : /\ RequestOK(p)' /\ Typed(p)'
                            /\ Locked(p)' = {} \/ Locked(p)' = Locked(p)
    <2> SUFFICES ASSUME NEW p \in Requests
                 PROVE  /\ RequestOK(p)' /\ Typed(p)'
                        /\ Locked(p)' = {} \/ Locked(p)' = Locked(p)
      OBVIOUS
    <2>1. CASE req'[p] = req[p] /\ Kept(p)
      BY <2>1, OfRequest, RequestKept DEF Typed
    <2> QED
      BY <2>1
  <1>2. TypeOK'
    BY <1>1, OfRequest DEF LoansInv, TypeOK, Typed
  <1>3. LocksOK'
    BY <1>1 DEF LoansInv, LocksOK
  <1> QED
    BY <1>1, <1>2, <1>3 DEF LoansInv

LEMMA CreateLoanKeeps ==
    ASSUME LoansInv, NEW l \in Loans, CreateLoan(l)
    PROVE  LoansInv'
  <1> DEFINE row == [loan[l] EXCEPT !.state = "waiting"]
  <1>1. /\ loan[l].state = "none" /\ requests' \in 0..MaxRequests
        /\ loan' = [loan EXCEPT ![l] = row]
        /\ UNCHANGED <<detail, reminders, req, mailed, undone, leftover>>
    <2>1. requests' \in 0..MaxRequests
      BY ConstantsAssumption DEF CreateLoan, LoansInv, TypeOK, ConstantsAssumption
    <2> QED
      BY <2>1 DEF CreateLoan, history
  <1>2. /\ row \in LoanRow /\ row.state = "waiting" /\ row.prev = loan[l].prev
        /\ row.refi = loan[l].refi
    <2>1. loan[l] \in LoanRow /\ "waiting" \in States \ {"none"}
      BY DEF LoansInv, TypeOK, States
    <2> QED
      BY <2>1, RowWithState
  <1> HIDE DEF row
  <1>3. /\ loan' \in [Loans -> LoanRow] /\ loan'[l] = row
        /\ \A k \in Loans \ {l} : loan'[k] = loan[k]
    BY <1>1, <1>2 DEF LoansInv, TypeOK
  <1>4. \A p \in Requests : req'[p] = req[p] /\ Kept(p)
    BY <1>1, <1>2, <1>3, OfRequest DEF Kept, RequestOK, RowsOK
  <1>5. LinksOK'
    BY <1>1, <1>2, <1>3 DEF LoansInv, TypeOK, LoanRow, LinksOK
  <1>6. BooksAgree'
    BY <1>1, <1>2, <1>3 DEF LoansInv, TypeOK, LoanRow, BooksAgree, DecidedHasDetail, LinksAgree
  <1> QED
    BY <1>1, <1>3, <1>4, <1>5, <1>6, WrittenStep DEF LoansInv, TypeOK

LEMMA RefinanceAt ==
    ASSUME LoansInv, NEW q \in Requests, req[q].at \in {"create", "link"}
    PROVE  /\ req[q].op = "refinance" /\ RefinanceOK(q) /\ req[q].id \in Loans
           /\ req[q].at = "link" => req[q].child \in Loans
  <1>1. req[q].op \in {"none", "patch", "file", "refinance"}
    BY OfRequest DEF RequestState
  <1> QED
    BY <1>1, OfRequest DEF Typed, RequestOK, PatchOK, FileOK

LEMMA RefinanceCreateKeeps ==
    ASSUME LoansInv, NEW q \in Requests, NEW c \in Loans, RefinanceCreate(q, c)
    PROVE  LoansInv'
  <1> DEFINE l == req[q].id
  <1>1. req[q].at = "create"
    BY DEF RefinanceCreate
  <1>2. req[q].op = "refinance" /\ RefinanceOK(q) /\ l \in Loans
    BY <1>1, RefinanceAt
  <1>3. /\ OnlyMoves(q) /\ req'[q].at = "link" /\ req'[q].op = req[q].op
        /\ req'[q].id = l /\ req'[q].child = c /\ SameWrites(req[q], req'[q])
        /\ loan[c].state = "none" /\ loan' \in [Loans -> LoanRow]
        /\ loan'[c].state = "waiting" /\ loan'[c].prev = l /\ loan'[c].refi = loan[c].refi
        /\ \A k \in Loans \ {c} : loan'[k] = loan[k]
        /\ UNCHANGED <<detail, reminders, history, requests>>
    BY <1>2, OfRequest, RefinanceCreateDoes
  <1>4. Locked(q)' = Locked(q)
    BY <1>3 DEF Locked, SameWrites
  <1>5. RefinanceOK(q)'
    BY <1>2, <1>3, <1>4 DEF RefinanceOK, WroteNothing, SameWrites
  <1>6. RequestOK(q)' /\ Typed(q)' /\ Locked(q)' = {}
    BY <1>2, <1>3, <1>4, <1>5 DEF RequestOK, RowsOK, Typed, RefinanceOK, WroteNothing
  <1>7. \A p \in Requests \ {q} : req'[p] = req[p] /\ Kept(p)
    BY <1>3, OfRequest DEF OnlyMoves, Kept, RequestOK, RowsOK
  <1>8. LinksOK'
    BY <1>2, <1>3 DEF LoansInv, TypeOK, LoanRow, LinksOK, RefinanceOK
  <1>9. BooksAgree'
    <2>1. DecidedHasDetail'
      BY <1>3 DEF LoansInv, BooksAgree, DecidedHasDetail
    <2>2. ASSUME NEW k \in Loans, loan'[k].refi # None
          PROVE  loan'[loan'[k].refi].prev = k
      <3>1. loan'[k].refi = loan[k].refi /\ loan[k].refi \in Loans
        BY <1>3, <2>2 DEF LoansInv, TypeOK, LoanRow
      <3>2. loan[loan[k].refi].prev = k /\ k # None
        BY <2>2, <3>1, ConstantsAssumption DEF LoansInv, BooksAgree, LinksAgree
      <3>3. loan[k].refi # c
        BY <1>3, <3>2 DEF LoansInv, LinksOK
      <3> QED
        BY <1>3, <3>1, <3>2, <3>3
    <2> QED
      BY <2>1, <2>2 DEF BooksAgree, LinksAgree
  <1> QED
    BY <1>3, <1>6, <1>7, <1>8, <1>9, WrittenStep DEF LoansInv, TypeOK, OnlyMoves, history

LEMMA RefinanceLinkKeeps ==
    ASSUME LoansInv, NEW q \in Requests, RefinanceLink(q)
    PROVE  LoansInv'
  <1> DEFINE l == req[q].id
             c == req[q].child
             row == [loan[l] EXCEPT !.refi = c]
  <1>1. /\ req[q].at = "link" /\ RowFree(q, l) /\ req' = [req EXCEPT ![q] = Idle]
        /\ loan' = [loan EXCEPT ![l] = row]
        /\ UNCHANGED <<detail, reminders, history, requests>>
    BY DEF RefinanceLink
  <1>2. req[q].op = "refinance" /\ RefinanceOK(q) /\ l \in Loans /\ c \in Loans
    BY <1>1, RefinanceAt
  <1>3. /\ row \in LoanRow /\ row.state = loan[l].state /\ row.prev = loan[l].prev
        /\ row.refi = c
    BY <1>2 DEF LoansInv, TypeOK, LoanRow
  <1> HIDE DEF row
  <1>4. /\ loan' \in [Loans -> LoanRow] /\ loan'[l] = row
        /\ \A k \in Loans \ {l} : loan'[k] = loan[k]
    BY <1>1, <1>2, <1>3 DEF LoansInv, TypeOK
  <1>5. OnlyMoves(q) /\ req'[q] = Idle /\ Locked(q)' = {}
    BY <1>1, OfRequest, EndDoes
  <1>6. RequestOK(q)' /\ Typed(q)'
    BY <1>5, IdleType DEF RequestOK, RowsOK, WroteNothing, Typed
  <1>7. \A p \in Requests \ {q} : req'[p] = req[p] /\ Kept(p)
    <2>1. \A k \in Loans : loan'[k].state = loan[k].state /\ loan'[k].prev = loan[k].prev
      BY <1>3, <1>4
    <2> QED
      BY <1>1, <1>4, <1>5, <2>1, OfRequest DEF OnlyMoves, Kept, RowFree
  <1>8. LinksOK'
    BY <1>1, <1>3, <1>4 DEF LoansInv, TypeOK, LoanRow, LinksOK
  <1>9. BooksAgree'
    BY <1>1, <1>2, <1>3, <1>4 DEF LoansInv, TypeOK, LoanRow, BooksAgree, DecidedHasDetail,
                                  LinksAgree, RefinanceOK
  <1> QED
    BY <1>1, <1>4, <1>5, <1>6, <1>7, <1>8, <1>9, WrittenStep
       DEF LoansInv, TypeOK, OnlyMoves, history

\* A commit rewrites no link but to clear it, and unmakes no loan.
LEMMA CommitWrites ==
    ASSUME LoansInv, NEW q \in Requests, Commit(q)
    PROVE  /\ loan' \in [Loans -> LoanRow]
           /\ \A l \in Loans : loan'[l] = IF l \in Locked(q) THEN req[q].rows[l] ELSE loan[l]
           /\ \A l \in Loans : /\ loan'[l].prev = loan[l].prev
                               /\ loan'[l].refi \in {loan[l].refi, None}
                               /\ loan'[l].state = "none" <=> loan[l].state = "none"
           /\ detail' = detail \cup req[q].details /\ detail' \subseteq Loans
           /\ UNCHANGED <<mailed, undone, requests>>
  <1>1. loan' = [l \in Loans |-> IF l \in Locked(q) THEN req[q].rows[l] ELSE loan[l]]
        /\ detail' = detail \cup req[q].details /\ UNCHANGED <<mailed, undone, requests>>
    BY DEF Commit, Sees
  <1>2. /\ req[q].rows \in [Loans -> LoanRow] /\ loan \in [Loans -> LoanRow]
        /\ req[q].details \subseteq Loans /\ detail \subseteq Loans
    BY OfRequest DEF RequestState, TypeOK
  <1>3. RowsOK(q)
    BY OfRequest DEF RequestOK
  <1> QED
    BY <1>1, <1>2, <1>3 DEF RowsOK

\* The four commits: an approval, a denial, a payout, and a file.
CommitsApproval(l, p) ==
    /\ loan[l].state = "waiting" /\ loan'[l].state = "approved"
    /\ detail' = detail \cup {l}
    /\ p # None => p \in Loans \ {l} /\ loan[p].state # "none" /\ p \in detail
                   /\ loan'[p].state = "paid"
    /\ \A k \in Loans \ {l, p} : loan'[k].state = loan[k].state

CommitsDenial(l) ==
    /\ loan[l].state \in {"waiting", "approved"} /\ loan'[l].state = "denied"
    /\ detail' = detail
    /\ \A k \in Loans \ {l} : loan'[k].state = loan[k].state

CommitsPayouts(S) ==
    /\ detail' = detail
    /\ \A k \in Loans : IF k \in S THEN loan[k].state = "approved" /\ loan'[k].state = "paid"
                       ELSE loan'[k].state = loan[k].state

LEMMA CommitKinds ==
    ASSUME LoansInv, NEW q \in Requests, Commit(q)
    PROVE  \/ /\ req[q].op = "patch" /\ req[q].at = "commit" /\ req[q].id \in Loans
              /\ req[q].id \in Locked(q)
              /\ \/ /\ req[q].to = "approved"
                    /\ CommitsApproval(req[q].id, loan[req[q].id].prev)
                 \/ req[q].to = "denied" /\ CommitsDenial(req[q].id)
                 \/ req[q].to = "paid" /\ Locked(q) = {req[q].id} /\ CommitsPayouts({req[q].id})
           \/ req[q].op = "file" /\ req[q].at = "close" /\ CommitsPayouts(Locked(q))
  <1> DEFINE l == req[q].id
             p == loan[l].prev
  <1>1. /\ \A k \in Loans : loan'[k] = IF k \in Locked(q) THEN req[q].rows[k] ELSE loan[k]
        /\ detail' = detail \cup req[q].details
    BY CommitWrites
  <1>2. CASE req[q].at = "commit"
    <2>1. /\ req[q].op = "patch" /\ l \in Loans /\ DecisionOK(q, l, p)
          /\ Legal(req[q].from, req[q].to)
          /\ p # None => p \in Loans \ {l} /\ loan[p].state # "none" /\ p \in detail
      BY <1>2, PatchAt
    <2>2. /\ l \in Locked(q) /\ Locked(q) \subseteq {l, p} /\ loan[l].state = req[q].from
          /\ loan'[l].state = req[q].to
      BY <1>1, <2>1 DEF DecisionOK
    <2> HIDE DEF l, p
    <2>3. CASE req[q].to = "approved"
      <3>1. ApprovalOK(q, l, p)
        BY <2>1, <2>3 DEF DecisionOK
      <3>2. req[q].details = {l} /\ req[q].from = "waiting"
            /\ (p # None => p \in Locked(q) /\ req[q].rows[p].state = "paid")
        BY <1>2, <2>1, <2>3, <3>1 DEF ApprovalOK, Legal
      <3>3. CommitsApproval(l, p)
        BY <1>1, <2>1, <2>2, <2>3, <3>2 DEF CommitsApproval
      <3> QED
        BY <1>2, <2>1, <2>2, <2>3, <3>3 DEF l, p
    <2>4. CASE req[q].to = "denied"
      <3>1. DenialOK(q, l, p)
        BY <2>1, <2>4 DEF DecisionOK
      <3>2. CommitsDenial(l)
        BY <1>1, <2>1, <2>2, <2>4, <3>1 DEF DenialOK, CommitsDenial, Legal
      <3> QED
        BY <1>2, <2>1, <2>2, <2>4, <3>2 DEF l, p
    <2>5. CASE req[q].to = "paid"
      <3>1. PayoutOK(q, l)
        BY <2>1, <2>5 DEF DecisionOK
      <3>2. CommitsPayouts({l})
        BY <1>1, <2>1, <2>2, <2>5, <3>1 DEF PayoutOK, CommitsPayouts, Legal
      <3> QED
        BY <1>2, <2>1, <2>2, <2>5, <3>1, <3>2 DEF PayoutOK, l, p
    <2> QED
      BY <2>1, <2>3, <2>4, <2>5 DEF Legal
  <1>3. CASE req[q].at = "close"
    <2>1. req[q].op = "file" /\ FileOK(q)
      BY <1>3, FileAt, OfRequest DEF RequestOK
    <2>2. CommitsPayouts(Locked(q))
      BY <1>1, <2>1 DEF FileOK, CommitsPayouts
    <2> QED
      BY <1>3, <2>1, <2>2
  <1> QED
    BY <1>2, <1>3 DEF Commit, Done

LEMMA CommitKeeps ==
    ASSUME LoansInv, NEW q \in Requests, Commit(q)
    PROVE  LoansInv'
  <1>1. /\ loan' \in [Loans -> LoanRow]
        /\ \A l \in Loans : loan'[l] = IF l \in Locked(q) THEN req[q].rows[l] ELSE loan[l]
        /\ \A l \in Loans : /\ loan'[l].prev = loan[l].prev
                            /\ loan'[l].refi \in {loan[l].refi, None}
                            /\ loan'[l].state = "none" <=> loan[l].state = "none"
        /\ detail' = detail \cup req[q].details /\ detail' \subseteq Loans
        /\ UNCHANGED <<mailed, undone, requests>>
    BY CommitWrites
  <1>2. OnlyMoves(q) /\ req'[q] = Idle /\ Locked(q)' = {}
    BY OfRequest, EndDoes DEF Commit
  <1>3. RequestOK(q)' /\ Typed(q)'
    BY <1>2, IdleType DEF RequestOK, RowsOK, WroteNothing, Typed
  <1>4. \A p \in Requests \ {q} : req'[p] = req[p] /\ Kept(p)
    <2> SUFFICES ASSUME NEW p \in Requests \ {q}
                 PROVE  req'[p] = req[p] /\ Kept(p)
      OBVIOUS
    <2>1. Locked(p) \cap Locked(q) = {} /\ Locked(p) \subseteq Loans
      BY OfRequest
    <2> QED
      BY <1>1, <1>2, <2>1 DEF OnlyMoves, Kept
  <1>5. LinksOK'
    BY <1>1 DEF LoansInv, TypeOK, LoanRow, LinksOK
  <1>6. LinksAgree'
    BY <1>1 DEF LoansInv, TypeOK, LoanRow, BooksAgree, LinksAgree
  <1>7. DecidedHasDetail'
    <2>1. DecidedHasDetail /\ detail \subseteq detail'
      BY <1>1 DEF LoansInv, BooksAgree
    <2>2. ASSUME NEW l, NEW p, CommitsApproval(l, p)
          PROVE  DecidedHasDetail'
      <3> SUFFICES ASSUME NEW k \in Loans, loan'[k].state \in {"approved", "paid"}
                   PROVE  k \in detail'
        BY DEF DecidedHasDetail
      <3>1. CASE k = l
        BY <2>2, <3>1 DEF CommitsApproval
      <3>2. CASE k = p /\ p # None
        BY <2>1, <2>2, <3>2 DEF CommitsApproval
      <3>3. CASE k # l /\ k # p
        BY <2>1, <2>2, <3>3 DEF CommitsApproval, DecidedHasDetail
      <3> QED
        BY <3>1, <3>2, <3>3, ConstantsAssumption
    <2>3. CASE CommitsDenial(req[q].id)
      BY <2>1, <2>3 DEF CommitsDenial, DecidedHasDetail
    <2>4. ASSUME NEW S, CommitsPayouts(S)
          PROVE  DecidedHasDetail'
      BY <2>1, <2>4 DEF CommitsPayouts, DecidedHasDetail
    <2> QED
      BY <2>2, <2>3, <2>4, CommitKinds
  <1>8. reminders' \subseteq Loans /\ leftover' \subseteq Loans
    <2>1. req[q].added \subseteq Loans /\ Locked(q) \subseteq Loans /\ TypeOK
      BY OfRequest DEF RequestState
    <2> QED
      BY <2>1 DEF Commit, Leftover, TypeOK
  <1> QED
    BY <1>1, <1>2, <1>3, <1>4, <1>5, <1>6, <1>7, <1>8, WrittenStep
       DEF LoansInv, TypeOK, OnlyMoves, BooksAgree

LEMMA ReminderRunsKeeps ==
    ASSUME LoansInv, NEW l \in Loans, ReminderRuns(l)
    PROVE  LoansInv'
  <1>1. UNCHANGED <<loan, detail, req, mailed, undone, leftover, requests>> /\ reminders' \subseteq Loans
    BY DEF ReminderRuns, LoansInv, TypeOK, history
  <1>2. \A p \in Requests : req'[p] = req[p] /\ Kept(p)
    BY <1>1, OfRequest DEF Kept
  <1>3. LinksOK' /\ BooksAgree'
    BY <1>1 DEF LoansInv, LinksOK, BooksAgree, DecidedHasDetail, LinksAgree
  <1> QED
    BY <1>1, <1>2, <1>3, WrittenStep DEF LoansInv, TypeOK

LEMMA LoansInit == Init => LoansInv
  <1> SUFFICES ASSUME Init
               PROVE  LoansInv
    OBVIOUS
  <1>1. PICK opening \in Openings :
            /\ loan = [l \in Loans |-> [NoRow EXCEPT !.state = opening[l]]]
            /\ detail = {l \in Loans : opening[l] \in {"approved", "paid"}}
            /\ reminders = {l \in Loans : opening[l] = "approved"}
    BY DEF Init
  <1>2. opening \in [Loans -> States]
    BY ConstantsAssumption DEF States
  <1>3. loan \in [Loans -> LoanRow]
        /\ \A l \in Loans : /\ loan[l].state = opening[l] /\ loan[l].prev = None
                            /\ loan[l].refi = None
    BY <1>1, <1>2 DEF NoRow, LoanRow
  <1>4. \A q \in Requests : req[q] = Idle /\ Locked(q) = {}
    BY IdleType DEF Init, Locked
  <1>5. TypeOK
    <2>1. requests \in 0..MaxRequests /\ undone \in [Loans -> Nat] /\ leftover \subseteq Loans
          /\ mailed \in [Loans -> [approved : Nat, denied : Nat]]
      BY ConstantsAssumption DEF Init
    <2>2. req \in [Requests -> RequestState]
      BY IdleType DEF Init
    <2> QED
      BY <1>1, <1>3, <1>4, <2>1, <2>2, IdleType DEF TypeOK
  <1>6. LocksOK /\ LinksOK /\ BooksAgree
    BY <1>1, <1>3, <1>4 DEF LocksOK, LinksOK, BooksAgree, DecidedHasDetail, LinksAgree
  <1>7. \A q \in Requests : RequestOK(q)
    BY <1>4, IdleType DEF RequestOK, RowsOK, WroteNothing
  <1> QED
    BY <1>5, <1>6, <1>7 DEF LoansInv

LEMMA StutterKeeps == LoansInv /\ UNCHANGED vars => LoansInv'
  <1> SUFFICES ASSUME LoansInv, UNCHANGED vars
               PROVE  LoansInv'
    OBVIOUS
  <1>1. \A p \in Requests : req'[p] = req[p] /\ Kept(p)
    BY OfRequest DEF vars, Kept
  <1>2. LinksOK' /\ BooksAgree'
    BY DEF vars, LoansInv, LinksOK, BooksAgree, DecidedHasDetail, LinksAgree
  <1> QED
    BY <1>1, <1>2, WrittenStep DEF vars, LoansInv, TypeOK

LEMMA LoansNext == LoansInv /\ [Next]_vars => LoansInv'
  <1> SUFFICES ASSUME LoansInv, [Next]_vars
               PROVE  LoansInv'
    OBVIOUS
  <1>1. ASSUME NEW l \in Loans, CreateLoan(l) \/ ReminderRuns(l)
        PROVE  LoansInv'
    BY <1>1, CreateLoanKeeps, ReminderRunsKeeps
  <1>2. ASSUME NEW q \in Requests, Begin(q) \/ Rollback(q) \/ RefinanceFails(q)
        PROVE  LoansInv'
    BY <1>2, BeginKeeps, RollbackKeeps, RefinanceFailsKeeps
  <1>3. ASSUME NEW q \in Requests, Statement(q)
        PROVE  LoansInv'
    BY <1>3, CasWinsKeeps, CasLosesKeeps, PayParentKeeps, UpsertDetailKeeps, MailDecisionKeeps,
       UnlinkKeeps, PurgeKeeps, LineKeeps, CloseReadKeeps, ListApprovedKeeps, CommitKeeps,
       RefinanceCreateKeeps, RefinanceLinkKeeps DEF Statement
  <1> QED
    BY <1>1, <1>2, <1>3, StutterKeeps DEF Next

\* The books agree in every state, whatever requests ran into each other.
THEOREM LoansAlways == Spec => []LoansInv
  BY LoansInit, LoansNext, PTL DEF Spec

\* Type correctness, whatever requests run into each other.
THEOREM LoansTypes == Spec => []TypeOK
  <1>1. LoansInv => TypeOK
    BY DEF LoansInv
  <1> QED
    BY <1>1, LoansAlways, PTL

\* An approved or paid loan always has its detail, and a link to a refinance is
\* the refinance's own: no interleaving of decisions, refinances and files, no
\* rollback and no refinance that dies halfway breaks the books.
THEOREM LoansBooks == Spec => []BooksAgree
  <1>1. LoansInv => BooksAgree
    BY DEF LoansInv
  <1> QED
    BY <1>1, LoansAlways, PTL

-----------------------------------------------------------------------------
(***************************************************************************)
(* A file spares the loans it lists.                                       *)
(***************************************************************************)
LEMMA ListedMoves ==
    ASSUME ListedOK, NEW q \in Requests, OnlyMoves(q), ListedFor(q)'
    PROVE  ListedOK'
  <1> SUFFICES ASSUME NEW p \in Requests \ {q}
               PROVE  ListedFor(p)'
    BY DEF ListedOK
  <1>1. req'[p] = req[p] /\ ListedFor(p)
    BY DEF OnlyMoves, ListedOK
  <1>2. Locked(p)' = Locked(p)
    BY <1>1 DEF Locked
  <1> QED
    BY <1>1, <1>2 DEF ListedFor

LEMMA ListedEnds ==
    ASSUME LoansInv, ListedOK, NEW q \in Requests, req' = [req EXCEPT ![q] = Idle]
    PROVE  ListedOK'
  <1>1. OnlyMoves(q) /\ req'[q] = Idle
    BY OfRequest, EndDoes
  <1> QED
    BY <1>1, IdleType, ListedMoves DEF ListedFor

\* A statement of a request that is not a file.
LEMMA ListedOther ==
    ASSUME ListedOK, NEW q \in Requests, OnlyMoves(q), req'[q].op # "file"
    PROVE  ListedOK'
  BY ListedMoves DEF ListedFor

LEMMA ListedStatement ==
    ASSUME LoansInv, ListedOK, NEW q \in Requests, Statement(q)
    PROVE  ListedOK'
  <1>1. ListedFor(q) /\ RequestOK(q) /\ TypeOK /\ Typed(q) /\ req[q] \in RequestState
    BY OfRequest DEF ListedOK
  <1>2. CASE CasWins(q)
    <2>1. req[q].at = "cas" /\ req[q].op \in {"patch", "file"} /\ req[q].id \in Loans
          /\ Legal(req[q].from, req[q].to)
      BY <1>1, <1>2 DEF CasWins, RequestState, Typed, RequestOK, PatchOK, FileOK, RefinanceOK, Legal
    <2>2. Locks(q, req[q].id, After(q))
      BY <1>1, <1>2, <2>1, CasWinsDoes DEF Legal
    <2>3. CASE req[q].op = "patch"
      BY <2>2, <2>3, ListedOther DEF Locks, SameAsk
    <2>4. CASE req[q].op = "file"
      <3>1. After(q) = "purge"
        BY <1>1, <2>1, <2>4 DEF RequestOK, FileOK, After
      <3>2. ListedFor(q)'
        BY <1>1, <2>1, <2>2, <2>4, <3>1 DEF ListedFor, Locks, SameAsk, SameFile
      <3> QED
        BY <2>2, <3>2, ListedMoves DEF Locks
    <2> QED
      BY <2>1, <2>3, <2>4
  <1>3. CASE CasLoses(q)
    <2>1. CASE req[q].op = "file"
      <3>1. /\ OnlyMoves(q) /\ req[q].at = "cas" /\ req'[q].at = "close"
            /\ SameAsk(req[q], req'[q]) /\ SameFile(req[q], req'[q])
            /\ SameWrites(req[q], req'[q])
        BY <1>1, <1>3, <2>1, CasLosesDoes
      <3>2. ListedFor(q)'
        BY <1>1, <2>1, <3>1 DEF ListedFor, Locked, SameAsk, SameFile, SameWrites
      <3> QED
        BY <3>1, <3>2, ListedMoves
    <2>2. CASE req[q].op # "file"
      BY <1>3, <2>2, ListedEnds DEF CasLoses
    <2> QED
      BY <2>1, <2>2
  <1>4. CASE PayParent(q) \/ UpsertDetail(q) \/ MailDecision(q) \/ Unlink(q)
    <2>1. req[q].at \in {"parent", "detail", "mail", "unlink"}
      BY <1>4 DEF PayParent, UpsertDetail, MailDecision, Unlink
    <2>2. req[q].op = "patch"
      BY <2>1, PatchAt
    <2>3. OnlyMoves(q) /\ req'[q].op = "patch"
      <3>1. /\ req' \in [Requests -> RequestState] /\ \A p \in Requests \ {q} : req'[p] = req[p]
        <4>1. req' \in [Requests -> RequestState]
          BY <1>4, PayParentKeeps, UpsertDetailKeeps, MailDecisionKeeps, UnlinkKeeps
             DEF LoansInv, TypeOK
        <4>2. req \in [Requests -> RequestState]
          BY DEF LoansInv, TypeOK
        <4> QED
          BY <1>4, <4>1, <4>2 DEF PayParent, UpsertDetail, MailDecision, Unlink
      <3>2. req'[q].op = "patch"
        BY <1>4, <2>2, SameDecision
      <3> QED
        BY <3>1, <3>2 DEF OnlyMoves
    <2> QED
      BY <2>3, ListedOther
  <1>5. CASE Purge(q)
    <2>1. req[q].at = "purge" /\ req[q].id \in Loans
      BY <1>1, <1>5 DEF Purge, Typed
    <2>2. /\ OnlyMoves(q) /\ SameAsk(req[q], req'[q]) /\ SameFile(req[q], req'[q])
          /\ SameWrites(req[q], req'[q])
          /\ req'[q].at = IF req[q].op = "file" THEN "close" ELSE "commit"
      BY <1>1, <1>5, <2>1, PurgeDoes
    <2>3. ListedFor(q)'
      BY <1>1, <2>1, <2>2 DEF ListedFor, Locked, SameAsk, SameFile, SameWrites
    <2> QED
      BY <2>2, <2>3, ListedMoves
  <1>6. ASSUME NEW l \in Loans, Line(q, l)
        PROVE  ListedOK'
    <2>1. /\ OnlyMoves(q) /\ req[q].at = "lines" /\ req'[q].at = "lines"
          /\ req'[q].left = req[q].left \ {l} /\ req'[q].listed = req[q].listed \cup {l}
          /\ req'[q].file = req[q].file /\ req'[q].rows = req[q].rows
          /\ SameAsk(req[q], req'[q])
      BY <1>1, <1>6, LineDoes
    <2>2. ListedFor(q)'
      BY <1>1, <2>1 DEF ListedFor, Locked, SameAsk
    <2> QED
      BY <2>1, <2>2, ListedMoves
  <1>7. ASSUME NEW l \in Loans, CloseRead(q, l)
        PROVE  ListedOK'
    <2>1. /\ OnlyMoves(q) /\ req[q].at = "close" /\ l \in req[q].left
          /\ req'[q].left = req[q].left \ {l}
          /\ req'[q].op = req[q].op /\ req'[q].file = req[q].file
          /\ SameWrites(req[q], req'[q])
          /\ \/ req'[q].at = "cas" /\ req'[q].id = l
             \/ req'[q].at = "close"
      BY <1>1, <1>7, CloseReadDoes, Zenon
    <2>2. ListedFor(q)'
      BY <1>1, <2>1 DEF ListedFor, Locked, SameWrites
    <2> QED
      BY <2>1, <2>2, ListedMoves
  <1>8. CASE ListApproved(q)
    <2>1. /\ OnlyMoves(q) /\ req[q].at = "lines" /\ req'[q].at = "close" /\ req[q].left = {}
          /\ req'[q].left \cap req[q].listed = {} /\ req'[q].file = req[q].file
          /\ SameAsk(req[q], req'[q]) /\ SameWrites(req[q], req'[q])
      BY <1>1, <1>8, ListApprovedDoes
    <2>2. ListedFor(q)'
      BY <1>1, <2>1 DEF ListedFor, Locked, SameAsk, SameWrites
    <2> QED
      BY <2>1, <2>2, ListedMoves
  <1>9. CASE Commit(q) \/ RefinanceLink(q)
    BY <1>9, ListedEnds DEF Commit, RefinanceLink
  <1>10. ASSUME NEW c \in Loans, RefinanceCreate(q, c)
         PROVE  ListedOK'
    <2>1. req[q].op = "refinance" /\ req[q].id \in Loans
      BY <1>10, RefinanceAt DEF RefinanceCreate
    <2> QED
      BY <1>1, <1>10, <2>1, RefinanceCreateDoes, ListedOther
  <1> QED
    BY <1>2, <1>3, <1>4, <1>5, <1>6, <1>7, <1>8, <1>9, <1>10 DEF Statement

LEMMA ListedNext == LoansInv /\ ListedOK /\ [Next]_vars => ListedOK'
  <1> SUFFICES ASSUME LoansInv, ListedOK, [Next]_vars
               PROVE  ListedOK'
    OBVIOUS
  <1>1. ASSUME req' = req
        PROVE  ListedOK'
    BY <1>1 DEF ListedOK, ListedFor, Locked
  <1>2. ASSUME NEW q \in Requests, Begin(q)
        PROVE  ListedOK'
    <2>1. /\ OnlyMoves(q) /\ req'[q].rows = [l \in Loans |-> NoRow]
          /\ \/ req'[q].op # "file"
             \/ req'[q].at = "lines" /\ req'[q].file = req'[q].left
      BY <1>2, OfRequest, BeginDoes
    <2>2. ListedFor(q)'
      BY <2>1 DEF ListedFor, Locked
    <2> QED
      BY <2>1, <2>2, ListedMoves
  <1>3. ASSUME NEW q \in Requests, Rollback(q) \/ RefinanceFails(q)
        PROVE  ListedOK'
    BY <1>3, ListedEnds DEF Rollback, RefinanceFails
  <1> QED
    BY <1>1, <1>2, <1>3, ListedStatement DEF Next, CreateLoan, ReminderRuns, vars

\* No file ever holds the row of a loan it lists as paid, also a loan that had
\* no detail when its line was read.
THEOREM ListedAreSpared == Spec => []FileSparesListed
  <1>1. Init => ListedOK
    BY IdleType DEF Init, ListedOK, ListedFor
  <1>2. ListedOK => FileSparesListed
    BY DEF ListedOK, ListedFor, FileSparesListed
  <1> QED
    BY <1>1, <1>2, ListedNext, LoansAlways, PTL DEF Spec

-----------------------------------------------------------------------------
(***************************************************************************)
(* One mail for each decision.                                             *)
(***************************************************************************)

\* Loans do not become undecided again.
Decides ==
    \A l \in Loans :
        /\ loan'[l].state \in {"none", "waiting"} => loan[l].state \in {"none", "waiting"}
        /\ loan'[l].state \in {"none", "waiting", "approved"}
             => loan[l].state \in {"none", "waiting", "approved"}

LEMMA MailsQuiet ==
    ASSUME MailsOK, UNCHANGED <<mailed, undone>>, Decides,
           \A q \in Requests, l \in Loans, to \in States : Told(q, l, to) => Told(q, l, to)'
    PROVE  MailsOK'
  <1> SUFFICES ASSUME NEW l \in Loans
               PROVE  /\ mailed[l].approved <= undone[l] + 1
                      /\ mailed[l].denied <= undone[l] + 1
                      /\ /\ loan'[l].state \in {"none", "waiting"}
                         /\ \A q \in Requests : ~ Told(q, l, "approved")'
                         => mailed[l].approved <= undone[l]
                      /\ /\ loan'[l].state \in {"none", "waiting", "approved"}
                         /\ \A q \in Requests : ~ Told(q, l, "denied")'
                         => mailed[l].denied <= undone[l]
    BY DEF MailsOK
  <1>1. "approved" \in States /\ "denied" \in States
    BY DEF States
  <1> HIDE DEF Told
  <1> QED
    BY <1>1 DEF MailsOK, Decides

LEMMA ToldMoves ==
    ASSUME NEW q \in Requests, OnlyMoves(q), req[q].at \notin {"unlink", "commit"},
           NEW p \in Requests, NEW l \in Loans, NEW to \in States, Told(p, l, to)
    PROVE  Told(p, l, to)'
  BY DEF Told, OnlyMoves

\* Only the transaction that decides on a loan has told of it.
LEMMA ToldHolds ==
    ASSUME LoansInv, NEW q \in Requests, NEW l \in Loans, NEW to \in States, Told(q, l, to)
    PROVE  l \in Locked(q) /\ loan[l].state = req[q].from /\ Legal(req[q].from, to)
  BY PatchAt DEF Told, DecisionOK

LEMMA MailDecisionTells ==
    ASSUME LoansInv, MailsOK, NEW q \in Requests, MailDecision(q)
    PROVE  MailsOK'
  <1> DEFINE id == req[q].id
  <1>1. req[q].at = "mail"
    BY DEF MailDecision
  <1>2. /\ req[q].op = "patch" /\ id \in Loans /\ DecisionOK(q, id, loan[id].prev)
        /\ Legal(req[q].from, req[q].to)
    BY <1>1, PatchAt
  <1>3. req[q].to \in {"approved", "denied"} /\ id \in Locked(q) /\ loan[id].state = req[q].from
    BY <1>1, <1>2 DEF DecisionOK, ApprovalOK, DenialOK, PayoutOK, Legal
  <1>4. /\ OnlyMoves(q) /\ SameAsk(req[q], req'[q]) /\ req'[q].at \in {"unlink", "commit"}
        /\ UNCHANGED <<loan, undone>>
        /\ \A l \in Loans :
             /\ mailed'[l].approved = IF l = id /\ req[q].to = "approved"
                                      THEN mailed[l].approved + 1 ELSE mailed[l].approved
             /\ mailed'[l].denied = IF l = id /\ req[q].to = "denied"
                                    THEN mailed[l].denied + 1 ELSE mailed[l].denied
    BY <1>2, <1>3, OfRequest, MailDecisionDoes
  <1>5. \A p \in Requests, to \in States : ~ Told(p, id, to)
    <2> SUFFICES ASSUME NEW p \in Requests, NEW to \in States, Told(p, id, to)
                 PROVE  FALSE
      OBVIOUS
    <2>1. id \in Locked(p) /\ p # q
      BY <1>1, <1>2, ToldHolds DEF Told
    <2> QED
      BY <1>3, <2>1, OfRequest
  <1>6. \A p \in Requests, l \in Loans, to \in States : Told(p, l, to) => Told(p, l, to)'
    BY <1>1, <1>4, ToldMoves
  <1>7. /\ undone[id] \in Nat /\ mailed[id].approved \in Nat /\ mailed[id].denied \in Nat
        /\ "approved" \in States /\ "denied" \in States
    BY <1>2, OfRequest DEF States
  <1> HIDE DEF id, Told
  <1> SUFFICES ASSUME NEW l \in Loans
               PROVE  /\ mailed'[l].approved <= undone[l] + 1
                      /\ mailed'[l].denied <= undone[l] + 1
                      /\ /\ loan[l].state \in {"none", "waiting"}
                         /\ \A p \in Requests : ~ Told(p, l, "approved")'
                         => mailed'[l].approved <= undone[l]
                      /\ /\ loan[l].state \in {"none", "waiting", "approved"}
                         /\ \A p \in Requests : ~ Told(p, l, "denied")'
                         => mailed'[l].denied <= undone[l]
    BY <1>4 DEF MailsOK
  <1>8. CASE l = id /\ req[q].to = "approved"
    <2>1. mailed[l].approved <= undone[l]
      BY <1>2, <1>3, <1>5, <1>7, <1>8 DEF MailsOK, Legal
    <2>2. mailed'[l].approved = mailed[l].approved + 1 /\ mailed'[l].denied = mailed[l].denied
      BY <1>4, <1>8
    <2>3. ~ \A p \in Requests : ~ Told(p, l, "approved")'
      BY <1>2, <1>4, <1>8 DEF Told, SameAsk, id
    <2>4. /\ mailed[l].denied <= undone[l] + 1
          /\ /\ loan[l].state \in {"none", "waiting", "approved"}
             /\ \A p \in Requests : ~ Told(p, l, "denied")
             => mailed[l].denied <= undone[l]
      BY DEF MailsOK
    <2>5. (\A p \in Requests : ~ Told(p, l, "denied")') => \A p \in Requests : ~ Told(p, l, "denied")
      BY <1>6, <1>7
    <2>6. mailed[l].approved + 1 <= undone[l] + 1
      BY <1>7, <1>8, <2>1
    <2> QED
      BY <2>2, <2>3, <2>4, <2>5, <2>6
  <1>9. CASE l = id /\ req[q].to = "denied"
    <2>1. mailed[l].denied <= undone[l]
      BY <1>2, <1>3, <1>5, <1>7, <1>9 DEF MailsOK, Legal
    <2>2. mailed'[l].denied = mailed[l].denied + 1 /\ mailed'[l].approved = mailed[l].approved
      BY <1>4, <1>9
    <2>3. ~ \A p \in Requests : ~ Told(p, l, "denied")'
      BY <1>2, <1>4, <1>9 DEF Told, SameAsk, id
    <2>4. /\ mailed[l].approved <= undone[l] + 1
          /\ /\ loan[l].state \in {"none", "waiting"}
             /\ \A p \in Requests : ~ Told(p, l, "approved")
             => mailed[l].approved <= undone[l]
      BY DEF MailsOK
    <2>5. (\A p \in Requests : ~ Told(p, l, "approved")') => \A p \in Requests : ~ Told(p, l, "approved")
      BY <1>6, <1>7
    <2>6. mailed[l].denied + 1 <= undone[l] + 1
      BY <1>7, <1>9, <2>1
    <2> QED
      BY <2>2, <2>3, <2>4, <2>5, <2>6
  <1>10. CASE l # id
    BY <1>4, <1>6, <1>7, <1>10 DEF MailsOK
  <1> QED
    BY <1>3, <1>8, <1>9, <1>10

LEMMA CommitTells ==
    ASSUME LoansInv, MailsOK, NEW q \in Requests, Commit(q)
    PROVE  MailsOK'
  <1>1. OnlyMoves(q) /\ UNCHANGED <<mailed, undone>>
    BY OfRequest, EndDoes DEF Commit
  <1>2. Decides
    <2>1. ASSUME NEW l, NEW p, CommitsApproval(l, p)
          PROVE  Decides
      <3>1. p \in Loans => loan[p].state # "none" /\ loan'[p].state = "paid"
        BY <2>1, ConstantsAssumption DEF CommitsApproval
      <3>2. loan[l].state = "waiting" /\ \A k \in Loans \ {l, p} : loan'[k].state = loan[k].state
        BY <2>1 DEF CommitsApproval
      <3> QED
        BY <3>1, <3>2 DEF Decides
    <2>2. ASSUME NEW l, CommitsDenial(l)
          PROVE  Decides
      BY <2>2 DEF CommitsDenial, Decides
    <2>3. ASSUME NEW S, CommitsPayouts(S)
          PROVE  Decides
      BY <2>3 DEF CommitsPayouts, Decides
    <2> QED
      BY <2>1, <2>2, <2>3, CommitKinds
  <1>3. \A l \in Loans : /\ Told(q, l, "approved") => loan'[l].state = "approved"
                         /\ Told(q, l, "denied") => loan'[l].state = "denied"
    BY CommitKinds DEF CommitsApproval, CommitsDenial, Told
  <1> SUFFICES ASSUME NEW l \in Loans
               PROVE  /\ mailed[l].approved <= undone[l] + 1
                      /\ mailed[l].denied <= undone[l] + 1
                      /\ /\ loan'[l].state \in {"none", "waiting"}
                         /\ \A p \in Requests : ~ Told(p, l, "approved")'
                         => mailed[l].approved <= undone[l]
                      /\ /\ loan'[l].state \in {"none", "waiting", "approved"}
                         /\ \A p \in Requests : ~ Told(p, l, "denied")'
                         => mailed[l].denied <= undone[l]
    BY <1>1 DEF MailsOK
  <1>4. ASSUME loan'[l].state \in {"none", "waiting"}, \A p \in Requests : ~ Told(p, l, "approved")'
        PROVE  mailed[l].approved <= undone[l]
    <2>1. loan[l].state \in {"none", "waiting"}
      BY <1>2, <1>4 DEF Decides
    <2>2. \A p \in Requests : ~ Told(p, l, "approved")
      <3>1. ~ Told(q, l, "approved")
        BY <1>3, <1>4
      <3>2. \A p \in Requests \ {q} : ~ Told(p, l, "approved")
        BY <1>1, <1>4 DEF Told, OnlyMoves
      <3> QED
        BY <3>1, <3>2
    <2>3. mailed[l].approved <= undone[l]
      BY <2>1, <2>2 DEF MailsOK
    <2> QED
      BY <2>3
  <1>5. ASSUME loan'[l].state \in {"none", "waiting", "approved"},
               \A p \in Requests : ~ Told(p, l, "denied")'
        PROVE  mailed[l].denied <= undone[l]
    <2>1. loan[l].state \in {"none", "waiting", "approved"}
      BY <1>2, <1>5 DEF Decides
    <2>2. \A p \in Requests : ~ Told(p, l, "denied")
      BY <1>1, <1>3, <1>5 DEF Told, OnlyMoves
    <2>3. mailed[l].denied <= undone[l]
      BY <2>1, <2>2 DEF MailsOK
    <2> QED
      BY <2>3
  <1>6. mailed[l].approved <= undone[l] + 1 /\ mailed[l].denied <= undone[l] + 1
    BY DEF MailsOK
  <1> QED
    BY <1>4, <1>5, <1>6

LEMMA RollbackTells ==
    ASSUME LoansInv, MailsOK, NEW q \in Requests, Rollback(q)
    PROVE  MailsOK'
  <1>1. OnlyMoves(q) /\ UNCHANGED <<loan, mailed>>
    BY OfRequest, EndDoes DEF Rollback
  <1>2. \A p \in Requests \ {q}, l \in Loans, to \in States : Told(p, l, to) => Told(p, l, to)'
    BY <1>1 DEF OnlyMoves, Told
  <1>3. "approved" \in States /\ "denied" \in States
    BY DEF States
  <1> SUFFICES ASSUME NEW l \in Loans
               PROVE  /\ mailed[l].approved <= undone'[l] + 1
                      /\ mailed[l].denied <= undone'[l] + 1
                      /\ /\ loan[l].state \in {"none", "waiting"}
                         /\ \A p \in Requests : ~ Told(p, l, "approved")'
                         => mailed[l].approved <= undone'[l]
                      /\ /\ loan[l].state \in {"none", "waiting", "approved"}
                         /\ \A p \in Requests : ~ Told(p, l, "denied")'
                         => mailed[l].denied <= undone'[l]
    BY <1>1 DEF MailsOK
  <1>4. /\ mailed[l].approved \in Nat /\ mailed[l].denied \in Nat /\ undone[l] \in Nat
        /\ undone'[l] \in Nat /\ undone[l] <= undone'[l]
        /\ mailed[l].approved <= undone[l] + 1 /\ mailed[l].denied <= undone[l] + 1
    BY OfRequest, UndoneGrows DEF MailsOK
  <1>5. Told(q, l, "approved") \/ Told(q, l, "denied") => undone'[l] = undone[l] + 1
    BY UndoneGrows DEF Told
  <1> HIDE DEF Told
  <1>6. CASE Told(q, l, "approved") \/ Told(q, l, "denied")
    BY <1>4, <1>5, <1>6
  <1>7. CASE ~ Told(q, l, "approved") /\ ~ Told(q, l, "denied")
    BY <1>2, <1>3, <1>4, <1>7 DEF MailsOK
  <1> QED
    BY <1>6, <1>7

LEMMA StatementMoves ==
    ASSUME LoansInv, NEW q \in Requests, Statement(q)
    PROVE  OnlyMoves(q)
  <1>1. \A p \in Requests \ {q} : req'[p] = req[p]
    BY DEF Statement, CasWins, CasLoses, PayParent, UpsertDetail, MailDecision, Unlink, Purge,
           Line, CloseRead, ListApproved, Commit, RefinanceCreate, RefinanceLink, LoansInv, TypeOK
  <1>2. req' \in [Requests -> RequestState]
    BY LoansNext DEF Next, LoansInv, TypeOK
  <1> QED
    BY <1>1, <1>2 DEF OnlyMoves

LEMMA MailsNext == LoansInv /\ MailsOK /\ [Next]_vars => MailsOK'
  <1> SUFFICES ASSUME LoansInv, MailsOK, [Next]_vars
               PROVE  MailsOK'
    OBVIOUS
  <1>1. ASSUME UNCHANGED <<loan, req, mailed, undone>>
        PROVE  MailsOK'
    BY <1>1, MailsQuiet DEF Told, Decides
  <1>2. ASSUME NEW l \in Loans, CreateLoan(l)
        PROVE  MailsOK'
    <2>1. UNCHANGED <<req, mailed, undone>>
      BY <1>2 DEF CreateLoan, history
    <2>2. Decides
      BY <1>2 DEF CreateLoan, Decides, LoansInv, TypeOK, LoanRow
    <2> QED
      BY <2>1, <2>2, MailsQuiet DEF Told
  <1>3. ASSUME NEW q \in Requests, OnlyMoves(q), req[q].at \notin {"unlink", "commit"}, Decides,
               UNCHANGED <<mailed, undone>>
        PROVE  MailsOK'
    BY <1>3, ToldMoves, MailsQuiet
  <1>4. ASSUME NEW q \in Requests, Begin(q)
        PROVE  MailsOK'
    BY <1>3, <1>4, OfRequest, BeginDoes DEF Decides, history
  <1>5. ASSUME NEW q \in Requests, RefinanceFails(q)
        PROVE  MailsOK'
    <2>1. req[q].at \notin {"unlink", "commit"}
      BY <1>5, PatchAt DEF RefinanceFails
    <2>2. OnlyMoves(q) /\ UNCHANGED <<loan, mailed, undone>>
      BY <1>5, OfRequest, EndDoes DEF RefinanceFails, history
    <2> QED
      BY <1>3, <2>1, <2>2 DEF Decides
  <1>6. ASSUME NEW q \in Requests, Statement(q)
        PROVE  MailsOK'
    <2>1. OnlyMoves(q)
      BY <1>6, StatementMoves
    <2>2. CASE \/ CasWins(q) \/ CasLoses(q) \/ PayParent(q) \/ UpsertDetail(q) \/ Purge(q)
               \/ \E l \in Loans : Line(q, l) \/ CloseRead(q, l)
               \/ ListApproved(q)
      <3>1. UNCHANGED <<loan, mailed, undone>> /\ req[q].at \notin {"unlink", "commit"}
        BY <2>2 DEF CasWins, CasLoses, PayParent, UpsertDetail, Purge, Line, CloseRead,
                    ListApproved, history
      <3> QED
        BY <1>3, <2>1, <3>1 DEF Decides
    <2>3. CASE Unlink(q)
      <3>1. req[q].at = "unlink" /\ UNCHANGED <<loan, mailed, undone>>
        BY <2>3 DEF Unlink, history
      <3>2. loan[req[q].id].prev \in Loans /\ loan[loan[req[q].id].prev].state # "none"
        BY <3>1, PatchAt DEF DecisionOK, ApprovalOK, DenialOK, PayoutOK, Legal
      <3>3. req'[q].at = "commit" /\ SameAsk(req[q], req'[q])
        BY <2>3, <3>2, OfRequest, UnlinkDoes DEF Locks
      <3>4. \A p \in Requests, l \in Loans, to \in States : Told(p, l, to) => Told(p, l, to)'
        BY <2>1, <3>3 DEF OnlyMoves, Told, SameAsk
      <3> QED
        BY <3>1, <3>4, MailsQuiet DEF Decides
    <2>4. ASSUME NEW c \in Loans, RefinanceCreate(q, c)
          PROVE  MailsOK'
      <3>1. req[q].at = "create" /\ UNCHANGED <<mailed, undone>>
        BY <2>4 DEF RefinanceCreate, history
      <3>2. Decides
        BY <2>4 DEF RefinanceCreate, Decides, LoansInv, TypeOK, LoanRow
      <3> QED
        BY <1>3, <2>1, <3>1, <3>2
    <2>5. CASE RefinanceLink(q)
      <3>1. req[q].at = "link" /\ UNCHANGED <<mailed, undone>>
        BY <2>5 DEF RefinanceLink, history
      <3>2. Decides
        BY <2>5 DEF RefinanceLink, Decides, LoansInv, TypeOK, LoanRow
      <3> QED
        BY <1>3, <2>1, <3>1, <3>2
    <2> QED
      BY <1>6, <2>2, <2>3, <2>4, <2>5, MailDecisionTells, CommitTells DEF Statement
  <1> QED
    BY <1>1, <1>2, <1>4, <1>5, <1>6, RollbackTells DEF Next, ReminderRuns, vars, history

\* The borrower is told of a decision once, and once more for each time it was
\* rolled back after the mail.
THEOREM OneMailForEachDecision == Spec => []OneMailPerDecision
  <1>1. Init => MailsOK
    BY DEF Init, MailsOK
  <1>2. LoansInv /\ MailsOK => OneMailPerDecision
    BY OfRequest DEF MailsOK, OneMailPerDecision, LoansInv, TypeOK
  <1> QED
    BY <1>1, <1>2, MailsNext, LoansAlways, PTL DEF Spec

-----------------------------------------------------------------------------
(***************************************************************************)
(* A loan that is closed keeps no reminder.                                *)
(***************************************************************************)

\* A step that adds no reminder and pays no loan.
LEMMA RemindersMove ==
    ASSUME RemindersOK, NEW q \in Requests, OnlyMoves(q), reminders' = reminders,
           leftover' = leftover, \A l \in Loans : loan'[l].state = loan[l].state,
           reminders \subseteq Loans, RemindersFor(q)'
    PROVE  RemindersOK'
  <1>1. PaidKeepsNoReminder'
    BY DEF RemindersOK, PaidKeepsNoReminder
  <1>2. \A p \in Requests \ {q} : RemindersFor(p)'
    BY DEF RemindersOK, RemindersFor, Purged, OnlyMoves
  <1> QED
    BY <1>1, <1>2 DEF RemindersOK

LEMMA NothingPurged ==
    ASSUME NEW q \in Requests, \A l \in reminders' : ~ Purged(q, l)'
    PROVE  RemindersFor(q)'
  BY DEF RemindersFor

LEMMA RemindersStatement ==
    ASSUME LoansInv, LoansInv', RemindersOK, NEW q \in Requests, OnlyMoves(q), Statement(q)
    PROVE  RemindersOK'
  <1>1. /\ RemindersFor(q) /\ RequestOK(q) /\ TypeOK /\ Typed(q) /\ req[q] \in RequestState
        /\ reminders \subseteq Loans
    BY OfRequest DEF RemindersOK, TypeOK
  <1>2. CASE CasWins(q)
    <2>1. req[q].at = "cas" /\ req[q].op \in {"patch", "file"} /\ req[q].id \in Loans
          /\ Legal(req[q].from, req[q].to)
      BY <1>1, <1>2 DEF CasWins, RequestState, Typed, RequestOK, PatchOK, FileOK, RefinanceOK, Legal
    <2>2. Locks(q, req[q].id, After(q))
      BY <1>1, <1>2, <2>1, CasWinsDoes DEF Legal
    <2>3. RemindersFor(q)'
      <3>1. CASE req[q].op = "patch"
        <4>1. After(q) # "commit"
          BY DEF After
        <4> QED
          BY <2>2, <3>1, <4>1 DEF RemindersFor, Purged, Locks, SameAsk
      <3>2. CASE req[q].op = "file"
        <4>1. After(q) = "purge"
          BY <1>1, <2>1, <3>2 DEF RequestOK, FileOK, After
        <4> QED
          BY <1>1, <2>1, <2>2, <3>2, <4>1 DEF RemindersFor, Purged, Locks, SameAsk, SameReminders, history
      <3> QED
        BY <2>1, <3>1, <3>2
    <2> QED
      BY <1>1, <2>2, <2>3, RemindersMove DEF Locks, history
  <1>3. ASSUME CasLoses(q) \/ RefinanceLink(q), req' = [req EXCEPT ![q] = Idle]
        PROVE  RemindersOK'
    <2>1. req'[q].op = "none"
      BY <1>1, <1>3, EndDoes, IdleType
    <2>2. \A l \in Loans : loan'[l].state = loan[l].state
      BY <1>1, <1>3 DEF CasLoses, RefinanceLink, TypeOK, LoanRow
    <2> QED
      BY <1>1, <1>3, <2>1, <2>2, RemindersMove, NothingPurged
         DEF CasLoses, RefinanceLink, Purged, history
  <1>4. CASE CasLoses(q) /\ req[q].op = "file"
    <2>1. /\ req[q].at = "cas" /\ req'[q].at = "close"
          /\ SameAsk(req[q], req'[q]) /\ SameWrites(req[q], req'[q])
          /\ SameReminders(req[q], req'[q])
          /\ UNCHANGED <<loan, detail, reminders, history, requests>>
      BY <1>1, <1>4, CasLosesDoes
    <2>2. RemindersFor(q)'
      BY <1>1, <1>4, <2>1 DEF RemindersFor, Purged, SameAsk, SameWrites, SameReminders, history
    <2> QED
      BY <1>1, <2>1, <2>2, RemindersMove DEF history
  <1>5. CASE PayParent(q) \/ UpsertDetail(q) \/ MailDecision(q) \/ Unlink(q)
    <2>1. req[q].at \in {"parent", "detail", "mail", "unlink"} /\ UNCHANGED <<loan, reminders, leftover>>
      BY <1>5 DEF PayParent, UpsertDetail, MailDecision, Unlink, history
    <2>2. req[q].op = "patch" /\ DecisionOK(q, req[q].id, loan[req[q].id].prev)
          /\ Legal(req[q].from, req[q].to)
      BY <2>1, PatchAt
    <2>3. req[q].to # "paid"
      BY <2>1, <2>2 DEF DecisionOK, PayoutOK
    <2>4. req'[q].op = "patch" /\ req'[q].to = req[q].to
      BY <1>5, <2>2, SameDecision
    <2>5. \A l \in Loans : ~ Purged(q, l)'
      <3> SUFFICES ASSUME NEW l \in Loans, Purged(q, l)'
                   PROVE  FALSE
        OBVIOUS
      <3>1. req'[q].at = "commit" /\ req'[q].id = l /\ req'[q].rows[l].state = "paid"
        BY <2>4 DEF Purged
      <3>2. PatchOK(q)'
        BY <2>4 DEF LoansInv, RequestOK
      <3>3. DecisionOK(q, req[q].id, loan[req[q].id].prev)'
        BY <3>1, <3>2 DEF PatchOK
      <3> QED
        BY <2>3, <2>4, <3>1, <3>3 DEF DecisionOK
    <2> QED
      BY <1>1, <2>1, <2>5, RemindersMove, NothingPurged
  <1>6. CASE Purge(q)
    <2>1. req[q].at = "purge" /\ req[q].id \in Loans
      BY <1>1, <1>6 DEF Purge, Typed
    <2>2. /\ req'[q].dropped = req[q].dropped \cup ({req[q].id} \cap reminders)
          /\ SameAsk(req[q], req'[q]) /\ SameWrites(req[q], req'[q])
          /\ UNCHANGED <<loan, detail, reminders, history, requests>>
      BY <1>1, <1>6, <2>1, PurgeDoes
    <2>3. RemindersFor(q)'
      BY <1>1, <2>1, <2>2 DEF RemindersFor, Purged, SameAsk, SameWrites, history
    <2> QED
      BY <1>1, <2>2, <2>3, RemindersMove DEF history
  <1>7. CASE ListApproved(q) \/ \E l \in Loans : Line(q, l) \/ CloseRead(q, l)
    <2> DEFINE G == /\ req[q].at \in {"lines", "close"} /\ req'[q].op = req[q].op
                    /\ req'[q].rows = req[q].rows /\ req'[q].dropped = req[q].dropped
                    /\ UNCHANGED <<loan, detail, reminders, history, requests>>
    <2>1. G
      <3>1. ASSUME NEW l \in Loans, Line(q, l)
            PROVE  G
        BY <1>1, <3>1, LineDoes DEF SameAsk
      <3>2. ASSUME NEW l \in Loans, CloseRead(q, l)
            PROVE  G
        BY <1>1, <3>2, CloseReadDoes, Zenon DEF SameWrites, SameReminders
      <3>3. CASE ListApproved(q)
        BY <1>1, <3>3, ListApprovedDoes DEF SameAsk, SameWrites, SameReminders
      <3> QED
        BY <1>7, <3>1, <3>2, <3>3
    <2>2. req[q].op = "file"
      BY <2>1, FileAt
    <2>3. RemindersFor(q)'
      BY <1>1, <2>1, <2>2 DEF RemindersFor, Purged, history
    <2> QED
      BY <1>1, <2>1, <2>3, RemindersMove DEF history
  <1>8. ASSUME NEW c \in Loans, RefinanceCreate(q, c)
        PROVE  RemindersOK'
    <2>1. req[q].op = "refinance" /\ req[q].id \in Loans
      BY <1>8, RefinanceAt DEF RefinanceCreate
    <2>2. /\ req'[q].op = "refinance" /\ loan[c].state = "none" /\ loan'[c].state = "waiting"
          /\ \A l \in Loans \ {c} : loan'[l] = loan[l]
          /\ UNCHANGED <<detail, reminders, history, requests>>
      BY <1>1, <1>8, <2>1, RefinanceCreateDoes
    <2>3. PaidKeepsNoReminder'
      BY <1>1, <2>2 DEF RemindersOK, PaidKeepsNoReminder, history
    <2>4. \A p \in Requests \ {q} : RemindersFor(p)'
      BY <2>2 DEF RemindersOK, RemindersFor, Purged, OnlyMoves, history
    <2>5. RemindersFor(q)'
      BY <2>2 DEF RemindersFor, Purged
    <2> QED
      BY <2>3, <2>4, <2>5 DEF RemindersOK
  <1>9. CASE Commit(q)
    <2>1. /\ reminders' = (reminders \ req[q].dropped) \cup req[q].added
          /\ leftover' = leftover \cup Leftover(q) /\ req' = [req EXCEPT ![q] = Idle]
      BY <1>9 DEF Commit
    <2>2. req[q].added \subseteq Loans /\ req'[q].op = "none"
      BY <1>1, <2>1, EndDoes, IdleType DEF RequestState
    <2>3. \A l \in Loans : loan'[l] = IF l \in Locked(q) THEN req[q].rows[l] ELSE loan[l]
      BY <1>9, CommitWrites
    <2>4. PaidKeepsNoReminder'
      <3> SUFFICES ASSUME NEW l \in reminders', loan'[l].state = "paid"
                   PROVE  l \in leftover'
        BY DEF PaidKeepsNoReminder
      <3>1. l \in Loans
        BY <1>1, <2>1, <2>2
      <3>2. CASE l \in req[q].added
        BY <2>1, <2>3, <3>1, <3>2 DEF Leftover
      <3>3. CASE l \in reminders /\ l \notin req[q].dropped /\ loan[l].state = "paid"
        BY <2>1, <3>3 DEF RemindersOK, PaidKeepsNoReminder
      <3>4. CASE l \in reminders /\ l \notin req[q].dropped /\ loan[l].state # "paid"
        <4>1. l \in Locked(q) /\ req[q].rows[l].state = "paid"
          BY <2>3, <3>1, <3>4
        <4>2. Purged(q, l) => l \in leftover
          BY <1>1, <3>4 DEF RemindersFor
        <4>3. CASE req[q].op = "patch" /\ l # req[q].id
          BY <2>1, <4>1, <4>3 DEF Leftover
        <4>4. CASE req[q].op = "patch" /\ l = req[q].id
          BY <1>9, <2>1, <4>1, <4>2, <4>4, CommitKinds DEF Purged
        <4>5. CASE req[q].op = "file"
          BY <1>9, <2>1, <4>1, <4>2, <4>5, CommitKinds DEF Purged
        <4> QED
          BY <1>9, <4>3, <4>4, <4>5, CommitKinds
      <3> QED
        BY <2>1, <3>2, <3>3, <3>4
    <2>5. \A p \in Requests \ {q} : RemindersFor(p)'
      <3> SUFFICES ASSUME NEW p \in Requests \ {q}, NEW l \in reminders', Purged(p, l)'
                   PROVE  l \in req'[p].dropped \/ l \in leftover'
        BY DEF RemindersFor
      <3>1. req'[p] = req[p] /\ RemindersFor(p)
        BY DEF OnlyMoves, RemindersOK
      <3>2. Purged(p, l) /\ req[p].rows[l].state = "paid"
        BY <3>1 DEF Purged
      <3>3. CASE l \in reminders
        BY <2>1, <3>1, <3>2, <3>3 DEF RemindersFor
      <3>4. CASE l \in req[q].added
        BY <2>1, <3>2, <3>4 DEF Leftover
      <3> QED
        BY <2>1, <3>3, <3>4
    <2>6. RemindersFor(q)'
      BY <2>2 DEF RemindersFor, Purged
    <2> QED
      BY <2>4, <2>5, <2>6 DEF RemindersOK
  <1>10. CASE CasLoses(q) /\ req[q].op # "file"
    BY <1>3, <1>10 DEF CasLoses
  <1>11. CASE RefinanceLink(q)
    BY <1>3, <1>11 DEF RefinanceLink
  <1> QED
    BY <1>2, <1>4, <1>5, <1>6, <1>7, <1>8, <1>9, <1>10, <1>11 DEF Statement

LEMMA RemindersNext == LoansInv /\ RemindersOK /\ [Next]_vars => RemindersOK'
  <1> SUFFICES ASSUME LoansInv, RemindersOK, [Next]_vars
               PROVE  RemindersOK'
    OBVIOUS
  <1>1. LoansInv' /\ TypeOK
    BY LoansNext DEF LoansInv
  <1>2. ASSUME NEW q \in Requests, OnlyMoves(q), UNCHANGED <<loan, reminders, leftover>>,
               \A l \in Loans : ~ Purged(q, l)'
        PROVE  RemindersOK'
    BY <1>1, <1>2, RemindersMove, NothingPurged DEF TypeOK
  <1>3. ASSUME NEW q \in Requests, Begin(q)
        PROVE  RemindersOK'
    <2>1. /\ OnlyMoves(q) /\ req'[q].rows = [l \in Loans |-> NoRow]
          /\ UNCHANGED <<loan, detail, reminders, history>>
      BY <1>1, <1>3, BeginDoes
    <2>2. \A l \in Loans : ~ Purged(q, l)'
      BY <2>1 DEF Purged, NoRow
    <2> QED
      BY <1>2, <2>1, <2>2 DEF history
  <1>4. ASSUME NEW q \in Requests, Rollback(q) \/ RefinanceFails(q)
        PROVE  RemindersOK'
    <2>1. req' = [req EXCEPT ![q] = Idle] /\ UNCHANGED <<loan, reminders, leftover>>
      BY <1>4 DEF Rollback, RefinanceFails, history
    <2>2. OnlyMoves(q) /\ \A l \in Loans : ~ Purged(q, l)'
      BY <1>1, <2>1, EndDoes, IdleType DEF Purged
    <2> QED
      BY <1>2, <2>1, <2>2
  <1>5. ASSUME NEW c \in Loans, CreateLoan(c)
        PROVE  RemindersOK'
    <2>1. \A l \in Loans : loan'[l].state = "paid" => loan[l].state = "paid"
      BY <1>1, <1>5 DEF CreateLoan, TypeOK, LoanRow
    <2> QED
      BY <1>1, <1>5, <2>1 DEF CreateLoan, RemindersOK, PaidKeepsNoReminder, RemindersFor, Purged,
                              TypeOK, history
  <1>6. ASSUME NEW c \in Loans, ReminderRuns(c)
        PROVE  RemindersOK'
    BY <1>6 DEF ReminderRuns, RemindersOK, PaidKeepsNoReminder, RemindersFor, Purged, history
  <1>7. ASSUME NEW q \in Requests, Statement(q)
        PROVE  RemindersOK'
    BY <1>1, <1>7, StatementMoves, RemindersStatement
  <1>8. CASE UNCHANGED vars
    BY <1>8 DEF vars, RemindersOK, PaidKeepsNoReminder, RemindersFor, Purged
  <1> QED
    BY <1>3, <1>4, <1>5, <1>6, <1>7, <1>8 DEF Next

\* A closed loan keeps no reminder, but for those a file schedules behind the
\* back of the transaction that closes it and those of a refinanced loan.
THEOREM PaidAreNotReminded == Spec => []PaidKeepsNoReminder
  <1>1. Init => RemindersOK
    <2> SUFFICES ASSUME Init
                 PROVE  RemindersOK
      OBVIOUS
    <2>1. \A q \in Requests : req[q] = Idle
      BY DEF Init
    <2>2. \A q \in Requests : RemindersFor(q)
      BY <2>1, IdleType DEF RemindersFor, Purged
    <2>3. PICK opening \in Openings :
              /\ loan = [l \in Loans |-> [NoRow EXCEPT !.state = opening[l]]]
              /\ reminders = {l \in Loans : opening[l] = "approved"}
      BY DEF Init
    <2>4. PaidKeepsNoReminder
      BY <2>3 DEF PaidKeepsNoReminder, NoRow
    <2> QED
      BY <2>2, <2>4 DEF RemindersOK
  <1>2. RemindersOK => PaidKeepsNoReminder
    BY DEF RemindersOK
  <1> QED
    BY <1>1, <1>2, RemindersNext, LoansAlways, PTL DEF Spec

-----------------------------------------------------------------------------
(***************************************************************************)
(* The service implements LoanBook: a commit is one step of the book, and  *)
(* so is a loan created; every other step leaves the book as it is.        *)
(***************************************************************************)
bookState == [l \in Loans |-> loan[l].state]

LEMMA BookStutters ==
    ASSUME \A l \in Loans : loan'[l].state = loan[l].state, detail' = detail
    PROVE  UNCHANGED <<bookState, detail>>
  BY DEF bookState

LEMMA CommitIsOneStep ==
    ASSUME LoansInv, NEW q \in Requests, Commit(q)
    PROVE  Book!Next
  <1>1. ASSUME NEW l \in Loans, NEW p, CommitsApproval(l, p), p # None
        PROVE  Book!Approve(l, {p}) /\ p \in Loans \ {l}
    BY <1>1 DEF CommitsApproval, Book!Approve
  <1>2. ASSUME NEW l \in Loans, CommitsApproval(l, None)
        PROVE  Book!Approve(l, {})
    BY <1>2, ConstantsAssumption DEF CommitsApproval, Book!Approve
  <1>3. ASSUME NEW l \in Loans, CommitsDenial(l)
        PROVE  Book!Deny(l)
    BY <1>3 DEF CommitsDenial, Book!Deny
  <1>4. ASSUME NEW S \in SUBSET Loans, CommitsPayouts(S)
        PROVE  Book!Close(S)
    BY <1>4 DEF CommitsPayouts, Book!Close
  <1>5. Locked(q) \in SUBSET Loans
    BY OfRequest
  <1>6. CASE req[q].op = "file"
    BY <1>4, <1>5, <1>6, CommitKinds DEF Book!Next
  <1>7. CASE req[q].op # "file"
    <2> DEFINE l == req[q].id
               p == loan[l].prev
    <2>1. l \in Loans /\ (CommitsApproval(l, p) \/ CommitsDenial(l) \/ CommitsPayouts({l}))
      BY <1>7, CommitKinds
    <2>2. CASE CommitsApproval(l, p) /\ p # None
      BY <1>1, <2>1, <2>2 DEF Book!Next
    <2>3. CASE CommitsApproval(l, p) /\ p = None
      BY <1>2, <2>1, <2>3 DEF Book!Next
    <2>4. CASE CommitsDenial(l)
      BY <1>3, <2>1, <2>4 DEF Book!Next
    <2>5. CASE CommitsPayouts({l})
      BY <1>4, <2>1, <2>5 DEF Book!Next
    <2> QED
      BY <2>1, <2>2, <2>3, <2>4, <2>5
  <1> QED
    BY <1>6, <1>7

LEMMA BookNext == LoansInv /\ [Next]_vars => [Book!Next]_<<bookState, detail>>
  <1> SUFFICES ASSUME LoansInv, [Next]_vars
               PROVE  Book!Next \/ UNCHANGED <<bookState, detail>>
    OBVIOUS
  <1>1. ASSUME NEW l \in Loans, loan[l].state = "none", loan'[l].state = "waiting",
               \A k \in Loans \ {l} : loan'[k].state = loan[k].state, detail' = detail
        PROVE  Book!Next
    BY <1>1 DEF Book!Next, Book!Open
  <1>2. ASSUME NEW l \in Loans, CreateLoan(l)
        PROVE  Book!Next
    BY <1>1, <1>2 DEF CreateLoan, LoansInv, TypeOK, LoanRow
  <1>3. ASSUME NEW q \in Requests, NEW c \in Loans, RefinanceCreate(q, c)
        PROVE  Book!Next
    <2>1. req[q].at = "create"
      BY <1>3 DEF RefinanceCreate
    <2>2. TypeOK /\ req[q].id \in Loans
      BY <2>1, OfRequest, RefinanceAt
    <2>3. /\ loan[c].state = "none" /\ loan'[c].state = "waiting"
          /\ \A l \in Loans \ {c} : loan'[l] = loan[l]
          /\ detail' = detail
      BY <1>3, <2>2, RefinanceCreateDoes
    <2> QED
      BY <1>1, <2>3
  <1>4. ASSUME NEW q \in Requests, RefinanceLink(q)
        PROVE  UNCHANGED <<bookState, detail>>
    BY <1>4, BookStutters DEF RefinanceLink, LoansInv, TypeOK, LoanRow
  <1>5. ASSUME UNCHANGED <<loan, detail>>
        PROVE  UNCHANGED <<bookState, detail>>
    BY <1>5 DEF bookState
  <1>6. ASSUME NEW q \in Requests, Statement(q)
        PROVE  Book!Next \/ UNCHANGED <<bookState, detail>>
    <2>1. \/ UNCHANGED <<loan, detail>>
          \/ Commit(q) \/ RefinanceLink(q) \/ \E c \in Loans : RefinanceCreate(q, c)
      BY <1>6 DEF Statement, CasWins, CasLoses, PayParent, UpsertDetail, MailDecision, Unlink,
                  Purge, Line, CloseRead, ListApproved
    <2> QED
      BY <1>3, <1>4, <1>5, <2>1, CommitIsOneStep
  <1>7. ASSUME NEW q \in Requests, Begin(q) \/ Rollback(q) \/ RefinanceFails(q)
        PROVE  UNCHANGED <<loan, detail>>
    BY <1>7 DEF Begin, PatchRead, FileBegin, RefinanceRead, Rollback, RefinanceFails
  <1>8. ASSUME NEW l \in Loans, ReminderRuns(l)
        PROVE  UNCHANGED <<loan, detail>>
    BY <1>8 DEF ReminderRuns
  <1> QED
    BY <1>2, <1>5, <1>6, <1>7, <1>8 DEF Next, vars

\* Whatever requests interleave, what is committed changes as if each request
\* were one step of the book.
THEOREM LoansImplementBook == Spec => ImplementsBook
  <1>1. Init => Book!Init
    <2> SUFFICES ASSUME Init
                 PROVE  Book!Init
      OBVIOUS
    <2>1. PICK opening \in Openings :
              /\ loan = [l \in Loans |-> [NoRow EXCEPT !.state = opening[l]]]
              /\ detail = {l \in Loans : opening[l] \in {"approved", "paid"}}
      BY DEF Init
    <2>2. opening \in [Loans -> States]
      BY ConstantsAssumption DEF States
    <2>3. \A l \in Loans : loan[l].state = opening[l]
      BY <2>1 DEF NoRow
    <2> QED
      BY <2>1, <2>2, <2>3 DEF Book!Init, Book!States, States
  <1> QED
    BY <1>1, BookNext, LoansAlways, PTL DEF Spec, ImplementsBook, Book!Spec, bookState
=============================================================================
