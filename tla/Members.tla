------------------------------- MODULE Members -------------------------------
(***************************************************************************)
(* What may change a member's profile and finances: PATCH /api/user/<id>   *)
(* (sections personal and finance), the treasurer's monthly file (PATCH    *)
(* /api/user) and the quota check of a loan application                    *)
(* (src/users/user.service.ts, src/loans/loan.service.ts). The preferences *)
(* are in Subscriptions, the birthday of a personal edit in Scheduler.     *)
(*                                                                         *)
(* The caller's role is the one the token guard loaded. A request stands   *)
(* at req[q].at; what its transaction has written is in req[q].rows, whose *)
(* members it has locked, until it commits.                                *)
(*                                                                         *)
(* Definitions whose comment starts with "Variant:" are not the code's:    *)
(* each is the definition after it with one plausible bug.                 *)
(***************************************************************************)
EXTENDS Sequences, AccessControl

CONSTANTS
    Members,
    Nobody,          \* an id without a profile
    Opening,         \* the role of each member at the start
    Identity,        \* the identification of each member at the start
    Identifications, \* the identifications in use, or to be used
    Malformed,       \* a line of the file that does not parse
    Requests,        \* requests served at one time
    MaxRequests,     \* bound: how many requests are served in all
    MaxLines         \* bound: the lines of a file

ConstantsAssumption ==
    /\ Nobody \notin Members
    /\ Opening \in [Members -> Roles]
    /\ Identity \in [Members -> Identifications]
    /\ \A u, v \in Members : Identity[u] = Identity[v] => u = v
    /\ Malformed \notin Identifications
    /\ MaxRequests \in Nat /\ MaxLines \in Nat

VARIABLES
    profile,    \* auth_user and fondo_api_userprofile, as committed
    finance,    \* fondo_api_userfinance, as committed
    lent,       \* the value of each member's applications in fondo_api_loan
    req,        \* the requests
    requests,   \* how many there have been
    filed       \* history: a file has been committed

vars == <<profile, finance, lent, req, requests, filed>>

\* The two columns that are an administrator's to change. The others of the
\* section (names, email, birthdate) are whoever's the section is.
Profile == [identification : Identifications, role : Roles]

\* Quotas a PATCH submits; those of the file are different, so that a row
\* shows where its figures come from.
Quotas == [total : {1, 2}, utilized : {0, 1}]
FileQuota == [total |-> 3, utilized |-> 1]
Money == 0..3

Idle == [at |-> "idle", actor |-> Nobody, role |-> NoRole, target |-> Nobody,
         section |-> "none", body |-> <<>>, seen |-> <<>>, lines |-> <<>>, rows |-> {}]

Init ==
    /\ profile = [u \in Members |-> [identification |-> Identity[u], role |-> Opening[u]]]
    /\ finance = [u \in Members |-> [total |-> 1, utilized |-> 0, available |-> 1]]
    /\ lent = [u \in Members |-> 0]
    /\ req = [q \in Requests |-> Idle]
    /\ requests = 0
    /\ filed = FALSE

Ends(q) == req' = [req EXCEPT ![q] = Idle]

\* The guards let actor's request through to the handler of a view.
Begin(q, actor, view, method, r) ==
    /\ req[q].at = "idle"
    /\ requests < MaxRequests
    /\ isRoleAllowed(view, method, profile[actor].role)
    /\ requests' = requests + 1
    /\ req' = [req EXCEPT ![q] = [r EXCEPT !.actor = actor, !.role = profile[actor].role]]
    /\ UNCHANGED <<profile, finance, lent, filed>>

-----------------------------------------------------------------------------
(* updateUser: the section gate is passed before any row is read. *)

PatchUser(q) == \E actor \in Members, id \in Members \cup {Nobody, Self},
                   section \in {"personal", "finance"} :
    LET target == resolveDetailUserId(id, actor, "PATCH")
        body == IF section = "personal" THEN Profile ELSE Quotas IN
    /\ canWriteSection(actor, profile[actor].role, target, section)
    /\ \E b \in body : Begin(q, actor, "UserDetailView", "PATCH",
            [Idle EXCEPT !.at = "read", !.target = target, !.section = section, !.body = b])

\* updateUserPersonal: the fields that differ from the stored profile must be
\* the caller's to change; a refusal is a 403, a missing profile a 404.
ReadProfile(q) ==
    /\ req[q].at = "read" /\ req[q].section = "personal"
    /\ LET r == req[q]
           stored == profile[r.target]
           changed == changedSectionFields("personal", r.body, stored) IN
       IF r.target \in Members
          /\ permits(userPatchAllowlist(r.actor, r.role, r.target, "personal"), changed)
       THEN req' = [req EXCEPT ![q].at = "save", ![q].seen = stored]
       ELSE Ends(q)
    /\ UNCHANGED <<profile, finance, lent, requests, filed>>

\* The transaction writes every column, the unchanged ones too. An
\* identification that is another member's is a 409.
SavePersonal(q) ==
    /\ req[q].at = "save" /\ req[q].section = "personal"
    /\ LET r == req[q] IN
       profile' = IF \E u \in Members \ {r.target} :
                        profile[u].identification = r.body.identification
                  THEN profile
                  ELSE [profile EXCEPT ![r.target] = r.body]
    /\ Ends(q)
    /\ UNCHANGED <<finance, lent, requests, filed>>

-----------------------------------------------------------------------------
(* updateUserFinance *)

\* Variant: the available quota is what the client says.
WithQuotaSubmitted(row, b) ==
    [total |-> b.total, utilized |-> b.utilized, available |-> row.available]

\* Variant: the difference the other way round.
WithQuotaSwapped(row, b) ==
    [total |-> b.total, utilized |-> b.utilized, available |-> b.utilized - b.total]

\* The available quota is derived, never taken from the body.
WithQuota(row, b) ==
    [total |-> b.total, utilized |-> b.utilized, available |-> b.total - b.utilized]

Unchanged(row, b) == row.total = b.total /\ row.utilized = b.utilized

LockFree(q, u) == \A p \in Requests \ {q} : u \notin req[p].rows

ReadFinance(q) ==
    /\ req[q].at = "read" /\ req[q].section = "finance"
    /\ IF req[q].target \in Members /\ ~Unchanged(finance[req[q].target], req[q].body)
       THEN req' = [req EXCEPT ![q].at = "save"]
       ELSE Ends(q)
    /\ UNCHANGED <<profile, finance, lent, requests, filed>>

SaveFinance(q) ==
    /\ req[q].at = "save" /\ req[q].section = "finance"
    /\ LockFree(q, req[q].target)
    /\ finance' = [finance EXCEPT ![req[q].target] = WithQuota(@, req[q].body)]
    /\ Ends(q)
    /\ UNCHANGED <<profile, lent, requests, filed>>

-----------------------------------------------------------------------------
(* bulkUpdateUsers: the file in one transaction. *)

PatchFile(q) == \E actor \in Members, n \in 0..MaxLines :
    \E lines \in [1..n -> Identifications \cup {Malformed}] :
        Begin(q, actor, "UserView", "PATCH", [Idle EXCEPT !.at = "file", !.lines = lines])

\* The members whose row a line changes. An identification nobody has is
\* logged and skipped.
Found(line) == {u \in Members : profile[u].identification = line /\ ~Unchanged(finance[u], FileQuota)}

\* Variant: updateUserFinance is not given the transaction's client, and its
\* default writes at once.
LineOutside(q) ==
    /\ req[q].at = "file" /\ req[q].lines # <<>>
    /\ Head(req[q].lines) # Malformed
    /\ \A u \in Found(Head(req[q].lines)) : LockFree(q, u)
    /\ finance' = [u \in Members |-> IF u \in Found(Head(req[q].lines))
                                     THEN WithQuota(finance[u], FileQuota) ELSE finance[u]]
    /\ req' = [req EXCEPT ![q].lines = Tail(@)]
    /\ UNCHANGED <<profile, lent, requests, filed>>

Line(q) ==
    /\ req[q].at = "file" /\ req[q].lines # <<>>
    /\ Head(req[q].lines) # Malformed
    /\ \A u \in Found(Head(req[q].lines)) : LockFree(q, u)
    /\ req' = [req EXCEPT ![q].lines = Tail(@), ![q].rows = @ \cup Found(Head(req[q].lines))]
    /\ UNCHANGED <<profile, finance, lent, requests, filed>>

CommitFile(q) ==
    /\ req[q].at = "file" /\ req[q].lines = <<>>
    /\ finance' = [u \in Members |-> IF u \in req[q].rows
                                     THEN WithQuota(finance[u], FileQuota) ELSE finance[u]]
    /\ filed' = TRUE
    /\ Ends(q)
    /\ UNCHANGED <<profile, lent, requests>>

\* A line that does not parse, or the transaction's time limit: nothing of the
\* file is kept.
RollbackFile(q) ==
    /\ req[q].at = "file"
    /\ Ends(q)
    /\ UNCHANGED <<profile, finance, lent, requests, filed>>

-----------------------------------------------------------------------------
(* createLoan *)

PostLoan(q) == \E actor \in Members, value \in Money :
    Begin(q, actor, "LoanView", "POST", [Idle EXCEPT !.at = "quota", !.body = value])

\* Variant: the amount is compared with the total quota.
ReadTotal(q) ==
    /\ req[q].at = "quota"
    /\ LET row == finance[req[q].actor] IN
       IF req[q].body > row.total \/ req[q].body = 0 THEN Ends(q)
       ELSE req' = [req EXCEPT ![q].at = "insert", ![q].seen = row.available]
    /\ UNCHANGED <<profile, finance, lent, requests, filed>>

\* More than the available quota is a 406, less than one a 400.
ReadQuota(q) ==
    /\ req[q].at = "quota"
    /\ LET row == finance[req[q].actor] IN
       IF req[q].body > row.available \/ req[q].body = 0 THEN Ends(q)
       ELSE req' = [req EXCEPT ![q].at = "insert", ![q].seen = row.available]
    /\ UNCHANGED <<profile, finance, lent, requests, filed>>

InsertLoan(q) ==
    /\ req[q].at = "insert"
    /\ lent' = [lent EXCEPT ![req[q].actor] = @ + req[q].body]
    /\ Ends(q)
    /\ UNCHANGED <<profile, finance, requests, filed>>

-----------------------------------------------------------------------------
Next == \E q \in Requests :
    \/ PatchUser(q) \/ ReadProfile(q) \/ SavePersonal(q)
    \/ ReadFinance(q) \/ SaveFinance(q)
    \/ PatchFile(q) \/ Line(q) \/ CommitFile(q) \/ RollbackFile(q)
    \/ PostLoan(q) \/ ReadQuota(q) \/ InsertLoan(q)

Spec == Init /\ [][Next]_vars

-----------------------------------------------------------------------------
(* Properties *)

TypeOK ==
    /\ profile \in [Members -> Profile]
    /\ finance \in [Members -> [total : Money, utilized : Money, available : Money]]
    /\ lent \in [Members -> Nat]
    /\ \A q \in Requests : req[q].rows \subseteq Members /\ req[q].role \in Roles \cup {NoRole}

\* However PATCHes, files and applications interleave, a member's available
\* quota is what the total leaves, and two members never share an
\* identification, which is how the file finds them.
FinancesAddUp ==
    /\ \A u \in Members : finance[u].available = finance[u].total - finance[u].utilized
    /\ \A u, v \in Members : profile[u].identification = profile[v].identification => u = v

\* A file that does not commit leaves no figure of its own behind, whatever
\* line it fails at (a partial monthly file would be worse than none).
FileAllOrNothing ==
    ~filed => \A u \in Members : finance[u].total # FileQuota.total

\* A role or an identification moves only by a request whose caller is an
\* ADMIN (at its authentication), or back to what the profile held when the
\* request read it: an echo gives nobody a right they did not have.
PrivilegedByAdminOrEcho ==
    \A u \in Members, f \in PRIVILEGED_FIELDS : profile'[u][f] # profile[u][f] =>
       \E q \in Requests : /\ req[q].at = "save" /\ req'[q].at = "idle" /\ req[q].target = u
                           /\ req[q].role = ADMIN \/ profile'[u][f] = req[q].seen[f]

\* A loan that is larger than the quota when it is inserted was applied for
\* before the quota moved.
LoanFitsUnlessMoved ==
    \A u \in Members : lent'[u] - lent[u] > finance[u].available =>
       \E q \in Requests : req[q].at = "insert" /\ req[q].actor = u
                           /\ req[q].seen # finance[u].available

\* What user-patch.policy.ts says: `role` is writable by ADMIN alone, on any
\* user.
RoleByAdminAlone ==
    [][\A u \in Members : profile'[u].role # profile[u].role =>
          \E q \in Requests : /\ req[q].at = "save" /\ req'[q].at = "idle"
                              /\ req[q].target = u /\ req[q].role = ADMIN]_vars
=============================================================================
