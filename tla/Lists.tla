-------------------------------- MODULE Lists --------------------------------
(***************************************************************************)
(* The paginated lists: members, powers of attorney, loans and saving      *)
(* accounts (src/common/http/pagination.ts and the four services). A page  *)
(* is two statements, a count and the rows at an offset, and a client      *)
(* walks the pages until the last one it was told of, while rows arrive    *)
(* and leave: members are activated and deactivated, loans and accounts    *)
(* change state, powers are asked for.                                     *)
(*                                                                         *)
(* Definitions whose comment starts with "Variant:" are not the code's:    *)
(* each is the definition after it with one plausible bug.                 *)
(***************************************************************************)
EXTENDS Naturals, FiniteSets, FiniteSetsExt, SequencesExt

CONSTANTS
    List,          \* which list: "users", "powers", "loans" or "accounts"
    MaxId,         \* bound: the rows there can be
    PER_PAGE,
    MaxMoves       \* bound: the rows that arrive and leave

ConstantsAssumption ==
    /\ List \in {"users", "powers", "loans", "accounts"}
    /\ MaxId \in Nat /\ PER_PAGE \in Nat \ {0} /\ MaxMoves \in Nat

VARIABLES
    rows,          \* the ids that match the list's filter
    privileged,    \* the client's role is ADMIN, PRESIDENT or TREASURER
    walk,          \* the client's request
    shown,         \* the rows it was shown, page after page
    moves,
    stayed,        \* history: the rows there during the whole walk
    left,          \* history: how many rows left during the walk
    arrived,       \* history: a row arrived during the walk
    between,       \* history: how many arrived between the last page's statements
    changed        \* history: two pages were of what different roles may see

vars == <<rows, privileged, walk, shown, moves, stayed, left, arrived, between, changed>>
history == <<stayed, left, arrived, between, changed>>

Ids == 1..MaxId
\* Every second row is the client's own.
Own == {i \in Ids : i % 2 = 1}

-----------------------------------------------------------------------------
(* pagination.ts *)

\* Variant: the last, incomplete page is not counted.
numPagesFloor(count, perPage) == Max({1, count \div perPage})

\* Math.ceil(Math.max(1, count) / perPage)
numPages(count, perPage) == (Max({1, count}) + perPage - 1) \div perPage

isPageBeyondLast(page, count, perPage) == page > numPages(count, perPage)

\* Variant: pages count from 0.
pageOffsetFromZero(page, perPage) == page * perPage

pageOffset(page, perPage) == (page - 1) * perPage

\* The rows at the offset, PER_PAGE of them at most.
Page(s, page) == SubSeq(s, pageOffset(page, PER_PAGE) + 1,
                        Min({Len(s), pageOffset(page, PER_PAGE) + PER_PAGE}))

-----------------------------------------------------------------------------
(* The services *)

Ascending(s) == [k \in 1..Cardinality(s) |->
                    CHOOSE i \in s : Cardinality({j \in s : j < i}) = k - 1]
Descending(s) == Reverse(Ascending(s))

\* Variant: the rows are in no order of their own; here, another each page.
getUsersUnordered(s) == IF walk.page % 2 = 0 THEN Descending(s) ELSE Ascending(s)

\* The active members, the oldest first.
getUsers(s) == Ascending(s)

\* The powers the actor asked for, or was asked for, the latest first.
listPowers(s) == Descending(s \cap Own)

\* Variant: all_loans is believed.
VisibleOnRequest(s, all, role) == IF all THEN s ELSE s \cap Own

\* all_loans and all_accounts are obeyed when the role was privileged as the
\* request was authenticated.
Visible(s, all, role) == IF role /\ all THEN s ELSE s \cap Own

\* The loans in a state, or in any, the latest first.
getLoans(s, all, role) == Descending(Visible(s, all, role))
\* The accounts in a state, the latest first.
getAccounts(s, all, role) == Descending(Visible(s, all, role))

Query(s) ==
    CASE List = "users" -> getUsers(s)
      [] List = "powers" -> listPowers(s)
      [] List = "loans" -> getLoans(s, walk.all, walk.role)
      [] List = "accounts" -> getAccounts(s, walk.all, walk.role)

-----------------------------------------------------------------------------
NoWalk == [at |-> "none", page |-> 0, all |-> FALSE, role |-> FALSE, count |-> 0, pages |-> 0]

Init ==
    /\ rows \in SUBSET Ids /\ privileged \in BOOLEAN
    /\ walk = NoWalk /\ shown = <<>> /\ moves = 0
    /\ stayed = rows /\ left = 0 /\ arrived = FALSE /\ between = 0 /\ changed = FALSE

\* History: the next page is of what another role may see.
OtherRole == /\ List \in {"loans", "accounts"} /\ walk.all
             /\ walk.at = "shown" /\ walk.role # privileged

\* The controllers: the first page; the others have page - 1 behind them. Every
\* page is authenticated anew.
Ask ==
    /\ \/ walk.at = "none" /\ \E all \in BOOLEAN : walk' = [NoWalk EXCEPT !.at = "count",
                                  !.page = 1, !.all = all, !.role = privileged]
       \/ walk.at = "shown" /\ walk.page < walk.pages
          /\ walk' = [walk EXCEPT !.at = "count", !.page = @ + 1, !.role = privileged]
    /\ stayed' = IF walk.at = "none" THEN rows ELSE stayed
    /\ changed' = (changed \/ OtherRole)
    /\ UNCHANGED <<rows, privileged, shown, moves, left, arrived, between>>

\* A page past the last one is an empty list, and no second statement.
Count ==
    /\ walk.at = "count"
    /\ LET count == Len(Query(rows)) IN
       walk' = [walk EXCEPT !.count = count, !.pages = numPages(count, PER_PAGE),
                  !.at = IF isPageBeyondLast(walk.page, count, PER_PAGE) THEN "shown" ELSE "find"]
    /\ UNCHANGED <<rows, privileged, shown, moves, history>>

\* buildPageEnvelope: the list as it is now with the count as it was.
Find ==
    /\ walk.at = "find"
    /\ shown' = shown \o Page(Query(rows), walk.page)
    /\ walk' = [walk EXCEPT !.at = "shown"]
    /\ UNCHANGED <<rows, privileged, moves, history>>

Stop ==
    /\ walk.at = "shown" /\ walk.page >= walk.pages
    /\ walk' = [walk EXCEPT !.at = "done"]
    /\ UNCHANGED <<rows, privileged, shown, moves, history>>

Walking == walk.at \in {"count", "find", "shown"}

\* A new row is the latest of all; a member who comes back is not.
Arrive(i) ==
    /\ Walking /\ i \notin rows /\ moves < MaxMoves
    /\ List = "powers" => \A j \in rows : j < i
    /\ moves' = moves + 1
    /\ rows' = rows \cup {i}
    /\ arrived' = TRUE
    /\ between' = IF walk.at = "find" /\ walk.page = walk.pages THEN between + 1 ELSE between
    /\ UNCHANGED <<privileged, walk, shown, stayed, left, changed>>

\* Powers are never removed.
Leave(i) ==
    /\ Walking /\ i \in rows /\ moves < MaxMoves /\ List # "powers"
    /\ moves' = moves + 1
    /\ rows' = rows \ {i} /\ stayed' = stayed \ {i} /\ left' = left + 1
    /\ UNCHANGED <<privileged, walk, shown, arrived, between, changed>>

ChangeRole ==
    /\ Walking /\ moves < MaxMoves /\ moves' = moves + 1
    /\ privileged' = ~privileged
    /\ UNCHANGED <<rows, walk, shown, history>>

Next == Ask \/ Count \/ Find \/ Stop \/ ChangeRole \/ \E i \in Ids : Arrive(i) \/ Leave(i)
Spec == Init /\ [][Next]_vars

-----------------------------------------------------------------------------
(* Properties *)

\* Rows the client may see whatever its role becomes.
Mine == IF List = "users" THEN stayed ELSE stayed \cap Own

\* Each row that left pushes one at most back over a page that had been read,
\* and each that arrived between the last page's count and its rows pushes one
\* at most beyond it: of the rows there all the time, no more than these are
\* missing from the pages, so none falls between two pages by itself. A role
\* that changed between two pages, where the list depends on it, makes them
\* pages of two lists.
NothingFallsBetweenPages ==
    walk.at = "done" => changed \/ Cardinality(Mine \ Range(shown)) <= left + between

\* A row is shown twice only when another arrived before it.
NoRepetitionUnlessArrived ==
    arrived \/ changed \/ \A j, k \in DOMAIN shown : shown[j] = shown[k] => j = k

\* A client whose role was never privileged is shown no row of another member,
\* whatever it asks for.
OthersNeedPrivilege ==
    List # "users" => \A k \in DOMAIN shown : shown[k] \in Own \/ walk.role \/ changed
=============================================================================
