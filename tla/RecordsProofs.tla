---------------------------- MODULE RecordsProofs ----------------------------
(***************************************************************************)
(* Proofs about what four services keep: the accounts that members log in  *)
(* with (Accounts), the saving accounts and the runner that closes them    *)
(* (CapClosing), the powers of attorney (Powers) and the files (Files).    *)
(* They share their requests at most, the runner not even these; a theorem *)
(* is about the behaviours of one.                                         *)
(***************************************************************************)
EXTENDS Accounts, Sequences, FiniteSetTheorems, WellFoundedInduction, TLAPS

CONSTANTS Accounts, Orphans, MaxDay, MaxPuts, MaxFaults,     \* of CapClosing
          Members, Nobody, Powers, MaxDecisions,   \* of Powers
          Names, LowerNames, MaxUploads            \* of Files

VARIABLES state, end, creating, names, status, ran, day, closed, puts, reopened, faults,
          power, letters, pushes, read,
          row, object, dropped, stored

Cap == INSTANCE CapClosing
Pow == INSTANCE Powers WITH MaxRequests <- MaxDecisions
Fil == INSTANCE Files WITH MaxRequests <- MaxUploads

-----------------------------------------------------------------------------
(***************************************************************************)
(* Accounts that members log in with.                                      *)
(*                                                                         *)
(* What is relied on everywhere is that nothing goes back: a row stays,    *)
(* its username stays, a password is only ever replaced by a later one     *)
(* and a link that was mailed keeps its account and its hash (Grows).      *)
(* AccountsInv adds what each request may still count on when it goes on,  *)
(* and that the transactions that insert accounts hold ids and usernames   *)
(* which nobody else has.                                                  *)
(***************************************************************************)

Account == [username : Emails, email : Emails, password : Nat, usable : BOOLEAN,
            active : BOOLEAN, pending : BOOLEAN]
Link == [id : 0..MaxId, password : Nat, expired : BOOLEAN]
Points == {"idle", "create", "forgot", "activate", "login", "submit", "invite", "commit",
           "rollback", "open", "find", "issue", "reset"}
Request == [at : Points, id : 0..MaxId, link : 0..MaxLinks, password : Nat, email : Emails,
            usable : BOOLEAN, early : BOOLEAN, answer : Nat]

AccountsTyped ==
    /\ account \in [Ids -> Account]
    /\ key \in [Ids -> Nat] /\ answered \in [Ids -> SUBSET Nat]
    /\ link \in [Links -> Link] /\ cookie \in [Browsers -> 0..MaxLinks]
    /\ req \in [Requests -> Request] /\ requests \in Nat
    /\ invited \subseteq Ids /\ opened \subseteq Ids /\ used \subseteq Links

AccountOK(i) ==
    /\ account[i] # NoAccount =>
         /\ account[i].password # 0 /\ i \in invited \cup opened
         /\ account[i].active => i \in opened
    /\ i \in opened => account[i] # NoAccount /\ ~account[i].pending
    /\ key[i] # 0 => account[i] # NoAccount
    /\ answered[i] \subseteq {key[i]} /\ (key[i] = 0 => answered[i] = {})

UsernamesDiffer ==
    \A i, j \in Ids :
        account[i] # NoAccount /\ account[j] # NoAccount /\ i # j =>
            account[i].username # account[j].username

\* A link a password was written with is behind its account.
UsedOK(l) ==
    /\ link[l] # NoLink /\ link[l].id \in Ids
    /\ link[l].password < account[link[l].id].password

Inserting(r) == r.at \in {"invite", "commit", "rollback"}
OfAnAccount == {"activate", "login", "submit", "open", "find", "issue", "reset"}

\* What a request r counts on, n requests having come.
RequestOK(r, n) ==
    /\ r.at # "idle" => n > 0
    /\ r.at \in OfAnAccount => r.id \in Ids /\ account[r.id] # NoAccount
    /\ r.at = "open" => r.early
    /\ Inserting(r) =>
         /\ r.id \in Ids /\ account[r.id] = NoAccount
         /\ \A i \in Ids : account[i] # NoAccount => account[i].username # r.email
    /\ r.at = "commit" => r.id \in invited
    /\ r.at = "reset" =>
         /\ r.link \in Links /\ link[r.link] # NoLink /\ link[r.link].id = r.id
         /\ link[r.link].password <= account[r.id].password
    /\ r.answer # 500

InsertsApart ==
    \A q, s \in Requests :
        Inserting(req[q]) /\ Inserting(req[s]) /\ q # s =>
            req[q].id # req[s].id /\ req[q].email # req[s].email

AccountsInv ==
    /\ AccountsTyped
    /\ \A i \in Ids : AccountOK(i)
    /\ UsernamesDiffer
    /\ \A l \in used : UsedOK(l)
    /\ \A q \in Requests : RequestOK(req[q], requests)
    /\ InsertsApart

-----------------------------------------------------------------------------
(* Operators *)

LEMMA MinOf ==
    ASSUME NEW S \in SUBSET Nat, S # {}
    PROVE  Min(S) \in S /\ \A y \in S : Min(S) <= y
  <1> DEFINE R == OpToRel(<, Nat)
  <1>1. IsWellFoundedOn(R, Nat)
    BY NatLessThanWellFounded
  <1>2. \A x, y \in Nat : <<x, y>> \in R <=> x < y
    BY DEF OpToRel
  <1> HIDE DEF R
  <1>3. PICK x \in S : \A y \in S : ~(<<y, x>> \in R)
    BY <1>1, WFMin
  <1>4. ASSUME NEW y \in S PROVE x <= y
    <2>1. x \in Nat /\ y \in Nat /\ ~(y < x)
      BY <1>2, <1>3
    <2> QED
      BY <2>1
  <1> QED
    BY <1>4 DEF Min

LEMMA NoAccountType ==
    ASSUME ConstantsAssumption
    PROVE  /\ NoAccount \in Account /\ NoAccount.password = 0
           /\ \A e \in Emails : /\ NewAccount(e) \in Account /\ NewAccount(e).password = 1
                                /\ NewAccount(e).username = e /\ NewAccount(e).active = FALSE
                                /\ NewAccount(e) # NoAccount /\ NewAccount(e).pending = TRUE
  BY DEF ConstantsAssumption, NoAccount, NewAccount, Account

LEMMA MemberType ==
    ASSUME ConstantsAssumption, NEW e \in Emails
    PROVE  /\ Member(e) \in Account /\ Member(e).password = 1 /\ Member(e) # NoAccount
           /\ Member(e).active = TRUE /\ Member(e).pending = FALSE
  <1> DEFINE a == NewAccount(e)
  <1>1. a \in Account /\ a.password = 1
    BY NoAccountType
  <1>2. Member(e) = [a EXCEPT !.usable = TRUE, !.active = TRUE, !.pending = FALSE]
    BY DEF Member
  <1> HIDE DEF a
  <1>3. /\ Member(e) \in Account /\ Member(e).password = 1
        /\ Member(e).active = TRUE /\ Member(e).pending = FALSE
    BY <1>1, <1>2 DEF Account
  <1> QED
    BY <1>3, NoAccountType

LEMMA IdleType ==
    ASSUME ConstantsAssumption
    PROVE  Idle \in Request /\ Idle.at = "idle" /\ Idle.answer = 0
  BY DEF ConstantsAssumption, Idle, Request, Points

LEMMA NoLinkType == ConstantsAssumption => NoLink \in Link /\ NoLink.id = 0
  BY DEF ConstantsAssumption, NoLink, Link

-----------------------------------------------------------------------------
LEMMA AccountsInit == ASSUME ConstantsAssumption, Init  PROVE AccountsInv
  <1>1. \A i \in Ids : account[i] = IF i = 1 THEN Member(FirstEmail) ELSE NoAccount
    BY DEF Init
  <1>2. FirstEmail \in Emails /\ 1 \in Ids
    BY DEF ConstantsAssumption, Ids
  <1>3. account \in [Ids -> Account]
    BY <1>2, MemberType, NoAccountType DEF Init
  <1>4. AccountsTyped
    BY <1>2, <1>3, IdleType, NoLinkType DEF Init, AccountsTyped, ConstantsAssumption
  <1>5. ASSUME NEW i \in Ids PROVE AccountOK(i)
    <2>1. key[i] = 0 /\ answered[i] = {} /\ invited = {1} /\ opened = {1}
      BY DEF Init
    <2>2. CASE i = 1
      <3>1. account[i] = Member(FirstEmail)
        BY <1>1, <2>2
      <3>2. account[i] # NoAccount /\ account[i].password = 1 /\ ~account[i].pending
        BY <1>2, <3>1, MemberType
      <3> QED
        BY <2>1, <2>2, <3>2 DEF AccountOK
    <2>3. CASE i # 1
      BY <1>1, <2>1, <2>3 DEF AccountOK
    <2> QED
      BY <2>2, <2>3
  <1>6. UsernamesDiffer
    BY <1>1 DEF UsernamesDiffer
  <1>7. \A q \in Requests : RequestOK(req[q], requests)
    BY IdleType DEF Init, RequestOK, Inserting, OfAnAccount
  <1>8. InsertsApart /\ \A l \in used : UsedOK(l)
    BY IdleType DEF Init, InsertsApart, Inserting
  <1> QED
    BY <1>4, <1>5, <1>6, <1>7, <1>8 DEF AccountsInv

\* Nothing goes back.
Grows ==
    /\ \A i \in Ids : account[i] # NoAccount =>
         account'[i] # NoAccount /\ account'[i].username = account[i].username
    /\ \A i \in Ids : account[i].password <= account'[i].password
    /\ \A l \in Links : link[l] # NoLink =>
         link'[l] # NoLink /\ link'[l].id = link[l].id /\ link'[l].password = link[l].password
    /\ requests' >= requests

\* Every request stands where it stood, or has ended.
Settled ==
    /\ req' \in [Requests -> Request]
    /\ \A s \in Requests : req'[s] = req[s] \/ (req'[s].at = "idle" /\ req'[s].answer # 500)

\* A request that stays where it is still has what it counts on.
LEMMA RequestStays ==
    ASSUME AccountsInv, AccountsTyped', Grows, NEW r \in Request, RequestOK(r, requests),
           Inserting(r) =>
             /\ account'[r.id] = NoAccount
             /\ \A i \in Ids : account'[i] # NoAccount => account'[i].username # r.email
             /\ r.id \in invited => r.id \in invited'
    PROVE  /\ r.at # "idle" => requests' > 0
           /\ r.at \in OfAnAccount => r.id \in Ids /\ account'[r.id] # NoAccount
           /\ r.at = "commit" => r.id \in invited'
           /\ r.at = "reset" =>
                /\ r.link \in Links /\ link'[r.link] # NoLink /\ link'[r.link].id = r.id
                /\ link'[r.link].password <= account'[r.id].password
  <1>1. r.at # "idle" => requests' > 0
    BY DEF AccountsInv, AccountsTyped, Grows, RequestOK
  <1>2. r.at \in OfAnAccount => r.id \in Ids /\ account'[r.id] # NoAccount
    BY DEF Grows, RequestOK
  <1>3. r.at = "commit" => r.id \in invited'
    BY DEF RequestOK, Inserting
  <1>4. ASSUME r.at = "reset"
        PROVE  /\ r.link \in Links /\ link'[r.link] # NoLink /\ link'[r.link].id = r.id
               /\ link'[r.link].password <= account'[r.id].password
    <2>1. /\ r.id \in Ids /\ r.link \in Links /\ link[r.link] # NoLink
          /\ link[r.link].id = r.id /\ link[r.link].password <= account[r.id].password
      BY <1>4 DEF RequestOK, OfAnAccount
    <2>2. /\ link[r.link] \in Link /\ account[r.id] \in Account /\ account'[r.id] \in Account
      BY <2>1 DEF AccountsInv, AccountsTyped
    <2>3. /\ link[r.link].password \in Nat /\ account[r.id].password \in Nat
          /\ account'[r.id].password \in Nat
      BY <2>2 DEF Link, Account
    <2>4. account[r.id].password <= account'[r.id].password
      BY <2>1 DEF Grows
    <2> QED
      BY <2>1, <2>3, <2>4 DEF Grows
  <1> QED
    BY <1>1, <1>2, <1>3, <1>4

LEMMA SettledRequests ==
    ASSUME AccountsInv, AccountsTyped', Grows, Settled,
           \A s \in Requests : Inserting(req[s]) /\ req'[s] = req[s] =>
             /\ account'[req[s].id] = NoAccount
             /\ \A i \in Ids : account'[i] # NoAccount => account'[i].username # req[s].email
             /\ req[s].id \in invited => req[s].id \in invited'
    PROVE  (\A s \in Requests : RequestOK(req[s], requests)') /\ InsertsApart'
  <1>1. ASSUME NEW s \in Requests PROVE RequestOK(req[s], requests)'
    <2>1. CASE req'[s] = req[s]
      <3> DEFINE r == req[s]
      <3>1. r \in Request /\ RequestOK(r, requests)
        BY DEF AccountsInv, AccountsTyped
      <3>2. /\ r.at # "idle" => requests' > 0
            /\ r.at \in OfAnAccount => r.id \in Ids /\ account'[r.id] # NoAccount
            /\ r.at = "commit" => r.id \in invited'
            /\ r.at = "reset" =>
                 /\ r.link \in Links /\ link'[r.link] # NoLink /\ link'[r.link].id = r.id
                 /\ link'[r.link].password <= account'[r.id].password
        BY <2>1, <3>1, RequestStays
      <3> QED
        BY <2>1, <3>1, <3>2 DEF RequestOK, Inserting
    <2>2. CASE req'[s].at = "idle" /\ req'[s].answer # 500
      BY <2>2 DEF RequestOK, Inserting, OfAnAccount
    <2> QED
      BY <2>1, <2>2 DEF Settled
  <1>2. InsertsApart'
    BY DEF Settled, AccountsInv, InsertsApart, Inserting
  <1> QED
    BY <1>1, <1>2

\* A link that was used stays behind its account.
LEMMA UsedStay ==
    ASSUME AccountsInv, AccountsTyped', Grows, NEW l \in used
    PROVE  UsedOK(l)'
  <1>1. l \in Links /\ UsedOK(l) /\ link[l] \in Link
    BY DEF AccountsInv, AccountsTyped
  <1> DEFINE i == link[l].id
  <1>2. /\ link'[l] # NoLink /\ link'[l].id = i /\ link'[l].password = link[l].password
        /\ i \in Ids /\ link[l].password < account[i].password
        /\ account[i].password <= account'[i].password
    BY <1>1 DEF Grows, UsedOK
  <1>3. account[i] \in Account /\ account'[i] \in Account
    BY <1>2 DEF AccountsInv, AccountsTyped
  <1>4. /\ link[l].password \in Nat /\ account[i].password \in Nat /\ account'[i].password \in Nat
    BY <1>1, <1>3 DEF Link, Account
  <1>5. link[l].password < account'[i].password
    BY <1>2, <1>4
  <1> QED
    BY <1>2, <1>5 DEF UsedOK

-----------------------------------------------------------------------------
(* Steps that leave the tables alone *)

LEMMA EndsAs ==
    ASSUME ConstantsAssumption, NEW q \in Requests, NEW a \in Nat, Ends(q, a)
    PROVE  \E r \in Request : req' = [req EXCEPT ![q] = r] /\ r.at = "idle" /\ r.answer = a
  <1> DEFINE r == [Idle EXCEPT !.answer = a]
  <1>1. r \in Request /\ r.at = "idle" /\ r.answer = a
    BY IdleType DEF Request
  <1>2. req' = [req EXCEPT ![q] = r]
    BY DEF Ends
  <1> QED
    BY <1>1, <1>2

LEMMA GoesAs ==
    ASSUME AccountsInv, NEW q \in Requests, NEW at \in Points, Goes(q, at)
    PROVE  \E r \in Request :
             /\ req' = [req EXCEPT ![q] = r] /\ r.at = at /\ r.id = req[q].id
             /\ r.link = req[q].link /\ r.email = req[q].email /\ r.answer = req[q].answer
  <1> DEFINE r == [req[q] EXCEPT !.at = at]
  <1>1. req[q] \in Request
    BY DEF AccountsInv, AccountsTyped
  <1>2. /\ r \in Request /\ r.at = at /\ r.id = req[q].id
        /\ r.link = req[q].link /\ r.email = req[q].email /\ r.answer = req[q].answer
    BY <1>1 DEF Request
  <1>3. req' = [req EXCEPT ![q] = r]
    BY DEF Goes
  <1> QED
    BY <1>2, <1>3

LEMMA QuietStep ==
    ASSUME AccountsInv, NEW q \in Requests, NEW r \in Request, req' = [req EXCEPT ![q] = r],
           UNCHANGED <<account, key, link, cookie, history>>,
           requests' \in {requests, requests + 1}, RequestOK(r, requests'),
           Inserting(r) => /\ Inserting(req[q])
                           /\ r.id = req[q].id /\ r.email = req[q].email
    PROVE  AccountsInv'
  <1> USE DEF history
  <1>1. req'[q] = r /\ \A s \in Requests \ {q} : req'[s] = req[s]
    BY DEF AccountsInv, AccountsTyped
  <1>2. AccountsTyped' /\ requests \in Nat
    BY DEF AccountsInv, AccountsTyped
  <1>3. \A i \in Ids : AccountOK(i)'
    BY DEF AccountsInv, AccountOK
  <1>4. UsernamesDiffer' /\ \A l \in used' : UsedOK(l)'
    BY DEF AccountsInv, UsernamesDiffer, UsedOK
  <1>5. ASSUME NEW s \in Requests PROVE RequestOK(req[s], requests)'
    <2>1. CASE s = q
      BY <1>1, <2>1 DEF RequestOK, Inserting
    <2>2. CASE s # q
      <3>1. req'[s] = req[s] /\ RequestOK(req[s], requests)
        BY <1>1, <2>2 DEF AccountsInv
      <3>2. requests > 0 => requests' > 0
        BY <1>2
      <3> QED
        BY <3>1, <3>2 DEF RequestOK, Inserting
    <2> QED
      BY <2>1, <2>2
  <1>6. InsertsApart'
    BY <1>1 DEF AccountsInv, InsertsApart, Inserting
  <1> QED
    BY <1>2, <1>3, <1>4, <1>5, <1>6 DEF AccountsInv

LEMMA QuietEnd ==
    ASSUME ConstantsAssumption, AccountsInv, NEW q \in Requests, NEW a \in Nat, Ends(q, a),
           a # 500, UNCHANGED <<account, key, link, cookie, requests, history>>
    PROVE  AccountsInv'
  <1>1. PICK r \in Request : req' = [req EXCEPT ![q] = r] /\ r.at = "idle" /\ r.answer = a
    BY EndsAs
  <1>2. RequestOK(r, requests') /\ ~Inserting(r)
    BY <1>1 DEF RequestOK, Inserting, OfAnAccount
  <1> QED
    BY <1>1, <1>2, QuietStep

\* A request that goes on to a point where it counts on no more than before.
LEMMA QuietGo ==
    ASSUME AccountsInv, NEW q \in Requests, NEW at \in {"find", "issue", "rollback"},
           Goes(q, at), UNCHANGED <<account, key, link, cookie, requests, history>>,
           IF at = "rollback" THEN Inserting(req[q]) ELSE req[q].at \in OfAnAccount
    PROVE  AccountsInv'
  <1>1. at \in Points
    BY DEF Points
  <1>2. PICK r \in Request :
             /\ req' = [req EXCEPT ![q] = r] /\ r.at = at /\ r.id = req[q].id
             /\ r.link = req[q].link /\ r.email = req[q].email /\ r.answer = req[q].answer
    BY <1>1, GoesAs
  <1>3. RequestOK(req[q], requests)
    BY DEF AccountsInv
  <1>4. RequestOK(r, requests')
    BY <1>2, <1>3 DEF RequestOK, Inserting, OfAnAccount
  <1>5. Inserting(r) => Inserting(req[q])
    BY <1>2 DEF Inserting
  <1> QED
    BY <1>2, <1>4, <1>5, QuietStep

LEMMA PostSafe ==
    ASSUME ConstantsAssumption, AccountsInv, NEW q \in Requests, Post(q)
    PROVE  AccountsInv'
  <1>1. /\ requests' = requests + 1 /\ requests' > 0
        /\ UNCHANGED <<account, key, link, cookie, history>>
    <2>1. requests \in Nat
      BY DEF AccountsInv, AccountsTyped
    <2>2. requests' = requests + 1 /\ UNCHANGED <<account, key, link, cookie, history>>
      BY DEF Post
    <2> QED
      BY <2>1, <2>2
  <1>2. ASSUME NEW r \in Request, req' = [req EXCEPT ![q] = r], r.answer = 0,
               \/ r.at \in {"create", "forgot"}
               \/ /\ r.at \in {"activate", "login", "submit"}
                  /\ r.id \in Ids /\ account[r.id] # NoAccount
        PROVE  AccountsInv'
    <2>1. RequestOK(r, requests') /\ ~Inserting(r)
      BY <1>1, <1>2 DEF RequestOK, Inserting, OfAnAccount
    <2> QED
      BY <1>1, <1>2, <2>1, QuietStep
  <1>3. ASSUME NEW kind \in {"create", "forgot"}, NEW e \in Emails,
               req' = [req EXCEPT ![q] = [Idle EXCEPT !.at = kind, !.email = e]]
        PROVE  AccountsInv'
    <2> DEFINE r == [Idle EXCEPT !.at = kind, !.email = e]
    <2>1. r \in Request /\ r.at = kind /\ r.answer = 0
      BY IdleType DEF Request, Points
    <2>2. req' = [req EXCEPT ![q] = r]
      BY <1>3
    <2> HIDE DEF r
    <2> QED
      BY <1>2, <2>1, <2>2
  <1>4. ASSUME NEW kind \in {"activate", "login"}, NEW i \in Rows, NEW u \in BOOLEAN,
               NEW p \in 1..account[i].password,
               req' = [req EXCEPT ![q] = [Idle EXCEPT !.at = kind, !.id = i, !.usable = u,
                                                      !.password = p]]
        PROVE  AccountsInv'
    <2> DEFINE r == [Idle EXCEPT !.at = kind, !.id = i, !.usable = u, !.password = p]
    <2>1. i \in Ids /\ account[i] # NoAccount /\ i \in 0..MaxId
      BY DEF Rows, Ids, ConstantsAssumption
    <2>2. p \in Nat
      BY <2>1 DEF AccountsInv, AccountsTyped, Account
    <2>3. r \in Request /\ r.at = kind /\ r.answer = 0 /\ r.id = i
      BY <2>1, <2>2, IdleType DEF Request, Points
    <2>4. req' = [req EXCEPT ![q] = r]
      BY <1>4
    <2> HIDE DEF r
    <2> QED
      BY <1>2, <2>1, <2>3, <2>4
  <1>5. ASSUME NEW i \in Rows, NEW b \in Browsers,
               req' = [req EXCEPT ![q] = [Idle EXCEPT !.at = "submit", !.id = i,
                                                      !.link = cookie[b]]]
        PROVE  AccountsInv'
    <2> DEFINE c == cookie[b]  r == [Idle EXCEPT !.at = "submit", !.id = i, !.link = c]
    <2>1. i \in Ids /\ account[i] # NoAccount /\ i \in 0..MaxId /\ c \in 0..MaxLinks
      BY DEF Rows, Ids, ConstantsAssumption, AccountsInv, AccountsTyped
    <2> HIDE DEF c
    <2>2. r \in Request /\ r.at = "submit" /\ r.answer = 0 /\ r.id = i
      BY <2>1, IdleType DEF Request, Points
    <2>3. req' = [req EXCEPT ![q] = r]
      BY <1>5 DEF c
    <2> HIDE DEF r
    <2> QED
      BY <1>2, <2>1, <2>2, <2>3
  <1> QED
    BY <1>3, <1>4, <1>5 DEF Post

LEMMA RollbackSafe ==
    ASSUME ConstantsAssumption, AccountsInv, NEW q \in Requests, Rollback(q)
    PROVE  AccountsInv'
  BY QuietEnd DEF Rollback

LEMMA CheckKeySafe ==
    ASSUME ConstantsAssumption, AccountsInv, NEW q \in Requests, CheckKey(q)
    PROVE  AccountsInv'
  <1>1. /\ req[q].at = "activate" /\ UNCHANGED <<account, key, link, cookie, requests, history>>
        /\ req[q] \in Request /\ RequestOK(req[q], requests)
    BY DEF CheckKey, AccountsInv, AccountsTyped
  <1>2. CASE ~KeyMatches(req[q].id)
    BY <1>1, <1>2, QuietEnd DEF CheckKey
  <1>3. CASE KeyMatches(req[q].id)
    <2> DEFINE e == req[q].id \notin opened
               r == [req[q] EXCEPT !.at = "open", !.early = e]
    <2>1. e \in BOOLEAN /\ e
      BY <1>1, <1>3 DEF KeyMatches, RequestOK, OfAnAccount, AccountsInv, AccountOK
    <2>2. req' = [req EXCEPT ![q] = r]
      BY <1>3 DEF CheckKey
    <2> HIDE DEF e
    <2>3. /\ r \in Request /\ r.at = "open" /\ r.early = e /\ r.id = req[q].id
          /\ r.answer = req[q].answer
      BY <1>1, <2>1 DEF Request, Points
    <2> HIDE DEF r
    <2>4. RequestOK(r, requests')
      BY <1>1, <2>1, <2>3 DEF RequestOK, Inserting, OfAnAccount
    <2>5. ~Inserting(r)
      BY <2>3 DEF Inserting
    <2> QED
      BY <1>1, <2>2, <2>3, <2>4, <2>5, QuietStep
  <1> QED
    BY <1>2, <1>3

LEMMA AuthenticateSafe ==
    ASSUME ConstantsAssumption, AccountsInv, NEW q \in Requests, Authenticate(q)
    PROVE  AccountsInv'
  <1>1. /\ req[q].at \in OfAnAccount /\ UNCHANGED <<account, key, link, cookie, requests, history>>
    BY DEF Authenticate, OfAnAccount
  <1>2. CASE Goes(q, "find")
    BY <1>1, <1>2, QuietGo
  <1>3. CASE Ends(q, 400)
    BY <1>1, <1>3, QuietEnd
  <1> QED
    BY <1>2, <1>3 DEF Authenticate

LEMMA CheckLinkSafe ==
    ASSUME ConstantsAssumption, AccountsInv, NEW q \in Requests, CheckLink(q)
    PROVE  AccountsInv'
  <1>1. /\ req[q].at = "submit" /\ UNCHANGED <<account, key, link, cookie, requests, history>>
        /\ req[q] \in Request /\ RequestOK(req[q], requests)
    BY DEF CheckLink, AccountsInv, AccountsTyped
  <1>2. CASE Ends(q, 200)
    BY <1>1, <1>2, QuietEnd
  <1>3. ASSUME req[q].link # 0, checkToken(req[q].id, req[q].link), Goes(q, "reset")
        PROVE  AccountsInv'
    <2>1. PICK r \in Request :
             /\ req' = [req EXCEPT ![q] = r] /\ r.at = "reset" /\ r.id = req[q].id
             /\ r.link = req[q].link /\ r.email = req[q].email /\ r.answer = req[q].answer
      BY <1>3, GoesAs DEF Points
    <2>2. r.link \in Links /\ r.id \in Ids /\ account[r.id] \in Account
      BY <1>1, <1>3, <2>1
         DEF Links, Request, RequestOK, OfAnAccount, ConstantsAssumption, AccountsInv, AccountsTyped
    <2>3. account[r.id].password \in Nat
      BY <2>2 DEF Account
    <2>4. /\ link[r.link] # NoLink /\ link[r.link].id = r.id
          /\ link[r.link].password <= account[r.id].password
      BY <1>3, <2>1, <2>3 DEF checkToken
    <2>5. RequestOK(r, requests') /\ ~Inserting(r)
      BY <1>1, <2>1, <2>2, <2>4 DEF RequestOK, Inserting, OfAnAccount
    <2> QED
      BY <1>1, <2>1, <2>5, QuietStep
  <1> QED
    BY <1>2, <1>3 DEF CheckLink

-----------------------------------------------------------------------------
(* Creation *)

LEMMA InsertSafe ==
    ASSUME ConstantsAssumption, AccountsInv, NEW q \in Requests, Insert(q)
    PROVE  AccountsInv'
  <1> DEFINE taken == {req[r].id : r \in {s \in Requests : InTransaction(s)}}
             free == Ids \ (Rows \cup taken)  e == req[q].email
  <1>1. /\ req[q].at = "create" /\ UNCHANGED <<account, key, link, cookie, requests>>
        /\ UNCHANGED <<opened, answered, used>>
        /\ req[q] \in Request /\ RequestOK(req[q], requests)
    BY DEF Insert, AccountsInv, AccountsTyped
  <1>2. \A r \in Requests : Inserting(req[r]) => req[r].email # e
    BY DEF Insert, InTransaction, Inserting
  <1>3. CASE Ends(q, 409) /\ UNCHANGED invited
    BY <1>1, <1>3, QuietEnd DEF history
  <1>4. ASSUME \A i \in Rows : account[i].username # e, free # {},
               req' = [req EXCEPT ![q].at = "invite", ![q].id = Min(free)],
               invited' = invited \ {Min(free)}
        PROVE  AccountsInv'
    <2>1. PICK n \in free : n = Min(free)
      <3>1. free \in SUBSET Nat
        BY DEF Ids, ConstantsAssumption
      <3> QED
        BY <1>4, <3>1, MinOf
    <2>2. /\ n \in Ids /\ account[n] = NoAccount /\ n \in 0..MaxId
          /\ \A r \in Requests : Inserting(req[r]) => req[r].id # n
      BY DEF Rows, Ids, InTransaction, Inserting, ConstantsAssumption
    <2>3. \A i \in Ids : account[i] # NoAccount => account[i].username # e
      BY <1>4 DEF Rows
    <2> DEFINE r == [req[q] EXCEPT !.at = "invite", !.id = n]
    <2>4. req' = [req EXCEPT ![q] = r] /\ invited' = invited \ {n}
      BY <1>4, <2>1
    <2>5. /\ r \in Request /\ r.at = "invite" /\ r.id = n /\ r.email = e
          /\ r.answer = req[q].answer
      BY <1>1, <2>2 DEF Request, Points
    <2> HIDE DEF r, free, taken, e
    <2>6. req'[q] = r /\ \A s \in Requests \ {q} : req'[s] = req[s]
      BY <2>4 DEF AccountsInv, AccountsTyped
    <2>7. AccountsTyped'
      BY <1>1, <2>4, <2>5 DEF AccountsInv, AccountsTyped
    <2>8. \A i \in Ids : AccountOK(i)'
      BY <1>1, <2>2, <2>4 DEF AccountsInv, AccountOK
    <2>9. UsernamesDiffer' /\ \A l \in used' : UsedOK(l)'
      BY <1>1 DEF AccountsInv, UsernamesDiffer, UsedOK
    <2>10. ASSUME NEW s \in Requests PROVE RequestOK(req[s], requests)'
      <3>1. CASE s = q
        BY <1>1, <2>2, <2>3, <2>5, <2>6, <3>1 DEF RequestOK, Inserting, OfAnAccount
      <3>2. CASE s # q
        <4>1. req'[s] = req[s] /\ RequestOK(req[s], requests)
          BY <2>6, <3>2 DEF AccountsInv
        <4>2. req[s].at = "commit" => req[s].id # n
          BY <2>2 DEF Inserting
        <4> QED
          BY <1>1, <2>4, <4>1, <4>2 DEF RequestOK, Inserting
      <3> QED
        BY <3>1, <3>2
    <2>11. InsertsApart'
      <3>1. \A s \in Requests \ {q} : Inserting(req'[s]) => req'[s].id # n /\ req'[s].email # e
        BY <1>2, <2>2, <2>6
      <3> QED
        BY <2>5, <2>6, <3>1 DEF AccountsInv, InsertsApart
    <2> QED
      BY <2>7, <2>8, <2>9, <2>10, <2>11 DEF AccountsInv
  <1>5. CASE \E i \in Rows : account[i].username = e
    BY <1>3, <1>5 DEF Insert
  <1>6. CASE ~\E i \in Rows : account[i].username = e
    BY <1>4, <1>6 DEF Insert
  <1> QED
    BY <1>5, <1>6

LEMMA InviteSafe ==
    ASSUME ConstantsAssumption, AccountsInv, NEW q \in Requests, Invite(q)
    PROVE  AccountsInv'
  <1>1. /\ req[q].at = "invite" /\ UNCHANGED <<account, key, link, cookie, requests>>
        /\ UNCHANGED <<opened, answered, used>> /\ Inserting(req[q])
        /\ req[q] \in Request /\ RequestOK(req[q], requests)
    BY DEF Invite, AccountsInv, AccountsTyped, Inserting
  <1>2. CASE Goes(q, "rollback") /\ UNCHANGED invited
    BY <1>1, <1>2, QuietGo DEF history
  <1>3. CASE Goes(q, "commit") /\ invited' = invited \cup {req[q].id}
    <2>1. PICK r \in Request :
             /\ req' = [req EXCEPT ![q] = r] /\ r.at = "commit" /\ r.id = req[q].id
             /\ r.link = req[q].link /\ r.email = req[q].email /\ r.answer = req[q].answer
      BY <1>3, GoesAs DEF Points
    <2>2. req'[q] = r /\ \A s \in Requests \ {q} : req'[s] = req[s]
      BY <2>1 DEF AccountsInv, AccountsTyped
    <2>3. r.id \in Ids /\ invited' = invited \cup {r.id}
      BY <1>1, <1>3, <2>1 DEF RequestOK
    <2>4. AccountsTyped'
      BY <1>1, <2>1, <2>3 DEF AccountsInv, AccountsTyped
    <2>5. \A i \in Ids : AccountOK(i)'
      BY <1>1, <2>3 DEF AccountsInv, AccountOK
    <2>6. UsernamesDiffer' /\ \A l \in used' : UsedOK(l)'
      BY <1>1 DEF AccountsInv, UsernamesDiffer, UsedOK
    <2>7. ASSUME NEW s \in Requests PROVE RequestOK(req[s], requests)'
      <3>1. CASE s = q
        BY <1>1, <2>1, <2>2, <2>3, <3>1 DEF RequestOK, Inserting, OfAnAccount
      <3>2. CASE s # q
        <4>1. req'[s] = req[s] /\ RequestOK(req[s], requests)
          BY <2>2, <3>2 DEF AccountsInv
        <4> QED
          BY <1>1, <2>3, <4>1 DEF RequestOK, Inserting
      <3> QED
        BY <3>1, <3>2
    <2>8. InsertsApart'
      BY <1>1, <2>1, <2>2 DEF AccountsInv, InsertsApart, Inserting
    <2> QED
      BY <2>4, <2>5, <2>6, <2>7, <2>8 DEF AccountsInv
  <1> QED
    BY <1>2, <1>3 DEF Invite

\* A step after which every request stands still or has ended.
LEMMA TableStep ==
    ASSUME AccountsInv, AccountsTyped', Grows, Settled,
           \A i \in Ids : AccountOK(i)', UsernamesDiffer',
           \A l \in used' \ used : UsedOK(l)',
           \A s \in Requests : Inserting(req[s]) /\ req'[s] = req[s] =>
             /\ account'[req[s].id] = NoAccount
             /\ \A i \in Ids : account'[i] # NoAccount => account'[i].username # req[s].email
             /\ req[s].id \in invited => req[s].id \in invited'
    PROVE  AccountsInv'
  <1>1. (\A s \in Requests : RequestOK(req[s], requests)') /\ InsertsApart'
    BY SettledRequests
  <1>2. \A l \in used' : UsedOK(l)'
    BY UsedStay
  <1> QED
    BY <1>1, <1>2 DEF AccountsInv

LEMMA EndSettles ==
    ASSUME ConstantsAssumption, AccountsInv, NEW q \in Requests, NEW a \in Nat, a # 500, Ends(q, a)
    PROVE  Settled /\ \A s \in Requests : req'[s] = req[s] => s # q \/ req[q].at = "idle"
  <1>1. PICK r \in Request : req' = [req EXCEPT ![q] = r] /\ r.at = "idle" /\ r.answer = a
    BY EndsAs
  <1>2. req' \in [Requests -> Request]
    BY <1>1 DEF AccountsInv, AccountsTyped
  <1>3. req'[q] = r /\ \A s \in Requests \ {q} : req'[s] = req[s]
    BY <1>1 DEF AccountsInv, AccountsTyped
  <1> QED
    BY <1>1, <1>2, <1>3 DEF Settled

LEMMA CommitSafe ==
    ASSUME ConstantsAssumption, AccountsInv, NEW q \in Requests, Commit(q)
    PROVE  AccountsInv'
  <1>1. /\ req[q].at = "commit" /\ UNCHANGED <<key, link, cookie, requests, history>>
        /\ Inserting(req[q]) /\ req[q] \in Request /\ RequestOK(req[q], requests)
    BY DEF Commit, AccountsInv, AccountsTyped, Inserting
  <1>2. CASE Goes(q, "rollback") /\ UNCHANGED account
    BY <1>1, <1>2, QuietGo
  <1>3. CASE account' = [account EXCEPT ![req[q].id] = NewAccount(req[q].email)] /\ Ends(q, 201)
    <2>1. PICK i \in Ids, e \in Emails : i = req[q].id /\ e = req[q].email
      BY <1>1 DEF RequestOK, Request
    <2>2. PICK a \in Account : /\ a = NewAccount(e) /\ a.password = 1 /\ a.username = e
                               /\ ~a.active /\ a # NoAccount
      BY NoAccountType
    <2>3. /\ account[i] = NoAccount /\ i \in invited
          /\ \A j \in Ids : account[j] # NoAccount => account[j].username # e
      BY <1>1, <2>1 DEF RequestOK
    <2>4. account' = [account EXCEPT ![i] = a]
      BY <1>3, <2>1, <2>2
    <2>5. account'[i] = a /\ \A j \in Ids \ {i} : account'[j] = account[j]
      BY <2>4 DEF AccountsInv, AccountsTyped
    <2>6. Settled /\ \A s \in Requests : req'[s] = req[s] => s # q
      BY <1>1, <1>3, EndSettles
    <2>7. AccountsTyped'
      BY <1>1, <2>4, <2>6 DEF AccountsInv, AccountsTyped, Settled, history
    <2>8. \A j \in Ids : account[j].password <= account'[j].password
      <3>1. account[i].password = 0 /\ account'[i].password = 1
        BY <2>2, <2>3, <2>5, NoAccountType
      <3>2. \A j \in Ids : account[j].password \in Nat
        BY DEF AccountsInv, AccountsTyped, Account
      <3> QED
        BY <2>5, <3>1, <3>2
    <2>9. Grows
      BY <1>1, <2>3, <2>5, <2>8 DEF Grows, AccountsInv, AccountsTyped
    <2>10. ASSUME NEW j \in Ids PROVE AccountOK(j)'
      <3>1. AccountOK(j)
        BY DEF AccountsInv
      <3>2. CASE j = i
        BY <1>1, <2>2, <2>3, <2>5, <3>1, <3>2 DEF AccountOK, history
      <3>3. CASE j # i
        BY <1>1, <2>5, <3>1, <3>3 DEF AccountOK, history
      <3> QED
        BY <3>2, <3>3
    <2>11. UsernamesDiffer'
      BY <2>2, <2>3, <2>5 DEF AccountsInv, UsernamesDiffer
    <2>12. \A s \in Requests : Inserting(req[s]) /\ req'[s] = req[s] =>
             /\ account'[req[s].id] = NoAccount
             /\ \A j \in Ids : account'[j] # NoAccount => account'[j].username # req[s].email
             /\ req[s].id \in invited => req[s].id \in invited'
      <3> SUFFICES ASSUME NEW s \in Requests, Inserting(req[s]), req'[s] = req[s]
                   PROVE  /\ account'[req[s].id] = NoAccount
                          /\ \A j \in Ids : account'[j] # NoAccount =>
                                account'[j].username # req[s].email
                          /\ req[s].id \in invited => req[s].id \in invited'
        OBVIOUS
      <3>1. s # q /\ req[s].id # i /\ req[s].email # e
        BY <1>1, <2>1, <2>6 DEF AccountsInv, InsertsApart
      <3>2. /\ req[s].id \in Ids /\ account[req[s].id] = NoAccount
            /\ \A j \in Ids : account[j] # NoAccount => account[j].username # req[s].email
        BY DEF AccountsInv, RequestOK
      <3> QED
        BY <1>1, <2>2, <2>5, <3>1, <3>2 DEF history
    <2> QED
      BY <1>1, <2>6, <2>7, <2>9, <2>10, <2>11, <2>12, TableStep DEF history
  <1> QED
    BY <1>2, <1>3 DEF Commit

-----------------------------------------------------------------------------
(* Rows that change *)

\* A row that keeps its username and does not get an earlier password.
LEMMA RowStep ==
    ASSUME ConstantsAssumption, AccountsInv, Settled, NEW i \in Ids, account[i] # NoAccount,
           NEW a \in Account, account' = [account EXCEPT ![i] = a],
           a.username = account[i].username, account[i].password <= a.password,
           a.password # 0, opened' \in {opened, opened \cup {i}},
           a.active => i \in opened', i \in opened' => ~a.pending,
           UNCHANGED <<key, link, cookie, invited, answered>>,
           requests' \in {requests, requests + 1},
           used' \subseteq Links,
           \A l \in used' \ used : /\ link[l] # NoLink /\ link[l].id = i
                                   /\ link[l].password < a.password
    PROVE  AccountsInv'
  <1>1. account'[i] = a /\ \A j \in Ids \ {i} : account'[j] = account[j]
    BY DEF AccountsInv, AccountsTyped
  <1>2. a # NoAccount
    BY NoAccountType
  <1>3. AccountsTyped'
    BY DEF AccountsInv, AccountsTyped, Settled
  <1>4. Grows
    <2>1. \A j \in Ids : account[j].password \in Nat
      BY DEF AccountsInv, AccountsTyped, Account
    <2>2. \A j \in Ids : account[j].password <= account'[j].password
      BY <1>1, <2>1
    <2>3. requests' >= requests
      BY DEF AccountsInv, AccountsTyped
    <2> QED
      BY <1>1, <1>2, <2>2, <2>3 DEF Grows
  <1>5. ASSUME NEW j \in Ids PROVE AccountOK(j)'
    <2>1. AccountOK(j)
      BY DEF AccountsInv
    <2>2. CASE j = i
      BY <1>1, <1>2, <2>1, <2>2 DEF AccountOK
    <2>3. CASE j # i
      BY <1>1, <2>1, <2>3 DEF AccountOK
    <2> QED
      BY <2>2, <2>3
  <1>6. UsernamesDiffer'
    BY <1>1 DEF AccountsInv, UsernamesDiffer
  <1>7. \A l \in used' \ used : UsedOK(l)'
    BY <1>1 DEF UsedOK
  <1>8. \A s \in Requests : Inserting(req[s]) /\ req'[s] = req[s] =>
             /\ account'[req[s].id] = NoAccount
             /\ \A j \in Ids : account'[j] # NoAccount => account'[j].username # req[s].email
             /\ req[s].id \in invited => req[s].id \in invited'
    BY <1>1 DEF AccountsInv, RequestOK
  <1> QED
    BY <1>3, <1>4, <1>5, <1>6, <1>7, <1>8, TableStep

LEMMA OpenSafe ==
    ASSUME ConstantsAssumption, AccountsInv, NEW q \in Requests, Open(q)
    PROVE  AccountsInv'
  <1>1. /\ req[q] \in Request /\ RequestOK(req[q], requests) /\ req[q].at = "open"
        /\ opened' = opened \cup {req[q].id} /\ Ends(q, 200)
        /\ UNCHANGED <<key, link, cookie, requests, invited, answered, used>>
    BY DEF Open, AccountsInv, AccountsTyped
  <1>2. PICK i \in Ids : i = req[q].id /\ account[i] # NoAccount
    BY <1>1 DEF RequestOK, OfAnAccount
  <1>3. account[i] \in Account /\ account[i].password \in Nat /\ req[q].usable \in BOOLEAN
    BY <1>1 DEF AccountsInv, AccountsTyped, Account, Request
  <1> DEFINE n == account[i].password + 1  u == req[q].usable
             a == [account[i] EXCEPT !.password = n, !.usable = u, !.active = TRUE,
                                     !.pending = FALSE]
  <1>4. account' = [account EXCEPT ![i] = a]
    BY <1>2 DEF Open
  <1>5. n \in Nat /\ n # 0 /\ account[i].password <= n /\ u \in BOOLEAN
    BY <1>3
  <1> HIDE DEF n, u
  <1>6. /\ a \in Account /\ a.username = account[i].username /\ a.password = n
        /\ ~a.pending
    BY <1>3, <1>5 DEF Account
  <1> HIDE DEF a
  <1>7. Settled /\ used' \subseteq Links /\ used' \ used = {}
    BY <1>1, EndSettles DEF AccountsInv, AccountsTyped
  <1> QED
    BY <1>1, <1>2, <1>4, <1>5, <1>6, <1>7, RowStep

LEMMA SetPasswordSafe ==
    ASSUME ConstantsAssumption, AccountsInv, NEW q \in Requests, SetPassword(q)
    PROVE  AccountsInv'
  <1>1. /\ req[q] \in Request /\ RequestOK(req[q], requests) /\ req[q].at = "reset"
        /\ UNCHANGED <<key, link, cookie, requests, invited, opened, answered>>
    BY DEF SetPassword, AccountsInv, AccountsTyped
  <1>2. CASE Ends(q, 200) /\ UNCHANGED <<account, used>>
    BY <1>1, <1>2, QuietEnd DEF history
  <1>3. ASSUME account' = [account EXCEPT ![req[q].id] =
                              [account[req[q].id] EXCEPT
                                   !.password = account[req[q].id].password + 1, !.usable = TRUE]],
               used' = used \cup {req[q].link}, Ends(q, 302)
        PROVE  AccountsInv'
    <2>1. PICK i \in Ids : i = req[q].id /\ account[i] # NoAccount
      BY <1>1 DEF RequestOK, OfAnAccount
    <2>2. account[i] \in Account /\ account[i].password \in Nat
      BY DEF AccountsInv, AccountsTyped, Account
    <2>3. PICK l \in Links : /\ l = req[q].link /\ link[l] # NoLink /\ link[l].id = i
                             /\ link[l].password <= account[i].password
      BY <1>1, <2>1 DEF RequestOK
    <2>4. link[l].password \in Nat
      BY DEF AccountsInv, AccountsTyped, Link
    <2> DEFINE n == account[i].password + 1
               a == [account[i] EXCEPT !.password = n, !.usable = TRUE]
    <2>5. account' = [account EXCEPT ![i] = a]
      BY <1>3, <2>1
    <2>6. /\ n \in Nat /\ n # 0 /\ account[i].password <= n /\ link[l].password < n
      BY <2>2, <2>3, <2>4
    <2> HIDE DEF n
    <2>7. /\ a \in Account /\ a.username = account[i].username /\ a.password = n
          /\ a.active = account[i].active /\ a.pending = account[i].pending
      BY <2>2, <2>6 DEF Account
    <2> HIDE DEF a
    <2>8. (a.active => i \in opened') /\ (i \in opened' => ~a.pending) /\ opened' = opened
      BY <1>1, <2>1, <2>7 DEF AccountsInv, AccountOK
    <2>9. /\ Settled /\ used' \subseteq Links
          /\ \A k \in used' \ used : k = l
      BY <1>3, <2>3, EndSettles DEF AccountsInv, AccountsTyped
    <2> QED
      BY <1>1, <2>1, <2>3, <2>5, <2>6, <2>7, <2>8, <2>9, RowStep
  <1> QED
    BY <1>2, <1>3 DEF SetPassword

LEMMA AdminSafe ==
    ASSUME ConstantsAssumption, AccountsInv, NEW i \in Ids,
           Deactivate(i) \/ \E e \in Emails : SetEmail(i, e)
    PROVE  AccountsInv'
  <1>1. /\ account[i] # NoAccount /\ requests' = requests + 1
        /\ UNCHANGED <<key, link, cookie, req, history>>
    BY DEF Deactivate, SetEmail, Rows
  <1>2. Settled /\ used' \subseteq Links /\ used' \ used = {}
    BY <1>1 DEF Settled, AccountsInv, AccountsTyped, history
  <1>3. account[i] \in Account /\ AccountOK(i) /\ account[i].password \in Nat
    BY DEF AccountsInv, AccountsTyped, Account
  <1>4. PICK a \in Account :
          /\ account' = [account EXCEPT ![i] = a] /\ a.username = account[i].username
          /\ a.password = account[i].password /\ a.pending = account[i].pending
          /\ a.active => account[i].active
    <2>1. CASE Deactivate(i)
      <3> DEFINE a == [account[i] EXCEPT !.active = FALSE]
      <3>1. /\ a \in Account /\ a.username = account[i].username /\ ~a.active
            /\ a.password = account[i].password /\ a.pending = account[i].pending
        BY <1>3 DEF Account
      <3>2. account' = [account EXCEPT ![i] = a]
        BY <2>1 DEF Deactivate
      <3> HIDE DEF a
      <3> QED
        BY <3>1, <3>2
    <2>2. ASSUME NEW e \in Emails, SetEmail(i, e)
          PROVE  \E a \in Account :
                   /\ account' = [account EXCEPT ![i] = a] /\ a.username = account[i].username
                   /\ a.password = account[i].password /\ a.pending = account[i].pending
                   /\ a.active => account[i].active
      <3> DEFINE a == [account[i] EXCEPT !.email = e]
      <3>1. /\ a \in Account /\ a.username = account[i].username /\ a.active = account[i].active
            /\ a.password = account[i].password /\ a.pending = account[i].pending
        BY <1>3 DEF Account
      <3>2. account' = [account EXCEPT ![i] = a]
        BY <2>2 DEF SetEmail
      <3> HIDE DEF a
      <3> QED
        BY <3>1, <3>2
    <2> QED
      BY <2>1, <2>2
  <1>5. /\ a.password # 0 /\ account[i].password <= a.password /\ opened' = opened
        /\ a.active => i \in opened'
        /\ i \in opened' => ~a.pending
    BY <1>1, <1>3, <1>4 DEF AccountOK, history
  <1> QED
    BY <1>1, <1>2, <1>4, <1>5, RowStep DEF history

-----------------------------------------------------------------------------
(* Keys *)

\* A login that is answered with the key that is stored, or stores the first one.
LEMMA AnswerSafe ==
    ASSUME ConstantsAssumption, AccountsInv, NEW q \in Requests, NEW k \in Nat \ {0},
           req[q].at \in OfAnAccount, Answer(q, k),
           \/ UNCHANGED key /\ key[req[q].id] = k
           \/ key[req[q].id] = 0 /\ key' = [key EXCEPT ![req[q].id] = k],
           UNCHANGED <<account, link, cookie, requests>>
    PROVE  AccountsInv'
  <1>1. RequestOK(req[q], requests)
    BY DEF AccountsInv
  <1>2. PICK i \in Ids : i = req[q].id /\ account[i] # NoAccount
    BY <1>1 DEF RequestOK
  <1>3. /\ answered' = [answered EXCEPT ![i] = @ \cup {k}] /\ Ends(q, 200)
        /\ UNCHANGED <<invited, opened, used>>
    BY <1>2 DEF Answer
  <1>4. /\ key' \in [Ids -> Nat] /\ key'[i] = k /\ \A j \in Ids \ {i} : key'[j] = key[j]
        /\ key[i] \in {0, k}
    BY <1>2 DEF AccountsInv, AccountsTyped
  <1>5. /\ answered' \in [Ids -> SUBSET Nat] /\ answered'[i] = answered[i] \cup {k}
        /\ \A j \in Ids \ {i} : answered'[j] = answered[j]
    BY <1>3 DEF AccountsInv, AccountsTyped
  <1>6. Settled
    BY <1>3, EndSettles
  <1>7. AccountsTyped'
    BY <1>3, <1>4, <1>5, <1>6 DEF AccountsInv, AccountsTyped, Settled
  <1>8. ASSUME NEW j \in Ids PROVE AccountOK(j)'
    <2>1. AccountOK(j)
      BY DEF AccountsInv
    <2>2. CASE j = i
      BY <1>2, <1>3, <1>4, <1>5, <2>1, <2>2 DEF AccountOK
    <2>3. CASE j # i
      BY <1>3, <1>4, <1>5, <2>1, <2>3 DEF AccountOK
    <2> QED
      BY <2>2, <2>3
  <1>9. Grows /\ UsernamesDiffer'
    BY DEF Grows, AccountsInv, AccountsTyped, UsernamesDiffer, Account
  <1>10. \A s \in Requests : Inserting(req[s]) /\ req'[s] = req[s] =>
             /\ account'[req[s].id] = NoAccount
             /\ \A j \in Ids : account'[j] # NoAccount => account'[j].username # req[s].email
             /\ req[s].id \in invited => req[s].id \in invited'
    BY <1>3 DEF AccountsInv, RequestOK
  <1> QED
    BY <1>3, <1>6, <1>7, <1>8, <1>9, <1>10, TableStep

LEMMA FindTokenSafe ==
    ASSUME ConstantsAssumption, AccountsInv, NEW q \in Requests, FindToken(q)
    PROVE  AccountsInv'
  <1>1. req[q].at \in OfAnAccount /\ UNCHANGED <<account, key, link, cookie, requests>>
    BY DEF FindToken, OfAnAccount
  <1>2. req[q].id \in Ids /\ key[req[q].id] \in Nat
    BY <1>1 DEF AccountsInv, AccountsTyped, RequestOK
  <1>3. CASE key[req[q].id] # 0
    <2>1. PICK k \in Nat \ {0} : k = key[req[q].id]
      BY <1>2, <1>3
    <2>2. Answer(q, k)
      BY <1>3, <2>1 DEF FindToken
    <2> QED
      BY <1>1, <2>1, <2>2, AnswerSafe
  <1>4. CASE key[req[q].id] = 0
    BY <1>1, <1>4, QuietGo DEF FindToken
  <1> QED
    BY <1>3, <1>4

LEMMA IssueTokenSafe ==
    ASSUME ConstantsAssumption, AccountsInv, NEW q \in Requests, IssueToken(q)
    PROVE  AccountsInv'
  <1>1. req[q].at \in OfAnAccount /\ UNCHANGED <<account, link, cookie, requests>>
    BY DEF IssueToken, OfAnAccount
  <1>2. CASE key[req[q].id] = 0
    <2>1. PICK k \in Nat \ {0} : k = requests
      BY DEF IssueToken, AccountsInv, AccountsTyped, RequestOK
    <2>2. Answer(q, k) /\ key' = [key EXCEPT ![req[q].id] = k]
      BY <1>2, <2>1 DEF IssueToken
    <2> QED
      BY <1>1, <1>2, <2>1, <2>2, AnswerSafe
  <1>3. CASE key[req[q].id] # 0
    BY <1>1, <1>3, QuietGo DEF IssueToken
  <1> QED
    BY <1>2, <1>3

-----------------------------------------------------------------------------
(* Links *)

\* A link that is made, or one that is older than it was.
LEMMA LinkStep ==
    ASSUME AccountsInv, Settled, link' \in [Links -> Link], cookie' \in [Browsers -> 0..MaxLinks],
           \A l \in Links : link[l] # NoLink =>
             link'[l] # NoLink /\ link'[l].id = link[l].id /\ link'[l].password = link[l].password,
           UNCHANGED <<account, key, requests, history>>
    PROVE  AccountsInv'
  <1> USE DEF history
  <1>1. AccountsTyped'
    BY DEF AccountsInv, AccountsTyped, Settled
  <1>2. Grows /\ UsernamesDiffer'
    BY DEF Grows, AccountsInv, AccountsTyped, UsernamesDiffer, Account
  <1>3. \A i \in Ids : AccountOK(i)'
    BY DEF AccountsInv, AccountOK
  <1>4. \A s \in Requests : Inserting(req[s]) /\ req'[s] = req[s] =>
             /\ account'[req[s].id] = NoAccount
             /\ \A j \in Ids : account'[j] # NoAccount => account'[j].username # req[s].email
             /\ req[s].id \in invited => req[s].id \in invited'
    BY DEF AccountsInv, RequestOK
  <1> QED
    BY <1>1, <1>2, <1>3, <1>4, TableStep

\* Whoever an address finds has an account.
LEMMA FoundIsARow ==
    ASSUME ConstantsAssumption, NEW e, getUserByEmail(e) # NO_USER
    PROVE  getUserByEmail(e) \in Rows /\ account[getUserByEmail(e)].email = e
  <1> DEFINE matches == {i \in Rows : account[i].email = e}
             canonical == {i \in matches : account[i].username = e}
  <1>1. matches \in SUBSET Nat /\ canonical \in SUBSET Nat /\ canonical \subseteq matches
    BY DEF Rows, Ids, ConstantsAssumption
  <1>2. matches # {}
    BY DEF getUserByEmail
  <1>3. getUserByEmail(e) = IF Cardinality(matches) > 1 /\ canonical # {}
                            THEN Min(canonical) ELSE Min(matches)
    BY <1>2 DEF getUserByEmail
  <1>4. \A i \in matches : i \in Rows /\ account[i].email = e
    OBVIOUS
  <1> HIDE DEF matches, canonical
  <1>5. getUserByEmail(e) \in matches
    <2>1. CASE Cardinality(matches) > 1 /\ canonical # {}
      BY <1>1, <1>3, <2>1, MinOf
    <2>2. CASE ~(Cardinality(matches) > 1 /\ canonical # {})
      BY <1>1, <1>2, <1>3, <2>2, MinOf
    <2> QED
      BY <2>1, <2>2
  <1> QED
    BY <1>4, <1>5

LEMMA ForgotSafe ==
    ASSUME ConstantsAssumption, AccountsInv, NEW q \in Requests, Forgot(q)
    PROVE  AccountsInv'
  <1> DEFINE user == getUserByEmail(req[q].email)  free == {l \in Links : link[l] = NoLink}
  <1>1. Ends(q, 302) /\ UNCHANGED <<account, key, cookie, requests, history>>
    BY DEF Forgot
  <1>2. CASE UNCHANGED link
    BY <1>1, <1>2, QuietEnd
  <1>3. ASSUME user # NO_USER, free # {},
               link' = [link EXCEPT ![Min(free)] =
                            [NoLink EXCEPT !.id = user, !.password = account[user].password]]
        PROVE  AccountsInv'
    <2>1. PICK l \in Links : l = Min(free) /\ link[l] = NoLink
      <3>1. free \in SUBSET Nat
        BY DEF Links, ConstantsAssumption
      <3> QED
        BY <1>3, <3>1, MinOf
    <2>2. user \in Ids /\ user \in 0..MaxId
      BY <1>3, FoundIsARow DEF Rows, Ids, ConstantsAssumption
    <2> DEFINE n == account[user].password
               x == [NoLink EXCEPT !.id = user, !.password = n]
    <2>3. n \in Nat
      BY <2>2 DEF AccountsInv, AccountsTyped, Account
    <2>4. link' = [link EXCEPT ![l] = x]
      BY <1>3, <2>1
    <2> HIDE DEF user, n
    <2>5. x \in Link
      BY <2>2, <2>3, NoLinkType DEF Link
    <2> HIDE DEF x, free
    <2>6. link' \in [Links -> Link] /\ \A k \in Links \ {l} : link'[k] = link[k]
      BY <2>4, <2>5 DEF AccountsInv, AccountsTyped
    <2>7. Settled /\ cookie' \in [Browsers -> 0..MaxLinks]
      BY <1>1, EndSettles DEF AccountsInv, AccountsTyped
    <2> QED
      BY <1>1, <2>1, <2>6, <2>7, LinkStep
  <1> QED
    BY <1>2, <1>3 DEF Forgot

LEMMA ExpireSafe ==
    ASSUME ConstantsAssumption, AccountsInv, NEW l \in Links, Expire(l)
    PROVE  AccountsInv'
  <1> DEFINE x == [link[l] EXCEPT !.expired = TRUE]
  <1>1. link[l] \in Link /\ link[l] # NoLink
    BY DEF Expire, AccountsInv, AccountsTyped
  <1>2. /\ x \in Link /\ x.id = link[l].id /\ x.password = link[l].password /\ x.expired = TRUE
    BY <1>1 DEF Link
  <1>3. link' = [link EXCEPT ![l] = x] /\ UNCHANGED <<account, key, cookie, req, requests, history>>
    BY DEF Expire
  <1> HIDE DEF x
  <1>4. x # NoLink
    BY <1>2 DEF NoLink
  <1>5. /\ link' \in [Links -> Link] /\ link'[l] = x
        /\ \A k \in Links \ {l} : link'[k] = link[k]
    BY <1>2, <1>3 DEF AccountsInv, AccountsTyped
  <1>6. Settled /\ cookie' \in [Browsers -> 0..MaxLinks]
    BY <1>3 DEF Settled, AccountsInv, AccountsTyped
  <1> QED
    BY <1>1, <1>2, <1>3, <1>4, <1>5, <1>6, LinkStep

LEMMA FollowSafe ==
    ASSUME ConstantsAssumption, AccountsInv, NEW l \in Links, NEW b \in Browsers, Follow(b, l)
    PROVE  AccountsInv'
  <1>1. UNCHANGED <<account, key, link, req, requests, history>>
    BY DEF Follow
  <1>2. cookie' \in [Browsers -> 0..MaxLinks] /\ link' \in [Links -> Link] /\ Settled
    BY DEF Follow, Links, ConstantsAssumption, AccountsInv, AccountsTyped, Settled
  <1> QED
    BY <1>1, <1>2, LinkStep

-----------------------------------------------------------------------------
LEMMA AccountsStutter == ASSUME AccountsInv, UNCHANGED vars  PROVE AccountsInv'
  <1>1. /\ Settled /\ UNCHANGED <<account, key, link, cookie, requests, history>>
    BY DEF vars, history, Settled, AccountsInv, AccountsTyped
  <1>2. cookie' \in [Browsers -> 0..MaxLinks] /\ link' \in [Links -> Link]
    BY <1>1 DEF AccountsInv, AccountsTyped
  <1> QED
    BY <1>1, <1>2, LinkStep

LEMMA NextAccountsInv == ASSUME ConstantsAssumption, AccountsInv, [Next]_vars  PROVE AccountsInv'
  <1>1. ASSUME NEW q \in Requests, Post(q) \/ Step(q) PROVE AccountsInv'
    BY <1>1, PostSafe, InsertSafe, InviteSafe, CommitSafe, RollbackSafe, CheckKeySafe, OpenSafe,
       AuthenticateSafe, FindTokenSafe, IssueTokenSafe, ForgotSafe, CheckLinkSafe, SetPasswordSafe
       DEF Step
  <1> QED
    BY <1>1, AdminSafe, ExpireSafe, FollowSafe, AccountsStutter DEF Next

LEMMA AccountsTypesHold == ASSUME AccountsInv  PROVE TypeOK
  <1>1. \A i \in Ids : i \in Rows <=> account[i] # NoAccount
    BY DEF Rows
  <1>2. Rows \subseteq Ids /\ opened \subseteq Rows
    BY DEF AccountsInv, AccountsTyped, AccountOK, Rows
  <1>3. \A i \in Rows : account[i].password \in Nat \ {0} /\ (account[i].active => i \in opened)
    BY <1>1, <1>2 DEF AccountsInv, AccountsTyped, AccountOK, Account
  <1>4. \A i, j \in Rows : account[i].username = account[j].username => i = j
    BY <1>1, <1>2 DEF AccountsInv, UsernamesDiffer
  <1>5. key \in [Ids -> Nat] /\ \A i \in Ids : key[i] # 0 => i \in Rows
    BY <1>1 DEF AccountsInv, AccountsTyped, AccountOK
  <1>6. /\ link \in [Links -> [id : 0..MaxId, password : Nat, expired : BOOLEAN]]
        /\ cookie \in [Browsers -> 0..MaxLinks]
        /\ invited \subseteq Ids /\ used \subseteq Links
        /\ \A i \in Ids : answered[i] \subseteq Nat
    BY DEF AccountsInv, AccountsTyped, Link
  <1> QED
    BY <1>2, <1>3, <1>4, <1>5, <1>6 DEF TypeOK

LEMMA LoginsAreSafe ==
    ASSUME AccountsInv  PROVE InvitedOrOpened /\ OneKeyPerUser /\ LoginNeverFails
  BY DEF AccountsInv, AccountOK, RequestOK, Rows, InvitedOrOpened, OneKeyPerUser, LoginNeverFails

LEMMA LinksBind == ASSUME AccountsInv  PROVE LinkBindsAccount
  BY DEF AccountsInv, RequestOK, LinkBindsAccount

\* A set with two members has more than one.
LEMMA TwoAreMore ==
    ASSUME NEW S, IsFiniteSet(S), NEW x \in S, NEW y \in S, x # y
    PROVE  Cardinality(S) > 1
  <1>1. IsFiniteSet({x}) /\ Cardinality({x}) = 1
    BY FS_Singleton
  <1> DEFINE T == {x} \cup {y}
  <1>2. IsFiniteSet(T) /\ Cardinality(T) = 2
    <2>1. y \notin {x}
      OBVIOUS
    <2> QED
      BY <1>1, <2>1, FS_AddElement
  <1>3. T \subseteq S
    OBVIOUS
  <1> HIDE DEF T
  <1>4. Cardinality(T) <= Cardinality(S) /\ Cardinality(S) \in Nat
    BY <1>3, FS_Subset, FS_CardinalityType
  <1> QED
    BY <1>2, <1>4

LEMMA AddressesReset == ASSUME ConstantsAssumption, AccountsInv  PROVE EveryAddressResets
  <1> SUFFICES ASSUME NEW i \in Rows, NEW e, e = account[i].email
               PROVE  /\ getUserByEmail(e) # NO_USER
                      /\ account[i].username = e => getUserByEmail(e) = i
    BY DEF EveryAddressResets
  <1> DEFINE matches == {j \in Rows : account[j].email = e}
             canonical == {j \in matches : account[j].username = e}
  <1>1. /\ i \in matches /\ matches \in SUBSET Nat /\ canonical \in SUBSET Nat
        /\ canonical \subseteq matches /\ 0 \notin matches
    BY DEF Rows, Ids, ConstantsAssumption
  <1>2. IsFiniteSet(matches)
    <2>1. IsFiniteSet(Ids) /\ matches \subseteq Ids
      BY FS_Interval DEF ConstantsAssumption, Ids, Rows
    <2> QED
      BY <2>1, FS_Subset
  <1>3. getUserByEmail(e) = IF Cardinality(matches) > 1 /\ canonical # {}
                            THEN Min(canonical) ELSE Min(matches)
    BY <1>1 DEF getUserByEmail
  <1>4. account[i].username = e => canonical = {i}
    BY <1>1 DEF AccountsInv, UsernamesDiffer, Rows
  <1> HIDE DEF matches, canonical
  <1>5. getUserByEmail(e) # NO_USER
    <2>1. canonical # {} => Min(canonical) \in matches
      BY <1>1, MinOf
    <2>2. Min(matches) \in matches
      BY <1>1, MinOf
    <2> QED
      BY <1>1, <1>3, <2>1, <2>2 DEF NO_USER
  <1>6. ASSUME account[i].username = e PROVE getUserByEmail(e) = i
    <2>1. canonical = {i} /\ Min(canonical) = i
      <3>1. canonical = {i}
        BY <1>4, <1>6
      <3>2. Min(canonical) \in canonical
        BY <1>1, <3>1, MinOf
      <3> QED
        BY <3>1, <3>2
    <2>2. CASE Cardinality(matches) > 1
      BY <1>3, <2>1, <2>2
    <2>3. CASE ~(Cardinality(matches) > 1)
      <3>1. \A j \in matches : j = i
        BY <1>1, <1>2, <2>3, TwoAreMore
      <3>2. Min(matches) \in matches
        BY <1>1, MinOf
      <3> QED
        BY <1>3, <2>3, <3>1, <3>2
    <2> QED
      BY <2>2, <2>3
  <1> QED
    BY <1>5, <1>6

\* The only step to "reset" is that of the check, which compares the hash of
\* the link with the account as it is.
LEMMA UsedAreRefused ==
    ASSUME ConstantsAssumption, AccountsInv, [Next]_vars
    PROVE  UsedLinkIsRefused
  <1> SUFFICES ASSUME NEW q \in Requests, req[q].at = "submit", req'[q].at = "reset"
               PROVE  req[q].link \notin used
    BY DEF UsedLinkIsRefused
  <1>1. \A s \in Requests : \A at : Goes(s, at) /\ at # "reset" => s # q
    BY DEF Goes, AccountsInv, AccountsTyped
  <1>2. ASSUME NEW s \in Requests, NEW r \in Request, req' = [req EXCEPT ![s] = r],
               s # q \/ r.at # "reset"
        PROVE  FALSE
    BY <1>2 DEF AccountsInv, AccountsTyped
  <1>3. ASSUME NEW s \in Requests, NEW a \in Nat PROVE ~Ends(s, a)
    BY <1>2, EndsAs
  <1>4. ASSUME NEW s \in Requests, NEW at \in Points, at # "reset" PROVE ~Goes(s, at)
    BY <1>2, <1>4, GoesAs
  <1>5. req' # req
    OBVIOUS
  <1>6. \A s \in Requests : ~Post(s)
    <2> SUFFICES ASSUME NEW s \in Requests, Post(s) PROVE FALSE
      OBVIOUS
    <2>1. s # q /\ \E r : req' = [req EXCEPT ![s] = r]
      BY DEF Post
    <2> QED
      BY <2>1 DEF AccountsInv, AccountsTyped
  <1>7. \A s \in Requests : ~Insert(s) /\ ~CheckKey(s)
    <2> SUFFICES ASSUME NEW s \in Requests, Insert(s) \/ CheckKey(s) PROVE FALSE
      OBVIOUS
    <2>1. s # q
      BY DEF Insert, CheckKey
    <2> QED
      BY <1>3, <2>1 DEF Insert, CheckKey, AccountsInv, AccountsTyped
  <1>8. PICK s \in Requests : CheckLink(s) /\ Goes(s, "reset")
    <2>1. \A s \in Requests : ~Invite(s)
      BY <1>4 DEF Invite, Points
    <2>2. \A s \in Requests : ~Commit(s) /\ ~Rollback(s)
      BY <1>3, <1>4 DEF Commit, Rollback, Points
    <2>3. \A s \in Requests : ~Open(s) /\ ~Forgot(s) /\ ~SetPassword(s)
      BY <1>3 DEF Open, Forgot, SetPassword
    <2>4. \A s \in Requests : ~Authenticate(s)
      BY <1>3, <1>4 DEF Authenticate, Points
    <2>5. \A s \in Requests : ~FindToken(s) /\ ~IssueToken(s)
      BY <1>3, <1>4 DEF FindToken, IssueToken, Answer, Points
    <2>6. \A s \in Requests : CheckLink(s) => Goes(s, "reset")
      BY <1>3 DEF CheckLink
    <2>7. ~UNCHANGED vars
      BY <1>5 DEF vars
    <2>8. ASSUME NEW i \in Ids, Deactivate(i) \/ \E e \in Emails : SetEmail(i, e) PROVE FALSE
      BY <1>5, <2>8 DEF Deactivate, SetEmail
    <2>9. ASSUME NEW l \in Links, Expire(l) \/ \E b \in Browsers : Follow(b, l) PROVE FALSE
      BY <1>5, <2>9 DEF Expire, Follow
    <2>10. \E s \in Requests : Step(s)
      BY <1>6, <2>7, <2>8, <2>9 DEF Next
    <2> QED
      BY <1>7, <2>1, <2>2, <2>3, <2>4, <2>5, <2>6, <2>10 DEF Step
  <1>9. s = q /\ checkToken(req[q].id, req[q].link)
    BY <1>3, <1>8 DEF Goes, CheckLink, AccountsInv, AccountsTyped
  <1>10. ASSUME req[q].link \in used PROVE FALSE
    <2> DEFINE l == req[q].link  i == link[l].id
    <2>1. UsedOK(l) /\ l \in Links
      BY <1>10 DEF AccountsInv, AccountsTyped
    <2>2. /\ i \in Ids /\ link[l].password < account[i].password
          /\ link[l].password = account[i].password
      BY <1>9, <2>1 DEF checkToken, UsedOK
    <2>3. account[i].password \in Nat
      BY <2>2 DEF AccountsInv, AccountsTyped, Account
    <2> HIDE DEF l, i
    <2> QED
      BY <2>2, <2>3
  <1> QED
    BY <1>10

\* Only an activation makes an account active, and it had its key checked
\* when the account had not been opened.
LEMMA DeactivatedStay ==
    ASSUME ConstantsAssumption, AccountsInv, [Next]_vars
    PROVE  StaysDeactivated
  <1> SUFFICES ASSUME NEW i \in opened, ~account[i].active, account'[i].active
               PROVE  \E q \in Requests : req[q].at = "open" /\ req[q].id = i /\ req[q].early
    BY DEF StaysDeactivated
  <1>1. i \in Ids /\ account[i] \in Account /\ account[i] # NoAccount
    BY DEF AccountsInv, AccountsTyped, AccountOK
  <1>2. ASSUME NEW q \in Requests, Open(q)
        PROVE  req[q].at = "open" /\ req[q].id = i /\ req[q].early
    BY <1>1, <1>2 DEF Open, AccountsInv, AccountsTyped, RequestOK
  <1>3. \A q \in Requests : ~Commit(q)
    BY <1>1 DEF Commit, AccountsInv, AccountsTyped, RequestOK, Inserting
  <1>4. ASSUME NEW q \in Requests, SetPassword(q) PROVE FALSE
    <2> DEFINE j == req[q].id  entry == account[j]
    <2>1. j \in Ids /\ entry \in Account
      BY <1>4 DEF SetPassword, AccountsInv, AccountsTyped, RequestOK, OfAnAccount
    <2>2. account' # account
      OBVIOUS
    <2>3. account' = [account EXCEPT ![j] = [entry EXCEPT !.password = entry.password + 1,
                                                        !.usable = TRUE]]
      BY <1>4, <2>2 DEF SetPassword
    <2> HIDE DEF entry
    <2>4. account'[i] = account[i] \/ (j = i /\ account'[i].active = entry.active)
      BY <1>1, <2>1, <2>3 DEF AccountsInv, AccountsTyped, Account
    <2> QED
      BY <2>4 DEF entry
  <1>5. ASSUME NEW j \in Ids, Deactivate(j) PROVE FALSE
    BY <1>1, <1>5 DEF Deactivate, AccountsInv, AccountsTyped, Account
  <1>6. ASSUME NEW j \in Ids, NEW e \in Emails, SetEmail(j, e) PROVE FALSE
    BY <1>1, <1>6 DEF SetEmail, AccountsInv, AccountsTyped, Account
  <1>7. account' # account
    OBVIOUS
  <1>8. \E q \in Requests : Open(q)
    BY <1>3, <1>4, <1>5, <1>6, <1>7
       DEF Next, Step, Post, Insert, Invite, Rollback, CheckKey, Authenticate, FindToken,
           IssueToken, Forgot, CheckLink, Expire, Follow, vars
  <1> QED
    BY <1>2, <1>8

\* In every state the tables are typed, every request still has what it counts
\* on, and the accounts being inserted have ids and usernames of their own.
THEOREM AccountsAlways == ASSUME ConstantsAssumption  PROVE Spec => []AccountsInv
  BY AccountsInit, NextAccountsInv, PTL DEF Spec

\* However many log in at once, a user's logins are answered with one key.
THEOREM OneKeyForEachUser == ASSUME ConstantsAssumption  PROVE Spec => []OneKeyPerUser
  BY AccountsAlways, LoginsAreSafe, PTL

\* Every address of a row finds a user, and its namesake whenever one has it.
THEOREM AddressesFindUsers == ASSUME ConstantsAssumption  PROVE Spec => []EveryAddressResets
  BY AccountsAlways, AddressesReset, PTL

\* A link changes its own account's password.
THEOREM LinksBindAccounts == ASSUME ConstantsAssumption  PROVE Spec => []LinkBindsAccount
  BY AccountsAlways, LinksBind, PTL

\* A link does not pass the check again once a password was written with it.
THEOREM UsedLinksAreRefused == ASSUME ConstantsAssumption  PROVE Spec => [][UsedLinkIsRefused]_vars
  BY AccountsAlways, UsedAreRefused, PTL DEF Spec

\* A deactivated account is opened again by an earlier activation only.
THEOREM DeactivatedStaySo == ASSUME ConstantsAssumption  PROVE Spec => [][StaysDeactivated]_vars
  BY AccountsAlways, DeactivatedStay, PTL DEF Spec

-----------------------------------------------------------------------------
(***************************************************************************)
(* Accounts that are closed.                                               *)
(*                                                                         *)
(* CapInv adds to the properties what makes them inductive: a task that is *)
(* taken is due, a task names an account that exists or an orphan, and an  *)
(* account that may be closed again has been reopened as often as it was   *)
(* closed.  Unhandled is the set of active accounts that UndrivenNeedsCause *)
(* counts, and of those whose task has already run its UPDATE: finishing   *)
(* such a task adds nobody to it, so that only a fault or a reopening does. *)
(***************************************************************************)

\* An account's task: it is due once taken, and its account exists or never did.
TaskOK(i) ==
    /\ status[i] = "taken" => end[names[i]] <= day
    /\ state[names[i]] = "absent" => names[i] \in Orphans /\ status[i] # "done" /\ i \notin ran

CapAccountOK(a) ==
    /\ state[a] = "absent" => closed[a] = 0
    /\ closed[a] > 0 => end[a] <= day
    /\ state[a] \in {"absent", "active"} => closed[a] <= reopened
    /\ closed[a] <= 1 + reopened

CapSafe ==
    /\ Cap!TypeOK
    /\ MaxDay \in Nat /\ MaxPuts \in Nat /\ MaxFaults \in Nat
    /\ reopened <= puts
    /\ \A i \in Cap!Tasks : TaskOK(i)
    /\ \A a \in Accounts : CapAccountOK(a)

\* Nobody is going to close it, or its task has run and is not yet finished.
Unhandled ==
    {a \in Accounts : /\ state[a] = "active" /\ a \notin creating
                      /\ \A i \in Cap!Tasks : names[i] = a =>
                           status[i] \notin {"pending", "taken"} \/ i \in ran}

CapInv == CapSafe /\ Cardinality(Unhandled) <= faults + reopened

-----------------------------------------------------------------------------
LEMMA CapConstantsAre ==
    ASSUME Cap!ConstantsAssumption
    PROVE  /\ IsFiniteSet(Accounts) /\ Orphans \subseteq Accounts
           /\ MaxDay \in Nat /\ MaxPuts \in Nat /\ MaxFaults \in Nat
  BY DEF Cap!ConstantsAssumption, Cap!IsFiniteSet, IsFiniteSet

LEMMA CapInit == ASSUME Cap!ConstantsAssumption, Cap!Init  PROVE CapSafe /\ Unhandled = {}
  <1> DEFINE n == Cardinality(Orphans)
  <1>1. n \in Nat
    BY CapConstantsAre, FS_Subset, FS_CardinalityType
  <1>2. names \in [1..n -> Orphans] /\ status = [i \in 1..n |-> "pending"]
    BY DEF Cap!Init, Cap!Cardinality, Cardinality, Cap!IsFiniteSet, IsFiniteSet
  <1>3. Orphans \subseteq Accounts /\ MaxDay \in Nat /\ MaxPuts \in Nat /\ MaxFaults \in Nat
    BY CapConstantsAre
  <1> HIDE DEF n
  <1>4. names \in Seq(Accounts) /\ status \in Seq(Cap!Queue!Statuses)
    BY <1>1, <1>2, <1>3 DEF Cap!Queue!Statuses
  <1>5. Cap!TypeOK
    BY <1>2, <1>3, <1>4 DEF Cap!Init, Cap!TypeOK, Cap!States, Cap!Tasks
  <1>6. \A i \in Cap!Tasks : TaskOK(i)
    BY <1>2, <1>3 DEF Cap!Init, TaskOK, Cap!Tasks
  <1>7. \A a \in Accounts : CapAccountOK(a)
    BY <1>2, <1>3 DEF Cap!Init, CapAccountOK
  <1> QED
    BY <1>2, <1>3, <1>5, <1>6, <1>7 DEF Cap!Init, CapSafe, Unhandled, Cap!Tasks

LEMMA CreateSafe == ASSUME CapSafe, NEW a \in Accounts, Cap!Create(a)  PROVE CapSafe'
  <1>1. \A i \in Cap!Tasks : names[i] # a
    BY DEF Cap!Create, CapSafe, TaskOK
  <1>2. Cap!TypeOK'
    BY <1>1 DEF Cap!Create, CapSafe, Cap!TypeOK, Cap!States, Cap!Tasks
  <1>3. /\ state[a] = "absent" /\ UNCHANGED <<names, status, ran, day, closed, puts, reopened>>
        /\ Cap!Tasks' = Cap!Tasks /\ state'[a] = "active"
        /\ \A b \in Accounts \ {a} : state'[b] = state[b] /\ end'[b] = end[b]
    BY DEF Cap!Create, CapSafe, Cap!TypeOK, Cap!Tasks
  <1>4. \A i \in Cap!Tasks : names[i] \in Accounts
    BY DEF CapSafe, Cap!TypeOK, Cap!Tasks
  <1>5. \A i \in Cap!Tasks' : TaskOK(i)'
    BY <1>1, <1>3, <1>4 DEF CapSafe, TaskOK
  <1>6. CapAccountOK(a)'
    BY <1>3 DEF CapSafe, Cap!TypeOK, CapAccountOK
  <1>7. \A b \in Accounts \ {a} : CapAccountOK(b)'
    BY <1>3 DEF CapSafe, CapAccountOK
  <1> QED
    BY <1>2, <1>3, <1>5, <1>6, <1>7 DEF CapSafe

\* Submitting a task for an account adds one task, and changes none.
LEMMA Submitted ==
    ASSUME Cap!TypeOK, NEW a \in Accounts, names' = Append(names, a),
           status' = Append(status, "pending")
    PROVE  /\ names' \in Seq(Accounts) /\ status' \in Seq(Cap!Queue!Statuses)
           /\ Cap!Tasks' = Cap!Tasks \cup {Len(names) + 1} /\ DOMAIN status' = Cap!Tasks'
           /\ Len(names) + 1 \notin Cap!Tasks
           /\ names'[Len(names) + 1] = a /\ status'[Len(names) + 1] = "pending"
           /\ \A i \in Cap!Tasks : names'[i] = names[i] /\ status'[i] = status[i]
  <1>1. names \in Seq(Accounts) /\ status \in Seq(Cap!Queue!Statuses) /\ Len(status) = Len(names)
    BY DEF Cap!TypeOK
  <1>2. "pending" \in Cap!Queue!Statuses
    BY DEF Cap!Queue!Statuses
  <1> QED
    BY <1>1, <1>2 DEF Cap!Tasks

LEMMA ScheduleSafe == ASSUME CapSafe, NEW a \in Accounts, Cap!Schedule(a)  PROVE CapSafe'
  <1>1. /\ names' \in Seq(Accounts) /\ status' \in Seq(Cap!Queue!Statuses)
        /\ Cap!Tasks' = Cap!Tasks \cup {Len(names) + 1} /\ DOMAIN status' = Cap!Tasks'
        /\ Len(names) + 1 \notin Cap!Tasks
        /\ names'[Len(names) + 1] = a /\ status'[Len(names) + 1] = "pending"
        /\ \A i \in Cap!Tasks : names'[i] = names[i] /\ status'[i] = status[i]
    BY Submitted DEF CapSafe, Cap!Schedule
  <1>2. /\ a \in creating /\ creating' = creating \ {a}
        /\ UNCHANGED <<state, end, ran, day, closed, puts, reopened, faults>>
    BY DEF Cap!Schedule
  <1>3. state[a] # "absent" /\ \A i \in Cap!Tasks : names[i] # a
    BY <1>2 DEF CapSafe, Cap!TypeOK
  <1>4. Cap!TypeOK'
    BY <1>1, <1>2, <1>3 DEF CapSafe, Cap!TypeOK, Cap!Tasks
  <1>5. \A i \in Cap!Tasks' : TaskOK(i)'
    BY <1>1, <1>2, <1>3 DEF CapSafe, TaskOK
  <1>6. \A b \in Accounts : CapAccountOK(b)'
    BY <1>2 DEF CapSafe, CapAccountOK
  <1> QED
    BY <1>2, <1>4, <1>5, <1>6 DEF CapSafe

LEMMA PutSafe ==
    ASSUME CapSafe, NEW a \in Accounts, NEW s \in Cap!States \ {"absent"}, Cap!Put(a, s)
    PROVE  CapSafe'
  <1>1. reopened' \in 0..MaxPuts
    BY DEF Cap!Put, CapSafe, Cap!TypeOK
  <1>2. Cap!TypeOK'
    BY <1>1 DEF Cap!Put, CapSafe, Cap!TypeOK, Cap!Tasks
  <1>3. \A i \in Cap!Tasks' : TaskOK(i)'
    <2>1. UNCHANGED <<names, status, day>> /\ Cap!Tasks' = Cap!Tasks
      BY DEF Cap!Put, Cap!Tasks
    <2>2. \A b \in Accounts : state[b] # "absent" => state'[b] # "absent"
      BY DEF Cap!Put, CapSafe, Cap!TypeOK
    <2> QED
      BY <2>1, <2>2 DEF Cap!Put, CapSafe, Cap!TypeOK, TaskOK, Cap!Tasks
  <1>4. \A b \in Accounts : CapAccountOK(b)'
    BY DEF Cap!Put, CapSafe, Cap!TypeOK, CapAccountOK
  <1> QED
    BY <1>1, <1>2, <1>3, <1>4 DEF CapSafe, Cap!Put, Cap!TypeOK

LEMMA ScheduleFailsSafe ==
    ASSUME CapSafe, NEW a \in Accounts, Cap!ScheduleFails(a)  PROVE CapSafe'
  BY DEF Cap!ScheduleFails, Cap!Fault, CapSafe, Cap!TypeOK, TaskOK, CapAccountOK, Cap!Tasks

LEMMA NextDaySafe == ASSUME CapSafe, Cap!NextDay  PROVE CapSafe'
  BY DEF Cap!NextDay, CapSafe, Cap!TypeOK, TaskOK, CapAccountOK, Cap!Tasks

LEMMA StutterSafe == ASSUME CapSafe, UNCHANGED Cap!vars  PROVE CapSafe'
  BY DEF Cap!vars, CapSafe, Cap!TypeOK, TaskOK, CapAccountOK, Cap!Tasks

\* What every step of the scheduler leaves alone or sets.
LEMMA TakeSafe == ASSUME CapSafe, NEW i \in Cap!Tasks, Cap!Take(i)  PROVE CapSafe'
  <1>1. Cap!TypeOK'
    BY DEF Cap!Take, Cap!Queue!Take, Cap!Queue!Statuses, CapSafe, Cap!TypeOK, Cap!Tasks
  <1> QED
    BY <1>1 DEF Cap!Take, Cap!Queue!Take, CapSafe, Cap!TypeOK, TaskOK, CapAccountOK, Cap!Tasks

LEMMA CloseSafe == ASSUME CapSafe, NEW i \in Cap!Tasks, Cap!Close(i)  PROVE CapSafe'
  <1>1. Cap!TypeOK'
    BY DEF Cap!Close, CapSafe, Cap!TypeOK, Cap!Tasks, Cap!States
  <1>2. names[i] \in Accounts /\ end[names[i]] <= day
    BY DEF Cap!Close, CapSafe, Cap!TypeOK, TaskOK, Cap!Tasks
  <1>3. CASE state[names[i]] = "active"
    <2>1. PICK a \in Accounts : a = names[i] /\ end[a] <= day
      BY <1>2
    <2>2. /\ state' = [state EXCEPT ![a] = "closed"] /\ closed' = [closed EXCEPT ![a] = @ + 1]
          /\ ran' = ran \cup {i}
          /\ UNCHANGED <<end, creating, names, status, day, puts, reopened, faults>>
      BY <1>3, <2>1 DEF Cap!Close
    <2>3. /\ \A b \in Accounts \ {a} : state'[b] = state[b] /\ closed'[b] = closed[b]
          /\ state[a] = "active" /\ state'[a] = "closed" /\ closed'[a] = closed[a] + 1
      BY <1>3, <2>1, <2>2 DEF CapSafe, Cap!TypeOK
    <2>4. closed[a] \in Nat /\ reopened \in Nat /\ closed[a] <= reopened
      BY <2>3 DEF CapSafe, Cap!TypeOK, CapAccountOK
    <2>5. CapAccountOK(a)'
      BY <2>1, <2>2, <2>3, <2>4 DEF CapAccountOK
    <2>6. \A b \in Accounts \ {a} : CapAccountOK(b)'
      BY <2>2, <2>3 DEF CapSafe, CapAccountOK
    <2>7. \A j \in Cap!Tasks' : TaskOK(j)'
      BY <2>1, <2>2, <2>3 DEF CapSafe, TaskOK, Cap!Tasks, Cap!TypeOK
    <2> QED
      BY <1>1, <2>2, <2>5, <2>6, <2>7 DEF CapSafe
  <1>4. CASE state[names[i]] # "active"
    <2>1. state' = state /\ closed' = closed
      BY <1>2, <1>4 DEF Cap!Close, CapSafe, Cap!TypeOK
    <2>2. UNCHANGED <<names, status, end, day, puts, reopened>> /\ Cap!Tasks' = Cap!Tasks
      BY DEF Cap!Close, Cap!Tasks
    <2>3. ran' = ran \cup {i} /\ state[names[i]] # "absent"
      BY DEF Cap!Close
    <2>4. \A j \in Cap!Tasks' : TaskOK(j)'
      BY <2>1, <2>2, <2>3 DEF CapSafe, TaskOK
    <2>5. \A b \in Accounts : CapAccountOK(b)'
      BY <2>1, <2>2 DEF CapSafe, CapAccountOK
    <2> QED
      BY <1>1, <2>2, <2>4, <2>5 DEF CapSafe
  <1> QED
    BY <1>3, <1>4

LEMMA CloseMissingSafe == ASSUME CapSafe, NEW i \in Cap!Tasks, Cap!CloseMissing(i)  PROVE CapSafe'
  <1>1. Cap!TypeOK'
    BY DEF Cap!CloseMissing, Cap!Queue!Statuses, CapSafe, Cap!TypeOK, TaskOK, Cap!Tasks
  <1> QED
    BY <1>1 DEF Cap!CloseMissing, CapSafe, Cap!TypeOK, TaskOK, CapAccountOK, Cap!Tasks

LEMMA FinishSafe == ASSUME CapSafe, NEW i \in Cap!Tasks, Cap!Finish(i)  PROVE CapSafe'
  <1>1. Cap!TypeOK'
    BY DEF Cap!Finish, Cap!Queue!Finish, Cap!Queue!Statuses, CapSafe, Cap!TypeOK, Cap!Tasks
  <1> QED
    BY <1>1 DEF Cap!Finish, Cap!Queue!Finish, CapSafe, Cap!TypeOK, TaskOK, CapAccountOK, Cap!Tasks

LEMMA FailsSafe == ASSUME CapSafe, NEW i \in Cap!Tasks, Cap!Fails(i)  PROVE CapSafe'
  <1>1. Cap!TypeOK'
    BY DEF Cap!Fails, Cap!Fault, Cap!Queue!Statuses, CapSafe, Cap!TypeOK, Cap!Tasks
  <1> QED
    BY <1>1 DEF Cap!Fails, Cap!Fault, CapSafe, Cap!TypeOK, TaskOK, CapAccountOK, Cap!Tasks

LEMMA LostSafe == ASSUME CapSafe, NEW i \in Cap!Tasks, Cap!Lost(i)  PROVE CapSafe'
  <1>1. Cap!TypeOK'
    BY DEF Cap!Lost, Cap!Fault, Cap!Queue!Drop, Cap!Queue!Statuses, CapSafe, Cap!TypeOK, Cap!Tasks
  <1> QED
    BY <1>1
       DEF Cap!Lost, Cap!Fault, Cap!Queue!Drop, CapSafe, Cap!TypeOK, TaskOK, CapAccountOK,
           Cap!Tasks

LEMMA NextCapSafe == ASSUME CapSafe, [Cap!Next]_(Cap!vars)  PROVE CapSafe'
  BY CreateSafe, ScheduleSafe, ScheduleFailsSafe, PutSafe, TakeSafe, CloseSafe,
     CloseMissingSafe, FinishSafe, FailsSafe, LostSafe, NextDaySafe, StutterSafe
     DEF Cap!Next, Cap!Run

\* Every CAP and every close task has its type, whatever fails (createAccount,
\* closeAccount).
THEOREM CapTypes == ASSUME Cap!ConstantsAssumption  PROVE Cap!Spec => []Cap!TypeOK
  <1>1. Cap!Init => CapSafe
    BY CapInit
  <1>2. CapSafe /\ [Cap!Next]_(Cap!vars) => CapSafe'
    BY NextCapSafe
  <1>3. CapSafe => Cap!TypeOK
    BY DEF CapSafe
  <1> QED
    BY <1>1, <1>2, <1>3, PTL DEF Cap!Spec

\* The runner closes no account before its end_date.
THEOREM CapsClosedOnTime == ASSUME Cap!ConstantsAssumption  PROVE Cap!Spec => []Cap!NeverClosedEarly
  <1>1. CapSafe => Cap!NeverClosedEarly
    BY DEF CapSafe, CapAccountOK, Cap!NeverClosedEarly
  <1> QED
    BY <1>1, CapInit, NextCapSafe, PTL DEF Cap!Spec

\* A task that is retried closes its account again only if an administrator
\* made it active in between.
THEOREM CapsClosedOnce ==
    ASSUME Cap!ConstantsAssumption
    PROVE  Cap!Spec => []Cap!ClosedOncePerOpening
  <1>1. CapSafe => Cap!ClosedOncePerOpening
    BY DEF CapSafe, CapAccountOK, Cap!ClosedOncePerOpening
  <1> QED
    BY <1>1, CapInit, NextCapSafe, PTL DEF Cap!Spec

\* A task whose account does not exist is never reported as done.
THEOREM MissingCapsStay ==
    ASSUME Cap!ConstantsAssumption
    PROVE  Cap!Spec => []Cap!MissingStaysVisible
  <1>1. CapSafe => Cap!MissingStaysVisible
    BY DEF CapSafe, TaskOK, Cap!MissingStaysVisible
  <1> QED
    BY <1>1, CapInit, NextCapSafe, PTL DEF Cap!Spec

-----------------------------------------------------------------------------
(* The accounts that nobody is going to close. *)

\* No step adds an account to Unhandled but a fault or a reopening, and either
\* adds one at most.
Caused ==
    \/ Unhandled' \subseteq Unhandled /\ faults' + reopened' >= faults + reopened
    \/ /\ \E a : Unhandled' \subseteq Unhandled \cup {a}
       /\ faults' + reopened' = faults + reopened + 1

LEMMA RequestsCaused ==
    ASSUME CapSafe, NEW a \in Accounts,
           \/ Cap!Create(a) \/ Cap!Schedule(a) \/ Cap!ScheduleFails(a)
           \/ \E s \in Cap!States \ {"absent"} : Cap!Put(a, s)
    PROVE  Caused
  <1>0. faults \in Nat /\ reopened \in Nat
    BY DEF CapSafe, Cap!TypeOK
  <1>1. CASE Cap!Create(a)
    BY <1>0, <1>1 DEF Cap!Create, CapSafe, Cap!TypeOK, Caused, Unhandled, Cap!Tasks
  <1>2. CASE Cap!Schedule(a)
    <2>1. /\ Cap!Tasks' = Cap!Tasks \cup {Len(names) + 1} /\ Len(names) + 1 \notin Cap!Tasks
          /\ names'[Len(names) + 1] = a /\ status'[Len(names) + 1] = "pending"
          /\ \A i \in Cap!Tasks : names'[i] = names[i] /\ status'[i] = status[i]
      BY <1>2, Submitted DEF CapSafe, Cap!Schedule
    <2>2. Len(names) + 1 \notin ran
      BY <2>1 DEF CapSafe, Cap!TypeOK
    <2>3. /\ creating' = creating \ {a}
          /\ state' = state /\ ran' = ran /\ faults' = faults /\ reopened' = reopened
      BY <1>2 DEF Cap!Schedule
    <2>4. Unhandled' \subseteq Unhandled
      BY <2>1, <2>2, <2>3 DEF Unhandled
    <2> QED
      BY <1>0, <2>3, <2>4 DEF Caused
  <1>3. CASE Cap!ScheduleFails(a)
    <2>1. Unhandled' \subseteq Unhandled \cup {a}
      BY <1>3 DEF Cap!ScheduleFails, Unhandled, Cap!Tasks
    <2> QED
      BY <1>0, <1>3, <2>1 DEF Cap!ScheduleFails, Cap!Fault, Caused
  <1>4. ASSUME NEW s \in Cap!States \ {"absent"}, Cap!Put(a, s) PROVE Caused
    <2>1. \A b \in Accounts \ {a} : state'[b] = state[b]
      BY <1>4 DEF Cap!Put, CapSafe, Cap!TypeOK
    <2>2. Unhandled' \subseteq Unhandled \cup {a}
      BY <1>4, <2>1 DEF Cap!Put, Unhandled, Cap!Tasks
    <2>3. CASE state[a] # "active" /\ s = "active"
      BY <1>0, <1>4, <2>2, <2>3 DEF Cap!Put, Caused
    <2>4. CASE ~(state[a] # "active" /\ s = "active")
      <3>1. state'[a] = "active" => state[a] = "active"
        BY <1>4, <2>4 DEF Cap!Put, CapSafe, Cap!TypeOK
      <3>2. Unhandled' \subseteq Unhandled
        BY <1>4, <2>1, <3>1 DEF Cap!Put, Unhandled, Cap!Tasks
      <3>3. reopened' = reopened /\ faults' = faults
        BY <1>4, <2>4 DEF Cap!Put
      <3> QED
        BY <1>0, <3>2, <3>3 DEF Caused
    <2> QED
      BY <2>3, <2>4
  <1> QED
    BY <1>1, <1>2, <1>3, <1>4

LEMMA RunnerCaused ==
    ASSUME CapSafe, NEW i \in Cap!Tasks, Cap!Run(i) \/ Cap!Fails(i) \/ Cap!Lost(i)
    PROVE  Caused
  <1>0. faults \in Nat /\ reopened \in Nat /\ names[i] \in Accounts
    BY DEF CapSafe, Cap!TypeOK, Cap!Tasks
  <1>1. CASE Cap!Take(i)
    BY <1>0, <1>1 DEF Cap!Take, Cap!Queue!Take, CapSafe, Cap!TypeOK, Caused, Unhandled, Cap!Tasks
  <1>2. CASE Cap!Close(i)
    <2>1. \A b \in Accounts : state'[b] = "active" => state[b] = "active" /\ b # names[i]
      BY <1>0, <1>2 DEF Cap!Close, CapSafe, Cap!TypeOK
    <2> QED
      BY <1>0, <1>2, <2>1 DEF Cap!Close, Caused, Unhandled, Cap!Tasks
  <1>3. CASE Cap!CloseMissing(i)
    BY <1>0, <1>3 DEF Cap!CloseMissing, CapSafe, Cap!TypeOK, TaskOK, Caused, Unhandled, Cap!Tasks
  <1>4. CASE Cap!Finish(i)
    BY <1>0, <1>4
       DEF Cap!Finish, Cap!Queue!Finish, CapSafe, Cap!TypeOK, Caused, Unhandled, Cap!Tasks
  <1>5. CASE Cap!Fails(i)
    <2>1. Unhandled' \subseteq Unhandled
      BY <1>0, <1>5 DEF Cap!Fails, CapSafe, Cap!TypeOK, Unhandled, Cap!Tasks
    <2> QED
      BY <1>0, <1>5, <2>1 DEF Cap!Fails, Cap!Fault, Caused
  <1>6. CASE Cap!Lost(i)
    <2>1. Unhandled' \subseteq Unhandled \cup {names[i]}
      BY <1>0, <1>6 DEF Cap!Lost, Cap!Queue!Drop, CapSafe, Cap!TypeOK, Unhandled, Cap!Tasks
    <2> QED
      BY <1>0, <1>6, <2>1 DEF Cap!Lost, Cap!Fault, Caused
  <1> QED
    BY <1>1, <1>2, <1>3, <1>4, <1>5, <1>6 DEF Cap!Run

LEMMA NextCaused == ASSUME CapSafe, [Cap!Next]_(Cap!vars)  PROVE Caused
  <1>0. faults \in Nat /\ reopened \in Nat
    BY DEF CapSafe, Cap!TypeOK
  <1>1. CASE Cap!NextDay
    BY <1>0, <1>1 DEF Cap!NextDay, Caused, Unhandled, Cap!Tasks
  <1>2. CASE UNCHANGED Cap!vars
    BY <1>0, <1>2 DEF Cap!vars, Caused, Unhandled, Cap!Tasks
  <1> QED
    BY <1>1, <1>2, RequestsCaused, RunnerCaused DEF Cap!Next

LEMMA AtMostOneMore ==
    ASSUME NEW S, IsFiniteSet(S), NEW T, NEW x, T \subseteq S \cup {x}
    PROVE  /\ IsFiniteSet(T) /\ Cardinality(T) \in Nat /\ Cardinality(S) \in Nat
           /\ Cardinality(T) <= Cardinality(S) + 1
           /\ T \subseteq S => Cardinality(T) <= Cardinality(S)
  <1> DEFINE U == S \cup {x}
  <1>1. Cardinality(S) \in Nat
    BY FS_CardinalityType
  <1>2. IsFiniteSet(U) /\ Cardinality(U) \in Nat /\ Cardinality(U) <= Cardinality(S) + 1
    BY <1>1, FS_AddElement
  <1>3. T \subseteq U
    OBVIOUS
  <1> HIDE DEF U
  <1>4. IsFiniteSet(T) /\ Cardinality(T) <= Cardinality(U)
    BY <1>2, <1>3, FS_Subset
  <1>5. Cardinality(T) \in Nat
    BY <1>4, FS_CardinalityType
  <1>6. T \subseteq S => Cardinality(T) <= Cardinality(S)
    BY FS_Subset
  <1> QED
    BY <1>1, <1>2, <1>4, <1>5, <1>6

LEMMA SumIsNat == ASSUME NEW m \in Nat, NEW n \in Nat  PROVE m + n \in Nat
  OBVIOUS

LEMMA CausesAreNat ==
    ASSUME CapSafe, CapSafe'
    PROVE  faults + reopened \in Nat /\ faults' + reopened' \in Nat
  <1>1. /\ faults \in Nat /\ reopened \in Nat /\ faults' \in Nat /\ reopened' \in Nat
    BY DEF CapSafe, Cap!TypeOK
  <1> QED
    BY <1>1, SumIsNat

LEMMA CountedByCauses ==
    ASSUME CapSafe, CapSafe', Caused, IsFiniteSet(Accounts),
           Cardinality(Unhandled) <= faults + reopened
    PROVE  Cardinality(Unhandled') <= faults' + reopened'
  <1> DEFINE S == Unhandled  T == Unhandled'  f == faults + reopened  g == faults' + reopened'
  <1>1. IsFiniteSet(S)
    BY FS_Subset DEF Unhandled
  <1>2. f \in Nat /\ g \in Nat
    BY CausesAreNat
  <1>3. \/ T \subseteq S /\ g >= f
        \/ (\E a : T \subseteq S \cup {a}) /\ g = f + 1
    BY DEF Caused
  <1>4. Cardinality(S) <= f
    OBVIOUS
  <1> HIDE DEF S, T, f, g
  <1>5. ASSUME NEW a, T \subseteq S \cup {a}
        PROVE  /\ Cardinality(T) \in Nat /\ Cardinality(S) \in Nat
               /\ Cardinality(T) <= Cardinality(S) + 1
               /\ T \subseteq S => Cardinality(T) <= Cardinality(S)
    BY <1>1, <1>5, AtMostOneMore
  <1>6. ASSUME T \subseteq S, g >= f  PROVE Cardinality(T) <= g
    <2>1. T \subseteq S \cup {0}
      BY <1>6
    <2>2. /\ Cardinality(T) \in Nat /\ Cardinality(S) \in Nat
          /\ Cardinality(T) <= Cardinality(S)
      BY <1>5, <1>6, <2>1
    <2> QED
      BY <1>2, <1>4, <1>6, <2>2
  <1>7. ASSUME NEW a, T \subseteq S \cup {a}, g = f + 1  PROVE Cardinality(T) <= g
    BY <1>2, <1>4, <1>5, <1>7
  <1>8. Cardinality(T) <= g
    BY <1>3, <1>6, <1>7
  <1> QED
    BY <1>8 DEF T, g

LEMMA NextCapInv == ASSUME Cap!ConstantsAssumption, CapInv, [Cap!Next]_(Cap!vars)  PROVE CapInv'
  BY CapConstantsAre, NextCapSafe, NextCaused, CountedByCauses DEF CapInv

LEMMA InitCapInv == ASSUME Cap!ConstantsAssumption, Cap!Init  PROVE CapInv
  <1>1. CapSafe /\ Unhandled = {} /\ faults = 0 /\ reopened = 0
    BY CapInit DEF Cap!Init
  <1>2. Cardinality(Unhandled) = 0
    BY <1>1, FS_EmptySet
  <1> QED
    BY <1>1, <1>2 DEF CapInv

LEMMA CapInvSuffices ==
    ASSUME Cap!ConstantsAssumption, CapInv
    PROVE  /\ Cap!TypeOK /\ Cap!NeverClosedEarly /\ Cap!ClosedOncePerOpening
           /\ Cap!MissingStaysVisible /\ Cap!UndrivenNeedsCause
  <1>1. Cap!TypeOK /\ Cap!NeverClosedEarly /\ Cap!ClosedOncePerOpening /\ Cap!MissingStaysVisible
    BY DEF CapInv, CapSafe, CapAccountOK, TaskOK, Cap!NeverClosedEarly, Cap!ClosedOncePerOpening,
           Cap!MissingStaysVisible
  <1> DEFINE U == {a \in Accounts : state[a] = "active" /\ ~Cap!Driven(a)}  S == Unhandled
  <1>2. U \subseteq S
    BY DEF Cap!Driven, Unhandled
  <1>3. IsFiniteSet(S) /\ Cardinality(S) <= faults + reopened
    BY CapConstantsAre, FS_Subset DEF Unhandled, CapInv
  <1>4. faults \in Nat /\ reopened \in Nat
    BY DEF CapInv, CapSafe, Cap!TypeOK
  <1> HIDE DEF U, S
  <1>5. Cardinality(U) <= Cardinality(S) /\ Cardinality(U) \in Nat /\ Cardinality(S) \in Nat
    BY <1>2, <1>3, FS_Subset, FS_CardinalityType
  <1>6. Cardinality(U) <= faults + reopened
    BY <1>3, <1>4, <1>5
  <1>7. Cap!UndrivenNeedsCause <=> Cardinality(U) <= faults + reopened
    BY DEF U, Cap!UndrivenNeedsCause, Cap!Cardinality, Cardinality, Cap!IsFiniteSet, IsFiniteSet
  <1> QED
    BY <1>1, <1>6, <1>7

\* An active account that nobody is going to close is the trace of a fault or
\* of a reopening, one for each.
THEOREM UndrivenCapsHaveCauses ==
    ASSUME Cap!ConstantsAssumption
    PROVE  Cap!Spec => []Cap!UndrivenNeedsCause
  BY InitCapInv, NextCapInv, CapInvSuffices, PTL DEF Cap!Spec

-----------------------------------------------------------------------------
(***************************************************************************)
(* Powers of attorney.                                                     *)
(*                                                                         *)
(* A decision writes without looking at the state again, so that a power   *)
(* may be decided and announced more than once.  What bounds this is that  *)
(* a power never becomes pending again: PowersInv says that while one is   *)
(* pending, all who have read it so are still to write, and of those who   *)
(* have read it, only the ones that are done can have announced it.        *)
(***************************************************************************)

PowerPoints == {"idle", "create", "push", "decide", "write", "mail"}
PowerRequest == [at : PowerPoints, actor : Members \cup {Nobody}, id : Members \cup {Nobody} \cup Powers,
            submitted : Pow!Submitted, answer : Nat]

\* A request on its way to the end of a decision of power p.
Deciding(r, p) == r.at \in {"write", "mail"} /\ r.id = p

PowerRequestOK(q) ==
    LET r == req[q] IN
    /\ r.at = "create" => r.actor \in Members /\ r.id \in Members \cup {Nobody}
    /\ r.at = "decide" => r.actor \in Members
    /\ r.at \in {"push", "decide", "write", "mail"} => r.id \in Powers
    /\ r.at = "push" => power[r.id] # Pow!NoRow /\ pushes[r.id] = 0
    /\ r.at \in {"write", "mail"} =>
         /\ power[r.id] # Pow!NoRow /\ q \in read[r.id]
         /\ r.actor = power[r.id].requestee /\ r.submitted.state \in {Pow!APPROVED, Pow!REJECTED}
    /\ r.at = "mail" => power[r.id].state # Pow!PENDING

\* Those who read p as pending and are done with it.
Heard(p) == {q \in read[p] : ~Deciding(req[q], p)}

PowerOK(p) ==
    /\ power[p] = Pow!NoRow => letters[p] = 0 /\ pushes[p] = 0 /\ read[p] = {}
    /\ power[p] # Pow!NoRow => power[p].requester # power[p].requestee
    /\ power[p].state = Pow!PENDING => \A q \in read[p] : req[q].at = "write" /\ req[q].id = p
    /\ letters[p] <= Cardinality(Heard(p))

PowersTyped ==
    /\ power \in [Powers -> Pow!Row \cup {Pow!NoRow}]
    /\ letters \in [Powers -> Nat] /\ pushes \in [Powers -> 0..1]
    /\ read \in [Powers -> SUBSET Requests]
    /\ req \in [Requests -> PowerRequest]

\* No two requests are about to announce one creation.
OneCreator ==
    \A q, s \in Requests :
        req[q].at = "push" /\ req[s].at = "push" /\ req[q].id = req[s].id => q = s

PowersInv ==
    /\ PowersTyped
    /\ OneCreator
    /\ \A q \in Requests : PowerRequestOK(q)
    /\ \A p \in Powers : PowerOK(p)

-----------------------------------------------------------------------------
LEMMA RowsApart ==
    /\ Pow!NoRow \notin Pow!Row /\ Pow!NoRow.state = Pow!NONE /\ Pow!NONE # Pow!PENDING
    /\ \A entry \in Pow!Row : entry.state \in Pow!PENDING..Pow!REJECTED
    /\ \A entry \in Pow!Row : entry.requester \in Members /\ entry.requestee \in Members
  BY DEF Pow!NoRow, Pow!Row, Pow!NONE, Pow!PENDING, Pow!REJECTED

LEMMA PowerIdleType == Pow!Idle \in PowerRequest /\ Pow!Idle.at = "idle"
  BY DEF Pow!Idle, PowerRequest, PowerPoints, Pow!Submitted

\* A request that ends.
LEMMA PowerEndsAs ==
    ASSUME NEW q \in Requests, NEW a \in Nat, Pow!Ends(q, a)
    PROVE  \E r \in PowerRequest : req' = [req EXCEPT ![q] = r] /\ r.at = "idle"
  <1> DEFINE r == [Pow!Idle EXCEPT !.answer = a]
  <1>1. r \in PowerRequest /\ r.at = "idle"
    BY PowerIdleType DEF PowerRequest
  <1>2. req' = [req EXCEPT ![q] = r]
    BY DEF Pow!Ends
  <1> QED
    BY <1>1, <1>2

\* More have heard of a power that was announced as often as before.
LEMMA HeardGrows ==
    ASSUME NEW S, NEW T, IsFiniteSet(T), S \subseteq T, NEW n \in Nat, n <= Cardinality(S)
    PROVE  n <= Cardinality(T)
  <1>1. IsFiniteSet(S) /\ Cardinality(S) <= Cardinality(T)
    BY FS_Subset
  <1>2. Cardinality(S) \in Nat /\ Cardinality(T) \in Nat
    BY <1>1, FS_CardinalityType
  <1> QED
    BY <1>1, <1>2

\* One more has, and it was announced once more.
LEMMA HeardOnceMore ==
    ASSUME NEW S, NEW T, IsFiniteSet(T), NEW x, x \notin S, x \in T, S \subseteq T,
           NEW n \in Nat, n <= Cardinality(S)
    PROVE  n + 1 <= Cardinality(T)
  <1> DEFINE U == S \cup {x}
  <1>1. IsFiniteSet(S) /\ Cardinality(S) \in Nat
    BY FS_Subset, FS_CardinalityType
  <1>2. IsFiniteSet(U) /\ Cardinality(U) = Cardinality(S) + 1
    BY <1>1, FS_AddElement
  <1>3. U \subseteq T
    OBVIOUS
  <1> HIDE DEF U
  <1>4. Cardinality(U) <= Cardinality(T) /\ Cardinality(T) \in Nat
    BY <1>3, FS_Subset, FS_CardinalityType
  <1> QED
    BY <1>1, <1>2, <1>4

LEMMA PowersInit == ASSUME Pow!Init  PROVE PowersInv
  <1>1. \A q \in Requests : req[q] = Pow!Idle
    BY DEF Pow!Init
  <1>2. PowersTyped
    BY PowerIdleType DEF Pow!Init, PowersTyped
  <1>3. OneCreator /\ \A q \in Requests : PowerRequestOK(q)
    BY <1>1, PowerIdleType DEF OneCreator, PowerRequestOK
  <1>4. ASSUME NEW p \in Powers PROVE PowerOK(p)
    <2>1. power[p] = Pow!NoRow /\ letters[p] = 0 /\ pushes[p] = 0 /\ read[p] = {}
      BY DEF Pow!Init
    <2>2. Heard(p) = {} /\ Cardinality(Heard(p)) = 0
      BY <2>1, FS_EmptySet DEF Heard
    <2> QED
      BY <2>1, <2>2 DEF PowerOK
  <1> QED
    BY <1>2, <1>3, <1>4 DEF PowersInv

\* A request that leaves the tables alone and is not deciding, before or after.
LEMMA PowerQuietStep ==
    ASSUME PowersInv, NEW q \in Requests, NEW r \in PowerRequest, req' = [req EXCEPT ![q] = r],
           UNCHANGED <<power, letters, pushes, read>>,
           req[q].at \notin {"write", "mail"}, r.at \notin {"push", "write", "mail"},
           r.at = "create" => r.actor \in Members /\ r.id \in Members \cup {Nobody},
           r.at = "decide" => r.actor \in Members /\ r.id \in Powers
    PROVE  PowersInv'
  <1>1. req'[q] = r /\ \A s \in Requests \ {q} : req'[s] = req[s]
    BY DEF PowersInv, PowersTyped
  <1>2. PowersTyped'
    BY DEF PowersInv, PowersTyped
  <1>3. OneCreator'
    BY <1>1 DEF PowersInv, OneCreator
  <1>4. ASSUME NEW s \in Requests PROVE PowerRequestOK(s)'
    BY <1>1 DEF PowersInv, PowerRequestOK
  <1>5. ASSUME NEW p \in Powers PROVE PowerOK(p)'
    <2>1. read[p] \subseteq Requests
      BY DEF PowersInv, PowersTyped
    <2>2. Heard(p)' = Heard(p)
      BY <1>1, <2>1 DEF Heard, Deciding
    <2>3. PowerOK(p)
      BY DEF PowersInv
    <2> QED
      BY <1>1, <2>1, <2>2, <2>3 DEF PowerOK
  <1> QED
    BY <1>2, <1>3, <1>4, <1>5 DEF PowersInv

LEMMA PowerPostSafe == ASSUME PowersInv, NEW q \in Requests, Pow!Post(q)  PROVE PowersInv'
  <1>1. req[q].at = "idle" /\ UNCHANGED <<power, letters, pushes, read>>
    BY DEF Pow!Post
  <1>2. ASSUME NEW actor \in Members, NEW requestee \in Members \cup {Nobody},
               req' = [req EXCEPT ![q] = [Pow!Idle EXCEPT !.at = "create", !.actor = actor,
                                                      !.id = requestee]]
        PROVE  PowersInv'
    <2> DEFINE r == [Pow!Idle EXCEPT !.at = "create", !.actor = actor, !.id = requestee]
    <2>1. r \in PowerRequest /\ r.at = "create" /\ r.actor = actor /\ r.id = requestee
      BY PowerIdleType DEF PowerRequest, PowerPoints
    <2>2. req' = [req EXCEPT ![q] = r]
      BY <1>2
    <2> HIDE DEF r
    <2> QED
      BY <1>1, <2>1, <2>2, PowerQuietStep
  <1>3. ASSUME NEW actor \in Members, NEW p \in Powers, NEW submitted \in Pow!Submitted,
               req' = [req EXCEPT ![q] = [Pow!Idle EXCEPT !.at = "decide", !.actor = actor, !.id = p,
                                                      !.submitted = submitted]]
        PROVE  PowersInv'
    <2> DEFINE r == [Pow!Idle EXCEPT !.at = "decide", !.actor = actor, !.id = p,
                                 !.submitted = submitted]
    <2>1. r \in PowerRequest /\ r.at = "decide" /\ r.actor = actor /\ r.id = p
      BY PowerIdleType DEF PowerRequest, PowerPoints
    <2>2. req' = [req EXCEPT ![q] = r]
      BY <1>3
    <2> HIDE DEF r
    <2> QED
      BY <1>1, <2>1, <2>2, PowerQuietStep
  <1> QED
    BY <1>2, <1>3 DEF Pow!Post

LEMMA PowerQuietEnd ==
    ASSUME PowersInv, NEW q \in Requests, NEW a \in Nat, Pow!Ends(q, a),
           UNCHANGED <<power, letters, pushes, read>>, req[q].at \notin {"write", "mail"}
    PROVE  PowersInv'
  BY PowerEndsAs, PowerQuietStep

LEMMA PowerCreateSafe == ASSUME PowersInv, NEW q \in Requests, Pow!Create(q)  PROVE PowersInv'
  <1>1. /\ req[q].at = "create" /\ UNCHANGED <<letters, pushes, read>>
        /\ req[q] \in PowerRequest /\ req[q].actor \in Members /\ req[q].id \in Members \cup {Nobody}
    BY DEF Pow!Create, PowersInv, PowersTyped, PowerRequestOK
  <1>2. CASE Pow!Ends(q, 500) /\ UNCHANGED power
    BY <1>1, <1>2, PowerQuietEnd
  <1>3. CASE Pow!Ends(q, 406) /\ UNCHANGED power
    BY <1>1, <1>3, PowerQuietEnd
  <1>4. ASSUME req[q].id # Nobody, req[q].id # req[q].actor, NEW p \in Powers \ Pow!Existing,
               power' = [power EXCEPT ![p] = [state |-> Pow!PENDING, requester |-> req[q].actor,
                                              requestee |-> req[q].id]],
               req' = [req EXCEPT ![q].at = "push", ![q].id = p]
        PROVE  PowersInv'
    <2> DEFINE entry == [state |-> Pow!PENDING, requester |-> req[q].actor, requestee |-> req[q].id]
               r == [req[q] EXCEPT !.at = "push", !.id = p]
    <2>1. entry \in Pow!Row /\ entry.requester # entry.requestee
      BY <1>1, <1>4 DEF Pow!Row, Pow!PENDING, Pow!REJECTED
    <2>2. r \in PowerRequest /\ r.at = "push" /\ r.id = p
      BY <1>1 DEF PowerRequest, PowerPoints
    <2>3. req' = [req EXCEPT ![q] = r] /\ power' = [power EXCEPT ![p] = entry]
      BY <1>4
    <2> HIDE DEF r, entry
    <2>4. power[p] = Pow!NoRow /\ PowerOK(p) /\ pushes[p] = 0 /\ letters[p] = 0 /\ read[p] = {}
      BY DEF Pow!Existing, PowersInv, PowerOK
    <2>5. req'[q] = r /\ \A s \in Requests \ {q} : req'[s] = req[s]
      BY <2>3 DEF PowersInv, PowersTyped
    <2>6. power'[p] = entry /\ \A o \in Powers \ {p} : power'[o] = power[o]
      BY <2>3 DEF PowersInv, PowersTyped
    <2>7. PowersTyped'
      BY <1>1, <2>1, <2>2, <2>3 DEF PowersInv, PowersTyped
    <2>8. OneCreator'
      BY <2>2, <2>4, <2>5 DEF PowersInv, OneCreator, PowerRequestOK
    <2>9. ASSUME NEW s \in Requests PROVE PowerRequestOK(s)'
      <3>1. CASE s = q
        BY <1>1, <2>1, <2>2, <2>4, <2>5, <2>6, <3>1, RowsApart DEF PowerRequestOK
      <3>2. CASE s # q
        <4>1. req'[s] = req[s] /\ PowerRequestOK(s)
          BY <2>5, <3>2 DEF PowersInv
        <4>2. req[s].at \in {"push", "write", "mail"} => req[s].id \in Powers \ {p}
          BY <2>4, <4>1 DEF PowerRequestOK
        <4> QED
          BY <1>1, <2>6, <4>1, <4>2 DEF PowerRequestOK
      <3> QED
        BY <3>1, <3>2
    <2>10. ASSUME NEW o \in Powers PROVE PowerOK(o)'
      <3>1. Heard(o)' = Heard(o) /\ PowerOK(o)
        <4>1. read[o] \subseteq Requests /\ read' = read
          BY <1>1 DEF PowersInv, PowersTyped
        <4> QED
          BY <1>1, <2>2, <2>5, <4>1 DEF Heard, Deciding, PowersInv
      <3>2. CASE o = p
        BY <1>1, <2>1, <2>4, <2>6, <3>1, <3>2, RowsApart DEF PowerOK
      <3>3. CASE o # p
        <4>1. power'[o] = power[o] /\ \A s \in read[o] : req[s].at = "write" => req'[s] = req[s]
          BY <1>1, <2>5, <2>6, <3>3 DEF PowersInv, PowersTyped
        <4> QED
          BY <1>1, <3>1, <4>1 DEF PowerOK
      <3> QED
        BY <3>2, <3>3
    <2> QED
      BY <2>7, <2>8, <2>9, <2>10 DEF PowersInv
  <1> QED
    BY <1>2, <1>3, <1>4 DEF Pow!Create

LEMMA PushSafe == ASSUME PowersInv, NEW q \in Requests, Pow!Push(q)  PROVE PowersInv'
  <1> DEFINE p == req[q].id
  <1>1. /\ req[q].at = "push" /\ UNCHANGED <<power, letters, read>>
        /\ p \in Powers /\ power[p] # Pow!NoRow /\ pushes[p] = 0
    BY DEF Pow!Push, PowersInv, PowerRequestOK
  <1>2. PICK r \in PowerRequest : req' = [req EXCEPT ![q] = r] /\ r.at = "idle"
    BY PowerEndsAs DEF Pow!Push
  <1>3. pushes' = [pushes EXCEPT ![p] = 1]
    BY <1>1 DEF Pow!Push
  <1>4. \A s \in Requests : req[s].at = "push" /\ s # q => req[s].id # p
    BY <1>1 DEF PowersInv, OneCreator
  <1> HIDE DEF p
  <1>5. req'[q] = r /\ \A s \in Requests \ {q} : req'[s] = req[s]
    BY <1>2 DEF PowersInv, PowersTyped
  <1>6. \A o \in Powers \ {p} : pushes'[o] = pushes[o]
    BY <1>1, <1>3 DEF PowersInv, PowersTyped
  <1>7. PowersTyped'
    BY <1>1, <1>2, <1>3 DEF PowersInv, PowersTyped
  <1>8. OneCreator'
    BY <1>2, <1>5 DEF PowersInv, OneCreator
  <1>9. ASSUME NEW s \in Requests PROVE PowerRequestOK(s)'
    <2>1. CASE s = q
      BY <1>2, <1>5, <2>1 DEF PowerRequestOK
    <2>2. CASE s # q
      <3>1. req'[s] = req[s] /\ PowerRequestOK(s)
        BY <1>5, <2>2 DEF PowersInv
      <3>2. req[s].at = "push" => req[s].id \in Powers \ {p}
        BY <1>4, <2>2, <3>1 DEF PowerRequestOK
      <3> QED
        BY <1>1, <1>6, <3>1, <3>2 DEF PowerRequestOK
    <2> QED
      BY <2>1, <2>2
  <1>10. ASSUME NEW o \in Powers PROVE PowerOK(o)'
    <2>1. read[o] \subseteq Requests /\ PowerOK(o)
      BY DEF PowersInv, PowersTyped
    <2>2. Heard(o)' = Heard(o)
      BY <1>1, <1>2, <1>5, <2>1 DEF Heard, Deciding
    <2>3. power[o] = Pow!NoRow => o # p
      BY <1>1
    <2>4. \A s \in read[o] : req[s].at = "write" => req'[s] = req[s]
      BY <1>1, <1>5, <2>1
    <2> QED
      BY <1>1, <1>6, <2>1, <2>2, <2>3, <2>4 DEF PowerOK
  <1> QED
    BY <1>7, <1>8, <1>9, <1>10 DEF PowersInv

LEMMA LoadSafe ==
    ASSUME Pow!ConstantsAssumption, PowersInv, NEW q \in Requests, Pow!Load(q)
    PROVE  PowersInv'
  <1> DEFINE p == req[q].id
  <1>1. /\ req[q].at = "decide" /\ UNCHANGED <<power, letters, pushes>>
        /\ req[q] \in PowerRequest /\ p \in Powers
    BY DEF Pow!Load, PowersInv, PowersTyped, PowerRequestOK
  <1>2. ASSUME NEW a \in Nat, Pow!Ends(q, a), UNCHANGED read PROVE PowersInv'
    BY <1>1, <1>2, PowerQuietEnd
  <1>3. ASSUME power[p].requestee = req[q].actor, Pow!Legal(power[p].state, req[q].submitted.state),
               req' = [req EXCEPT ![q].at = "write"],
               read' = [read EXCEPT ![p] = @ \cup {q}]
        PROVE  PowersInv'
    <2> DEFINE r == [req[q] EXCEPT !.at = "write"]
    <2>1. /\ r \in PowerRequest /\ r.at = "write" /\ r.id = p /\ r.actor = req[q].actor
          /\ r.submitted = req[q].submitted
      BY <1>1 DEF PowerRequest, PowerPoints
    <2>2. req' = [req EXCEPT ![q] = r]
      BY <1>3
    <2>3. /\ power[p].state = Pow!PENDING /\ power[p] # Pow!NoRow
          /\ r.submitted.state \in {Pow!APPROVED, Pow!REJECTED}
      BY <1>3, <2>1, RowsApart DEF Pow!Legal
    <2> HIDE DEF p, r
    <2>4. req'[q] = r /\ \A s \in Requests \ {q} : req'[s] = req[s]
      BY <2>2 DEF PowersInv, PowersTyped
    <2>5. read'[p] = read[p] \cup {q} /\ \A o \in Powers \ {p} : read'[o] = read[o]
      BY <1>1, <1>3 DEF PowersInv, PowersTyped
    <2>6. PowersTyped'
      BY <1>1, <1>3, <2>1, <2>2 DEF PowersInv, PowersTyped
    <2>7. OneCreator'
      BY <2>1, <2>4 DEF PowersInv, OneCreator
    <2>8. ASSUME NEW s \in Requests PROVE PowerRequestOK(s)'
      <3>1. CASE s = q
        BY <1>1, <1>3, <2>1, <2>3, <2>4, <2>5, <3>1 DEF PowerRequestOK
      <3>2. CASE s # q
        <4>1. req'[s] = req[s] /\ PowerRequestOK(s) /\ \A o \in Powers : read[o] \subseteq read'[o]
          BY <2>4, <2>5, <3>2 DEF PowersInv
        <4> QED
          BY <1>1, <4>1 DEF PowerRequestOK
      <3> QED
        BY <3>1, <3>2
    <2>9. ASSUME NEW o \in Powers PROVE PowerOK(o)'
      <3>1. read[o] \subseteq Requests /\ PowerOK(o) /\ IsFiniteSet(read'[o])
            /\ letters[o] \in Nat
        <4>1. read'[o] \subseteq Requests
          BY <2>6 DEF PowersTyped
        <4> QED
          BY <4>1, FS_Subset
             DEF PowersInv, PowersTyped, Pow!ConstantsAssumption, Pow!IsFiniteSet, IsFiniteSet
      <3>2. Heard(o) \subseteq Heard(o)'
        <4>1. o = p => Heard(o) \cap {q} = {}
          BY <1>1, <2>3, <3>1 DEF PowerOK, Heard
        <4> QED
          BY <1>1, <2>1, <2>4, <2>5, <3>1, <4>1 DEF Heard, Deciding
      <3>3. letters'[o] <= Cardinality(Heard(o)')
        <4>1. IsFiniteSet(Heard(o)') /\ letters[o] <= Cardinality(Heard(o))
          BY <3>1, FS_Subset DEF Heard, PowerOK
        <4> QED
          BY <1>1, <3>1, <3>2, <4>1, HeardGrows
      <3>4. CASE o = p
        BY <1>1, <2>1, <2>3, <2>4, <2>5, <3>1, <3>3, <3>4 DEF PowerOK
      <3>5. CASE o # p
        <4>1. read'[o] = read[o] /\ \A s \in read[o] : req[s].at = "write" => req'[s] = req[s]
          BY <1>1, <2>4, <2>5, <3>1, <3>5
        <4> QED
          BY <1>1, <3>1, <3>3, <4>1 DEF PowerOK
      <3> QED
        BY <3>4, <3>5
    <2> QED
      BY <2>6, <2>7, <2>8, <2>9 DEF PowersInv
  <1> HIDE DEF p
  <1>4. CASE power[p].requestee = req[q].actor /\ Pow!Legal(power[p].state, req[q].submitted.state)
             /\ power[p] # Pow!NoRow
    <2>1. req' = [req EXCEPT ![q].at = "write"] /\ read' = [read EXCEPT ![p] = @ \cup {q}]
      BY <1>4 DEF Pow!Load, p
    <2> QED
      BY <1>3, <1>4, <2>1
  <1>5. CASE ~(power[p].requestee = req[q].actor /\ Pow!Legal(power[p].state, req[q].submitted.state)
               /\ power[p] # Pow!NoRow)
    <2>1. power[p] = Pow!NoRow => ~Pow!Legal(power[p].state, req[q].submitted.state)
      BY RowsApart DEF Pow!Legal
    <2>2. (Pow!Ends(q, 500) \/ Pow!Ends(q, 403) \/ Pow!Ends(q, 409)) /\ UNCHANGED read
      <3> DEFINE entry == power[p]
      <3>1. CASE entry = Pow!NoRow
        BY <2>1, <3>1 DEF Pow!Load, p
      <3>2. CASE entry # Pow!NoRow /\ entry.requestee # req[q].actor
        BY <3>2 DEF Pow!Load, p
      <3>3. CASE entry # Pow!NoRow /\ entry.requestee = req[q].actor
        BY <1>5, <3>3 DEF Pow!Load, p
      <3> QED
        BY <3>1, <3>2, <3>3
    <2> QED
      BY <1>2, <2>2
  <1> QED
    BY <1>4, <1>5

\* What is known of a request that is deciding, and what it does on its way
\* that does not depend on where it goes.
LEMMA DecidingStep ==
    ASSUME Pow!ConstantsAssumption, PowersInv, NEW q \in Requests, NEW p \in Powers,
           req[q].id = p, req[q].at \in {"write", "mail"}, NEW r \in PowerRequest,
           req' = [req EXCEPT ![q] = r], r.at = "idle" \/ (r.at = "mail" /\ r.id = p),
           UNCHANGED <<pushes, read>>, power'[p].state # Pow!PENDING, power'[p] # Pow!NoRow,
           power'[p].requester = power[p].requester, power'[p].requestee = power[p].requestee,
           \A o \in Powers \ {p} : power'[o] = power[o] /\ letters'[o] = letters[o],
           power' \in [Powers -> Pow!Row \cup {Pow!NoRow}], letters' \in [Powers -> Nat],
           letters'[p] <= Cardinality(Heard(p)'),
           r.at = "mail" => r.actor = power[p].requestee /\ r.submitted = req[q].submitted
    PROVE  PowersInv'
  <1>1. req'[q] = r /\ \A s \in Requests \ {q} : req'[s] = req[s]
    BY DEF PowersInv, PowersTyped
  <1>2. PowersTyped'
    BY DEF PowersInv, PowersTyped
  <1>3. OneCreator'
    BY <1>1 DEF PowersInv, OneCreator
  <1>4. PowerRequestOK(q) /\ power[p] # Pow!NoRow /\ q \in read[p]
    BY DEF PowersInv, PowerRequestOK
  <1>5. ASSUME NEW s \in Requests PROVE PowerRequestOK(s)'
    <2>1. CASE s = q
      BY <1>1, <1>4, <2>1 DEF PowerRequestOK
    <2>2. CASE s # q
      <3>1. req'[s] = req[s] /\ PowerRequestOK(s)
        BY <1>1, <2>2 DEF PowersInv
      <3>2. CASE req[s].id = p
        BY <1>4, <3>1, <3>2 DEF PowerRequestOK
      <3>3. CASE req[s].id # p
        <4>1. req[s].id \in Powers => power'[req[s].id] = power[req[s].id]
          BY <3>3
        <4> QED
          BY <3>1, <4>1 DEF PowerRequestOK
      <3> QED
        BY <3>2, <3>3
    <2> QED
      BY <2>1, <2>2
  <1>6. ASSUME NEW o \in Powers PROVE PowerOK(o)'
    <2>1. read[o] \subseteq Requests /\ PowerOK(o) /\ PowerOK(p)
      BY DEF PowersInv, PowersTyped
    <2>2. CASE o = p
      BY <1>4, <2>1, <2>2 DEF PowerOK
    <2>3. CASE o # p
      <3>1. Heard(o)' = Heard(o)
        BY <1>1, <2>1, <2>3 DEF Heard, Deciding
      <3>2. \A s \in read[o] : req[s].id = o => req'[s] = req[s]
        BY <1>1, <2>1, <2>3
      <3>3. power'[o] = power[o] /\ letters'[o] = letters[o]
        BY <2>3
      <3> QED
        BY <2>1, <3>1, <3>2, <3>3 DEF PowerOK
    <2> QED
      BY <2>2, <2>3
  <1> QED
    BY <1>2, <1>3, <1>5, <1>6 DEF PowersInv

LEMMA WriteSafe ==
    ASSUME Pow!ConstantsAssumption, PowersInv, NEW q \in Requests, Pow!Write(q)
    PROVE  PowersInv'
  <1>0. PICK p \in Powers : p = req[q].id
    BY DEF Pow!Write, PowersInv, PowerRequestOK
  <1> DEFINE s == req[q].submitted.state
  <1>1. /\ req[q].at = "write" /\ UNCHANGED <<letters, pushes, read>>
        /\ req[q] \in PowerRequest /\ p \in Powers /\ power[p] # Pow!NoRow /\ power[p] \in Pow!Row
        /\ s \in {Pow!APPROVED, Pow!REJECTED} /\ req[q].actor = power[p].requestee
    BY <1>0 DEF Pow!Write, PowersInv, PowersTyped, PowerRequestOK
  <1> DEFINE entry == [power[p] EXCEPT !.state = s]
  <1>2. power' = [power EXCEPT ![p] = entry]
    BY <1>0 DEF Pow!Write
  <1> HIDE DEF s
  <1>3. /\ entry \in Pow!Row /\ entry.state # Pow!PENDING /\ entry # Pow!NoRow
        /\ entry.requester = power[p].requester /\ entry.requestee = power[p].requestee
    <2>1. entry \in Pow!Row /\ entry.state = s
      BY <1>1 DEF Pow!Row, Pow!APPROVED, Pow!REJECTED, Pow!PENDING
    <2> QED
      BY <1>1, <2>1, RowsApart DEF Pow!Row, Pow!APPROVED, Pow!REJECTED, Pow!PENDING
  <1> HIDE DEF entry
  <1>4. PICK r \in PowerRequest : /\ req' = [req EXCEPT ![q] = r]
                             /\ \/ r.at = "idle"
                                \/ /\ r.at = "mail" /\ r.id = p /\ r.actor = req[q].actor
                                   /\ r.submitted = req[q].submitted
    <2>1. CASE Pow!Mails(req[q].submitted)
      <3> DEFINE r == [req[q] EXCEPT !.at = "mail"]
      <3>1. /\ r \in PowerRequest /\ r.at = "mail" /\ r.id = p /\ r.actor = req[q].actor
            /\ r.submitted = req[q].submitted
        BY <1>0, <1>1 DEF PowerRequest, PowerPoints
      <3>2. req' = [req EXCEPT ![q] = r]
        BY <2>1 DEF Pow!Write
      <3> HIDE DEF r
      <3> QED
        BY <3>1, <3>2
    <2>2. CASE ~Pow!Mails(req[q].submitted)
      BY <2>2, PowerEndsAs DEF Pow!Write
    <2> QED
      BY <2>1, <2>2
  <1>5. power'[p] = entry /\ \A o \in Powers \ {p} : power'[o] = power[o]
    BY <1>1, <1>2 DEF PowersInv, PowersTyped
  <1>6. power' \in [Powers -> Pow!Row \cup {Pow!NoRow}]
    BY <1>2, <1>3 DEF PowersInv, PowersTyped
  <1>7. letters'[p] <= Cardinality(Heard(p)) /\ letters[p] \in Nat /\ letters' = letters
        /\ read[p] \subseteq Requests /\ letters \in [Powers -> Nat]
    BY <1>1 DEF PowersInv, PowerOK, PowersTyped
  <1>8. letters'[p] <= Cardinality(Heard(p)')
    <2>1. Heard(p) \subseteq Heard(p)' /\ Heard(p)' \subseteq Requests
      <3>1. req'[q] = r /\ \A t \in Requests \ {q} : req'[t] = req[t]
        BY <1>4 DEF PowersInv, PowersTyped
      <3>2. q \notin Heard(p)
        BY <1>0, <1>1 DEF Heard, Deciding
      <3> QED
        BY <1>1, <1>7, <3>1, <3>2 DEF Heard, Deciding
    <2>2. IsFiniteSet(Heard(p)')
      BY <2>1, FS_Subset DEF Pow!ConstantsAssumption, Pow!IsFiniteSet, IsFiniteSet
    <2> QED
      BY <1>7, <2>1, <2>2, HeardGrows
  <1>9. /\ power'[p].state # Pow!PENDING /\ power'[p] # Pow!NoRow
        /\ power'[p].requester = power[p].requester /\ power'[p].requestee = power[p].requestee
        /\ \A o \in Powers \ {p} : power'[o] = power[o] /\ letters'[o] = letters[o]
        /\ letters' \in [Powers -> Nat] /\ UNCHANGED <<pushes, read>>
    BY <1>1, <1>3, <1>5, <1>7
  <1>10. /\ r.at = "idle" \/ (r.at = "mail" /\ r.id = p)
         /\ r.at = "mail" => r.actor = power[p].requestee /\ r.submitted = req[q].submitted
    BY <1>1, <1>4
  <1> QED
    BY <1>0, <1>1, <1>4, <1>6, <1>8, <1>9, <1>10, DecidingStep

LEMMA MailSafe ==
    ASSUME Pow!ConstantsAssumption, PowersInv, NEW q \in Requests, Pow!Mail(q)
    PROVE  PowersInv'
  <1>1. /\ req[q].at = "mail" /\ UNCHANGED <<power, pushes, read>>
        /\ req[q].id \in Powers /\ power[req[q].id] # Pow!NoRow
        /\ power[req[q].id].state # Pow!PENDING /\ q \in read[req[q].id]
    BY DEF Pow!Mail, PowersInv, PowerRequestOK
  <1>2. PICK p \in Powers : p = req[q].id
    BY <1>1
  <1>3. PICK r \in PowerRequest : req' = [req EXCEPT ![q] = r] /\ r.at = "idle"
    BY PowerEndsAs DEF Pow!Mail
  <1>4. letters' = [letters EXCEPT ![p] = @ + 1]
    BY <1>2 DEF Pow!Mail
  <1>5. /\ letters' \in [Powers -> Nat] /\ letters'[p] = letters[p] + 1
        /\ \A o \in Powers \ {p} : letters'[o] = letters[o]
    BY <1>4 DEF PowersInv, PowersTyped
  <1>6. letters'[p] <= Cardinality(Heard(p)')
    <2>1. req'[q] = r /\ \A t \in Requests \ {q} : req'[t] = req[t]
      BY <1>3 DEF PowersInv, PowersTyped
    <2>2. read[p] \subseteq Requests /\ letters[p] \in Nat
          /\ letters[p] <= Cardinality(Heard(p))
      BY DEF PowersInv, PowersTyped, PowerOK
    <2>3. q \notin Heard(p) /\ q \in Heard(p)'
      BY <1>1, <1>2, <1>3, <2>1 DEF Heard, Deciding
    <2>4. Heard(p) \subseteq Heard(p)' /\ Heard(p)' \subseteq Requests
      BY <1>1, <2>1, <2>2, <2>3 DEF Heard, Deciding
    <2>5. IsFiniteSet(Heard(p)')
      BY <2>4, FS_Subset DEF Pow!ConstantsAssumption, Pow!IsFiniteSet, IsFiniteSet
    <2> QED
      BY <1>5, <2>2, <2>3, <2>4, <2>5, HeardOnceMore
  <1>7. power' = power /\ power \in [Powers -> Pow!Row \cup {Pow!NoRow}]
    BY <1>1 DEF PowersInv, PowersTyped
  <1>8. /\ power'[p].state # Pow!PENDING /\ power'[p] # Pow!NoRow
        /\ power'[p].requester = power[p].requester /\ power'[p].requestee = power[p].requestee
        /\ \A o \in Powers \ {p} : power'[o] = power[o] /\ letters'[o] = letters[o]
        /\ power' \in [Powers -> Pow!Row \cup {Pow!NoRow}] /\ letters' \in [Powers -> Nat]
        /\ UNCHANGED <<pushes, read>>
    BY <1>1, <1>2, <1>5, <1>7
  <1>9. req[q].id = p /\ req[q].at \in {"write", "mail"}
    BY <1>1, <1>2
  <1>10. /\ r.at = "idle" \/ (r.at = "mail" /\ r.id = p)
         /\ r.at = "mail" => r.actor = power[p].requestee /\ r.submitted = req[q].submitted
    BY <1>3
  <1> QED
    BY <1>3, <1>6, <1>8, <1>9, <1>10, DecidingStep

LEMMA PowersStutter == ASSUME PowersInv, UNCHANGED Pow!vars  PROVE PowersInv'
  <1> USE DEF Pow!vars
  <1>1. PowersTyped' /\ OneCreator'
    BY DEF PowersInv, PowersTyped, OneCreator
  <1>2. \A q \in Requests : PowerRequestOK(q)'
    BY DEF PowersInv, PowerRequestOK
  <1>3. \A p \in Powers : PowerOK(p)'
    BY DEF PowersInv, PowerOK, Heard, Deciding
  <1> QED
    BY <1>1, <1>2, <1>3 DEF PowersInv

LEMMA NextPowersInv ==
    ASSUME Pow!ConstantsAssumption, PowersInv, [Pow!Next]_(Pow!vars)
    PROVE  PowersInv'
  BY PowerPostSafe, PowerCreateSafe, PushSafe, LoadSafe, WriteSafe, MailSafe, PowersStutter
     DEF Pow!Next, Pow!Step

LEMMA PowersTypesHold == ASSUME PowersInv  PROVE Pow!TypeOK
  BY DEF PowersInv, PowersTyped, PowerOK, Pow!TypeOK

LEMMA FewLetters == ASSUME Pow!ConstantsAssumption, PowersInv  PROVE Pow!LettersWereDecisions
  <1> SUFFICES ASSUME NEW p \in Powers PROVE letters[p] <= Cardinality(read[p])
    BY DEF Pow!LettersWereDecisions, Pow!Cardinality, Cardinality, Pow!IsFiniteSet, IsFiniteSet
  <1>1. letters[p] \in Nat /\ letters[p] <= Cardinality(Heard(p)) /\ read[p] \subseteq Requests
    BY DEF PowersInv, PowersTyped, PowerOK
  <1>2. IsFiniteSet(read[p]) /\ Heard(p) \subseteq read[p]
    BY <1>1, FS_Subset DEF Pow!ConstantsAssumption, Pow!IsFiniteSet, IsFiniteSet, Heard
  <1> QED
    BY <1>1, <1>2, HeardGrows

\* The step that decides: its request is the requestee's, who is not the requester.
LEMMA TwoDecide == ASSUME PowersInv, [Pow!Next]_(Pow!vars)  PROVE Pow!LetterTakesTwo
  <1> SUFFICES ASSUME NEW p \in Powers, power'[p].state # power[p].state, power[p] # Pow!NoRow
               PROVE  \E q \in Requests : /\ req[q].at = "write" /\ req[q].id = p
                                          /\ req[q].actor = power[p].requestee
                                          /\ req[q].actor # power[p].requester
    BY DEF Pow!LetterTakesTwo
  <1>1. ASSUME NEW q \in Requests, Pow!Write(q), req[q].id = p
        PROVE  /\ req[q].at = "write" /\ req[q].actor = power[p].requestee
               /\ req[q].actor # power[p].requester
    BY <1>1 DEF Pow!Write, PowersInv, PowerRequestOK, PowerOK
  <1>2. ASSUME NEW q \in Requests, Pow!Write(q) PROVE req[q].id = p
    BY <1>2 DEF Pow!Write, PowersInv, PowersTyped
  <1>3. ASSUME NEW q \in Requests, Pow!Create(q) PROVE power'[p] = power[p]
    BY <1>3 DEF Pow!Create, Pow!Existing, PowersInv, PowersTyped
  <1>4. PICK q \in Requests : Pow!Write(q)
    BY <1>3 DEF Pow!Next, Pow!Step, Pow!Post, Pow!Push, Pow!Load, Pow!Mail, Pow!vars
  <1> QED
    BY <1>1, <1>2, <1>4

\* In every state each power's letters are those of the requests that read it
\* pending and decided it (updatePower).
THEOREM PowersAlways == ASSUME Pow!ConstantsAssumption  PROVE Pow!Spec => []PowersInv
  BY PowersInit, NextPowersInv, PTL DEF Pow!Spec

\* An approval is announced as often at most as it was read pending.
THEOREM LettersAreFew ==
    ASSUME Pow!ConstantsAssumption
    PROVE  Pow!Spec => []Pow!LettersWereDecisions
  BY PowersAlways, FewLetters, PTL

\* Nobody decides alone.
THEOREM TwoForEachLetter ==
    ASSUME Pow!ConstantsAssumption
    PROVE  Pow!Spec => [][Pow!LetterTakesTwo]_(Pow!vars)
  BY PowersAlways, TwoDecide, PTL DEF Pow!Spec

-----------------------------------------------------------------------------
(***************************************************************************)
(* Files.                                                                  *)
(*                                                                         *)
(* FilesInv says what each point of a request knows: before the upload it  *)
(* has written nothing, after it the object is there, and an object that   *)
(* was found is there still, for none is ever removed.  An object without  *)
(* a row has been given up, or stands with a request that will insert its  *)
(* row: one that had not found the object, which UnlistedNeedsLoss alone   *)
(* does not say and a step of another request needs.                       *)
(***************************************************************************)

FilePoints == {"idle", "check", "exists", "upload", "insert"}
FileRequest == [at : FilePoints, type : Fil!Types \cup {Fil!NoType}, name : Names,
            exists : BOOLEAN, uploaded : BOOLEAN, answer : Nat]

\* What a request r knows of the bucket, o.
FileRequestOK(r, o) ==
    /\ r.at # "idle" => r.type \in Fil!Types /\ r.answer = 0
    /\ r.at \in {"check", "exists", "upload"} => ~r.uploaded
    /\ r.at = "insert" => r.uploaded /\ o[Fil!Path(r)] > 0
    /\ r.at \in {"upload", "insert"} /\ r.exists => o[Fil!Path(r)] > 0
    /\ r.answer = 409 => ~r.uploaded

\* Somebody is about to insert the row of path p.
Awaited(p) == \E q \in Requests : req[q].at = "insert" /\ ~req[q].exists /\ Fil!Path(req[q]) = p

FilesInv ==
    /\ row \in [Names -> Fil!Types \cup {Fil!NoType}]
    /\ object \in [Fil!Paths -> Nat]
    /\ dropped \subseteq Fil!Paths /\ stored \subseteq Fil!Paths
    /\ req \in [Requests -> FileRequest]
    /\ \A q \in Requests : FileRequestOK(req[q], object)
    /\ Fil!RowHasObject
    /\ \A p \in Fil!Paths : object[p] > 0 /\ ~Fil!Listed(p) => p \in dropped \/ Awaited(p)

-----------------------------------------------------------------------------
LEMMA TypesApart == Fil!NoType \notin Fil!Types /\ Fil!NoType \in Nat
  BY DEF Fil!NoType, Fil!Types

LEMMA LowerType ==
    ASSUME Fil!ConstantsAssumption, NEW n \in Names
    PROVE  Fil!Lower(n) \in LowerNames
  BY DEF Fil!ConstantsAssumption, Fil!Lower

LEMMA PathType ==
    ASSUME Fil!ConstantsAssumption, NEW r \in FileRequest, r.type \in Fil!Types
    PROVE  Fil!Path(r) \in Fil!Paths /\ Fil!Path(r)[1] = r.type /\ Fil!Path(r)[2] = Fil!Lower(r.name)
  BY LowerType DEF Fil!Path, Fil!Paths, FileRequest

LEMMA FileIdleType == Fil!ConstantsAssumption => Fil!Idle \in FileRequest
  <1>1. Fil!ConstantsAssumption => (CHOOSE n \in Names : TRUE) \in Names
    BY DEF Fil!ConstantsAssumption
  <1> QED
    BY <1>1 DEF Fil!Idle, FileRequest, FilePoints

LEMMA IdleFields ==
    Fil!Idle.at = "idle" /\ Fil!Idle.uploaded = FALSE /\ Fil!Idle.answer = 0 /\ Fil!Idle.exists = FALSE
  BY DEF Fil!Idle

LEMMA FilesInit == ASSUME Fil!ConstantsAssumption, Fil!Init  PROVE FilesInv
  <1>1. \A q \in Requests : req[q] = Fil!Idle
    BY DEF Fil!Init
  <1>2. req \in [Requests -> FileRequest] /\ \A q \in Requests : FileRequestOK(req[q], object)
    BY <1>1, FileIdleType, IdleFields DEF Fil!Init, FileRequestOK
  <1> QED
    BY <1>2, TypesApart DEF Fil!Init, FilesInv, Fil!RowHasObject

\* What one request may do to the others: a row or an object it does not have
\* to share stays as it is, and nothing is taken away.
FileGrows ==
    /\ row' \in [Names -> Fil!Types \cup {Fil!NoType}]
    /\ object' \in [Fil!Paths -> Nat]
    /\ dropped' \subseteq Fil!Paths /\ stored' \subseteq Fil!Paths
    /\ \A p \in Fil!Paths : object[p] > 0 => object'[p] > 0
    /\ \A n \in Names : row[n] # Fil!NoType => row'[n] = row[n]
    /\ dropped \subseteq dropped'

LEMMA ListedStays ==
    ASSUME FilesInv, FileGrows, NEW p \in Fil!Paths, Fil!Listed(p)
    PROVE  Fil!Listed(p)'
  <1>1. PICK n \in Names : row[n] = p[1] /\ Fil!Lower(n) = p[2]
    BY DEF Fil!Listed
  <1>2. row'[n] = row[n]
    BY <1>1, TypesApart DEF FileGrows, Fil!Paths
  <1> QED
    BY <1>1, <1>2 DEF Fil!Listed

\* A step of one request keeps the invariant when what it leaves of itself is
\* well formed, a row it inserts has its object, and a path it stops waiting
\* for, or writes for the first time, is accounted for.
LEMMA RequestStep ==
    ASSUME Fil!ConstantsAssumption, FilesInv, FileGrows, NEW q \in Requests, NEW r \in FileRequest,
           req' = [req EXCEPT ![q] = r], FileRequestOK(r, object'),
           \A n \in Names : row'[n] # row[n] => object'[<<row'[n], Fil!Lower(n)>>] > 0,
           \A p \in Fil!Paths :
               \/ object'[p] = object[p]
                  /\ (req[q].at = "insert" /\ ~req[q].exists /\ Fil!Path(req[q]) = p =>
                         Fil!Listed(p)' \/ p \in dropped')
               \/ object[p] > 0 /\ req[q].at # "insert"
               \/ p \in dropped'
               \/ r.at = "insert" /\ ~r.exists /\ Fil!Path(r) = p
    PROVE  FilesInv'
  <1>1. req' \in [Requests -> FileRequest]
    BY DEF FilesInv
  <1>2. req'[q] = r /\ \A s \in Requests \ {q} : req'[s] = req[s]
    BY DEF FilesInv
  <1>3. ASSUME NEW s \in Requests PROVE FileRequestOK(req'[s], object')
    <2>1. CASE s = q
      BY <1>2, <2>1 DEF FileRequestOK, Fil!Path
    <2>2. CASE s # q
      <3>1. req'[s] = req[s] /\ req[s] \in FileRequest /\ FileRequestOK(req[s], object)
        BY <1>2, <2>2 DEF FilesInv
      <3>2. req[s].at # "idle" => Fil!Path(req[s]) \in Fil!Paths
        BY <3>1, PathType DEF FileRequestOK
      <3> QED
        BY <3>1, <3>2 DEF FileRequestOK, FileGrows, Fil!Path
    <2> QED
      BY <2>1, <2>2
  <1>4. Fil!RowHasObject'
    <2> SUFFICES ASSUME NEW n \in Names, row'[n] \in Fil!Types
                 PROVE  object'[<<row'[n], Fil!Lower(n)>>] > 0
      BY DEF Fil!RowHasObject
    <2>1. CASE row'[n] = row[n]
      <3>1. <<row[n], Fil!Lower(n)>> \in Fil!Paths /\ object[<<row[n], Fil!Lower(n)>>] > 0
        BY <2>1, LowerType DEF FilesInv, Fil!RowHasObject, Fil!Paths
      <3> QED
        BY <2>1, <3>1 DEF FileGrows
    <2> QED
      BY <2>1
  <1>5. ASSUME NEW p \in Fil!Paths, object'[p] > 0, ~Fil!Listed(p)' PROVE p \in dropped' \/ Awaited(p)'
    <2>1. ASSUME object[p] > 0, p \notin dropped',
                 ~(req[q].at = "insert" /\ ~req[q].exists /\ Fil!Path(req[q]) = p)
          PROVE  Awaited(p)'
      <3>1. ~Fil!Listed(p) /\ p \notin dropped
        BY <1>5, <2>1, ListedStays DEF FileGrows
      <3>2. PICK s \in Requests : req[s].at = "insert" /\ ~req[s].exists /\ Fil!Path(req[s]) = p
        BY <2>1, <3>1 DEF FilesInv, Awaited
      <3>3. s # q /\ req'[s] = req[s]
        BY <1>2, <2>1, <3>2
      <3> QED
        BY <3>2, <3>3 DEF Awaited, Fil!Path
    <2>2. CASE r.at = "insert" /\ ~r.exists /\ Fil!Path(r) = p
      BY <1>2, <2>2 DEF Awaited, Fil!Path
    <2> QED
      BY <1>5, <2>1, <2>2
  <1> QED
    BY <1>1, <1>3, <1>4, <1>5 DEF FilesInv, FileGrows

\* Where a step leaves the tables as they are.
LEMMA FileQuietStep ==
    ASSUME Fil!ConstantsAssumption, FilesInv, NEW q \in Requests, NEW r \in FileRequest,
           req' = [req EXCEPT ![q] = r], FileRequestOK(r, object),
           UNCHANGED <<row, object, dropped, stored>>, req[q].at # "insert"
    PROVE  FilesInv'
  <1>1. FileGrows
    BY DEF FileGrows, FilesInv
  <1>2. \A p \in Fil!Paths : object'[p] = object[p]
    OBVIOUS
  <1> QED
    BY <1>1, <1>2, RequestStep

\* A request that ends.
LEMMA FileEndsAs ==
    ASSUME Fil!ConstantsAssumption, FilesInv, NEW q \in Requests, NEW a \in Nat, Fil!Ends(q, a),
           a = 409 => ~req[q].uploaded
    PROVE  \E r \in FileRequest : /\ req' = [req EXCEPT ![q] = r] /\ r.at = "idle"
                              /\ \A o : FileRequestOK(r, o)
  <1> DEFINE r == [Fil!Idle EXCEPT !.answer = a, !.uploaded = req[q].uploaded]
  <1>1. req[q] \in FileRequest
    BY DEF FilesInv
  <1>2. req[q].uploaded \in BOOLEAN
    BY <1>1 DEF FileRequest
  <1>3. r \in FileRequest /\ r.at = "idle" /\ r.answer = a /\ r.uploaded = req[q].uploaded
    BY <1>2, FileIdleType, IdleFields DEF FileRequest
  <1>4. req' = [req EXCEPT ![q] = r]
    BY DEF Fil!Ends
  <1> HIDE DEF r
  <1>5. \A o : FileRequestOK(r, o)
    BY <1>3 DEF FileRequestOK
  <1> QED
    BY <1>3, <1>4, <1>5

LEMMA FileQuietEnd ==
    ASSUME Fil!ConstantsAssumption, FilesInv, NEW q \in Requests, NEW a \in Nat, Fil!Ends(q, a),
           a = 409 => ~req[q].uploaded,
           UNCHANGED <<row, object, dropped, stored>>, req[q].at # "insert"
    PROVE  FilesInv'
  BY FileEndsAs, FileQuietStep

LEMMA FileCreateSafe ==
    ASSUME Fil!ConstantsAssumption, FilesInv, NEW q \in Requests, Fil!Create(q)
    PROVE  FilesInv'
  <1>1. CASE Fil!Ends(q, 400)
    <2>1. UNCHANGED <<row, object, dropped, stored>> /\ req[q].at # "insert"
      BY DEF Fil!Create
    <2> QED
      BY <1>1, <2>1, FileQuietEnd
  <1>2. ASSUME NEW t \in Fil!Types, NEW n \in Names,
               req' = [req EXCEPT ![q] = [Fil!Idle EXCEPT !.at = "check", !.type = t, !.name = n]]
        PROVE  FilesInv'
    <2> DEFINE r == [Fil!Idle EXCEPT !.at = "check", !.type = t, !.name = n]
    <2>1. /\ r \in FileRequest /\ r.at = "check" /\ r.type = t /\ r.answer = 0
          /\ r.uploaded = FALSE
      BY FileIdleType, IdleFields DEF FileRequest, FilePoints
    <2>2. req' = [req EXCEPT ![q] = r]
      BY <1>2
    <2> HIDE DEF r
    <2>3. FileRequestOK(r, object)
      BY <2>1 DEF FileRequestOK
    <2> QED
      BY <2>1, <2>2, <2>3, FileQuietStep DEF Fil!Create
  <1> QED
    BY <1>1, <1>2 DEF Fil!Create

LEMMA CheckNameSafe ==
    ASSUME Fil!ConstantsAssumption, FilesInv, NEW q \in Requests, Fil!CheckName(q)
    PROVE  FilesInv'
  <1>1. req[q] \in FileRequest /\ FileRequestOK(req[q], object) /\ req[q].at = "check"
    BY DEF FilesInv, Fil!CheckName
  <1>2. CASE Fil!Ends(q, 409)
    <2>1. ~req[q].uploaded
      BY <1>1 DEF FileRequestOK
    <2> QED
      BY <1>1, <1>2, <2>1, FileQuietEnd DEF Fil!CheckName
  <1>3. CASE Fil!Goes(q, "exists")
    <2> DEFINE r == [req[q] EXCEPT !.at = "exists"]
    <2>1. /\ r \in FileRequest /\ r.at = "exists" /\ r.type = req[q].type
          /\ r.answer = req[q].answer /\ r.uploaded = req[q].uploaded
      BY <1>1 DEF FileRequest, FilePoints
    <2>2. req' = [req EXCEPT ![q] = r]
      BY <1>3 DEF Fil!Goes
    <2> HIDE DEF r
    <2>3. FileRequestOK(r, object)
      BY <1>1, <2>1 DEF FileRequestOK
    <2> QED
      BY <1>1, <2>1, <2>2, <2>3, FileQuietStep DEF Fil!CheckName
  <1> QED
    BY <1>2, <1>3 DEF Fil!CheckName

LEMMA ExistsSafe ==
    ASSUME Fil!ConstantsAssumption, FilesInv, NEW q \in Requests, Fil!Exists(q)
    PROVE  FilesInv'
  <1>1. req[q] \in FileRequest /\ FileRequestOK(req[q], object) /\ req[q].at = "exists"
    BY DEF FilesInv, Fil!Exists
  <1>2. CASE Fil!Ends(q, 500)
    BY <1>1, <1>2, FileQuietEnd DEF Fil!Exists
  <1>3. CASE ~Fil!Ends(q, 500)
    <2> DEFINE found == object[Fil!Path(req[q])] > 0
               r == [req[q] EXCEPT !.at = "upload", !.exists = found]
    <2>1. found \in BOOLEAN
      OBVIOUS
    <2>2. req' = [req EXCEPT ![q] = r]
      BY <1>3 DEF Fil!Exists
    <2>3. found => object[Fil!Path(req[q])] > 0
      OBVIOUS
    <2> HIDE DEF found
    <2>4. /\ r \in FileRequest /\ r.at = "upload" /\ r.type = req[q].type /\ r.name = req[q].name
          /\ r.answer = req[q].answer /\ r.uploaded = req[q].uploaded /\ r.exists = found
      BY <1>1, <2>1 DEF FileRequest, FilePoints
    <2> HIDE DEF r
    <2>5. Fil!Path(r) = Fil!Path(req[q])
      BY <2>4 DEF Fil!Path
    <2>6. FileRequestOK(r, object)
      BY <1>1, <2>3, <2>4, <2>5 DEF FileRequestOK
    <2> QED
      BY <1>1, <2>2, <2>4, <2>6, FileQuietStep DEF Fil!Exists
  <1> QED
    BY <1>2, <1>3

LEMMA UploadSafe ==
    ASSUME Fil!ConstantsAssumption, FilesInv, NEW q \in Requests, Fil!Upload(q)
    PROVE  FilesInv'
  <1> DEFINE p == Fil!Path(req[q])
  <1>1. req[q] \in FileRequest /\ FileRequestOK(req[q], object) /\ req[q].at = "upload"
    BY DEF FilesInv, Fil!Upload
  <1>2. p \in Fil!Paths
    BY <1>1, PathType DEF FileRequestOK
  <1> HIDE DEF p
  <1>3. ASSUME object' = [object EXCEPT ![p] = @ + 1], UNCHANGED <<row, stored>>,
               dropped' \in {dropped, dropped \cup {p}}
        PROVE  FileGrows /\ object'[p] > 0 /\ \A o \in Fil!Paths \ {p} : object'[o] = object[o]
    BY <1>2, <1>3 DEF FilesInv, FileGrows
  <1>4. CASE Fil!Ends(q, 500) /\ UNCHANGED <<object, dropped>>
    BY <1>1, <1>4, FileQuietEnd DEF Fil!Upload
  <1>5. CASE /\ object' = [object EXCEPT ![p] = @ + 1]
             /\ req' = [req EXCEPT ![q].at = "insert", ![q].uploaded = TRUE]
             /\ UNCHANGED dropped
    <2> DEFINE r == [req[q] EXCEPT !.at = "insert", !.uploaded = TRUE]
    <2>1. /\ r \in FileRequest /\ r.at = "insert" /\ r.type = req[q].type /\ r.name = req[q].name
          /\ r.answer = req[q].answer /\ r.uploaded = TRUE /\ r.exists = req[q].exists
      BY <1>1 DEF FileRequest, FilePoints
    <2>2. req' = [req EXCEPT ![q] = r]
      BY <1>5
    <2> HIDE DEF r
    <2>3. Fil!Path(r) = p
      BY <2>1 DEF Fil!Path, p
    <2>4. FileGrows /\ object'[p] > 0 /\ \A o \in Fil!Paths \ {p} : object'[o] = object[o]
      BY <1>3, <1>5 DEF Fil!Upload
    <2>5. FileRequestOK(r, object')
      BY <1>1, <2>1, <2>3, <2>4 DEF FileRequestOK
    <2>6. req[q].exists => object[p] > 0
      BY <1>1 DEF FileRequestOK, p
    <2>7. row' = row
      BY DEF Fil!Upload
    <2> QED
      BY <1>1, <2>1, <2>2, <2>3, <2>4, <2>5, <2>6, <2>7, RequestStep
  <1>6. CASE /\ object' = [object EXCEPT ![p] = @ + 1]
             /\ dropped' = dropped \cup {p}
             /\ Fil!Ends(q, 500)
    <2>1. FileGrows /\ object'[p] > 0 /\ \A o \in Fil!Paths \ {p} : object'[o] = object[o]
      BY <1>3, <1>6 DEF Fil!Upload
    <2>2. row' = row /\ p \in dropped'
      BY <1>6 DEF Fil!Upload
    <2> QED
      BY <1>1, <1>6, <2>1, <2>2, FileEndsAs, RequestStep
  <1> QED
    BY <1>4, <1>5, <1>6 DEF Fil!Upload, p

LEMMA FileInsertSafe ==
    ASSUME Fil!ConstantsAssumption, FilesInv, NEW q \in Requests, Fil!Insert(q)
    PROVE  FilesInv'
  <1> DEFINE p == Fil!Path(req[q])  n == req[q].name  t == req[q].type
  <1>1. /\ req[q] \in FileRequest /\ FileRequestOK(req[q], object) /\ req[q].at = "insert"
        /\ object' = object
    BY DEF FilesInv, Fil!Insert
  <1>2. p \in Fil!Paths /\ n \in Names /\ t \in Fil!Types /\ p = <<t, Fil!Lower(n)>> /\ object[p] > 0
    BY <1>1, PathType DEF FileRequestOK, FileRequest, Fil!Path
  <1>3. ASSUME row' = row, dropped \subseteq dropped', dropped' \subseteq Fil!Paths,
               p \in dropped' \/ req[q].exists, stored' \subseteq Fil!Paths,
               NEW a \in Nat, a # 409, Fil!Ends(q, a)
        PROVE  FilesInv'
    <2>1. FileGrows
      BY <1>1, <1>2, <1>3 DEF FilesInv, FileGrows
    <2>2. \A o \in Fil!Paths : object'[o] = object[o]
                             /\ (req[q].at = "insert" /\ ~req[q].exists /\ Fil!Path(req[q]) = o =>
                                   o \in dropped')
      BY <1>1, <1>3
    <2> QED
      BY <1>1, <1>3, <2>1, <2>2, FileEndsAs, RequestStep
  <1>4. ASSUME row[n] = Fil!NoType, row' = [row EXCEPT ![n] = t], dropped' = dropped,
               stored' = stored \cup {p}, Fil!Ends(q, 201)
        PROVE  FilesInv'
    <2>1. row \in [Names -> Fil!Types \cup {Fil!NoType}]
      BY DEF FilesInv
    <2>2. FileGrows
      BY <1>1, <1>2, <1>4, <2>1 DEF FilesInv, FileGrows
    <2>3. row'[n] = t /\ \A m \in Names \ {n} : row'[m] = row[m]
      BY <1>2, <1>4, <2>1
    <2>4. ASSUME NEW o \in Fil!Paths, o = p PROVE Fil!Listed(o)'
      BY <1>2, <2>3, <2>4 DEF Fil!Listed
    <2>5. \A m \in Names : row'[m] # row[m] => object'[<<row'[m], Fil!Lower(m)>>] > 0
      BY <1>1, <1>2, <2>3
    <2>6. \A o \in Fil!Paths : object'[o] = object[o]
                             /\ (req[q].at = "insert" /\ ~req[q].exists /\ Fil!Path(req[q]) = o =>
                                   Fil!Listed(o)')
      BY <1>1, <2>4 DEF Fil!Path
    <2> QED
      BY <1>1, <1>4, <2>2, <2>5, <2>6, FileEndsAs, RequestStep
  <1> HIDE DEF p, n, t
  <1>5. CASE req[q].exists
    <2>1. UNCHANGED <<row, dropped>> /\ stored' = stored \cup {p} /\ Fil!Ends(q, 201)
      BY <1>5 DEF Fil!Insert, p
    <2> QED
      <3>1. /\ row' = row /\ stored' \subseteq Fil!Paths
            /\ dropped \subseteq dropped' /\ dropped' \subseteq Fil!Paths
        BY <1>2, <2>1 DEF FilesInv
      <3> QED
        BY <1>3, <1>5, <2>1, <3>1
  <1>6. CASE ~req[q].exists
    <2>1. \/ dropped' = dropped \cup {p} /\ Fil!Ends(q, 500) /\ UNCHANGED <<row, stored>>
          \/ /\ row[n] = Fil!NoType /\ row' = [row EXCEPT ![n] = t]
             /\ stored' = stored \cup {p} /\ Fil!Ends(q, 201) /\ UNCHANGED dropped
      BY <1>6 DEF Fil!Insert, p, n, t
    <2>2. CASE dropped' = dropped \cup {p} /\ Fil!Ends(q, 500) /\ UNCHANGED <<row, stored>>
      <3>1. /\ row' = row /\ stored' \subseteq Fil!Paths /\ p \in dropped'
            /\ dropped \subseteq dropped' /\ dropped' \subseteq Fil!Paths
        BY <1>2, <2>2 DEF FilesInv
      <3> QED
        BY <1>3, <2>2, <3>1
    <2>3. CASE /\ row[n] = Fil!NoType /\ row' = [row EXCEPT ![n] = t]
               /\ stored' = stored \cup {p} /\ Fil!Ends(q, 201) /\ UNCHANGED dropped
      BY <1>4, <2>3
    <2> QED
      BY <2>1, <2>2, <2>3
  <1> QED
    BY <1>5, <1>6

\* The process dies: every row that was awaited is given up.
LEMMA CrashSafe == ASSUME Fil!ConstantsAssumption, FilesInv, Fil!Crash  PROVE FilesInv'
  <1> DEFINE held == {r \in Requests : req[r].uploaded /\ req[r].at = "insert"}
  <1>1. /\ req' = [q \in Requests |-> Fil!Idle] /\ UNCHANGED <<row, object, stored>>
        /\ dropped' = dropped \cup {Fil!Path(req[q]) : q \in held}
    BY DEF Fil!Crash
  <1>2. \A q \in held : Fil!Path(req[q]) \in Fil!Paths
    BY PathType DEF FilesInv, FileRequestOK
  <1>3. dropped' \subseteq Fil!Paths
    BY <1>1, <1>2 DEF FilesInv
  <1>4. /\ req' \in [Requests -> FileRequest]
        /\ \A q \in Requests : FileRequestOK(req'[q], object')
    BY <1>1, FileIdleType, IdleFields DEF FileRequestOK
  <1>5. Fil!RowHasObject' /\ \A p \in Fil!Paths : Fil!Listed(p)' = Fil!Listed(p)
    BY <1>1 DEF FilesInv, Fil!RowHasObject, Fil!Listed
  <1>6. ASSUME NEW p \in Fil!Paths, object'[p] > 0, ~Fil!Listed(p)' PROVE p \in dropped'
    <2>1. p \in dropped \/ Awaited(p)
      BY <1>1, <1>5, <1>6 DEF FilesInv
    <2>2. ASSUME NEW q \in Requests, req[q].at = "insert", Fil!Path(req[q]) = p PROVE q \in held
      BY <2>2 DEF FilesInv, FileRequestOK
    <2> QED
      BY <1>1, <2>1, <2>2 DEF Awaited
  <1> QED
    BY <1>1, <1>3, <1>4, <1>5, <1>6 DEF FilesInv

LEMMA FilesStutter == ASSUME FilesInv, UNCHANGED Fil!vars  PROVE FilesInv'
  BY DEF Fil!vars, FilesInv, Fil!RowHasObject, Fil!Listed, Awaited, Fil!Path

LEMMA NextFilesInv ==
    ASSUME Fil!ConstantsAssumption, FilesInv, [Fil!Next]_(Fil!vars)
    PROVE  FilesInv'
  BY FileCreateSafe, CheckNameSafe, ExistsSafe, UploadSafe, FileInsertSafe, CrashSafe, FilesStutter
     DEF Fil!Next, Fil!Step

LEMMA FilesInvSuffices ==
    ASSUME FilesInv
    PROVE  Fil!TypeOK /\ Fil!RowHasObject /\ Fil!UnlistedNeedsLoss /\ Fil!RefusedWroteNothing
  BY DEF FilesInv, Fil!TypeOK, FileRequestOK, Fil!UnlistedNeedsLoss, Awaited,
         Fil!RefusedWroteNothing

\* In every state of saveFile's requests what each has found and uploaded is
\* what the store and the table say of it.
THEOREM FilesAlways == ASSUME Fil!ConstantsAssumption  PROVE Fil!Spec => []FilesInv
  BY FilesInit, NextFilesInv, PTL DEF Fil!Spec

\* A file that is listed has its object, however uploads run into each other.
THEOREM ListedFilesOpen == ASSUME Fil!ConstantsAssumption  PROVE Fil!Spec => []Fil!RowHasObject
  BY FilesAlways, FilesInvSuffices, PTL

\* An object without a row is about to get it, or its insert failed.
THEOREM UnlistedFilesWereLost ==
    ASSUME Fil!ConstantsAssumption
    PROVE  Fil!Spec => []Fil!UnlistedNeedsLoss
  BY FilesAlways, FilesInvSuffices, PTL

\* A name refused for its type has written nothing to the store.
THEOREM RefusedFilesWroteNothing ==
    ASSUME Fil!ConstantsAssumption
    PROVE  Fil!Spec => []Fil!RefusedWroteNothing
  BY FilesAlways, FilesInvSuffices, PTL
=============================================================================
