------------------------------- MODULE Powers --------------------------------
(***************************************************************************)
(* Powers of attorney: POST /api/user/power, whose body names the          *)
(* operation (src/users/power.service.ts, user-apps.controller.ts). The    *)
(* requester asks, the requestee decides, and an approval is mailed to     *)
(* every active member. Its list is in Lists.                              *)
(*                                                                         *)
(* No statement runs in a transaction with another. A request stands at    *)
(* req[q].at.                                                              *)
(*                                                                         *)
(* Definitions whose comment starts with "Variant:" are not the code's:    *)
(* each is the definition after it with one plausible bug.                 *)
(***************************************************************************)
EXTENDS Naturals, FiniteSets

CONSTANTS
    Members,
    Nobody,        \* an id without a profile
    Powers,        \* the ids of fondo_api_power, in use or to be used
    Requests,      \* requests served at one time
    MaxRequests    \* bound: how many requests are served in all

ConstantsAssumption == Nobody \notin Members /\ IsFiniteSet(Requests) /\ MaxRequests \in Nat

VARIABLES
    power,         \* fondo_api_power
    letters,       \* the times each approval was mailed to all members
    pushes,        \* the pushes of each power's creation
    req,           \* the requests
    requests,      \* how many there have been
    read           \* history: who has read each power as pending

vars == <<power, letters, pushes, req, requests, read>>

PENDING == 0
APPROVED == 1
REJECTED == 2

NONE == 3      \* no row yet
NoRow == [state |-> NONE, requester |-> Nobody, requestee |-> Nobody]
Row == [state : PENDING..REJECTED, requester : Members, requestee : Members]
Existing == {p \in Powers : power[p] # NoRow}

\* raw: what the body says. The string "1" is stored as 1 and is not 1.
Submitted == [state : 0..2, text : BOOLEAN]
Idle == [at |-> "idle", actor |-> Nobody, id |-> Nobody,
         submitted |-> [state |-> 0, text |-> FALSE], answer |-> 0]

TypeOK ==
    /\ \A p \in Powers : power[p] = NoRow \/ power[p] \in Row
    /\ letters \in [Powers -> Nat] /\ pushes \in [Powers -> 0..1]
    /\ \A p \in Powers : power[p] = NoRow => letters[p] = 0 /\ pushes[p] = 0 /\ read[p] = {}

Init ==
    /\ power = [p \in Powers |-> NoRow]
    /\ letters = [p \in Powers |-> 0] /\ pushes = [p \in Powers |-> 0]
    /\ read = [p \in Powers |-> {}]
    /\ req = [q \in Requests |-> Idle]
    /\ requests = 0

Ends(q, answer) == req' = [req EXCEPT ![q] = [Idle EXCEPT !.answer = answer]]

\* handlePowerRequest. A type that is no operation ends with an empty 200.
Post(q) ==
    /\ req[q].at = "idle" /\ requests < MaxRequests
    /\ requests' = requests + 1
    /\ \E actor \in Members :
          \/ \E requestee \in Members \cup {Nobody} :
               req' = [req EXCEPT ![q] = [Idle EXCEPT !.at = "create", !.actor = actor,
                                                      !.id = requestee]]
          \/ \E p \in Powers, submitted \in Submitted :
               req' = [req EXCEPT ![q] = [Idle EXCEPT !.at = "decide", !.actor = actor, !.id = p,
                                                      !.submitted = submitted]]
    /\ UNCHANGED <<power, letters, pushes, read>>

-----------------------------------------------------------------------------
(* createPower *)

\* Variant: the requestee's profile is not looked up.
CreateUnknown(q) ==
    /\ req[q].at = "create"
    /\ IF req[q].id = req[q].actor THEN Ends(q, 406) /\ UNCHANGED power
       ELSE \E p \in Powers \ Existing :
              /\ power' = [power EXCEPT ![p] = [state |-> PENDING, requester |-> req[q].actor,
                                                requestee |-> req[q].id]]
              /\ req' = [req EXCEPT ![q].at = "push", ![q].id = p]
    /\ UNCHANGED <<letters, pushes, requests, read>>

\* An unknown requestee is a 500, oneself a 406 (D26).
Create(q) ==
    /\ req[q].at = "create"
    /\ CASE req[q].id = Nobody -> Ends(q, 500) /\ UNCHANGED power
         [] req[q].id = req[q].actor -> Ends(q, 406) /\ UNCHANGED power
         [] OTHER -> \E p \in Powers \ Existing :
              /\ power' = [power EXCEPT ![p] = [state |-> PENDING, requester |-> req[q].actor,
                                                requestee |-> req[q].id]]
              /\ req' = [req EXCEPT ![q].at = "push", ![q].id = p]
    /\ UNCHANGED <<letters, pushes, requests, read>>

Push(q) ==
    /\ req[q].at = "push"
    /\ pushes' = [pushes EXCEPT ![req[q].id] = @ + 1]
    /\ Ends(q, 200)
    /\ UNCHANGED <<power, letters, requests, read>>

-----------------------------------------------------------------------------
(* updatePower *)

\* assertLegalPowerTransition
Legal(current, next) == current = PENDING /\ next \in {APPROVED, REJECTED}

\* Variant: without D2, any member may decide.
LoadAnyones(q) ==
    /\ req[q].at = "decide"
    /\ LET row == power[req[q].id] IN
       CASE row = NoRow -> Ends(q, 500) /\ UNCHANGED read
         [] row # NoRow /\ ~Legal(row.state, req[q].submitted.state) -> Ends(q, 409) /\ UNCHANGED read
         [] row # NoRow /\ Legal(row.state, req[q].submitted.state) ->
              /\ req' = [req EXCEPT ![q].at = "write"]
              /\ read' = [read EXCEPT ![req[q].id] = @ \cup {q}]
    /\ UNCHANGED <<power, letters, pushes, requests>>

\* No such power is a 500, not the requestee a 403, no pending power a 409,
\* in that order.
Load(q) ==
    /\ req[q].at = "decide"
    /\ LET row == power[req[q].id] IN
       CASE row = NoRow -> Ends(q, 500) /\ UNCHANGED read
         [] row # NoRow /\ row.requestee # req[q].actor -> Ends(q, 403) /\ UNCHANGED read
         [] row.requestee = req[q].actor /\ ~Legal(row.state, req[q].submitted.state) ->
              Ends(q, 409) /\ UNCHANGED read
         [] row.requestee = req[q].actor /\ Legal(row.state, req[q].submitted.state) ->
              /\ req' = [req EXCEPT ![q].at = "write"]
              /\ read' = [read EXCEPT ![req[q].id] = @ \cup {q}]
    /\ UNCHANGED <<power, letters, pushes, requests>>

\* Only the number 1 is compared equal to APPROVED.
Mails(s) == s.state = APPROVED /\ ~s.text

\* The UPDATE names the id alone: nothing looks at the state again.
Write(q) ==
    /\ req[q].at = "write"
    /\ power' = [power EXCEPT ![req[q].id].state = req[q].submitted.state]
    /\ IF Mails(req[q].submitted) THEN req' = [req EXCEPT ![q].at = "mail"] ELSE Ends(q, 200)
    /\ UNCHANGED <<letters, pushes, requests, read>>

\* Variant: a letter to each member instead of one with blind copies.
MailEach(q) ==
    /\ req[q].at = "mail"
    /\ letters' = [letters EXCEPT ![req[q].id] = @ + Cardinality(Members)]
    /\ Ends(q, 200)
    /\ UNCHANGED <<power, pushes, requests, read>>

\* One letter with every active member in blind copy (D5).
Mail(q) ==
    /\ req[q].at = "mail"
    /\ letters' = [letters EXCEPT ![req[q].id] = @ + 1]
    /\ Ends(q, 200)
    /\ UNCHANGED <<power, pushes, requests, read>>

-----------------------------------------------------------------------------
Step(q) == Create(q) \/ Push(q) \/ Load(q) \/ Write(q) \/ Mail(q)
Next == \E q \in Requests : Post(q) \/ Step(q)
Spec == Init /\ [][Next]_vars

-----------------------------------------------------------------------------
(* Properties *)

\* The letter to the whole fund takes two members: one who asked and another
\* who said yes (D2, D26). A power nobody but its requester touched is pending
\* and unannounced.
LetterTakesTwo ==
    \A p \in Powers : power'[p].state # power[p].state /\ power[p] # NoRow =>
       \E q \in Requests : /\ req[q].at = "write" /\ req[q].id = p
                           /\ req[q].actor = power[p].requestee
                           /\ req[q].actor # power[p].requester

\* A decided power changes again, or is announced again, only by a decision
\* that was taken on it while it was pending: as many letters at most as there
\* were requests that read it pending, and none on a repeated approval.
LettersWereDecisions ==
    \A p \in Powers : letters[p] <= Cardinality(read[p])

\* What assertLegalPowerTransition's comment says: anything that is not 0 -> 1
\* or 0 -> 2 is a 409 with no mail and no write.
OnlyPendingIsDecided ==
    [][\A p \in Powers : power[p] # NoRow /\ power'[p].state # power[p].state =>
          power[p].state = PENDING]_vars
=============================================================================
