---------------------------- MODULE Subscriptions ----------------------------
(***************************************************************************)
(* Push subscriptions and the messages sent to them: the notification     *)
(* controller and service, the subscription repository, the publisher     *)
(* (src/notifications), and the preferences section of PATCH               *)
(* /api/user/<id> (src/users/user.service.ts), which deletes subscriptions.*)
(*                                                                         *)
(* Every statement is its own transaction. A request is between two of    *)
(* its awaits at req[q].at; what it has read is in its record.            *)
(*                                                                         *)
(* Definitions whose comment starts with "Variant:" are not the code's:    *)
(* each is the definition after it with one plausible bug.                 *)
(***************************************************************************)
EXTENDS Naturals, FiniteSets

CONSTANTS
    Members,
    Endpoints,    \* browsers
    Requests,     \* requests served at one time
    Attempts,     \* NOTIFICATION_PUBLISH_RETRY.attempts
    MaxRequests   \* bound: how many requests are served in all

ConstantsAssumption == Attempts \in Nat \ {0} /\ MaxRequests \in Nat

VARIABLES
    sub,          \* fondo_api_notificationsubscriptions: [id, user, endpoint]
    serial,       \* the last id of that table
    preference,   \* fondo_api_userpreference.notifications, by member
    queue,        \* copies of each request's message that SQS has accepted
    req,          \* the requests
    requests,     \* how many there have been
    raced,        \* history: endpoints that two registrations inserted at once
    lost          \* history: answers of SQS that q has not received

vars == <<sub, serial, preference, queue, req, requests, raced, lost>>

Idle == [at |-> "idle", user |-> "none", endpoint |-> "none", id |-> 0, was |-> FALSE,
         wanted |-> FALSE, to |-> {}, attempt |-> 0, answer |-> "none"]

Of(u) == {r \in sub : r.user = u}
At(e) == {r \in sub : r.endpoint = e}

TypeOK ==
    /\ \A r \in sub : r.id \in 1..serial /\ r.user \in Members /\ r.endpoint \in Endpoints
    /\ \A r, s \in sub : r.id = s.id => r = s
    /\ preference \in [Members -> BOOLEAN]
    /\ queue \in [Requests -> 0..Attempts]
    /\ \A q \in Requests : req[q].attempt \in 0..Attempts /\ req[q].to \subseteq Endpoints

Init ==
    /\ sub = {} /\ serial = 0
    /\ preference = [u \in Members |-> TRUE]
    /\ queue = [q \in Requests |-> 0] /\ lost = [q \in Requests |-> 0]
    /\ req = [q \in Requests |-> Idle]
    /\ requests = 0
    /\ raced = {}

\* The next statement of q, or its end.
Goes(q, at) == req' = [req EXCEPT ![q].at = at]
Ends(q, answer) == req' = [req EXCEPT ![q].at = "idle", ![q].answer = answer]

\* A request arrives. The answer of the one before is forgotten.
Begin(q, r) ==
    /\ req[q].at = "idle"
    /\ requests < MaxRequests
    /\ requests' = requests + 1
    /\ req' = [req EXCEPT ![q] = r]
    /\ queue' = [queue EXCEPT ![q] = 0]
    /\ lost' = [lost EXCEPT ![q] = 0]
    /\ UNCHANGED <<sub, serial, preference, raced>>

\* POST /api/notification/<operation>. Any other operation is a 405.
Post(q) == \E u \in Members, e \in Endpoints, operation \in {"subscribe", "unsubscribe"} :
    Begin(q, [Idle EXCEPT !.at = operation, !.user = u, !.endpoint = e])

\* PATCH /api/user/<id> with type=preferences.
PatchPreferences(q) == \E u \in Members, v \in BOOLEAN :
    Begin(q, [Idle EXCEPT !.at = "preference", !.user = u, !.wanted = v])

\* What an application, a decision or the scheduler wants told to a member.
Notify(q) == \E u \in Members : Begin(q, [Idle EXCEPT !.at = "recipients", !.user = u])

-----------------------------------------------------------------------------
(* saveSubscription *)

\* Variant: the registrations looked at are the caller's.
ExistsForCaller(q) ==
    /\ req[q].at = "subscribe"
    /\ IF At(req[q].endpoint) \cap Of(req[q].user) # {} THEN Ends(q, "ok") ELSE Goes(q, "insert")
    /\ UNCHANGED <<sub, serial, preference, queue, requests, raced, lost>>

\* An endpoint is looked for among all members.
Exists(q) ==
    /\ req[q].at = "subscribe"
    /\ IF At(req[q].endpoint) # {} THEN Ends(q, "ok") ELSE Goes(q, "insert")
    /\ UNCHANGED <<sub, serial, preference, queue, requests, raced, lost>>

Insert(q) ==
    /\ req[q].at = "insert"
    /\ serial' = serial + 1
    /\ sub' = sub \cup {[id |-> serial', user |-> req[q].user, endpoint |-> req[q].endpoint]}
    /\ raced' = IF \E p \in Requests \ {q} : /\ req[p].at = "insert"
                                             /\ req[p].endpoint = req[q].endpoint
                THEN raced \cup {req[q].endpoint} ELSE raced
    /\ Ends(q, "ok")
    /\ UNCHANGED <<preference, queue, requests, lost>>

-----------------------------------------------------------------------------
(* unregisterSubscription *)

Find(q) ==
    /\ req[q].at = "unsubscribe"
    /\ LET found == At(req[q].endpoint) \cap Of(req[q].user) IN
       CASE found = {} -> Ends(q, "404")
         [] Cardinality(found) > 1 -> Ends(q, "500")
         [] OTHER -> \E r \in found : req' = [req EXCEPT ![q].at = "delete", ![q].id = r.id]
    /\ UNCHANGED <<sub, serial, preference, queue, requests, raced, lost>>

\* A row that is gone by now is Prisma's P2025, a 500.
Delete(q) ==
    /\ req[q].at = "delete"
    /\ sub' = {r \in sub : r.id # req[q].id}
    /\ Ends(q, IF sub' = sub THEN "500" ELSE "ok")
    /\ UNCHANGED <<serial, preference, queue, requests, raced, lost>>

-----------------------------------------------------------------------------
(* updateUserPreferences *)

ReadPreference(q) ==
    /\ req[q].at = "preference"
    /\ req' = [req EXCEPT ![q].at = "save", ![q].was = preference[req[q].user]]
    /\ UNCHANGED <<sub, serial, preference, queue, requests, raced, lost>>

\* The subscriptions go on the transition from true to false that q has read.
Save(q) ==
    /\ req[q].at = "save"
    /\ preference' = [preference EXCEPT ![req[q].user] = req[q].wanted]
    /\ IF req[q].was /\ ~req[q].wanted THEN Goes(q, "wipe") ELSE Ends(q, "ok")
    /\ UNCHANGED <<sub, serial, queue, requests, raced, lost>>

\* A colour or a flag the columns refuse: whatever fails is a 404.
SaveFails(q) ==
    /\ req[q].at = "save"
    /\ Ends(q, "404")
    /\ UNCHANGED <<sub, serial, preference, queue, requests, raced, lost>>

\* removeAllSubscriptions: one DELETE.
Wipe(q) ==
    /\ req[q].at = "wipe"
    /\ sub' = sub \ Of(req[q].user)
    /\ Ends(q, "ok")
    /\ UNCHANGED <<serial, preference, queue, requests, raced, lost>>

-----------------------------------------------------------------------------
(* sendNotification and publish *)

\* Nothing is published for a member without subscriptions. The body is made
\* once and every attempt sends it.
Recipients(q) ==
    /\ req[q].at = "recipients"
    /\ LET to == {r.endpoint : r \in Of(req[q].user)} IN
       IF to = {} THEN Ends(q, "no-subscriptions")
       ELSE req' = [req EXCEPT ![q].at = "send", ![q].to = to, ![q].attempt = 1]
    /\ UNCHANGED <<sub, serial, preference, queue, requests, raced, lost>>

\* publish gives up before its loop: no queue is configured
\* (NOTIFICATIONS_QUEUE_URL), or the body cannot be encoded.
Unpublished(q) ==
    /\ req[q].at = "recipients"
    /\ Of(req[q].user) # {}
    /\ Ends(q, "failed")
    /\ UNCHANGED <<sub, serial, preference, queue, requests, raced, lost>>

\* Variant: the loop runs once too often.
RetryOnceMore(q) ==
    IF req[q].attempt > Attempts THEN Ends(q, "failed")
    ELSE req' = [req EXCEPT ![q].attempt = @ + 1]

\* Variant: the last attempt is not looked at.
RetryAndHope(q) ==
    IF req[q].attempt = Attempts THEN Ends(q, "published")
    ELSE req' = [req EXCEPT ![q].attempt = @ + 1]

Retry(q) ==
    IF req[q].attempt = Attempts THEN Ends(q, "failed")
    ELSE req' = [req EXCEPT ![q].attempt = @ + 1]

\* Variant: the loop goes on after the message was accepted.
SendAcceptedAgain(q) ==
    /\ req[q].at = "send"
    /\ queue' = [queue EXCEPT ![q] = @ + 1]
    /\ Retry(q)
    /\ UNCHANGED <<sub, serial, preference, requests, raced, lost>>

SendAccepted(q) ==
    /\ req[q].at = "send"
    /\ queue' = [queue EXCEPT ![q] = @ + 1]
    /\ Ends(q, "published")
    /\ UNCHANGED <<sub, serial, preference, requests, raced, lost>>

SendRefused(q) ==
    /\ req[q].at = "send"
    /\ Retry(q)
    /\ UNCHANGED <<sub, serial, preference, queue, requests, raced, lost>>

\* SQS has the message and the answer does not arrive in time.
AnswerLost(q) ==
    /\ req[q].at = "send"
    /\ queue' = [queue EXCEPT ![q] = @ + 1]
    /\ lost' = [lost EXCEPT ![q] = @ + 1]
    /\ Retry(q)
    /\ UNCHANGED <<sub, serial, preference, requests, raced>>

-----------------------------------------------------------------------------
Step(q) ==
    \/ Exists(q) \/ Insert(q)
    \/ Find(q) \/ Delete(q)
    \/ ReadPreference(q) \/ Save(q) \/ SaveFails(q) \/ Wipe(q)
    \/ Recipients(q) \/ Unpublished(q)
    \/ SendAccepted(q) \/ SendRefused(q) \/ AnswerLost(q)

Next == \E q \in Requests : Post(q) \/ PatchPreferences(q) \/ Notify(q) \/ Step(q)

Spec == Init /\ [][Next]_vars

-----------------------------------------------------------------------------
(* Properties *)

\* A browser is registered once, whoever registers it, unless two
\* registrations of it were both past the existence test at the same time.
OneRowUnlessRaced == \A e \in Endpoints : Cardinality(At(e)) > 1 => e \in raced

\* What publish reports is true: a message reported as published is on the
\* queue; one reported as failed was not tried at all or as often as it may be,
\* and is on the queue only as the copies whose answers were lost.
ReportIsTrue == \A q \in Requests :
    /\ req[q].answer = "published" => queue[q] > 0
    /\ req[q].answer = "failed" => /\ req[q].attempt \in {0, Attempts}
                                   /\ queue[q] = lost[q]

\* Members get a push twice only when the answer to an attempt was lost.
TwiceOnlyIfLost == \A q \in Requests :
    queue[q] <= lost[q] + (IF req[q].answer = "published" THEN 1 ELSE 0)

=============================================================================
