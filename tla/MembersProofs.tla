----------------------------- MODULE MembersProofs -----------------------------
(***************************************************************************)
(* Proofs about what is kept of the members: their profiles and finances   *)
(* (Members), their browsers and preferences (Subscriptions), the years    *)
(* and what activities charge them (Activities). The three share the       *)
(* members and the requests and no other variable; a theorem is about the  *)
(* behaviours of one.                                                      *)
(***************************************************************************)
EXTENDS Members, FiniteSetTheorems, SequenceTheorems, WellFoundedInduction, TLAPS

CONSTANTS Endpoints, Attempts,                  \* of Subscriptions
          Acts, MaxYear, MaxCrashes, Kinds      \* of Activities

VARIABLES sub, serial, preference, queue, raced, lost,
          clock, years, active, act, crashes, made, straggled

Sub == INSTANCE Subscriptions
Act == INSTANCE Activities

-----------------------------------------------------------------------------
(* Subscriptions *)

SubPoints == {"idle", "subscribe", "unsubscribe", "preference", "recipients", "insert", "delete",
              "save", "wipe", "send"}
SubRequest ==
    [at : SubPoints, user : Members \cup {"none"}, endpoint : Endpoints \cup {"none"}, id : Nat,
     was : BOOLEAN, wanted : BOOLEAN, to : SUBSET Endpoints, attempt : 0..Attempts,
     answer : {"none", "ok", "404", "500", "no-subscriptions", "failed", "published"}]
SubRow == [id : Nat, user : Members, endpoint : Endpoints]

SubTyped ==
    /\ sub \subseteq SubRow /\ IsFiniteSet(sub) /\ serial \in Nat
    /\ preference \in [Members -> BOOLEAN]
    /\ queue \in [Requests -> Nat] /\ lost \in [Requests -> Nat]
    /\ req \in [Requests -> SubRequest]

\* What a request counts on between its statements, n copies of its message
\* having been accepted and the answers to l of them lost.
SubRequestOK(r, n, l) ==
    /\ r.at \in {"subscribe", "insert", "unsubscribe"} => r.user \in Members /\ r.endpoint \in Endpoints
    /\ r.at \in {"preference", "save"} => r.user \in Members
    /\ r.at # "idle" => r.answer = "none"
    /\ n <= r.attempt /\ n <= l + (IF r.answer = "published" THEN 1 ELSE 0)
    /\ r.at = "recipients" => n = 0 /\ l = 0 /\ r.attempt = 0
    /\ r.at = "send" => n < r.attempt /\ n = l
    /\ r.answer = "published" => n > 0
    /\ r.answer = "failed" => r.attempt \in {0, Attempts} /\ n = l

\* Whoever is about to insert an endpoint has found no row of it, and whoever
\* inserts one meanwhile races it.
SubRowsOK ==
    /\ \A r \in sub : r.id \in 1..serial
    /\ \A r, s \in sub : r.id = s.id => r = s
    /\ \A r, s \in sub : r.endpoint = s.endpoint /\ r # s => r.endpoint \in raced
    /\ \A q \in Requests : req[q].at = "insert" =>
         \A r \in sub : r.endpoint = req[q].endpoint => r.endpoint \in raced

SubInv ==
    /\ SubTyped /\ SubRowsOK
    /\ \A q \in Requests : SubRequestOK(req[q], queue[q], lost[q])

LEMMA SubIdle ==
    ASSUME Sub!ConstantsAssumption
    PROVE  /\ Sub!Idle \in SubRequest /\ Sub!Idle.at = "idle" /\ Sub!Idle.answer = "none"
           /\ Sub!Idle.attempt = 0
  BY DEF Sub!ConstantsAssumption, Sub!Idle, SubRequest, SubPoints

LEMMA SubInit == ASSUME Sub!ConstantsAssumption, Sub!Init  PROVE SubInv
  <1>1. SubTyped
    BY SubIdle, FS_EmptySet DEF Sub!Init, SubTyped
  <1>2. SubRowsOK
    BY SubIdle DEF Sub!Init, SubRowsOK
  <1>3. \A q \in Requests : SubRequestOK(req[q], queue[q], lost[q])
    BY SubIdle DEF Sub!Init, SubRequestOK
  <1> QED
    BY <1>1, <1>2, <1>3 DEF SubInv

\* A step of request q that leaves the rows alone.
LEMMA SubQuiet ==
    ASSUME SubInv, NEW q \in Requests, NEW r \in SubRequest, req' = [req EXCEPT ![q] = r],
           NEW n \in Nat, NEW l \in Nat,
           queue' = [queue EXCEPT ![q] = n], lost' = [lost EXCEPT ![q] = l],
           preference' \in [Members -> BOOLEAN], SubRequestOK(r, n, l),
           r.at = "insert" => \A s \in sub : s.endpoint # r.endpoint,
           UNCHANGED <<sub, serial, raced>>
    PROVE  SubInv'
  <1>1. /\ req'[q] = r /\ queue'[q] = n /\ lost'[q] = l
        /\ \A s \in Requests \ {q} : req'[s] = req[s] /\ queue'[s] = queue[s] /\ lost'[s] = lost[s]
    BY DEF SubInv, SubTyped
  <1>2. SubTyped'
    BY DEF SubInv, SubTyped
  <1>3. SubRowsOK'
    BY <1>1 DEF SubInv, SubRowsOK
  <1>4. \A s \in Requests : SubRequestOK(req'[s], queue'[s], lost'[s])
    BY <1>1 DEF SubInv
  <1> QED
    BY <1>2, <1>3, <1>4 DEF SubInv, SubRequestOK

\* A statement that neither sends nor writes a row.
LEMMA SubMoves ==
    ASSUME SubInv, NEW q \in Requests, NEW r \in SubRequest, req' = [req EXCEPT ![q] = r],
           preference' \in [Members -> BOOLEAN], SubRequestOK(r, queue[q], lost[q]),
           r.at = "insert" => \A s \in sub : s.endpoint # r.endpoint,
           UNCHANGED <<sub, serial, queue, raced, lost>>
    PROVE  SubInv'
  <1>1. PICK n \in Nat, l \in Nat : n = queue[q] /\ l = lost[q]
    BY DEF SubInv, SubTyped
  <1>2. queue' = [queue EXCEPT ![q] = n] /\ lost' = [lost EXCEPT ![q] = l]
    BY <1>1 DEF SubInv, SubTyped
  <1> QED
    BY <1>1, <1>2, SubQuiet

LEMMA SubEndsAs ==
    ASSUME SubInv, NEW q \in Requests,
           NEW a \in {"ok", "404", "500", "no-subscriptions", "failed", "published"}, Sub!Ends(q, a)
    PROVE  \E r \in SubRequest :
             /\ req' = [req EXCEPT ![q] = r] /\ r.at = "idle" /\ r.answer = a
             /\ r.attempt = req[q].attempt
  <1> DEFINE r == [req[q] EXCEPT !.at = "idle", !.answer = a]
  <1>1. req[q] \in SubRequest
    BY DEF SubInv, SubTyped
  <1>2. r \in SubRequest /\ r.at = "idle" /\ r.answer = a /\ r.attempt = req[q].attempt
    BY <1>1 DEF SubRequest, SubPoints
  <1>3. req' = [req EXCEPT ![q] = r]
    BY <1>1 DEF Sub!Ends, SubInv, SubTyped
  <1> QED
    BY <1>2, <1>3

\* An end whose answer says nothing about a message.
LEMMA SubEnds ==
    ASSUME SubInv, NEW q \in Requests, NEW a \in {"ok", "404", "500", "no-subscriptions"},
           Sub!Ends(q, a), req[q].at # "idle", preference' \in [Members -> BOOLEAN],
           UNCHANGED <<sub, serial, queue, raced, lost>>
    PROVE  SubInv'
  <1>1. PICK r \in SubRequest : /\ req' = [req EXCEPT ![q] = r] /\ r.at = "idle" /\ r.answer = a
                                /\ r.attempt = req[q].attempt
    BY SubEndsAs
  <1>2. SubRequestOK(r, queue[q], lost[q])
    BY <1>1 DEF SubInv, SubRequestOK
  <1> QED
    BY <1>1, <1>2, SubMoves

LEMMA SubGoes ==
    ASSUME SubInv, NEW q \in Requests, NEW at \in {"insert", "wipe"}, Sub!Goes(q, at),
           req[q].at \in {"subscribe", "save"}, preference' \in [Members -> BOOLEAN],
           at = "insert" => req[q].at = "subscribe" /\ Sub!At(req[q].endpoint) = {},
           UNCHANGED <<sub, serial, queue, raced, lost>>
    PROVE  SubInv'
  <1> DEFINE r == [req[q] EXCEPT !.at = at]
  <1>1. req[q] \in SubRequest /\ SubRequestOK(req[q], queue[q], lost[q])
    BY DEF SubInv, SubTyped
  <1>2. /\ r \in SubRequest /\ r.at = at /\ r.answer = req[q].answer /\ r.attempt = req[q].attempt
        /\ r.user = req[q].user /\ r.endpoint = req[q].endpoint
    BY <1>1 DEF SubRequest, SubPoints
  <1>3. req' = [req EXCEPT ![q] = r]
    BY <1>1 DEF Sub!Goes, SubInv, SubTyped
  <1> HIDE DEF r
  <1>4. SubRequestOK(r, queue[q], lost[q])
    BY <1>1, <1>2 DEF SubRequestOK
  <1>5. r.at = "insert" => \A s \in sub : s.endpoint # r.endpoint
    BY <1>2 DEF Sub!At
  <1> QED
    BY <1>2, <1>3, <1>4, <1>5, SubMoves

LEMMA SubBegun ==
    ASSUME SubInv, NEW q \in Requests, NEW r \in SubRequest, Sub!Begin(q, r),
           r.answer = "none", r.attempt = 0,
           r.at \in {"subscribe", "unsubscribe", "preference", "recipients"},
           r.at \in {"subscribe", "unsubscribe"} => r.user \in Members /\ r.endpoint \in Endpoints,
           r.at = "preference" => r.user \in Members
    PROVE  SubInv'
  <1>1. PICK n \in Nat : n = 0
    OBVIOUS
  <1>2. SubRequestOK(r, n, n)
    BY <1>1 DEF SubRequestOK
  <1>3. /\ req' = [req EXCEPT ![q] = r] /\ queue' = [queue EXCEPT ![q] = n]
        /\ lost' = [lost EXCEPT ![q] = n] /\ UNCHANGED <<sub, serial, preference, raced>>
    BY <1>1 DEF Sub!Begin
  <1>4. preference' \in [Members -> BOOLEAN] /\ r.at # "insert"
    BY <1>3 DEF SubInv, SubTyped
  <1> QED
    BY <1>2, <1>3, <1>4, SubQuiet

LEMMA SubBegin ==
    ASSUME Sub!ConstantsAssumption, SubInv, NEW q \in Requests,
           Sub!Post(q) \/ Sub!PatchPreferences(q) \/ Sub!Notify(q)
    PROVE  SubInv'
  <1>1. ASSUME NEW u \in Members, NEW e \in Endpoints, NEW operation \in {"subscribe", "unsubscribe"},
               Sub!Begin(q, [Sub!Idle EXCEPT !.at = operation, !.user = u, !.endpoint = e])
        PROVE  SubInv'
    <2> DEFINE r == [Sub!Idle EXCEPT !.at = operation, !.user = u, !.endpoint = e]
    <2>1. /\ r \in SubRequest /\ r.answer = "none" /\ r.attempt = 0
          /\ r.at = operation /\ r.user = u /\ r.endpoint = e
      BY SubIdle DEF SubRequest, SubPoints
    <2>2. Sub!Begin(q, r)
      BY <1>1
    <2> HIDE DEF r
    <2> QED
      BY <2>1, <2>2, SubBegun
  <1>2. ASSUME NEW u \in Members, NEW v \in BOOLEAN,
               Sub!Begin(q, [Sub!Idle EXCEPT !.at = "preference", !.user = u, !.wanted = v])
        PROVE  SubInv'
    <2> DEFINE r == [Sub!Idle EXCEPT !.at = "preference", !.user = u, !.wanted = v]
    <2>1. /\ r \in SubRequest /\ r.answer = "none" /\ r.attempt = 0
          /\ r.at = "preference" /\ r.user = u
      BY SubIdle DEF SubRequest, SubPoints
    <2>2. Sub!Begin(q, r)
      BY <1>2
    <2> HIDE DEF r
    <2> QED
      BY <2>1, <2>2, SubBegun
  <1>3. ASSUME NEW u \in Members, Sub!Begin(q, [Sub!Idle EXCEPT !.at = "recipients", !.user = u])
        PROVE  SubInv'
    <2> DEFINE r == [Sub!Idle EXCEPT !.at = "recipients", !.user = u]
    <2>1. r \in SubRequest /\ r.answer = "none" /\ r.attempt = 0 /\ r.at = "recipients"
      BY SubIdle DEF SubRequest, SubPoints
    <2>2. Sub!Begin(q, r)
      BY <1>3
    <2> HIDE DEF r
    <2> QED
      BY <2>1, <2>2, SubBegun
  <1> QED
    BY <1>1, <1>2, <1>3 DEF Sub!Post, Sub!PatchPreferences, Sub!Notify

\* The table after rows were deleted.
LEMMA SubDeletes ==
    ASSUME SubInv, NEW q \in Requests, NEW a \in {"ok", "404", "500", "no-subscriptions"},
           Sub!Ends(q, a), req[q].at # "idle", sub' \subseteq sub,
           UNCHANGED <<serial, preference, queue, raced, lost>>
    PROVE  SubInv'
  <1>1. PICK r \in SubRequest : /\ req' = [req EXCEPT ![q] = r] /\ r.at = "idle" /\ r.answer = a
                                /\ r.attempt = req[q].attempt
    BY SubEndsAs
  <1>2. req'[q] = r /\ \A s \in Requests \ {q} : req'[s] = req[s]
    BY <1>1 DEF SubInv, SubTyped
  <1>3. IsFiniteSet(sub')
    BY FS_Subset DEF SubInv, SubTyped
  <1>4. SubTyped'
    BY <1>1, <1>3 DEF SubInv, SubTyped
  <1>5. SubRowsOK'
    BY <1>1, <1>2 DEF SubInv, SubRowsOK
  <1>6. SubRequestOK(r, queue[q], lost[q])
    BY <1>1 DEF SubInv, SubRequestOK
  <1>7. \A s \in Requests : SubRequestOK(req'[s], queue'[s], lost'[s])
    BY <1>2, <1>6 DEF SubInv
  <1> QED
    BY <1>4, <1>5, <1>7 DEF SubInv, SubRequestOK

LEMMA SubInsert == ASSUME SubInv, NEW q \in Requests, Sub!Insert(q)  PROVE SubInv'
  <1>1. PICK r \in SubRequest : /\ req' = [req EXCEPT ![q] = r] /\ r.at = "idle" /\ r.answer = "ok"
                                /\ r.attempt = req[q].attempt
    BY SubEndsAs DEF Sub!Insert
  <1>2. req'[q] = r /\ \A s \in Requests \ {q} : req'[s] = req[s]
    BY <1>1 DEF SubInv, SubTyped
  <1>3. PICK u \in Members, e \in Endpoints : u = req[q].user /\ e = req[q].endpoint
    BY DEF Sub!Insert, SubInv, SubRequestOK
  <1> DEFINE x == [id |-> serial', user |-> u, endpoint |-> e]
  <1>4. /\ req[q].at = "insert" /\ serial' = serial + 1 /\ sub' = sub \cup {x}
        /\ UNCHANGED <<preference, queue, requests, lost>>
        /\ raced \subseteq raced'
        /\ \A p \in Requests \ {q} : req[p].at = "insert" /\ req[p].endpoint = e => e \in raced'
    BY <1>3 DEF Sub!Insert
  <1>5. serial \in Nat /\ serial' \in Nat
    BY <1>4 DEF SubInv, SubTyped
  <1>6. x \in SubRow /\ x.id = serial + 1 /\ x.endpoint = e
    BY <1>4, <1>5 DEF SubRow
  <1> HIDE DEF x
  <1>7. IsFiniteSet(sub')
    BY <1>4, FS_AddElement DEF SubInv, SubTyped
  <1>8. SubTyped'
    BY <1>1, <1>4, <1>5, <1>6, <1>7 DEF SubInv, SubTyped
  <1>9. \A s \in sub : s.id \in 1..serial /\ s.id # x.id
    BY <1>5, <1>6 DEF SubInv, SubRowsOK
  <1>10. \A s \in sub : s.endpoint = e => e \in raced
    BY <1>3, <1>4 DEF SubInv, SubRowsOK
  <1>11. SubRowsOK'
    <2>1. \A s \in sub' : s.id \in 1..serial'
      BY <1>4, <1>5, <1>6, <1>9
    <2>2. \A s, t \in sub' : s.id = t.id => s = t
      BY <1>4, <1>9 DEF SubInv, SubRowsOK
    <2>3. \A s, t \in sub' : s.endpoint = t.endpoint /\ s # t => s.endpoint \in raced'
      BY <1>4, <1>6, <1>10 DEF SubInv, SubRowsOK
    <2>4. \A p \in Requests : req'[p].at = "insert" =>
            \A s \in sub' : s.endpoint = req'[p].endpoint => s.endpoint \in raced'
      BY <1>1, <1>2, <1>4, <1>6 DEF SubInv, SubRowsOK
    <2> QED
      BY <2>1, <2>2, <2>3, <2>4 DEF SubRowsOK
  <1>12. SubRequestOK(r, queue[q], lost[q])
    BY <1>1, <1>4 DEF SubInv, SubRequestOK
  <1>13. \A s \in Requests : SubRequestOK(req'[s], queue'[s], lost'[s])
    BY <1>2, <1>4, <1>12 DEF SubInv
  <1> QED
    BY <1>8, <1>11, <1>13 DEF SubInv, SubRequestOK

\* Sending

LEMMA SubRetry ==
    ASSUME Sub!ConstantsAssumption, SubInv, NEW q \in Requests, req[q].at = "send", Sub!Retry(q),
           UNCHANGED <<sub, serial, preference, raced>>,
           \/ UNCHANGED <<queue, lost>>
           \/ queue' = [queue EXCEPT ![q] = @ + 1] /\ lost' = [lost EXCEPT ![q] = @ + 1]
    PROVE  SubInv'
  <1>1. /\ req[q] \in SubRequest /\ SubRequestOK(req[q], queue[q], lost[q])
        /\ preference' \in [Members -> BOOLEAN]
    BY DEF SubInv, SubTyped
  <1>2. PICK n \in Nat, l \in Nat : n = queue[q] /\ l = lost[q]
    BY DEF SubInv, SubTyped
  <1>3. req[q].attempt \in 0..Attempts /\ Attempts \in Nat /\ n < req[q].attempt /\ n = l
    BY <1>1, <1>2 DEF SubRequest, SubRequestOK, Sub!ConstantsAssumption
  <1>4. PICK m \in Nat, k \in Nat : /\ queue' = [queue EXCEPT ![q] = m] /\ lost' = [lost EXCEPT ![q] = k]
                                    /\ m = k /\ m <= req[q].attempt
    <2>1. CASE UNCHANGED <<queue, lost>>
      <3>1. queue' = [queue EXCEPT ![q] = n] /\ lost' = [lost EXCEPT ![q] = l]
        BY <1>2, <2>1 DEF SubInv, SubTyped
      <3>2. n = l /\ n <= req[q].attempt
        BY <1>3
      <3> QED
        BY <3>1, <3>2
    <2>2. CASE queue' = [queue EXCEPT ![q] = @ + 1] /\ lost' = [lost EXCEPT ![q] = @ + 1]
      <3>1. queue' = [queue EXCEPT ![q] = n + 1] /\ lost' = [lost EXCEPT ![q] = l + 1]
        BY <1>2, <2>2
      <3>2. n + 1 \in Nat /\ l + 1 \in Nat /\ n + 1 = l + 1 /\ n + 1 <= req[q].attempt
        BY <1>3
      <3> QED
        BY <3>1, <3>2
    <2> QED
      BY <2>1, <2>2
  <1>5. CASE req[q].attempt = Attempts
    <2>1. Sub!Ends(q, "failed")
      BY <1>5 DEF Sub!Retry
    <2>2. PICK r \in SubRequest : /\ req' = [req EXCEPT ![q] = r] /\ r.at = "idle"
                                  /\ r.answer = "failed" /\ r.attempt = req[q].attempt
      BY <2>1, SubEndsAs
    <2>3. SubRequestOK(r, m, k)
      BY <1>4, <1>5, <2>2 DEF SubRequestOK
    <2> QED
      BY <1>1, <1>4, <2>2, <2>3, SubQuiet
  <1>6. CASE req[q].attempt # Attempts
    <2> DEFINE a == req[q].attempt + 1
               r == [req[q] EXCEPT !.attempt = a]
    <2>1. a \in 0..Attempts /\ m < a
      BY <1>3, <1>4, <1>6
    <2>2. req' = [req EXCEPT ![q] = r]
      BY <1>6 DEF Sub!Retry, SubInv, SubTyped
    <2> HIDE DEF a
    <2>3. r \in SubRequest /\ r.at = "send" /\ r.answer = req[q].answer /\ r.attempt = a
      BY <1>1, <2>1 DEF SubRequest
    <2> HIDE DEF r
    <2>4. SubRequestOK(r, m, k)
      BY <1>1, <1>4, <2>1, <2>3 DEF SubRequestOK
    <2> QED
      BY <1>1, <1>4, <2>2, <2>3, <2>4, SubQuiet
  <1> QED
    BY <1>5, <1>6

LEMMA SubAccepted ==
    ASSUME Sub!ConstantsAssumption, SubInv, NEW q \in Requests, Sub!SendAccepted(q)
    PROVE  SubInv'
  <1>1. /\ req[q] \in SubRequest /\ SubRequestOK(req[q], queue[q], lost[q]) /\ req[q].at = "send"
        /\ preference' \in [Members -> BOOLEAN] /\ UNCHANGED <<sub, serial, raced>>
    BY DEF Sub!SendAccepted, SubInv, SubTyped
  <1>2. PICK n \in Nat, l \in Nat : n = queue[q] /\ l = lost[q]
    BY DEF SubInv, SubTyped
  <1>3. /\ req[q].attempt \in Nat /\ n < req[q].attempt /\ n <= l
        /\ n + 1 \in Nat /\ n + 1 <= req[q].attempt /\ n + 1 <= l + 1 /\ n + 1 > 0
    BY <1>1, <1>2 DEF SubRequest, SubRequestOK, Sub!ConstantsAssumption
  <1>4. queue' = [queue EXCEPT ![q] = n + 1] /\ lost' = [lost EXCEPT ![q] = l]
    BY <1>2 DEF Sub!SendAccepted, SubInv, SubTyped
  <1>5. PICK r \in SubRequest : /\ req' = [req EXCEPT ![q] = r] /\ r.at = "idle"
                                /\ r.answer = "published" /\ r.attempt = req[q].attempt
    BY SubEndsAs DEF Sub!SendAccepted
  <1>6. SubRequestOK(r, n + 1, l)
    BY <1>3, <1>5 DEF SubRequestOK
  <1> QED
    BY <1>1, <1>3, <1>4, <1>5, <1>6, SubQuiet

LEMMA SubRecipients ==
    ASSUME Sub!ConstantsAssumption, SubInv, NEW q \in Requests, Sub!Recipients(q)
    PROVE  SubInv'
  <1> DEFINE to == {r.endpoint : r \in Sub!Of(req[q].user)}
  <1>1. /\ req[q] \in SubRequest /\ SubRequestOK(req[q], queue[q], lost[q])
        /\ req[q].at = "recipients" /\ preference' \in [Members -> BOOLEAN]
        /\ UNCHANGED <<sub, serial, preference, queue, requests, raced, lost>>
    BY DEF Sub!Recipients, SubInv, SubTyped
  <1>2. CASE to = {}
    BY <1>1, <1>2, SubEnds DEF Sub!Recipients
  <1>3. CASE to # {}
    <2> DEFINE r == [req[q] EXCEPT !.at = "send", !.to = to, !.attempt = 1]
    <2>1. req' = [req EXCEPT ![q] = r]
      BY <1>3 DEF Sub!Recipients, SubInv, SubTyped
    <2>2. to \in SUBSET Endpoints /\ 1 \in 0..Attempts
      BY DEF Sub!Of, SubInv, SubTyped, SubRow, Sub!ConstantsAssumption
    <2> HIDE DEF to
    <2>3. r \in SubRequest /\ r.at = "send" /\ r.answer = req[q].answer /\ r.attempt = 1
      BY <1>1, <2>2 DEF SubRequest, SubPoints
    <2> HIDE DEF r
    <2>4. SubRequestOK(r, queue[q], lost[q])
      BY <1>1, <2>3 DEF SubRequestOK, SubInv, SubTyped
    <2> QED
      BY <1>1, <2>1, <2>3, <2>4, SubMoves
  <1> QED
    BY <1>2, <1>3

LEMMA SubUnpublished ==
    ASSUME Sub!ConstantsAssumption, SubInv, NEW q \in Requests, Sub!Unpublished(q)
    PROVE  SubInv'
  <1>1. /\ SubRequestOK(req[q], queue[q], lost[q]) /\ req[q].at = "recipients"
        /\ preference' \in [Members -> BOOLEAN]
        /\ UNCHANGED <<sub, serial, queue, raced, lost>>
    BY DEF Sub!Unpublished, SubInv, SubTyped
  <1>2. PICK r \in SubRequest : /\ req' = [req EXCEPT ![q] = r] /\ r.at = "idle"
                                /\ r.answer = "failed" /\ r.attempt = req[q].attempt
    BY SubEndsAs DEF Sub!Unpublished
  <1>3. SubRequestOK(r, queue[q], lost[q])
    BY <1>1, <1>2 DEF SubRequestOK
  <1> QED
    BY <1>1, <1>2, <1>3, SubMoves

\* Preferences

LEMMA SubPreference ==
    ASSUME SubInv, NEW q \in Requests, Sub!ReadPreference(q) \/ Sub!Save(q) \/ Sub!SaveFails(q)
    PROVE  SubInv'
  <1>1. /\ req[q] \in SubRequest /\ SubRequestOK(req[q], queue[q], lost[q])
        /\ req[q].at \in {"preference", "save"} /\ req[q].user \in Members
        /\ UNCHANGED <<sub, serial, queue, requests, raced, lost>>
    BY DEF Sub!ReadPreference, Sub!Save, Sub!SaveFails, SubInv, SubTyped, SubRequestOK
  <1>2. preference' \in [Members -> BOOLEAN]
    BY <1>1 DEF Sub!ReadPreference, Sub!Save, Sub!SaveFails, SubInv, SubTyped, SubRequest
  <1>3. CASE Sub!ReadPreference(q)
    <2> DEFINE v == preference[req[q].user]
               r == [req[q] EXCEPT !.at = "save", !.was = v]
    <2>1. v \in BOOLEAN
      BY <1>1 DEF SubInv, SubTyped
    <2>2. req' = [req EXCEPT ![q] = r]
      BY <1>3 DEF Sub!ReadPreference, SubInv, SubTyped
    <2> HIDE DEF v
    <2>3. /\ r \in SubRequest /\ r.at = "save" /\ r.answer = req[q].answer /\ r.user = req[q].user
          /\ r.attempt = req[q].attempt
      BY <1>1, <2>1 DEF SubRequest, SubPoints
    <2> HIDE DEF r
    <2>4. SubRequestOK(r, queue[q], lost[q])
      BY <1>1, <2>3 DEF SubRequestOK
    <2> QED
      BY <1>1, <1>2, <2>2, <2>3, <2>4, SubMoves
  <1>4. CASE Sub!Save(q)
    BY <1>1, <1>2, <1>4, SubGoes, SubEnds DEF Sub!Save
  <1>5. CASE Sub!SaveFails(q)
    BY <1>1, <1>2, <1>5, SubEnds DEF Sub!SaveFails
  <1> QED
    BY <1>3, <1>4, <1>5

LEMMA SubExists == ASSUME SubInv, NEW q \in Requests, Sub!Exists(q)  PROVE SubInv'
  <1>1. req[q].at = "subscribe" /\ preference' \in [Members -> BOOLEAN]
    BY DEF Sub!Exists, SubInv, SubTyped
  <1>2. CASE Sub!At(req[q].endpoint) # {}
    BY <1>1, <1>2, SubEnds DEF Sub!Exists
  <1>3. CASE Sub!At(req[q].endpoint) = {}
    BY <1>1, <1>3, SubGoes DEF Sub!Exists
  <1> QED
    BY <1>2, <1>3

LEMMA SubFind == ASSUME SubInv, NEW q \in Requests, Sub!Find(q)  PROVE SubInv'
  <1> DEFINE found == Sub!At(req[q].endpoint) \cap Sub!Of(req[q].user)
  <1>1. /\ req[q] \in SubRequest /\ SubRequestOK(req[q], queue[q], lost[q])
        /\ req[q].at = "unsubscribe" /\ preference' \in [Members -> BOOLEAN]
        /\ UNCHANGED <<sub, serial, preference, queue, requests, raced, lost>>
    BY DEF Sub!Find, SubInv, SubTyped
  <1>2. \/ Sub!Ends(q, "404") \/ Sub!Ends(q, "500")
        \/ \E s \in found : req' = [req EXCEPT ![q].at = "delete", ![q].id = s.id]
    BY DEF Sub!Find
  <1>3. ASSUME NEW s \in found, req' = [req EXCEPT ![q].at = "delete", ![q].id = s.id]
        PROVE  SubInv'
    <2> DEFINE i == s.id  r == [req[q] EXCEPT !.at = "delete", !.id = i]
    <2>1. i \in Nat
      BY DEF Sub!Of, SubInv, SubTyped, SubRow
    <2>2. req' = [req EXCEPT ![q] = r]
      BY <1>3 DEF SubInv, SubTyped
    <2> HIDE DEF i
    <2>3. r \in SubRequest /\ r.at = "delete" /\ r.answer = req[q].answer /\ r.attempt = req[q].attempt
      BY <1>1, <2>1 DEF SubRequest, SubPoints
    <2> HIDE DEF r
    <2>4. SubRequestOK(r, queue[q], lost[q])
      BY <1>1, <2>3 DEF SubRequestOK
    <2> QED
      BY <1>1, <2>2, <2>3, <2>4, SubMoves
  <1> HIDE DEF found
  <1>4. ASSUME NEW a \in {"404", "500"}, Sub!Ends(q, a) PROVE SubInv'
    BY <1>1, <1>4, SubEnds
  <1> QED
    BY <1>2, <1>3, <1>4

LEMMA SubStep == ASSUME Sub!ConstantsAssumption, SubInv, [Sub!Next]_(Sub!vars)  PROVE SubInv'
  <1>1. ASSUME NEW q \in Requests, Sub!Delete(q) \/ Sub!Wipe(q) PROVE SubInv'
    <2>1. /\ req[q].at # "idle" /\ sub' \subseteq sub
          /\ UNCHANGED <<serial, preference, queue, requests, raced, lost>>
      BY <1>1 DEF Sub!Delete, Sub!Wipe
    <2>2. Sub!Ends(q, "ok") \/ Sub!Ends(q, "500")
      BY <1>1 DEF Sub!Delete, Sub!Wipe
    <2>3. ASSUME NEW a \in {"ok", "500"}, Sub!Ends(q, a) PROVE SubInv'
      BY <2>1, <2>3, SubDeletes
    <2> QED
      BY <2>2, <2>3
  <1>2. ASSUME NEW q \in Requests, Sub!SendRefused(q) \/ Sub!AnswerLost(q) PROVE SubInv'
    BY <1>2, SubRetry DEF Sub!SendRefused, Sub!AnswerLost
  <1>3. ASSUME UNCHANGED Sub!vars PROVE SubInv'
    BY <1>3 DEF Sub!vars, SubInv, SubTyped, SubRowsOK, SubRequestOK
  <1>4. ASSUME NEW q \in Requests, Sub!Step(q) PROVE SubInv'
    BY <1>1, <1>2, <1>4, SubExists, SubInsert, SubFind, SubPreference, SubRecipients, SubAccepted,
       SubUnpublished
       DEF Sub!Step
  <1> QED
    BY <1>3, <1>4, SubBegin DEF Sub!Next

LEMMA SubSuffices ==
    ASSUME Sub!ConstantsAssumption, SubInv
    PROVE  Sub!TypeOK /\ Sub!OneRowUnlessRaced /\ Sub!ReportIsTrue /\ Sub!TwiceOnlyIfLost
  <1>1. Sub!TypeOK
    <2>1. ASSUME NEW q \in Requests
          PROVE  /\ queue[q] \in 0..Attempts
                 /\ req[q].attempt \in 0..Attempts /\ req[q].to \subseteq Endpoints
      <3>1. req[q] \in SubRequest /\ queue[q] \in Nat /\ queue[q] <= req[q].attempt
        BY DEF SubInv, SubTyped, SubRequestOK
      <3>2. req[q].attempt \in 0..Attempts /\ req[q].to \subseteq Endpoints
        BY <3>1 DEF SubRequest
      <3> QED
        BY <3>1, <3>2 DEF Sub!ConstantsAssumption
    <2>2. queue \in [Requests -> 0..Attempts]
      BY <2>1 DEF SubInv, SubTyped
    <2>3. \A r \in sub : r.id \in 1..serial /\ r.user \in Members /\ r.endpoint \in Endpoints
      BY DEF SubInv, SubTyped, SubRow, SubRowsOK
    <2> QED
      BY <2>1, <2>2, <2>3 DEF Sub!TypeOK, SubInv, SubTyped, SubRowsOK
  <1>2. ASSUME NEW e \in Endpoints, e \notin raced PROVE ~(Cardinality(Sub!At(e)) > 1)
    <2>1. Sub!At(e) \subseteq sub /\ \A r, s \in Sub!At(e) : r = s
      BY <1>2 DEF Sub!At, SubInv, SubRowsOK
    <2>2. CASE Sub!At(e) = {}
      BY <2>2, FS_EmptySet
    <2>3. ASSUME NEW r \in Sub!At(e) PROVE ~(Cardinality(Sub!At(e)) > 1)
      <3>1. Sub!At(e) = {r}
        BY <2>1
      <3> QED
        BY <3>1, FS_Singleton
    <2> QED
      BY <2>2, <2>3
  <1>3. Sub!OneRowUnlessRaced
    BY <1>2 DEF Sub!OneRowUnlessRaced, Sub!Cardinality, Cardinality, Sub!IsFiniteSet, IsFiniteSet
  <1> QED
    BY <1>1, <1>3 DEF Sub!ReportIsTrue, Sub!TwiceOnlyIfLost, SubInv, SubRequestOK

\* A browser has two rows only when two registrations of it inserted at once,
\* whoever registers, unsubscribes or turns notifications off meanwhile
\* (saveSubscription).
THEOREM BrowsersAreRegisteredOnce ==
    ASSUME Sub!ConstantsAssumption  PROVE Sub!Spec => []Sub!OneRowUnlessRaced
  BY SubInit, SubStep, SubSuffices, PTL DEF Sub!Spec

\* publish says of a message that it is on the queue only when it is, gives up
\* before its first attempt or after its last one with no copy on the queue but
\* those whose answers were lost, and puts it there twice only when an answer of
\* SQS was lost.
THEOREM MessagesAreReported ==
    ASSUME Sub!ConstantsAssumption
    PROVE  Sub!Spec => [](Sub!ReportIsTrue /\ Sub!TwiceOnlyIfLost)
  BY SubInit, SubStep, SubSuffices, PTL DEF Sub!Spec

-----------------------------------------------------------------------------
(* Activities *)

ActPoints == {"idle", "year", "disable", "insert", "create", "commit", "patch", "user", "remove",
              "reread"}

ActRequest ==
    [at : ActPoints, year : Act!Years, id : Acts \cup {Act!Idle.id},
     row : (Acts \cup {Act!Idle.row[1]}) \X (Members \cup {Act!Idle.row[2]}),
     users : SUBSET (Act!Years \cup Members), always : SUBSET Members, ever : SUBSET Members,
     answer : Nat]

ActTyped ==
    /\ clock \in 1..MaxYear /\ active \subseteq Members /\ straggled \in BOOLEAN
    /\ years \in [Act!Years -> {Act!NoRow, "enabled", "disabled"}]
    /\ act \in [Acts -> [live : BOOLEAN, name : Nat,
                         state : [Members -> Act!States \cup {Act!NotCharged}]]]
    /\ req \in [Requests -> ActRequest]

\* As long as no request straggles there is no row of a later year, the row of
\* the current one is enabled and alone in that, and before there is one the
\* last row of all is.
YearsOK ==
    /\ \A y \in Act!Years : y > clock => years[y] = Act!NoRow
    /\ years[clock] # "disabled"
    /\ years[clock] = "enabled" => \A y \in Act!Years : y < clock => years[y] # "enabled"
    /\ \A y, z \in Act!Years :
         y < clock /\ z < clock /\ years[y] = "enabled" /\ years[z] # Act!NoRow => z <= y

\* What a request r that opens a year counts on.
OfAYear(r) == r.at \in {"year", "disable", "insert"}
OpensYear(r) ==
    /\ OfAYear(r) => r.year \in 1..clock
    /\ ~straggled /\ r.at = "disable" /\ r.year = clock =>
         /\ \A y \in r.users : y \in Act!Years /\ y < clock
         /\ \A y \in Act!Years : y < clock /\ years[y] = "enabled" => y \in r.users
    /\ ~straggled /\ r.at = "insert" /\ r.year = clock =>
         \A y \in Act!Years : y < clock => years[y] # "enabled"

\* What a request r that creates an activity counts on: its id is its own, and
\* whom it will charge were active as it read them.
Creating(r) == r.at \in {"create", "commit"}
Creates(r) ==
    /\ Creating(r) => r.id \in made /\ r.id \in Acts /\ ~act[r.id].live
    /\ r.at = "create" => r.always \subseteq active /\ active \subseteq r.ever
    /\ r.at = "commit" => r.always \subseteq r.users /\ r.users \subseteq r.ever
    /\ r.at \in {"patch", "user", "remove"} => r.id \in Acts
    /\ r.at = "user" => r.row[1] \in Acts /\ r.row[2] \in Members

ActsOK ==
    /\ \A a \in Acts : act[a].live => a \in made
    /\ \A a \in Acts : ~act[a].live => act[a] = Act!NoAct

CreatesApart ==
    \A q, s \in Requests : Creating(req[q]) /\ Creating(req[s]) /\ req[q].id = req[s].id => q = s

ActInv ==
    /\ ActTyped
    /\ ~straggled => YearsOK
    /\ ActsOK /\ CreatesApart
    /\ \A q \in Requests : OpensYear(req[q]) /\ Creates(req[q])

LEMMA MaxOf ==
    ASSUME NEW n \in Nat, NEW S \in SUBSET (0..n), S # {}
    PROVE  Act!Max(S) \in S /\ \A y \in S : y <= Act!Max(S)
  <1> DEFINE R == OpToRel(<, Nat)  T == {n - x : x \in S}
  <1>1. IsWellFoundedOn(R, Nat)
    BY NatLessThanWellFounded
  <1>2. \A x, y \in Nat : <<x, y>> \in R <=> x < y
    BY DEF OpToRel
  <1> HIDE DEF R
  <1>3. T \in SUBSET Nat /\ T # {}
    <2>1. \A x \in S : x \in 0..n /\ n - x \in Nat
      OBVIOUS
    <2> QED
      BY <2>1
  <1>4. PICK t \in T : \A u \in T : ~(<<u, t>> \in R)
    BY <1>1, <1>3, WFMin
  <1>5. PICK x \in S : t = n - x
    BY <1>4
  <1>6. ASSUME NEW y \in S PROVE y <= x
    <2>1. n - y \in T /\ y \in 0..n /\ x \in 0..n /\ n - y \in Nat /\ n - x \in Nat
      BY <1>5
    <2>2. ~(n - y < n - x)
      <3>1. ~(<<n - y, n - x>> \in R)
        BY <1>4, <1>5, <2>1
      <3> QED
        BY <1>2, <2>1, <3>1
    <2> QED
      BY <2>2
  <1>7. \A y \in S : x >= y
    BY <1>6
  <1> HIDE DEF T
  <1>8. \E z \in S : \A y \in S : z >= y
    BY <1>7
  <1>9. Act!Max(S) \in S /\ \A y \in S : Act!Max(S) >= y
    BY <1>8 DEF Act!Max
  <1> QED
    BY <1>9

LEMMA ActIdle ==
    ASSUME Act!ConstantsAssumption
    PROVE  /\ Act!Idle \in ActRequest /\ Act!Idle.at = "idle" /\ Act!Idle.answer = 0
           /\ OpensYear(Act!Idle) /\ Creates(Act!Idle)
  <1>1. 0 \in Act!Years
    BY DEF Act!Years, Act!ConstantsAssumption
  <1> QED
    BY <1>1 DEF Act!Idle, ActRequest, ActPoints, OpensYear, OfAYear, Creates, Creating

LEMMA ActEndsAs ==
    ASSUME Act!ConstantsAssumption, NEW q \in Requests, NEW a \in Nat, Act!Ends(q, a)
    PROVE  \E r \in ActRequest : req' = [req EXCEPT ![q] = r] /\ r.at = "idle" /\ r.answer = a
  <1> DEFINE r == [Act!Idle EXCEPT !.answer = a]
  <1>1. r \in ActRequest /\ r.at = "idle" /\ r.answer = a
    BY ActIdle DEF ActRequest
  <1> QED
    BY <1>1 DEF Act!Ends

\* The request that took a step is r now; the others count on what they did.
LEMMA ActMoves ==
    ASSUME ActInv, ActTyped', ~straggled' => YearsOK', ActsOK',
           NEW q \in Requests, NEW r \in ActRequest, req' = [req EXCEPT ![q] = r],
           OpensYear(r)', Creates(r)',
           Creating(r) => \A s \in Requests \ {q} : Creating(req[s]) => req[s].id # r.id,
           \A t \in ActRequest : (\E s \in Requests \ {q} : req[s] = t) => OpensYear(t)' /\ Creates(t)'
    PROVE  ActInv'
  <1>1. req'[q] = r /\ \A s \in Requests \ {q} : req'[s] = req[s] /\ req[s] \in ActRequest
    BY DEF ActInv, ActTyped
  <1>2. CreatesApart'
    BY <1>1 DEF ActInv, CreatesApart, Creating
  <1>3. ASSUME NEW s \in Requests PROVE OpensYear(req[s])' /\ Creates(req[s])'
    <2>1. CASE s = q
      BY <1>1, <2>1 DEF OpensYear, OfAYear, Creates, Creating
    <2>2. CASE s # q
      <3>1. PICK t \in ActRequest : t = req[s] /\ req'[s] = t
        BY <1>1, <2>2
      <3>2. OpensYear(t)' /\ Creates(t)'
        BY <2>2, <3>1
      <3> QED
        BY <3>1, <3>2 DEF OpensYear, OfAYear, Creates, Creating
    <2> QED
      BY <2>1, <2>2
  <1> QED
    BY <1>2, <1>3 DEF ActInv

\* A step of q that changes no table.
LEMMA ActQuiet ==
    ASSUME ActInv, NEW q \in Requests, NEW r \in ActRequest, req' = [req EXCEPT ![q] = r],
           OpensYear(r), Creates(r),
           Creating(r) => \A s \in Requests \ {q} : Creating(req[s]) => req[s].id # r.id,
           UNCHANGED <<clock, years, active, act, straggled, made>>
    PROVE  ActInv'
  <1>1. ActTyped' /\ (~straggled' => YearsOK') /\ ActsOK'
    BY DEF ActInv, ActTyped, YearsOK, ActsOK
  <1>2. \A t \in ActRequest : OpensYear(t) /\ Creates(t) => OpensYear(t)' /\ Creates(t)'
    BY DEF OpensYear, OfAYear, Creates, Creating
  <1>3. \A t \in ActRequest : (\E s \in Requests \ {q} : req[s] = t) => OpensYear(t)' /\ Creates(t)'
    BY <1>2 DEF ActInv
  <1> QED
    BY <1>1, <1>2, <1>3, ActMoves

LEMMA ActEnds ==
    ASSUME Act!ConstantsAssumption, ActInv, NEW q \in Requests, NEW a \in Nat, Act!Ends(q, a),
           UNCHANGED <<clock, years, active, act, straggled, made>>
    PROVE  ActInv'
  <1>1. PICK r \in ActRequest : req' = [req EXCEPT ![q] = r] /\ r.at = "idle"
    BY ActEndsAs
  <1>2. OpensYear(r) /\ Creates(r) /\ ~Creating(r)
    BY <1>1 DEF OpensYear, OfAYear, Creates, Creating
  <1> QED
    BY <1>1, <1>2, ActQuiet

LEMMA ActPost == ASSUME Act!ConstantsAssumption, ActInv, NEW q \in Requests, Act!Post(q)  PROVE ActInv'
  <1>1. PICK kind \in {"year", "create", "patch", "user", "remove"}, a \in Acts, b \in Acts, m \in Members :
          /\ IF kind = "create" THEN a \notin made /\ made' = made \cup {a} ELSE UNCHANGED made
          /\ req' = [req EXCEPT ![q] = [Act!Idle EXCEPT !.at = kind, !.year = clock, !.id = a,
                         !.row = <<b, m>>, !.always = active, !.ever = active]]
    <2>1. Kinds \ {"toggle"} \subseteq {"year", "create", "patch", "user", "remove"}
      BY DEF Act!ConstantsAssumption
    <2>2. PICK kind \in Kinds \ {"toggle"}, a \in Acts, b \in Acts, m \in Members :
            /\ kind # "user" => a = b /\ m = Act!Idle.row[2]
            /\ kind = "year" => a = Act!Idle.id
            /\ IF kind = "create" THEN a \notin made /\ made' = made \cup {a} ELSE UNCHANGED made
            /\ req' = [req EXCEPT ![q] = [Act!Idle EXCEPT !.at = kind, !.year = clock, !.id = a,
                           !.row = <<b, m>>, !.always = active, !.ever = active]]
      BY DEF Act!Post
    <2> QED
      BY <2>1, <2>2
  <1> DEFINE x == [Act!Idle EXCEPT !.at = kind, !.year = clock, !.id = a, !.row = <<b, m>>,
                                   !.always = active, !.ever = active]
  <1>2. clock \in Act!Years /\ clock \in 1..clock /\ active \in SUBSET Members
    BY DEF ActInv, ActTyped, Act!Years
  <1>3. PICK r \in ActRequest :
          /\ r = x
          /\ r.at = kind /\ r.year = clock /\ r.id = a /\ r.row = <<b, m>>
          /\ r.always = active /\ r.ever = active
    <2>1. x \in ActRequest
      BY <1>2, ActIdle DEF ActRequest, ActPoints
    <2>2. /\ x.at = kind /\ x.year = clock /\ x.id = a /\ x.row = <<b, m>>
          /\ x.always = active /\ x.ever = active
      BY ActIdle DEF ActRequest
    <2> QED
      BY <2>1, <2>2
  <1>4. req' = [req EXCEPT ![q] = r] /\ made \subseteq made'
    BY <1>1, <1>3
  <1> HIDE DEF x
  <1>5. UNCHANGED <<clock, years, active, act, crashes, straggled>>
    BY DEF Act!Post
  <1>6. ActTyped' /\ (~straggled' => YearsOK') /\ ActsOK'
    BY <1>3, <1>4, <1>5 DEF ActInv, ActTyped, YearsOK, ActsOK
  <1>7. OpensYear(r)'
    <2>1. OpensYear(r)
      BY <1>2, <1>3 DEF OpensYear, OfAYear
    <2> QED
      BY <1>5, <2>1 DEF OpensYear, OfAYear
  <1>8. kind = "create" => a \in made' /\ ~act[a].live
    BY <1>1 DEF ActInv, ActsOK
  <1>9. Creates(r)'
    <2>1. /\ r.at # "commit" /\ r.id \in Acts /\ r.row[1] \in Acts /\ r.row[2] \in Members
          /\ Creating(r) => r.id \in made' /\ ~act'[r.id].live
          /\ r.always \subseteq active' /\ active' \subseteq r.ever
      BY <1>3, <1>5, <1>8 DEF Creating
    <2> QED
      BY <2>1 DEF Creates, Creating
  <1>10. \A t \in ActRequest : OpensYear(t) /\ Creates(t) => OpensYear(t)' /\ Creates(t)'
    BY <1>4, <1>5 DEF OpensYear, OfAYear, Creates, Creating
  <1>11. \A t \in ActRequest : (\E s \in Requests \ {q} : req[s] = t) => OpensYear(t)' /\ Creates(t)'
    BY <1>10 DEF ActInv
  <1>12. Creating(r) => \A s \in Requests \ {q} : Creating(req[s]) => req[s].id # r.id
    BY <1>1, <1>3 DEF ActInv, Creates, Creating
  <1> QED
    BY <1>3, <1>4, <1>6, <1>7, <1>9, <1>11, <1>12, ActMoves

\* Years

LEMMA ActFindLast ==
    ASSUME Act!ConstantsAssumption, ActInv, NEW q \in Requests, Act!FindLast(q)
    PROVE  ActInv'
  <1> DEFINE others == Act!Others(req[q].year)
             users == IF others = {} THEN {} ELSE {Act!Max(others)}
             r == [req[q] EXCEPT !.at = "disable", !.users = users]
  <1>1. /\ req[q] \in ActRequest /\ OpensYear(req[q]) /\ req[q].at = "year"
        /\ UNCHANGED <<clock, years, active, act, straggled, made>>
    BY DEF Act!FindLast, ActInv, ActTyped
  <1>2. req' = [req EXCEPT ![q] = r]
    BY DEF Act!FindLast, ActInv, ActTyped
  <1>3. \A y : y \in others <=> y \in Act!Years /\ y # req[q].year /\ years[y] # Act!NoRow
    BY DEF Act!Others
  <1>4. others \in SUBSET (0..MaxYear) /\ MaxYear \in Nat
    BY DEF Act!Others, Act!Years, Act!ConstantsAssumption
  <1> HIDE DEF others
  <1>5. others # {} => Act!Max(others) \in others /\ \A y \in others : y <= Act!Max(others)
    BY <1>4, MaxOf
  <1>6. \A y \in users : y \in others
    BY <1>5
  <1>7. users \in SUBSET (Act!Years \cup Members)
    BY <1>3, <1>6
  <1>8. ASSUME ~straggled, req[q].year = clock
        PROVE  /\ \A y \in users : y \in Act!Years /\ y < clock
               /\ \A y \in Act!Years : y < clock /\ years[y] = "enabled" => y \in users
    <2>1. YearsOK /\ clock \in Nat /\ Act!Years \subseteq Nat
      BY <1>8 DEF ActInv, ActTyped, Act!Years
    <2>2. ASSUME NEW y \in others PROVE y \in Act!Years /\ y < clock
      <3>1. y \in Act!Years /\ y # clock /\ years[y] # Act!NoRow
        BY <1>3, <1>8
      <3>2. y \in Nat /\ ~(y > clock)
        BY <2>1, <3>1 DEF YearsOK
      <3> QED
        BY <2>1, <3>1, <3>2
    <2>3. ASSUME NEW y \in Act!Years, y < clock, years[y] = "enabled" PROVE y \in users
      <3>1. y \in others
        BY <1>3, <1>8, <2>1, <2>3 DEF Act!NoRow
      <3> DEFINE x == Act!Max(others)
      <3>2. x \in others /\ y <= x
        BY <1>5, <3>1
      <3>3. x \in Nat /\ y \in Nat /\ x < clock /\ years[x] # Act!NoRow /\ x \in Act!Years
        BY <1>3, <2>1, <2>2, <3>2
      <3>4. x <= y
        BY <2>1, <2>3, <3>3 DEF YearsOK
      <3>5. x = y
        BY <3>2, <3>3, <3>4
      <3> QED
        BY <3>1, <3>5
    <2> QED
      BY <1>6, <2>2, <2>3
  <1> HIDE DEF users
  <1>9. r \in ActRequest /\ r.at = "disable" /\ r.users = users /\ r.year = req[q].year
    BY <1>1, <1>7 DEF ActRequest, ActPoints
  <1> HIDE DEF r
  <1>10. OpensYear(r) /\ Creates(r) /\ ~Creating(r)
    BY <1>1, <1>8, <1>9 DEF OpensYear, OfAYear, Creates, Creating
  <1> QED
    BY <1>1, <1>2, <1>9, <1>10, ActQuiet

\* A step that writes the years, of a request that may straggle.
LEMMA ActWrites ==
    ASSUME ActInv, NEW q \in Requests, NEW r \in ActRequest, req' = [req EXCEPT ![q] = r],
           years' \in [Act!Years -> {Act!NoRow, "enabled", "disabled"}],
           straggled' = (straggled \/ req[q].year # clock),
           UNCHANGED <<clock, active, act, made>>, ~Creating(r),
           ~straggled /\ req[q].year = clock =>
             /\ YearsOK'
             /\ \A y \in Act!Years : y < clock =>
                  years'[y] = years[y] \/ years'[y] # "enabled",
           OpensYear(r)', Creates(r)
    PROVE  ActInv'
  <1>1. ActTyped' /\ ActsOK' /\ (~straggled' => YearsOK')
    BY DEF ActInv, ActTyped, ActsOK
  <1>2. \A t \in ActRequest : Creates(t) => Creates(t)'
    BY DEF Creates, Creating
  <1>3. \A t \in ActRequest : OpensYear(t) => OpensYear(t)'
    BY DEF OpensYear, OfAYear
  <1>4. \A t \in ActRequest : (\E s \in Requests \ {q} : req[s] = t) => OpensYear(t)' /\ Creates(t)'
    BY <1>2, <1>3 DEF ActInv
  <1> QED
    BY <1>1, <1>2, <1>4, ActMoves

LEMMA ActDisable ==
    ASSUME Act!ConstantsAssumption, ActInv, NEW q \in Requests, Act!Disable(q)
    PROVE  ActInv'
  <1>1. /\ req[q] \in ActRequest /\ OpensYear(req[q]) /\ req[q].at = "disable"
        /\ UNCHANGED <<clock, active, act, crashes, made>>
        /\ straggled' = (straggled \/ req[q].year # clock)
    BY DEF Act!Disable, ActInv, ActTyped
  <1>2. req' = [req EXCEPT ![q] = [req[q] EXCEPT !.at = "insert"]]
    BY DEF Act!Disable, ActInv, ActTyped
  <1>3. /\ years' \in [Act!Years -> {Act!NoRow, "enabled", "disabled"}]
        /\ \A y \in Act!Years : years'[y] = IF y \in req[q].users THEN "disabled" ELSE years[y]
    BY DEF Act!Disable, ActInv, ActTyped
  <1>4. PICK r \in ActRequest : /\ req' = [req EXCEPT ![q] = r] /\ r.at = "insert"
                                /\ r.year = req[q].year
    <2> DEFINE x == [req[q] EXCEPT !.at = "insert"]
    <2>1. x \in ActRequest /\ x.at = "insert" /\ x.year = req[q].year
      BY <1>1 DEF ActRequest, ActPoints
    <2> QED
      BY <1>2, <2>1
  <1>5. ASSUME ~straggled, req[q].year = clock
        PROVE  /\ YearsOK'
               /\ \A y \in Act!Years : y < clock => years'[y] # "enabled"
    <2>1. YearsOK /\ clock \in Nat /\ clock \in Act!Years /\ Act!Years \subseteq Nat
      BY <1>5 DEF ActInv, ActTyped, Act!Years
    <2>2. /\ \A y \in req[q].users : y \in Act!Years /\ y < clock
          /\ \A y \in Act!Years : y < clock /\ years[y] = "enabled" => y \in req[q].users
      BY <1>1, <1>5 DEF OpensYear
    <2>3. \A y \in Act!Years : y < clock => years'[y] # "enabled"
      BY <1>3, <2>2
    <2>4. \A y \in Act!Years : y >= clock => years'[y] = years[y]
      BY <1>3, <2>1, <2>2
    <2>5. /\ \A y \in Act!Years : y > clock => years'[y] = Act!NoRow
          /\ years'[clock] # "disabled" /\ clock' = clock
      BY <1>1, <2>1, <2>4 DEF YearsOK
    <2> QED
      BY <2>3, <2>5 DEF YearsOK
  <1>6. OpensYear(r)'
    <2>1. req[q].year \in 1..clock /\ clock' = clock
      BY <1>1 DEF OpensYear, OfAYear
    <2>2. ~straggled' /\ r.year = clock => \A y \in Act!Years : y < clock => years'[y] # "enabled"
      BY <1>1, <1>4, <1>5
    <2> QED
      BY <1>4, <2>1, <2>2 DEF OpensYear, OfAYear
  <1>7. Creates(r) /\ ~Creating(r)
    BY <1>4 DEF Creates, Creating
  <1> QED
    BY <1>1, <1>3, <1>4, <1>5, <1>6, <1>7, ActWrites

LEMMA ActInsertYear ==
    ASSUME Act!ConstantsAssumption, ActInv, NEW q \in Requests, Act!InsertYear(q)
    PROVE  ActInv'
  <1>1. /\ req[q] \in ActRequest /\ OpensYear(req[q]) /\ req[q].at = "insert"
        /\ UNCHANGED <<clock, active, act, crashes, made>>
        /\ straggled' = (straggled \/ req[q].year # clock)
        /\ req[q].year \in Act!Years
    BY DEF Act!InsertYear, ActInv, ActTyped, ActRequest
  <1>2. PICK r \in ActRequest : req' = [req EXCEPT ![q] = r] /\ r.at = "idle"
    BY ActEndsAs DEF Act!InsertYear
  <1>3. /\ years' \in [Act!Years -> {Act!NoRow, "enabled", "disabled"}]
        /\ \A y \in Act!Years :
             years'[y] = years[y] \/ (y = req[q].year /\ years'[y] = "enabled")
    BY <1>1 DEF Act!InsertYear, ActInv, ActTyped
  <1>4. ASSUME ~straggled, req[q].year = clock
        PROVE  /\ YearsOK'
               /\ \A y \in Act!Years : y < clock => years'[y] = years[y]
    <2>1. YearsOK /\ clock \in Nat /\ clock \in Act!Years /\ Act!Years \subseteq Nat
      BY <1>4 DEF ActInv, ActTyped, Act!Years
    <2>2. \A y \in Act!Years : y < clock => years[y] # "enabled"
      BY <1>1, <1>4 DEF OpensYear
    <2>3. \A y \in Act!Years : y # clock => years'[y] = years[y]
      BY <1>3, <1>4
    <2>4. years'[clock] # "disabled"
      BY <1>3, <2>1 DEF YearsOK
    <2> QED
      BY <1>1, <2>1, <2>2, <2>3, <2>4 DEF YearsOK
  <1>5. OpensYear(r)' /\ Creates(r) /\ ~Creating(r)
    BY <1>2 DEF OpensYear, OfAYear, Creates, Creating
  <1> QED
    BY <1>1, <1>2, <1>3, <1>4, <1>5, ActWrites

LEMMA ActNextYear == ASSUME Act!ConstantsAssumption, ActInv, Act!NextYear  PROVE ActInv'
  <1>1. /\ clock \in 1..MaxYear /\ clock < MaxYear /\ clock' = clock + 1 /\ MaxYear \in Nat
        /\ UNCHANGED <<years, active, act, req, requests, crashes, straggled, made>>
    BY DEF Act!NextYear, ActInv, ActTyped, Act!ConstantsAssumption
  <1>2. clock \in Nat /\ clock' \in 1..MaxYear /\ clock \in Act!Years /\ clock' \in Act!Years
        /\ Act!Years \subseteq Nat
    BY <1>1 DEF Act!Years
  <1>3. ActTyped' /\ ActsOK' /\ CreatesApart'
    BY <1>1, <1>2 DEF ActInv, ActTyped, ActsOK, CreatesApart
  <1>4. ASSUME ~straggled PROVE YearsOK'
    <2>1. /\ \A y \in Act!Years : y > clock => years[y] = Act!NoRow
          /\ years[clock] # "disabled"
          /\ years[clock] = "enabled" => \A y \in Act!Years : y < clock => years[y] # "enabled"
          /\ \A y, z \in Act!Years :
               y < clock /\ z < clock /\ years[y] = "enabled" /\ years[z] # Act!NoRow => z <= y
      BY <1>4 DEF ActInv, YearsOK
    <2>2. years'[clock'] = Act!NoRow /\ Act!NoRow \notin {"enabled", "disabled"}
      BY <1>1, <1>2, <2>1 DEF Act!NoRow
    <2>3. \A y \in Act!Years : y > clock' => years'[y] = Act!NoRow
      BY <1>1, <1>2, <2>1
    <2>4. ASSUME NEW y \in Act!Years, NEW z \in Act!Years, y < clock', z < clock',
                 years[y] = "enabled", years[z] # Act!NoRow
          PROVE  z <= y
      <3>1. y \in Nat /\ z \in Nat /\ y <= clock /\ z <= clock
        BY <1>1, <1>2, <2>4
      <3>2. CASE y = clock
        BY <3>1, <3>2
      <3>3. CASE y # clock
        <4>1. y < clock /\ years[clock] # "enabled"
          BY <1>2, <2>1, <2>4, <3>1, <3>3
        <4>2. z # clock
          BY <1>2, <2>1, <2>4, <4>1 DEF ActInv, ActTyped
        <4> QED
          BY <1>2, <2>1, <2>4, <3>1, <4>1, <4>2
      <3> QED
        BY <3>2, <3>3
    <2> QED
      BY <1>1, <2>2, <2>3, <2>4 DEF YearsOK
  <1>5. ASSUME NEW q \in Requests PROVE OpensYear(req[q])' /\ Creates(req[q])'
    <2>1. /\ OpensYear(req[q]) /\ Creates(req[q]) /\ req'[q] = req[q]
      BY <1>1 DEF ActInv
    <2>2. Creates(req[q])'
      BY <1>1, <2>1 DEF Creates, Creating
    <2>3. OfAYear(req[q]) => req[q].year \in 1..clock' /\ req[q].year # clock'
      BY <1>1, <1>2, <2>1 DEF OpensYear
    <2> QED
      BY <2>1, <2>2, <2>3 DEF OpensYear, OfAYear
  <1> QED
    BY <1>1, <1>3, <1>4, <1>5 DEF ActInv

\* Activities

LEMMA ActReadUsers ==
    ASSUME Act!ConstantsAssumption, ActInv, NEW q \in Requests, Act!ReadUsers(q)
    PROVE  ActInv'
  <1>1. /\ req[q] \in ActRequest /\ Creates(req[q]) /\ req[q].at = "create"
        /\ active \in SUBSET Members /\ UNCHANGED <<clock, years, active, act, straggled, made>>
    BY DEF Act!ReadUsers, ActInv, ActTyped
  <1> DEFINE x == [req[q] EXCEPT !.at = "commit", !.users = active]
  <1>2. /\ x \in ActRequest /\ x.at = "commit" /\ x.users = active /\ x.id = req[q].id
        /\ x.always = req[q].always /\ x.ever = req[q].ever
    BY <1>1 DEF ActRequest, ActPoints
  <1>3. req' = [req EXCEPT ![q] = x]
    BY DEF Act!ReadUsers, ActInv, ActTyped
  <1>4. OpensYear(x) /\ Creates(x)
    BY <1>1, <1>2 DEF OpensYear, OfAYear, Creates, Creating
  <1>5. Creating(req[q])
    BY <1>1 DEF Creating
  <1>6. \A s \in Requests \ {q} : Creating(req[s]) => req[s].id # x.id
    BY <1>2, <1>5 DEF ActInv, CreatesApart
  <1> HIDE DEF x
  <1> QED
    BY <1>1, <1>2, <1>3, <1>4, <1>6, ActQuiet

ActRow == [live : BOOLEAN, name : Nat, state : [Members -> Act!States \cup {Act!NotCharged}]]

\* A step of q that writes the activity a, which nobody is creating; q goes on as r.
LEMMA ActWritten ==
    ASSUME ActInv, NEW q \in Requests, NEW r \in ActRequest, req' = [req EXCEPT ![q] = r],
           r.at \in {"idle", "reread"}, NEW a \in Acts, NEW x \in ActRow,
           act' = [act EXCEPT ![a] = x],
           x.live => a \in made /\ \A s \in Requests \ {q} : Creating(req[s]) => req[s].id # a,
           ~x.live => x = Act!NoAct,
           UNCHANGED <<clock, years, active, straggled, made>>
    PROVE  ActInv'
  <1>1. act'[a] = x /\ \A b \in Acts \ {a} : act'[b] = act[b]
    BY DEF ActInv, ActTyped
  <1>2. ActTyped' /\ (~straggled' => YearsOK')
    BY DEF ActInv, ActTyped, YearsOK, ActRow
  <1>3. ActsOK'
    BY <1>1 DEF ActInv, ActsOK
  <1>4. OpensYear(r)' /\ Creates(r)' /\ ~Creating(r)
    BY DEF OpensYear, OfAYear, Creates, Creating
  <1>5. ASSUME NEW t \in ActRequest, NEW s \in Requests \ {q}, req[s] = t
        PROVE  OpensYear(t)' /\ Creates(t)'
    <2>1. OpensYear(t) /\ Creates(t)
      BY <1>5 DEF ActInv
    <2>2. Creating(t) => ~act'[t.id].live
      BY <1>1, <1>5, <2>1 DEF Creates
    <2>3. OpensYear(t)'
      BY <2>1 DEF OpensYear, OfAYear
    <2> QED
      BY <2>1, <2>2, <2>3 DEF Creates, Creating
  <1> QED
    BY <1>2, <1>3, <1>4, <1>5, ActMoves

LEMMA ActCommit ==
    ASSUME Act!ConstantsAssumption, ActInv, NEW q \in Requests, Act!Commit(q)
    PROVE  ActInv'
  <1>1. /\ req[q] \in ActRequest /\ Creates(req[q]) /\ Creating(req[q])
        /\ UNCHANGED <<clock, years, active, straggled, made>>
    BY DEF Act!Commit, ActInv, ActTyped, Creating
  <1>2. PICK a \in Acts : a = req[q].id /\ a \in made
    BY <1>1 DEF Creates
  <1> DEFINE x == [live |-> TRUE, name |-> 0,
                   state |-> [m \in Members |-> IF m \in req[q].users THEN Act!NOT_PAID
                                                ELSE Act!NotCharged]]
  <1>3. x \in ActRow /\ x.live
    BY DEF ActRow, Act!NOT_PAID, Act!States
  <1>4. act' = [act EXCEPT ![a] = x]
    BY <1>2 DEF Act!Commit
  <1>5. PICK r \in ActRequest : req' = [req EXCEPT ![q] = r] /\ r.at = "idle"
    BY ActEndsAs DEF Act!Commit
  <1>6. \A s \in Requests \ {q} : Creating(req[s]) => req[s].id # a
    BY <1>1, <1>2 DEF ActInv, CreatesApart
  <1> HIDE DEF x
  <1> QED
    BY <1>1, <1>2, <1>3, <1>4, <1>5, <1>6, ActWritten

LEMMA ActRereads ==
    ASSUME ActInv, NEW q \in Requests, req' = [req EXCEPT ![q].at = "reread"]
    PROVE  \E r \in ActRequest : req' = [req EXCEPT ![q] = r] /\ r.at = "reread"
  <1> DEFINE x == [req[q] EXCEPT !.at = "reread"]
  <1>1. req[q] \in ActRequest
    BY DEF ActInv, ActTyped
  <1>2. x \in ActRequest /\ x.at = "reread"
    BY <1>1 DEF ActRequest, ActPoints
  <1>3. req' = [req EXCEPT ![q] = x]
    BY DEF ActInv, ActTyped
  <1> HIDE DEF x
  <1> QED
    BY <1>2, <1>3

LEMMA ActUpdate ==
    ASSUME Act!ConstantsAssumption, ActInv, NEW q \in Requests, Act!Update(q)
    PROVE  ActInv'
  <1>1. /\ req[q] \in ActRequest /\ Creates(req[q]) /\ req[q].at = "patch"
        /\ UNCHANGED <<clock, years, active, straggled, made>>
    BY DEF Act!Update, ActInv, ActTyped
  <1>2. CASE req[q].id \notin Act!Live
    <2>1. Act!Ends(q, 404) /\ UNCHANGED act
      BY <1>2 DEF Act!Update
    <2> QED
      BY <1>1, <2>1, ActEnds
  <1>3. CASE req[q].id \in Act!Live
    <2>1. PICK a \in Acts : a = req[q].id /\ act[a].live /\ a \in made
      BY <1>3 DEF Act!Live, ActInv, ActsOK
    <2>2. /\ act' = [act EXCEPT ![req[q].id].name = 1]
          /\ req' = [req EXCEPT ![q].at = "reread"]
      BY <1>3 DEF Act!Update
    <2> DEFINE x == [act[a] EXCEPT !.name = 1]
    <2>3. act[a] \in ActRow
      BY DEF ActInv, ActTyped, ActRow
    <2>4. x \in ActRow /\ x.live
      BY <2>1, <2>3 DEF ActRow
    <2>5. act' = [act EXCEPT ![a] = x]
      BY <2>1, <2>2 DEF ActInv, ActTyped
    <2>6. PICK r \in ActRequest : req' = [req EXCEPT ![q] = r] /\ r.at = "reread"
      BY <2>2, ActRereads
    <2>7. \A s \in Requests \ {q} : Creating(req[s]) => req[s].id # a
      BY <2>1 DEF ActInv, Creates
    <2> HIDE DEF x
    <2> QED
      BY <1>1, <2>1, <2>4, <2>5, <2>6, <2>7, ActWritten
  <1> QED
    BY <1>2, <1>3

LEMMA ActUpdateUser ==
    ASSUME Act!ConstantsAssumption, ActInv, NEW q \in Requests, Act!UpdateUser(q)
    PROVE  ActInv'
  <1>1. /\ req[q] \in ActRequest /\ Creates(req[q]) /\ req[q].at = "user"
        /\ UNCHANGED <<clock, years, active, straggled, made>>
    BY DEF Act!UpdateUser, ActInv, ActTyped
  <1>2. PICK a \in Acts, m \in Members : a = req[q].row[1] /\ m = req[q].row[2]
    BY <1>1 DEF Creates
  <1>3. IF a = req[q].id /\ a \in Act!Live /\ act[a].state[m] # Act!NotCharged
        THEN /\ act' = [act EXCEPT ![a].state[m] = 1 - @]
             /\ req' = [req EXCEPT ![q].at = "reread"]
        ELSE UNCHANGED act /\ Act!Ends(q, 404)
    BY <1>2 DEF Act!UpdateUser
  <1>4. CASE ~(a = req[q].id /\ a \in Act!Live /\ act[a].state[m] # Act!NotCharged)
    <2>1. UNCHANGED act /\ Act!Ends(q, 404)
      BY <1>3, <1>4
    <2> QED
      BY <1>1, <2>1, ActEnds
  <1>5. CASE a = req[q].id /\ a \in Act!Live /\ act[a].state[m] # Act!NotCharged
    <2>1. act[a].live /\ a \in made
      BY <1>5 DEF Act!Live, ActInv, ActsOK
    <2>2. /\ act' = [act EXCEPT ![a].state[m] = 1 - @]
          /\ req' = [req EXCEPT ![q].at = "reread"]
      BY <1>3, <1>5
    <2> DEFINE n == 1 - act[a].state[m]
               x == [act[a] EXCEPT !.state = [act[a].state EXCEPT ![m] = n]]
    <2>3. act[a] \in ActRow
      BY DEF ActInv, ActTyped, ActRow
    <2>4. n \in Act!States
      BY <1>5, <2>3 DEF ActRow, Act!States, Act!NotCharged
    <2>5. act' = [act EXCEPT ![a] = x]
      BY <2>2, <2>3 DEF ActRow
    <2> HIDE DEF n
    <2>6. x \in ActRow /\ x.live
      BY <2>1, <2>3, <2>4 DEF ActRow
    <2>7. PICK r \in ActRequest : req' = [req EXCEPT ![q] = r] /\ r.at = "reread"
      BY <2>2, ActRereads
    <2>8. \A s \in Requests \ {q} : Creating(req[s]) => req[s].id # a
      BY <2>1 DEF ActInv, Creates
    <2> HIDE DEF x
    <2> QED
      BY <1>1, <2>1, <2>5, <2>6, <2>7, <2>8, ActWritten
  <1> QED
    BY <1>4, <1>5

LEMMA ActRemove ==
    ASSUME Act!ConstantsAssumption, ActInv, NEW q \in Requests, Act!Remove(q)
    PROVE  ActInv'
  <1>1. /\ Creates(req[q]) /\ req[q].at = "remove"
        /\ UNCHANGED <<clock, years, active, straggled, made>>
    BY DEF Act!Remove, ActInv
  <1>2. PICK a \in Acts : a = req[q].id
    BY <1>1 DEF Creates
  <1>3. act' = [act EXCEPT ![a] = Act!NoAct]
    BY <1>2 DEF Act!Remove
  <1>4. Act!NoAct \in ActRow /\ ~Act!NoAct.live
    BY DEF ActRow, Act!NoAct, Act!Uncharged
  <1>5. PICK r \in ActRequest : req' = [req EXCEPT ![q] = r] /\ r.at = "idle"
    BY ActEndsAs DEF Act!Remove
  <1> QED
    BY <1>1, <1>3, <1>4, <1>5, ActWritten

LEMMA ActReread ==
    ASSUME Act!ConstantsAssumption, ActInv, NEW q \in Requests, Act!Reread(q)
    PROVE  ActInv'
  <1>1. UNCHANGED <<clock, years, active, act, straggled, made>>
    BY DEF Act!Reread
  <1>2. \E n \in Nat : Act!Ends(q, n)
    <2>1. Act!Ends(q, IF req[q].id \in Act!Live THEN 200 ELSE 404)
      BY DEF Act!Reread
    <2> QED
      BY <2>1
  <1> QED
    BY <1>1, <1>2, ActEnds

\* The rest of the system

LEMMA ActToggle ==
    ASSUME Act!ConstantsAssumption, ActInv, NEW m \in Members, Act!Toggle(m)
    PROVE  ActInv'
  <1>1. /\ active' \in SUBSET Members
        /\ UNCHANGED <<clock, years, act, straggled, made>>
    BY DEF Act!Toggle, ActInv, ActTyped
  <1> DEFINE of(r) == [r EXCEPT !.always = r.always \cap active', !.ever = r.ever \cup active']
  <1>2. req' = [q \in Requests |-> of(req[q])]
    BY DEF Act!Toggle
  <1>3. ASSUME NEW q \in Requests
        PROVE  /\ req'[q] \in ActRequest
               /\ req'[q].at = req[q].at /\ req'[q].year = req[q].year /\ req'[q].id = req[q].id
               /\ req'[q].row = req[q].row /\ req'[q].users = req[q].users
               /\ req'[q].always = req[q].always \cap active'
               /\ req'[q].ever = req[q].ever \cup active'
    <2>1. PICK r \in ActRequest : r = req[q]
      BY DEF ActInv, ActTyped
    <2>2. PICK always \in SUBSET Members, ever \in SUBSET Members :
            always = r.always \cap active' /\ ever = r.ever \cup active'
      BY <1>1, <2>1 DEF ActRequest
    <2> DEFINE x == [r EXCEPT !.always = always, !.ever = ever]
    <2>3. x \in ActRequest
      BY <2>1, <2>2 DEF ActRequest
    <2>4. /\ x.at = r.at /\ x.year = r.year /\ x.id = r.id /\ x.row = r.row /\ x.users = r.users
          /\ x.always = always /\ x.ever = ever
      BY <2>1 DEF ActRequest
    <2>5. req'[q] = x
      BY <1>2, <2>1, <2>2
    <2> HIDE DEF x
    <2> QED
      BY <2>1, <2>2, <2>3, <2>4, <2>5
  <1>4. DOMAIN req' = Requests /\ req' = [q \in Requests |-> req'[q]]
    BY <1>2
  <1> HIDE DEF of
  <1>5. ActTyped'
    BY <1>1, <1>3, <1>4 DEF ActInv, ActTyped
  <1>6. (~straggled' => YearsOK') /\ ActsOK' /\ CreatesApart'
    BY <1>1, <1>3 DEF ActInv, YearsOK, ActsOK, CreatesApart, Creating
  <1>7. ASSUME NEW q \in Requests PROVE OpensYear(req[q])' /\ Creates(req[q])'
    <2>1. OpensYear(req[q]) /\ Creates(req[q])
      BY DEF ActInv
    <2>2. OpensYear(req[q])'
      BY <1>1, <1>3, <2>1 DEF OpensYear, OfAYear
    <2> QED
      BY <1>1, <1>3, <2>1, <2>2 DEF Creates, Creating
  <1> QED
    BY <1>5, <1>6, <1>7 DEF ActInv

LEMMA ActCrash == ASSUME Act!ConstantsAssumption, ActInv, Act!Crash  PROVE ActInv'
  <1>1. UNCHANGED <<clock, years, active, act, straggled, made>>
    BY DEF Act!Crash
  <1>2. req' = [q \in Requests |-> Act!Idle]
    BY DEF Act!Crash
  <1>3. \A q \in Requests : req'[q] \in ActRequest /\ req'[q].at = "idle"
    BY <1>2, ActIdle
  <1>4. ActTyped'
    BY <1>1, <1>2, ActIdle DEF ActInv, ActTyped
  <1>5. (~straggled' => YearsOK') /\ ActsOK' /\ CreatesApart'
    BY <1>1, <1>3 DEF ActInv, YearsOK, ActsOK, CreatesApart, Creating
  <1>6. \A q \in Requests : OpensYear(req[q])' /\ Creates(req[q])'
    BY <1>3 DEF OpensYear, OfAYear, Creates, Creating
  <1> QED
    BY <1>4, <1>5, <1>6 DEF ActInv

LEMMA ActInit == ASSUME Act!ConstantsAssumption, Act!Init  PROVE ActInv
  <1>1. /\ clock = 1 /\ active = Members /\ straggled = FALSE /\ made = {}
        /\ years = [y \in Act!Years |-> IF y = 0 THEN "enabled" ELSE Act!NoRow]
        /\ act = [a \in Acts |-> Act!NoAct] /\ req = [q \in Requests |-> Act!Idle]
        /\ MaxYear \in Nat \ {0} /\ 1 \in Act!Years /\ Act!Years \subseteq Nat
    BY DEF Act!Init, Act!ConstantsAssumption, Act!Years
  <1>2. Act!NoAct \in ActRow /\ ~Act!NoAct.live
    BY DEF ActRow, Act!NoAct, Act!Uncharged
  <1>3. ActTyped
    <2>1. req \in [Requests -> ActRequest]
      BY <1>1, ActIdle
    <2>2. act \in [Acts -> ActRow]
      BY <1>1, <1>2
    <2>3. years \in [Act!Years -> {Act!NoRow, "enabled", "disabled"}]
      BY <1>1
    <2>4. clock \in 1..MaxYear
      BY <1>1
    <2>5. active \subseteq Members
      BY <1>1
    <2>6. straggled \in BOOLEAN
      BY <1>1, Zenon
    <2> QED
      BY <2>1, <2>2, <2>3, <2>4, <2>5, <2>6 DEF ActTyped, ActRow
  <1>4. YearsOK
    <2>1. \A y \in Act!Years : y # 0 => years[y] = Act!NoRow
      BY <1>1
    <2>2. years[1] = Act!NoRow /\ Act!NoRow \notin {"enabled", "disabled"}
      BY <1>1, <2>1 DEF Act!NoRow
    <2>3. \A y \in Act!Years : y > clock => years[y] = Act!NoRow
      BY <1>1, <2>1
    <2>4. \A y \in Act!Years : y < clock <=> y = 0
      BY <1>1
    <2> QED
      BY <1>1, <2>2, <2>3, <2>4 DEF YearsOK
  <1>5. \A q \in Requests : req[q].at = "idle"
    BY <1>1, ActIdle
  <1>6. ActsOK /\ CreatesApart
    BY <1>1, <1>2, <1>5 DEF ActsOK, CreatesApart, Creating
  <1>7. \A q \in Requests : OpensYear(req[q]) /\ Creates(req[q])
    BY <1>5 DEF OpensYear, OfAYear, Creates, Creating
  <1> QED
    BY <1>3, <1>4, <1>6, <1>7 DEF ActInv

LEMMA ActStep == ASSUME Act!ConstantsAssumption, ActInv, [Act!Next]_(Act!vars)  PROVE ActInv'
  <1>1. CASE UNCHANGED Act!vars
    <2>1. UNCHANGED <<clock, years, active, act, req, straggled, made>>
      BY <1>1 DEF Act!vars
    <2>2. ActTyped' /\ (~straggled' => YearsOK') /\ ActsOK' /\ CreatesApart'
      BY <2>1 DEF ActInv, ActTyped, YearsOK, ActsOK, CreatesApart
    <2>3. \A q \in Requests : OpensYear(req[q])' /\ Creates(req[q])'
      BY <2>1 DEF ActInv, OpensYear, OfAYear, Creates, Creating
    <2> QED
      BY <2>2, <2>3 DEF ActInv
  <1>2. ASSUME NEW q \in Requests, Act!Post(q) \/ Act!Step(q) PROVE ActInv'
    <2>1. CASE Act!Post(q)
      BY <2>1, ActPost
    <2>2. CASE Act!FindLast(q)
      BY <2>2, ActFindLast
    <2>3. CASE Act!Disable(q)
      BY <2>3, ActDisable
    <2>4. CASE Act!InsertYear(q)
      BY <2>4, ActInsertYear
    <2>5. CASE Act!ReadUsers(q)
      BY <2>5, ActReadUsers
    <2>6. CASE Act!Commit(q)
      BY <2>6, ActCommit
    <2>7. CASE Act!Update(q)
      BY <2>7, ActUpdate
    <2>8. CASE Act!UpdateUser(q)
      BY <2>8, ActUpdateUser
    <2>9. CASE Act!Reread(q)
      BY <2>9, ActReread
    <2>10. CASE Act!Remove(q)
      BY <2>10, ActRemove
    <2> QED
      BY <1>2, <2>1, <2>2, <2>3, <2>4, <2>5, <2>6, <2>7, <2>8, <2>9, <2>10 DEF Act!Step
  <1>3. ASSUME NEW m \in Members, Act!Toggle(m) PROVE ActInv'
    BY <1>3, ActToggle
  <1> QED
    BY <1>1, <1>2, <1>3, ActNextYear, ActCrash DEF Act!Next

-----------------------------------------------------------------------------
(* What the invariant gives of the activities *)

LEMMA ActSuffices ==
    ASSUME Act!ConstantsAssumption, ActInv
    PROVE  Act!TypeOK /\ Act!OneYearEnabled /\ Act!CurrentYearStaysEnabled
  <1>1. Act!TypeOK
    BY DEF ActInv, ActTyped, ActsOK, Act!TypeOK, Act!Live
  <1>2. Act!CurrentYearStaysEnabled
    BY DEF ActInv, YearsOK, Act!CurrentYearStaysEnabled
  <1>3. Act!OneYearEnabled
    <2> DEFINE E == {y \in Act!Years : years[y] = "enabled"}
    <2>0. CASE straggled
      BY <2>0 DEF Act!OneYearEnabled
    <2> SUFFICES ASSUME ~straggled PROVE Cardinality(E) <= 1
      <3>1. Act!Cardinality(E) <= 1 => Act!OneYearEnabled
        BY DEF Act!OneYearEnabled
      <3>2. Cardinality(E) = Act!Cardinality(E)
        BY Zenon DEF Cardinality, Act!Cardinality
      <3> HIDE DEF E
      <3> QED
        BY <2>0, <3>1, <3>2
    <2>1. YearsOK /\ clock \in Nat /\ Act!Years \subseteq Nat
      BY DEF ActInv, ActTyped, Act!Years
    <2>2. ASSUME NEW y \in E, NEW z \in E PROVE y <= z
      <3>1. y \in Act!Years /\ z \in Act!Years /\ years[y] = "enabled" /\ years[z] = "enabled"
            /\ years[y] # Act!NoRow /\ years[z] # Act!NoRow
        BY DEF Act!NoRow
      <3>2. y \in Nat /\ z \in Nat /\ y <= clock /\ z <= clock
        BY <2>1, <3>1 DEF YearsOK
      <3>3. CASE y < clock /\ z < clock
        BY <2>1, <3>1, <3>3 DEF YearsOK
      <3>4. CASE y = clock \/ z = clock
        <4>1. years[clock] = "enabled"
          BY <3>1, <3>4
        <4>2. ~(y < clock) /\ ~(z < clock)
          BY <2>1, <3>1, <4>1 DEF YearsOK
        <4> QED
          BY <2>1, <3>2, <4>2
      <3> QED
        BY <2>1, <3>2, <3>3, <3>4
    <2>3. \A y, z \in E : y = z
      <3>1. \A y \in E : y \in Nat
        BY <2>1
      <3> HIDE DEF E
      <3> QED
        BY <2>2, <3>1
    <2> HIDE DEF E
    <2>4. CASE E = {}
      BY <2>4, FS_EmptySet
    <2>5. CASE E # {}
      <3>1. PICK y \in E : E = {y}
        BY <2>3, <2>5
      <3> QED
        BY <3>1, FS_Singleton
    <2> QED
      BY <2>4, <2>5
  <1> QED
    BY <1>1, <1>2, <1>3

LEMMA ActSteps ==
    ASSUME [Act!Next]_(Act!vars)
    PROVE  \/ UNCHANGED act
           \/ \E q \in Requests : Act!Commit(q) \/ Act!Update(q) \/ Act!UpdateUser(q) \/ Act!Remove(q)
  BY DEF Act!Next, Act!Step, Act!vars, Act!Post, Act!FindLast, Act!Disable, Act!InsertYear,
         Act!ReadUsers, Act!Reread, Act!NextYear, Act!Toggle, Act!Crash

LEMMA ActActions ==
    ASSUME Act!ConstantsAssumption, ActInv, [Act!Next]_(Act!vars)
    PROVE  Act!ChargesTheActive /\ Act!StateOfNamedActivity
  <1> DEFINE Charges(a) == ~act[a].live /\ act'[a].live =>
               \E q \in Requests : /\ req[q].at = "commit" /\ req[q].id = a
                                   /\ \A m \in req[q].always : act'[a].state[m] = Act!NOT_PAID
                                   /\ \A m \in Members \ req[q].ever :
                                        act'[a].state[m] = Act!NotCharged
             Named(a) == act[a].live /\ act'[a].live /\ act'[a].state # act[a].state =>
               \E q \in Requests : req[q].at = "user" /\ req[q].id = a /\ req'[q].at = "reread"
  <1>1. \A a \in Acts : act'[a] = act[a] \/ (act'[a].live = act[a].live /\ act'[a].state = act[a].state)
                        => Charges(a) /\ Named(a)
    OBVIOUS
  <1>2. ASSUME NEW q \in Requests, Act!Commit(q) PROVE \A a \in Acts : Charges(a) /\ Named(a)
    <2>1. req[q].at = "commit" /\ Creates(req[q]) /\ req[q] \in ActRequest
      BY <1>2 DEF Act!Commit, ActInv, ActTyped
    <2>2. PICK b \in Acts : b = req[q].id /\ ~act[b].live
      BY <2>1 DEF Creates, Creating
    <2>3. /\ \A a \in Acts : a # b => act'[a] = act[a]
          /\ \A m \in Members : act'[b].state[m] = IF m \in req[q].users THEN Act!NOT_PAID
                                                  ELSE Act!NotCharged
      BY <1>2, <2>2 DEF Act!Commit, ActInv, ActTyped
    <2>4. req[q].always \subseteq req[q].users /\ req[q].users \subseteq req[q].ever
          /\ req[q].always \subseteq Members
      BY <2>1 DEF Creates, ActRequest
    <2>5. Charges(b) /\ Named(b)
      BY <2>1, <2>2, <2>3, <2>4
    <2> HIDE DEF Charges, Named
    <2> QED
      BY <1>1, <2>3, <2>5
  <1>3. ASSUME NEW q \in Requests, Act!Update(q) PROVE \A a \in Acts : Charges(a) /\ Named(a)
    <2>1. \A a \in Acts : act[a] \in ActRow
      BY DEF ActInv, ActTyped, ActRow
    <2>2. \A a \in Acts : act'[a] = act[a] \/ act'[a] = [act[a] EXCEPT !.name = 1]
      BY <1>3 DEF Act!Update, ActInv, ActTyped
    <2>3. \A a \in Acts : act'[a].live = act[a].live /\ act'[a].state = act[a].state
      BY <2>1, <2>2 DEF ActRow
    <2> HIDE DEF Charges, Named
    <2> QED
      BY <1>1, <2>3
  <1>4. ASSUME NEW q \in Requests, Act!UpdateUser(q) PROVE \A a \in Acts : Charges(a) /\ Named(a)
    <2>1. PICK b, m : b = req[q].row[1] /\ m = req[q].row[2]
      OBVIOUS
    <2>2. /\ req[q].at = "user"
          /\ IF b = req[q].id /\ b \in Act!Live /\ act[b].state[m] # Act!NotCharged
             THEN /\ act' = [act EXCEPT ![b].state[m] = 1 - @]
                  /\ req' = [req EXCEPT ![q].at = "reread"]
             ELSE UNCHANGED act /\ Act!Ends(q, 404)
      BY <1>4, <2>1 DEF Act!UpdateUser
    <2>3. CASE UNCHANGED act
      <3>1. \A a \in Acts : act'[a] = act[a]
        BY <2>3
      <3> HIDE DEF Charges, Named
      <3> QED
        BY <1>1, <3>1
    <2>4. CASE b = req[q].id /\ act' = [act EXCEPT ![b].state[m] = 1 - @]
               /\ req' = [req EXCEPT ![q].at = "reread"]
      <3>1. \A a \in Acts : a # b => act'[a] = act[a]
        BY <2>4 DEF ActInv, ActTyped
      <3>2. \E r \in ActRequest : req' = [req EXCEPT ![q] = r] /\ r.at = "reread"
        BY <2>4, ActRereads
      <3>3. req'[q].at = "reread"
        BY <3>2 DEF ActInv, ActTyped
      <3>4. ASSUME b \in Acts PROVE act'[b].live = act[b].live
        <4>1. act[b] \in ActRow
          BY <3>4 DEF ActInv, ActTyped, ActRow
        <4> DEFINE n == 1 - act[b].state[m]
        <4>2. act' = [act EXCEPT ![b] = [act[b] EXCEPT !.state = [act[b].state EXCEPT ![m] = n]]]
          BY <2>4, <4>1 DEF ActRow
        <4> HIDE DEF n
        <4> QED
          BY <3>4, <4>1, <4>2 DEF ActRow, ActInv, ActTyped
      <3>5. b \in Acts => Charges(b) /\ Named(b)
        BY <2>2, <2>4, <3>3, <3>4
      <3> HIDE DEF Charges, Named
      <3> QED
        BY <1>1, <3>1, <3>5
    <2> QED
      BY <2>2, <2>3, <2>4
  <1>5. ASSUME NEW q \in Requests, Act!Remove(q) PROVE \A a \in Acts : Charges(a) /\ Named(a)
    <2>1. \A a \in Acts : act'[a] = act[a] \/ (act'[a] = Act!NoAct /\ ~act'[a].live)
      BY <1>5 DEF Act!Remove, ActInv, ActTyped, Act!NoAct
    <2> QED
      BY <1>1, <2>1
  <1>6. \A a \in Acts : Charges(a) /\ Named(a)
    <2>1. CASE UNCHANGED act
      <3>1. \A a \in Acts : act'[a] = act[a]
        BY <2>1
      <3> HIDE DEF Charges, Named
      <3> QED
        BY <1>1, <3>1
    <2> HIDE DEF Charges, Named
    <2> QED
      BY <1>2, <1>3, <1>4, <1>5, <2>1, ActSteps
  <1>7. Act!ChargesTheActive
    BY <1>6 DEF Act!ChargesTheActive
  <1>8. Act!StateOfNamedActivity
    BY <1>6 DEF Act!StateOfNamedActivity, Act!Live
  <1> QED
    BY <1>7, <1>8

\* One year is enabled at most, and the current one stays so through retries,
\* requests at once and crashes, though createYear disables and inserts in
\* statements of their own: only a request of an earlier year can undo it.
THEOREM OneYearStaysEnabled ==
    ASSUME Act!ConstantsAssumption
    PROVE  Act!Spec => [](Act!OneYearEnabled /\ Act!CurrentYearStaysEnabled)
  BY ActInit, ActStep, ActSuffices, PTL DEF Act!Spec

\* An activity appears at once with a charge for whoever was active during the
\* whole of createActivity and for nobody who was not at any time of it, and a
\* member's state changes under the activity the URL names (updateActivityUser).
THEOREM ActivitiesChargeTheActive ==
    ASSUME Act!ConstantsAssumption
    PROVE  Act!Spec => [][Act!ChargesTheActive /\ Act!StateOfNamedActivity]_(Act!vars)
  <1>1. ASSUME ActInv, [Act!Next]_(Act!vars)
        PROVE  [Act!ChargesTheActive /\ Act!StateOfNamedActivity]_(Act!vars)
    BY <1>1, ActActions
  <1> QED
    BY <1>1, ActInit, ActStep, PTL DEF Act!Spec

-----------------------------------------------------------------------------
(* Members *)

Lines == Seq(Identifications \cup {Malformed})
Row == [total : Money, utilized : Money, available : Money]
MemRequest ==
    [at : {"idle", "read", "save", "file", "quota", "insert"}, actor : Members \cup {Nobody},
     role : Roles \cup {NoRole}, target : Members \cup {Nobody},
     section : {"none", "personal", "finance"}, body : Profile \cup Quotas \cup Money \cup {<<>>},
     seen : Profile \cup Money \cup {<<>>}, lines : Lines, rows : SUBSET Members]

ProfilesOK ==
    /\ profile \in [Members -> Profile]
    /\ \A u, v \in Members : profile[u].identification = profile[v].identification => u = v

\* The figures of a row agree, and are the file's only once there was one.
RowOK(f) == f.available = f.total - f.utilized /\ (~filed => f.total # FileQuota.total)
FinancesOK ==
    /\ finance \in [Members -> Row] /\ filed \in BOOLEAN
    /\ \A u \in Members : RowOK(finance[u])

\* What a request counts on between its statements: the field gate was passed
\* on what it has seen of the profile, the quota check on what it has seen of
\* the quota.
Counts(r) ==
    /\ r.at \in {"read", "save"} => /\ r.section = "personal" => r.body \in Profile
                                    /\ r.section = "finance" => r.body \in Quotas
    /\ r.at = "save" => r.target \in Members
    /\ r.at = "save" /\ r.section = "personal" =>
         r.role = ADMIN \/ \A f \in PRIVILEGED_FIELDS : r.body[f] = r.seen[f]
    /\ r.at \in {"quota", "insert"} => r.actor \in Members /\ r.body \in Money
    /\ r.at = "insert" => r.seen \in Money /\ r.body <= r.seen

MemInv ==
    /\ ProfilesOK /\ FinancesOK /\ lent \in [Members -> Nat]
    /\ req \in [Requests -> MemRequest]
    /\ \A q \in Requests : Counts(req[q])

LEMMA MemIdle == Idle \in MemRequest /\ Counts(Idle)
  <1>1. <<>> \in Lines
    BY DEF Lines
  <1>2. Idle \in MemRequest /\ Idle.at = "idle"
    BY <1>1 DEF Idle, MemRequest
  <1> QED
    BY <1>2 DEF Counts

LEMMA MemMoves ==
    ASSUME MemInv, NEW q \in Requests, NEW r \in MemRequest, req' = [req EXCEPT ![q] = r],
           Counts(r), ProfilesOK', FinancesOK', lent' \in [Members -> Nat]
    PROVE  MemInv'
  <1>1. req'[q] = r /\ \A s \in Requests \ {q} : req'[s] = req[s]
    BY DEF MemInv
  <1>2. req' \in [Requests -> MemRequest]
    BY DEF MemInv
  <1>3. \A s \in Requests : Counts(req'[s])
    BY <1>1 DEF MemInv
  <1> QED
    BY <1>2, <1>3 DEF MemInv, Counts

\* A step of q that changes no table.
LEMMA MemQuiet ==
    ASSUME MemInv, NEW q \in Requests, NEW r \in MemRequest, req' = [req EXCEPT ![q] = r],
           Counts(r), UNCHANGED <<profile, finance, lent, filed>>
    PROVE  MemInv'
  <1>1. ProfilesOK' /\ FinancesOK' /\ lent' \in [Members -> Nat]
    BY DEF MemInv, ProfilesOK, FinancesOK, RowOK
  <1> QED
    BY <1>1, MemMoves

LEMMA MemEnds ==
    ASSUME MemInv, NEW q \in Requests, Ends(q),
           ProfilesOK', FinancesOK', lent' \in [Members -> Nat]
    PROVE  MemInv'
  BY MemIdle, MemMoves DEF Ends

LEMMA MemBegin ==
    ASSUME MemInv, NEW q \in Requests, NEW actor \in Members, NEW view, NEW method,
           NEW r \in MemRequest, Begin(q, actor, view, method, r),
           \A s \in MemRequest : s.at = r.at /\ s.section = r.section /\ s.body = r.body
                                 /\ s.actor = actor => Counts(s)
    PROVE  MemInv'
  <1>1. UNCHANGED <<profile, finance, lent, filed>>
    BY DEF Begin
  <1>2. PICK role \in Roles : role = profile[actor].role
    BY DEF MemInv, ProfilesOK, Profile
  <1> DEFINE x == [r EXCEPT !.actor = actor, !.role = role]
  <1>3. x \in MemRequest
    BY DEF MemRequest
  <1>4. x.at = r.at /\ x.section = r.section /\ x.body = r.body /\ x.actor = actor
    BY DEF MemRequest
  <1>5. req' = [req EXCEPT ![q] = x]
    BY <1>2 DEF Begin
  <1> HIDE DEF x
  <1> QED
    BY <1>1, <1>3, <1>4, <1>5, MemQuiet

LEMMA MemPatchUser ==
    ASSUME MemInv, NEW q \in Requests, PatchUser(q)  PROVE MemInv'
  <1>1. PICK actor \in Members, id \in Members \cup {Nobody, Self},
             section \in {"personal", "finance"}, b \in Profile \cup Quotas :
          /\ section = "personal" => b \in Profile
          /\ section = "finance" => b \in Quotas
          /\ Begin(q, actor, "UserDetailView", "PATCH",
                   [Idle EXCEPT !.at = "read", !.target = resolveDetailUserId(id, actor, "PATCH"),
                                !.section = section, !.body = b])
    BY DEF PatchUser
  <1>2. PICK target \in Members \cup {Nobody} : target = resolveDetailUserId(id, actor, "PATCH")
    BY DEF resolveDetailUserId
  <1> DEFINE r == [Idle EXCEPT !.at = "read", !.target = target, !.section = section, !.body = b]
  <1>3. r \in MemRequest
    BY MemIdle DEF MemRequest
  <1>4. r.at = "read" /\ r.section = section /\ r.body = b
    BY MemIdle DEF MemRequest
  <1>5. Begin(q, actor, "UserDetailView", "PATCH", r)
    BY <1>1, <1>2
  <1> HIDE DEF r
  <1>6. \A s \in MemRequest : s.at = r.at /\ s.section = r.section /\ s.body = r.body
                              /\ s.actor = actor => Counts(s)
    BY <1>1, <1>4 DEF Counts
  <1> QED
    BY <1>3, <1>5, <1>6, MemBegin

LEMMA MemPatchFile ==
    ASSUME MemInv, NEW q \in Requests, PatchFile(q)  PROVE MemInv'
  <1>0. PICK actor \in Members, n \in 0..MaxLines :
          \E lines \in [1..n -> Identifications \cup {Malformed}] :
            Begin(q, actor, "UserView", "PATCH", [Idle EXCEPT !.at = "file", !.lines = lines])
    BY DEF PatchFile
  <1>1. PICK lines \in [1..n -> Identifications \cup {Malformed}] :
          Begin(q, actor, "UserView", "PATCH", [Idle EXCEPT !.at = "file", !.lines = lines])
    BY <1>0
  <1>2. lines \in Lines
    BY SeqDef DEF Lines
  <1> DEFINE r == [Idle EXCEPT !.at = "file", !.lines = lines]
  <1>3. r \in MemRequest /\ r.at = "file"
    BY <1>2, MemIdle DEF MemRequest
  <1>4. Begin(q, actor, "UserView", "PATCH", r)
    BY <1>1
  <1> HIDE DEF r
  <1>5. \A s \in MemRequest : s.at = r.at /\ s.section = r.section /\ s.body = r.body
                              /\ s.actor = actor => Counts(s)
    BY <1>3 DEF Counts
  <1> QED
    BY <1>3, <1>4, <1>5, MemBegin

LEMMA MemPostLoan ==
    ASSUME MemInv, NEW q \in Requests, PostLoan(q)  PROVE MemInv'
  <1>1. PICK actor \in Members, value \in Money :
          Begin(q, actor, "LoanView", "POST", [Idle EXCEPT !.at = "quota", !.body = value])
    BY DEF PostLoan
  <1> DEFINE r == [Idle EXCEPT !.at = "quota", !.body = value]
  <1>2. r \in MemRequest /\ r.at = "quota" /\ r.body = value
    BY MemIdle DEF MemRequest
  <1>3. Begin(q, actor, "LoanView", "POST", r)
    BY <1>1
  <1> HIDE DEF r
  <1>4. \A s \in MemRequest : s.at = r.at /\ s.section = r.section /\ s.body = r.body
                              /\ s.actor = actor => Counts(s)
    BY <1>2 DEF Counts
  <1> QED
    BY <1>2, <1>3, <1>4, MemBegin

\* What a request that is not an administrator's may save of a profile is what
\* it has seen of the privileged fields.
LEMMA FieldGate ==
    ASSUME NEW actor, NEW role, NEW target, NEW body \in Profile, NEW stored \in Profile,
           permits(userPatchAllowlist(actor, role, target, "personal"),
                   changedSectionFields("personal", body, stored))
    PROVE  role = ADMIN \/ \A f \in PRIVILEGED_FIELDS : body[f] = stored[f]
  <1> SUFFICES ASSUME NEW f \in PRIVILEGED_FIELDS, body[f] # stored[f]  PROVE role = ADMIN
    OBVIOUS
  <1>1. f \in SECTION_FIELDS["personal"] /\ f \in DOMAIN body
    BY DEF SECTION_FIELDS, PRIVILEGED_FIELDS, Profile
  <1>2. f \in changedSectionFields("personal", body, stored)
    BY <1>1 DEF changedSectionFields
  <1>3. f \in userPatchAllowlist(actor, role, target, "personal")
    BY <1>2 DEF permits
  <1> QED
    BY <1>3 DEF userPatchAllowlist

LEMMA MemReadProfile ==
    ASSUME MemInv, NEW q \in Requests, ReadProfile(q)  PROVE MemInv'
  <1> DEFINE stored == profile[req[q].target]
             passes == /\ req[q].target \in Members
                       /\ permits(userPatchAllowlist(req[q].actor, req[q].role, req[q].target,
                                                     "personal"),
                                  changedSectionFields("personal", req[q].body, stored))
  <1>1. /\ req[q] \in MemRequest /\ Counts(req[q])
        /\ req[q].at = "read" /\ req[q].section = "personal"
        /\ UNCHANGED <<profile, finance, lent, filed>>
    BY DEF ReadProfile, MemInv
  <1>2. IF passes THEN req' = [req EXCEPT ![q].at = "save", ![q].seen = stored] ELSE Ends(q)
    BY DEF ReadProfile
  <1>3. CASE ~passes
    BY <1>1, <1>2, <1>3, MemIdle, MemQuiet DEF Ends
  <1>4. CASE passes
    <2>1. stored \in Profile /\ req[q].body \in Profile
      BY <1>1, <1>4 DEF MemInv, ProfilesOK, Counts
    <2>2. req[q].role = ADMIN \/ \A f \in PRIVILEGED_FIELDS : req[q].body[f] = stored[f]
      BY <1>4, <2>1, FieldGate
    <2>3. req' = [req EXCEPT ![q].at = "save", ![q].seen = stored] /\ req[q].target \in Members
      BY <1>2, <1>4
    <2> HIDE DEF stored, passes
    <2> DEFINE x == [req[q] EXCEPT !.at = "save", !.seen = stored]
    <2>4. x \in MemRequest
      BY <1>1, <2>1 DEF MemRequest
    <2>5. /\ x.at = "save" /\ x.seen = stored /\ x.section = "personal" /\ x.body = req[q].body
          /\ x.target = req[q].target /\ x.role = req[q].role
      BY <1>1 DEF MemRequest
    <2>6. req' = [req EXCEPT ![q] = x]
      BY <2>3 DEF MemInv
    <2> HIDE DEF x
    <2>7. Counts(x)
      BY <2>1, <2>2, <2>3, <2>5 DEF Counts
    <2> QED
      BY <1>1, <2>4, <2>6, <2>7, MemQuiet
  <1> QED
    BY <1>3, <1>4

LEMMA MemSavePersonal ==
    ASSUME MemInv, NEW q \in Requests, SavePersonal(q)  PROVE MemInv'
  <1>1. /\ Counts(req[q]) /\ req[q].at = "save" /\ req[q].section = "personal" /\ Ends(q)
        /\ UNCHANGED <<finance, lent, filed>>
    BY DEF SavePersonal, MemInv
  <1>2. PICK t \in Members, b \in Profile : t = req[q].target /\ b = req[q].body
    BY <1>1 DEF Counts
  <1>3. profile' = IF \E u \in Members \ {t} : profile[u].identification = b.identification
                   THEN profile ELSE [profile EXCEPT ![t] = b]
    BY <1>2 DEF SavePersonal
  <1>4. ProfilesOK'
    <2>1. CASE \E u \in Members \ {t} : profile[u].identification = b.identification
      BY <1>3, <2>1 DEF MemInv, ProfilesOK
    <2>2. CASE ~\E u \in Members \ {t} : profile[u].identification = b.identification
      BY <1>3, <2>2 DEF MemInv, ProfilesOK
    <2> QED
      BY <2>1, <2>2
  <1>5. FinancesOK' /\ lent' \in [Members -> Nat]
    BY <1>1 DEF MemInv, FinancesOK, RowOK
  <1> QED
    BY <1>1, <1>4, <1>5, MemEnds

\* The figures a PATCH or the file writes agree.
LEMMA QuotaAgrees ==
    ASSUME NEW row, NEW b \in Quotas \cup {FileQuota}
    PROVE  /\ WithQuota(row, b) \in Row
           /\ WithQuota(row, b).available = WithQuota(row, b).total - WithQuota(row, b).utilized
           /\ b \in Quotas => WithQuota(row, b).total # FileQuota.total
  BY DEF WithQuota, Quotas, FileQuota, Row, Money

LEMMA MemReadFinance ==
    ASSUME MemInv, NEW q \in Requests, ReadFinance(q)  PROVE MemInv'
  <1>1. /\ req[q] \in MemRequest /\ Counts(req[q])
        /\ req[q].at = "read" /\ req[q].section = "finance"
        /\ UNCHANGED <<profile, finance, lent, filed>>
    BY DEF ReadFinance, MemInv
  <1>2. CASE Ends(q)
    BY <1>1, <1>2, MemIdle, MemQuiet DEF Ends
  <1>3. CASE req[q].target \in Members /\ req' = [req EXCEPT ![q].at = "save"]
    <2> DEFINE x == [req[q] EXCEPT !.at = "save"]
    <2>1. x \in MemRequest
      BY <1>1 DEF MemRequest
    <2>2. /\ x.at = "save" /\ x.section = "finance" /\ x.body = req[q].body
          /\ x.target = req[q].target
      BY <1>1 DEF MemRequest
    <2>3. req' = [req EXCEPT ![q] = x]
      BY <1>3 DEF MemInv
    <2> HIDE DEF x
    <2>4. Counts(x)
      BY <1>1, <1>3, <2>2 DEF Counts
    <2> QED
      BY <1>1, <2>1, <2>3, <2>4, MemQuiet
  <1> QED
    BY <1>2, <1>3 DEF ReadFinance

LEMMA MemSaveFinance ==
    ASSUME MemInv, NEW q \in Requests, SaveFinance(q)  PROVE MemInv'
  <1>1. /\ Counts(req[q]) /\ req[q].at = "save" /\ req[q].section = "finance" /\ Ends(q)
        /\ UNCHANGED <<profile, lent, filed>>
    BY DEF SaveFinance, MemInv
  <1>2. PICK t \in Members, b \in Quotas : t = req[q].target /\ b = req[q].body
    BY <1>1 DEF Counts
  <1>3. PICK x \in Row : /\ x = WithQuota(finance[t], b) /\ x.available = x.total - x.utilized
                         /\ x.total # FileQuota.total
    BY QuotaAgrees
  <1>4. finance' = [finance EXCEPT ![t] = x]
    BY <1>2, <1>3 DEF SaveFinance, MemInv, FinancesOK
  <1>5. FinancesOK'
    BY <1>1, <1>3, <1>4 DEF MemInv, FinancesOK, RowOK
  <1>6. ProfilesOK' /\ lent' \in [Members -> Nat]
    BY <1>1 DEF MemInv, ProfilesOK
  <1> QED
    BY <1>1, <1>5, <1>6, MemEnds

LEMMA MemLine ==
    ASSUME MemInv, NEW q \in Requests, Line(q)  PROVE MemInv'
  <1>1. /\ req[q] \in MemRequest /\ req[q].at = "file" /\ req[q].lines # <<>>
        /\ UNCHANGED <<profile, finance, lent, filed>>
    BY DEF Line, MemInv
  <1>2. PICK rest \in Lines : rest = Tail(req[q].lines)
    <2>1. req[q].lines \in Lines
      BY <1>1 DEF MemRequest
    <2> QED
      BY <1>1, <2>1, HeadTailProperties DEF Lines
  <1>3. PICK rows \in SUBSET Members : rows = req[q].rows \cup Found(Head(req[q].lines))
    BY <1>1 DEF MemRequest, Found
  <1> DEFINE x == [req[q] EXCEPT !.lines = rest, !.rows = rows]
  <1>4. x \in MemRequest /\ x.at = "file"
    BY <1>1 DEF MemRequest
  <1>5. req' = [req EXCEPT ![q] = x]
    <2>1. req' = [req EXCEPT ![q].lines = Tail(@),
                             ![q].rows = @ \cup Found(Head(req[q].lines))]
      BY DEF Line
    <2> QED
      BY <1>1, <1>2, <1>3, <2>1 DEF MemInv, MemRequest
  <1> HIDE DEF x
  <1>6. Counts(x)
    BY <1>4 DEF Counts
  <1> QED
    BY <1>1, <1>4, <1>5, <1>6, MemQuiet

LEMMA MemCommitFile ==
    ASSUME MemInv, NEW q \in Requests, CommitFile(q)  PROVE MemInv'
  <1>1. Ends(q) /\ filed' = TRUE /\ UNCHANGED <<profile, lent>>
    BY DEF CommitFile
  <1>2. finance' = [u \in Members |-> IF u \in req[q].rows
                                      THEN WithQuota(finance[u], FileQuota) ELSE finance[u]]
    BY DEF CommitFile
  <1>3. ASSUME NEW u \in Members
        PROVE  finance'[u] \in Row /\ finance'[u].available = finance'[u].total - finance'[u].utilized
    <2>1. CASE u \in req[q].rows
      <3>1. PICK x \in Row : x = WithQuota(finance[u], FileQuota)
                             /\ x.available = x.total - x.utilized
        BY QuotaAgrees
      <3>2. finance'[u] = x
        BY <1>2, <2>1, <3>1
      <3> QED
        BY <3>1, <3>2
    <2>2. CASE u \notin req[q].rows
      <3>1. finance'[u] = finance[u]
        BY <1>2, <2>2
      <3> QED
        BY <3>1 DEF MemInv, FinancesOK, RowOK
    <2> QED
      BY <2>1, <2>2
  <1>4. finance' \in [Members -> Row]
    BY <1>2, <1>3
  <1>5. FinancesOK'
    BY <1>1, <1>3, <1>4 DEF FinancesOK, RowOK
  <1>6. ProfilesOK' /\ lent' \in [Members -> Nat]
    BY <1>1 DEF MemInv, ProfilesOK
  <1> QED
    BY <1>1, <1>5, <1>6, MemEnds

LEMMA MemRollbackFile ==
    ASSUME MemInv, NEW q \in Requests, RollbackFile(q)  PROVE MemInv'
  BY MemIdle, MemQuiet DEF RollbackFile, Ends

LEMMA MemReadQuota ==
    ASSUME MemInv, NEW q \in Requests, ReadQuota(q)  PROVE MemInv'
  <1>1. /\ req[q] \in MemRequest /\ Counts(req[q]) /\ req[q].at = "quota"
        /\ UNCHANGED <<profile, finance, lent, filed>>
    BY DEF ReadQuota, MemInv
  <1>2. PICK u \in Members, value \in Money : u = req[q].actor /\ value = req[q].body
    BY <1>1 DEF Counts
  <1>3. PICK available \in Money : available = finance[u].available
    BY DEF MemInv, FinancesOK, Row
  <1>4. IF value > available \/ value = 0 THEN Ends(q)
        ELSE req' = [req EXCEPT ![q].at = "insert", ![q].seen = available]
    BY <1>2, <1>3 DEF ReadQuota
  <1>5. CASE value > available \/ value = 0
    BY <1>1, <1>4, <1>5, MemIdle, MemQuiet DEF Ends
  <1>6. CASE ~(value > available \/ value = 0)
    <2> DEFINE x == [req[q] EXCEPT !.at = "insert", !.seen = available]
    <2>1. x \in MemRequest
      BY <1>1 DEF MemRequest
    <2>2. x.at = "insert" /\ x.seen = available /\ x.body = value /\ x.actor = u
      BY <1>1, <1>2 DEF MemRequest
    <2>3. req' = [req EXCEPT ![q] = x]
      BY <1>4, <1>6 DEF MemInv
    <2> HIDE DEF x
    <2>4. value <= available
      BY <1>6 DEF Money
    <2>5. Counts(x)
      BY <2>2, <2>4 DEF Counts
    <2> QED
      BY <1>1, <2>1, <2>3, <2>5, MemQuiet
  <1> QED
    BY <1>5, <1>6

LEMMA MemInsertLoan ==
    ASSUME MemInv, NEW q \in Requests, InsertLoan(q)  PROVE MemInv'
  <1>1. /\ Counts(req[q]) /\ req[q].at = "insert" /\ Ends(q)
        /\ UNCHANGED <<profile, finance, filed>>
    BY DEF InsertLoan, MemInv
  <1>2. PICK u \in Members, value \in Money : u = req[q].actor /\ value = req[q].body
    BY <1>1 DEF Counts
  <1>3. lent' = [lent EXCEPT ![u] = @ + value]
    BY <1>2 DEF InsertLoan
  <1>4. lent' \in [Members -> Nat]
    BY <1>3 DEF MemInv, Money
  <1>5. ProfilesOK' /\ FinancesOK'
    BY <1>1 DEF MemInv, ProfilesOK, FinancesOK, RowOK
  <1> QED
    BY <1>1, <1>4, <1>5, MemEnds

LEMMA MemInit == ASSUME ConstantsAssumption, Init  PROVE MemInv
  <1>1. ProfilesOK
    BY DEF Init, ConstantsAssumption, ProfilesOK, Profile
  <1>2. FinancesOK
    <2>1. filed \in BOOLEAN
      BY Zenon DEF Init
    <2>2. \A u \in Members : /\ finance[u] \in Row /\ finance[u].available = 1
                             /\ finance[u].total = 1 /\ finance[u].utilized = 0
      BY DEF Init, Row, Money
    <2>3. finance \in [Members -> Row]
      BY DEF Init, Row, Money
    <2> QED
      BY <2>1, <2>2, <2>3 DEF FinancesOK, RowOK, FileQuota
  <1>3. lent \in [Members -> Nat]
    BY DEF Init
  <1>4. req \in [Requests -> MemRequest] /\ \A q \in Requests : Counts(req[q])
    BY MemIdle DEF Init
  <1> QED
    BY <1>1, <1>2, <1>3, <1>4 DEF MemInv

LEMMA MemStep == ASSUME MemInv, [Next]_vars  PROVE MemInv'
  <1>1. CASE UNCHANGED vars
    <2>1. UNCHANGED <<profile, finance, lent, req, filed>>
      BY <1>1 DEF vars
    <2> QED
      BY <2>1 DEF MemInv, ProfilesOK, FinancesOK, RowOK, Counts
  <1>2. ASSUME NEW q \in Requests,
               \/ PatchUser(q) \/ ReadProfile(q) \/ SavePersonal(q)
               \/ ReadFinance(q) \/ SaveFinance(q)
               \/ PatchFile(q) \/ Line(q) \/ CommitFile(q) \/ RollbackFile(q)
               \/ PostLoan(q) \/ ReadQuota(q) \/ InsertLoan(q)
        PROVE  MemInv'
    BY <1>2, MemPatchUser, MemReadProfile, MemSavePersonal, MemReadFinance, MemSaveFinance,
       MemPatchFile, MemLine, MemCommitFile, MemRollbackFile, MemPostLoan, MemReadQuota,
       MemInsertLoan
  <1> QED
    BY <1>1, <1>2 DEF Next

-----------------------------------------------------------------------------
(* What the invariant gives of the members *)

LEMMA MemSuffices ==
    ASSUME MemInv  PROVE TypeOK /\ FinancesAddUp /\ FileAllOrNothing
  <1>1. TypeOK
    BY DEF MemInv, ProfilesOK, FinancesOK, MemRequest, Row, TypeOK
  <1>2. FinancesAddUp
    BY DEF MemInv, ProfilesOK, FinancesOK, RowOK, FinancesAddUp
  <1>3. FileAllOrNothing
    BY DEF MemInv, FinancesOK, RowOK, FileAllOrNothing
  <1> QED
    BY <1>1, <1>2, <1>3

LEMMA MemActions ==
    ASSUME MemInv, [Next]_vars  PROVE PrivilegedByAdminOrEcho /\ LoanFitsUnlessMoved
  <1>0. ASSUME NEW q \in Requests
        PROVE  /\ PatchUser(q) \/ ReadProfile(q) \/ ReadFinance(q) => UNCHANGED <<profile, lent>>
               /\ SaveFinance(q) \/ PatchFile(q) \/ Line(q) => UNCHANGED <<profile, lent>>
               /\ CommitFile(q) \/ RollbackFile(q) => UNCHANGED <<profile, lent>>
               /\ PostLoan(q) \/ ReadQuota(q) => UNCHANGED <<profile, lent>>
               /\ SavePersonal(q) => UNCHANGED lent
               /\ InsertLoan(q) => UNCHANGED profile
    <2>1. PatchUser(q) => UNCHANGED <<profile, lent>>
      BY DEF PatchUser, Begin
    <2>2. ReadProfile(q) => UNCHANGED <<profile, lent>>
      BY DEF ReadProfile
    <2>3. ReadFinance(q) => UNCHANGED <<profile, lent>>
      BY DEF ReadFinance
    <2>4. SaveFinance(q) => UNCHANGED <<profile, lent>>
      BY DEF SaveFinance
    <2>5. PatchFile(q) => UNCHANGED <<profile, lent>>
      BY DEF PatchFile, Begin
    <2>6. Line(q) => UNCHANGED <<profile, lent>>
      BY DEF Line
    <2>7. CommitFile(q) \/ RollbackFile(q) => UNCHANGED <<profile, lent>>
      BY DEF CommitFile, RollbackFile
    <2>8. PostLoan(q) => UNCHANGED <<profile, lent>>
      BY DEF PostLoan, Begin
    <2>9. ReadQuota(q) => UNCHANGED <<profile, lent>>
      BY DEF ReadQuota
    <2>10. SavePersonal(q) => UNCHANGED lent
      BY DEF SavePersonal
    <2>11. InsertLoan(q) => UNCHANGED profile
      BY DEF InsertLoan
    <2> QED
      BY <2>1, <2>2, <2>3, <2>4, <2>5, <2>6, <2>7, <2>8, <2>9, <2>10, <2>11
  <1>1. \/ UNCHANGED profile
        \/ \E q \in Requests : SavePersonal(q)
    BY <1>0 DEF Next, vars
  <1>2. \/ UNCHANGED lent
        \/ \E q \in Requests : InsertLoan(q)
    BY <1>0 DEF Next, vars
  <1>3. ASSUME NEW q \in Requests, SavePersonal(q),
               NEW u \in Members, NEW f \in PRIVILEGED_FIELDS, profile'[u][f] # profile[u][f]
        PROVE  /\ req[q].at = "save" /\ req'[q].at = "idle" /\ req[q].target = u
               /\ req[q].role = ADMIN \/ profile'[u][f] = req[q].seen[f]
    <2>1. Counts(req[q]) /\ req[q].at = "save" /\ req[q].section = "personal"
      BY <1>3 DEF SavePersonal, MemInv
    <2>2. profile' = [profile EXCEPT ![req[q].target] = req[q].body]
      BY <1>3 DEF SavePersonal
    <2>3. u = req[q].target /\ profile'[u] = req[q].body
      BY <1>3, <2>2 DEF MemInv, ProfilesOK
    <2>4. req'[q].at = "idle"
      BY <1>3 DEF SavePersonal, Ends, Idle, MemInv
    <2> QED
      BY <2>1, <2>3, <2>4 DEF Counts
  <1>4. PrivilegedByAdminOrEcho
    BY <1>1, <1>3 DEF PrivilegedByAdminOrEcho
  <1>5. ASSUME NEW q \in Requests, InsertLoan(q),
               NEW u \in Members, lent'[u] - lent[u] > finance[u].available
        PROVE  req[q].at = "insert" /\ req[q].actor = u /\ req[q].seen # finance[u].available
    <2>1. Counts(req[q]) /\ req[q].at = "insert"
      BY <1>5 DEF InsertLoan, MemInv
    <2>2. PICK t \in Members, value \in Money, seen \in Money :
            t = req[q].actor /\ value = req[q].body /\ seen = req[q].seen /\ value <= seen
      BY <2>1 DEF Counts
    <2>3. lent' = [lent EXCEPT ![t] = @ + value]
      BY <1>5, <2>2 DEF InsertLoan
    <2>4. PICK n \in Nat, available \in Money : n = lent[u] /\ available = finance[u].available
      BY DEF MemInv, FinancesOK, Row
    <2>5. CASE u # t
      <3>1. lent'[u] = n
        BY <2>3, <2>4, <2>5 DEF MemInv
      <3> QED
        BY <1>5, <2>4, <3>1 DEF Money
    <2>6. CASE u = t
      <3>1. lent'[u] = n + value
        BY <2>3, <2>4, <2>6 DEF MemInv
      <3>2. value > available
        BY <1>5, <2>4, <3>1 DEF Money
      <3> QED
        BY <2>1, <2>2, <2>4, <2>6, <3>2 DEF Money
    <2> QED
      BY <2>5, <2>6
  <1>6. UNCHANGED lent => LoanFitsUnlessMoved
    <2>1. ASSUME NEW u \in Members, UNCHANGED lent PROVE ~(lent'[u] - lent[u] > finance[u].available)
      <3>1. PICK n \in Nat, available \in Money : n = lent[u] /\ available = finance[u].available
        BY DEF MemInv, FinancesOK, Row
      <3>2. lent'[u] = n
        BY <2>1, <3>1
      <3> QED
        BY <3>1, <3>2 DEF Money
    <2> QED
      BY <2>1 DEF LoanFitsUnlessMoved
  <1>7. LoanFitsUnlessMoved
    BY <1>2, <1>5, <1>6 DEF LoanFitsUnlessMoved
  <1> QED
    BY <1>4, <1>7

\* However the personal and finance sections, monthly files and applications
\* interleave, the available quota is what the total leaves, no two members
\* share an identification, and a file that fails leaves no figure of its own.
THEOREM FiguresAddUp ==
    ASSUME ConstantsAssumption
    PROVE  Spec => [](TypeOK /\ FinancesAddUp /\ FileAllOrNothing)
  BY MemInit, MemStep, MemSuffices, PTL DEF Spec

\* A role or an identification is moved by an ADMIN, or back to what the request
\* read (changedSectionFields, userPatchAllowlist, updateUserPersonal).
THEOREM PrivilegesMoveByRight ==
    ASSUME ConstantsAssumption  PROVE Spec => [][PrivilegedByAdminOrEcho]_vars
  <1>1. ASSUME MemInv, [Next]_vars PROVE [PrivilegedByAdminOrEcho]_vars
    BY <1>1, MemActions
  <1> QED
    BY <1>1, MemInit, MemStep, PTL DEF Spec

\* A loan above the quota it is inserted under was checked before the quota
\* moved (createLoan reads the quota and inserts in steps of their own).
THEOREM LoansFitTheQuotaRead ==
    ASSUME ConstantsAssumption  PROVE Spec => [][LoanFitsUnlessMoved]_vars
  <1>1. ASSUME MemInv, [Next]_vars PROVE [LoanFitsUnlessMoved]_vars
    BY <1>1, MemActions
  <1> QED
    BY <1>1, MemInit, MemStep, PTL DEF Spec
===============================================================================
