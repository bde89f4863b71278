------------------------------- MODULE HttpEdge -------------------------------
(***************************************************************************)
(* One connection at the edge of the HTTP server, where Node would answer   *)
(* by itself (src/common/http/gunicorn-http-edge.ts, gunicorn-request-line  *)
(* .ts): a method its parser does not know is refused at its first byte,    *)
(* the rest of the head is then collected chunk by chunk while the parser   *)
(* goes on refusing each of them, and the request is dispatched on the bare *)
(* socket; CONNECT is taken over the same way; every other refusal gets     *)
(* Node's own reply. A client sends one request at a time.                  *)
(*                                                                         *)
(* A head is a sequence of symbols: the method, the rest of its line, the   *)
(* header lines, the two halves of the empty line; sizes count symbols.     *)
(*                                                                         *)
(* Definitions whose comment starts with "Variant:" are not the code's:    *)
(* each is the definition after it with one plausible bug.                 *)
(***************************************************************************)
EXTENDS Integers, Sequences, FiniteSets, FiniteSetsExt, Functions

CONSTANTS
    HeaderLists,      \* the header lines of a request: sequences of <<name, value>> or <<text>>
    maxHeaderSize,
    MaxRequests       \* how many requests a client makes on a connection

HeaderLine == UNION {Range(lines) : lines \in HeaderLists}

\* No header line is an empty one, which ends a head.
ConstantsAssumption ==
    /\ HeaderLists \subseteq Seq(HeaderLine) /\ \A line \in HeaderLine : line # "end1"
    /\ maxHeaderSize \in Nat /\ MaxRequests \in Nat

VARIABLES
    requests,      \* how many requests the client has begun
    request,       \* the one it is sending
    unsent,        \* what has not arrived of it
    received,      \* the head Node's parser has read so far
    owned,         \* this module has taken the socket over
    recoveries,    \* the heads being collected: their buffer and how far they are
    dispatched,    \* what Express has been given and has not answered
    answers,       \* what has been written on the socket
    socket         \* "open", "ended" by the server, or "left" by the client

vars == <<requests, request, unsent, received, owned, recoveries, dispatched, answers, socket>>

Known == {"GET", "PUT"}
\* What parseGunicornRequestLine accepts of what Node does not know, and what it
\* refuses: too short a method, a line of two bits, a version that is not one.
Accepted == {"FROB"}
Rejected == {"X"}
Unknown == Accepted \cup Rejected

Terminator == <<"end1", "end2">>
Sent(r) == <<r.method, "line">> \o r.headers \o Terminator
Body(r) == IF r.body THEN <<"body">> ELSE <<>>

Sendable ==
    {r \in [method : Known \cup Unknown \cup {"CONNECT"}, headers : HeaderLists, valid : BOOLEAN, body : BOOLEAN] :
        ~r.valid => r.method \notin Unknown /\ r.headers # <<>>}

Init ==
    /\ requests = 1 /\ request \in Sendable
    /\ unsent = Sent(request) \o Body(request)
    /\ received = <<>> /\ owned = FALSE /\ recoveries = <<>> /\ dispatched = <<>>
    /\ answers = <<>> /\ socket = "open"

-----------------------------------------------------------------------------
(* Express's routes *)

Layer(method, handle) == [method |-> method, handle |-> handle]
Get(handle) == [methods |-> {"GET"}, stack |-> <<Layer("GET", handle)>>, _all |-> FALSE]
\* app.all: the same handler once for every verb Express knows.
All(handle) ==
    [methods |-> Known \cup {"CONNECT"}, _all |-> FALSE,
     stack |-> <<Layer("GET", handle), Layer("PUT", handle), Layer("CONNECT", handle)>>]
Router == <<Get("view"), All("guard")>>

isCatchAllRoute(route) ==
    /\ Len(route.stack) >= 2 /\ Known \subseteq route.methods
    /\ \A i \in DOMAIN route.stack : route.stack[i].handle = route.stack[1].handle

\* Variant: the flag alone.
collapseToAllLayerFlagged(route) == [route EXCEPT !._all = TRUE]

collapseToAllLayer(route) ==
    [route EXCEPT !._all = TRUE, !.stack = <<Layer("any", route.stack[1].handle)>>]

restoreCatchAllRoutes ==
    [i \in DOMAIN Router |-> IF isCatchAllRoute(Router[i]) THEN collapseToAllLayer(Router[i]) ELSE Router[i]]

\* A route is entered for its methods, or for all; then its first layer for the
\* method answers. What falls out of the bottom is a 404.
Handler(router, method) ==
    LET Answering(route) == {i \in DOMAIN route.stack : route.stack[i].method \in {method, "any"}}
        entered == {i \in DOMAIN router : /\ method \in router[i].methods \/ router[i]._all
                                          /\ Answering(router[i]) # {}}
        route == router[Min(entered)]
    IN  IF entered = {} THEN "404" ELSE route.stack[Min(Answering(route))].handle

-----------------------------------------------------------------------------
(* buildIncomingMessage: a line without a colon is dropped, a repeated name's *)
(* values are joined.                                                        *)

incomingMessage(method, lines) ==
    LET named == SelectSeq(lines, LAMBDA line : Len(line) = 2)
        ValuesOf(name) == LET its == SelectSeq(named, LAMBDA line : line[1] = name)
                          IN  [i \in DOMAIN its |-> its[i][2]]
    IN  [method |-> method, headers |-> [name \in {named[i][1] : i \in DOMAIN named} |-> ValuesOf(name)]]

\* The lines between the request line and the terminator.
HeaderLines(head) == SubSeq(head, 3, Len(head) - 2)
buildIncomingMessage(head) == incomingMessage(head[1], HeaderLines(head))

TerminatorAt(buffer) == {i \in 1 .. Len(buffer) - 1 : SubSeq(buffer, i, i + 1) = Terminator}

-----------------------------------------------------------------------------
(* recoverInvalidMethod *)

\* attempt: dispatched or refused once the terminator is there, or too long.
attempt(buffer) ==
    CASE TerminatorAt(buffer) # {} -> IF buffer[1] \in Rejected THEN "400" ELSE "dispatched"
      [] TerminatorAt(buffer) = {} /\ Len(buffer) > maxHeaderSize -> "431"
      [] OTHER -> "collecting"

Collected(buffer) == [buffer |-> buffer, state |-> attempt(buffer)]

HeadOf(buffer) == SubSeq(buffer, 1, (CHOOSE i \in TerminatorAt(buffer) : TRUE) + 1)

InOrder(S) == [n \in 1..Cardinality(S) |-> CHOOSE i \in S : Cardinality({j \in S : j < i}) = n - 1]

\* What the recoveries that have just settled do to the socket and to Express.
Settle(before, after) ==
    LET Settled(states) == {i \in DOMAIN after :
                               /\ after[i].state \in states
                               /\ i \in DOMAIN before => before[i].state = "collecting"}
        refused == InOrder(Settled({"400", "431"}))
        passed == InOrder(Settled({"dispatched"}))
    IN  /\ recoveries' = after
        /\ answers' = answers \o [n \in DOMAIN refused |-> after[refused[n]].state]
        /\ dispatched' = dispatched \o [n \in DOMAIN passed |->
                                           buildIncomingMessage(HeadOf(after[passed[n]].buffer))]
        /\ socket' = IF refused = <<>> THEN socket ELSE "ended"

\* The 'data' listener of each recovery that has not finished.
onData(chunk) ==
    [i \in DOMAIN recoveries |-> IF recoveries[i].state = "collecting"
                                 THEN Collected(recoveries[i].buffer \o chunk) ELSE recoveries[i]]

\* Variant: every refusal starts a recovery.
RecoveredFromAgain(chunk) == Append(onData(chunk), Collected(chunk))

\* A refusal by Node's parser starts a recovery on the socket's first only; the
\* listeners get the chunk either way.
RecoveredFrom(chunk) == IF owned THEN onData(chunk) ELSE Append(onData(chunk), Collected(chunk))

\* writeNodeDefaultClientError
writeNodeDefaultClientError(code) ==
    /\ socket' = "ended"
    /\ answers' = IF answers = <<>> THEN Append(answers, IF code = "HPE_HEADER_OVERFLOW" THEN "431" ELSE "400")
                  ELSE answers

-----------------------------------------------------------------------------
(* What arrives *)

Arriving(n) ==
    /\ socket = "open" /\ n \in 1 .. Len(unsent)
    /\ unsent' = SubSeq(unsent, n + 1, Len(unsent))
    /\ UNCHANGED <<requests, request>>

\* A chunk of a request whose method Node does not know: HPE_INVALID_METHOD.
InvalidMethod(n) ==
    /\ Arriving(n) /\ request.method \in Unknown
    /\ owned' = TRUE /\ Settle(recoveries, RecoveredFrom(SubSeq(unsent, 1, n)))
    /\ UNCHANGED received

ReadSoFar(n) == received \o SubSeq(unsent, 1, n)
Refused(head) == ~request.valid /\ Len(head) > 2
HeadSize(head) == IF TerminatorAt(head) = {} THEN Len(head) ELSE Len(Sent(request))

\* A chunk of a request whose method it knows: refused, or read on, or handed
\* over; CONNECT on its socket.
KnownMethod(n) ==
    LET head == ReadSoFar(n) IN
    /\ Arriving(n) /\ request.method \notin Unknown /\ ~owned /\ received' = head
    /\ UNCHANGED recoveries
    /\ \/ /\ Refused(head) /\ writeNodeDefaultClientError("HPE_INVALID_HEADER_TOKEN")
          /\ UNCHANGED <<owned, dispatched>>
       \/ /\ ~Refused(head) /\ HeadSize(head) > maxHeaderSize
          /\ writeNodeDefaultClientError("HPE_HEADER_OVERFLOW")
          /\ UNCHANGED <<owned, dispatched>>
       \/ /\ ~Refused(head) /\ HeadSize(head) <= maxHeaderSize
          /\ owned' = (request.method = "CONNECT" /\ TerminatorAt(head) # {})
          /\ dispatched' = IF TerminatorAt(head) # {} /\ TerminatorAt(received) = {}
                           THEN Append(dispatched, buildIncomingMessage(HeadOf(head))) ELSE dispatched
          /\ UNCHANGED <<answers, socket>>

\* What follows a CONNECT that has been handed over is read by nobody.
AfterConnect(n) ==
    /\ Arriving(n) /\ request.method = "CONNECT" /\ owned
    /\ UNCHANGED <<received, owned, recoveries, dispatched, answers, socket>>

\* The answer is written; a socket that was taken over is closed with it.
Respond ==
    /\ dispatched # <<>> /\ dispatched' = Tail(dispatched)
    /\ answers' = IF socket = "open" THEN Append(answers, Handler(restoreCatchAllRoutes, dispatched[1].method))
                  ELSE answers
    /\ socket' = IF owned /\ socket = "open" THEN "ended" ELSE socket
    /\ UNCHANGED <<requests, request, unsent, received, owned, recoveries>>

\* Variant: what has been dispatched times out as well.
TimesOutLate(recovery) == recovery.state \in {"collecting", "dispatched"}

\* finish clears the timer of a recovery that has settled.
TimesOut(recovery) == recovery.state = "collecting"

\* server.headersTimeout, of a head being collected.
RecoveryTimeout ==
    /\ socket = "open"
    /\ \E i \in DOMAIN recoveries :
          /\ TimesOut(recoveries[i])
          /\ recoveries' = [recoveries EXCEPT ![i].state = "400"]
    /\ answers' = Append(answers, "400") /\ socket' = "ended"
    /\ UNCHANGED <<requests, request, unsent, received, owned, dispatched>>

\* Node's own, of a head its parser has not read to the end.
NodeTimeout ==
    /\ socket = "open" /\ ~owned /\ request.method \notin Unknown
    /\ received # <<>> /\ TerminatorAt(received) = {}
    /\ writeNodeDefaultClientError("ERR_HTTP_REQUEST_TIMEOUT")
    /\ UNCHANGED <<requests, request, unsent, received, owned, recoveries, dispatched>>

\* The socket closes under a recovery, or under Express.
ClientLeaves ==
    /\ socket = "open" /\ socket' = "left"
    /\ recoveries' = [i \in DOMAIN recoveries |-> IF recoveries[i].state = "collecting"
                                                  THEN [recoveries[i] EXCEPT !.state = "closed"] ELSE recoveries[i]]
    /\ UNCHANGED <<requests, request, unsent, received, owned, dispatched, answers>>

\* The next request on a connection that was kept alive.
NextRequest ==
    /\ socket = "open" /\ requests < MaxRequests /\ Len(answers) = requests /\ unsent = <<>>
    /\ requests' = requests + 1 /\ request' \in Sendable
    /\ unsent' = Sent(request') \o Body(request') /\ received' = <<>>
    /\ UNCHANGED <<owned, recoveries, dispatched, answers, socket>>

Next ==
    \/ \E n \in 1 .. Len(unsent) : InvalidMethod(n) \/ KnownMethod(n) \/ AfterConnect(n)
    \/ Respond \/ RecoveryTimeout \/ NodeTimeout \/ ClientLeaves \/ NextRequest

Spec == Init /\ [][Next]_vars

-----------------------------------------------------------------------------
(* Properties *)

\* However a request is cut into chunks, and whatever times out meanwhile, it is
\* answered at most once; and the server never closes a connection on a request
\* without an answer, but for one that Node itself refuses or times out on a
\* connection that has already carried an answer: bytesWritten is then not 0.
\* (The owned set, finish/settled, writeNodeDefaultClientError.)
OneAnswerEach ==
    /\ Len(answers) + Len(dispatched) <= requests
    /\ socket = "ended" /\ Len(answers) < requests => requests > 1 /\ request.method \notin Unknown

\* What Express is given of a request Node refused is the request that was sent,
\* its headers to the last, wherever the chunks end; and it is routed to the
\* handler that any other method without a route of its own is routed to.
\* (recoverInvalidMethod, buildIncomingMessage, restoreCatchAllRoutes.)
RefusedArrivesWhole ==
    \A i \in DOMAIN dispatched :
        /\ i = Len(dispatched) /\ socket = "open" =>
              dispatched[i] = incomingMessage(request.method, request.headers)
        /\ dispatched[i].method \in Unknown =>
              Handler(restoreCatchAllRoutes, dispatched[i].method) = Handler(Router, "PUT")
        /\ dispatched[i].method \in Known =>
              Handler(restoreCatchAllRoutes, dispatched[i].method) = Handler(Router, dispatched[i].method)
=============================================================================
