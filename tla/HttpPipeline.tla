---------------------------- MODULE HttpPipeline -----------------------------
(***************************************************************************)
(* A request through the seven middlewares (src/app.module.ts), Nest's     *)
(* route, TokenAuthGuard, RolesGuard, DrfParserInterceptor, the handler,   *)
(* ApiExceptionFilter, and the hooks that rewrite the headers just before  *)
(* they are sent (src/common/http/before-headers.ts), which stand for the  *)
(* response half of the middlewares of the system this one replaces.       *)
(*                                                                         *)
(* One request is enough: requests share nothing here but the user's rows, *)
(* which an administrator edits at any moment. What the handlers do is in  *)
(* the modules of the services.                                            *)
(*                                                                         *)
(* Definitions whose comment starts with "Variant:" are not the code's:    *)
(* each is the definition after it with one plausible bug.                 *)
(***************************************************************************)
EXTENDS AccessControl, UrlConf, SequencesExt, FiniteSetsExt

CONSTANTS
    Requests,      \* the requests sent: records with the fields of Ordinary
    MaxEdits       \* bound: how often the user's rows are edited

VARIABLES
    user,          \* the client: its role, is_active, and whether its key is stored
    edits,
    req,           \* the request, or what is left of it
    at,            \* where it stands
    resp,          \* its response
    seen           \* history: what user was since the request arrived

vars == <<user, edits, req, at, resp, seen>>

Users == [role : Roles \cup {NoRole}, active : BOOLEAN, key : BOOLEAN]

\* An unremarkable GET; Requests are this with some fields changed.
Ordinary == [path |-> Path(<<"api", "loan">>, FALSE), method |-> "GET", host |-> TRUE,
             preflight |-> FALSE, accept |-> "ok", auth |-> "key",
             body |-> "none", outcome |-> "ok"]

Methods == {"GET", "HEAD", "POST", "PUT", "PATCH", "DELETE", "OPTIONS"}

ConstantsAssumption ==
    /\ Requests \subseteq [path : [segments : Seq(Segments), slash : BOOLEAN], method : Methods,
                           host : BOOLEAN, preflight : BOOLEAN, accept : {"ok", "format", "type"},
                           auth : {"none", "other", "malformed", "key"},
                           body : {"none", "good", "type", "malformed"},
                           outcome : {"ok", "ApiException", "crash"}]
    /\ MaxEdits \in Nat

\* DjangoStack: how deep each of the old middlewares sits.
TRANSPORT == 0
SESSION == 2
COMMON == 3
CSRF == 4
X_FRAME_OPTIONS == 7
CORS == 8
VIEW == 9
Unfloored == 10

Fresh == [status |-> 0, allow |-> FALSE, vary |-> <<>>, frame |-> FALSE, express |-> TRUE,
          drf |-> FALSE, hooks |-> <<>>, floor |-> Unfloored]

\* request.authUser is not set.
Anonymous == 98

\* A request that has just arrived, and what will be known of it.
Begun(r) == [path |-> r.path, method |-> r.method, host |-> r.host, preflight |-> r.preflight,
             accept |-> r.accept, auth |-> r.auth, body |-> r.body, outcome |-> r.outcome,
             route |-> NoRoute, controller |-> NoController, parse |-> "none", role |-> Anonymous,
             ran |-> FALSE, cookies |-> <<>>]

Init ==
    /\ user = [role |-> MEMBER, active |-> TRUE, key |-> TRUE] /\ edits = 0
    /\ req = Begun(Ordinary) /\ at = "idle" /\ resp = Fresh /\ seen = {}

-----------------------------------------------------------------------------
(* The response. *)

patchVaryHeaders(r, field) ==
    [r EXCEPT !.vary = IF Contains(@, field) THEN @ ELSE Append(@, field)]

onBeforeHeaders(r, depth, hook) == [r EXCEPT !.hooks = Append(@, <<depth, hook>>)]

\* The old middlewares above depth alone saw this response.
skipBeforeHeadersHooks(r, depth) == [r EXCEPT !.floor = IF depth < @ THEN depth ELSE @]

\* The 5xx that no view of the old stack rendered lost what the view had set.
Undo(r) ==
    IF r.status < 500 \/ r.drf THEN r
    ELSE [r EXCEPT !.allow = FALSE, !.vary = RemoveFirst(@, "Accept")]

Run(hook, r) ==
    CASE hook = "frame"  -> [r EXCEPT !.frame = TRUE]
      [] hook = "drop"   -> [r EXCEPT !.express = FALSE]
      [] hook = "origin" -> patchVaryHeaders(r, "Origin")
      [] hook = "cookie" -> patchVaryHeaders(r, "Cookie")
      [] hook = "undo"   -> Undo(r)

\* Variant: the hooks run as they were registered.
orderedHooksAsRegistered(r) == SelectSeq(r.hooks, LAMBDA h : h[1] <= r.floor)

\* The deepest first, those of one depth as registered, none below the floor.
orderedHooks(r) ==
    LET kept == {i \in DOMAIN r.hooks : r.hooks[i][1] <= r.floor}
        Before(i, j) == r.hooks[i][1] > r.hooks[j][1] \/ (r.hooks[i][1] = r.hooks[j][1] /\ i < j)
    IN  [n \in 1..Cardinality(kept) |->
            r.hooks[CHOOSE i \in kept : Cardinality({j \in kept : Before(j, i)}) = n - 1]]

\* What the hooks make of a response, one after the other.
Ran(hooks, r) ==
    LET done[n \in 0..Len(hooks)] == IF n = 0 THEN r ELSE Run(hooks[n][2], done[n - 1])
    IN  done[Len(hooks)]

writeHead(r) == Ran(orderedHooks(r), r)

Answer(r, status) == /\ resp' = writeHead([r EXCEPT !.status = status])
                     /\ at' = "answered"

\* What ApiExceptionFilter makes of an ApiException or a DrfException: the old
\* stack would have rendered it, a 500 included.
Rendered(r) == [r EXCEPT !.drf = TRUE]

Same == UNCHANGED <<user, edits, seen>>

-----------------------------------------------------------------------------
(* The middlewares, in the order of AppModule.configure. *)

Arrive ==
    /\ at = "idle"
    /\ \E r \in Requests : req' = Begun(r)
    /\ resp' = Fresh /\ seen' = {user} /\ at' = "hosts"
    /\ UNCHANGED <<user, edits>>

DjangoAllowedHosts ==
    /\ at = "hosts"
    /\ IF req.host THEN at' = "slash" /\ UNCHANGED resp
       ELSE Answer([skipBeforeHeadersHooks(resp, SESSION) EXCEPT !.express = FALSE], 400)
    /\ UNCHANGED req /\ Same

\* A path that only a slash keeps from a pattern is sent back for it.
DjangoAppendSlash ==
    /\ at = "slash"
    /\ IF /\ ~req.path.slash /\ resolveDjangoUrl(req.path) = NoRoute
          /\ resolveDjangoUrl([req.path EXCEPT !.slash = TRUE]) # NoRoute
       THEN Answer([skipBeforeHeadersHooks(resp, COMMON) EXCEPT !.express = FALSE], 301)
       ELSE at' = "headers" /\ UNCHANGED resp
    /\ UNCHANGED req /\ Same

\* normaliseDrfContentType, at VIEW as well, is about layout.
DjangoResponseHeaders ==
    /\ at = "headers" /\ at' = "cors"
    /\ resp' = onBeforeHeaders(onBeforeHeaders(resp, X_FRAME_OPTIONS, "frame"), TRANSPORT, "drop")
    /\ UNCHANGED req /\ Same

\* A preflight is answered here; what it sets needs no hook.
DjangoCors ==
    /\ at = "cors"
    /\ IF req.method = "OPTIONS" /\ req.preflight
       THEN Answer(patchVaryHeaders(resp, "Origin"), 200)
       ELSE at' = "resolver" /\ resp' = onBeforeHeaders(resp, CORS, "origin")
    /\ UNCHANGED req /\ Same

\* The view's own headers are on the response before anything can refuse it.
DjangoUrlResolver ==
    /\ at = "resolver"
    /\ LET route == resolveDjangoUrl(req.path)
           headed == [resp EXCEPT !.allow = TRUE,
                                  !.vary = IF route.renderers = DEFAULT THEN <<"Accept">> ELSE @]
       IN  IF route = NoRoute THEN Answer(resp, 404) /\ UNCHANGED req
           ELSE /\ req' = [req EXCEPT !.route = route, !.path = Target(req.path, route)]
                /\ resp' = IF route.renderers = PlainDjango THEN resp
                           ELSE onBeforeHeaders(headed, VIEW, "undo")
                /\ at' = "negotiation"
    /\ Same

\* ?format= names no renderer, or Accept takes none.
DrfContentNegotiation ==
    /\ at = "negotiation"
    /\ IF req.route.renderers = PlainDjango \/ req.accept = "ok"
       THEN at' = "parsing" /\ UNCHANGED resp
       ELSE Answer(resp, IF req.accept = "format" THEN 404 ELSE 406)
    /\ UNCHANGED req /\ Same

\* What is wrong with the body is noted: the view may never read it. A body
\* that is noted as bad is answered when request.data is.
DrfRequestParsing ==
    /\ at = "parsing" /\ at' = "route"
    /\ req' = IF req.method \in {"POST", "PUT", "PATCH"} THEN [req EXCEPT !.parse = req.body] ELSE req
    /\ UNCHANGED resp /\ Same

-----------------------------------------------------------------------------
(* Nest: the route, the guards, the interceptor, the handler. *)

\* Nest's own 404 is an HttpException.
Route ==
    /\ at = "route"
    /\ LET c == NestRoute(req.path, req.method)
       IN  IF c = NoController THEN Answer(resp, 404) /\ UNCHANGED req
           ELSE at' = "token" /\ req' = [req EXCEPT !.controller = c] /\ UNCHANGED resp
    /\ Same

isPlainDjangoView == /\ req.controller.guard = "django"
                     /\ req.route.view # "none" /\ req.route.renderers = PlainDjango

\* Variant: a public route asks for no credentials at all.
TokenAuthGuardNotPublic ==
    /\ at = "token"
    /\ \/ /\ isPlainDjangoView \/ req.controller.guard = "public" \/ req.auth \in {"none", "other"}
          /\ at' = "roles" /\ UNCHANGED <<resp, req>>
       \/ /\ ~isPlainDjangoView /\ req.controller.guard # "public" /\ req.auth \in {"malformed", "key"}
          /\ IF req.auth = "key" /\ user.key /\ user.active
             THEN at' = "roles" /\ req' = [req EXCEPT !.role = user.role] /\ UNCHANGED resp
             ELSE Answer(Rendered(resp), 401) /\ UNCHANGED req
    /\ Same

\* The key is looked up whenever there is one. The database may fail.
TokenAuthGuard ==
    /\ at = "token"
    /\ \/ /\ isPlainDjangoView \/ req.auth \in {"none", "other"}
          /\ at' = "roles" /\ UNCHANGED <<resp, req>>
       \/ /\ ~isPlainDjangoView /\ req.auth \in {"malformed", "key"}
          /\ IF req.auth = "key" /\ user.key /\ user.active
             THEN at' = "roles" /\ req' = [req EXCEPT !.role = user.role] /\ UNCHANGED resp
             ELSE Answer(Rendered(resp), 401) /\ UNCHANGED req
       \/ ~isPlainDjangoView /\ req.auth = "key" /\ Answer(resp, 500) /\ UNCHANGED req
    /\ Same

\* A view that is not the one declared is a route table out of order.
RolesGuard ==
    /\ at = "roles"
    /\ LET c == req.controller
       IN  IF isPlainDjangoView \/ c.guard = "public" THEN at' = "interceptor" /\ UNCHANGED resp
           ELSE IF req.role = Anonymous THEN Answer(Rendered(resp), 401)
           ELSE IF c.view # req.route.view THEN Answer(resp, 500)
           ELSE IF isRoleAllowed(c.view, req.method, req.role)
                THEN at' = "interceptor" /\ UNCHANGED resp
                ELSE Answer(Rendered(resp), 403)
    /\ UNCHANGED req /\ Same

\* assertRequestDataParsable.
DrfParserInterceptor ==
    /\ at = "interceptor"
    /\ IF req.controller.guard = "django" \/ NoRequestData(req.controller, req.method)
             \/ req.parse \in {"none", "good"}
       THEN at' = "handler" /\ UNCHANGED resp
       ELSE Answer(Rendered(resp), IF req.parse = "type" THEN 415 ELSE 400)
    /\ UNCHANGED req /\ Same

\* What comes of the handler. A page may vary on its cookies, at the depth of
\* the middleware that set them.
Handler ==
    /\ at = "handler"
    /\ \E cookies \in IF req.controller.guard = "django" /\ req.outcome = "ok"
                      THEN {<<>>, <<VIEW>>, <<SESSION>>, <<SESSION, CSRF>>} ELSE {<<>>} :
          req' = [req EXCEPT !.ran = TRUE, !.cookies = cookies]
    /\ LET c == req.controller
       IN  IF Verb(c, req.method) \notin c.verbs /\ c.guard # "django"
           THEN Answer(Rendered(resp), IF c.guard = "public" /\ req.method = "OPTIONS" THEN 200 ELSE 405)
           ELSE \/ /\ req.outcome = "ok"
                   /\ Answer([resp EXCEPT !.hooks = @ \o [i \in DOMAIN req'.cookies |->
                                                             <<req'.cookies[i], "cookie">>]], 200)
                \/ req.outcome = "ApiException" /\ \E s \in {404, 500} : Answer(Rendered(resp), s)
                \/ req.outcome = "crash" /\ Answer(resp, 500)
    /\ Same

-----------------------------------------------------------------------------
\* An administrator changes the role, deactivates the user, or the key goes.
Edit ==
    /\ edits < MaxEdits /\ edits' = edits + 1
    /\ \E role \in Roles : user' \in {[user EXCEPT !.role = role], [user EXCEPT !.active = FALSE],
                                      [user EXCEPT !.key = FALSE]}
    /\ user' # user /\ seen' = seen \cup {user'}
    /\ UNCHANGED <<req, at, resp>>

Next ==
    \/ Arrive \/ DjangoAllowedHosts \/ DjangoAppendSlash \/ DjangoResponseHeaders \/ DjangoCors
    \/ DjangoUrlResolver \/ DrfContentNegotiation \/ DrfRequestParsing
    \/ Route \/ TokenAuthGuard \/ RolesGuard \/ DrfParserInterceptor \/ Handler \/ Edit

Spec == Init /\ [][Next]_vars

-----------------------------------------------------------------------------
(* Properties *)

Answered == at = "answered"

\* The parameters the handlers turn into numbers.
Numeric == LET id(i) == req.path.segments[i]
           IN  CASE req.controller.view \in {"LoanDetailView", "LoanAppsView", "ActivityDetailView",
                                             "FileDetailView"} -> id(3) \in Digits
                 [] req.controller.view = "ActivityYearDetailView" -> id(4) \in Digits
                 [] req.controller.view = "UserDetailView" -> id(4) \in SignedDigits
                 [] OTHER -> TRUE

\* A client whose key was stored and active, with a role that was let through
\* to this view by the system this one replaces, at some moment of the request.
MightDo == \E u \in seen : /\ u.key /\ u.active /\ u.role \in Roles
                           /\ <<req.route.view, req.method>> \in V1_ROLE_MATRIX[u.role]

\* Whatever the path, the method, the credentials and the edits meanwhile, a
\* handler that is not public runs for a client that might do this alone; it is
\* the one of the view the old patterns name, and its numbers are numbers.
HandlersAreReachedByRight ==
    req.ran =>
        /\ Numeric
        /\ req.controller.guard = "roles" => MightDo /\ req.controller.view = req.route.view
        /\ req.controller.guard = "django" =>
              req.route.view \in {"PasswordResetView", "PasswordResetDoneView",
                                  "PasswordResetConfirmView", "PasswordResetCompleteView"}

\* Credentials that are no good are refused before anything else is looked at,
\* on public routes too, and what is wrong with a body is told to nobody who
\* might not send it.
CredentialsComeFirst ==
    Answered /\ req.controller.guard # "django" =>
        /\ req.auth = "malformed" /\ req.controller # NoController => resp.status = 401
        /\ resp.status \in {400, 415} /\ req.controller.guard = "roles" => MightDo

\* Each answer has the headers that the old middlewares it would have passed
\* through set, in their order: an early one has none of CORS and the frame
\* options, the 500 that no view rendered has lost what the view set, and none
\* shows Express.
HeadersFollowDjango ==
    Answered =>
        /\ ~resp.express
        /\ resp.frame = (resp.status # 301 /\ req.host)
        /\ LET rendered == req.route.renderers # PlainDjango /\ (resp.status < 500 \/ resp.drf)
           IN  /\ resp.allow = rendered
               /\ resp.vary = (IF rendered /\ req.route.renderers = DEFAULT THEN <<"Accept">> ELSE <<>>)
                              \o (IF Contains(req.cookies, VIEW) THEN <<"Cookie">> ELSE <<>>)
                              \o (IF resp.status = 301 \/ ~req.host THEN <<>> ELSE <<"Origin">>)
                              \o (IF Contains(req.cookies, SESSION) THEN <<"Cookie">> ELSE <<>>)
=============================================================================
