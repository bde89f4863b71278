------------------------------- MODULE UrlConf -------------------------------
(***************************************************************************)
(* Which view serves a path (src/common/http/django-url-conf.ts), and which*)
(* Nest route does (the controllers). A path is its segments and whether it*)
(* ends with a slash. Two tables answer the same question: the patterns of *)
(* the system this one replaces, which are anchored and constrain every    *)
(* segment, and Nest's routes, whose parameters take anything. Operators   *)
(* only, for HttpPipeline.                                                 *)
(*                                                                         *)
(* Definitions whose comment starts with "Variant:" are not the code's:    *)
(* each is the definition after it with one plausible bug.                 *)
(***************************************************************************)
EXTENDS Naturals, Sequences

Path(segments, slash) == [segments |-> segments, slash |-> slash]

\* The segments there are: those a pattern names, and one or two of each class.
Letters == {"api", "loan", "user", "activate", "activity", "year", "notification", "file", "admin",
            "reset", "done", "health", "authorize", "apps", "detail", "word"}
Digits == {"7"}
SignedLetters == Letters \cup {"-word"}
SignedDigits == Digits \cup {"-7"}
ResetTokens == {"5x2-abc", "set-password", "saving-account"}
Uids == SignedLetters \cup SignedDigits \cup ResetTokens \cup {"password_reset", "api-token-auth"}
Segments == Uids \cup {"7.5"}

OptionalSlash == BOOLEAN
JSON_ONLY == 1
DEFAULT == 2
PlainDjango == 0

Entry(segments, slash, view, renderers) ==
    [segments |-> segments, slash |-> slash, view |-> view, renderers |-> renderers,
     dispatch |-> <<>>]
Api(segments, slash, view) == Entry(<<{"api"}>> \o segments, slash, view, DEFAULT)

\* Variant: the id of a loan is whatever Nest's ":id" takes.
LoanPatternsLoose ==
    <<Api(<<{"loan"}>>, OptionalSlash, "LoanView"),
      Api(<<{"loan"}, Segments>>, {FALSE}, "LoanDetailView"),
      Api(<<{"loan"}, Digits, Letters>>, {FALSE}, "LoanAppsView")>>

LoanPatterns ==
    <<Api(<<{"loan"}>>, OptionalSlash, "LoanView"),
      Api(<<{"loan"}, Digits>>, {FALSE}, "LoanDetailView"),
      Api(<<{"loan"}, Digits, Letters>>, {FALSE}, "LoanAppsView")>>

\* The two views of /api/user/<segment> are told apart by the segment, which
\* Nest could not: they are sent on to paths of their own.
UserPatterns ==
    <<Api(<<{"user"}>>, OptionalSlash, "UserView"),
      [Api(<<{"user"}, SignedLetters>>, {FALSE}, "UserAppsView")
          EXCEPT !.dispatch = <<"api", "user", "apps">>],
      [Api(<<{"user"}, SignedDigits>>, {FALSE}, "UserDetailView")
          EXCEPT !.dispatch = <<"api", "user", "detail">>],
      Api(<<{"user"}, {"activate"}, Digits>>, {FALSE}, "UserActivateView")>>

\* The patterns in order; the first that matches decides. dispatch is where the
\* request goes instead, with its last segment.
DJANGO_URL_CONF ==
    <<Entry(<<{"password_reset"}>>, {TRUE}, "PasswordResetView", PlainDjango),
      Entry(<<{"password_reset"}, {"done"}>>, {TRUE}, "PasswordResetDoneView", PlainDjango),
      Entry(<<{"reset"}, Uids, ResetTokens>>, {TRUE}, "PasswordResetConfirmView", PlainDjango),
      Entry(<<{"reset"}, {"done"}>>, {TRUE}, "PasswordResetCompleteView", PlainDjango),
      Entry(<<{"api-token-auth"}>>, OptionalSlash, "ObtainAuthToken", JSON_ONLY),
      Api(<<{"authorize"}>>, OptionalSlash, "AuthView")>>
    \o LoanPatterns \o UserPatterns \o
    <<Api(<<{"activity"}, Digits>>, OptionalSlash, "ActivityDetailView"),
      Api(<<{"activity"}, {"year"}>>, OptionalSlash, "ActivityYearView"),
      Api(<<{"activity"}, {"year"}, Digits>>, {FALSE}, "ActivityYearDetailView"),
      Api(<<{"notification"}, Letters>>, OptionalSlash, "NotificationView"),
      Api(<<{"file"}>>, OptionalSlash, "FileView"),
      Api(<<{"file"}, Digits>>, {FALSE}, "FileDetailView"),
      Api(<<{"admin"}>>, OptionalSlash, "AdminView"),
      Api(<<{"saving-account"}>>, OptionalSlash, "SavingAccountView"),
      Entry(<<{"health"}>>, OptionalSlash, "none", PlainDjango)>>

\* The empty answer of resolveDjangoUrl.
NoRoute == Entry(<<>>, {}, "none", PlainDjango)

\* Anchored at both ends.
Fits(entry, path) ==
    /\ Len(path.segments) = Len(entry.segments) /\ path.slash \in entry.slash
    /\ \A i \in DOMAIN path.segments : path.segments[i] \in entry.segments[i]

First(S) == CHOOSE i \in S : \A j \in S : i <= j

resolveDjangoUrl(path) ==
    LET hits == {i \in DOMAIN DJANGO_URL_CONF : Fits(DJANGO_URL_CONF[i], path)}
    IN  IF hits = {} THEN NoRoute ELSE DJANGO_URL_CONF[First(hits)]

\* Where Nest is told that the request goes.
Target(path, entry) ==
    IF entry.dispatch = <<>> THEN path
    ELSE Path(Append(entry.dispatch, path.segments[Len(path.segments)]), FALSE)

-----------------------------------------------------------------------------
(* The controllers: a path with ":" for a parameter, the view that is      *)
(* declared, the verbs with a handler of their own, those of them that read*)
(* no request data, and whether @All takes the rest.                       *)

Controller(segments, view, verbs, noData) ==
    [segments |-> segments, view |-> view, verbs |-> verbs, noData |-> noData,
     guard |-> "roles", all |-> TRUE]
Public(segments, view, verbs) ==
    [Controller(segments, view, verbs, {}) EXCEPT !.guard = "public"]
Page(segments) == [Controller(segments, "none", {}, {}) EXCEPT !.guard = "django"]

ActivityYears == Controller(<<"api", "activity", "year">>, "ActivityYearView", {"GET", "POST"},
                            {"POST"})
ActivityDetail == Controller(<<"api", "activity", ":">>, "ActivityDetailView",
                             {"GET", "PATCH", "DELETE"}, {"PATCH", "DELETE"})

\* Variant: ActivityModule lists its detail controller first.
ActivityControllersSwapped == <<ActivityDetail, ActivityYears>>

\* The controllers of ActivityModule whose paths overlap, in order.
ActivityControllers == <<ActivityYears, ActivityDetail>>

Controllers ==
    <<Public(<<"api-token-auth">>, "none", {"POST"}),
      Controller(<<"api", "notification", ":">>, "NotificationView", {"POST"}, {}),
      Controller(<<"api", "user">>, "UserView", {"POST", "GET", "PATCH"}, {}),
      Controller(<<"api", "user", "apps", ":">>, "UserAppsView", {"POST"}, {"POST"}),
      Controller(<<"api", "user", "detail", ":">>, "UserDetailView", {"GET", "PATCH", "DELETE"}, {}),
      Public(<<"api", "user", "activate", ":">>, "none", {"POST"}),
      Controller(<<"api", "loan">>, "LoanView", {"GET", "POST", "PATCH"}, {}),
      Controller(<<"api", "loan", ":">>, "LoanDetailView", {"GET", "PATCH"}, {}),
      Controller(<<"api", "loan", ":", ":">>, "LoanAppsView", {"POST"}, {})>>
    \o ActivityControllers \o
    <<Controller(<<"api", "activity", "year", ":">>, "ActivityYearDetailView", {"GET", "POST"}, {}),
      Controller(<<"api", "saving-account">>, "SavingAccountView", {"GET", "POST", "PUT"}, {}),
      Controller(<<"api", "file">>, "FileView", {"GET", "POST"}, {"POST"}),
      Controller(<<"api", "file", ":">>, "FileDetailView", {"GET"}, {}),
      Controller(<<"api", "admin">>, "AdminView", {"GET"}, {}),
      Page(<<"password_reset">>), Page(<<"password_reset", "done">>),
      Page(<<"reset", "done">>), Page(<<"reset", ":", ":">>),
      [Public(<<"health">>, "none", {"GET"}) EXCEPT !.all = FALSE]>>

\* Express: a trailing slash is ignored, a parameter takes any segment.
Serves(c, path) ==
    /\ Len(c.segments) = Len(path.segments)
    /\ \A i \in DOMAIN c.segments : c.segments[i] \in {":", path.segments[i]}

\* A HEAD is a GET to Express.
Verb(c, method) == IF method = "HEAD" /\ "GET" \in c.verbs THEN "GET" ELSE method

NoController == [Page(<<>>) EXCEPT !.all = FALSE]

\* The route Nest matches: the first controller's own handler, or its @All.
NestRoute(path, method) ==
    LET hits == {i \in DOMAIN Controllers :
                    /\ Serves(Controllers[i], path)
                    /\ Controllers[i].all \/ Verb(Controllers[i], method) \in Controllers[i].verbs}
    IN  IF hits = {} THEN NoController ELSE Controllers[First(hits)]

\* The handler reads no request data: its own, or every @All.
NoRequestData(c, method) == Verb(c, method) \notin c.verbs \/ Verb(c, method) \in c.noData
=============================================================================
