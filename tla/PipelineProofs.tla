--------------------------- MODULE PipelineProofs ---------------------------
(***************************************************************************)
(* Proofs about the request pipeline (HttpPipeline), for any requests and  *)
(* edits.                                                                  *)
(*                                                                         *)
(* PipeInv says of each place of the pipeline what a request that stands   *)
(* there has passed: which middlewares have seen it and what they will add *)
(* to its response, that its credentials were good once they were looked   *)
(* at, and that the role it was let through with is one the user has had   *)
(* since it arrived.                                                       *)
(***************************************************************************)
EXTENDS HttpPipeline, SequenceTheorems, FiniteSetTheorems, WellFoundedInduction,
        NaturalsInduction, TLAPS

\* What two sequences one after the other are.
LEMMA Joined ==
    ASSUME NEW S, NEW a \in Seq(S), NEW b \in Seq(S)
    PROVE  /\ a \o b \in Seq(S) /\ Len(a \o b) = Len(a) + Len(b)
           /\ \A i \in 1..Len(a) : (a \o b)[i] = a[i]
           /\ \A i \in 1..Len(b) : (a \o b)[i + Len(a)] = b[i]
OBVIOUS


-----------------------------------------------------------------------------
(* The role matrix and the one that was captured *)

LEMMA MemberRights ==
    ASSUME NEW role \in Roles
    PROVE  {<<"LoanView", "GET">>, <<"LoanView", "POST">>, <<"LoanDetailView", "GET">>,
            <<"UserDetailView", "GET">>, <<"UserDetailView", "PATCH">>, <<"UserView", "GET">>,
            <<"ActivityYearView", "GET">>, <<"ActivityYearDetailView", "GET">>,
            <<"ActivityDetailView", "GET">>, <<"LoanAppsView", "POST">>,
            <<"NotificationView", "POST">>, <<"FileView", "GET">>, <<"FileDetailView", "GET">>,
            <<"UserAppsView", "POST">>, <<"SavingAccountView", "GET">>,
            <<"SavingAccountView", "POST">>} \subseteq V1_ROLE_MATRIX[role]
BY DEF V1_ROLE_MATRIX, Roles, ADMIN, PRESIDENT, TREASURER, MEMBER

LEMMA PresidentRights ==
    ASSUME NEW role \in {ADMIN, PRESIDENT}
    PROVE  {<<"ActivityYearView", "POST">>, <<"ActivityYearDetailView", "POST">>,
            <<"ActivityDetailView", "PATCH">>, <<"ActivityDetailView", "DELETE">>}
               \subseteq V1_ROLE_MATRIX[role]
BY DEF V1_ROLE_MATRIX, Roles, ADMIN, PRESIDENT, TREASURER, MEMBER

LEMMA TreasurerRights ==
    ASSUME NEW role \in {ADMIN, TREASURER}
    PROVE  {<<"LoanView", "PATCH">>, <<"LoanDetailView", "PATCH">>, <<"UserView", "PATCH">>,
            <<"SavingAccountView", "PUT">>} \subseteq V1_ROLE_MATRIX[role]
BY DEF V1_ROLE_MATRIX, Roles, ADMIN, PRESIDENT, TREASURER, MEMBER

LEMMA AdminRights ==
    {<<"UserView", "POST">>, <<"UserDetailView", "DELETE">>, <<"FileView", "POST">>,
     <<"AdminView", "GET">>} \subseteq V1_ROLE_MATRIX[ADMIN]
BY DEF V1_ROLE_MATRIX, Roles, ADMIN, PRESIDENT, TREASURER, MEMBER

\* Whoever the matrix lets do something was let do it before.
LEMMA NoNewRights ==
    ASSUME NEW view, NEW method, NEW role, isRoleAllowed(view, method, role)
    PROVE  role \in Roles /\ <<view, method>> \in V1_ROLE_MATRIX[role]
<1>1. /\ Anyone = Roles /\ Bookkeepers = {ADMIN, TREASURER}
      /\ Ceiling(ADMIN) = {ADMIN} /\ Ceiling(PRESIDENT) = {ADMIN, PRESIDENT}
      /\ {ADMIN, PRESIDENT, TREASURER} \subseteq Roles
  BY DEF Anyone, Bookkeepers, Ceiling, Roles, ADMIN, PRESIDENT, TREASURER, MEMBER
<1>2. PICK entry : entry = PERMISSION_MATRIX[view]
  OBVIOUS
<1>3. method \in DOMAIN entry /\ role \in entry[method]
  BY <1>2 DEF isRoleAllowed
<1>4. view \in {"LoanView", "LoanDetailView", "UserDetailView", "UserView", "ActivityYearView",
                "ActivityYearDetailView", "ActivityDetailView", "LoanAppsView", "NotificationView",
                "FileView", "FileDetailView", "UserAppsView", "AdminView", "SavingAccountView"}
  BY DEF isRoleAllowed, V1_VIEW_NAMES, PERMISSION_MATRIX
<1>5. CASE view = "LoanView"
  <2>1. entry = [GET |-> Anyone, POST |-> Anyone, PATCH |-> Bookkeepers]
    BY <1>2, <1>5 DEF PERMISSION_MATRIX
  <2> QED BY <1>1, <1>3, <1>5, <2>1, MemberRights, TreasurerRights
<1>6. CASE view = "LoanDetailView"
  <2>1. entry = [GET |-> Anyone, PATCH |-> Bookkeepers]
    BY <1>2, <1>6 DEF PERMISSION_MATRIX
  <2> QED BY <1>1, <1>3, <1>6, <2>1, MemberRights, TreasurerRights
<1>7. CASE view = "UserDetailView"
  <2>1. entry = [GET |-> Anyone, PATCH |-> Anyone, DELETE |-> Ceiling(ADMIN)]
    BY <1>2, <1>7 DEF PERMISSION_MATRIX
  <2> QED BY <1>1, <1>3, <1>7, <2>1, MemberRights, AdminRights
<1>8. CASE view = "UserView"
  <2>1. entry = [POST |-> Ceiling(ADMIN), GET |-> Anyone, PATCH |-> Bookkeepers]
    BY <1>2, <1>8 DEF PERMISSION_MATRIX
  <2> QED BY <1>1, <1>3, <1>8, <2>1, MemberRights, TreasurerRights, AdminRights
<1>9. CASE view \in {"ActivityYearView", "ActivityYearDetailView"}
  <2>1. entry = [GET |-> Anyone, POST |-> Ceiling(PRESIDENT)]
    BY <1>2, <1>9 DEF PERMISSION_MATRIX
  <2> QED BY <1>1, <1>3, <1>9, <2>1, MemberRights, PresidentRights
<1>10. CASE view = "ActivityDetailView"
  <2>1. entry = [GET |-> Anyone, PATCH |-> Ceiling(PRESIDENT), DELETE |-> Ceiling(PRESIDENT)]
    BY <1>2, <1>10 DEF PERMISSION_MATRIX
  <2> QED BY <1>1, <1>3, <1>10, <2>1, MemberRights, PresidentRights
<1>11. CASE view \in {"LoanAppsView", "NotificationView", "UserAppsView"}
  <2>1. entry = [POST |-> Anyone]
    BY <1>2, <1>11 DEF PERMISSION_MATRIX
  <2> QED BY <1>1, <1>3, <1>11, <2>1, MemberRights
<1>12. CASE view = "FileView"
  <2>1. entry = [POST |-> Ceiling(ADMIN), GET |-> Anyone]
    BY <1>2, <1>12 DEF PERMISSION_MATRIX
  <2> QED BY <1>1, <1>3, <1>12, <2>1, MemberRights, AdminRights
<1>13. CASE view = "FileDetailView"
  <2>1. entry = [GET |-> Anyone]
    BY <1>2, <1>13 DEF PERMISSION_MATRIX
  <2> QED BY <1>1, <1>3, <1>13, <2>1, MemberRights
<1>14. CASE view = "AdminView"
  <2>1. entry = [GET |-> Ceiling(ADMIN)]
    BY <1>2, <1>14 DEF PERMISSION_MATRIX
  <2> QED BY <1>1, <1>3, <1>14, <2>1, AdminRights
<1>15. CASE view = "SavingAccountView"
  <2>1. entry = [GET |-> Anyone, POST |-> Anyone, PUT |-> Bookkeepers]
    BY <1>2, <1>15 DEF PERMISSION_MATRIX
  <2> QED BY <1>1, <1>3, <1>15, <2>1, MemberRights, TreasurerRights
<1> QED BY <1>4, <1>5, <1>6, <1>7, <1>8, <1>9, <1>10, <1>11, <1>12, <1>13, <1>14, <1>15

-----------------------------------------------------------------------------
(* The table of the old patterns *)

PasswordViews == {"PasswordResetView", "PasswordResetDoneView", "PasswordResetConfirmView",
                  "PasswordResetCompleteView"}
NumberViews == {"LoanDetailView", "LoanAppsView", "ActivityDetailView", "FileDetailView"}

\* What every line of the table keeps to.
EntryGood(e) ==
    /\ Len(e.segments) >= 1
    /\ e.view \in NumberViews => e.dispatch = <<>> /\ Len(e.segments) >= 3 /\ e.segments[3] \subseteq Digits
    /\ e.view = "ActivityYearDetailView" =>
          e.dispatch = <<>> /\ Len(e.segments) >= 4 /\ e.segments[4] \subseteq Digits
    /\ e.view = "UserDetailView" => /\ e.dispatch = <<"api", "user", "detail">>
                                    /\ Len(e.segments) = 3 /\ e.segments[3] \subseteq SignedDigits
    /\ e.view \in PasswordViews => e.renderers = PlainDjango
    /\ e.view \notin PasswordViews =>
          /\ "password_reset" \notin e.segments[1] /\ "reset" \notin e.segments[1]
          /\ e.dispatch # <<>> => \E last : e.dispatch = <<"api", "user", last>>

LEMMA PlainGood ==
    ASSUME NEW segments, NEW slash, NEW view, NEW renderers, Len(segments) >= 1,
           view \notin NumberViews \cup {"ActivityYearDetailView", "UserDetailView"},
           view \in PasswordViews => renderers = PlainDjango,
           view \notin PasswordViews => "password_reset" \notin segments[1] /\ "reset" \notin segments[1]
    PROVE  EntryGood(Entry(segments, slash, view, renderers))
<1>1. PICK e : e = Entry(segments, slash, view, renderers)
  OBVIOUS
<1>2. e.segments = segments /\ e.view = view /\ e.renderers = renderers /\ e.dispatch = <<>>
  BY <1>1 DEF Entry
<1> QED BY <1>1, <1>2 DEF EntryGood

\* A line under /api.
LEMMA ApiFields ==
    ASSUME NEW segments, NEW slash, NEW view, NEW dispatch
    PROVE  /\ LET e == Api(segments, slash, view)
              IN  e.segments = <<{"api"}>> \o segments /\ e.view = view /\ e.dispatch = <<>>
           /\ LET e == [Api(segments, slash, view) EXCEPT !.dispatch = dispatch]
              IN  e.segments = <<{"api"}>> \o segments /\ e.view = view /\ e.dispatch = dispatch
BY DEF Api, Entry

LEMMA ApiSegments ==
    ASSUME NEW S, NEW segments \in Seq(S)
    PROVE  /\ Len(<<{"api"}>> \o segments) = Len(segments) + 1
           /\ (<<{"api"}>> \o segments)[1] = {"api"}
           /\ Len(segments) >= 2 => (<<{"api"}>> \o segments)[3] = segments[2]
           /\ Len(segments) >= 3 => (<<{"api"}>> \o segments)[4] = segments[3]
<1>1. PICK p : p = <<{"api"}>>
  OBVIOUS
<1>2. PICK T : T = S \cup {{"api"}}
  OBVIOUS
<1>3. p \in Seq(T) /\ segments \in Seq(T) /\ Len(p) = 1 /\ p[1] = {"api"}
  BY <1>1, <1>2
<1>4. PICK w : w = p \o segments
  OBVIOUS
<1>5. /\ p \o segments \in Seq(T) /\ Len(p \o segments) = Len(p) + Len(segments)
      /\ \A i \in 1..Len(p) : (p \o segments)[i] = p[i]
      /\ \A i \in 1..Len(segments) : (p \o segments)[i + Len(p)] = segments[i]
  <2>1. p \in Seq(T)
    BY <1>3
  <2>2. segments \in Seq(T)
    BY <1>3
  <2> HIDE <1>3
  <2> QED BY <2>1, <2>2, Joined
<1>n. Len(segments) \in Nat
  OBVIOUS
<1>6. w[1] = {"api"} /\ Len(w) = Len(segments) + 1
  BY <1>3, <1>5, <1>4
<1>7. Len(segments) >= 2 => w[2 + 1] = segments[2]
  BY <1>3, <1>4, <1>5, <1>n
<1>8. Len(segments) >= 3 => w[3 + 1] = segments[3]
  BY <1>3, <1>4, <1>5, <1>n
<1> QED BY <1>1, <1>4, <1>6, <1>7, <1>8

LEMMA ApiPlain ==
    ASSUME NEW S, NEW segments \in Seq(S), NEW e, NEW dispatch,
           e.segments = <<{"api"}>> \o segments, e.dispatch = dispatch,
           dispatch = <<>> \/ (\E last : dispatch = <<"api", "user", last>>),
           e.view \notin PasswordViews \cup NumberViews \cup {"ActivityYearDetailView", "UserDetailView"}
    PROVE  EntryGood(e)
<1>1. Len(e.segments) >= 1 /\ e.segments[1] = {"api"}
  BY ApiSegments
<1>2. "password_reset" \notin {"api"} /\ "reset" \notin {"api"}
  OBVIOUS
<1> QED BY <1>1, <1>2 DEF EntryGood

LEMMA ApiSecond ==
    ASSUME NEW S, NEW segments \in Seq(S), NEW e,
           e.segments = <<{"api"}>> \o segments, e.dispatch = <<>>, e.view \in NumberViews,
           Len(segments) >= 2, segments[2] = Digits
    PROVE  EntryGood(e)
<1>1. /\ Len(e.segments) >= 3 /\ e.segments[1] = {"api"} /\ e.segments[3] = Digits
  BY ApiSegments
<1>2. "password_reset" \notin {"api"} /\ "reset" \notin {"api"}
  OBVIOUS
<1>3. e.view \notin PasswordViews \cup {"ActivityYearDetailView", "UserDetailView"}
  BY DEF NumberViews, PasswordViews
<1> QED BY <1>1, <1>2, <1>3 DEF EntryGood

LEMMA ApiThird ==
    ASSUME NEW S, NEW segments \in Seq(S), NEW e,
           e.segments = <<{"api"}>> \o segments, e.dispatch = <<>>, e.view = "ActivityYearDetailView",
           Len(segments) >= 3, segments[3] = Digits
    PROVE  EntryGood(e)
<1>1. /\ Len(e.segments) >= 4 /\ e.segments[1] = {"api"} /\ e.segments[4] = Digits
  BY ApiSegments
<1>2. "password_reset" \notin {"api"} /\ "reset" \notin {"api"}
  OBVIOUS
<1>3. e.view \notin PasswordViews \cup NumberViews \cup {"UserDetailView"}
  BY DEF NumberViews, PasswordViews
<1> QED BY <1>1, <1>2, <1>3 DEF EntryGood

LEMMA ApiSent ==
    ASSUME NEW S, NEW segments \in Seq(S), NEW e,
           e.segments = <<{"api"}>> \o segments, e.dispatch = <<"api", "user", "detail">>,
           e.view = "UserDetailView", Len(segments) = 2, segments[2] = SignedDigits
    PROVE  EntryGood(e)
<1>1. /\ Len(e.segments) = 3 /\ e.segments[1] = {"api"} /\ e.segments[3] = SignedDigits
  BY ApiSegments
<1>2. "password_reset" \notin {"api"} /\ "reset" \notin {"api"}
  OBVIOUS
<1>3. e.view \notin PasswordViews \cup NumberViews \cup {"ActivityYearDetailView"}
  BY DEF NumberViews, PasswordViews
<1>4. \E last : e.dispatch = <<"api", "user", last>>
  OBVIOUS
<1> QED BY <1>1, <1>2, <1>3, <1>4 DEF EntryGood

LEMMA NoNumber ==
    ASSUME NEW a, NEW slash, NEW view,
           view \notin PasswordViews \cup NumberViews \cup {"ActivityYearDetailView", "UserDetailView"}
    PROVE  /\ EntryGood(Api(<<a>>, slash, view))
           /\ \A b : EntryGood(Api(<<a, b>>, slash, view))
           /\ \A b, c : EntryGood(Api(<<a, b, c>>, slash, view))
<1>1. ASSUME NEW S, NEW segments \in Seq(S)
      PROVE  EntryGood(Api(segments, slash, view))
  <2>1. PICK e : e = Api(segments, slash, view)
    OBVIOUS
  <2>2. e.segments = <<{"api"}>> \o segments /\ e.view = view /\ e.dispatch = <<>>
    BY <2>1, ApiFields
  <2> QED BY <2>1, <2>2, ApiPlain
<1>2. /\ <<a>> \in Seq({a}) /\ \A b : <<a, b>> \in Seq({a, b})
      /\ \A b, c : <<a, b, c>> \in Seq({a, b, c})
  OBVIOUS
<1> QED BY <1>1, <1>2

LEMMA NumberSecond ==
    ASSUME NEW a, NEW slash, NEW view \in NumberViews
    PROVE  /\ EntryGood(Api(<<a, Digits>>, slash, view))
           /\ \A b : EntryGood(Api(<<a, Digits, b>>, slash, view))
<1>1. ASSUME NEW S, NEW segments \in Seq(S), Len(segments) >= 2, segments[2] = Digits
      PROVE  EntryGood(Api(segments, slash, view))
  <2>1. PICK e : e = Api(segments, slash, view)
    OBVIOUS
  <2>2. e.segments = <<{"api"}>> \o segments /\ e.view = view /\ e.dispatch = <<>>
    BY <2>1, ApiFields
  <2> QED BY <1>1, <2>1, <2>2, ApiSecond
<1>2. <<a, Digits>> \in Seq({a, Digits}) /\ Len(<<a, Digits>>) = 2 /\ <<a, Digits>>[2] = Digits
  OBVIOUS
<1>3. \A b : /\ <<a, Digits, b>> \in Seq({a, Digits, b}) /\ Len(<<a, Digits, b>>) = 3
             /\ <<a, Digits, b>>[2] = Digits
  OBVIOUS
<1>4. EntryGood(Api(<<a, Digits>>, slash, view))
  <2>1. Len(<<a, Digits>>) >= 2
    BY <1>2
  <2> QED BY <1>1, <1>2, <2>1, Zenon
<1>5. ASSUME NEW b
      PROVE  EntryGood(Api(<<a, Digits, b>>, slash, view))
  <2>1. /\ <<a, Digits, b>> \in Seq({a, Digits, b}) /\ Len(<<a, Digits, b>>) = 3
        /\ <<a, Digits, b>>[2] = Digits
    BY <1>3
  <2>2. Len(<<a, Digits, b>>) >= 2
    BY <2>1
  <2> QED BY <1>1, <2>1, <2>2
<1> QED BY <1>4, <1>5

LEMMA Views ==
    /\ {"LoanView", "UserView", "UserAppsView", "UserActivateView", "AuthView", "ActivityYearView",
        "NotificationView", "FileView", "AdminView", "SavingAccountView", "ObtainAuthToken", "none"}
           \cap (PasswordViews \cup NumberViews \cup {"ActivityYearDetailView", "UserDetailView"}) = {}
    /\ PasswordViews \cap (NumberViews \cup {"ActivityYearDetailView", "UserDetailView"}) = {}
BY DEF NumberViews, PasswordViews

LEMMA LoanGood ==
    /\ EntryGood(Api(<<{"loan"}>>, OptionalSlash, "LoanView"))
    /\ EntryGood(Api(<<{"loan"}, Digits>>, {FALSE}, "LoanDetailView"))
    /\ EntryGood(Api(<<{"loan"}, Digits, Letters>>, {FALSE}, "LoanAppsView"))
BY Views, NoNumber, NumberSecond DEF NumberViews

LEMMA UserGood ==
    /\ EntryGood(Api(<<{"user"}>>, OptionalSlash, "UserView"))
    /\ EntryGood([Api(<<{"user"}, SignedLetters>>, {FALSE}, "UserAppsView")
                     EXCEPT !.dispatch = <<"api", "user", "apps">>])
    /\ EntryGood([Api(<<{"user"}, SignedDigits>>, {FALSE}, "UserDetailView")
                     EXCEPT !.dispatch = <<"api", "user", "detail">>])
    /\ EntryGood(Api(<<{"user"}, {"activate"}, Digits>>, {FALSE}, "UserActivateView"))
<1>1. /\ EntryGood(Api(<<{"user"}>>, OptionalSlash, "UserView"))
      /\ EntryGood(Api(<<{"user"}, {"activate"}, Digits>>, {FALSE}, "UserActivateView"))
  BY Views, NoNumber
<1>3. EntryGood([Api(<<{"user"}, SignedLetters>>, {FALSE}, "UserAppsView")
                     EXCEPT !.dispatch = <<"api", "user", "apps">>])
  <2>1. PICK segments : segments = <<{"user"}, SignedLetters>>
    OBVIOUS
  <2>2. segments \in Seq({{"user"}, SignedLetters})
    BY <2>1
  <2>3. PICK dispatch : dispatch = <<"api", "user", "apps">>
    OBVIOUS
  <2>4. "UserAppsView" \notin PasswordViews \cup NumberViews \cup {"ActivityYearDetailView", "UserDetailView"}
    BY Views
  <2>5. PICK e : e = [Api(segments, {FALSE}, "UserAppsView") EXCEPT !.dispatch = dispatch]
    OBVIOUS
  <2>6. e.segments = <<{"api"}>> \o segments /\ e.view = "UserAppsView" /\ e.dispatch = dispatch
    BY <2>5, ApiFields
  <2>7. EntryGood(e)
    BY <2>2, <2>3, <2>4, <2>6, ApiPlain
  <2> QED BY <2>1, <2>3, <2>5, <2>7
<1>4. EntryGood([Api(<<{"user"}, SignedDigits>>, {FALSE}, "UserDetailView")
                     EXCEPT !.dispatch = <<"api", "user", "detail">>])
  <2>1. PICK segments : segments = <<{"user"}, SignedDigits>>
    OBVIOUS
  <2>2. segments \in Seq({{"user"}, SignedDigits}) /\ Len(segments) = 2 /\ segments[2] = SignedDigits
    BY <2>1
  <2>3. PICK dispatch : dispatch = <<"api", "user", "detail">>
    OBVIOUS
  <2>5. PICK e : e = [Api(segments, {FALSE}, "UserDetailView") EXCEPT !.dispatch = dispatch]
    OBVIOUS
  <2>6. e.segments = <<{"api"}>> \o segments /\ e.view = "UserDetailView" /\ e.dispatch = dispatch
    BY <2>5, ApiFields
  <2>7. EntryGood(e)
    BY <2>2, <2>3, <2>6, ApiSent
  <2> QED BY <2>1, <2>3, <2>5, <2>7
<1> QED BY <1>1, <1>3, <1>4

LEMMA OtherGood ==
    /\ EntryGood(Api(<<{"authorize"}>>, OptionalSlash, "AuthView"))
    /\ EntryGood(Api(<<{"activity"}, Digits>>, OptionalSlash, "ActivityDetailView"))
    /\ EntryGood(Api(<<{"activity"}, {"year"}>>, OptionalSlash, "ActivityYearView"))
    /\ EntryGood(Api(<<{"activity"}, {"year"}, Digits>>, {FALSE}, "ActivityYearDetailView"))
    /\ EntryGood(Api(<<{"notification"}, Letters>>, OptionalSlash, "NotificationView"))
    /\ EntryGood(Api(<<{"file"}>>, OptionalSlash, "FileView"))
    /\ EntryGood(Api(<<{"file"}, Digits>>, {FALSE}, "FileDetailView"))
    /\ EntryGood(Api(<<{"admin"}>>, OptionalSlash, "AdminView"))
    /\ EntryGood(Api(<<{"saving-account"}>>, OptionalSlash, "SavingAccountView"))
<1>1. /\ EntryGood(Api(<<{"authorize"}>>, OptionalSlash, "AuthView"))
      /\ EntryGood(Api(<<{"file"}>>, OptionalSlash, "FileView"))
      /\ EntryGood(Api(<<{"admin"}>>, OptionalSlash, "AdminView"))
      /\ EntryGood(Api(<<{"saving-account"}>>, OptionalSlash, "SavingAccountView"))
      /\ EntryGood(Api(<<{"activity"}, {"year"}>>, OptionalSlash, "ActivityYearView"))
      /\ EntryGood(Api(<<{"notification"}, Letters>>, OptionalSlash, "NotificationView"))
  BY Views, NoNumber
<1>2. /\ EntryGood(Api(<<{"activity"}, Digits>>, OptionalSlash, "ActivityDetailView"))
      /\ EntryGood(Api(<<{"file"}, Digits>>, {FALSE}, "FileDetailView"))
  BY NumberSecond DEF NumberViews
<1>3. EntryGood(Api(<<{"activity"}, {"year"}, Digits>>, {FALSE}, "ActivityYearDetailView"))
  <2>1. PICK segments : segments = <<{"activity"}, {"year"}, Digits>>
    OBVIOUS
  <2>2. /\ segments \in Seq({{"activity"}, {"year"}, Digits})
        /\ Len(segments) = 3 /\ segments[3] = Digits
    BY <2>1
  <2>3. PICK e : e = Api(segments, {FALSE}, "ActivityYearDetailView")
    OBVIOUS
  <2>4. /\ e.segments = <<{"api"}>> \o segments /\ e.view = "ActivityYearDetailView"
        /\ e.dispatch = <<>>
    BY <2>3, ApiFields
  <2>5. PICK S : segments \in Seq(S) /\ Len(segments) >= 3
    BY <2>2
  <2>6. EntryGood(e)
    BY <2>2, <2>4, <2>5, ApiThird
  <2> QED BY <2>1, <2>3, <2>6
<1> QED BY <1>1, <1>2, <1>3

LEMMA PagesGood ==
    /\ EntryGood(Entry(<<{"password_reset"}>>, {TRUE}, "PasswordResetView", PlainDjango))
    /\ EntryGood(Entry(<<{"password_reset"}, {"done"}>>, {TRUE}, "PasswordResetDoneView", PlainDjango))
    /\ EntryGood(Entry(<<{"reset"}, Uids, ResetTokens>>, {TRUE}, "PasswordResetConfirmView", PlainDjango))
    /\ EntryGood(Entry(<<{"reset"}, {"done"}>>, {TRUE}, "PasswordResetCompleteView", PlainDjango))
    /\ EntryGood(Entry(<<{"api-token-auth"}>>, OptionalSlash, "ObtainAuthToken", JSON_ONLY))
    /\ EntryGood(Entry(<<{"health"}>>, OptionalSlash, "none", PlainDjango))
<1>1. /\ \A a : Len(<<a>>) = 1 /\ <<a>>[1] = a
      /\ \A a, b : Len(<<a, b>>) = 2
      /\ \A a, b, c : Len(<<a, b, c>>) = 3
  OBVIOUS
<1>2. /\ "password_reset" \notin {"api-token-auth"} /\ "reset" \notin {"api-token-auth"}
      /\ "password_reset" \notin {"health"} /\ "reset" \notin {"health"}
  OBVIOUS
<1>3. {"PasswordResetView", "PasswordResetDoneView", "PasswordResetConfirmView",
       "PasswordResetCompleteView"} \subseteq PasswordViews
  BY DEF PasswordViews
<1>4. /\ EntryGood(Entry(<<{"password_reset"}>>, {TRUE}, "PasswordResetView", PlainDjango))
      /\ EntryGood(Entry(<<{"password_reset"}, {"done"}>>, {TRUE}, "PasswordResetDoneView", PlainDjango))
  BY <1>1, <1>3, Views, PlainGood
<1>5. /\ EntryGood(Entry(<<{"reset"}, Uids, ResetTokens>>, {TRUE}, "PasswordResetConfirmView", PlainDjango))
      /\ EntryGood(Entry(<<{"reset"}, {"done"}>>, {TRUE}, "PasswordResetCompleteView", PlainDjango))
  BY <1>1, <1>3, Views, PlainGood
<1>6. /\ EntryGood(Entry(<<{"api-token-auth"}>>, OptionalSlash, "ObtainAuthToken", JSON_ONLY))
      /\ EntryGood(Entry(<<{"health"}>>, OptionalSlash, "none", PlainDjango))
  BY <1>1, <1>2, Views, PlainGood
<1> QED BY <1>4, <1>5, <1>6

\* The first of some places.
LEMMA FirstIs ==
    ASSUME NEW S \in SUBSET Nat, S # {}
    PROVE  First(S) \in S
<1>1. \E z \in S : \A y \in S : ~(<<y, z>> \in OpToRel(<, Nat))
  BY WFMin, NatLessThanWellFounded
<1>2. PICK z \in S : \A y \in S : ~(<<y, z>> \in OpToRel(<, Nat))
  BY <1>1
<1>3. \A y \in S : y < z => <<y, z>> \in OpToRel(<, Nat)
  BY DEF OpToRel
<1>4. ASSUME NEW y \in S
      PROVE  z <= y
  <2>1. ~(y < z)
    BY <1>2, <1>3, Zenon
  <2>2. z \in Nat /\ y \in Nat
    OBVIOUS
  <2> QED BY <2>1, <2>2
<1> QED BY <1>4 DEF First

LEMMA Widened ==
    ASSUME NEW S, NEW T, S \subseteq T, NEW s \in Seq(S)
    PROVE  s \in Seq(T)
OBVIOUS

LEMMA LinesOf ==
    ASSUME NEW a, NEW b, NEW c, NEW d, NEW e, NEW f, NEW g, NEW h, NEW i
    PROVE  /\ <<a, b, c>> \in Seq({a, b, c})
           /\ <<a, b, c, d>> \in Seq({a, b, c, d})
           /\ <<a, b, c, d, e, f>> \in Seq({a, b, c, d, e, f})
           /\ <<a, b, c, d, e, f, g, h, i>> \in Seq({a, b, c, d, e, f, g, h, i})
OBVIOUS

LEMMA AllGood ==
    ASSUME NEW a, NEW b, NEW c, NEW d, NEW A, NEW B, NEW C, NEW D,
           a \in Seq(A), b \in Seq(B), c \in Seq(C), d \in Seq(D)
    PROVE  a \o b \o c \o d \in Seq(A \cup B \cup C \cup D)
<1>1. PICK T : T = A \cup B \cup C \cup D
  OBVIOUS
<1>2. a \in Seq(T)
  BY <1>1, Widened
<1>3. b \in Seq(T)
  BY <1>1, Widened
<1>4. c \in Seq(T)
  BY <1>1, Widened
<1>5. d \in Seq(T)
  BY <1>1, Widened
<1>6. a \o b \in Seq(T)
  BY <1>2, <1>3, Joined
<1>7. a \o b \o c \in Seq(T)
  BY <1>4, <1>6, Joined
<1>8. a \o b \o c \o d \in Seq(T)
  BY <1>5, <1>7, Joined
<1> QED BY <1>1, <1>8

LEMMA ConfGood ==
    \E S : DJANGO_URL_CONF \in Seq(S) /\ \A e \in S : EntryGood(e)
<1>1. PICK A :
    A = {Entry(<<{"password_reset"}>>, {TRUE}, "PasswordResetView", PlainDjango),
         Entry(<<{"password_reset"}, {"done"}>>, {TRUE}, "PasswordResetDoneView", PlainDjango),
         Entry(<<{"reset"}, Uids, ResetTokens>>, {TRUE}, "PasswordResetConfirmView", PlainDjango),
         Entry(<<{"reset"}, {"done"}>>, {TRUE}, "PasswordResetCompleteView", PlainDjango),
         Entry(<<{"api-token-auth"}>>, OptionalSlash, "ObtainAuthToken", JSON_ONLY),
         Api(<<{"authorize"}>>, OptionalSlash, "AuthView")}
  OBVIOUS
<1>2. PICK B :
    B = {Api(<<{"loan"}>>, OptionalSlash, "LoanView"),
         Api(<<{"loan"}, Digits>>, {FALSE}, "LoanDetailView"),
         Api(<<{"loan"}, Digits, Letters>>, {FALSE}, "LoanAppsView")}
  OBVIOUS
<1>3. PICK C :
    C = {Api(<<{"user"}>>, OptionalSlash, "UserView"),
         [Api(<<{"user"}, SignedLetters>>, {FALSE}, "UserAppsView")
             EXCEPT !.dispatch = <<"api", "user", "apps">>],
         [Api(<<{"user"}, SignedDigits>>, {FALSE}, "UserDetailView")
             EXCEPT !.dispatch = <<"api", "user", "detail">>],
         Api(<<{"user"}, {"activate"}, Digits>>, {FALSE}, "UserActivateView")}
  OBVIOUS
<1>4. PICK D :
    D = {Api(<<{"activity"}, Digits>>, OptionalSlash, "ActivityDetailView"),
         Api(<<{"activity"}, {"year"}>>, OptionalSlash, "ActivityYearView"),
         Api(<<{"activity"}, {"year"}, Digits>>, {FALSE}, "ActivityYearDetailView"),
         Api(<<{"notification"}, Letters>>, OptionalSlash, "NotificationView"),
         Api(<<{"file"}>>, OptionalSlash, "FileView"),
         Api(<<{"file"}, Digits>>, {FALSE}, "FileDetailView"),
         Api(<<{"admin"}>>, OptionalSlash, "AdminView"),
         Api(<<{"saving-account"}>>, OptionalSlash, "SavingAccountView"),
         Entry(<<{"health"}>>, OptionalSlash, "none", PlainDjango)}
  OBVIOUS
<1>5. PICK a \in Seq(A) :
    a = <<Entry(<<{"password_reset"}>>, {TRUE}, "PasswordResetView", PlainDjango),
      Entry(<<{"password_reset"}, {"done"}>>, {TRUE}, "PasswordResetDoneView", PlainDjango),
      Entry(<<{"reset"}, Uids, ResetTokens>>, {TRUE}, "PasswordResetConfirmView", PlainDjango),
      Entry(<<{"reset"}, {"done"}>>, {TRUE}, "PasswordResetCompleteView", PlainDjango),
      Entry(<<{"api-token-auth"}>>, OptionalSlash, "ObtainAuthToken", JSON_ONLY),
      Api(<<{"authorize"}>>, OptionalSlash, "AuthView")>>
  BY <1>1, LinesOf
<1>6. PICK b \in Seq(B) : b = LoanPatterns
  BY <1>2, LinesOf DEF LoanPatterns
<1>7. PICK c \in Seq(C) : c = UserPatterns
  BY <1>3, LinesOf DEF UserPatterns
<1>8. PICK d \in Seq(D) :
    d = <<Api(<<{"activity"}, Digits>>, OptionalSlash, "ActivityDetailView"),
      Api(<<{"activity"}, {"year"}>>, OptionalSlash, "ActivityYearView"),
      Api(<<{"activity"}, {"year"}, Digits>>, {FALSE}, "ActivityYearDetailView"),
      Api(<<{"notification"}, Letters>>, OptionalSlash, "NotificationView"),
      Api(<<{"file"}>>, OptionalSlash, "FileView"),
      Api(<<{"file"}, Digits>>, {FALSE}, "FileDetailView"),
      Api(<<{"admin"}>>, OptionalSlash, "AdminView"),
      Api(<<{"saving-account"}>>, OptionalSlash, "SavingAccountView"),
      Entry(<<{"health"}>>, OptionalSlash, "none", PlainDjango)>>
  BY <1>4, LinesOf
<1>9. \A e \in A \cup B \cup C \cup D : EntryGood(e)
  <2>1. \A e \in A : EntryGood(e)
    BY <1>1, PagesGood, OtherGood
  <2>2. \A e \in B : EntryGood(e)
    BY <1>2, LoanGood
  <2>3. \A e \in C : EntryGood(e)
    BY <1>3, UserGood
  <2>4. \A e \in D : EntryGood(e)
    BY <1>4, OtherGood, PagesGood
  <2> QED BY <2>1, <2>2, <2>3, <2>4
<1>10. DJANGO_URL_CONF = a \o b \o c \o d
  BY <1>5, <1>6, <1>7, <1>8 DEF DJANGO_URL_CONF
<1>11. a \o b \o c \o d \in Seq(A \cup B \cup C \cup D)
  BY AllGood
<1> QED BY <1>9, <1>10, <1>11

\* A path that is resolved matches the line it is resolved to.
LEMMA Resolved ==
    ASSUME NEW path
    PROVE  \/ resolveDjangoUrl(path) = NoRoute
           \/ EntryGood(resolveDjangoUrl(path)) /\ Fits(resolveDjangoUrl(path), path)
<1>1. PICK s, T : s \in Seq(T) /\ s = DJANGO_URL_CONF /\ \A e \in T : EntryGood(e)
  BY ConfGood
<1>2. PICK hits : hits = {i \in DOMAIN s : Fits(s[i], path)}
  OBVIOUS
<1>3. resolveDjangoUrl(path) = IF hits = {} THEN NoRoute ELSE s[First(hits)]
  BY <1>1, <1>2 DEF resolveDjangoUrl
<1>4. CASE hits = {}
  BY <1>3, <1>4
<1>5. CASE hits # {}
  <2>1. hits \in SUBSET Nat
    BY <1>1, <1>2
  <2>2. PICK i \in hits : i = First(hits)
    BY <1>5, <2>1, FirstIs
  <2>3. Fits(s[i], path) /\ s[i] \in T
    BY <1>1, <1>2, <2>2
  <2> QED BY <1>1, <1>3, <1>5, <2>2, <2>3
<1> QED BY <1>4, <1>5

-----------------------------------------------------------------------------
(* The controllers *)

\* What every controller keeps to.
ControllerGood(c) ==
    /\ c.guard \in {"roles", "public", "django"}
    /\ c.guard # "roles" => c.view = "none"
    /\ c.guard = "django" => 1 \in DOMAIN c.segments /\ c.segments[1] \in {"password_reset", "reset"}

LEMMA GuardsGood ==
    ASSUME NEW segments, NEW view, NEW verbs, NEW noData
    PROVE  /\ ControllerGood(Controller(segments, view, verbs, noData))
           /\ ControllerGood(Public(segments, "none", verbs))
           /\ ControllerGood([Public(segments, "none", verbs) EXCEPT !.all = FALSE])
BY DEF ControllerGood, Controller, Public

LEMMA PagesGuarded ==
    ASSUME NEW segments, 1 \in DOMAIN segments, segments[1] \in {"password_reset", "reset"}
    PROVE  ControllerGood(Page(segments))
<1>1. PICK c : c = Page(segments)
  OBVIOUS
<1>2. c.guard = "django" /\ c.view = "none" /\ c.segments = segments
  BY <1>1 DEF Page, Controller
<1> QED BY <1>1, <1>2 DEF ControllerGood

LEMMA PagesServed ==
    /\ ControllerGood(Page(<<"password_reset">>))
    /\ ControllerGood(Page(<<"password_reset", "done">>))
    /\ ControllerGood(Page(<<"reset", "done">>))
    /\ ControllerGood(Page(<<"reset", ":", ":">>))
<1>1. \A a \in {"password_reset", "reset"} : ControllerGood(Page(<<a>>))
  <2>1. \A a : 1 \in DOMAIN <<a>> /\ <<a>>[1] = a
    OBVIOUS
  <2> QED BY <2>1, PagesGuarded
<1>2. \A a \in {"password_reset", "reset"} : \A b : ControllerGood(Page(<<a, b>>))
  <2>1. \A a, b : 1 \in DOMAIN <<a, b>> /\ <<a, b>>[1] = a
    OBVIOUS
  <2> QED BY <2>1, PagesGuarded
<1>3. \A a \in {"password_reset", "reset"} : \A b, c : ControllerGood(Page(<<a, b, c>>))
  <2>1. \A a, b, c : 1 \in DOMAIN <<a, b, c>> /\ <<a, b, c>>[1] = a
    OBVIOUS
  <2> QED BY <2>1, PagesGuarded
<1> QED BY <1>1, <1>2, <1>3

LEMMA TheseGood ==
    ASSUME NEW a, NEW b, NEW c, NEW d, NEW e, NEW f, NEW g, NEW h, NEW i, NEW j,
           ControllerGood(a), ControllerGood(b), ControllerGood(c), ControllerGood(d), ControllerGood(e),
           ControllerGood(f), ControllerGood(g), ControllerGood(h), ControllerGood(i), ControllerGood(j)
    PROVE  /\ \E S : <<a, b>> \in Seq(S) /\ \A z \in S : ControllerGood(z)
           /\ \E S : /\ <<a, b, c, d, e, f, g, h, i>> \in Seq(S)
                     /\ \A z \in S : ControllerGood(z)
           /\ \E S : /\ <<a, b, c, d, e, f, g, h, i, j>> \in Seq(S)
                     /\ \A z \in S : ControllerGood(z)
<1>1. \E S : /\ <<a, b>> \in Seq(S)
             /\ \A z \in S : ControllerGood(z)
  <2>1. PICK S : S = {a, b}
    OBVIOUS
  <2>2. <<a, b>> \in Seq(S)
    BY <2>1
  <2>3. \A z \in S : ControllerGood(z)
    BY <2>1
  <2> QED BY <2>2, <2>3
<1>2. \E S : /\ <<a, b, c, d, e, f, g, h, i>> \in Seq(S)
             /\ \A z \in S : ControllerGood(z)
  <2>1. PICK S : S = {a, b, c, d, e, f, g, h, i}
    OBVIOUS
  <2>2. <<a, b, c, d, e, f, g, h, i>> \in Seq(S)
    BY <2>1
  <2>3. \A z \in S : ControllerGood(z)
    BY <2>1
  <2> QED BY <2>2, <2>3
<1>3. \E S : /\ <<a, b, c, d, e, f, g, h, i, j>> \in Seq(S)
             /\ \A z \in S : ControllerGood(z)
  <2>1. PICK S : S = {a, b, c, d, e, f, g, h, i, j}
    OBVIOUS
  <2>2. <<a, b, c, d, e, f, g, h, i, j>> \in Seq(S)
    BY <2>1
  <2>3. \A z \in S : ControllerGood(z)
    BY <2>1
  <2> QED BY <2>2, <2>3
<1> QED BY <1>1, <1>2, <1>3

\* The controllers of one kind.
LEMMA RolesGood ==
    /\ ControllerGood(ActivityYears) /\ ControllerGood(ActivityDetail)
    /\ ControllerGood(Controller(<<"api", "notification", ":">>, "NotificationView", {"POST"}, {}))
    /\ ControllerGood(Controller(<<"api", "user">>, "UserView", {"POST", "GET", "PATCH"}, {}))
    /\ ControllerGood(Controller(<<"api", "user", "apps", ":">>, "UserAppsView", {"POST"}, {"POST"}))
    /\ ControllerGood(Controller(<<"api", "user", "detail", ":">>, "UserDetailView", {"GET", "PATCH", "DELETE"}, {}))
    /\ ControllerGood(Controller(<<"api", "loan">>, "LoanView", {"GET", "POST", "PATCH"}, {}))
    /\ ControllerGood(Controller(<<"api", "loan", ":">>, "LoanDetailView", {"GET", "PATCH"}, {}))
    /\ ControllerGood(Controller(<<"api", "loan", ":", ":">>, "LoanAppsView", {"POST"}, {}))
    /\ ControllerGood(Controller(<<"api", "activity", "year", ":">>, "ActivityYearDetailView", {"GET", "POST"}, {}))
    /\ ControllerGood(Controller(<<"api", "saving-account">>, "SavingAccountView", {"GET", "POST", "PUT"}, {}))
    /\ ControllerGood(Controller(<<"api", "file">>, "FileView", {"GET", "POST"}, {"POST"}))
    /\ ControllerGood(Controller(<<"api", "file", ":">>, "FileDetailView", {"GET"}, {}))
    /\ ControllerGood(Controller(<<"api", "admin">>, "AdminView", {"GET"}, {}))
BY GuardsGood DEF ActivityYears, ActivityDetail

LEMMA PublicGood ==
    /\ ControllerGood(Public(<<"api-token-auth">>, "none", {"POST"}))
    /\ ControllerGood(Public(<<"api", "user", "activate", ":">>, "none", {"POST"}))
    /\ ControllerGood([Public(<<"health">>, "none", {"GET"}) EXCEPT !.all = FALSE])
BY GuardsGood

LEMMA ControllersGood ==
    \E S : Controllers \in Seq(S) /\ \A c \in S : ControllerGood(c)
<1>1. PICK a, A : /\ a \in Seq(A) /\ \A z \in A : ControllerGood(z)
                  /\ a = <<Public(<<"api-token-auth">>, "none", {"POST"}),
                           Controller(<<"api", "notification", ":">>, "NotificationView", {"POST"}, {}),
                           Controller(<<"api", "user">>, "UserView", {"POST", "GET", "PATCH"}, {}),
                           Controller(<<"api", "user", "apps", ":">>, "UserAppsView", {"POST"}, {"POST"}),
                           Controller(<<"api", "user", "detail", ":">>, "UserDetailView", {"GET", "PATCH", "DELETE"}, {}),
                           Public(<<"api", "user", "activate", ":">>, "none", {"POST"}),
                           Controller(<<"api", "loan">>, "LoanView", {"GET", "POST", "PATCH"}, {}),
                           Controller(<<"api", "loan", ":">>, "LoanDetailView", {"GET", "PATCH"}, {}),
                           Controller(<<"api", "loan", ":", ":">>, "LoanAppsView", {"POST"}, {})>>
  BY TheseGood, RolesGood, PublicGood
<1>2. PICK b, B : /\ b \in Seq(B) /\ \A z \in B : ControllerGood(z)
                  /\ b = ActivityControllers
  BY TheseGood, RolesGood DEF ActivityControllers
<1>3. PICK c, C : /\ c \in Seq(C) /\ \A z \in C : ControllerGood(z)
                  /\ c = <<Controller(<<"api", "activity", "year", ":">>, "ActivityYearDetailView", {"GET", "POST"}, {}),
                           Controller(<<"api", "saving-account">>, "SavingAccountView", {"GET", "POST", "PUT"}, {}),
                           Controller(<<"api", "file">>, "FileView", {"GET", "POST"}, {"POST"}),
                           Controller(<<"api", "file", ":">>, "FileDetailView", {"GET"}, {}),
                           Controller(<<"api", "admin">>, "AdminView", {"GET"}, {}),
                           Page(<<"password_reset">>), Page(<<"password_reset", "done">>),
                           Page(<<"reset", "done">>), Page(<<"reset", ":", ":">>),
                           [Public(<<"health">>, "none", {"GET"}) EXCEPT !.all = FALSE]>>
  BY TheseGood, RolesGood, PublicGood, PagesServed
<1>4. PICK T : T = A \cup B \cup C
  OBVIOUS
<1>5. a \in Seq(T)
  BY <1>1, <1>4, Widened
<1>6. b \in Seq(T)
  BY <1>2, <1>4, Widened
<1>7. c \in Seq(T)
  BY <1>3, <1>4, Widened
<1>8. a \o b \in Seq(T)
  BY <1>5, <1>6, Joined
<1>9. a \o b \o c \in Seq(T)
  BY <1>7, <1>8, Joined
<1>10. \A z \in T : ControllerGood(z)
  BY <1>1, <1>2, <1>3, <1>4
<1>11. Controllers = a \o b \o c
  BY <1>1, <1>2, <1>3 DEF Controllers
<1> QED BY <1>9, <1>10, <1>11

\* What Nest routes a request to serves its path.
LEMMA Served ==
    ASSUME NEW path, NEW method
    PROVE  \/ NestRoute(path, method) = NoController
           \/ ControllerGood(NestRoute(path, method)) /\ Serves(NestRoute(path, method), path)
<1>1. PICK s, T : s \in Seq(T) /\ s = Controllers /\ \A c \in T : ControllerGood(c)
  BY ControllersGood
<1>2. PICK hits : hits = {i \in DOMAIN s : /\ Serves(s[i], path)
                                           /\ s[i].all \/ Verb(s[i], method) \in s[i].verbs}
  OBVIOUS
<1>3. NestRoute(path, method) = IF hits = {} THEN NoController ELSE s[First(hits)]
  BY <1>1, <1>2 DEF NestRoute
<1>4. CASE hits = {}
  BY <1>3, <1>4
<1>5. CASE hits # {}
  <2>1. hits \in SUBSET Nat
    BY <1>1, <1>2
  <2>2. PICK i \in hits : i = First(hits)
    BY <1>5, <2>1, FirstIs
  <2>3. Serves(s[i], path) /\ s[i] \in T
    BY <1>1, <1>2, <2>2
  <2> QED BY <1>1, <1>3, <1>5, <2>2, <2>3
<1> QED BY <1>4, <1>5

-----------------------------------------------------------------------------
(* The hooks, in the order in which they run *)

\* What a row without repetitions shows, up to its k-th place, is k things.
LEMMA ImageSize ==
    ASSUME NEW k \in Nat, NEW f, NEW T, f \in Bijection(1..k, T)
    PROVE  Cardinality(T) = k
<1>1. IsFiniteSet(1..k) /\ Cardinality(1..k) = k
  BY FS_Interval
<1>2. ExistsBijection(1..k, T)
  BY DEF ExistsBijection
<1> QED BY <1>1, <1>2, FS_Bijection

LEMMA Sides ==
    ASSUME NEW u \in Nat, NEW v \in Nat, NEW z \in Nat, NEW y \in Nat
    PROVE  /\ v > u \/ (v = u /\ y < z) => ~(u > v \/ (u = v /\ z < y))
           /\ u = v /\ z = y => ~(u > v \/ (u = v /\ z < y))
OBVIOUS

\* p is an order of the n hooks of r, all of which run, in which they are sorted.
SortedBy(p, n, r) ==
    /\ Len(r.hooks) = n /\ DOMAIN r.hooks = 1..n
    /\ \A i \in 1..n : r.hooks[i][1] \in Nat /\ r.hooks[i][1] <= r.floor
    /\ p \in [1..n -> 1..n]
    /\ \A a, b \in 1..n : p[a] = p[b] => a = b
    /\ \A i \in 1..n : \E a \in 1..n : p[a] = i
    /\ \A a, b \in 1..n : a < b => \/ r.hooks[p[a]][1] > r.hooks[p[b]][1]
                                   \/ r.hooks[p[a]][1] = r.hooks[p[b]][1] /\ p[a] < p[b]

\* Sorted hooks run in that order.
LEMMA OrderIs ==
    ASSUME NEW r, NEW n \in Nat, NEW p, SortedBy(p, n, r)
    PROVE  LET s == orderedHooks(r)
           IN  Len(s) = n /\ \A k \in 1..n : s[k] = r.hooks[p[k]]
<1> USE DEF SortedBy
<1> DEFINE kept == {i \in DOMAIN r.hooks : r.hooks[i][1] <= r.floor}
           Before(i, j) == r.hooks[i][1] > r.hooks[j][1] \/ (r.hooks[i][1] = r.hooks[j][1] /\ i < j)
           Rank(i) == Cardinality({j \in kept : Before(j, i)})
<1>1. kept = 1..n
  OBVIOUS
<1>2. Cardinality(kept) = n
  <2>1. Cardinality(1..n) = IF 1 > n THEN 0 ELSE n - 1 + 1
    BY FS_Interval
  <2> HIDE DEF kept
  <2> QED BY <1>1, <2>1
<1>3. \A a, b \in 1..n : Before(p[a], p[b]) <=> a < b
  <2> TAKE a, b \in 1..n
  <2>1. PICK z \in 1..n, y \in 1..n : z = p[a] /\ y = p[b]
    OBVIOUS
  <2>2. PICK u \in Nat, v \in Nat : u = r.hooks[z][1] /\ v = r.hooks[y][1]
    BY <2>1
  <2>3. Before(p[a], p[b]) <=> (u > v \/ (u = v /\ z < y))
    BY <2>1, <2>2, Zenon
  <2>4. a < b => u > v \/ (u = v /\ z < y)
    BY <2>1, <2>2
  <2>5. b < a => v > u \/ (v = u /\ y < z)
    BY <2>1, <2>2
  <2>6. a = b => u = v /\ z = y
    BY <2>1, <2>2
  <2>7. a < b \/ b < a \/ a = b
    OBVIOUS
  <2>8. (u > v \/ (u = v /\ z < y)) <=> a < b
    BY <2>4, <2>5, <2>6, <2>7, Sides
  <2> QED BY <2>3, <2>8, Zenon
<1>4. \A k \in 1..n : {j \in kept : Before(j, p[k])} = {p[a] : a \in 1..(k - 1)}
  <2> TAKE k \in 1..n
  <2>1. ASSUME NEW j \in kept, Before(j, p[k])
        PROVE  j \in {p[a] : a \in 1..(k - 1)}
    <3>1. PICK a \in 1..n : p[a] = j
      BY <1>1
    <3>2. a < k
      BY <1>3, <2>1, <3>1
    <3>3. a \in 1..(k - 1)
      BY <3>2
    <3> QED BY <3>1, <3>3
  <2>2. ASSUME NEW a \in 1..(k - 1)
        PROVE  p[a] \in kept /\ Before(p[a], p[k])
    <3>1. a \in 1..n /\ a < k
      OBVIOUS
    <3> QED BY <1>1, <1>3, <3>1
  <2> HIDE DEF kept, Before
  <2> QED BY <2>1, <2>2
<1>5. ASSUME NEW k \in 1..n
      PROVE  Rank(p[k]) = k - 1
  <2> HIDE DEF kept, Before, Rank
  <2>0. PICK T : T = {p[a] : a \in 1..(k - 1)}
    OBVIOUS
  <2>1. Cardinality(T) = k - 1
    <3>1. PICK m \in Nat : m = k - 1 /\ \A a \in 1..m : a \in 1..n
      OBVIOUS
    <3>2. PICK f : f = [a \in 1..m |-> p[a]]
      OBVIOUS
    <3>3. f \in [1..m -> T] /\ \A a \in 1..m : f[a] = p[a]
      BY <2>0, <3>1, <3>2
    <3>4. ASSUME NEW a \in 1..m, NEW b \in 1..m, f[a] = f[b]
          PROVE  a = b
      <4>1. a \in 1..n /\ b \in 1..n
        BY <3>1
      <4>2. p[a] = p[b]
        BY <3>3, <3>4
      <4> QED BY <4>1, <4>2
    <3>5. \A t \in T : \E a \in 1..m : f[a] = t
      BY <2>0, <3>1, <3>3
    <3>6. f \in Bijection(1..m, T)
      BY <3>3, <3>4, <3>5 DEF Bijection, Injection, Surjection, IsInjective
    <3> QED BY <3>1, <3>6, ImageSize
  <2>2. {j \in kept : Before(j, p[k])} = {p[a] : a \in 1..(k - 1)}
    BY <1>4
  <2> QED BY <2>0, <2>1, <2>2 DEF Rank
<1>6. ASSUME NEW k \in 1..n
      PROVE  (CHOOSE i \in kept : Rank(i) = k - 1) = p[k]
  <2> HIDE DEF kept, Rank
  <2>1. p[k] \in kept /\ Rank(p[k]) = k - 1
    BY <1>1, <1>5
  <2>2. ASSUME NEW i \in kept, Rank(i) = k - 1
        PROVE  i = p[k]
    <3>1. PICK a \in 1..n : p[a] = i
      BY <1>1
    <3>2. Rank(i) = a - 1
      BY <1>5, <3>1
    <3>3. a = k
      BY <2>2, <3>2
    <3> QED BY <3>1, <3>3
  <2> QED BY <2>1, <2>2
<1>7. orderedHooks(r) = [k \in 1..Cardinality(kept) |-> r.hooks[CHOOSE i \in kept : Rank(i) = k - 1]]
  BY Zenon DEF orderedHooks
<1> HIDE DEF kept, Rank
<1> DEFINE Place(k) == CHOOSE i \in kept : Rank(i) = k - 1
<1>8. orderedHooks(r) = [k \in 1..n |-> r.hooks[Place(k)]]
  BY <1>2, <1>7, Zenon
<1>9. \A k \in 1..n : Place(k) = p[k]
  BY <1>6
<1> HIDE DEF Place
<1>10. \A k \in 1..n : r.hooks[Place(k)] = r.hooks[p[k]]
  BY <1>9
<1>11. [k \in 1..n |-> r.hooks[Place(k)]] = [k \in 1..n |-> r.hooks[p[k]]]
  BY <1>10
<1>12. orderedHooks(r) = [k \in 1..n |-> r.hooks[p[k]]]
  BY <1>8, <1>11, Zenon
<1> QED BY <1>12

\* What up to five hooks make of a response, one by one.
RunsTo(s, n, r0, r1, r2, r3, r4, r5) ==
    /\ Len(s) = n
    /\ n >= 1 => r1 = Run(s[1][2], r0)
    /\ n >= 2 => r2 = Run(s[2][2], r1)
    /\ n >= 3 => r3 = Run(s[3][2], r2)
    /\ n >= 4 => r4 = Run(s[4][2], r3)
    /\ n >= 5 => r5 = Run(s[5][2], r4)

LEMMA RanIs ==
    ASSUME NEW s, NEW n \in 0..5, NEW r0, NEW r1, NEW r2, NEW r3, NEW r4, NEW r5,
           RunsTo(s, n, r0, r1, r2, r3, r4, r5)
    PROVE  /\ n = 0 => Ran(s, r0) = r0
           /\ n = 1 => Ran(s, r0) = r1
           /\ n = 2 => Ran(s, r0) = r2
           /\ n = 3 => Ran(s, r0) = r3
           /\ n = 4 => Ran(s, r0) = r4
           /\ n = 5 => Ran(s, r0) = r5
<1> USE DEF RunsTo
<1> DEFINE Step(f, m) == IF m = 0 THEN r0 ELSE Run(s[m][2], f[m - 1])
           Is(f) == f = [m \in 0..n |-> Step(f, m)]
<1>1. PICK f : f = [m \in 0..n |-> CASE m = 0 -> r0 [] m = 1 -> r1 [] m = 2 -> r2
                                     [] m = 3 -> r3 [] m = 4 -> r4 [] m = 5 -> r5]
  OBVIOUS
<1>2. \A m \in 0..n : f[m] = Step(f, m)
  <2>1. f[0] = r0 /\ (n >= 1 => f[1] = r1) /\ (n >= 2 => f[2] = r2) /\ (n >= 3 => f[3] = r3)
    BY <1>1
  <2>2. (n >= 4 => f[4] = r4) /\ (n >= 5 => f[5] = r5)
    BY <1>1
  <2>3. ASSUME NEW m \in 0..n
        PROVE  m = 0 \/ (m = 1 /\ n >= 1) \/ (m = 2 /\ n >= 2) \/ (m = 3 /\ n >= 3)
               \/ (m = 4 /\ n >= 4) \/ (m = 5 /\ n >= 5)
    OBVIOUS
  <2> QED BY <2>1, <2>2, <2>3
<1>3. Is(f)
  BY <1>1, <1>2
<1>4. PICK g : Is(g) /\ Ran(s, r0) = g[n]
  <2>1. Ran(s, r0) = (CHOOSE g : Is(g))[n]
    BY DEF Ran
  <2>2. Is(CHOOSE g : Is(g))
    <3> HIDE DEF Is
    <3> QED BY <1>3
  <2> HIDE DEF Is
  <2> QED BY <2>1, <2>2
<1>5. \A m \in 0..n : g[m] = Step(g, m)
  BY <1>4
<1>6. g[0] = r0 /\ (n >= 1 => g[1] = r1)
  BY <1>5
<1>7. (n >= 2 => g[2] = r2)
  BY <1>5, <1>6
<1>8. (n >= 3 => g[3] = r3)
  BY <1>5, <1>7
<1>9. (n >= 4 => g[4] = r4)
  BY <1>5, <1>8
<1>10. (n >= 5 => g[5] = r5)
  BY <1>5, <1>9
<1> QED BY <1>4, <1>6, <1>7, <1>8, <1>9, <1>10

\* The response as p has its hooks run on it, up to five of them.
LEMMA HeadIs ==
    ASSUME NEW r, NEW n \in 1..5, NEW p, SortedBy(p, n, r),
           NEW r1, NEW r2, NEW r3, NEW r4, NEW r5,
           r1 = Run(r.hooks[p[1]][2], r), n >= 2 => r2 = Run(r.hooks[p[2]][2], r1),
           n >= 3 => r3 = Run(r.hooks[p[3]][2], r2), n >= 4 => r4 = Run(r.hooks[p[4]][2], r3),
           n >= 5 => r5 = Run(r.hooks[p[5]][2], r4)
    PROVE  /\ n = 2 => writeHead(r) = r2
           /\ n = 3 => writeHead(r) = r3
           /\ n = 4 => writeHead(r) = r4
           /\ n = 5 => writeHead(r) = r5
<1>0. n \in Nat /\ n \in 0..5 /\ n >= 1
  OBVIOUS
<1>2. PICK s : s = orderedHooks(r)
  OBVIOUS
<1>3. Len(s) = n /\ \A k \in 1..n : s[k] = r.hooks[p[k]]
  BY <1>0, <1>2, OrderIs
<1>4. r1 = Run(s[1][2], r)
  <2>1. 1 \in 1..n
    BY <1>0
  <2> QED BY <1>3, <2>1
<1>5. n >= 2 => r2 = Run(s[2][2], r1)
  <2>1. n >= 2 => 2 \in 1..n
    BY <1>0
  <2> QED BY <1>3, <2>1
<1>6. n >= 3 => r3 = Run(s[3][2], r2)
  <2>1. n >= 3 => 3 \in 1..n
    BY <1>0
  <2> QED BY <1>3, <2>1
<1>7. n >= 4 => r4 = Run(s[4][2], r3)
  <2>1. n >= 4 => 4 \in 1..n
    BY <1>0
  <2> QED BY <1>3, <2>1
<1>8. n >= 5 => r5 = Run(s[5][2], r4)
  <2>1. n >= 5 => 5 \in 1..n
    BY <1>0
  <2> QED BY <1>3, <2>1
<1>9. n >= 1 => r1 = Run(s[1][2], r)
  BY <1>4
<1>10. Len(s) = n
  BY <1>3
<1>11. RunsTo(s, n, r, r1, r2, r3, r4, r5)
  BY <1>5, <1>6, <1>7, <1>8, <1>9, <1>10 DEF RunsTo
<1>12. /\ n = 2 => Ran(s, r) = r2
       /\ n = 3 => Ran(s, r) = r3
       /\ n = 4 => Ran(s, r) = r4
       /\ n = 5 => Ran(s, r) = r5
  BY <1>0, <1>11, RanIs
<1>13. writeHead(r) = Ran(s, r)
  BY <1>2 DEF writeHead
<1> QED BY <1>12, <1>13

Fields == {"Accept", "Origin", "Cookie"}
Responses == [status : Nat, allow : BOOLEAN, vary : Seq(Fields), frame : BOOLEAN, express : BOOLEAN,
              drf : BOOLEAN, hooks : Seq(Nat \X {"frame", "drop", "origin", "cookie", "undo"}), floor : Nat]

\* What each hook leaves as it was, and what not.
LEMMA FrameRun ==
    ASSUME NEW r \in Responses, NEW q, q = Run("frame", r)
    PROVE  /\ q \in Responses /\ q.status = r.status /\ q.allow = r.allow /\ q.vary = r.vary
           /\ q.frame = TRUE /\ q.express = r.express /\ q.drf = r.drf
BY DEF Run, Responses

LEMMA DropRun ==
    ASSUME NEW r \in Responses, NEW q, q = Run("drop", r)
    PROVE  /\ q \in Responses /\ q.status = r.status /\ q.allow = r.allow /\ q.vary = r.vary
           /\ q.frame = r.frame /\ q.express = FALSE /\ q.drf = r.drf
BY DEF Run, Responses

LEMMA Patched ==
    ASSUME NEW r \in Responses, NEW field \in Fields, NEW q, q = patchVaryHeaders(r, field)
    PROVE  /\ q \in Responses /\ q.status = r.status /\ q.allow = r.allow
           /\ q.vary = IF Contains(r.vary, field) THEN r.vary ELSE Append(r.vary, field)
           /\ q.frame = r.frame /\ q.express = r.express /\ q.drf = r.drf
           /\ q.hooks = r.hooks /\ q.floor = r.floor
<1>1. Append(r.vary, field) \in Seq(Fields)
  BY DEF Responses
<1>2. PICK v \in Seq(Fields) : v = IF Contains(r.vary, field) THEN r.vary ELSE Append(r.vary, field)
  BY <1>1 DEF Responses
<1>3. q = [r EXCEPT !.vary = v]
  BY <1>2 DEF patchVaryHeaders
<1> QED BY <1>2, <1>3 DEF Responses

LEMMA VaryRun ==
    /\ \A r : Run("origin", r) = patchVaryHeaders(r, "Origin")
    /\ \A r : Run("cookie", r) = patchVaryHeaders(r, "Cookie")
    /\ \A r : Run("undo", r) = Undo(r)
BY DEF Run

LEMMA Undone ==
    ASSUME NEW r \in Responses, r.vary \in {<<>>, <<"Accept">>}, NEW q, q = Undo(r)
    PROVE  /\ q \in Responses /\ q.status = r.status
           /\ q.frame = r.frame /\ q.express = r.express /\ q.drf = r.drf
           /\ r.status < 500 \/ r.drf => q.allow = r.allow /\ q.vary = r.vary
           /\ ~(r.status < 500 \/ r.drf) => q.allow = FALSE /\ q.vary = <<>>
<1>1. RemoveFirst(r.vary, "Accept") = <<>>
  <2>1. CASE r.vary = <<>>
    BY <2>1 DEF RemoveFirst
  <2>2. CASE r.vary = <<"Accept">>
    <3>1. PICK I : I = {i \in 1..Len(<<"Accept">>) : <<"Accept">>[i] = "Accept"}
      OBVIOUS
    <3>2. I = {1}
      BY <3>1
    <3>3. Min(I) = 1
      BY <3>2 DEF Min
    <3>4. RemoveFirst(<<"Accept">>, "Accept") = RemoveAt(<<"Accept">>, 1)
      BY <3>1, <3>2, <3>3 DEF RemoveFirst, SelectInSeq
    <3>5. RemoveAt(<<"Accept">>, 1) = <<>>
      BY DEF RemoveAt
    <3> QED BY <2>2, <3>4, <3>5
  <2> QED BY <2>1, <2>2
<1>2. CASE r.status < 500 \/ r.drf
  BY <1>2 DEF Undo
<1>3. CASE ~(r.status < 500 \/ r.drf)
  <2>1. q = [r EXCEPT !.allow = FALSE, !.vary = <<>>]
    BY <1>1, <1>3 DEF Undo
  <2>2. FALSE \in BOOLEAN /\ <<>> \in Seq(Fields)
    OBVIOUS
  <2>3. q \in Responses
    BY <2>1, <2>2 DEF Responses
  <2>4. /\ q.status = r.status /\ q.allow = FALSE /\ q.vary = <<>>
        /\ q.frame = r.frame /\ q.express = r.express /\ q.drf = r.drf
    BY <2>1 DEF Responses
  <2> QED BY <1>3, <2>3, <2>4
<1> QED BY <1>2, <1>3

-----------------------------------------------------------------------------
(* The heads there are *)

Framed == <<<<X_FRAME_OPTIONS, "frame">>, <<TRANSPORT, "drop">>>>
Shared == <<<<X_FRAME_OPTIONS, "frame">>, <<TRANSPORT, "drop">>, <<CORS, "origin">>>>
Viewed == <<<<X_FRAME_OPTIONS, "frame">>, <<TRANSPORT, "drop">>, <<CORS, "origin">>, <<VIEW, "undo">>>>
OnView == <<<<X_FRAME_OPTIONS, "frame">>, <<TRANSPORT, "drop">>, <<CORS, "origin">>, <<VIEW, "cookie">>>>
OnSession ==
    <<<<X_FRAME_OPTIONS, "frame">>, <<TRANSPORT, "drop">>, <<CORS, "origin">>, <<SESSION, "cookie">>>>
OnBoth ==
    <<<<X_FRAME_OPTIONS, "frame">>, <<TRANSPORT, "drop">>, <<CORS, "origin">>, <<SESSION, "cookie">>,
      <<CSRF, "cookie">>>>

\* What all the heads written after the frame options are set have.
Sent(q, r) ==
    /\ q.status = r.status /\ q.drf = r.drf /\ q.frame = TRUE /\ q.express = FALSE

LEMMA NoHooks ==
    ASSUME NEW r, r.hooks = <<>>
    PROVE  writeHead(r) = r
<1>1. PICK kept : kept = {i \in DOMAIN r.hooks : r.hooks[i][1] <= r.floor}
  OBVIOUS
<1>2. kept = {} /\ Cardinality(kept) = 0
  <2>1. kept = {}
    BY <1>1
  <2> QED BY <2>1, FS_EmptySet
<1>3. PICK s : s = orderedHooks(r)
  OBVIOUS
<1>4. Len(s) = 0
  BY <1>1, <1>2, <1>3 DEF orderedHooks
<1>5. RunsTo(s, 0, r, r, r, r, r, r)
  BY <1>4 DEF RunsTo
<1>6. Ran(s, r) = r
  BY <1>5, RanIs
<1> QED BY <1>3, <1>6 DEF writeHead

LEMMA AppendOne ==
    ASSUME NEW d, NEW e
    PROVE  Append(<<>>, e) = <<e>> /\ Append(<<d>>, e) = <<d, e>>
<1>1. PICK S : S = {d, e}
  OBVIOUS
<1>2. PICK s : s = <<d>>
  OBVIOUS
<1>3. s \in Seq(S) /\ e \in S
  BY <1>1, <1>2
<1>4. PICK t : t = Append(s, e)
  OBVIOUS
<1>5. /\ t \in Seq(S) /\ Len(t) = Len(s) + 1 /\ t[Len(s) + 1] = e
      /\ \A i \in 1..Len(s) : t[i] = s[i]
  BY <1>3, <1>4
<1>6. Len(t) = 2 /\ t[1] = d /\ t[2] = e
  BY <1>2, <1>5
<1>7. DOMAIN t = 1..Len(t)
  BY <1>5
<1>8. t = <<d, e>>
  BY <1>5, <1>6, <1>7
<1>9. Append(<<>>, e) = <<e>>
  OBVIOUS
<1> QED BY <1>2, <1>4, <1>8, <1>9

\* The values of Vary there are.
LEMMA Heads ==
    /\ ~Contains(<<>>, "Origin") /\ Append(<<>>, "Origin") = <<"Origin">>
    /\ ~Contains(<<>>, "Cookie") /\ Append(<<>>, "Cookie") = <<"Cookie">>
    /\ ~Contains(<<"Accept">>, "Origin") /\ Append(<<"Accept">>, "Origin") = <<"Accept", "Origin">>
    /\ ~Contains(<<"Cookie">>, "Origin") /\ Append(<<"Cookie">>, "Origin") = <<"Cookie", "Origin">>
    /\ ~Contains(<<"Origin">>, "Cookie") /\ Append(<<"Origin">>, "Cookie") = <<"Origin", "Cookie">>
    /\ Contains(<<"Origin", "Cookie">>, "Cookie") /\ <<"Accept">> # <<>>
<1>1. \A e : ~Contains(<<>>, e)
  BY DEF Contains
<1>2. \A d, e : Contains(<<d>>, e) <=> d = e
  <2> TAKE d, e
  <2>1. Len(<<d>>) = 1 /\ <<d>>[1] = d
    OBVIOUS
  <2> QED BY <2>1 DEF Contains
<1>3. \A d, e : Contains(<<d, e>>, e)
  <2> TAKE d, e
  <2>1. Len(<<d, e>>) = 2 /\ <<d, e>>[2] = e
    OBVIOUS
  <2> QED BY <2>1 DEF Contains
<1>4. /\ \A e : Append(<<>>, e) = <<e>>
      /\ \A d, e : Append(<<d>>, e) = <<d, e>>
  BY AppendOne
<1>5. "Origin" # "Cookie" /\ "Accept" # "Origin" /\ <<"Accept">> # <<>>
  OBVIOUS
<1> QED BY <1>1, <1>2, <1>3, <1>4, <1>5

LEMMA OriginRun ==
    ASSUME NEW r \in Responses, NEW q, q = Run("origin", r)
    PROVE  /\ q \in Responses /\ q.status = r.status /\ q.allow = r.allow
           /\ q.vary = IF Contains(r.vary, "Origin") THEN r.vary ELSE Append(r.vary, "Origin")
           /\ q.frame = r.frame /\ q.express = r.express /\ q.drf = r.drf
<1>1. PICK field \in Fields : field = "Origin"
  BY DEF Fields
<1>2. q = patchVaryHeaders(r, field)
  BY <1>1, VaryRun
<1> QED BY <1>1, <1>2, Patched

LEMMA CookieRun ==
    ASSUME NEW r \in Responses, NEW q, q = Run("cookie", r)
    PROVE  /\ q \in Responses /\ q.status = r.status /\ q.allow = r.allow
           /\ q.vary = IF Contains(r.vary, "Cookie") THEN r.vary ELSE Append(r.vary, "Cookie")
           /\ q.frame = r.frame /\ q.express = r.express /\ q.drf = r.drf
<1>1. PICK field \in Fields : field = "Cookie"
  BY DEF Fields
<1>2. q = patchVaryHeaders(r, field)
  BY <1>1, VaryRun
<1> QED BY <1>1, <1>2, Patched

LEMMA FramedHead ==
    ASSUME NEW r \in Responses, r.hooks = Framed, r.floor = Unfloored,
           NEW q, q = writeHead(r)
    PROVE  Sent(q, r) /\ q.allow = r.allow /\ q.vary = r.vary
<1>1. PICK p : p = <<1, 2>>
  OBVIOUS
<1>2. SortedBy(p, 2, r)
  <2>1. Len(r.hooks) = 2 /\ DOMAIN r.hooks = 1..2
    BY DEF Framed
  <2>2. r.hooks[1][1] = 7 /\ r.hooks[2][1] = 0
    BY DEF Framed, X_FRAME_OPTIONS, TRANSPORT, CORS, VIEW, SESSION, CSRF
  <2>3. p \in [1..2 -> 1..2] /\ p[1] = 1 /\ p[2] = 2
    BY <1>1
  <2>4. \A i \in 1..2 : i = 1 \/ i = 2
    OBVIOUS
  <2>5. \A i \in 1..2 : r.hooks[i][1] \in Nat /\ r.hooks[i][1] <= r.floor
    BY <2>2, <2>4 DEF Unfloored
  <2>6. \A a, b \in 1..2 : p[a] = p[b] => a = b
    BY <2>3, <2>4
  <2>7. \A i \in 1..2 : \E a \in 1..2 : p[a] = i
    BY <2>3, <2>4
  <2>8. \A a, b \in 1..2 : a < b => r.hooks[p[a]][1] > r.hooks[p[b]][1]
    BY <2>2, <2>3, <2>4
  <2> QED BY <2>1, <2>3, <2>5, <2>6, <2>7, <2>8 DEF SortedBy
<1>3. r.hooks[p[1]][2] = "frame" /\ r.hooks[p[2]][2] = "drop"
  BY <1>1 DEF Framed
<1>4. PICK r1 : r1 = Run("frame", r)
  OBVIOUS
<1>5. PICK r2 : r2 = Run("drop", r1)
  OBVIOUS
<1>6. q = r2
  BY <1>2, <1>3, <1>4, <1>5, HeadIs
<1>7. r1 \in Responses /\ r1.status = r.status /\ r1.drf = r.drf /\ r1.allow = r.allow /\ r1.vary = r.vary /\ r1.frame = TRUE
  BY <1>4, FrameRun
<1>8. r2.status = r1.status /\ r2.drf = r1.drf /\ r2.allow = r1.allow /\ r2.vary = r1.vary /\ r2.frame = r1.frame /\ r2.express = FALSE
  BY <1>5, <1>7, DropRun
<1> QED BY <1>6, <1>7, <1>8 DEF Sent

LEMMA SharedHead ==
    ASSUME NEW r \in Responses, r.hooks = Shared, r.floor = Unfloored, r.vary = <<>>,
           NEW q, q = writeHead(r)
    PROVE  Sent(q, r) /\ q.allow = r.allow /\ q.vary = <<"Origin">>
<1>1. PICK p : p = <<3, 1, 2>>
  OBVIOUS
<1>2. SortedBy(p, 3, r)
  <2>1. Len(r.hooks) = 3 /\ DOMAIN r.hooks = 1..3
    BY DEF Shared
  <2>2. r.hooks[1][1] = 7 /\ r.hooks[2][1] = 0 /\ r.hooks[3][1] = 8
    BY DEF Shared, X_FRAME_OPTIONS, TRANSPORT, CORS, VIEW, SESSION, CSRF
  <2>3. p \in [1..3 -> 1..3] /\ p[1] = 3 /\ p[2] = 1 /\ p[3] = 2
    BY <1>1
  <2>4. \A i \in 1..3 : i = 1 \/ i = 2 \/ i = 3
    OBVIOUS
  <2>5. \A i \in 1..3 : r.hooks[i][1] \in Nat /\ r.hooks[i][1] <= r.floor
    BY <2>2, <2>4 DEF Unfloored
  <2>6. \A a, b \in 1..3 : p[a] = p[b] => a = b
    BY <2>3, <2>4
  <2>7. \A i \in 1..3 : \E a \in 1..3 : p[a] = i
    BY <2>3, <2>4
  <2>8. \A a, b \in 1..3 : a < b => r.hooks[p[a]][1] > r.hooks[p[b]][1]
    BY <2>2, <2>3, <2>4
  <2> QED BY <2>1, <2>3, <2>5, <2>6, <2>7, <2>8 DEF SortedBy
<1>3. r.hooks[p[1]][2] = "origin" /\ r.hooks[p[2]][2] = "frame" /\ r.hooks[p[3]][2] = "drop"
  BY <1>1 DEF Shared
<1>4. PICK r1 : r1 = Run("origin", r)
  OBVIOUS
<1>5. PICK r2 : r2 = Run("frame", r1)
  OBVIOUS
<1>6. PICK r3 : r3 = Run("drop", r2)
  OBVIOUS
<1>7. q = r3
  BY <1>2, <1>3, <1>4, <1>5, <1>6, HeadIs
<1>8. r1 \in Responses /\ r1.status = r.status /\ r1.drf = r.drf /\ r1.allow = r.allow
      /\ r1.vary = IF Contains(r.vary, "Origin") THEN r.vary ELSE Append(r.vary, "Origin")
  BY <1>4, OriginRun
<1>9. r1.vary = <<"Origin">>
  BY <1>8, Heads
<1>10. r2 \in Responses /\ r2.status = r1.status /\ r2.drf = r1.drf /\ r2.allow = r1.allow /\ r2.vary = r1.vary /\ r2.frame = TRUE
  BY <1>5, <1>8, FrameRun
<1>11. r3.status = r2.status /\ r3.drf = r2.drf /\ r3.allow = r2.allow /\ r3.vary = r2.vary /\ r3.frame = r2.frame /\ r3.express = FALSE
  BY <1>6, <1>10, DropRun
<1> QED BY <1>7, <1>8, <1>9, <1>10, <1>11 DEF Sent

LEMMA OnViewHead ==
    ASSUME NEW r \in Responses, r.hooks = OnView, r.floor = Unfloored, r.vary = <<>>,
           NEW q, q = writeHead(r)
    PROVE  Sent(q, r) /\ q.allow = r.allow /\ q.vary = <<"Cookie", "Origin">>
<1>1. PICK p : p = <<4, 3, 1, 2>>
  OBVIOUS
<1>2. SortedBy(p, 4, r)
  <2>1. Len(r.hooks) = 4 /\ DOMAIN r.hooks = 1..4
    BY DEF OnView
  <2>2. r.hooks[1][1] = 7 /\ r.hooks[2][1] = 0 /\ r.hooks[3][1] = 8 /\ r.hooks[4][1] = 9
    BY DEF OnView, X_FRAME_OPTIONS, TRANSPORT, CORS, VIEW, SESSION, CSRF
  <2>3. p \in [1..4 -> 1..4] /\ p[1] = 4 /\ p[2] = 3 /\ p[3] = 1 /\ p[4] = 2
    BY <1>1
  <2>4. \A i \in 1..4 : i = 1 \/ i = 2 \/ i = 3 \/ i = 4
    OBVIOUS
  <2>5. \A i \in 1..4 : r.hooks[i][1] \in Nat /\ r.hooks[i][1] <= r.floor
    BY <2>2, <2>4 DEF Unfloored
  <2>6. \A a, b \in 1..4 : p[a] = p[b] => a = b
    BY <2>3, <2>4
  <2>7. \A i \in 1..4 : \E a \in 1..4 : p[a] = i
    BY <2>3, <2>4
  <2>8. \A a, b \in 1..4 : a < b => r.hooks[p[a]][1] > r.hooks[p[b]][1]
    BY <2>2, <2>3, <2>4
  <2> QED BY <2>1, <2>3, <2>5, <2>6, <2>7, <2>8 DEF SortedBy
<1>3. r.hooks[p[1]][2] = "cookie" /\ r.hooks[p[2]][2] = "origin" /\ r.hooks[p[3]][2] = "frame" /\ r.hooks[p[4]][2] = "drop"
  BY <1>1 DEF OnView
<1>4. PICK r1 : r1 = Run("cookie", r)
  OBVIOUS
<1>5. PICK r2 : r2 = Run("origin", r1)
  OBVIOUS
<1>6. PICK r3 : r3 = Run("frame", r2)
  OBVIOUS
<1>7. PICK r4 : r4 = Run("drop", r3)
  OBVIOUS
<1>8. q = r4
  BY <1>2, <1>3, <1>4, <1>5, <1>6, <1>7, HeadIs
<1>9. r1 \in Responses /\ r1.status = r.status /\ r1.drf = r.drf /\ r1.allow = r.allow
      /\ r1.vary = IF Contains(r.vary, "Cookie") THEN r.vary ELSE Append(r.vary, "Cookie")
  BY <1>4, CookieRun
<1>10. r1.vary = <<"Cookie">>
  BY <1>9, Heads
<1>11. r2 \in Responses /\ r2.status = r1.status /\ r2.drf = r1.drf /\ r2.allow = r1.allow
      /\ r2.vary = IF Contains(r1.vary, "Origin") THEN r1.vary ELSE Append(r1.vary, "Origin")
  BY <1>5, <1>9, OriginRun
<1>12. r2.vary = <<"Cookie", "Origin">>
  BY <1>10, <1>11, Heads
<1>13. r3 \in Responses /\ r3.status = r2.status /\ r3.drf = r2.drf /\ r3.allow = r2.allow /\ r3.vary = r2.vary /\ r3.frame = TRUE
  BY <1>6, <1>11, FrameRun
<1>14. r4.status = r3.status /\ r4.drf = r3.drf /\ r4.allow = r3.allow /\ r4.vary = r3.vary /\ r4.frame = r3.frame /\ r4.express = FALSE
  BY <1>7, <1>13, DropRun
<1> QED BY <1>8, <1>9, <1>10, <1>11, <1>12, <1>13, <1>14 DEF Sent

LEMMA OnSessionHead ==
    ASSUME NEW r \in Responses, r.hooks = OnSession, r.floor = Unfloored, r.vary = <<>>,
           NEW q, q = writeHead(r)
    PROVE  Sent(q, r) /\ q.allow = r.allow /\ q.vary = <<"Origin", "Cookie">>
<1>1. PICK p : p = <<3, 1, 4, 2>>
  OBVIOUS
<1>2. SortedBy(p, 4, r)
  <2>1. Len(r.hooks) = 4 /\ DOMAIN r.hooks = 1..4
    BY DEF OnSession
  <2>2. r.hooks[1][1] = 7 /\ r.hooks[2][1] = 0 /\ r.hooks[3][1] = 8 /\ r.hooks[4][1] = 2
    BY DEF OnSession, X_FRAME_OPTIONS, TRANSPORT, CORS, VIEW, SESSION, CSRF
  <2>3. p \in [1..4 -> 1..4] /\ p[1] = 3 /\ p[2] = 1 /\ p[3] = 4 /\ p[4] = 2
    BY <1>1
  <2>4. \A i \in 1..4 : i = 1 \/ i = 2 \/ i = 3 \/ i = 4
    OBVIOUS
  <2>5. \A i \in 1..4 : r.hooks[i][1] \in Nat /\ r.hooks[i][1] <= r.floor
    BY <2>2, <2>4 DEF Unfloored
  <2>6. \A a, b \in 1..4 : p[a] = p[b] => a = b
    BY <2>3, <2>4
  <2>7. \A i \in 1..4 : \E a \in 1..4 : p[a] = i
    BY <2>3, <2>4
  <2>8. \A a, b \in 1..4 : a < b => r.hooks[p[a]][1] > r.hooks[p[b]][1]
    BY <2>2, <2>3, <2>4
  <2> QED BY <2>1, <2>3, <2>5, <2>6, <2>7, <2>8 DEF SortedBy
<1>3. r.hooks[p[1]][2] = "origin" /\ r.hooks[p[2]][2] = "frame" /\ r.hooks[p[3]][2] = "cookie" /\ r.hooks[p[4]][2] = "drop"
  BY <1>1 DEF OnSession
<1>4. PICK r1 : r1 = Run("origin", r)
  OBVIOUS
<1>5. PICK r2 : r2 = Run("frame", r1)
  OBVIOUS
<1>6. PICK r3 : r3 = Run("cookie", r2)
  OBVIOUS
<1>7. PICK r4 : r4 = Run("drop", r3)
  OBVIOUS
<1>8. q = r4
  BY <1>2, <1>3, <1>4, <1>5, <1>6, <1>7, HeadIs
<1>9. r1 \in Responses /\ r1.status = r.status /\ r1.drf = r.drf /\ r1.allow = r.allow
      /\ r1.vary = IF Contains(r.vary, "Origin") THEN r.vary ELSE Append(r.vary, "Origin")
  BY <1>4, OriginRun
<1>10. r1.vary = <<"Origin">>
  BY <1>9, Heads
<1>11. r2 \in Responses /\ r2.status = r1.status /\ r2.drf = r1.drf /\ r2.allow = r1.allow /\ r2.vary = r1.vary /\ r2.frame = TRUE
  BY <1>5, <1>9, FrameRun
<1>12. r3 \in Responses /\ r3.status = r2.status /\ r3.drf = r2.drf /\ r3.allow = r2.allow /\ r3.frame = r2.frame
      /\ r3.vary = IF Contains(r2.vary, "Cookie") THEN r2.vary ELSE Append(r2.vary, "Cookie")
  BY <1>6, <1>11, CookieRun
<1>13. r3.vary = <<"Origin", "Cookie">>
  BY <1>10, <1>11, <1>12, Heads
<1>14. r4.status = r3.status /\ r4.drf = r3.drf /\ r4.allow = r3.allow /\ r4.vary = r3.vary /\ r4.frame = r3.frame /\ r4.express = FALSE
  BY <1>7, <1>12, DropRun
<1> QED BY <1>8, <1>9, <1>10, <1>11, <1>12, <1>13, <1>14 DEF Sent

LEMMA OnBothHead ==
    ASSUME NEW r \in Responses, r.hooks = OnBoth, r.floor = Unfloored, r.vary = <<>>,
           NEW q, q = writeHead(r)
    PROVE  Sent(q, r) /\ q.allow = r.allow /\ q.vary = <<"Origin", "Cookie">>
<1>1. PICK p : p = <<3, 1, 5, 4, 2>>
  OBVIOUS
<1>2. SortedBy(p, 5, r)
  <2>1. Len(r.hooks) = 5 /\ DOMAIN r.hooks = 1..5
    BY DEF OnBoth
  <2>2. r.hooks[1][1] = 7 /\ r.hooks[2][1] = 0 /\ r.hooks[3][1] = 8 /\ r.hooks[4][1] = 2 /\ r.hooks[5][1] = 4
    BY DEF OnBoth, X_FRAME_OPTIONS, TRANSPORT, CORS, VIEW, SESSION, CSRF
  <2>3. p \in [1..5 -> 1..5] /\ p[1] = 3 /\ p[2] = 1 /\ p[3] = 5 /\ p[4] = 4 /\ p[5] = 2
    BY <1>1
  <2>4. \A i \in 1..5 : i = 1 \/ i = 2 \/ i = 3 \/ i = 4 \/ i = 5
    OBVIOUS
  <2>5. \A i \in 1..5 : r.hooks[i][1] \in Nat /\ r.hooks[i][1] <= r.floor
    BY <2>2, <2>4 DEF Unfloored
  <2>6. \A a, b \in 1..5 : p[a] = p[b] => a = b
    BY <2>3, <2>4
  <2>7. \A i \in 1..5 : \E a \in 1..5 : p[a] = i
    BY <2>3, <2>4
  <2>8. \A a, b \in 1..5 : a < b => r.hooks[p[a]][1] > r.hooks[p[b]][1]
    BY <2>2, <2>3, <2>4
  <2> QED BY <2>1, <2>3, <2>5, <2>6, <2>7, <2>8 DEF SortedBy
<1>3. r.hooks[p[1]][2] = "origin" /\ r.hooks[p[2]][2] = "frame" /\ r.hooks[p[3]][2] = "cookie" /\ r.hooks[p[4]][2] = "cookie" /\ r.hooks[p[5]][2] = "drop"
  BY <1>1 DEF OnBoth
<1>4. PICK r1 : r1 = Run("origin", r)
  OBVIOUS
<1>5. PICK r2 : r2 = Run("frame", r1)
  OBVIOUS
<1>6. PICK r3 : r3 = Run("cookie", r2)
  OBVIOUS
<1>7. PICK r4 : r4 = Run("cookie", r3)
  OBVIOUS
<1>8. PICK r5 : r5 = Run("drop", r4)
  OBVIOUS
<1>9. q = r5
  BY <1>2, <1>3, <1>4, <1>5, <1>6, <1>7, <1>8, HeadIs
<1>10. r1 \in Responses /\ r1.status = r.status /\ r1.drf = r.drf /\ r1.allow = r.allow
      /\ r1.vary = IF Contains(r.vary, "Origin") THEN r.vary ELSE Append(r.vary, "Origin")
  BY <1>4, OriginRun
<1>11. r1.vary = <<"Origin">>
  BY <1>10, Heads
<1>12. r2 \in Responses /\ r2.status = r1.status /\ r2.drf = r1.drf /\ r2.allow = r1.allow /\ r2.vary = r1.vary /\ r2.frame = TRUE
  BY <1>5, <1>10, FrameRun
<1>13. r3 \in Responses /\ r3.status = r2.status /\ r3.drf = r2.drf /\ r3.allow = r2.allow /\ r3.frame = r2.frame
      /\ r3.vary = IF Contains(r2.vary, "Cookie") THEN r2.vary ELSE Append(r2.vary, "Cookie")
  BY <1>6, <1>12, CookieRun
<1>14. r3.vary = <<"Origin", "Cookie">>
  BY <1>11, <1>12, <1>13, Heads
<1>15. r4 \in Responses /\ r4.status = r3.status /\ r4.drf = r3.drf /\ r4.allow = r3.allow /\ r4.frame = r3.frame
      /\ r4.vary = IF Contains(r3.vary, "Cookie") THEN r3.vary ELSE Append(r3.vary, "Cookie")
  BY <1>7, <1>13, CookieRun
<1>16. r4.vary = <<"Origin", "Cookie">>
  BY <1>14, <1>15, Heads
<1>17. r5.status = r4.status /\ r5.drf = r4.drf /\ r5.allow = r4.allow /\ r5.vary = r4.vary /\ r5.frame = r4.frame /\ r5.express = FALSE
  BY <1>8, <1>15, DropRun
<1> QED BY <1>9, <1>10, <1>11, <1>12, <1>13, <1>14, <1>15, <1>16, <1>17 DEF Sent

LEMMA ViewedHead ==
    ASSUME NEW r \in Responses, r.hooks = Viewed, r.floor = Unfloored, r.vary \in {<<>>, <<"Accept">>},
           NEW q, q = writeHead(r)
    PROVE  LET kept == r.status < 500 \/ r.drf
           IN  /\ Sent(q, r) /\ q.allow = (kept /\ r.allow)
               /\ q.vary = IF kept /\ r.vary # <<>> THEN <<"Accept", "Origin">> ELSE <<"Origin">>
<1>1. PICK p : p = <<4, 3, 1, 2>>
  OBVIOUS
<1>2. SortedBy(p, 4, r)
  <2>1. Len(r.hooks) = 4 /\ DOMAIN r.hooks = 1..4
    BY DEF Viewed
  <2>2. r.hooks[1][1] = 7 /\ r.hooks[2][1] = 0 /\ r.hooks[3][1] = 8 /\ r.hooks[4][1] = 9
    BY DEF Viewed, X_FRAME_OPTIONS, TRANSPORT, CORS, VIEW, SESSION, CSRF
  <2>3. p \in [1..4 -> 1..4] /\ p[1] = 4 /\ p[2] = 3 /\ p[3] = 1 /\ p[4] = 2
    BY <1>1
  <2>4. \A i \in 1..4 : i = 1 \/ i = 2 \/ i = 3 \/ i = 4
    OBVIOUS
  <2>5. \A i \in 1..4 : r.hooks[i][1] \in Nat /\ r.hooks[i][1] <= r.floor
    BY <2>2, <2>4 DEF Unfloored
  <2>6. \A a, b \in 1..4 : p[a] = p[b] => a = b
    BY <2>3, <2>4
  <2>7. \A i \in 1..4 : \E a \in 1..4 : p[a] = i
    BY <2>3, <2>4
  <2>8. \A a, b \in 1..4 : a < b => r.hooks[p[a]][1] > r.hooks[p[b]][1]
    BY <2>2, <2>3, <2>4
  <2> QED BY <2>1, <2>3, <2>5, <2>6, <2>7, <2>8 DEF SortedBy
<1>3. r.hooks[p[1]][2] = "undo" /\ r.hooks[p[2]][2] = "origin" /\ r.hooks[p[3]][2] = "frame" /\ r.hooks[p[4]][2] = "drop"
  BY <1>1 DEF Viewed
<1>4. PICK r1 : r1 = Run("undo", r)
  OBVIOUS
<1>5. PICK r2 : r2 = Run("origin", r1)
  OBVIOUS
<1>6. PICK r3 : r3 = Run("frame", r2)
  OBVIOUS
<1>7. PICK r4 : r4 = Run("drop", r3)
  OBVIOUS
<1>8. q = r4
  BY <1>2, <1>3, <1>4, <1>5, <1>6, <1>7, HeadIs
<1>9. r1 = Undo(r)
  BY <1>4, VaryRun
<1>10. /\ r1 \in Responses /\ r1.status = r.status /\ r1.drf = r.drf
       /\ r.status < 500 \/ r.drf => r1.allow = r.allow /\ r1.vary = r.vary
       /\ ~(r.status < 500 \/ r.drf) => r1.allow = FALSE /\ r1.vary = <<>>
  BY <1>9, Undone
<1>11. r2 \in Responses /\ r2.status = r1.status /\ r2.drf = r1.drf /\ r2.allow = r1.allow
      /\ r2.vary = IF Contains(r1.vary, "Origin") THEN r1.vary ELSE Append(r1.vary, "Origin")
  BY <1>5, <1>10, OriginRun
<1>15. r1.vary \in {<<>>, <<"Accept">>}
  BY <1>10
<1>12. r2.vary = IF r1.vary = <<>> THEN <<"Origin">> ELSE <<"Accept", "Origin">>
  BY <1>11, <1>15, Heads
<1>13. r3 \in Responses /\ r3.status = r2.status /\ r3.drf = r2.drf /\ r3.allow = r2.allow /\ r3.vary = r2.vary /\ r3.frame = TRUE
  BY <1>6, <1>11, FrameRun
<1>14. r4.status = r3.status /\ r4.drf = r3.drf /\ r4.allow = r3.allow /\ r4.vary = r3.vary /\ r4.frame = r3.frame /\ r4.express = FALSE
  BY <1>7, <1>13, DropRun
<1>16. Sent(q, r) /\ q.allow = r1.allow /\ q.vary = r2.vary
  BY <1>8, <1>10, <1>11, <1>13, <1>14 DEF Sent
<1>17. CASE r.status < 500 \/ r.drf
  <2>1. q.allow = r.allow
    BY <1>10, <1>16, <1>17
  <2>2. q.vary = IF r.vary # <<>> THEN <<"Accept", "Origin">> ELSE <<"Origin">>
    BY <1>10, <1>12, <1>16, <1>17
  <2>3. q.allow = (TRUE /\ r.allow)
    <3>1. r.allow \in BOOLEAN
      BY DEF Responses
    <3> QED BY <2>1, <3>1
  <2> QED BY <1>16, <1>17, <2>2, <2>3
<1>18. CASE ~(r.status < 500 \/ r.drf)
  <2>1. q.allow = FALSE /\ q.vary = <<"Origin">>
    BY <1>10, <1>12, <1>16, <1>18
  <2> QED BY <1>16, <1>18, <2>1
<1> QED BY <1>17, <1>18

-----------------------------------------------------------------------------
(* Short sequences one after the other *)

LEMMA OneOne ==
    ASSUME NEW a, NEW b
    PROVE  <<a>> \o <<b>> = <<a, b>>
<1>1. PICK S : S = {a, b}
  OBVIOUS
<1>2. PICK s, t : s = <<a>> /\ t = <<b>>
  OBVIOUS
<1>3. s \in Seq(S) /\ t \in Seq(S)
  BY <1>1, <1>2
<1>4. PICK w : w = s \o t
  OBVIOUS
<1>5. /\ s \o t \in Seq(S) /\ Len(s \o t) = Len(s) + Len(t)
      /\ \A i \in 1..Len(s) : (s \o t)[i] = s[i]
      /\ \A i \in 1..Len(t) : (s \o t)[i + Len(s)] = t[i]
  BY <1>3, Joined
<1>6. Len(s) = 1 /\ s[1] = a
  BY <1>2
<1>7. Len(t) = 1 /\ t[1] = b
  BY <1>2
<1>8. w[1] = a
  BY <1>4, <1>5, <1>6
<1>9. w[2] = b
  <2>1. 1 \in 1..Len(t)
    BY <1>7
  <2> QED BY <2>1, <1>4, <1>5, <1>6, <1>7
<1>10. Len(w) = 2 /\ DOMAIN w = 1..2 /\ w \in Seq(S)
  <2>1. w \in Seq(S) /\ Len(w) = 2
    BY <1>4, <1>5, <1>6, <1>7
  <2>2. DOMAIN w = 1..Len(w)
    BY <2>1
  <2> QED BY <2>1, <2>2
<1>11. w = <<a, b>>
  BY <1>8, <1>9, <1>10
<1> QED BY <1>2, <1>4, <1>11, Zenon

LEMMA TwoOne ==
    ASSUME NEW a, NEW b, NEW c
    PROVE  <<a, b>> \o <<c>> = <<a, b, c>>
<1>1. PICK S : S = {a, b, c}
  OBVIOUS
<1>2. PICK s, t : s = <<a, b>> /\ t = <<c>>
  OBVIOUS
<1>3. s \in Seq(S) /\ t \in Seq(S)
  BY <1>1, <1>2
<1>4. PICK w : w = s \o t
  OBVIOUS
<1>5. /\ s \o t \in Seq(S) /\ Len(s \o t) = Len(s) + Len(t)
      /\ \A i \in 1..Len(s) : (s \o t)[i] = s[i]
      /\ \A i \in 1..Len(t) : (s \o t)[i + Len(s)] = t[i]
  BY <1>3, Joined
<1>6. Len(s) = 2 /\ s[1] = a /\ s[2] = b
  BY <1>2
<1>7. Len(t) = 1 /\ t[1] = c
  BY <1>2
<1>8. w[1] = a /\ w[2] = b
  BY <1>4, <1>5, <1>6
<1>9. w[3] = c
  <2>1. 1 \in 1..Len(t)
    BY <1>7
  <2> QED BY <2>1, <1>4, <1>5, <1>6, <1>7
<1>10. Len(w) = 3 /\ DOMAIN w = 1..3 /\ w \in Seq(S)
  <2>1. w \in Seq(S) /\ Len(w) = 3
    BY <1>4, <1>5, <1>6, <1>7
  <2>2. DOMAIN w = 1..Len(w)
    BY <2>1
  <2> QED BY <2>1, <2>2
<1>11. w = <<a, b, c>>
  BY <1>8, <1>9, <1>10
<1> QED BY <1>2, <1>4, <1>11, Zenon

LEMMA ThreeOne ==
    ASSUME NEW a, NEW b, NEW c, NEW d
    PROVE  <<a, b, c>> \o <<d>> = <<a, b, c, d>>
<1>1. PICK S : S = {a, b, c, d}
  OBVIOUS
<1>2. PICK s, t : s = <<a, b, c>> /\ t = <<d>>
  OBVIOUS
<1>3. s \in Seq(S) /\ t \in Seq(S)
  BY <1>1, <1>2
<1>4. PICK w : w = s \o t
  OBVIOUS
<1>5. /\ s \o t \in Seq(S) /\ Len(s \o t) = Len(s) + Len(t)
      /\ \A i \in 1..Len(s) : (s \o t)[i] = s[i]
      /\ \A i \in 1..Len(t) : (s \o t)[i + Len(s)] = t[i]
  BY <1>3, Joined
<1>6. Len(s) = 3 /\ s[1] = a /\ s[2] = b /\ s[3] = c
  BY <1>2
<1>7. Len(t) = 1 /\ t[1] = d
  BY <1>2
<1>8. w[1] = a /\ w[2] = b /\ w[3] = c
  BY <1>4, <1>5, <1>6
<1>9. w[4] = d
  <2>1. 1 \in 1..Len(t)
    BY <1>7
  <2> QED BY <2>1, <1>4, <1>5, <1>6, <1>7
<1>10. Len(w) = 4 /\ DOMAIN w = 1..4 /\ w \in Seq(S)
  <2>1. w \in Seq(S) /\ Len(w) = 4
    BY <1>4, <1>5, <1>6, <1>7
  <2>2. DOMAIN w = 1..Len(w)
    BY <2>1
  <2> QED BY <2>1, <2>2
<1>11. w = <<a, b, c, d>>
  BY <1>8, <1>9, <1>10
<1> QED BY <1>2, <1>4, <1>11, Zenon

LEMMA ThreeTwo ==
    ASSUME NEW a, NEW b, NEW c, NEW d, NEW e
    PROVE  <<a, b, c>> \o <<d, e>> = <<a, b, c, d, e>>
<1>1. PICK S : S = {a, b, c, d, e}
  OBVIOUS
<1>2. PICK s, t : s = <<a, b, c>> /\ t = <<d, e>>
  OBVIOUS
<1>3. s \in Seq(S) /\ t \in Seq(S)
  BY <1>1, <1>2
<1>4. PICK w : w = s \o t
  OBVIOUS
<1>5. /\ s \o t \in Seq(S) /\ Len(s \o t) = Len(s) + Len(t)
      /\ \A i \in 1..Len(s) : (s \o t)[i] = s[i]
      /\ \A i \in 1..Len(t) : (s \o t)[i + Len(s)] = t[i]
  BY <1>3, Joined
<1>6. Len(s) = 3 /\ s[1] = a /\ s[2] = b /\ s[3] = c
  BY <1>2
<1>7. Len(t) = 2 /\ t[1] = d /\ t[2] = e
  BY <1>2
<1>8. w[1] = a /\ w[2] = b /\ w[3] = c
  BY <1>4, <1>5, <1>6
<1>9. w[4] = d
  <2>1. 1 \in 1..Len(t)
    BY <1>7
  <2> QED BY <2>1, <1>4, <1>5, <1>6, <1>7
<1>10. w[5] = e
  <2>1. 2 \in 1..Len(t)
    BY <1>7
  <2> QED BY <2>1, <1>4, <1>5, <1>6, <1>7
<1>11. Len(w) = 5 /\ DOMAIN w = 1..5 /\ w \in Seq(S)
  <2>1. w \in Seq(S) /\ Len(w) = 5
    BY <1>4, <1>5, <1>6, <1>7
  <2>2. DOMAIN w = 1..Len(w)
    BY <2>1
  <2> QED BY <2>1, <2>2
<1>12. w = <<a, b, c, d, e>>
  BY <1>8, <1>9, <1>10, <1>11
<1> QED BY <1>2, <1>4, <1>12, Zenon

LEMMA Nothing ==
    ASSUME NEW S, NEW s \in Seq(S)
    PROVE  <<>> \o s = s /\ s \o <<>> = s
OBVIOUS

LEMMA Appended ==
    ASSUME NEW S, NEW s \in Seq(S), NEW e \in S
    PROVE  Append(s, e) = s \o <<e>>
OBVIOUS

-----------------------------------------------------------------------------
(* The response on its way *)

\* Nothing has been said of it yet but what may still be undone.
Unsent(r) == r \in Responses /\ r.frame = FALSE /\ r.express = TRUE /\ r.floor = Unfloored

\* As it is where it is answered: before the frame options, before CORS, before
\* the view is known, and at the view.
Bare(r) == Unsent(r) /\ r.hooks = <<>> /\ r.allow = FALSE /\ r.vary = <<>>
BeforeCors(r) == Unsent(r) /\ r.hooks = Framed /\ r.allow = FALSE /\ r.vary = <<>>
BeforeView(r) == Unsent(r) /\ r.hooks = Shared /\ r.allow = FALSE /\ r.vary = <<>>
InView(r, route) ==
    IF route.renderers = PlainDjango THEN BeforeView(r)
    ELSE /\ Unsent(r) /\ r.hooks = Viewed /\ r.allow = TRUE
         /\ r.vary = IF route.renderers = DEFAULT THEN <<"Accept">> ELSE <<>>

\* What HeadersFollowDjango says of a response.
Follows(q, route, cookies, host) ==
    /\ ~q.express
    /\ q.frame = (q.status # 301 /\ host)
    /\ LET rendered == route.renderers # PlainDjango /\ (q.status < 500 \/ q.drf)
       IN  /\ q.allow = rendered
           /\ q.vary = (IF rendered /\ route.renderers = DEFAULT THEN <<"Accept">> ELSE <<>>)
                       \o (IF Contains(cookies, VIEW) THEN <<"Cookie">> ELSE <<>>)
                       \o (IF q.status = 301 \/ ~host THEN <<>> ELSE <<"Origin">>)
                       \o (IF Contains(cookies, SESSION) THEN <<"Cookie">> ELSE <<>>)

LEMMA FollowsIs == HeadersFollowDjango <=> (Answered => Follows(resp, req.route, req.cookies, req.host))
BY DEF HeadersFollowDjango, Follows

LEMMA Varied ==
    /\ <<>> \o <<>> \o <<>> \o <<>> = <<>>
    /\ <<>> \o <<>> \o <<"Origin">> \o <<>> = <<"Origin">>
    /\ <<"Accept">> \o <<>> \o <<"Origin">> \o <<>> = <<"Accept", "Origin">>
    /\ <<>> \o <<"Cookie">> \o <<"Origin">> \o <<>> = <<"Cookie", "Origin">>
    /\ <<>> \o <<>> \o <<"Origin">> \o <<"Cookie">> = <<"Origin", "Cookie">>
<1>1. /\ <<>> \in Seq(Fields) /\ <<"Origin">> \in Seq(Fields) /\ <<"Accept">> \in Seq(Fields)
      /\ <<"Cookie">> \in Seq(Fields) /\ <<"Accept", "Origin">> \in Seq(Fields)
      /\ <<"Cookie", "Origin">> \in Seq(Fields)
  BY DEF Fields
<1>2. /\ <<>> \o <<>> = <<>> /\ <<>> \o <<"Origin">> = <<"Origin">>
      /\ <<>> \o <<"Cookie">> = <<"Cookie">> /\ <<"Accept">> \o <<>> = <<"Accept">>
      /\ <<"Origin">> \o <<>> = <<"Origin">> /\ <<"Accept", "Origin">> \o <<>> = <<"Accept", "Origin">>
      /\ <<"Cookie", "Origin">> \o <<>> = <<"Cookie", "Origin">>
  BY <1>1, Nothing
<1>3. /\ <<"Accept">> \o <<"Origin">> = <<"Accept", "Origin">>
      /\ <<"Cookie">> \o <<"Origin">> = <<"Cookie", "Origin">>
      /\ <<"Origin">> \o <<"Cookie">> = <<"Origin", "Cookie">>
  BY OneOne
<1> QED BY <1>2, <1>3

LEMMA NoCookies == ~Contains(<<>>, VIEW) /\ ~Contains(<<>>, SESSION)
BY DEF Contains

\* A response that the middlewares let go at each of those places.
LEMMA BareFollows ==
    ASSUME NEW q, NEW host, NEW route, q.hooks = <<>>, q.frame = FALSE, q.express = FALSE, q.allow = FALSE,
           q.vary = <<>>, q.status = 301 \/ host = FALSE, route.renderers = PlainDjango
    PROVE  Follows(q, route, <<>>, host)
BY Varied, NoCookies DEF Follows

LEMMA PlainFollows ==
    ASSUME NEW r, BeforeView(r), r.status # 301, NEW route, route.renderers = PlainDjango,
           NEW q, q = writeHead(r)
    PROVE  Follows(q, route, <<>>, TRUE) /\ q.status = r.status
<1>1. Sent(q, r) /\ q.allow = r.allow /\ q.vary = <<"Origin">>
  BY SharedHead DEF BeforeView, Unsent
<1>2. q.status # 301 /\ q.status = r.status /\ q.frame = TRUE /\ q.express = FALSE /\ q.allow = FALSE
  BY <1>1 DEF Sent, BeforeView
<1> QED BY <1>1, <1>2, Varied, NoCookies DEF Follows

LEMMA ViewFollows ==
    ASSUME NEW r, NEW route, InView(r, route), r.status # 301, NEW q, q = writeHead(r)
    PROVE  Follows(q, route, <<>>, TRUE) /\ q.status = r.status
<1>1. CASE route.renderers = PlainDjango
  BY <1>1, PlainFollows DEF InView
<1>2. CASE route.renderers # PlainDjango
  <2>1. /\ r \in Responses /\ r.hooks = Viewed /\ r.floor = Unfloored /\ r.allow = TRUE
        /\ r.vary = IF route.renderers = DEFAULT THEN <<"Accept">> ELSE <<>>
    BY <1>2 DEF InView, Unsent
  <2>2. r.vary \in {<<>>, <<"Accept">>}
    BY <2>1
  <2>3. PICK kept \in BOOLEAN : kept = (r.status < 500 \/ r.drf)
    OBVIOUS
  <2>4. /\ Sent(q, r) /\ q.allow = (kept /\ r.allow)
        /\ q.vary = IF kept /\ r.vary # <<>> THEN <<"Accept", "Origin">> ELSE <<"Origin">>
    <3>1. /\ Sent(q, r) /\ q.allow = ((r.status < 500 \/ r.drf) /\ r.allow)
          /\ q.vary = IF (r.status < 500 \/ r.drf) /\ r.vary # <<>>
                      THEN <<"Accept", "Origin">> ELSE <<"Origin">>
      BY <2>1, <2>2, ViewedHead
    <3> QED BY <2>3, <3>1
  <2>5. /\ q.status # 301 /\ q.status = r.status /\ q.drf = r.drf
        /\ q.frame = TRUE /\ q.express = FALSE /\ q.allow = kept
    BY <2>1, <2>4 DEF Sent
  <2>6. PICK rendered \in BOOLEAN :
            rendered = (route.renderers # PlainDjango /\ (q.status < 500 \/ q.drf))
    OBVIOUS
  <2>7. rendered = kept
    BY <1>2, <2>3, <2>5, <2>6
  <2>8. q.vary = (IF rendered /\ route.renderers = DEFAULT THEN <<"Accept">> ELSE <<>>)
                 \o <<>> \o <<"Origin">> \o <<>>
    <3>1. CASE kept /\ route.renderers = DEFAULT
      BY <2>1, <2>4, <2>7, <3>1, Varied, Heads
    <3>2. CASE ~(kept /\ route.renderers = DEFAULT)
      BY <2>1, <2>4, <2>7, <3>2, Varied, Heads
    <3> QED BY <3>1, <3>2
  <2> QED BY <2>5, <2>6, <2>7, <2>8, NoCookies DEF Follows
<1> QED BY <1>1, <1>2

\* The hooks that the cookies of a page add.
Cookied(cookies) == [i \in DOMAIN cookies |-> <<cookies[i], "cookie">>]

LEMMA CookiesAdded ==
    /\ Shared \o Cookied(<<>>) = Shared
    /\ Shared \o Cookied(<<VIEW>>) = OnView
    /\ Shared \o Cookied(<<SESSION>>) = OnSession
    /\ Shared \o Cookied(<<SESSION, CSRF>>) = OnBoth
<1>1. Cookied(<<>>) = <<>>
  BY DEF Cookied
<1>2. ASSUME NEW a
      PROVE  Cookied(<<a>>) = <<<<a, "cookie">>>>
  <2>1. PICK s : s = <<a>>
    OBVIOUS
  <2>2. DOMAIN s = 1..1 /\ s[1] = a
    BY <2>1
  <2>3. Cookied(s) = <<<<a, "cookie">>>>
    BY <2>2 DEF Cookied
  <2> QED BY <2>1, <2>3
<1>3. ASSUME NEW a, NEW b
      PROVE  Cookied(<<a, b>>) = <<<<a, "cookie">>, <<b, "cookie">>>>
  <2>1. PICK s : s = <<a, b>>
    OBVIOUS
  <2>2. DOMAIN s = 1..2 /\ s[1] = a /\ s[2] = b
    BY <2>1
  <2>3. Cookied(s) = <<<<a, "cookie">>, <<b, "cookie">>>>
    BY <2>2 DEF Cookied
  <2> QED BY <2>1, <2>3
<1>4. Shared \o <<>> = Shared
  <2>1. PICK a, b, c : Shared = <<a, b, c>>
    BY DEF Shared
  <2>2. <<a, b, c>> \in Seq({a, b, c})
    OBVIOUS
  <2> QED BY <2>1, <2>2, Nothing
<1>5. ASSUME NEW d
      PROVE  Shared \o <<d>> = <<<<X_FRAME_OPTIONS, "frame">>, <<TRANSPORT, "drop">>, <<CORS, "origin">>, d>>
  BY ThreeOne DEF Shared
<1>6. ASSUME NEW d, NEW e
      PROVE  Shared \o <<d, e>> = <<<<X_FRAME_OPTIONS, "frame">>, <<TRANSPORT, "drop">>, <<CORS, "origin">>, d, e>>
  BY ThreeTwo DEF Shared
<1>7. Shared \o Cookied(<<>>) = Shared
  BY <1>1, <1>4
<1>8. Shared \o Cookied(<<VIEW>>) = OnView
  BY <1>2, <1>5 DEF OnView
<1>9. Shared \o Cookied(<<SESSION>>) = OnSession
  BY <1>2, <1>5 DEF OnSession
<1>10. Shared \o Cookied(<<SESSION, CSRF>>) = OnBoth
  BY <1>3, <1>6 DEF OnBoth
<1> QED BY <1>7, <1>8, <1>9, <1>10

HookNames == {"frame", "drop", "origin", "cookie", "undo"}

LEMMA HooksTyped ==
    /\ Framed \in Seq(Nat \X HookNames) /\ Shared \in Seq(Nat \X HookNames)
    /\ Viewed \in Seq(Nat \X HookNames) /\ OnView \in Seq(Nat \X HookNames)
    /\ OnSession \in Seq(Nat \X HookNames) /\ OnBoth \in Seq(Nat \X HookNames)
<1>1. /\ <<X_FRAME_OPTIONS, "frame">> \in Nat \X HookNames /\ <<TRANSPORT, "drop">> \in Nat \X HookNames
      /\ <<CORS, "origin">> \in Nat \X HookNames /\ <<VIEW, "undo">> \in Nat \X HookNames
      /\ <<VIEW, "cookie">> \in Nat \X HookNames /\ <<SESSION, "cookie">> \in Nat \X HookNames
      /\ <<CSRF, "cookie">> \in Nat \X HookNames
  BY DEF HookNames, X_FRAME_OPTIONS, TRANSPORT, CORS, VIEW, SESSION, CSRF
<1>2. PICK H : H = Nat \X HookNames
  OBVIOUS
<1>3. \A a, b \in H : <<a, b>> \in Seq(H)
  OBVIOUS
<1>4. \A a, b, c \in H : <<a, b, c>> \in Seq(H)
  OBVIOUS
<1>5. \A a, b, c, d \in H : <<a, b, c, d>> \in Seq(H)
  OBVIOUS
<1>6. \A a, b, c, d, e \in H : <<a, b, c, d, e>> \in Seq(H)
  OBVIOUS
<1>7. Framed \in Seq(H)
  BY <1>1, <1>2, <1>3 DEF Framed
<1>8. Shared \in Seq(H)
  BY <1>1, <1>2, <1>4 DEF Shared
<1>9. Viewed \in Seq(H) /\ OnView \in Seq(H) /\ OnSession \in Seq(H)
  BY <1>1, <1>2, <1>5 DEF Viewed, OnView, OnSession
<1>10. OnBoth \in Seq(H)
  BY <1>1, <1>2, <1>6 DEF OnBoth
<1> QED BY <1>2, <1>7, <1>8, <1>9, <1>10

\* Two responses that only differ in their status, their hooks and who rendered them.
Alike(q, r) ==
    /\ q \in Responses /\ q.allow = r.allow /\ q.vary = r.vary
    /\ q.frame = r.frame /\ q.express = r.express /\ q.floor = r.floor

Stated(r, s) == [r EXCEPT !.status = s]
HookedBy(r, h) == [r EXCEPT !.hooks = h]

\* A response with another status, one that was rendered, and one with other hooks.
LEMMA Restated ==
    ASSUME NEW r \in Responses, NEW s \in Nat, NEW q, q = Stated(r, s)
    PROVE  Alike(q, r) /\ q.status = s /\ q.drf = r.drf /\ q.hooks = r.hooks
BY DEF Responses, Alike, Stated

LEMMA RenderedIs ==
    ASSUME NEW r \in Responses, NEW q, q = Rendered(r)
    PROVE  Alike(q, r) /\ q.status = r.status /\ q.drf = TRUE /\ q.hooks = r.hooks
BY DEF Responses, Alike, Rendered

LEMMA Hooked ==
    ASSUME NEW r \in Responses, NEW h \in Seq(Nat \X HookNames), NEW q, q = HookedBy(r, h)
    PROVE  Alike(q, r) /\ q.status = r.status /\ q.drf = r.drf /\ q.hooks = h
BY DEF Responses, HookNames, Alike, HookedBy

\* Places are kept.
LEMMA AlikePlaces ==
    ASSUME NEW r, NEW q, Alike(q, r), q.hooks = r.hooks
    PROVE  /\ BeforeCors(r) => BeforeCors(q)
           /\ BeforeView(r) => BeforeView(q)
           /\ \A route : InView(r, route) => InView(q, route)
<1>1. Unsent(r) => Unsent(q)
  BY DEF Alike, Unsent
<1>2. BeforeCors(r) => BeforeCors(q)
  BY <1>1 DEF Alike, BeforeCors
<1>3. BeforeView(r) => BeforeView(q)
  BY <1>1 DEF Alike, BeforeView
<1>4. ASSUME NEW route, InView(r, route)
      PROVE  InView(q, route)
  <2>1. CASE route.renderers = PlainDjango
    BY <1>3, <1>4, <2>1 DEF InView
  <2>2. CASE route.renderers # PlainDjango
    BY <1>1, <1>4, <2>2 DEF Alike, InView
  <2> QED BY <2>1, <2>2
<1> QED BY <1>2, <1>3, <1>4

\* What the cookies of a page make of Vary.
LEMMA BakedFollows ==
    ASSUME NEW q, NEW route, NEW cookies, route.renderers = PlainDjango, q.status = 200,
           q.frame = TRUE, q.express = FALSE, q.allow = FALSE,
           \/ /\ q.vary = <<"Origin">>
              /\ ~Contains(cookies, VIEW) /\ ~Contains(cookies, SESSION)
           \/ /\ q.vary = <<"Cookie", "Origin">>
              /\ Contains(cookies, VIEW) /\ ~Contains(cookies, SESSION)
           \/ /\ q.vary = <<"Origin", "Cookie">>
              /\ ~Contains(cookies, VIEW) /\ Contains(cookies, SESSION)
    PROVE  Follows(q, route, cookies, TRUE)
<1>1. q.status # 301
  OBVIOUS
<1>2. CASE q.vary = <<"Origin">> /\ ~Contains(cookies, VIEW) /\ ~Contains(cookies, SESSION)
  <2>1. q.vary = <<>> \o <<>> \o <<"Origin">> \o <<>>
    BY <1>2, Varied
  <2> QED BY <1>1, <1>2, <2>1 DEF Follows
<1>3. CASE q.vary = <<"Cookie", "Origin">> /\ Contains(cookies, VIEW) /\ ~Contains(cookies, SESSION)
  <2>1. q.vary = <<>> \o <<"Cookie">> \o <<"Origin">> \o <<>>
    BY <1>3, Varied
  <2> QED BY <1>1, <1>3, <2>1 DEF Follows
<1>4. CASE q.vary = <<"Origin", "Cookie">> /\ ~Contains(cookies, VIEW) /\ Contains(cookies, SESSION)
  <2>1. q.vary = <<>> \o <<>> \o <<"Origin">> \o <<"Cookie">>
    BY <1>4, Varied
  <2> QED BY <1>1, <1>4, <2>1 DEF Follows
<1> QED BY <1>2, <1>3, <1>4

\* What a page answers with its cookies.
LEMMA PageFollows ==
    ASSUME NEW cookies \in {<<>>, <<VIEW>>, <<SESSION>>, <<SESSION, CSRF>>},
           NEW t \in Responses, t.hooks = Shared \o Cookied(cookies), t.floor = Unfloored, t.allow = FALSE,
           t.vary = <<>>, t.status = 200, NEW route, route.renderers = PlainDjango, NEW q, q = writeHead(t)
    PROVE  Follows(q, route, cookies, TRUE) /\ q.status = 200
<1>10. t \in Responses /\ t.floor = Unfloored /\ t.allow = FALSE /\ t.vary = <<>> /\ q = writeHead(t)
  OBVIOUS
<1>11. ASSUME Sent(q, t)
       PROVE  q.status = 200 /\ q.frame = TRUE /\ q.express = FALSE
  BY <1>11 DEF Sent
<1>14. CASE cookies = <<>>
  <2>1. t.hooks = Shared
    BY <1>14, CookiesAdded
  <2>2. Sent(q, t) /\ q.allow = FALSE /\ q.vary = <<"Origin">>
    BY <1>10, <2>1, SharedHead
  <2> QED BY <1>11, <1>14, <2>2, NoCookies, BakedFollows
<1>15. CASE cookies = <<VIEW>>
  <2>1. t.hooks = OnView
    BY <1>15, CookiesAdded
  <2>2. Sent(q, t) /\ q.allow = FALSE /\ q.vary = <<"Cookie", "Origin">>
    BY <1>10, <2>1, OnViewHead
  <2>3. Contains(<<VIEW>>, VIEW) /\ ~Contains(<<VIEW>>, SESSION)
    BY DEF Contains, VIEW, SESSION
  <2> QED BY <1>11, <2>2, <2>3, BakedFollows, <1>15
<1>16. CASE cookies = <<SESSION>>
  <2>1. t.hooks = OnSession
    BY <1>16, CookiesAdded
  <2>2. Sent(q, t) /\ q.allow = FALSE /\ q.vary = <<"Origin", "Cookie">>
    BY <1>10, <2>1, OnSessionHead
  <2>3. ~Contains(<<SESSION>>, VIEW) /\ Contains(<<SESSION>>, SESSION)
    BY DEF Contains, VIEW, SESSION
  <2> QED BY <1>11, <2>2, <2>3, BakedFollows, <1>16
<1>17. CASE cookies = <<SESSION, CSRF>>
  <2>1. t.hooks = OnBoth
    BY <1>17, CookiesAdded
  <2>2. Sent(q, t) /\ q.allow = FALSE /\ q.vary = <<"Origin", "Cookie">>
    BY <1>10, <2>1, OnBothHead
  <2>3. ~Contains(<<SESSION, CSRF>>, VIEW) /\ Contains(<<SESSION, CSRF>>, SESSION)
    BY DEF Contains, VIEW, SESSION, CSRF
  <2> QED BY <1>11, <2>2, <2>3, BakedFollows, <1>17
<1> QED BY <1>14, <1>15, <1>16, <1>17


LEMMA HookedRestated ==
    ASSUME NEW r \in Responses, NEW h \in Seq(Nat \X HookNames)
    PROVE  LET t == Stated(HookedBy(r, h), 200)
           IN  Alike(t, r) /\ t.hooks = h /\ t.status = 200
<1>1. PICK p, t : p = HookedBy(r, h) /\ t = Stated(p, 200)
  OBVIOUS
<1>2. Alike(p, r) /\ p.hooks = h
  BY <1>1, Hooked
<1>3. p \in Responses /\ 200 \in Nat
  BY <1>2 DEF Alike
<1>4. Alike(t, p) /\ t.hooks = p.hooks /\ t.status = 200
  BY <1>1, <1>3, Restated
<1>5. Alike(t, r)
  BY <1>2, <1>4 DEF Alike
<1> QED BY <1>1, <1>2, <1>4, <1>5

\* A page that is about to be sent with these hooks.
PageOf(t, h) ==
    /\ t \in Responses /\ t.hooks = h /\ t.floor = Unfloored
    /\ t.allow = FALSE /\ t.vary = <<>> /\ t.status = 200

LEMMA PageAnswer ==
    ASSUME NEW r, BeforeView(r), NEW h \in {Shared, OnView, OnSession, OnBoth}
    PROVE  PageOf(Stated(HookedBy(r, h), 200), h)
<1>1. h \in Seq(Nat \X HookNames)
  BY HooksTyped
<1>2. r \in Responses /\ r.floor = Unfloored /\ r.allow = FALSE /\ r.vary = <<>>
  BY DEF BeforeView, Unsent
<1>3. PICK t : t = Stated(HookedBy(r, h), 200)
  OBVIOUS
<1>4. Alike(t, r) /\ t.hooks = h /\ t.status = 200
  BY <1>1, <1>2, <1>3, HookedRestated
<1>5. t \in Responses /\ t.floor = r.floor /\ t.allow = r.allow /\ t.vary = r.vary
  BY <1>4 DEF Alike
<1> QED BY <1>2, <1>3, <1>4, <1>5 DEF PageOf

-----------------------------------------------------------------------------
(* Where the request is sent on to *)

\* What a resolved path shows, and the line it was resolved to.
Aimed(path, route) ==
    /\ route.view \in NumberViews => path.segments[3] \in Digits
    /\ route.view = "ActivityYearDetailView" => path.segments[4] \in Digits
    /\ route.view = "UserDetailView" => path.segments[4] \in SignedDigits
    /\ route.view \in PasswordViews => route.renderers = PlainDjango
    /\ route.view \notin PasswordViews => path.segments[1] \notin {"password_reset", "reset"}

LEMMA SentOn ==
    ASSUME NEW a, NEW b, NEW c, NEW d
    PROVE  Append(<<a, b, c>>, d)[1] = a /\ Append(<<a, b, c>>, d)[4] = d
<1>1. PICK S : S = {a, b, c, d}
  OBVIOUS
<1>2. PICK s : s = <<a, b, c>>
  OBVIOUS
<1>3. s \in Seq(S) /\ d \in S /\ Len(s) = 3 /\ s[1] = a
  BY <1>1, <1>2
<1>4. PICK t : t = Append(s, d)
  OBVIOUS
<1>5. t[Len(s) + 1] = d /\ \A i \in 1..Len(s) : t[i] = s[i]
  BY <1>3, <1>4
<1>6. t[1] = a /\ t[4] = d
  BY <1>3, <1>5
<1> QED BY <1>2, <1>4, <1>6

LEMMA Targeted ==
    ASSUME NEW path, path.segments \in Seq(Segments), NEW e, EntryGood(e), Fits(e, path)
    PROVE  Aimed(Target(path, e), e)
<1>1. PICK n \in Nat : n = Len(path.segments) /\ DOMAIN path.segments = 1..n
  OBVIOUS
<1>2. /\ n = Len(e.segments)
      /\ \A i \in 1..n : path.segments[i] \in e.segments[i]
  BY <1>1 DEF Fits
<1>3. n >= 1 /\ path.segments[1] \in e.segments[1]
  BY <1>2 DEF EntryGood
<1>4. e.view \in PasswordViews => e.renderers = PlainDjango
  BY DEF EntryGood
<1>5. CASE e.dispatch = <<>>
  <2>1. Target(path, e) = path
    BY <1>5 DEF Target
  <2>2. e.view \in NumberViews => path.segments[3] \in Digits
    BY <1>2 DEF EntryGood
  <2>3. e.view = "ActivityYearDetailView" => path.segments[4] \in Digits
    BY <1>2 DEF EntryGood
  <2>4. e.view # "UserDetailView"
    BY <1>5 DEF EntryGood
  <2>5. e.view \notin PasswordViews => path.segments[1] \notin {"password_reset", "reset"}
    BY <1>3 DEF EntryGood
  <2> QED BY <1>4, <2>1, <2>2, <2>3, <2>4, <2>5 DEF Aimed
<1>6. CASE e.dispatch # <<>>
  <2>1. PICK q : q = Target(path, e)
    OBVIOUS
  <2>2. q.segments = Append(e.dispatch, path.segments[n])
    BY <1>1, <1>6, <2>1 DEF Target, Path
  <2>3. e.view \notin NumberViews /\ e.view # "ActivityYearDetailView"
    BY <1>6 DEF EntryGood
  <2>4. e.view = "UserDetailView" => q.segments[4] \in SignedDigits
    <3>1. SUFFICES ASSUME e.view = "UserDetailView"
                   PROVE  q.segments[4] \in SignedDigits
      OBVIOUS
    <3>2. n = 3 /\ e.segments[3] \subseteq SignedDigits /\ e.dispatch = <<"api", "user", "detail">>
      BY <1>2, <3>1 DEF EntryGood
    <3>3. path.segments[3] \in SignedDigits
      BY <1>2, <3>2
    <3> QED BY <2>2, <3>2, <3>3, SentOn
  <2>5. e.view \notin PasswordViews => q.segments[1] \notin {"password_reset", "reset"}
    <3>1. SUFFICES ASSUME e.view \notin PasswordViews
                   PROVE  q.segments[1] \notin {"password_reset", "reset"}
      OBVIOUS
    <3>2. \E last : e.dispatch = <<"api", "user", last>>
      BY <1>6, <3>1 DEF EntryGood
    <3>3. q.segments[1] = "api"
      BY <2>2, <3>2, SentOn
    <3> QED BY <3>3
  <2> QED BY <1>4, <2>1, <2>3, <2>4, <2>5 DEF Aimed
<1> QED BY <1>5, <1>6

-----------------------------------------------------------------------------
(* The inductive invariant *)

\* isPlainDjangoView, Numeric and MightDo of a request q, s being who sent it.
Plain(q) == /\ q.controller.guard = "django"
            /\ q.route.view # "none" /\ q.route.renderers = PlainDjango

Reads(q) ==
    LET id(i) == q.path.segments[i]
    IN  CASE q.controller.view \in NumberViews -> id(3) \in Digits
          [] q.controller.view = "ActivityYearDetailView" -> id(4) \in Digits
          [] q.controller.view = "UserDetailView" -> id(4) \in SignedDigits
          [] OTHER -> TRUE

Might(q, s) == \E u \in s : /\ u.key /\ u.active /\ u.role \in Roles
                            /\ <<q.route.view, q.method>> \in V1_ROLE_MATRIX[u.role]

\* The role that is known is one the client had with a key and active.
Known(q, s) == q.role # Anonymous => \E u \in s : u.key /\ u.active /\ u.role = q.role

RequestFields == {"path", "method", "host", "preflight", "accept", "auth", "body", "outcome", "route",
                  "controller", "parse", "role", "ran", "cookies"}

\* What is known of a request q and its response p at each place a.
Placed(a, q, p, s) ==
    /\ a \in {"idle", "hosts", "slash", "headers", "cors", "resolver"} =>
          /\ q.route = NoRoute /\ q.path.segments \in Seq(Segments)
    /\ a \in {"idle", "hosts", "slash", "headers", "cors", "resolver", "negotiation", "parsing", "route"} =>
          q.controller = NoController
    /\ a = "hosts" => q.host \in BOOLEAN
    /\ a \notin {"idle", "hosts", "answered"} => q.host = TRUE
    /\ a \in {"hosts", "slash", "headers"} => Bare(p)
    /\ a = "cors" => BeforeCors(p)
    /\ a = "resolver" => BeforeView(p)
    /\ a \in {"negotiation", "parsing", "route", "token", "roles", "interceptor", "handler"} =>
          InView(p, q.route) /\ Aimed(q.path, q.route)
    /\ a \in {"token", "roles", "interceptor", "handler"} =>
          ControllerGood(q.controller) /\ Serves(q.controller, q.path)
    /\ a \in {"roles", "interceptor", "handler"} => (q.auth = "malformed" => Plain(q))
    /\ a \in {"interceptor", "handler"} =>
          (q.controller.guard = "roles" => Might(q, s) /\ q.controller.view = q.route.view)

\* What the three properties say of an answer.
Reached(q, s) ==
    q.ran => /\ Reads(q)
             /\ q.controller.guard = "roles" => Might(q, s) /\ q.controller.view = q.route.view
             /\ q.controller.guard = "django" => q.route.view \in PasswordViews
Vetted(q, p, s) ==
    q.controller.guard # "django" =>
        /\ q.auth = "malformed" /\ q.controller # NoController => p.status = 401
        /\ p.status \in {400, 415} /\ q.controller.guard = "roles" => Might(q, s)

PipeAt(a, q, p, s, u) ==
    /\ DOMAIN q = RequestFields /\ Known(q, s)
    /\ a # "idle" => u \in s
    /\ a # "answered" => q.ran = FALSE /\ q.cookies = <<>> /\ Placed(a, q, p, s)
    /\ a = "answered" => Reached(q, s) /\ Vetted(q, p, s) /\ Follows(p, q.route, q.cookies, q.host)

PipeInv == PipeAt(at, req, resp, seen, user)

-----------------------------------------------------------------------------
(* What is answered where *)

LEMMA PipeInvNext ==
    ASSUME NEW a, NEW q, NEW p, NEW s, NEW u, a = at', q = req', p = resp', s = seen', u = user',
           PipeAt(a, q, p, s, u)
    PROVE  PipeInv'
BY DEF PipeInv

LEMMA Answering ==
    ASSUME NEW r, NEW s, Answer(r, s)
    PROVE  at' = "answered" /\ resp' = writeHead(Stated(r, s))
BY DEF Answer, Stated

\* An answer that the handler had no part in.
LEMMA Refused ==
    ASSUME NEW a, NEW q, NEW p, NEW s, NEW u, PipeAt(a, q, p, s, u), a \notin {"idle", "answered"},
           NEW t, Vetted(q, t, s), Follows(t, q.route, <<>>, q.host)
    PROVE  PipeAt("answered", q, t, s, u)
<1>1. /\ DOMAIN q = RequestFields /\ Known(q, s) /\ u \in s
      /\ q.ran = FALSE /\ q.cookies = <<>>
  BY DEF PipeAt
<1>2. Reached(q, s)
  BY <1>1 DEF Reached
<1>3. Follows(t, q.route, q.cookies, q.host)
  BY <1>1
<1> QED BY <1>1, <1>2, <1>3 DEF PipeAt

LEMMA NobodyServes == NoController.guard = "django" /\ NoController.view = "none"
BY DEF NoController, Page, Controller

LEMMA NothingVetted ==
    ASSUME NEW q, q.controller = NoController, NEW t, NEW s
    PROVE  Vetted(q, t, s)
BY NobodyServes DEF Vetted

LEMMA PlainIsNone == NoRoute.renderers = PlainDjango
BY DEF NoRoute, Entry

\* The answers at a view: as it is, and as the old stack would have rendered it.
LEMMA AnswerInView ==
    ASSUME NEW r, NEW route, InView(r, route), NEW s \in Nat, s # 301
    PROVE  /\ Follows(writeHead(Stated(r, s)), route, <<>>, TRUE)
           /\ writeHead(Stated(r, s)).status = s
           /\ Follows(writeHead(Stated(Rendered(r), s)), route, <<>>, TRUE)
           /\ writeHead(Stated(Rendered(r), s)).status = s
<1>1. r \in Responses
  BY DEF InView, BeforeView, Unsent
<1>2. ASSUME NEW d, d \in Responses, InView(d, route)
      PROVE  Follows(writeHead(Stated(d, s)), route, <<>>, TRUE) /\ writeHead(Stated(d, s)).status = s
  <2>1. PICK t : t = Stated(d, s)
    OBVIOUS
  <2>2. Alike(t, d) /\ t.status = s /\ t.hooks = d.hooks
    BY <1>2, <2>1, Restated
  <2>3. InView(t, route)
    BY <1>2, <2>2, AlikePlaces
  <2>4. PICK q : q = writeHead(t)
    OBVIOUS
  <2>5. Follows(q, route, <<>>, TRUE) /\ q.status = s
    BY <2>2, <2>3, <2>4, ViewFollows
  <2> QED BY <2>1, <2>4, <2>5
<1>3. PICK d : d = Rendered(r)
  OBVIOUS
<1>4. Alike(d, r) /\ d.hooks = r.hooks
  BY <1>1, <1>3, RenderedIs
<1>5. d \in Responses /\ InView(d, route)
  BY <1>4, AlikePlaces DEF Alike
<1> QED BY <1>1, <1>2, <1>3, <1>5

\* The early answers, which shed what the middlewares above would have set.
Early(r, depth) == [skipBeforeHeadersHooks(r, depth) EXCEPT !.express = FALSE]

LEMMA EarlyIs ==
    ASSUME NEW r, Bare(r), NEW depth \in Nat
    PROVE  LET d == Early(r, depth)
           IN  /\ d \in Responses /\ d.hooks = <<>> /\ d.allow = FALSE /\ d.vary = <<>> /\ d.frame = FALSE
               /\ d.express = FALSE
<1>1. r \in Responses /\ r.hooks = <<>> /\ r.allow = FALSE /\ r.vary = <<>> /\ r.frame = FALSE
  BY DEF Bare, Unsent
<1>2. PICK p : p = skipBeforeHeadersHooks(r, depth)
  OBVIOUS
<1>3. /\ p \in Responses /\ p.hooks = <<>> /\ p.allow = FALSE /\ p.vary = <<>> /\ p.frame = FALSE
  BY <1>1, <1>2 DEF skipBeforeHeadersHooks, Responses
<1>4. PICK d : d = [p EXCEPT !.express = FALSE]
  OBVIOUS
<1>5. /\ d \in Responses /\ d.hooks = <<>> /\ d.allow = FALSE /\ d.vary = <<>> /\ d.frame = FALSE
      /\ d.express = FALSE
  BY <1>3, <1>4 DEF Responses
<1>6. d = Early(r, depth)
  BY <1>2, <1>4 DEF Early
<1> QED BY <1>5, <1>6

LEMMA AnswerBare ==
    ASSUME NEW r, Bare(r), NEW depth \in Nat, NEW s \in Nat, NEW route, route.renderers = PlainDjango,
           NEW host, s = 301 \/ host = FALSE
    PROVE  Follows(writeHead(Stated(Early(r, depth), s)), route, <<>>, host)
<1>1. PICK d : d = Early(r, depth)
  OBVIOUS
<1>2. /\ d \in Responses /\ d.hooks = <<>> /\ d.allow = FALSE /\ d.vary = <<>> /\ d.frame = FALSE
      /\ d.express = FALSE
  BY <1>1, EarlyIs
<1>3. PICK t : t = Stated(d, s)
  OBVIOUS
<1>4. Alike(t, d) /\ t.hooks = d.hooks /\ t.status = s
  BY <1>2, <1>3, Restated
<1>5. writeHead(t) = t
  BY <1>2, <1>4, NoHooks
<1>6. Follows(t, route, <<>>, host)
  BY <1>2, <1>4, BareFollows DEF Alike
<1> QED BY <1>1, <1>3, <1>5, <1>6

\* The hooks as the middlewares and the resolver register them.
LEMMA FramedNext ==
    ASSUME NEW r, Bare(r)
    PROVE  BeforeCors(onBeforeHeaders(onBeforeHeaders(r, X_FRAME_OPTIONS, "frame"), TRANSPORT, "drop"))
<1>1. r \in Responses /\ r.hooks = <<>>
  BY DEF Bare, Unsent
<1>2. PICK p : p = onBeforeHeaders(r, X_FRAME_OPTIONS, "frame")
  OBVIOUS
<1>3. PICK d : d = onBeforeHeaders(p, TRANSPORT, "drop")
  OBVIOUS
<1>4. PICK e \in Nat \X HookNames : e = <<X_FRAME_OPTIONS, "frame">>
  BY DEF X_FRAME_OPTIONS, HookNames
<1>5. <<e>> \in Seq(Nat \X HookNames) /\ Append(r.hooks, e) = <<e>>
  BY <1>1
<1>6. p = HookedBy(r, <<e>>)
  BY <1>2, <1>4, <1>5 DEF onBeforeHeaders, HookedBy
<1>7. Alike(p, r) /\ p.hooks = <<e>>
  BY <1>1, <1>5, <1>6, Hooked
<1>8. Append(p.hooks, <<TRANSPORT, "drop">>) = Framed
  BY <1>4, <1>7, AppendOne DEF Framed
<1>9. p \in Responses
  BY <1>7 DEF Alike
<1>10. d = HookedBy(p, Framed)
  BY <1>3, <1>8 DEF onBeforeHeaders, HookedBy
<1>11. Alike(d, p) /\ d.hooks = Framed
  BY <1>9, <1>10, Hooked, HooksTyped
<1>12. BeforeCors(d)
  BY <1>7, <1>11 DEF Alike, Bare, Unsent, BeforeCors
<1> QED BY <1>2, <1>3, <1>12

LEMMA SharedNext ==
    ASSUME NEW r, BeforeCors(r)
    PROVE  BeforeView(onBeforeHeaders(r, CORS, "origin"))
<1>1. r \in Responses /\ r.hooks = Framed
  BY DEF BeforeCors, Unsent
<1>2. PICK d : d = onBeforeHeaders(r, CORS, "origin")
  OBVIOUS
<1>3. PICK e \in Nat \X HookNames : e = <<CORS, "origin">>
  BY DEF CORS, HookNames
<1>4. Framed \o <<e>> = Shared
  BY <1>3, TwoOne DEF Framed, Shared
<1>5. Append(r.hooks, e) = Shared
  <2>1. Append(r.hooks, e) = r.hooks \o <<e>>
    BY <1>1, HooksTyped, Appended
  <2> QED BY <1>1, <1>4, <2>1
<1>6. d = HookedBy(r, Shared)
  BY <1>2, <1>3, <1>5 DEF onBeforeHeaders, HookedBy
<1>7. Alike(d, r) /\ d.hooks = Shared
  BY <1>1, <1>6, Hooked, HooksTyped
<1>8. BeforeView(d)
  BY <1>7 DEF Alike, BeforeCors, BeforeView, Unsent
<1> QED BY <1>2, <1>8

LEMMA ViewedNext ==
    ASSUME NEW r, BeforeView(r), NEW route, route.renderers # PlainDjango,
           NEW headed, headed = [r EXCEPT !.allow = TRUE,
                                          !.vary = IF route.renderers = DEFAULT THEN <<"Accept">> ELSE @]
    PROVE  InView(onBeforeHeaders(headed, VIEW, "undo"), route)
<1>1. r \in Responses /\ r.hooks = Shared /\ r.vary = <<>> /\ r.frame = FALSE /\ r.express = TRUE
      /\ r.floor = Unfloored
  BY DEF BeforeView, Unsent
<1>2. PICK v \in Seq(Fields) : v = IF route.renderers = DEFAULT THEN <<"Accept">> ELSE r.vary
  <2>1. <<>> \in Seq(Fields) /\ <<"Accept">> \in Seq(Fields)
    BY DEF Fields
  <2> QED BY <1>1, <2>1
<1>3. headed = [r EXCEPT !.allow = TRUE, !.vary = v]
  BY <1>2
<1>4. /\ headed \in Responses /\ headed.hooks = Shared /\ headed.vary = v /\ headed.allow = TRUE
      /\ headed.frame = FALSE /\ headed.express = TRUE /\ headed.floor = Unfloored
  BY <1>1, <1>2, <1>3 DEF Responses
<1>5. PICK d : d = onBeforeHeaders(headed, VIEW, "undo")
  OBVIOUS
<1>6. PICK e \in Nat \X HookNames : e = <<VIEW, "undo">>
  BY DEF VIEW, HookNames
<1>7. Shared \o <<e>> = Viewed
  BY <1>6, ThreeOne DEF Viewed, Shared
<1>8. Append(headed.hooks, e) = Viewed
  <2>1. Append(headed.hooks, e) = headed.hooks \o <<e>>
    BY <1>4, HooksTyped, Appended, ZenonT(30)
  <2> QED BY <1>4, <1>7, <2>1
<1>9. d = HookedBy(headed, Viewed)
  BY <1>5, <1>6, <1>8 DEF onBeforeHeaders, HookedBy
<1>10. Alike(d, headed) /\ d.hooks = Viewed
  BY <1>4, <1>9, Hooked, HooksTyped
<1>11. InView(d, route)
  BY <1>1, <1>2, <1>4, <1>10 DEF Alike, InView, Unsent
<1> QED BY <1>5, <1>11

-----------------------------------------------------------------------------
(* The middlewares keep the invariant *)

LEMMA HereIs ==
    ASSUME PipeInv, at # "answered"
    PROVE  /\ DOMAIN req = RequestFields /\ Known(req, seen) /\ req.ran = FALSE /\ req.cookies = <<>>
           /\ Placed(at, req, resp, seen)
           /\ at # "idle" => user \in seen
BY DEF PipeInv, PipeAt

\* The place moves on, the request does not change.
LEMMA MovedOn ==
    ASSUME PipeInv, at \notin {"idle", "answered"}, req' = req, Same, at' # "answered",
           Placed(at', req, resp', seen)
    PROVE  PipeInv'
<1>1. /\ DOMAIN req = RequestFields /\ Known(req, seen) /\ req.ran = FALSE /\ req.cookies = <<>>
      /\ user \in seen
  BY HereIs
<1>2. PICK a, p : a = at' /\ p = resp'
  OBVIOUS
<1>3. seen' = seen /\ user' = user
  BY DEF Same
<1>4. PipeAt(a, req, p, seen, user)
  BY <1>1, <1>2 DEF PipeAt
<1> QED BY <1>2, <1>3, <1>4, PipeInvNext

\* The request is answered, without the handler.
LEMMA AnsweredNow ==
    ASSUME PipeInv, at \notin {"idle", "answered"}, req' = req, Same,
           NEW r, NEW s, Answer(r, s), Vetted(req, writeHead(Stated(r, s)), seen),
           Follows(writeHead(Stated(r, s)), req.route, <<>>, req.host)
    PROVE  PipeInv'
<1>1. at' = "answered" /\ resp' = writeHead(Stated(r, s))
  BY Answering
<1>2. PICK t : t = writeHead(Stated(r, s))
  OBVIOUS
<1>3. PipeAt(at, req, resp, seen, user)
  BY DEF PipeInv
<1>4. PipeAt("answered", req, t, seen, user)
  BY <1>2, <1>3, Refused
<1>5. seen' = seen /\ user' = user
  BY DEF Same
<1> QED BY <1>1, <1>2, <1>4, <1>5, PipeInvNext

\* A preflight varies on its origin as well.
LEMMA PreflightFollows ==
    ASSUME NEW r, BeforeCors(r), NEW route, route.renderers = PlainDjango
    PROVE  Follows(writeHead(Stated(patchVaryHeaders(r, "Origin"), 200)), route, <<>>, TRUE)
<1>1. PICK field \in Fields : field = "Origin"
  BY DEF Fields
<1>2. PICK v : v = patchVaryHeaders(r, field)
  OBVIOUS
<1>3. r \in Responses
  BY DEF BeforeCors, Unsent
<1>4. /\ v \in Responses /\ v.status = r.status /\ v.allow = r.allow
      /\ v.vary = IF Contains(r.vary, field) THEN r.vary ELSE Append(r.vary, field)
      /\ v.hooks = r.hooks /\ v.floor = r.floor
  BY <1>2, <1>3, Patched
<1>5. v.vary = <<"Origin">> /\ v.hooks = Framed /\ v.floor = Unfloored /\ v.allow = FALSE
  BY <1>1, <1>4, Heads DEF BeforeCors, Unsent
<1>6. PICK t : t = Stated(v, 200)
  OBVIOUS
<1>7. Alike(t, v) /\ t.status = 200 /\ t.hooks = v.hooks
  BY <1>4, <1>6, Restated
<1>8. t \in Responses /\ t.vary = <<"Origin">> /\ t.hooks = Framed /\ t.floor = Unfloored /\ t.allow = FALSE
  BY <1>5, <1>7 DEF Alike
<1>9. PICK q : q = writeHead(t)
  OBVIOUS
<1>10. Sent(q, t) /\ q.allow = t.allow /\ q.vary = t.vary
  BY <1>8, <1>9, FramedHead
<1>11. q.status = 200 /\ q.status # 301 /\ q.frame = TRUE /\ q.express = FALSE /\ q.allow = FALSE /\ q.vary = <<"Origin">>
  BY <1>7, <1>8, <1>10 DEF Sent
<1>13. q.vary = <<>> \o <<>> \o <<"Origin">> \o <<>>
  BY <1>11, Varied
<1>12. Follows(q, route, <<>>, TRUE)
  BY <1>11, <1>13, NoCookies DEF Follows
<1> QED BY <1>1, <1>2, <1>6, <1>9, <1>12

LEMMA InitPipeInv ==
    ASSUME Init
    PROVE  PipeInv
<1>1. /\ req = Begun(Ordinary) /\ at = "idle" /\ seen = {}
  BY DEF Init
<1>2. /\ DOMAIN req = RequestFields /\ req.role = Anonymous /\ req.ran = FALSE /\ req.cookies = <<>>
      /\ req.route = NoRoute /\ req.controller = NoController
  BY <1>1 DEF Begun, RequestFields
<1>3. req.path.segments \in Seq(Segments)
  <2>1. req.path.segments = <<"api", "loan">>
    BY <1>1 DEF Begun, Ordinary, Path
  <2>2. "api" \in Segments /\ "loan" \in Segments
    BY DEF Segments, Uids, SignedLetters, Letters
  <2> QED BY <2>1, <2>2
<1>4. Placed(at, req, resp, seen)
  BY <1>1, <1>2, <1>3 DEF Placed
<1>5. Known(req, seen)
  BY <1>2 DEF Known
<1> QED BY <1>1, <1>2, <1>4, <1>5 DEF PipeInv, PipeAt

LEMMA ArriveKeeps ==
    ASSUME ConstantsAssumption, Arrive
    PROVE  PipeInv'
<1>1. PICK r \in Requests : req' = Begun(r)
  BY DEF Arrive
<1>2. at' = "hosts" /\ resp' = Fresh /\ seen' = {user} /\ user' = user
  BY DEF Arrive
<1>3. PICK q : q = Begun(r)
  OBVIOUS
<1>4. /\ DOMAIN q = RequestFields /\ q.role = Anonymous /\ q.ran = FALSE /\ q.cookies = <<>>
      /\ q.route = NoRoute /\ q.controller = NoController /\ q.path = r.path /\ q.host = r.host
  BY <1>3 DEF Begun, RequestFields
<1>5. q.path.segments \in Seq(Segments) /\ q.host \in BOOLEAN
  BY <1>4 DEF ConstantsAssumption
<1>6. Bare(Fresh)
  BY DEF Fresh, Bare, Unsent, Responses, Unfloored
<1>7. Placed("hosts", q, Fresh, {user})
  BY <1>4, <1>5, <1>6 DEF Placed
<1>8. Known(q, {user})
  BY <1>4 DEF Known
<1>9. PipeAt("hosts", q, Fresh, {user}, user)
  BY <1>4, <1>7, <1>8 DEF PipeAt
<1> QED BY <1>1, <1>2, <1>3, <1>9, PipeInvNext

LEMMA DjangoAllowedHostsKeeps ==
    ASSUME PipeInv, DjangoAllowedHosts
    PROVE  PipeInv'
<1>1. at = "hosts" /\ req' = req /\ Same
  BY DEF DjangoAllowedHosts
<1>2. /\ req.controller = NoController /\ req.route = NoRoute /\ Bare(resp)
      /\ req.path.segments \in Seq(Segments) /\ req.host \in BOOLEAN
  BY <1>1, HereIs DEF Placed
<1>3. CASE req.host
  <2>1. at' = "slash" /\ resp' = resp
    BY <1>3 DEF DjangoAllowedHosts
  <2>2. Placed("slash", req, resp, seen)
    BY <1>2, <1>3 DEF Placed
  <2> QED BY <1>1, <2>1, <2>2, MovedOn
<1>4. CASE ~req.host
  <2>0. PICK depth \in Nat, s \in Nat : depth = SESSION /\ s = 400
    BY DEF SESSION
  <2>1. PICK r : r = Early(resp, SESSION)
    OBVIOUS
  <2>2. Answer(r, 400)
    BY <1>4, <2>1 DEF DjangoAllowedHosts, Early
  <2>3. Follows(writeHead(Stated(r, 400)), req.route, <<>>, req.host)
    <3>0. depth \in Nat /\ s \in Nat
      BY <2>0
    <3>1. Bare(resp) /\ req.route.renderers = PlainDjango
      BY <1>2, PlainIsNone
    <3>2. PICK host : host = FALSE
      OBVIOUS
    <3>3. Follows(writeHead(Stated(Early(resp, depth), s)), req.route, <<>>, host)
      BY <3>0, <3>1, <3>2, AnswerBare
    <3>4. req.host = host
      BY <1>2, <1>4, <3>2
    <3> QED BY <2>0, <2>1, <3>3, <3>4
  <2>4. Vetted(req, writeHead(Stated(r, 400)), seen)
    BY <1>2, NothingVetted
  <2> QED BY <1>1, <2>2, <2>3, <2>4, AnsweredNow
<1> QED BY <1>3, <1>4

LEMMA DjangoAppendSlashKeeps ==
    ASSUME PipeInv, DjangoAppendSlash
    PROVE  PipeInv'
<1>1. at = "slash" /\ req' = req /\ Same
  BY DEF DjangoAppendSlash
<1>2. /\ req.controller = NoController /\ req.route = NoRoute /\ Bare(resp) /\ req.host = TRUE
      /\ req.path.segments \in Seq(Segments)
  BY <1>1, HereIs DEF Placed
<1>3. CASE at' = "headers" /\ resp' = resp
  <2>1. Placed("headers", req, resp, seen)
    BY <1>2 DEF Placed
  <2> QED BY <1>1, <1>3, <2>1, MovedOn
<1>4. CASE Answer(Early(resp, COMMON), 301)
  <2>0. PICK depth \in Nat, s \in Nat : depth = COMMON /\ s = 301
    BY DEF COMMON
  <2>1. PICK r : r = Early(resp, COMMON)
    OBVIOUS
  <2>2. Follows(writeHead(Stated(r, 301)), req.route, <<>>, req.host)
    <3>0. depth \in Nat /\ s \in Nat
      BY <2>0
    <3>1. Bare(resp) /\ req.route.renderers = PlainDjango /\ s = 301
      BY <1>2, <2>0, PlainIsNone
    <3>2. Follows(writeHead(Stated(Early(resp, depth), s)), req.route, <<>>, req.host)
      BY <3>0, <3>1, AnswerBare, ZenonT(30)
    <3> QED BY <2>0, <2>1, <3>2
  <2>3. Vetted(req, writeHead(Stated(r, 301)), seen)
    BY <1>2, NothingVetted
  <2> QED BY <1>1, <1>4, <2>1, <2>2, <2>3, AnsweredNow
<1> QED BY <1>3, <1>4 DEF DjangoAppendSlash, Early

LEMMA DjangoResponseHeadersKeeps ==
    ASSUME PipeInv, DjangoResponseHeaders
    PROVE  PipeInv'
<1>1. at = "headers" /\ at' = "cors" /\ req' = req /\ Same
  BY DEF DjangoResponseHeaders
<1>2. /\ req.controller = NoController /\ req.route = NoRoute /\ Bare(resp) /\ req.host = TRUE
      /\ req.path.segments \in Seq(Segments)
  BY <1>1, HereIs DEF Placed
<1>3. BeforeCors(resp')
  BY <1>2, FramedNext DEF DjangoResponseHeaders
<1>4. Placed("cors", req, resp', seen)
  BY <1>2, <1>3 DEF Placed
<1> QED BY <1>1, <1>4, MovedOn

LEMMA DjangoCorsKeeps ==
    ASSUME PipeInv, DjangoCors
    PROVE  PipeInv'
<1>1. at = "cors" /\ req' = req /\ Same
  BY DEF DjangoCors
<1>2. /\ req.controller = NoController /\ req.route = NoRoute /\ BeforeCors(resp) /\ req.host = TRUE
      /\ req.path.segments \in Seq(Segments)
  BY <1>1, HereIs DEF Placed
<1>3. CASE at' = "resolver" /\ resp' = onBeforeHeaders(resp, CORS, "origin")
  <2>1. BeforeView(resp')
    BY <1>2, <1>3, SharedNext
  <2>2. Placed("resolver", req, resp', seen)
    BY <1>2, <2>1 DEF Placed
  <2> QED BY <1>1, <1>3, <2>2, MovedOn
<1>4. CASE Answer(patchVaryHeaders(resp, "Origin"), 200)
  <2>1. PICK r : r = patchVaryHeaders(resp, "Origin")
    OBVIOUS
  <2>2. Follows(writeHead(Stated(r, 200)), req.route, <<>>, req.host)
    BY <1>2, <2>1, PreflightFollows, PlainIsNone
  <2>3. Vetted(req, writeHead(Stated(r, 200)), seen)
    BY <1>2, NothingVetted
  <2> QED BY <1>1, <1>4, <2>1, <2>2, <2>3, AnsweredNow
<1> QED BY <1>3, <1>4 DEF DjangoCors

-----------------------------------------------------------------------------
(* The resolver, the view and the guards keep the invariant *)

Directed(q, route, path) == [q EXCEPT !.route = route, !.path = path]
Parsed(q, b) == [q EXCEPT !.parse = b]
Controlled(q, c) == [q EXCEPT !.controller = c]
Authenticated(q, role) == [q EXCEPT !.role = role]
RanBy(q, cookies) == [q EXCEPT !.ran = TRUE, !.cookies = cookies]

\* What a request keeps all the way.
Carried(t, q) ==
    /\ DOMAIN t = RequestFields /\ t.method = q.method /\ t.host = q.host /\ t.auth = q.auth
    /\ t.outcome = q.outcome

LEMMA RoutedIs ==
    ASSUME NEW q, DOMAIN q = RequestFields, NEW route, NEW path, NEW t, t = Directed(q, route, path)
    PROVE  /\ Carried(t, q) /\ t.route = route /\ t.path = path /\ t.controller = q.controller
           /\ t.role = q.role /\ t.ran = q.ran /\ t.cookies = q.cookies
BY DEF Directed, Carried, RequestFields

LEMMA ParsedIs ==
    ASSUME NEW q, DOMAIN q = RequestFields, NEW b, NEW t, t = Parsed(q, b)
    PROVE  /\ Carried(t, q) /\ t.route = q.route /\ t.path = q.path /\ t.controller = q.controller
           /\ t.role = q.role /\ t.ran = q.ran /\ t.cookies = q.cookies
BY DEF Parsed, Carried, RequestFields

LEMMA ControlledIs ==
    ASSUME NEW q, DOMAIN q = RequestFields, NEW c, NEW t, t = Controlled(q, c)
    PROVE  /\ Carried(t, q) /\ t.route = q.route /\ t.path = q.path /\ t.controller = c
           /\ t.role = q.role /\ t.ran = q.ran /\ t.cookies = q.cookies
BY DEF Controlled, Carried, RequestFields

LEMMA AuthenticatedIs ==
    ASSUME NEW q, DOMAIN q = RequestFields, NEW role, NEW t, t = Authenticated(q, role)
    PROVE  /\ Carried(t, q) /\ t.route = q.route /\ t.path = q.path /\ t.controller = q.controller
           /\ t.role = role /\ t.ran = q.ran /\ t.cookies = q.cookies
BY DEF Authenticated, Carried, RequestFields

\* The handler has run.
Worked(t, cookies) == t.ran = TRUE /\ t.cookies = cookies

LEMMA RanByIs ==
    ASSUME NEW q, DOMAIN q = RequestFields, NEW cookies, NEW t, t = RanBy(q, cookies)
    PROVE  /\ Carried(t, q) /\ t.route = q.route /\ t.path = q.path /\ t.controller = q.controller
           /\ t.role = q.role /\ Worked(t, cookies)
BY DEF RanBy, Worked, Carried, RequestFields

\* The place moves on, and so does what is known of the request.
LEMMA MovedWith ==
    ASSUME PipeInv, at \notin {"idle", "answered"}, Same, at' # "answered",
           NEW q, req' = q, Carried(q, req), Known(q, seen), q.ran = req.ran, q.cookies = req.cookies,
           Placed(at', q, resp', seen)
    PROVE  PipeInv'
<1>1. req.ran = FALSE /\ req.cookies = <<>> /\ user \in seen
  BY HereIs
<1>2. PICK a, p : a = at' /\ p = resp'
  OBVIOUS
<1>3. seen' = seen /\ user' = user
  BY DEF Same
<1>4. DOMAIN q = RequestFields
  BY DEF Carried
<1>5. PipeAt(a, q, p, seen, user)
  BY <1>1, <1>2, <1>4 DEF PipeAt
<1> QED BY <1>2, <1>3, <1>5, PipeInvNext

Statuses == {200, 400, 401, 403, 404, 405, 406, 415, 500}

\* What is answered at the view, with its host known to be good.
AtView(r, q) == InView(r, q.route) /\ q.host = TRUE
Answers(t, q, n) == Follows(writeHead(t), q.route, <<>>, q.host) /\ writeHead(t).status = n

LEMMA ViewAnswers ==
    ASSUME NEW r, NEW q, AtView(r, q), NEW n \in Statuses
    PROVE  Answers(Stated(r, n), q, n) /\ Answers(Stated(Rendered(r), n), q, n)
<1>1. n \in Nat /\ n # 301
  BY DEF Statuses
<1>2. PICK route : route = q.route
  OBVIOUS
<1>3. InView(r, route) /\ q.host = TRUE
  BY <1>2 DEF AtView
<1>4. /\ Follows(writeHead(Stated(r, n)), route, <<>>, TRUE)
      /\ writeHead(Stated(r, n)).status = n
      /\ Follows(writeHead(Stated(Rendered(r), n)), route, <<>>, TRUE)
      /\ writeHead(Stated(Rendered(r), n)).status = n
  BY <1>1, <1>3, AnswerInView
<1>5. Answers(Stated(r, n), q, n)
  BY <1>2, <1>3, <1>4 DEF Answers
<1>6. Answers(Stated(Rendered(r), n), q, n)
  BY <1>2, <1>3, <1>4 DEF Answers
<1> QED BY <1>5, <1>6

LEMMA DjangoUrlResolverKeeps ==
    ASSUME PipeInv, DjangoUrlResolver
    PROVE  PipeInv'
<1>1. at = "resolver" /\ Same
  BY DEF DjangoUrlResolver
<1>2. /\ req.controller = NoController /\ req.route = NoRoute /\ BeforeView(resp) /\ req.host = TRUE
      /\ req.path.segments \in Seq(Segments)
  BY <1>1, HereIs DEF Placed
<1>3. PICK route : route = resolveDjangoUrl(req.path)
  OBVIOUS
<1>4. CASE route = NoRoute
  <2>1. Answer(resp, 404) /\ req' = req
    BY <1>3, <1>4 DEF DjangoUrlResolver
  <2>2. Follows(writeHead(Stated(resp, 404)), req.route, <<>>, req.host)
    <3>1. InView(resp, req.route)
      BY <1>2, PlainIsNone DEF InView
    <3>2. AtView(resp, req)
      BY <1>2, <3>1 DEF AtView
    <3>3. PICK n \in Statuses : n = 404
      BY DEF Statuses
    <3>4. Answers(Stated(resp, n), req, n)
      BY <3>2, <3>3, ViewAnswers
    <3> QED BY <3>3, <3>4 DEF Answers
  <2>3. Vetted(req, writeHead(Stated(resp, 404)), seen)
    BY <1>2, NothingVetted
  <2> QED BY <1>1, <2>1, <2>2, <2>3, AnsweredNow
<1>5. CASE route # NoRoute
  <2>1. EntryGood(route) /\ Fits(route, req.path)
    BY <1>3, <1>5, Resolved
  <2>2. PICK path : path = Target(req.path, route)
    OBVIOUS
  <2>3. Aimed(path, route)
    BY <1>2, <2>1, <2>2, Targeted
  <2>4. PICK q : q = Directed(req, route, path)
    OBVIOUS
  <2>5. at' = "negotiation" /\ req' = q
    BY <1>3, <1>5, <2>2, <2>4 DEF DjangoUrlResolver, Directed
  <2>6. /\ Carried(q, req) /\ q.route = route /\ q.path = path /\ q.controller = req.controller
        /\ q.role = req.role /\ q.ran = req.ran /\ q.cookies = req.cookies
    BY <2>4, HereIs, RoutedIs, <1>1
  <2>7. InView(resp', route)
    <3>1. CASE route.renderers = PlainDjango
      <4>1. resp' = resp
        BY <1>3, <1>5, <3>1 DEF DjangoUrlResolver
      <4> QED BY <1>2, <3>1, <4>1 DEF InView
    <3>2. CASE route.renderers # PlainDjango
      <4>1. PICK headed : headed = [resp EXCEPT !.allow = TRUE,
                                         !.vary = IF route.renderers = DEFAULT THEN <<"Accept">> ELSE @]
        OBVIOUS
      <4>2. resp' = onBeforeHeaders(headed, VIEW, "undo")
        BY <1>3, <1>5, <3>2, <4>1 DEF DjangoUrlResolver
      <4> QED BY <1>2, <3>2, <4>1, <4>2, ViewedNext
    <3> QED BY <3>1, <3>2
  <2>8. Known(q, seen)
    BY <1>1, <2>6, HereIs DEF Known
  <2>9. q.host = TRUE
    BY <1>2, <2>6 DEF Carried
  <2>10. Placed("negotiation", q, resp', seen)
    BY <1>2, <2>3, <2>6, <2>7, <2>9 DEF Placed
  <2> QED BY <1>1, <2>5, <2>6, <2>8, <2>10, MovedWith
<1> QED BY <1>4, <1>5

LEMMA DrfContentNegotiationKeeps ==
    ASSUME PipeInv, DrfContentNegotiation
    PROVE  PipeInv'
<1>1. at = "negotiation" /\ Same /\ req' = req
  BY DEF DrfContentNegotiation
<1>2. /\ req.controller = NoController /\ InView(resp, req.route) /\ req.host = TRUE
      /\ Aimed(req.path, req.route)
  BY <1>1, HereIs DEF Placed
<1>3. CASE at' = "parsing" /\ resp' = resp
  <2>1. Placed("parsing", req, resp, seen)
    BY <1>2 DEF Placed
  <2> QED BY <1>1, <1>3, <2>1, MovedOn
<1>4. ASSUME NEW s \in {404, 406}, Answer(resp, s)
      PROVE  PipeInv'
  <2>1. s \in Statuses
    BY DEF Statuses
  <2>2. Follows(writeHead(Stated(resp, s)), req.route, <<>>, req.host)
    <3>1. AtView(resp, req)
      BY <1>2 DEF AtView
    <3>2. Answers(Stated(resp, s), req, s)
      BY <2>1, <3>1, ViewAnswers
    <3> QED BY <3>2 DEF Answers
  <2>3. Vetted(req, writeHead(Stated(resp, s)), seen)
    BY <1>2, NothingVetted
  <2> QED BY <1>1, <1>4, <2>2, <2>3, AnsweredNow
<1>5. (at' = "parsing" /\ resp' = resp) \/ Answer(resp, 404) \/ Answer(resp, 406)
  BY DEF DrfContentNegotiation
<1> QED BY <1>3, <1>4, <1>5

LEMMA DrfRequestParsingKeeps ==
    ASSUME PipeInv, DrfRequestParsing
    PROVE  PipeInv'
<1>1. at = "parsing" /\ at' = "route" /\ Same /\ resp' = resp
  BY DEF DrfRequestParsing
<1>2. /\ req.controller = NoController /\ InView(resp, req.route) /\ req.host = TRUE
      /\ Aimed(req.path, req.route)
  BY <1>1, HereIs DEF Placed
<1>3. CASE req' = req
  <2>1. Placed("route", req, resp, seen)
    BY <1>2 DEF Placed
  <2> QED BY <1>1, <1>3, <2>1, MovedOn
<1>4. CASE req' = Parsed(req, req.body)
  <2>1. PICK q : q = Parsed(req, req.body)
    OBVIOUS
  <2>2. /\ Carried(q, req) /\ q.route = req.route /\ q.path = req.path /\ q.controller = req.controller
        /\ q.role = req.role /\ q.ran = req.ran /\ q.cookies = req.cookies
    BY <1>1, <2>1, HereIs, ParsedIs
  <2>3. Known(q, seen)
    BY <1>1, <2>2, HereIs DEF Known
  <2>4. q.host = TRUE
    BY <1>2, <2>2 DEF Carried
  <2>5. Placed("route", q, resp, seen)
    BY <1>2, <2>2, <2>4 DEF Placed
  <2> QED BY <1>1, <1>4, <2>1, <2>2, <2>3, <2>5, MovedWith
<1> QED BY <1>3, <1>4 DEF DrfRequestParsing, Parsed

LEMMA RouteKeeps ==
    ASSUME PipeInv, Route
    PROVE  PipeInv'
<1>1. at = "route" /\ Same
  BY DEF Route
<1>2. /\ req.controller = NoController /\ InView(resp, req.route) /\ req.host = TRUE
      /\ Aimed(req.path, req.route)
  BY <1>1, HereIs DEF Placed
<1>3. PICK c : c = NestRoute(req.path, req.method)
  OBVIOUS
<1>4. CASE c = NoController
  <2>1. Answer(resp, 404) /\ req' = req
    BY <1>3, <1>4 DEF Route
  <2>2. Follows(writeHead(Stated(resp, 404)), req.route, <<>>, req.host)
    <3>1. PICK n \in Statuses : n = 404
      BY DEF Statuses
    <3>2. AtView(resp, req)
      BY <1>2 DEF AtView
    <3>3. Answers(Stated(resp, n), req, n)
      BY <3>1, <3>2, ViewAnswers
    <3> QED BY <3>1, <3>3 DEF Answers
  <2>3. Vetted(req, writeHead(Stated(resp, 404)), seen)
    BY <1>2, NothingVetted
  <2> QED BY <1>1, <2>1, <2>2, <2>3, AnsweredNow
<1>5. CASE c # NoController
  <2>1. ControllerGood(c) /\ Serves(c, req.path)
    BY <1>3, <1>5, Served
  <2>2. PICK q : q = Controlled(req, c)
    OBVIOUS
  <2>3. at' = "token" /\ req' = q /\ resp' = resp
    BY <1>3, <1>5, <2>2 DEF Route, Controlled
  <2>4. /\ Carried(q, req) /\ q.route = req.route /\ q.path = req.path /\ q.controller = c
        /\ q.role = req.role /\ q.ran = req.ran /\ q.cookies = req.cookies
    BY <1>1, <2>2, HereIs, ControlledIs
  <2>5. Known(q, seen)
    BY <1>1, <2>4, HereIs DEF Known
  <2>6. q.host = TRUE
    BY <1>2, <2>4 DEF Carried
  <2>7. Placed("token", q, resp, seen)
    BY <1>2, <2>1, <2>4, <2>6 DEF Placed
  <2> QED BY <1>1, <2>3, <2>4, <2>5, <2>7, MovedWith
<1> QED BY <1>4, <1>5

-----------------------------------------------------------------------------
(* The guards, the interceptor and the handler keep the invariant *)

LEMMA PlainIs == isPlainDjangoView <=> Plain(req)
BY DEF isPlainDjangoView, Plain

\* What is answered there when the handler has not run.
LEMMA RefusedThere ==
    ASSUME PipeInv, at \in {"token", "roles", "interceptor"}, req' = req, Same,
           NEW r \in {resp, Rendered(resp)}, NEW n \in Statuses, Answer(r, n),
           req.auth = "malformed" => n = 401 \/ Plain(req),
           n \in {400, 415} /\ req.controller.guard = "roles" => Might(req, seen)
    PROVE  PipeInv'
<1>1. InView(resp, req.route) /\ req.host = TRUE
  BY HereIs DEF Placed
<1>2. /\ Follows(writeHead(Stated(r, n)), req.route, <<>>, req.host)
      /\ writeHead(Stated(r, n)).status = n
  <2>1. AtView(resp, req)
    BY <1>1 DEF AtView
  <2>2. Answers(Stated(r, n), req, n)
    BY <2>1, ViewAnswers
  <2> QED BY <2>2 DEF Answers
<1>3. Vetted(req, writeHead(Stated(r, n)), seen)
  BY <1>2 DEF Vetted, Plain
<1> QED BY <1>2, <1>3, AnsweredNow

LEMMA TokenAuthGuardKeeps ==
    ASSUME PipeInv, TokenAuthGuard
    PROVE  PipeInv'
<1>1. at = "token" /\ Same
  BY DEF TokenAuthGuard
<1>2. /\ InView(resp, req.route) /\ req.host = TRUE /\ Aimed(req.path, req.route)
      /\ ControllerGood(req.controller) /\ Serves(req.controller, req.path)
  BY <1>1, HereIs DEF Placed
<1>3. CASE /\ isPlainDjangoView \/ req.auth \in {"none", "other"}
           /\ at' = "roles" /\ UNCHANGED <<resp, req>>
  <2>1. req.auth = "malformed" => Plain(req)
    BY <1>3, PlainIs
  <2>2. Placed("roles", req, resp, seen)
    BY <1>2, <2>1 DEF Placed
  <2> QED BY <1>1, <1>3, <2>2, MovedOn
<1>4. CASE /\ req.auth = "key" /\ user.key /\ user.active
           /\ at' = "roles" /\ req' = [req EXCEPT !.role = user.role] /\ UNCHANGED resp
  <2>1. PICK q : q = Authenticated(req, user.role)
    OBVIOUS
  <2>2. /\ Carried(q, req) /\ q.route = req.route /\ q.path = req.path /\ q.controller = req.controller
        /\ q.role = user.role /\ q.ran = req.ran /\ q.cookies = req.cookies
    BY <1>1, <2>1, HereIs, AuthenticatedIs
  <2>3. Known(q, seen)
    BY <1>1, <1>4, <2>2, HereIs DEF Known
  <2>4. q.host = TRUE /\ q.auth = "key"
    BY <1>2, <1>4, <2>2 DEF Carried
  <2>5. Placed("roles", q, resp, seen)
    BY <1>2, <2>2, <2>4 DEF Placed
  <2>6. req' = q
    BY <1>4, <2>1 DEF Authenticated
  <2> QED BY <1>1, <1>4, <2>2, <2>3, <2>5, <2>6, MovedWith
<1>5. CASE Answer(Rendered(resp), 401) /\ req' = req
  <2>1. 401 \in Statuses
    BY DEF Statuses
  <2> QED BY <1>1, <1>5, <2>1, RefusedThere
<1>6. CASE req.auth = "key" /\ Answer(resp, 500) /\ req' = req
  <2>1. 500 \in Statuses
    BY DEF Statuses
  <2> QED BY <1>1, <1>6, <2>1, RefusedThere
<1> QED BY <1>3, <1>4, <1>5, <1>6 DEF TokenAuthGuard

LEMMA RolesGuardKeeps ==
    ASSUME PipeInv, RolesGuard
    PROVE  PipeInv'
<1>1. at = "roles" /\ Same /\ req' = req
  BY DEF RolesGuard
<1>2. /\ InView(resp, req.route) /\ req.host = TRUE /\ Aimed(req.path, req.route)
      /\ ControllerGood(req.controller) /\ Serves(req.controller, req.path)
      /\ req.auth = "malformed" => Plain(req)
  BY <1>1, HereIs DEF Placed
<1>3. ASSUME at' = "interceptor", resp' = resp,
             req.controller.guard = "roles" => Might(req, seen) /\ req.controller.view = req.route.view
      PROVE  PipeInv'
  <2>1. Placed("interceptor", req, resp, seen)
    BY <1>2, <1>3 DEF Placed
  <2> QED BY <1>1, <1>3, <2>1, MovedOn
<1>4. CASE (isPlainDjangoView \/ req.controller.guard = "public") /\ at' = "interceptor" /\ resp' = resp
  <2>1. req.controller.guard # "roles"
    BY <1>4 DEF isPlainDjangoView
  <2> QED BY <1>3, <1>4, <2>1
<1>5. CASE /\ req.role # Anonymous /\ req.controller.view = req.route.view
           /\ isRoleAllowed(req.controller.view, req.method, req.role)
           /\ at' = "interceptor" /\ resp' = resp
  <2>1. PICK u \in seen : u.key /\ u.active /\ u.role = req.role
    BY <1>1, <1>5, HereIs DEF Known
  <2>2. PICK view, method, role : view = req.controller.view /\ method = req.method /\ role = req.role
    OBVIOUS
  <2>3. role \in Roles /\ <<view, method>> \in V1_ROLE_MATRIX[role]
    BY <1>5, <2>2, NoNewRights
  <2>4. u.role \in Roles /\ <<req.route.view, req.method>> \in V1_ROLE_MATRIX[u.role]
    BY <1>5, <2>1, <2>2, <2>3
  <2>5. Might(req, seen)
    BY <2>1, <2>4 DEF Might
  <2> QED BY <1>3, <1>5, <2>5
<1>6. ASSUME NEW r \in {resp, Rendered(resp)}, NEW n \in {401, 403, 500}, Answer(r, n)
      PROVE  PipeInv'
  <2>1. n \in Statuses /\ n \notin {400, 415}
    BY DEF Statuses
  <2> QED BY <1>1, <1>2, <1>6, <2>1, RefusedThere
<1>7. \/ (isPlainDjangoView \/ req.controller.guard = "public") /\ at' = "interceptor" /\ resp' = resp
      \/ Answer(Rendered(resp), 401) \/ Answer(resp, 500) \/ Answer(Rendered(resp), 403)
      \/ /\ req.role # Anonymous /\ req.controller.view = req.route.view
         /\ isRoleAllowed(req.controller.view, req.method, req.role)
         /\ at' = "interceptor" /\ resp' = resp
  BY DEF RolesGuard
<1>8. ASSUME Answer(Rendered(resp), 401)
      PROVE  PipeInv'
  BY <1>6, <1>8
<1>9. ASSUME Answer(resp, 500)
      PROVE  PipeInv'
  BY <1>6, <1>9
<1>10. ASSUME Answer(Rendered(resp), 403)
       PROVE  PipeInv'
  BY <1>6, <1>10
<1> QED BY <1>4, <1>5, <1>7, <1>8, <1>9, <1>10

LEMMA DrfParserInterceptorKeeps ==
    ASSUME PipeInv, DrfParserInterceptor
    PROVE  PipeInv'
<1>1. at = "interceptor" /\ Same /\ req' = req
  BY DEF DrfParserInterceptor
<1>2. /\ InView(resp, req.route) /\ req.host = TRUE /\ Aimed(req.path, req.route)
      /\ ControllerGood(req.controller) /\ Serves(req.controller, req.path)
      /\ req.auth = "malformed" => Plain(req)
      /\ req.controller.guard = "roles" => Might(req, seen) /\ req.controller.view = req.route.view
  BY <1>1, HereIs DEF Placed
<1>3. CASE at' = "handler" /\ resp' = resp
  <2>1. Placed("handler", req, resp, seen)
    BY <1>2 DEF Placed
  <2> QED BY <1>1, <1>3, <2>1, MovedOn
<1>4. ASSUME NEW n \in {400, 415}, Answer(Rendered(resp), n)
      PROVE  PipeInv'
  <2>1. n \in Statuses
    BY DEF Statuses
  <2> QED BY <1>1, <1>2, <1>4, <2>1, RefusedThere
<1>5. (at' = "handler" /\ resp' = resp) \/ Answer(Rendered(resp), 415) \/ Answer(Rendered(resp), 400)
  BY DEF DrfParserInterceptor
<1> QED BY <1>3, <1>4, <1>5

LEMMA NumbersRead ==
    ASSUME NEW q, Aimed(q.path, q.route), ControllerGood(q.controller),
           q.controller.guard = "roles" => q.controller.view = q.route.view
    PROVE  Reads(q)
<1>1. q.controller.view \in {q.route.view, "none"}
  BY DEF ControllerGood
<1>2. "none" \notin NumberViews /\ "none" # "ActivityYearDetailView" /\ "none" # "UserDetailView"
  BY DEF NumberViews
<1>3. CASE q.controller.view = "none"
  BY <1>2, <1>3 DEF Reads
<1>4. CASE q.controller.view = q.route.view
  <2>1. /\ q.controller.view \in NumberViews => q.path.segments[3] \in Digits
        /\ q.controller.view = "ActivityYearDetailView" => q.path.segments[4] \in Digits
        /\ q.controller.view = "UserDetailView" => q.path.segments[4] \in SignedDigits
    BY <1>4 DEF Aimed
  <2> QED BY <2>1 DEF Reads
<1> QED BY <1>1, <1>3, <1>4

\* The pages are the only views a controller of theirs is reached for.
LEMMA PagesAimed ==
    ASSUME NEW q, Aimed(q.path, q.route), ControllerGood(q.controller), Serves(q.controller, q.path),
           q.controller.guard = "django"
    PROVE  q.route.view \in PasswordViews /\ q.route.renderers = PlainDjango
<1>1. 1 \in DOMAIN q.controller.segments /\ q.controller.segments[1] \in {"password_reset", "reset"}
  BY DEF ControllerGood
<1>2. q.controller.segments[1] \in {":", q.path.segments[1]}
  BY <1>1 DEF Serves
<1>3. q.path.segments[1] \in {"password_reset", "reset"}
  BY <1>1, <1>2
<1> QED BY <1>3 DEF Aimed

\* What a handler that did its work answers.
LEMMA WorkAnswered ==
    ASSUME NEW r, NEW q, InView(r, q.route), q.host = TRUE,
           NEW cookies \in {<<>>, <<VIEW>>, <<SESSION>>, <<SESSION, CSRF>>},
           cookies # <<>> => q.route.renderers = PlainDjango,
           NEW h, h = r.hooks \o Cookied(cookies)
    PROVE  Follows(writeHead(Stated(HookedBy(r, h), 200)), q.route, cookies, q.host)
<1>1. PICK route : route = q.route
  OBVIOUS
<1>2. CASE route.renderers = PlainDjango
  <2>1. BeforeView(r)
    BY <1>1, <1>2 DEF InView
  <2>2. h = Shared \o Cookied(cookies)
    BY <2>1 DEF BeforeView
  <2>3. h \in {Shared, OnView, OnSession, OnBoth}
    BY <2>2, CookiesAdded
  <2>9. PICK g \in {Shared, OnView, OnSession, OnBoth} : g = h
    BY <2>3
  <2>4. PICK t : t = Stated(HookedBy(r, g), 200)
    OBVIOUS
  <2>5. PageOf(t, g)
    <3>1. g \in {Shared, OnView, OnSession, OnBoth}
      BY <2>9
    <3> QED BY <2>1, <2>4, <3>1, PageAnswer
  <2>8. t.hooks = Shared \o Cookied(cookies)
    BY <2>2, <2>5, <2>9 DEF PageOf
  <2>6. PICK w : w = writeHead(t)
    OBVIOUS
  <2>7. Follows(w, route, cookies, TRUE)
    <3>1. /\ t \in Responses /\ t.floor = Unfloored /\ t.allow = FALSE
          /\ t.vary = <<>> /\ t.status = 200
      BY <2>5 DEF PageOf
    <3> QED BY <1>2, <2>6, <2>8, <3>1, PageFollows
  <2> QED BY <1>1, <2>4, <2>6, <2>7, <2>9
<1>3. CASE route.renderers # PlainDjango
  <2>1. cookies = <<>>
    BY <1>1, <1>3
  <2>2. r \in Responses /\ r.hooks = Viewed
    BY <1>1, <1>3 DEF InView, Unsent
  <2>3. h = Viewed
    <3>1. Cookied(cookies) = <<>>
      BY <2>1 DEF Cookied
    <3> QED BY <2>2, <3>1, HooksTyped, Nothing
  <2>4. PICK p : p = HookedBy(r, h)
    OBVIOUS
  <2>5. Alike(p, r) /\ p.hooks = r.hooks
    BY <2>2, <2>3, <2>4, Hooked, HooksTyped
  <2>6. InView(p, route)
    BY <1>1, <2>5, AlikePlaces
  <2>7. PICK n \in Statuses : n = 200
    BY DEF Statuses
  <2>8. InView(p, q.route)
    BY <1>1, <2>6
  <2>9. Follows(writeHead(Stated(p, n)), q.route, <<>>, q.host)
    <3>1. AtView(p, q)
      BY <2>8 DEF AtView
    <3>2. Answers(Stated(p, n), q, n)
      BY <2>7, <3>1, ViewAnswers
    <3> QED BY <3>2 DEF Answers
  <2> QED BY <2>1, <2>4, <2>7, <2>9
<1> QED BY <1>2, <1>3

LEMMA HandlerKeeps ==
    ASSUME PipeInv, Handler
    PROVE  PipeInv'
<1>1. at = "handler" /\ Same
  BY DEF Handler
<1>2. /\ InView(resp, req.route) /\ req.host = TRUE /\ Aimed(req.path, req.route)
      /\ ControllerGood(req.controller) /\ Serves(req.controller, req.path)
      /\ req.auth = "malformed" => Plain(req)
      /\ req.controller.guard = "roles" => Might(req, seen) /\ req.controller.view = req.route.view
  BY <1>1, HereIs DEF Placed
<1>3. PICK cookies \in IF req.controller.guard = "django" /\ req.outcome = "ok"
                       THEN {<<>>, <<VIEW>>, <<SESSION>>, <<SESSION, CSRF>>} ELSE {<<>>} :
          req' = RanBy(req, cookies)
  BY DEF Handler, RanBy
<1>4. /\ cookies \in {<<>>, <<VIEW>>, <<SESSION>>, <<SESSION, CSRF>>}
      /\ cookies # <<>> => req.controller.guard = "django" /\ req.outcome = "ok"
  BY <1>3
<1>5. PICK q : q = RanBy(req, cookies)
  OBVIOUS
<1>6. /\ Carried(q, req) /\ q.route = req.route /\ q.path = req.path /\ q.controller = req.controller
      /\ q.role = req.role /\ q.ran = TRUE /\ q.cookies = cookies
  <2>1. DOMAIN req = RequestFields
    BY <1>1, HereIs
  <2>2. /\ Carried(q, req) /\ q.route = req.route /\ q.path = req.path /\ q.controller = req.controller
        /\ q.role = req.role /\ Worked(q, cookies)
    BY <1>5, <2>1, RanByIs
  <2> QED BY <2>2 DEF Worked
<1>7. q.host = TRUE /\ q.auth = req.auth /\ q.method = req.method /\ DOMAIN q = RequestFields
  BY <1>2, <1>6 DEF Carried
<1>8. Known(q, seen) /\ user \in seen
  BY <1>1, <1>6, HereIs DEF Known
<1>9. /\ q.controller.guard = "roles" => Might(q, seen) /\ q.controller.view = q.route.view
      /\ q.controller.guard = "django" => q.route.view \in PasswordViews /\ q.route.renderers = PlainDjango
  <2>1. Might(req, seen) => Might(q, seen)
    BY <1>6, <1>7 DEF Might
  <2>2. req.controller.guard = "django" => req.route.view \in PasswordViews /\ req.route.renderers = PlainDjango
    BY <1>2, PagesAimed
  <2> QED BY <1>2, <1>6, <2>1, <2>2
<1>10. Reads(q)
  BY <1>2, <1>6, <1>9, NumbersRead
<1>11. Reached(q, seen)
  BY <1>9, <1>10 DEF Reached
<1>12. ASSUME NEW p
       PROVE  Vetted(q, p, seen)
  BY <1>2, <1>6, <1>7, <1>9 DEF Vetted, Plain
<1>13. ASSUME NEW p, at' = "answered", resp' = p, Follows(p, q.route, cookies, q.host)
       PROVE  PipeInv'
  <2>1. Follows(p, q.route, q.cookies, q.host)
    BY <1>6, <1>13
  <2>2. PipeAt("answered", q, p, seen, user)
    BY <1>7, <1>8, <1>11, <1>12, <2>1 DEF PipeAt
  <2>3. seen' = seen /\ user' = user
    BY <1>1 DEF Same
  <2> QED BY <1>3, <1>5, <1>13, <2>2, <2>3, PipeInvNext
<1>14. ASSUME NEW r \in {resp, Rendered(resp)}, NEW n \in Statuses, Answer(r, n), cookies = <<>>
       PROVE  PipeInv'
  <2>1. InView(resp, q.route) /\ q.host = TRUE
    BY <1>2, <1>6, <1>7
  <2>2. Follows(writeHead(Stated(r, n)), q.route, <<>>, q.host)
    <3>1. AtView(resp, q)
      BY <2>1 DEF AtView
    <3>2. Answers(Stated(r, n), q, n)
      BY <1>14, <3>1, ViewAnswers
    <3> QED BY <3>2 DEF Answers
  <2>3. at' = "answered" /\ resp' = writeHead(Stated(r, n))
    BY <1>14, Answering
  <2> QED BY <1>13, <1>14, <2>2, <2>3
<1>15. ASSUME NEW h, h = resp.hooks \o Cookied(cookies), Answer(HookedBy(resp, h), 200)
       PROVE  PipeInv'
  <2>1. InView(resp, q.route) /\ q.host = TRUE /\ (cookies # <<>> => q.route.renderers = PlainDjango)
    BY <1>2, <1>4, <1>6, <1>7, <1>9
  <2>2. Follows(writeHead(Stated(HookedBy(resp, h), 200)), q.route, cookies, q.host)
    BY <1>4, <1>15, <2>1, WorkAnswered, ZenonT(30)
  <2>3. at' = "answered" /\ resp' = writeHead(Stated(HookedBy(resp, h), 200))
    BY <1>15, Answering
  <2> QED BY <1>13, <2>2, <2>3
<1>16. CASE Verb(req.controller, req.method) \notin req.controller.verbs /\ req.controller.guard # "django"
  <2>1. cookies = <<>>
    BY <1>4, <1>16
  <2>2. Answer(Rendered(resp), 200) \/ Answer(Rendered(resp), 405)
    BY <1>16 DEF Handler
  <2>3. 200 \in Statuses /\ 405 \in Statuses
    BY DEF Statuses
  <2> QED BY <1>14, <2>1, <2>2, <2>3
<1>17. CASE req.outcome = "ApiException" /\ \E s \in {404, 500} : Answer(Rendered(resp), s)
  <2>1. cookies = <<>>
    BY <1>4, <1>17
  <2>2. PICK s \in {404, 500} : Answer(Rendered(resp), s)
    BY <1>17
  <2>3. s \in Statuses
    BY DEF Statuses
  <2> QED BY <1>14, <2>1, <2>2, <2>3
<1>18. CASE req.outcome = "crash" /\ Answer(resp, 500)
  <2>1. cookies = <<>>
    BY <1>4, <1>18
  <2>2. 500 \in Statuses
    BY DEF Statuses
  <2> QED BY <1>14, <1>18, <2>1, <2>2
<1>19. CASE Answer([resp EXCEPT !.hooks = @ \o [i \in DOMAIN req'.cookies |->
                                                    <<req'.cookies[i], "cookie">>]], 200)
  <2>1. PICK h : h = resp.hooks \o Cookied(cookies)
    OBVIOUS
  <2>2. req'.cookies = cookies
    BY <1>3, <1>5, <1>6
  <2>3. Answer(HookedBy(resp, h), 200)
    BY <1>19, <2>1, <2>2 DEF HookedBy, Cookied
  <2> QED BY <1>15, <2>1, <2>3
<1> QED BY <1>16, <1>17, <1>18, <1>19 DEF Handler

\* More is seen of the client.
LEMMA EditKeeps ==
    ASSUME PipeInv, Edit
    PROVE  PipeInv'
<1>1. req' = req /\ at' = at /\ resp' = resp /\ seen' = seen \cup {user'}
  BY DEF Edit
<1>2. PICK s, u : s = seen' /\ u = user'
  OBVIOUS
<1>3. seen \subseteq s /\ u \in s
  BY <1>1, <1>2
<1>4. Known(req, seen) => Known(req, s)
  BY <1>3 DEF Known
<1>5. Might(req, seen) => Might(req, s)
  BY <1>3 DEF Might
<1>6. Placed(at, req, resp, seen) => Placed(at, req, resp, s)
  BY <1>5 DEF Placed
<1>7. Reached(req, seen) => Reached(req, s)
  BY <1>5 DEF Reached
<1>8. Vetted(req, resp, seen) => Vetted(req, resp, s)
  BY <1>5 DEF Vetted
<1>9. PipeAt(at, req, resp, s, u)
  BY <1>3, <1>4, <1>6, <1>7, <1>8 DEF PipeInv, PipeAt
<1> QED BY <1>1, <1>2, <1>9, PipeInvNext

LEMMA PipeStep ==
    ASSUME ConstantsAssumption, PipeInv, [Next]_vars
    PROVE  PipeInv'
<1>1. CASE UNCHANGED vars
  <2>1. req' = req /\ at' = at /\ resp' = resp /\ seen' = seen /\ user' = user
    BY <1>1 DEF vars
  <2>2. PipeAt(at, req, resp, seen, user)
    BY DEF PipeInv
  <2> QED BY <2>1, <2>2, PipeInvNext
<1>2. CASE Next
  BY <1>2, ArriveKeeps, DjangoAllowedHostsKeeps, DjangoAppendSlashKeeps, DjangoResponseHeadersKeeps, DjangoCorsKeeps, DjangoUrlResolverKeeps, DrfContentNegotiationKeeps, DrfRequestParsingKeeps, RouteKeeps, TokenAuthGuardKeeps, RolesGuardKeeps, DrfParserInterceptorKeeps, HandlerKeeps, EditKeeps
     DEF Next
<1> QED BY <1>1, <1>2

LEMMA PipeInvSuffices ==
    ASSUME PipeInv
    PROVE  HandlersAreReachedByRight /\ CredentialsComeFirst /\ HeadersFollowDjango
<1>1. CASE at # "answered"
  <2>1. ~req.ran
    BY <1>1, HereIs
  <2>2. HeadersFollowDjango
    BY <1>1, FollowsIs DEF Answered
  <2> QED BY <1>1, <2>1, <2>2 DEF HandlersAreReachedByRight, CredentialsComeFirst, Answered
<1>2. CASE at = "answered"
  <2>1. /\ Reached(req, seen) /\ Vetted(req, resp, seen)
        /\ Follows(resp, req.route, req.cookies, req.host)
    BY <1>2 DEF PipeInv, PipeAt
  <2>2. HeadersFollowDjango
    BY <2>1, FollowsIs
  <2>3. MightDo <=> Might(req, seen)
    BY DEF MightDo, Might
  <2>4. Numeric <=> Reads(req)
    BY DEF Numeric, Reads, NumberViews
  <2>5. HandlersAreReachedByRight
    BY <2>1, <2>3, <2>4 DEF HandlersAreReachedByRight, Reached, PasswordViews
  <2>6. CredentialsComeFirst
    BY <2>1, <2>3 DEF CredentialsComeFirst, Vetted
  <2> QED BY <2>2, <2>5, <2>6
<1> QED BY <1>1, <1>2

-----------------------------------------------------------------------------
(* The theorems *)

\* Whatever the table of paths, the credentials and the edits meanwhile, a
\* handler runs for a client that might do this alone, and bad credentials are
\* refused before anything else is looked at.
THEOREM HandlersByRight ==
    ASSUME ConstantsAssumption
    PROVE  Spec => [](HandlersAreReachedByRight /\ CredentialsComeFirst)
<1>1. Init => PipeInv
  BY InitPipeInv
<1>2. PipeInv /\ [Next]_vars => PipeInv'
  BY PipeStep
<1>3. PipeInv => HandlersAreReachedByRight /\ CredentialsComeFirst
  BY PipeInvSuffices
<1> QED BY <1>1, <1>2, <1>3, PTL DEF Spec

\* Each answer has the headers that the old middlewares it passed through set.
THEOREM HeadersAsBefore ==
    ASSUME ConstantsAssumption
    PROVE  Spec => []HeadersFollowDjango
<1>1. Init => PipeInv
  BY InitPipeInv
<1>2. PipeInv /\ [Next]_vars => PipeInv'
  BY PipeStep
<1>3. PipeInv => HeadersFollowDjango
  BY PipeInvSuffices
<1> QED BY <1>1, <1>2, <1>3, PTL DEF Spec

=============================================================================
