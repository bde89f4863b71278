---------------------------- MODULE PasswordPages ----------------------------
(***************************************************************************)
(* The pages of the password reset as a browser meets them                 *)
(* (src/password-reset/password-reset.controller.ts, django-csrf.ts): each *)
(* form is served with a masked copy of the secret in the csrftoken cookie,*)
(* and is taken only with it. The server keeps nothing: the cookie and the *)
(* open forms are the state, and answers reach the browser in any order.   *)
(* What the links of the second page lead to is in Accounts.               *)
(*                                                                         *)
(* Definitions whose comment starts with "Variant:" are not the code's:    *)
(* each is the definition after it with one plausible bug.                 *)
(***************************************************************************)
EXTENDS Integers, Sequences, FiniteSets

CONSTANTS
    CHARS,         \* the number of characters; a secret is one here, not 32
    Tabs,          \* the requests one browser has under way
    MaxVisits      \* bound: how many requests it makes

ConstantsAssumption == CHARS \in Nat \ {0} /\ MaxVisits \in Nat

VARIABLES
    cookie,        \* the browser's csrftoken; <<>> if it has none
    forms,         \* the forms it has open: [token, orphan]
    tab,           \* the requests under way, with the cookie they were sent with
    visits,
    answer         \* the last answer, and whether its form was an orphan

vars == <<cookie, forms, tab, visits, answer>>

Chars == 0..(CHARS - 1)
NoSecret == -1
SAFE_METHODS == {"GET", "HEAD", "OPTIONS", "TRACE"}

\* JavaScript's %, which has the sign of its left side.
Rem(a, n) == IF a < 0 THEN -((-a) % n) ELSE a % n

maskCsrfSecret(secret, mask) == <<mask, Rem(secret + mask, CHARS)>>

\* Variant: the difference is left negative.
unmaskCsrfTokenNegative(token) ==
    CASE Len(token) = 1 -> token[1]
      [] Len(token) = 2 -> Rem(token[2] - token[1], CHARS)
      [] OTHER -> NoSecret

\* A bare secret, or a mask and the cipher under it; any other length is none.
unmaskCsrfToken(token) ==
    CASE Len(token) = 1 -> token[1]
      [] Len(token) = 2 -> Rem(Rem(token[2] - token[1], CHARS) + CHARS, CHARS)
      [] OTHER -> NoSecret

csrfTokensMatch(a, b) ==
    unmaskCsrfToken(a) # NoSecret /\ unmaskCsrfToken(a) = unmaskCsrfToken(b)

\* The cookie's token if it can be used, else one of a new secret.
sanitizeCsrfToken(token, secret, mask) ==
    CASE Len(token) = 2 -> token
      [] Len(token) = 1 -> maskCsrfSecret(token[1], mask)
      [] OTHER -> maskCsrfSecret(secret, mask)

Usable(token) == Len(token) \in 1..2

Init ==
    /\ cookie = <<>> /\ forms = {} /\ visits = 0 /\ answer = [status |-> 200, orphan |-> FALSE]
    /\ tab = [t \in Tabs |-> [at |-> "closed"]]

\* A request leaves with the cookie of this moment. A form goes out as a POST
\* with the token in its body, a script's request has it in a header; a method
\* that neither page serves can carry it too. HEAD is as GET.
Send(t) ==
    /\ tab[t].at = "closed" /\ visits < MaxVisits /\ visits' = visits + 1
    /\ \E method \in {"GET", "POST", "PUT", "DELETE", "OPTIONS"},
          form \in forms \cup {[token |-> <<>>, orphan |-> TRUE]} :
          /\ (form.token = <<>> <=> method \in SAFE_METHODS)
          /\ \E field, header \in {form.token, <<>>} :
                /\ field = <<>> <=> header # <<>> \/ form.token = <<>>
                /\ field # <<>> => method = "POST"
                /\ tab' = [tab EXCEPT ![t] = [at |-> "sent", method |-> method,
                                    cookie |-> cookie, field |-> field, header |-> header, form |-> form]]
    /\ UNCHANGED <<cookie, forms, answer>>

\* The field is read for a POST alone, from a form's body.
Submitted(r) == IF r.method = "POST" /\ r.field # <<>> THEN r.field ELSE r.header

\* Methods other than the safe ones are checked before anything else happens.
\* A cookie that is no token is replaced by a secret nothing matches.
rejectCsrf(r) == ~Usable(r.cookie) \/ ~csrfTokensMatch(r.cookie, Submitted(r))

\* Variant: each form comes with a new secret.
issueCsrfCookieAnew(t, token, formToken) ==
    \E s, m, n \in Chars :
        /\ token = sanitizeCsrfToken(<<>>, s, m) /\ formToken = maskCsrfSecret(unmaskCsrfToken(token), n)

\* The cookie is set again with the token it holds; the form's copy has a mask
\* of its own.
issueCsrfCookie(t, token, formToken) ==
    \E s, m, n \in Chars :
        /\ token = sanitizeCsrfToken(tab[t].cookie, s, m)
        /\ formToken = maskCsrfSecret(unmaskCsrfToken(token), n)

Orphaned == {[f EXCEPT !.orphan = TRUE] : f \in forms}

\* A page with a form reaches the browser. Its other forms may lose their secret
\* if it was asked for with another cookie than the browser has by now, or none.
ReceiveForm(t) ==
    /\ \E token, formToken \in Chars \X Chars :
          /\ issueCsrfCookie(t, token, formToken)
          /\ cookie' = token
          /\ forms' = (IF csrfTokensMatch(cookie, tab[t].cookie) THEN forms ELSE Orphaned)
                       \cup {[token |-> formToken, orphan |-> FALSE]}
    /\ answer' = [status |-> 200, orphan |-> FALSE]

Receive(t) ==
    LET r == tab[t]
        says(status) == /\ answer' = [status |-> status, orphan |-> r.form.orphan]
                        /\ UNCHANGED <<cookie, forms>>
    IN  /\ r.at = "sent" /\ tab' = [tab EXCEPT ![t] = [at |-> "closed"]]
        /\ \/ r.method \notin SAFE_METHODS /\ rejectCsrf(r) /\ says(403)
           \/ r.method = "GET" /\ ReceiveForm(t)
           \/ r.method \in {"POST", "PUT"} /\ ~rejectCsrf(r) /\ says(302)
           \* The second page refuses the passwords: it comes back with the errors.
           \/ r.method \in {"POST", "PUT"} /\ ~rejectCsrf(r) /\ ReceiveForm(t)
           \/ r.method = "OPTIONS" /\ says(200)
           \/ r.method = "DELETE" /\ ~rejectCsrf(r) /\ says(405)
        /\ UNCHANGED visits

\* The cookie expires, is deleted, or is overwritten: with a bare secret, as
\* another version of the site would set it, or with what is no token at all.
Overwrite ==
    /\ visits < MaxVisits /\ visits' = visits + 1
    /\ \/ \E token \in {<<>>, <<0, 0, 0>>} : cookie' = token
       \/ Len(cookie) = 2 /\ cookie' = <<unmaskCsrfToken(cookie)>>
    /\ cookie' # cookie
    /\ forms' = IF Len(cookie') = 1 THEN forms ELSE Orphaned
    /\ UNCHANGED <<tab, answer>>

Next == (\E t \in Tabs : Send(t) \/ Receive(t)) \/ Overwrite
Spec == Init /\ [][Next]_vars

-----------------------------------------------------------------------------
(* Properties *)

\* However many forms a browser opens, in whatever order their pages arrive and
\* whichever it submits, a form is refused only once its secret was replaced:
\* by a page asked for when the browser had no cookie, or another one, or
\* because the cookie was lost. (rejectCsrf against issueCsrfCookie.)
FormsStayGood == answer.status = 403 => answer.orphan
=============================================================================
