------------------------------ MODULE Accounts -------------------------------
(***************************************************************************)
(* The life of an account: createUser, activateUser, inactiveUser          *)
(* (src/users/user.service.ts), the login and its token                    *)
(* (src/auth/auth.service.ts) and the reset of a password by a mailed link *)
(* (src/password-reset/). What PATCH writes besides the address is in      *)
(* Members.                                                                *)
(*                                                                         *)
(* A password is the number of the write that stored it, which is what     *)
(* the hash of a link depends on. A request stands at req[q].at.           *)
(*                                                                         *)
(* Definitions whose comment starts with "Variant:" are not the code's:    *)
(* each is the definition after it with one plausible bug.                 *)
(***************************************************************************)
EXTENDS Naturals, FiniteSets, FiniteSetsExt

CONSTANTS
    MaxId,         \* bound: the accounts are 1..MaxId
    Emails,
    FirstEmail,    \* the address account 1 was created with
    Browsers,
    Requests,      \* requests served at one time
    MaxRequests,   \* bound: how many requests are served in all
    MaxLinks,      \* bound: how many links are mailed
    Kinds          \* bound: the operations requested

ConstantsAssumption ==
    /\ MaxId \in Nat \ {0} /\ FirstEmail \in Emails /\ MaxRequests \in Nat /\ MaxLinks \in Nat
    /\ Kinds \subseteq {"create", "activate", "deactivate", "login", "forgot", "follow",
                        "submit", "email"}

VARIABLES
    account,       \* auth_user and the columns of fondo_api_userprofile used here
    key,           \* authtoken_token: each user's key, 0 if none
    link,          \* the reset links mailed, in order
    cookie,        \* each browser's _password_reset_token
    req,           \* the requests
    requests,      \* how many there have been
    invited,       \* history: the accounts whose key was mailed
    opened,        \* history: the accounts activated once
    answered,      \* history: the keys each user's logins were answered with
    used           \* history: the links a password was written with

vars == <<account, key, link, cookie, req, requests, invited, opened, answered, used>>
history == <<invited, opened, answered, used>>

Ids == 1..MaxId
NoAccount == [username |-> FirstEmail, email |-> FirstEmail, password |-> 0, usable |-> FALSE,
              active |-> FALSE, pending |-> FALSE]
\* A new account: no usable password, inactive, its key_activation pending.
NewAccount(e) == [NoAccount EXCEPT !.username = e, !.email = e, !.password = 1, !.pending = TRUE]
Rows == {i \in Ids : account[i] # NoAccount}
Links == 1..MaxLinks
NoLink == [id |-> 0, password |-> 0, expired |-> FALSE]
Idle == [at |-> "idle", id |-> 0, link |-> 0, password |-> 0, email |-> FirstEmail,
         usable |-> FALSE, early |-> FALSE, answer |-> 0]

TypeOK ==
    /\ \A i \in Rows : /\ account[i].password \in Nat \ {0}
                       /\ account[i].active => i \in opened
    /\ \A i, j \in Rows : account[i].username = account[j].username => i = j
    /\ key \in [Ids -> Nat] /\ \A i \in Ids : key[i] # 0 => i \in Rows
    /\ link \in [Links -> [id : 0..MaxId, password : Nat, expired : BOOLEAN]]
    /\ cookie \in [Browsers -> 0..MaxLinks]
    /\ invited \subseteq Ids /\ opened \subseteq Rows /\ used \subseteq Links
    /\ \A i \in Ids : answered[i] \subseteq Nat

Member(e) == [NewAccount(e) EXCEPT !.usable = TRUE, !.active = TRUE, !.pending = FALSE]
Init ==
    /\ account = [i \in Ids |-> IF i = 1 THEN Member(FirstEmail) ELSE NoAccount]
    /\ key = [i \in Ids |-> 0]
    /\ link = [l \in Links |-> NoLink]
    /\ cookie = [b \in Browsers |-> 0]
    /\ req = [q \in Requests |-> Idle]
    /\ requests = 0
    /\ invited = {1} /\ opened = {1}
    /\ answered = [i \in Ids |-> {}]
    /\ used = {}

Ends(q, answer) == req' = [req EXCEPT ![q] = [Idle EXCEPT !.answer = answer]]
Goes(q, at) == req' = [req EXCEPT ![q].at = at]

\* One disjunct an endpoint; the rows, links and addresses are any.
Post(q) ==
    /\ req[q].at = "idle" /\ requests < MaxRequests
    /\ requests' = requests + 1
    /\ \E kind \in Kinds \ {"deactivate", "email"} :
          \/ /\ kind \in {"create", "forgot"}
             /\ \E e \in Emails : req' = [req EXCEPT ![q] = [Idle EXCEPT !.at = kind, !.email = e]]
          \/ /\ kind \in {"activate", "login"}
             /\ \E i \in Rows, u \in BOOLEAN : \E p \in 1..account[i].password :
                   req' = [req EXCEPT ![q] = [Idle EXCEPT !.at = kind, !.id = i, !.usable = u,
                                                          !.password = p]]
          \/ /\ kind = "submit"
             /\ \E i \in Rows, b \in Browsers :
                   req' = [req EXCEPT ![q] = [Idle EXCEPT !.at = kind, !.id = i,
                                                          !.link = cookie[b]]]
    /\ UNCHANGED <<account, key, link, cookie, history>>

-----------------------------------------------------------------------------
(* Creation and activation *)

\* createUser's transaction up to the mail: username and identification are
\* unique. The row is seen by others once it is committed; an insert of the
\* same username waits for that.
InTransaction(q) == req[q].at \in {"invite", "commit", "rollback"}
Insert(q) ==
    /\ req[q].at = "create"
    /\ \A r \in Requests : InTransaction(r) => req[r].email # req[q].email
    /\ LET free == Ids \ (Rows \cup {req[r].id : r \in {s \in Requests : InTransaction(s)}}) IN
       IF \E i \in Rows : account[i].username = req[q].email THEN Ends(q, 409) /\ UNCHANGED invited
       ELSE /\ free # {}
            /\ req' = [req EXCEPT ![q].at = "invite", ![q].id = Min(free)]
            /\ invited' = invited \ {Min(free)}
    /\ UNCHANGED <<account, key, link, cookie, requests, opened, answered, used>>

\* Variant: the mail's result is not looked at.
InviteAnyway(q) ==
    /\ req[q].at = "invite"
    /\ \/ Goes(q, "commit") /\ invited' = invited \cup {req[q].id}
       \/ Goes(q, "commit") /\ UNCHANGED invited
    /\ UNCHANGED <<account, key, link, cookie, requests, opened, answered, used>>

\* The mail goes out inside the transaction: MailRollback when it does not.
Invite(q) ==
    /\ req[q].at = "invite"
    /\ \/ Goes(q, "commit") /\ invited' = invited \cup {req[q].id}
       \/ Goes(q, "rollback") /\ UNCHANGED invited
    /\ UNCHANGED <<account, key, link, cookie, requests, opened, answered, used>>

\* The transaction may still fail, at its timeout of 20 seconds; the mail is gone.
Commit(q) ==
    /\ req[q].at = "commit"
    /\ \/ account' = [account EXCEPT ![req[q].id] = NewAccount(req[q].email)] /\ Ends(q, 201)
       \/ Goes(q, "rollback") /\ UNCHANGED account
    /\ UNCHANGED <<key, link, cookie, requests, history>>

Rollback(q) ==
    /\ req[q].at = "rollback"
    /\ Ends(q, 409)
    /\ UNCHANGED <<account, key, link, cookie, requests, history>>

\* Variant: without D38, a null key matches the null column of every member.
KeyMatchesNull(i) == TRUE

\* The submitted key is the pending one: null is refused before the query (D38).
KeyMatches(i) == account[i].pending

\* activateUser up to its transaction.
CheckKey(q) ==
    /\ req[q].at = "activate"
    /\ IF KeyMatches(req[q].id)
       THEN req' = [req EXCEPT ![q].at = "open", ![q].early = req[q].id \notin opened]
       ELSE Ends(q, 404)
    /\ UNCHANGED <<account, key, link, cookie, requests, history>>

\* A password of null is stored as an unusable one.
Open(q) ==
    /\ req[q].at = "open"
    /\ LET row == account[req[q].id] IN
       account' = [account EXCEPT ![req[q].id] =
                      [row EXCEPT !.password = row.password + 1, !.usable = req[q].usable,
                                  !.active = TRUE, !.pending = FALSE]]
    /\ opened' = opened \cup {req[q].id}
    /\ Ends(q, 200)
    /\ UNCHANGED <<key, link, cookie, requests, invited, answered, used>>

\* inactiveUser
Deactivate(i) ==
    /\ "deactivate" \in Kinds /\ i \in Rows /\ requests < MaxRequests
    /\ requests' = requests + 1
    /\ account' = [account EXCEPT ![i].active = FALSE]
    /\ UNCHANGED <<key, link, cookie, req, history>>

\* Variant: v1's, whose username follows the address (D15).
SetEmailAndUsername(i, e) ==
    /\ "email" \in Kinds /\ i \in Rows /\ requests < MaxRequests
    /\ requests' = requests + 1
    /\ account' = [account EXCEPT ![i].email = e, ![i].username = e]
    /\ UNCHANGED <<key, link, cookie, req, history>>

\* updateUserPersonal's effect on the address: no two rows need differ in it.
SetEmail(i, e) ==
    /\ "email" \in Kinds /\ i \in Rows /\ requests < MaxRequests
    /\ requests' = requests + 1
    /\ account' = [account EXCEPT ![i].email = e]
    /\ UNCHANGED <<key, link, cookie, req, history>>

-----------------------------------------------------------------------------
(* Login *)

\* authenticate: the row is read once; the hash is verified, which takes long,
\* and the flag tested on that row.
Authenticate(q) ==
    /\ req[q].at = "login"
    /\ LET row == account[req[q].id] IN
       IF row.usable /\ row.password = req[q].password /\ row.active
       THEN Goes(q, "find") ELSE Ends(q, 400)
    /\ UNCHANGED <<account, key, link, cookie, requests, history>>

\* The login succeeds with key k.
Answer(q, k) ==
    /\ Ends(q, 200)
    /\ answered' = [answered EXCEPT ![req[q].id] = @ \cup {k}]
    /\ UNCHANGED <<invited, opened, used>>

\* getOrCreateToken
FindToken(q) ==
    /\ req[q].at = "find"
    /\ IF key[req[q].id] # 0 THEN Answer(q, key[req[q].id])
       ELSE Goes(q, "issue") /\ UNCHANGED history
    /\ UNCHANGED <<account, key, link, cookie, requests>>

\* Variant: the key made up is answered although another one is stored.
IssueTokenAnyway(q) ==
    /\ req[q].at = "issue"
    /\ IF key[req[q].id] = 0 THEN key' = [key EXCEPT ![req[q].id] = requests] /\ Answer(q, requests)
       ELSE Answer(q, requests + 1) /\ UNCHANGED key
    /\ UNCHANGED <<account, link, cookie, requests>>

\* Variant: the conflict is an error like any other.
IssueTokenOnce(q) ==
    /\ req[q].at = "issue"
    /\ IF key[req[q].id] = 0 THEN key' = [key EXCEPT ![req[q].id] = requests] /\ Answer(q, requests)
       ELSE Ends(q, 500) /\ UNCHANGED <<key, history>>
    /\ UNCHANGED <<account, link, cookie, requests>>

\* user_id is unique: the second insert is refused and the row read again. A
\* random key is the number of requests there had been.
IssueToken(q) ==
    /\ req[q].at = "issue"
    /\ IF key[req[q].id] = 0 THEN key' = [key EXCEPT ![req[q].id] = requests] /\ Answer(q, requests)
       ELSE Goes(q, "find") /\ UNCHANGED <<key, history>>
    /\ UNCHANGED <<account, link, cookie, requests>>

-----------------------------------------------------------------------------
(* Reset of a password *)

NO_USER == 0

\* Variant: v1's, which has no answer when an address is shared.
getUserByEmailV1(e) ==
    LET matches == {i \in Rows : account[i].email = e} IN
    IF Cardinality(matches) = 1 THEN Min(matches) ELSE NO_USER

\* The one with the address; of several the one named so, else the oldest (D17).
getUserByEmail(e) ==
    LET matches == {i \in Rows : account[i].email = e}
        canonical == {i \in matches : account[i].username = e} IN
    CASE matches = {} -> NO_USER
      [] Cardinality(matches) > 1 /\ canonical # {} -> Min(canonical)
      [] OTHER -> Min(matches)

\* requestReset: whatever it finds, and whether the mail goes out or not, it
\* answers the same.
Forgot(q) ==
    /\ req[q].at = "forgot"
    /\ LET user == getUserByEmail(req[q].email)
           free == {l \in Links : link[l] = NoLink} IN
       \/ /\ user # NO_USER /\ free # {}
          /\ link' = [link EXCEPT ![Min(free)] =
                         [NoLink EXCEPT !.id = user, !.password = account[user].password]]
       \/ UNCHANGED link
    /\ Ends(q, 302)
    /\ UNCHANGED <<account, key, cookie, requests, history>>

\* Variant: the hash leaves the user's id out.
checkTokenAnyone(i, l) ==
    /\ link[l] # NoLink /\ ~link[l].expired
    /\ link[l].password = account[i].password

\* Variant: the hash leaves the password out.
checkTokenForever(i, l) == link[l] # NoLink /\ ~link[l].expired /\ link[l].id = i

\* checkToken: the token is recomputed over the row as it is now.
checkToken(i, l) ==
    /\ link[l] # NoLink /\ ~link[l].expired
    /\ link[l].id = i /\ link[l].password = account[i].password

\* The GET of a link moves its token into the browser's cookie.
Follow(b, l) ==
    /\ "follow" \in Kinds
    /\ link[l] # NoLink /\ checkToken(link[l].id, l) /\ cookie[b] # l
    /\ cookie' = [cookie EXCEPT ![b] = l]
    /\ UNCHANGED <<account, key, link, req, requests, history>>

\* The POST: the account is the URL's, the token the cookie's.
CheckLink(q) ==
    /\ req[q].at = "submit"
    /\ IF req[q].link # 0 /\ checkToken(req[q].id, req[q].link) THEN Goes(q, "reset")
       ELSE Ends(q, 200)
    /\ UNCHANGED <<account, key, link, cookie, requests, history>>

\* setPassword: refused by the validators, or hashed and written by id.
SetPassword(q) ==
    /\ req[q].at = "reset"
    /\ \/ Ends(q, 200) /\ UNCHANGED <<account, used>>
       \/ /\ LET row == account[req[q].id] IN
             account' = [account EXCEPT ![req[q].id] =
                            [row EXCEPT !.password = row.password + 1, !.usable = TRUE]]
          /\ used' = used \cup {req[q].link}
          /\ Ends(q, 302)
    /\ UNCHANGED <<key, link, cookie, requests, invited, opened, answered>>

\* TIMEOUT_DAYS after it was made.
Expire(l) ==
    /\ link[l] # NoLink /\ ~link[l].expired
    /\ link' = [link EXCEPT ![l].expired = TRUE]
    /\ UNCHANGED <<account, key, cookie, req, requests, history>>

-----------------------------------------------------------------------------
Step(q) ==
    \/ Insert(q) \/ Invite(q) \/ Commit(q) \/ Rollback(q) \/ CheckKey(q) \/ Open(q)
    \/ Authenticate(q) \/ FindToken(q) \/ IssueToken(q)
    \/ Forgot(q) \/ CheckLink(q) \/ SetPassword(q)
Next ==
    \/ \E q \in Requests : Post(q) \/ Step(q)
    \/ \E i \in Ids : Deactivate(i) \/ \E e \in Emails : SetEmail(i, e)
    \/ \E l \in Links : Expire(l) \/ \E b \in Browsers : Follow(b, l)
Spec == Init /\ [][Next]_vars

-----------------------------------------------------------------------------
(* Properties *)

\* An account that was never opened can be: its key was mailed.
InvitedOrOpened == \A i \in Rows : i \in invited \cup opened

\* However many log in at once, a user's logins are all answered with the one
\* key that is stored: no client is signed out by another's login.
OneKeyPerUser == \A i \in Ids : answered[i] \subseteq {key[i]}

\* The race for the first key is not an error for the one who loses it.
LoginNeverFails == \A q \in Requests : req[q].answer # 500

\* A shared address is never without an owner, and the owner is the account
\* named so whenever one is (D17, C32).
EveryAddressResets ==
    \A i \in Rows : LET e == account[i].email IN
        /\ getUserByEmail(e) # NO_USER
        /\ account[i].username = e => getUserByEmail(e) = i

\* A link does not get past the check once a password was written with it,
\* whatever was requested meanwhile and whichever browser kept it.
UsedLinkIsRefused ==
    \A q \in Requests : req[q].at = "submit" /\ req'[q].at = "reset" => req[q].link \notin used

\* Two links opened in one browser share its cookie: the token of one account
\* never writes another's password.
LinkBindsAccount ==
    \A q \in Requests : req[q].at = "reset" => link[req[q].link].id = req[q].id

\* An account that was open and is deactivated is not opened again, except by
\* an activation that had its key checked before the first one was written.
StaysDeactivated ==
    \A i \in opened : ~account[i].active /\ account'[i].active =>
       \E q \in Requests : req[q].at = "open" /\ req[q].id = i /\ req[q].early

=============================================================================
