----------------------------- MODULE Activities ------------------------------
(***************************************************************************)
(* Activities and their years (src/activities): a year is opened, an       *)
(* activity of it charges every active member, its fields and its members' *)
(* states are patched, and it is removed.                                  *)
(*                                                                         *)
(* createYear runs without a transaction, the rest in one each. A request  *)
(* stands at req[q].at; a crash of the process ends them all and rolls     *)
(* their transactions back.                                                *)
(*                                                                         *)
(* Definitions whose comment starts with "Variant:" are not the code's:    *)
(* each is the definition after it with one plausible bug.                 *)
(***************************************************************************)
EXTENDS Naturals, FiniteSets, FiniteSetsExt

CONSTANTS
    Members,
    Acts,          \* the ids of fondo_api_activity
    Requests,      \* requests served at one time
    MaxYear,       \* bound: the clock's years are 1..MaxYear
    MaxRequests,   \* bound: how many requests are served in all
    MaxCrashes,    \* bound
    Kinds          \* bound: the operations requested

ConstantsAssumption ==
    /\ MaxYear \in Nat \ {0} /\ MaxRequests \in Nat /\ MaxCrashes \in Nat
    /\ Kinds \subseteq {"year", "create", "patch", "user", "remove", "toggle"}

VARIABLES
    clock,         \* the year in Bogota
    years,         \* fondo_api_activityyear: each year's row
    active,        \* the members whose is_active is set
    act,           \* fondo_api_activity and fondo_api_activityuser
    req,           \* the requests
    requests,      \* how many there have been
    crashes,
    made,          \* the ids the sequence has given
    straggled      \* history: a year was written by a request of another year

vars == <<clock, years, active, act, made, req, requests, crashes, straggled>>

NoRow == "none"
States == 0..1
NOT_PAID == 0
NotCharged == 9
Years == 0..MaxYear
Uncharged == [m \in Members |-> NotCharged]
NoAct == [live |-> FALSE, name |-> 0, state |-> Uncharged]
Live == {a \in Acts : act[a].live}
Idle == [at |-> "idle", year |-> 0, id |-> CHOOSE a \in Acts : TRUE,
         row |-> <<CHOOSE a \in Acts : TRUE, CHOOSE m \in Members : TRUE>>,
         users |-> {}, always |-> {}, ever |-> {}, answer |-> 0]

TypeOK ==
    /\ clock \in 1..MaxYear /\ active \subseteq Members
    /\ years \in [Years -> {NoRow, "enabled", "disabled"}]
    /\ \A a \in Acts : act[a] \in [live : BOOLEAN, name : Nat,
                                   state : [Members -> States \cup {NotCharged}]]
    \* Nothing is charged for an activity that is not there: the keys hold.
    /\ \A a \in Acts \ Live : act[a] = NoAct

Init ==
    /\ clock = 1 /\ active = Members /\ crashes = 0 /\ requests = 0 /\ straggled = FALSE /\ made = {}
    /\ years = [y \in Years |-> IF y = 0 THEN "enabled" ELSE NoRow]
    /\ act = [a \in Acts |-> NoAct]
    /\ req = [q \in Requests |-> Idle]

Ends(q, answer) == req' = [req EXCEPT ![q] = [Idle EXCEPT !.answer = answer]]

\* The year is the clock's when the request begins.
Post(q) ==
    /\ req[q].at = "idle" /\ requests < MaxRequests
    /\ requests' = requests + 1
    /\ \E kind \in Kinds \ {"toggle"}, a \in Acts, b \in Acts, m \in Members :
          /\ kind # "user" => a = b /\ m = Idle.row[2]
          /\ kind = "year" => a = Idle.id
          /\ IF kind = "create" THEN a \notin made /\ made' = made \cup {a} ELSE UNCHANGED made
          /\ req' = [req EXCEPT ![q] = [Idle EXCEPT !.at = kind, !.year = clock, !.id = a,
                         !.row = <<b, m>>, !.always = active, !.ever = active]]
    /\ UNCHANGED <<clock, years, active, act, crashes, straggled>>

-----------------------------------------------------------------------------
(* createYear: find, disable and insert, each a statement of its own *)

Others(y) == {z \in Years \ {y} : years[z] # NoRow}

\* Variant: the highest row, the year's own included.
FindLastOfAll(q) ==
    /\ req[q].at = "year"
    /\ LET all == {z \in Years : years[z] # NoRow} IN
       req' = [req EXCEPT ![q].at = "disable", ![q].users = {Max(all)}]
    /\ UNCHANGED <<clock, years, active, act, requests, crashes, straggled, made>>

\* Variant: the year before, whatever rows there are.
FindPrevious(q) ==
    /\ req[q].at = "year"
    /\ req' = [req EXCEPT ![q].at = "disable",
                          ![q].users = {req[q].year - 1} \cap Others(req[q].year)]
    /\ UNCHANGED <<clock, years, active, act, requests, crashes, straggled, made>>

\* The highest year that is not this one, later ones included.
FindLast(q) ==
    /\ req[q].at = "year"
    /\ LET others == Others(req[q].year) IN
       req' = [req EXCEPT ![q].at = "disable",
                          ![q].users = IF others = {} THEN {} ELSE {Max(others)}]
    /\ UNCHANGED <<clock, years, active, act, requests, crashes, straggled, made>>

Disable(q) ==
    /\ req[q].at = "disable"
    /\ years' = [y \in Years |-> IF y \in req[q].users THEN "disabled" ELSE years[y]]
    /\ req' = [req EXCEPT ![q].at = "insert"]
    /\ straggled' = (straggled \/ req[q].year # clock)
    /\ UNCHANGED <<clock, active, act, requests, crashes, made>>

\* A unique violation is a 304: the year before has been disabled all the same.
InsertYear(q) ==
    /\ req[q].at = "insert"
    /\ IF years[req[q].year] = NoRow
       THEN years' = [years EXCEPT ![req[q].year] = "enabled"] /\ Ends(q, 201)
       ELSE UNCHANGED years /\ Ends(q, 304)
    /\ straggled' = (straggled \/ req[q].year # clock)
    /\ UNCHANGED <<clock, active, act, requests, crashes, made>>

-----------------------------------------------------------------------------
(* Activities *)

\* createActivity and addUsers: the activity and a row for every member that
\* is active as they are read, seen by others when both are committed. (A year
\* that is not there is a 500 at the commit; here there is one.)
ReadUsers(q) ==
    /\ req[q].at = "create"
    /\ req' = [req EXCEPT ![q].at = "commit", ![q].users = active]
    /\ UNCHANGED <<clock, years, active, act, requests, crashes, straggled, made>>

\* Variant: the activity is committed before its users are added.
CommitBare(q) ==
    /\ req[q].at = "commit"
    /\ IF act[req[q].id].live
       THEN /\ act' = [act EXCEPT ![req[q].id].state =
                         [m \in Members |-> IF m \in req[q].users THEN NOT_PAID ELSE @[m]]]
            /\ Ends(q, 201)
       ELSE act' = [act EXCEPT ![req[q].id].live = TRUE] /\ UNCHANGED req
    /\ UNCHANGED <<clock, years, active, requests, crashes, straggled, made>>

Commit(q) ==
    /\ req[q].at = "commit"
    /\ act' = [act EXCEPT ![req[q].id] =
                  [live |-> TRUE, name |-> 0,
                   state |-> [m \in Members |-> IF m \in req[q].users THEN NOT_PAID ELSE NotCharged]]]
    /\ Ends(q, 201)
    /\ UNCHANGED <<clock, years, active, requests, crashes, straggled, made>>

\* updateActivity: no such row is a 404, as every failure of it.
Update(q) ==
    /\ req[q].at = "patch"
    /\ IF req[q].id \in Live
       THEN /\ act' = [act EXCEPT ![req[q].id].name = 1]
            /\ req' = [req EXCEPT ![q].at = "reread"]
       ELSE UNCHANGED act /\ Ends(q, 404)
    /\ UNCHANGED <<clock, years, active, requests, crashes, straggled, made>>

\* Variant: the row is looked up by its own id alone.
UpdateUserAnywhere(q) ==
    /\ req[q].at = "user"
    /\ LET a == req[q].row[1]  m == req[q].row[2] IN
       IF a \in Live /\ act[a].state[m] # NotCharged
       THEN /\ act' = [act EXCEPT ![a].state[m] = 1 - @]
            /\ req' = [req EXCEPT ![q].at = "reread"]
       ELSE UNCHANGED act /\ Ends(q, 404)
    /\ UNCHANGED <<clock, years, active, requests, crashes, straggled, made>>

\* updateActivityUser: the row's id and the URL's activity name it together.
UpdateUser(q) ==
    /\ req[q].at = "user"
    /\ LET a == req[q].row[1]  m == req[q].row[2] IN
       IF a = req[q].id /\ a \in Live /\ act[a].state[m] # NotCharged
       THEN /\ act' = [act EXCEPT ![a].state[m] = 1 - @]
            /\ req' = [req EXCEPT ![q].at = "reread"]
       ELSE UNCHANGED act /\ Ends(q, 404)
    /\ UNCHANGED <<clock, years, active, requests, crashes, straggled, made>>

\* patchActivity answers what it reads again: gone meanwhile is a 404 too.
Reread(q) ==
    /\ req[q].at = "reread"
    /\ Ends(q, IF req[q].id \in Live THEN 200 ELSE 404)
    /\ UNCHANGED <<clock, years, active, act, requests, crashes, straggled, made>>

\* removeActivity: the children first, the cascade is the service's; 200 even
\* when there was nothing.
Remove(q) ==
    /\ req[q].at = "remove"
    /\ act' = [act EXCEPT ![req[q].id] = NoAct]
    /\ Ends(q, 200)
    /\ UNCHANGED <<clock, years, active, requests, crashes, straggled, made>>

-----------------------------------------------------------------------------
(* The rest of the system *)

NextYear ==
    /\ clock < MaxYear /\ clock' = clock + 1
    /\ UNCHANGED <<years, active, act, req, requests, crashes, straggled, made>>

\* A member is activated or deactivated (Accounts).
Toggle(m) ==
    /\ "toggle" \in Kinds /\ requests < MaxRequests
    /\ requests' = requests + 1
    /\ active' = IF m \in active THEN active \ {m} ELSE active \cup {m}
    /\ req' = [q \in Requests |-> [req[q] EXCEPT !.always = @ \cap active', !.ever = @ \cup active']]
    /\ UNCHANGED <<clock, years, act, crashes, straggled, made>>

Crash ==
    /\ crashes < MaxCrashes
    /\ crashes' = crashes + 1
    /\ req' = [q \in Requests |-> Idle]
    /\ UNCHANGED <<clock, years, active, act, requests, straggled, made>>

Step(q) ==
    \/ FindLast(q) \/ Disable(q) \/ InsertYear(q) \/ ReadUsers(q) \/ Commit(q)
    \/ Update(q) \/ UpdateUser(q) \/ Reread(q) \/ Remove(q)
Next ==
    \/ \E q \in Requests : Post(q) \/ Step(q)
    \/ NextYear \/ (\E m \in Members : Toggle(m)) \/ Crash
Spec == Init /\ [][Next]_vars

-----------------------------------------------------------------------------
(* Properties *)

\* One year is enabled at most, however often and by however many at once the
\* year is opened, as long as no request writes after its own year has ended:
\* then a late one may leave two, or none.
OneYearEnabled == straggled \/ Cardinality({y \in Years : years[y] = "enabled"}) <= 1

\* The current year, once opened, stays enabled through retries and crashes,
\* though each retry disables a row before it finds out that it has nothing to
\* do. Only a late request of the year before can disable it.
CurrentYearStaysEnabled == straggled \/ years[clock] # "disabled"

\* An activity charges every member that was active during the whole of its
\* creation and none that was not at any time of it; there is no moment, and
\* no crash, at which it is seen with fewer.
ChargesTheActive ==
    \A a \in Acts : ~act[a].live /\ act'[a].live =>
       \E q \in Requests : /\ req[q].at = "commit" /\ req[q].id = a
                           /\ \A m \in req[q].always : act'[a].state[m] = NOT_PAID
                           /\ \A m \in Members \ req[q].ever : act'[a].state[m] = NotCharged

\* A member's state moves under the activity that was named, never under
\* another whose row the body happens to name.
StateOfNamedActivity ==
    \A a \in Live : act'[a].live /\ act'[a].state # act[a].state =>
       \E q \in Requests : req[q].at = "user" /\ req[q].id = a /\ req'[q].at = "reread"
=============================================================================
