----------------------------- MODULE MCServices ------------------------------
(***************************************************************************)
(* Instances for TLC of the components that share no state and no code:    *)
(* a behaviour is one of an instance in Suite, which the other variables   *)
(* take no part in. One run checks them all.                               *)
(***************************************************************************)
EXTENDS AccessControl, TLC

CONSTANTS Suite, Nobody, Malformed, Users, u1, u2, i1, i2, i3, p1, p2, a1, a2,
          a3,
          e1, e2, e3, b1, b2, Requests

VARIABLES
    which,                                              \* the instance
    req, requests,                                      \* of all of them
    profile, finance, lent, filed,                      \* Members
    power, letters, pushes, read,                       \* Powers
    sub, serial, preference, queue, raced, lost,        \* Subscriptions
    clock, years, active, act, crashes, made, straggled,    \* Activities
    row, object, dropped, stored,                       \* Files
    account, key, link, cookie, invited, opened, answered, used,   \* Accounts
    state, end, creating, names, status, ran, day, closed,
    puts, reopened, faults                              \* CapClosing

ofMembers == <<profile, finance, lent, filed>>
ofPowers == <<power, letters, pushes, read>>
ofSubscriptions == <<sub, serial, preference, queue, raced, lost>>
ofActivities == <<clock, years, active, act, crashes, made, straggled>>
ofFiles == <<row, object, dropped, stored>>
ofAccounts == <<account, key, link, cookie, invited, opened, answered, used>>
ofCaps == <<state, end, creating, names, status, ran, day, closed, puts, reopened, faults>>
vars == <<which, req, requests, ofMembers, ofPowers, ofSubscriptions, ofActivities,
          ofFiles, ofAccounts, ofCaps>>

-----------------------------------------------------------------------------
\* An administrator and a member.
Mem == INSTANCE Members WITH
    Members <- Users, Opening <- u1 :> ADMIN @@ u2 :> MEMBER,
    Identity <- u1 :> i1 @@ u2 :> i2, Identifications <- {i1, i2, i3},
    MaxRequests <- 3, MaxLines <- 2

Pow == INSTANCE Powers WITH Members <- Users, Powers <- {p1, p2}, MaxRequests <- 4

Sub == INSTANCE Subscriptions WITH
    Members <- Users, Endpoints <- {e1, e2}, Attempts <- 3, MaxRequests <- 4

Act == INSTANCE Activities WITH
    Members <- Users, Acts <- {a1, a2}, MaxYear <- 1, MaxRequests <- 4, MaxCrashes <- 1,
    Kinds <- {"create", "patch", "user", "remove", "toggle"}

\* The years apart from their activities.
Yea == INSTANCE Activities WITH
    Members <- {u1}, Acts <- {a1}, MaxYear <- 3, MaxRequests <- 4, MaxCrashes <- 1,
    Kinds <- {"year"}

\* Two names of one path, and a third.
Fil == INSTANCE Files WITH
    Names <- {"a", "A", "b"}, LowerNames <- {"a", "b"}, MaxRequests <- 3

\* Accounts that are made, opened and closed, and logged in to.
Acc == INSTANCE Accounts WITH
    MaxId <- 3, Emails <- {e1, e2}, FirstEmail <- e1, Browsers <- {b1},
    MaxRequests <- 5, MaxLinks <- 1, Kinds <- {"create", "activate", "deactivate", "login"}

\* Accounts whose addresses are edited and passwords reset.
Res == INSTANCE Accounts WITH
    MaxId <- 2, Emails <- {e1, e2, e3}, FirstEmail <- e1, Browsers <- {b1, b2},
    MaxRequests <- 4, MaxLinks <- 2,
    Kinds <- {"create", "email", "forgot", "follow", "submit", "activate"}

\* Two CAPs, and one that was removed by hand.
Cap == INSTANCE CapClosing WITH
    Accounts <- {a1, a2, a3}, Orphans <- {a3}, MaxDay <- 2, MaxPuts <- 1, MaxFaults <- 2

ASSUME InstancesAssumption ==
    /\ Mem!ConstantsAssumption /\ Pow!ConstantsAssumption /\ Sub!ConstantsAssumption
    /\ Act!ConstantsAssumption /\ Yea!ConstantsAssumption /\ Fil!ConstantsAssumption
    /\ Acc!ConstantsAssumption /\ Res!ConstantsAssumption
    /\ Cap!ConstantsAssumption

RequestSymmetry == Permutations(Requests)

-----------------------------------------------------------------------------
NoMembers == profile = {} /\ finance = {} /\ lent = {} /\ filed = {}
NoPowers == power = {} /\ letters = {} /\ pushes = {} /\ read = {}
NoSubscriptions == sub = {} /\ serial = {} /\ preference = {} /\ queue = {} /\ raced = {} /\ lost = {}
NoActivities == /\ clock = {} /\ years = {} /\ active = {} /\ act = {}
                /\ crashes = {} /\ made = {} /\ straggled = {}
NoFiles == row = {} /\ object = {} /\ dropped = {} /\ stored = {}
NoAccounts == /\ account = {} /\ key = {} /\ link = {} /\ cookie = {}
              /\ invited = {} /\ opened = {} /\ answered = {} /\ used = {}
NoCaps == /\ state = {} /\ end = {} /\ creating = {} /\ names = {} /\ status = {} /\ ran = {}
          /\ day = {} /\ closed = {} /\ puts = {} /\ reopened = {} /\ faults = {}

Init ==
    /\ which \in Suite
    /\ IF which = "members" THEN Mem!Init ELSE NoMembers
    /\ IF which = "powers" THEN Pow!Init ELSE NoPowers
    /\ IF which = "subscriptions" THEN Sub!Init ELSE NoSubscriptions
    /\ CASE which = "activities" -> Act!Init [] which = "years" -> Yea!Init [] OTHER -> NoActivities
    /\ IF which = "files" THEN Fil!Init ELSE NoFiles
    /\ CASE which = "accounts" -> Acc!Init [] which = "resets" -> Res!Init [] OTHER -> NoAccounts
    /\ IF which = "caps" THEN Cap!Init /\ req = {} /\ requests = {} ELSE NoCaps

Next ==
    \/ /\ which = "members" /\ Mem!Next
       /\ UNCHANGED <<which, ofPowers, ofSubscriptions, ofActivities, ofFiles,
                      ofAccounts, ofCaps>>
    \/ /\ which = "powers" /\ Pow!Next
       /\ UNCHANGED <<which, ofMembers, ofSubscriptions, ofActivities, ofFiles,
                      ofAccounts, ofCaps>>
    \/ /\ which = "subscriptions" /\ Sub!Next
       /\ UNCHANGED <<which, ofMembers, ofPowers, ofActivities, ofFiles, ofAccounts, ofCaps>>
    \/ /\ which = "activities" /\ Act!Next
       /\ UNCHANGED <<which, ofMembers, ofPowers, ofSubscriptions, ofFiles, ofAccounts, ofCaps>>
    \/ /\ which = "years" /\ Yea!Next
       /\ UNCHANGED <<which, ofMembers, ofPowers, ofSubscriptions, ofFiles, ofAccounts, ofCaps>>
    \/ /\ which = "files" /\ Fil!Next
       /\ UNCHANGED <<which, ofMembers, ofPowers, ofSubscriptions, ofActivities,
                      ofAccounts, ofCaps>>
    \/ /\ which = "accounts" /\ Acc!Next
       /\ UNCHANGED <<which, ofMembers, ofPowers, ofSubscriptions, ofActivities, ofFiles,
                      ofCaps>>
    \/ /\ which = "resets" /\ Res!Next
       /\ UNCHANGED <<which, ofMembers, ofPowers, ofSubscriptions, ofActivities, ofFiles,
                      ofCaps>>
    \/ /\ which = "caps" /\ Cap!Next
       /\ UNCHANGED <<which, req, requests, ofMembers, ofPowers, ofSubscriptions,
                      ofActivities, ofFiles, ofAccounts>>

Spec == Init /\ [][Next]_vars

-----------------------------------------------------------------------------
(* The properties: those of the modules, of the behaviours of their instances *)

\* Every module's variables have their types, and the rows of its tables the
\* keys the schema gives them.
TypesOK ==
    /\ which = "members" => Mem!TypeOK
    /\ which = "powers" => Pow!TypeOK
    /\ which = "subscriptions" => Sub!TypeOK
    /\ which = "activities" => Act!TypeOK
    /\ which = "files" => Fil!TypeOK
    /\ which = "resets" => Res!TypeOK
    /\ which = "caps" => Cap!TypeOK

\* The figures of each member agree, and a file that fails leaves none of its own.
FinancesHold == which = "members" => Mem!FinancesAddUp /\ Mem!FileAllOrNothing

\* Roles and identifications move by an administrator's request, or by an echo.
PrivilegedByAdminOrEcho == [][which = "members" => Mem!PrivilegedByAdminOrEcho]_vars

\* An application over the quota was checked before the quota moved.
LoanFitsUnlessMoved == [][which = "members" => Mem!LoanFitsUnlessMoved]_vars

\* It takes the requester and another member, the requestee, to decide a
\* power, and it is announced as often as it was decided while pending, at most.
PowersHold ==
    /\ [](which = "powers" => Pow!LettersWereDecisions)
    /\ [][which = "powers" => Pow!LetterTakesTwo]_vars

\* A browser is registered once unless two registrations raced; what the
\* sender of a message is told of it is true, and it is on the queue twice only
\* when an answer was lost.
SubscriptionsHold == which = "subscriptions" =>
    Sub!OneRowUnlessRaced /\ Sub!TwiceOnlyIfLost /\ Sub!ReportIsTrue

\* One year is enabled, the current one, as long as no request straggles.
OneYearEnabled == which = "years" => Yea!OneYearEnabled /\ Yea!CurrentYearStaysEnabled

\* An activity appears with a charge for every active member, and a payment is
\* moved under the activity it is named with.
ChargesTheActive ==
    [][which = "activities" => Act!ChargesTheActive /\ Act!StateOfNamedActivity]_vars

\* Every row has its object, and an object without a row is the trace of a
\* fault; a refused name wrote nothing.
FilesHold ==
    which = "files" => Fil!RowHasObject /\ Fil!UnlistedNeedsLoss /\ Fil!RefusedWroteNothing

\* Every account can be opened, and all its logins have one key.
LoginsHold ==
    which = "accounts" => Acc!InvitedOrOpened /\ Acc!OneKeyPerUser /\ Acc!LoginNeverFails

\* Every address finds an account, and a link changes its own account's password.
ResetsHold == which = "resets" => Res!EveryAddressResets /\ Res!LinkBindsAccount

\* No CAP is closed early or again, a task whose account is missing is not
\* done, and an active CAP that nobody will close is the trace of a fault or of
\* a reopening.
CapsHold ==
    which = "caps" => /\ Cap!NeverClosedEarly /\ Cap!ClosedOncePerOpening
                      /\ Cap!MissingStaysVisible /\ Cap!UndrivenNeedsCause

\* A deactivated account stays so; a link that was used does not pass again.
AccountsStayClosed ==
    [][/\ which = "accounts" => Acc!StaysDeactivated
       /\ which = "resets" => Res!UsedLinkIsRefused]_vars
=============================================================================
