---------------------------- MODULE ServicesProofs ----------------------------
(***************************************************************************)
(* The properties of the run of MCServices, from the theorems about its    *)
(* components. Each component's proofs are instantiated as MCServices      *)
(* instantiates the component; a behaviour of MCServices is one of the     *)
(* component as long as `which` says so, and the invariant of the          *)
(* component's proofs is carried along it.                                 *)
(***************************************************************************)
EXTENDS MCServices, TLAPS

-----------------------------------------------------------------------------
RecP == INSTANCE RecordsProofs WITH
    MaxId <- 3, Emails <- {e1, e2}, FirstEmail <- e1, Browsers <- {b1},
    MaxRequests <- 5, MaxLinks <- 1, Kinds <- {"create", "activate", "deactivate", "login"},
    Accounts <- {a1, a2, a3}, Orphans <- {a3}, MaxDay <- 2, MaxPuts <- 1, MaxFaults <- 2,
    Members <- Users, Powers <- {p1, p2}, MaxDecisions <- 4,
    Names <- {"a", "A", "b"}, LowerNames <- {"a", "b"}, MaxUploads <- 3

CapsOK == which = "caps" => RecP!CapInv

LEMMA CapConstants == RecP!Cap!ConstantsAssumption
  BY InstancesAssumption
     DEF InstancesAssumption, Cap!ConstantsAssumption, RecP!Cap!ConstantsAssumption,
         Cap!IsFiniteSet, RecP!Cap!IsFiniteSet

LEMMA SameCapInit == Cap!Init => RecP!Cap!Init
  BY DEF Cap!Init, RecP!Cap!Init, Cap!Cardinality, RecP!Cap!Cardinality, Cap!IsFiniteSet,
         RecP!Cap!IsFiniteSet

LEMMA SameCapNext == Cap!Next => RecP!Cap!Next
  BY DEF Cap!Next, RecP!Cap!Next, Cap!Create, RecP!Cap!Create, Cap!Schedule, RecP!Cap!Schedule,
         Cap!ScheduleFails, RecP!Cap!ScheduleFails, Cap!Put, RecP!Cap!Put, Cap!States,
         RecP!Cap!States, Cap!Fault, RecP!Cap!Fault, Cap!Run, RecP!Cap!Run, Cap!Take,
         RecP!Cap!Take, Cap!Close, RecP!Cap!Close, Cap!CloseMissing, RecP!Cap!CloseMissing,
         Cap!Finish, RecP!Cap!Finish, Cap!Fails, RecP!Cap!Fails, Cap!Lost, RecP!Cap!Lost,
         Cap!NextDay, RecP!Cap!NextDay, Cap!Tasks, RecP!Cap!Tasks, Cap!Queue!Take,
         RecP!Cap!Queue!Take, Cap!Queue!Finish, RecP!Cap!Queue!Finish, Cap!Queue!Drop,
         RecP!Cap!Queue!Drop

LEMMA SameCapVars == UNCHANGED ofCaps => UNCHANGED RecP!Cap!vars
  BY DEF ofCaps, RecP!Cap!vars

LEMMA NextCaps == ASSUME CapsOK, [Next]_vars PROVE CapsOK'
  <1>1. RecP!CapInv /\ [RecP!Cap!Next]_(RecP!Cap!vars) => RecP!CapInv'
    BY CapConstants, RecP!NextCapInv
  <1> QED
    BY <1>1, SameCapNext, SameCapVars DEF CapsOK, Next, vars

LEMMA InitCaps == Init => CapsOK
  BY CapConstants, SameCapInit, RecP!InitCapInv DEF CapsOK, Init

LEMMA CapsOKSuffices == ASSUME CapsOK  PROVE CapsHold
  <1>1. ASSUME which = "caps"
        PROVE  /\ RecP!Cap!NeverClosedEarly /\ RecP!Cap!ClosedOncePerOpening
               /\ RecP!Cap!MissingStaysVisible /\ RecP!Cap!UndrivenNeedsCause
    BY <1>1, CapConstants, RecP!CapInvSuffices DEF CapsOK
  <1>2. RecP!Cap!NeverClosedEarly /\ RecP!Cap!ClosedOncePerOpening
        => Cap!NeverClosedEarly /\ Cap!ClosedOncePerOpening
    BY DEF Cap!NeverClosedEarly, RecP!Cap!NeverClosedEarly, Cap!ClosedOncePerOpening,
           RecP!Cap!ClosedOncePerOpening
  <1>3. RecP!Cap!MissingStaysVisible => Cap!MissingStaysVisible
    BY DEF Cap!MissingStaysVisible, RecP!Cap!MissingStaysVisible, Cap!Tasks, RecP!Cap!Tasks
  <1>4. RecP!Cap!UndrivenNeedsCause => Cap!UndrivenNeedsCause
    BY DEF Cap!UndrivenNeedsCause, RecP!Cap!UndrivenNeedsCause, Cap!Driven, RecP!Cap!Driven,
           Cap!Tasks, RecP!Cap!Tasks, Cap!Cardinality, RecP!Cap!Cardinality, Cap!IsFiniteSet,
           RecP!Cap!IsFiniteSet
  <1> QED
    BY <1>1, <1>2, <1>3, <1>4 DEF CapsHold

\* No CAP is closed early or twice, a task whose account is missing is never
\* done, and an active CAP nobody will close is the trace of a fault or of a
\* reopening (closeAccount, closeExpiredAccounts).
THEOREM CapsAlwaysHold == Spec => []CapsHold
  BY InitCaps, NextCaps, CapsOKSuffices, PTL DEF Spec

-----------------------------------------------------------------------------
FilesOK == which = "files" => RecP!FilesInv

LEMMA FilesConstants == RecP!Fil!ConstantsAssumption
  BY InstancesAssumption
     DEF InstancesAssumption, Fil!ConstantsAssumption, RecP!Fil!ConstantsAssumption

LEMMA SameFilesInit == Fil!Init => RecP!Fil!Init
  BY DEF Fil!Init, RecP!Fil!Init, Fil!Idle, RecP!Fil!Idle, Fil!NoType, RecP!Fil!NoType, Fil!Paths,
         RecP!Fil!Paths, Fil!Types, RecP!Fil!Types

LEMMA SameFilesNext == Fil!Next => RecP!Fil!Next
  BY DEF Fil!Next, RecP!Fil!Next, Fil!Step, RecP!Fil!Step, Fil!Create, RecP!Fil!Create,
         Fil!CheckName, RecP!Fil!CheckName, Fil!Exists, RecP!Fil!Exists, Fil!Upload,
         RecP!Fil!Upload, Fil!Insert, RecP!Fil!Insert, Fil!Crash, RecP!Fil!Crash, Fil!Ends,
         RecP!Fil!Ends, Fil!Goes, RecP!Fil!Goes, Fil!Refused, RecP!Fil!Refused, Fil!Path,
         RecP!Fil!Path, Fil!Lower, RecP!Fil!Lower, Fil!Idle, RecP!Fil!Idle, Fil!NoType,
         RecP!Fil!NoType, Fil!Paths, RecP!Fil!Paths, Fil!Types, RecP!Fil!Types

LEMMA SameFilesVars == UNCHANGED <<ofFiles, req, requests>> => UNCHANGED RecP!Fil!vars
  BY DEF ofFiles, RecP!Fil!vars

LEMMA NextFiles == ASSUME FilesOK, [Next]_vars PROVE FilesOK'
  <1>1. RecP!FilesInv /\ [RecP!Fil!Next]_(RecP!Fil!vars) => RecP!FilesInv'
    BY FilesConstants, RecP!NextFilesInv
  <1> QED
    BY <1>1, SameFilesNext, SameFilesVars DEF FilesOK, Next, vars

LEMMA InitFiles == Init => FilesOK
  BY FilesConstants, SameFilesInit, RecP!FilesInit DEF FilesOK, Init

LEMMA FilesOKSuffices == ASSUME FilesOK  PROVE FilesHold
  <1>1. ASSUME which = "files"
        PROVE  RecP!Fil!RowHasObject /\ RecP!Fil!UnlistedNeedsLoss /\ RecP!Fil!RefusedWroteNothing
    BY <1>1, RecP!FilesInvSuffices DEF FilesOK
  <1>2. RecP!Fil!RowHasObject => Fil!RowHasObject
    BY DEF Fil!RowHasObject, RecP!Fil!RowHasObject, Fil!Lower, RecP!Fil!Lower, Fil!Types,
           RecP!Fil!Types
  <1>3. RecP!Fil!UnlistedNeedsLoss => Fil!UnlistedNeedsLoss
    BY DEF Fil!UnlistedNeedsLoss, RecP!Fil!UnlistedNeedsLoss, Fil!Lower, RecP!Fil!Lower,
           Fil!Types, RecP!Fil!Types, Fil!Listed, RecP!Fil!Listed, Fil!Paths, RecP!Fil!Paths,
           Fil!Path, RecP!Fil!Path
  <1>4. RecP!Fil!RefusedWroteNothing => Fil!RefusedWroteNothing
    BY DEF Fil!RefusedWroteNothing, RecP!Fil!RefusedWroteNothing
  <1> QED
    BY <1>1, <1>2, <1>3, <1>4 DEF FilesHold

\* Every row of saveFile has its object, an object without a row is the trace of
\* a fault, and a refused name wrote nothing.
THEOREM FilesAlwaysHold == Spec => []FilesHold
  BY InitFiles, NextFiles, FilesOKSuffices, PTL DEF Spec

-----------------------------------------------------------------------------
PowersOK == which = "powers" => RecP!PowersInv

LEMMA PowersConstants == RecP!Pow!ConstantsAssumption
  BY InstancesAssumption DEF InstancesAssumption, Pow!ConstantsAssumption,
     RecP!Pow!ConstantsAssumption, Pow!IsFiniteSet, RecP!Pow!IsFiniteSet

LEMMA SamePowersInit == Pow!Init => RecP!Pow!Init
  BY DEF Pow!Init, RecP!Pow!Init, Pow!NoRow, RecP!Pow!NoRow, Pow!NONE, RecP!Pow!NONE, Pow!Idle,
         RecP!Pow!Idle

LEMMA SamePowersNext == Pow!Next => RecP!Pow!Next
  BY DEF Pow!Next, RecP!Pow!Next, Pow!Step, RecP!Pow!Step, Pow!Post, RecP!Pow!Post, Pow!Create,
         RecP!Pow!Create, Pow!Push, RecP!Pow!Push, Pow!Load, RecP!Pow!Load, Pow!Write,
         RecP!Pow!Write, Pow!Mail, RecP!Pow!Mail, Pow!Ends, RecP!Pow!Ends, Pow!Existing,
         RecP!Pow!Existing, Pow!Legal, RecP!Pow!Legal, Pow!Mails, RecP!Pow!Mails, Pow!Submitted,
         RecP!Pow!Submitted, Pow!Idle, RecP!Pow!Idle, Pow!NoRow, RecP!Pow!NoRow, Pow!NONE,
         RecP!Pow!NONE, Pow!PENDING, RecP!Pow!PENDING, Pow!APPROVED, RecP!Pow!APPROVED,
         Pow!REJECTED, RecP!Pow!REJECTED

LEMMA SamePowersVars == UNCHANGED <<ofPowers, req, requests>> => UNCHANGED RecP!Pow!vars
  BY DEF ofPowers, RecP!Pow!vars

LEMMA PowersStep == ASSUME [Next]_vars, which = "powers"  PROVE [RecP!Pow!Next]_(RecP!Pow!vars)
  BY SamePowersNext, SamePowersVars DEF Next, vars

LEMMA NextPowers == ASSUME PowersOK, [Next]_vars  PROVE PowersOK'
  <1>1. RecP!PowersInv /\ [RecP!Pow!Next]_(RecP!Pow!vars) => RecP!PowersInv'
    BY PowersConstants, RecP!NextPowersInv
  <1>2. which' = which
    BY DEF Next, vars
  <1> QED
    BY <1>1, <1>2, PowersStep DEF PowersOK

LEMMA InitPowers == Init => PowersOK
  BY SamePowersInit, RecP!PowersInit DEF PowersOK, Init

LEMMA PowersOKSuffices ==
    /\ PowersOK => (which = "powers" => Pow!LettersWereDecisions)
    /\ PowersOK /\ [Next]_vars => [which = "powers" => Pow!LetterTakesTwo]_vars
  <1>1. PowersOK => (which = "powers" => Pow!LettersWereDecisions)
    <2>1. RecP!Pow!LettersWereDecisions => Pow!LettersWereDecisions
      BY DEF RecP!Pow!LettersWereDecisions, Pow!LettersWereDecisions, RecP!Pow!Cardinality,
             Pow!Cardinality, RecP!Pow!IsFiniteSet, Pow!IsFiniteSet
    <2> QED
      BY <2>1, PowersConstants, RecP!FewLetters DEF PowersOK
  <1>2. PowersOK /\ [Next]_vars => [which = "powers" => Pow!LetterTakesTwo]_vars
    <2>1. RecP!Pow!LetterTakesTwo => Pow!LetterTakesTwo
      BY DEF RecP!Pow!LetterTakesTwo, Pow!LetterTakesTwo, RecP!Pow!NoRow, Pow!NoRow,
             RecP!Pow!NONE, Pow!NONE
    <2>2. ASSUME PowersOK, [Next]_vars, which = "powers" PROVE RecP!Pow!LetterTakesTwo
      BY <2>2, PowersStep, RecP!TwoDecide DEF PowersOK
    <2> QED
      BY <2>1, <2>2
  <1> QED
    BY <1>1, <1>2

\* It takes the requester and the requestee to decide a power (updatePower), and
\* its letter goes out as often as it was decided while pending, at most.
THEOREM PowersAlwaysHold == Spec => PowersHold
  BY InitPowers, NextPowers, PowersOKSuffices, PTL DEF Spec, PowersHold

-----------------------------------------------------------------------------
LoginsOK == which = "accounts" => RecP!AccountsInv

LEMMA AccConstants == RecP!ConstantsAssumption
  BY InstancesAssumption
     DEF InstancesAssumption, Acc!ConstantsAssumption, RecP!ConstantsAssumption

LEMMA SameAccInit == Acc!Init => RecP!Init
  BY DEF Acc!Init, RecP!Init, Acc!Ids, RecP!Ids, Acc!NoAccount, RecP!NoAccount, Acc!NewAccount,
         RecP!NewAccount, Acc!Member, RecP!Member, Acc!Links, RecP!Links, Acc!NoLink,
         RecP!NoLink, Acc!Idle, RecP!Idle

LEMMA SameAccNext == Acc!Next => RecP!Next
  <1>1. ASSUME NEW q \in Requests
        PROVE  Acc!Post(q) => RecP!Post(q)
    BY DEF Acc!Post, RecP!Post, Acc!Ids, RecP!Ids, Acc!NoAccount, RecP!NoAccount, Acc!Rows,
           RecP!Rows, Acc!Links, RecP!Links, Acc!NoLink, RecP!NoLink, Acc!Idle, RecP!Idle,
           Acc!history, RecP!history, Acc!Ends, RecP!Ends, Acc!Goes, RecP!Goes
  <1>2. ASSUME NEW q \in Requests
        PROVE  Acc!Insert(q) => RecP!Insert(q)
    BY DEF Acc!Insert, RecP!Insert, Acc!InTransaction, RecP!InTransaction, Acc!Min, RecP!Min,
           Acc!Ids, RecP!Ids, Acc!NoAccount, RecP!NoAccount, Acc!Rows, RecP!Rows, Acc!Links,
           RecP!Links, Acc!NoLink, RecP!NoLink, Acc!Idle, RecP!Idle, Acc!history, RecP!history,
           Acc!Ends, RecP!Ends, Acc!Goes, RecP!Goes
  <1>3. ASSUME NEW q \in Requests
        PROVE  /\ Acc!Invite(q) => RecP!Invite(q)
               /\ Acc!Commit(q) => RecP!Commit(q)
               /\ Acc!Rollback(q) => RecP!Rollback(q)
               /\ Acc!CheckKey(q) => RecP!CheckKey(q)
               /\ Acc!Open(q) => RecP!Open(q)
    BY DEF Acc!Invite, RecP!Invite, Acc!Commit, RecP!Commit, Acc!Rollback, RecP!Rollback,
           Acc!CheckKey, RecP!CheckKey, Acc!KeyMatches, RecP!KeyMatches, Acc!Open, RecP!Open,
           Acc!NewAccount, RecP!NewAccount, Acc!Ids, RecP!Ids, Acc!NoAccount, RecP!NoAccount,
           Acc!Rows, RecP!Rows, Acc!Links, RecP!Links, Acc!NoLink, RecP!NoLink, Acc!Idle,
           RecP!Idle, Acc!history, RecP!history, Acc!Ends, RecP!Ends, Acc!Goes, RecP!Goes
  <1>4. ASSUME NEW q \in Requests
        PROVE  /\ Acc!Authenticate(q) => RecP!Authenticate(q)
               /\ Acc!FindToken(q) => RecP!FindToken(q)
               /\ Acc!IssueToken(q) => RecP!IssueToken(q)
    BY DEF Acc!Authenticate, RecP!Authenticate, Acc!FindToken, RecP!FindToken, Acc!IssueToken,
           RecP!IssueToken, Acc!Answer, RecP!Answer, Acc!Ids, RecP!Ids, Acc!NoAccount,
           RecP!NoAccount, Acc!Rows, RecP!Rows, Acc!Links, RecP!Links, Acc!NoLink, RecP!NoLink,
           Acc!Idle, RecP!Idle, Acc!history, RecP!history, Acc!Ends, RecP!Ends, Acc!Goes,
           RecP!Goes
  <1>5. ASSUME NEW q \in Requests
        PROVE  Acc!Forgot(q) => RecP!Forgot(q)
    BY DEF Acc!Forgot, RecP!Forgot, Acc!getUserByEmail, RecP!getUserByEmail, Acc!NO_USER,
           RecP!NO_USER, Acc!Min, RecP!Min, Acc!Cardinality, RecP!Cardinality, Acc!IsFiniteSet,
           RecP!IsFiniteSet, Acc!Ids, RecP!Ids, Acc!NoAccount, RecP!NoAccount, Acc!Rows,
           RecP!Rows, Acc!Links, RecP!Links, Acc!NoLink, RecP!NoLink, Acc!Idle, RecP!Idle,
           Acc!history, RecP!history, Acc!Ends, RecP!Ends, Acc!Goes, RecP!Goes
  <1>6. ASSUME NEW q \in Requests
        PROVE  /\ Acc!CheckLink(q) => RecP!CheckLink(q)
               /\ Acc!SetPassword(q) => RecP!SetPassword(q)
    BY DEF Acc!CheckLink, RecP!CheckLink, Acc!checkToken, RecP!checkToken, Acc!SetPassword,
           RecP!SetPassword, Acc!Ids, RecP!Ids, Acc!NoAccount, RecP!NoAccount, Acc!Rows,
           RecP!Rows, Acc!Links, RecP!Links, Acc!NoLink, RecP!NoLink, Acc!Idle, RecP!Idle,
           Acc!history, RecP!history, Acc!Ends, RecP!Ends, Acc!Goes, RecP!Goes
  <1>7. ASSUME NEW i \in Acc!Ids
        PROVE  /\ Acc!Deactivate(i) => RecP!Deactivate(i)
               /\ \A e : Acc!SetEmail(i, e) => RecP!SetEmail(i, e)
    BY DEF Acc!Deactivate, RecP!Deactivate, Acc!SetEmail, RecP!SetEmail, Acc!Ids, RecP!Ids,
           Acc!NoAccount, RecP!NoAccount, Acc!Rows, RecP!Rows, Acc!Links, RecP!Links, Acc!NoLink,
           RecP!NoLink, Acc!Idle, RecP!Idle, Acc!history, RecP!history, Acc!Ends, RecP!Ends,
           Acc!Goes, RecP!Goes
  <1>8. ASSUME NEW l \in Acc!Links
        PROVE  /\ Acc!Expire(l) => RecP!Expire(l)
               /\ \A b : Acc!Follow(b, l) => RecP!Follow(b, l)
    BY DEF Acc!Expire, RecP!Expire, Acc!Follow, RecP!Follow, Acc!checkToken, RecP!checkToken,
           Acc!Ids, RecP!Ids, Acc!NoAccount, RecP!NoAccount, Acc!Rows, RecP!Rows, Acc!Links,
           RecP!Links, Acc!NoLink, RecP!NoLink, Acc!Idle, RecP!Idle, Acc!history, RecP!history,
           Acc!Ends, RecP!Ends, Acc!Goes, RecP!Goes
  <1> QED
    BY <1>1, <1>2, <1>3, <1>4, <1>5, <1>6, <1>7, <1>8
       DEF Acc!Next, RecP!Next, Acc!Step, RecP!Step, Acc!Ids, RecP!Ids, Acc!Links, RecP!Links

LEMMA AccStep ==
    ASSUME [Next]_vars, which = "accounts"
    PROVE  [RecP!Next]_(RecP!vars) /\ which' = which
  BY SameAccNext DEF Next, vars, ofAccounts, RecP!vars

LEMMA NextAcc == ASSUME LoginsOK, [Next]_vars  PROVE LoginsOK'
  <1>1. RecP!AccountsInv /\ [RecP!Next]_(RecP!vars) => RecP!AccountsInv'
    BY AccConstants, RecP!NextAccountsInv
  <1>2. which' = which
    BY DEF Next, vars
  <1> QED
    BY <1>1, <1>2, AccStep DEF LoginsOK

LEMMA InitAcc == Init => LoginsOK
  BY AccConstants, SameAccInit, RecP!AccountsInit DEF LoginsOK, Init

LEMMA LoginsOKSuffices ==
    /\ LoginsOK => LoginsHold
    /\ LoginsOK /\ [Next]_vars => [which = "accounts" => Acc!StaysDeactivated]_vars
  <1>1. RecP!InvitedOrOpened /\ RecP!OneKeyPerUser /\ RecP!LoginNeverFails
        => Acc!InvitedOrOpened /\ Acc!OneKeyPerUser /\ Acc!LoginNeverFails
    BY DEF Acc!InvitedOrOpened, RecP!InvitedOrOpened, Acc!OneKeyPerUser, RecP!OneKeyPerUser,
           Acc!LoginNeverFails, RecP!LoginNeverFails, Acc!Rows, RecP!Rows, Acc!Ids, RecP!Ids,
           Acc!NoAccount, RecP!NoAccount
  <1>2. RecP!StaysDeactivated => Acc!StaysDeactivated
    BY DEF RecP!StaysDeactivated, Acc!StaysDeactivated
  <1>3. LoginsOK => LoginsHold
    BY <1>1, RecP!LoginsAreSafe DEF LoginsOK, LoginsHold
  <1>4. LoginsOK /\ [Next]_vars /\ which = "accounts" => RecP!StaysDeactivated
    BY AccConstants, AccStep, RecP!DeactivatedStay DEF LoginsOK
  <1> QED
    BY <1>2, <1>3, <1>4

-----------------------------------------------------------------------------
ResP == INSTANCE RecordsProofs WITH
    MaxId <- 2, Emails <- {e1, e2, e3}, FirstEmail <- e1, Browsers <- {b1, b2},
    MaxRequests <- 4, MaxLinks <- 2,
    Kinds <- {"create", "email", "forgot", "follow", "submit", "activate"},
    Accounts <- {a1, a2, a3}, Orphans <- {a3}, MaxDay <- 2, MaxPuts <- 1, MaxFaults <- 2,
    Members <- Users, Powers <- {p1, p2}, MaxDecisions <- 4,
    Names <- {"a", "A", "b"}, LowerNames <- {"a", "b"}, MaxUploads <- 3

ResetsOK == which = "resets" => ResP!AccountsInv

LEMMA ResConstants == ResP!ConstantsAssumption
  BY InstancesAssumption
     DEF InstancesAssumption, Res!ConstantsAssumption, ResP!ConstantsAssumption

LEMMA SameResInit == Res!Init => ResP!Init
  BY DEF Res!Init, ResP!Init, Res!Ids, ResP!Ids, Res!NoAccount, ResP!NoAccount, Res!NewAccount,
         ResP!NewAccount, Res!Member, ResP!Member, Res!Links, ResP!Links, Res!NoLink,
         ResP!NoLink, Res!Idle, ResP!Idle

LEMMA SameResNext == Res!Next => ResP!Next
  <1>1. ASSUME NEW q \in Requests
        PROVE  Res!Post(q) => ResP!Post(q)
    BY DEF Res!Post, ResP!Post, Res!Ids, ResP!Ids, Res!NoAccount, ResP!NoAccount, Res!Rows,
           ResP!Rows, Res!Links, ResP!Links, Res!NoLink, ResP!NoLink, Res!Idle, ResP!Idle,
           Res!history, ResP!history, Res!Ends, ResP!Ends, Res!Goes, ResP!Goes
  <1>2. ASSUME NEW q \in Requests
        PROVE  Res!Insert(q) => ResP!Insert(q)
    BY DEF Res!Insert, ResP!Insert, Res!InTransaction, ResP!InTransaction, Res!Min, ResP!Min,
           Res!Ids, ResP!Ids, Res!NoAccount, ResP!NoAccount, Res!Rows, ResP!Rows, Res!Links,
           ResP!Links, Res!NoLink, ResP!NoLink, Res!Idle, ResP!Idle, Res!history, ResP!history,
           Res!Ends, ResP!Ends, Res!Goes, ResP!Goes
  <1>3. ASSUME NEW q \in Requests
        PROVE  /\ Res!Invite(q) => ResP!Invite(q)
               /\ Res!Commit(q) => ResP!Commit(q)
               /\ Res!Rollback(q) => ResP!Rollback(q)
               /\ Res!CheckKey(q) => ResP!CheckKey(q)
               /\ Res!Open(q) => ResP!Open(q)
    BY DEF Res!Invite, ResP!Invite, Res!Commit, ResP!Commit, Res!Rollback, ResP!Rollback,
           Res!CheckKey, ResP!CheckKey, Res!KeyMatches, ResP!KeyMatches, Res!Open, ResP!Open,
           Res!NewAccount, ResP!NewAccount, Res!Ids, ResP!Ids, Res!NoAccount, ResP!NoAccount,
           Res!Rows, ResP!Rows, Res!Links, ResP!Links, Res!NoLink, ResP!NoLink, Res!Idle,
           ResP!Idle, Res!history, ResP!history, Res!Ends, ResP!Ends, Res!Goes, ResP!Goes
  <1>4. ASSUME NEW q \in Requests
        PROVE  /\ Res!Authenticate(q) => ResP!Authenticate(q)
               /\ Res!FindToken(q) => ResP!FindToken(q)
               /\ Res!IssueToken(q) => ResP!IssueToken(q)
    BY DEF Res!Authenticate, ResP!Authenticate, Res!FindToken, ResP!FindToken, Res!IssueToken,
           ResP!IssueToken, Res!Answer, ResP!Answer, Res!Ids, ResP!Ids, Res!NoAccount,
           ResP!NoAccount, Res!Rows, ResP!Rows, Res!Links, ResP!Links, Res!NoLink, ResP!NoLink,
           Res!Idle, ResP!Idle, Res!history, ResP!history, Res!Ends, ResP!Ends, Res!Goes,
           ResP!Goes
  <1>5. ASSUME NEW q \in Requests
        PROVE  Res!Forgot(q) => ResP!Forgot(q)
    BY DEF Res!Forgot, ResP!Forgot, Res!getUserByEmail, ResP!getUserByEmail, Res!NO_USER,
           ResP!NO_USER, Res!Min, ResP!Min, Res!Cardinality, ResP!Cardinality, Res!IsFiniteSet,
           ResP!IsFiniteSet, Res!Ids, ResP!Ids, Res!NoAccount, ResP!NoAccount, Res!Rows,
           ResP!Rows, Res!Links, ResP!Links, Res!NoLink, ResP!NoLink, Res!Idle, ResP!Idle,
           Res!history, ResP!history, Res!Ends, ResP!Ends, Res!Goes, ResP!Goes
  <1>6. ASSUME NEW q \in Requests
        PROVE  /\ Res!CheckLink(q) => ResP!CheckLink(q)
               /\ Res!SetPassword(q) => ResP!SetPassword(q)
    BY DEF Res!CheckLink, ResP!CheckLink, Res!checkToken, ResP!checkToken, Res!SetPassword,
           ResP!SetPassword, Res!Ids, ResP!Ids, Res!NoAccount, ResP!NoAccount, Res!Rows,
           ResP!Rows, Res!Links, ResP!Links, Res!NoLink, ResP!NoLink, Res!Idle, ResP!Idle,
           Res!history, ResP!history, Res!Ends, ResP!Ends, Res!Goes, ResP!Goes
  <1>7. ASSUME NEW i \in Res!Ids
        PROVE  /\ Res!Deactivate(i) => ResP!Deactivate(i)
               /\ \A e : Res!SetEmail(i, e) => ResP!SetEmail(i, e)
    BY DEF Res!Deactivate, ResP!Deactivate, Res!SetEmail, ResP!SetEmail, Res!Ids, ResP!Ids,
           Res!NoAccount, ResP!NoAccount, Res!Rows, ResP!Rows, Res!Links, ResP!Links, Res!NoLink,
           ResP!NoLink, Res!Idle, ResP!Idle, Res!history, ResP!history, Res!Ends, ResP!Ends,
           Res!Goes, ResP!Goes
  <1>8. ASSUME NEW l \in Res!Links
        PROVE  /\ Res!Expire(l) => ResP!Expire(l)
               /\ \A b : Res!Follow(b, l) => ResP!Follow(b, l)
    BY DEF Res!Expire, ResP!Expire, Res!Follow, ResP!Follow, Res!checkToken, ResP!checkToken,
           Res!Ids, ResP!Ids, Res!NoAccount, ResP!NoAccount, Res!Rows, ResP!Rows, Res!Links,
           ResP!Links, Res!NoLink, ResP!NoLink, Res!Idle, ResP!Idle, Res!history, ResP!history,
           Res!Ends, ResP!Ends, Res!Goes, ResP!Goes
  <1> QED
    BY <1>1, <1>2, <1>3, <1>4, <1>5, <1>6, <1>7, <1>8
       DEF Res!Next, ResP!Next, Res!Step, ResP!Step, Res!Ids, ResP!Ids, Res!Links, ResP!Links

LEMMA ResStep ==
    ASSUME [Next]_vars, which = "resets"
    PROVE  [ResP!Next]_(ResP!vars) /\ which' = which
  BY SameResNext DEF Next, vars, ofAccounts, ResP!vars

LEMMA NextRes == ASSUME ResetsOK, [Next]_vars  PROVE ResetsOK'
  <1>1. ResP!AccountsInv /\ [ResP!Next]_(ResP!vars) => ResP!AccountsInv'
    BY ResConstants, ResP!NextAccountsInv
  <1>2. which' = which
    BY DEF Next, vars
  <1> QED
    BY <1>1, <1>2, ResStep DEF ResetsOK

LEMMA InitRes == Init => ResetsOK
  BY ResConstants, SameResInit, ResP!AccountsInit DEF ResetsOK, Init

LEMMA ResetsOKSuffices ==
    /\ ResetsOK => ResetsHold
    /\ ResetsOK /\ [Next]_vars => [which = "resets" => Res!UsedLinkIsRefused]_vars
  <1>1. ResP!EveryAddressResets => Res!EveryAddressResets
    BY DEF Res!EveryAddressResets, ResP!EveryAddressResets, Res!getUserByEmail,
           ResP!getUserByEmail, Res!NO_USER, ResP!NO_USER, Res!Rows, ResP!Rows, Res!Ids, ResP!Ids,
           Res!NoAccount, ResP!NoAccount, Res!Min, ResP!Min, Res!Cardinality, ResP!Cardinality,
           Res!IsFiniteSet, ResP!IsFiniteSet
  <1>2. ResP!LinkBindsAccount => Res!LinkBindsAccount
    BY DEF ResP!LinkBindsAccount, Res!LinkBindsAccount
  <1>3. ResP!UsedLinkIsRefused => Res!UsedLinkIsRefused
    BY DEF ResP!UsedLinkIsRefused, Res!UsedLinkIsRefused
  <1>4. ResetsOK => ResetsHold
    BY <1>1, <1>2, ResConstants, ResP!AddressesReset, ResP!LinksBind DEF ResetsOK, ResetsHold
  <1>5. ResetsOK /\ [Next]_vars /\ which = "resets" => ResP!UsedLinkIsRefused
    BY ResConstants, ResStep, ResP!UsedAreRefused DEF ResetsOK
  <1> QED
    BY <1>3, <1>4, <1>5

\* Every account can be opened, and however many log in at once, a user's
\* logins are answered with the one key that is stored.
THEOREM LoginsAlwaysHold == Spec => []LoginsHold
  BY InitAcc, NextAcc, LoginsOKSuffices, PTL DEF Spec

\* Every address finds an account, and a link changes its own account's password.
THEOREM ResetsAlwaysHold == Spec => []ResetsHold
  BY InitRes, NextRes, ResetsOKSuffices, PTL DEF Spec

\* A deactivated account is opened again by an earlier activation only, and a
\* link a password was written with does not pass the check again.
THEOREM AccountsAlwaysStayClosed == Spec => AccountsStayClosed
  <1>1. ASSUME [which = "accounts" => Acc!StaysDeactivated]_vars,
               [which = "resets" => Res!UsedLinkIsRefused]_vars
        PROVE  [/\ which = "accounts" => Acc!StaysDeactivated
                /\ which = "resets" => Res!UsedLinkIsRefused]_vars
    BY <1>1
  <1> QED
    BY <1>1, InitAcc, NextAcc, LoginsOKSuffices, InitRes, NextRes, ResetsOKSuffices, PTL
       DEF Spec, AccountsStayClosed

-----------------------------------------------------------------------------
MemP == INSTANCE MembersProofs WITH
    Members <- Users, Opening <- u1 :> ADMIN @@ u2 :> MEMBER,
    Identity <- u1 :> i1 @@ u2 :> i2, Identifications <- {i1, i2, i3},
    MaxRequests <- 3, MaxLines <- 2,
    Endpoints <- {e1, e2}, Attempts <- 3, Acts <- {a1, a2}, MaxYear <- 1, MaxCrashes <- 1,
    Kinds <- {}

MembersOK == which = "members" => MemP!MemInv

LEMMA MemConstants == MemP!ConstantsAssumption
  BY InstancesAssumption
     DEF InstancesAssumption, Mem!ConstantsAssumption, MemP!ConstantsAssumption,
         Mem!Roles, MemP!Roles

LEMMA SameMemInit == Mem!Init => MemP!Init
  BY DEF Mem!Init, MemP!Init, Mem!Idle, MemP!Idle, Mem!NoRole, MemP!NoRole

LEMMA SameMemNext == Mem!Next => MemP!Next
  <1>1. ASSUME NEW q \in Requests
        PROVE  Mem!PatchUser(q) => MemP!PatchUser(q)
    BY DEF Mem!PatchUser, MemP!PatchUser, Mem!Begin, MemP!Begin, Mem!isRoleAllowed,
           MemP!isRoleAllowed, Mem!V1_VIEW_NAMES, MemP!V1_VIEW_NAMES, Mem!PERMISSION_MATRIX,
           MemP!PERMISSION_MATRIX, Mem!Ceiling, MemP!Ceiling, Mem!Anyone, MemP!Anyone,
           Mem!Bookkeepers, MemP!Bookkeepers, Mem!ADMIN, MemP!ADMIN, Mem!PRESIDENT,
           MemP!PRESIDENT, Mem!TREASURER, MemP!TREASURER, Mem!MEMBER, MemP!MEMBER,
           Mem!resolveDetailUserId, MemP!resolveDetailUserId, Mem!Self, MemP!Self,
           Mem!canWriteSection, MemP!canWriteSection, Mem!Idle, MemP!Idle, Mem!Ends, MemP!Ends,
           Mem!Profile, MemP!Profile, Mem!Quotas, MemP!Quotas, Mem!Roles, MemP!Roles, Mem!NoRole,
           MemP!NoRole, Mem!Money, MemP!Money
  <1>2. ASSUME NEW q \in Requests
        PROVE  /\ Mem!PatchFile(q) => MemP!PatchFile(q)
               /\ Mem!PostLoan(q) => MemP!PostLoan(q)
    BY DEF Mem!PatchFile, MemP!PatchFile, Mem!PostLoan, MemP!PostLoan, Mem!Begin, MemP!Begin,
           Mem!isRoleAllowed, MemP!isRoleAllowed, Mem!V1_VIEW_NAMES, MemP!V1_VIEW_NAMES,
           Mem!PERMISSION_MATRIX, MemP!PERMISSION_MATRIX, Mem!Ceiling, MemP!Ceiling, Mem!Anyone,
           MemP!Anyone, Mem!Bookkeepers, MemP!Bookkeepers, Mem!ADMIN, MemP!ADMIN, Mem!PRESIDENT,
           MemP!PRESIDENT, Mem!TREASURER, MemP!TREASURER, Mem!MEMBER, MemP!MEMBER, Mem!Idle,
           MemP!Idle, Mem!Ends, MemP!Ends, Mem!Profile, MemP!Profile, Mem!Quotas, MemP!Quotas,
           Mem!Roles, MemP!Roles, Mem!NoRole, MemP!NoRole, Mem!Money, MemP!Money
  <1>3. ASSUME NEW q \in Requests
        PROVE  /\ Mem!ReadProfile(q) => MemP!ReadProfile(q)
               /\ Mem!SavePersonal(q) => MemP!SavePersonal(q)
    BY DEF Mem!ReadProfile, MemP!ReadProfile, Mem!SavePersonal, MemP!SavePersonal, Mem!permits,
           MemP!permits, Mem!userPatchAllowlist, MemP!userPatchAllowlist, Mem!canWriteSection,
           MemP!canWriteSection, Mem!SECTION_FIELDS, MemP!SECTION_FIELDS, Mem!PRIVILEGED_FIELDS,
           MemP!PRIVILEGED_FIELDS, Mem!changedSectionFields, MemP!changedSectionFields,
           Mem!Bookkeepers, MemP!Bookkeepers, Mem!ADMIN, MemP!ADMIN, Mem!TREASURER,
           MemP!TREASURER, Mem!Idle, MemP!Idle, Mem!Ends, MemP!Ends, Mem!Profile, MemP!Profile,
           Mem!Quotas, MemP!Quotas, Mem!Roles, MemP!Roles, Mem!NoRole, MemP!NoRole, Mem!Money,
           MemP!Money
  <1>4. ASSUME NEW q \in Requests
        PROVE  /\ Mem!ReadFinance(q) => MemP!ReadFinance(q)
               /\ Mem!SaveFinance(q) => MemP!SaveFinance(q)
    BY DEF Mem!ReadFinance, MemP!ReadFinance, Mem!SaveFinance, MemP!SaveFinance, Mem!Unchanged,
           MemP!Unchanged, Mem!WithQuota, MemP!WithQuota, Mem!LockFree, MemP!LockFree, Mem!Idle,
           MemP!Idle, Mem!Ends, MemP!Ends, Mem!Profile, MemP!Profile, Mem!Quotas, MemP!Quotas,
           Mem!Roles, MemP!Roles, Mem!NoRole, MemP!NoRole, Mem!Money, MemP!Money
  <1>5. ASSUME NEW q \in Requests
        PROVE  /\ Mem!Line(q) => MemP!Line(q)
               /\ Mem!CommitFile(q) => MemP!CommitFile(q)
               /\ Mem!RollbackFile(q) => MemP!RollbackFile(q)
    BY DEF Mem!Line, MemP!Line, Mem!CommitFile, MemP!CommitFile, Mem!RollbackFile,
           MemP!RollbackFile, Mem!Unchanged, MemP!Unchanged, Mem!WithQuota, MemP!WithQuota,
           Mem!LockFree, MemP!LockFree, Mem!Found, MemP!Found, Mem!FileQuota, MemP!FileQuota,
           Mem!Idle, MemP!Idle, Mem!Ends, MemP!Ends, Mem!Profile, MemP!Profile, Mem!Quotas,
           MemP!Quotas, Mem!Roles, MemP!Roles, Mem!NoRole, MemP!NoRole, Mem!Money, MemP!Money
  <1>6. ASSUME NEW q \in Requests
        PROVE  /\ Mem!ReadQuota(q) => MemP!ReadQuota(q)
               /\ Mem!InsertLoan(q) => MemP!InsertLoan(q)
    BY DEF Mem!ReadQuota, MemP!ReadQuota, Mem!InsertLoan, MemP!InsertLoan, Mem!Idle, MemP!Idle,
           Mem!Ends, MemP!Ends, Mem!Profile, MemP!Profile, Mem!Quotas, MemP!Quotas, Mem!Roles,
           MemP!Roles, Mem!NoRole, MemP!NoRole, Mem!Money, MemP!Money
  <1> QED
    BY <1>1, <1>2, <1>3, <1>4, <1>5, <1>6
       DEF Mem!Next, MemP!Next

LEMMA MemStep ==
    ASSUME [Next]_vars, which = "members"
    PROVE  [MemP!Next]_(MemP!vars) /\ which' = which
  BY SameMemNext DEF Next, vars, ofMembers, MemP!vars

LEMMA NextMem == ASSUME MembersOK, [Next]_vars  PROVE MembersOK'
  <1>1. MemP!MemInv /\ [MemP!Next]_(MemP!vars) => MemP!MemInv'
    BY MemConstants, MemP!MemStep
  <1>2. which' = which
    BY DEF Next, vars
  <1> QED
    BY <1>1, <1>2, MemStep DEF MembersOK

LEMMA InitMem == Init => MembersOK
  BY MemConstants, SameMemInit, MemP!MemInit DEF MembersOK, Init

LEMMA MembersOKSuffices ==
    /\ MembersOK => FinancesHold /\ (which = "members" => Mem!TypeOK)
    /\ MembersOK /\ [Next]_vars => [which = "members" => Mem!PrivilegedByAdminOrEcho]_vars
    /\ MembersOK /\ [Next]_vars => [which = "members" => Mem!LoanFitsUnlessMoved]_vars
  <1>1. MemP!TypeOK => Mem!TypeOK
    BY DEF Mem!TypeOK, MemP!TypeOK, Mem!Profile, MemP!Profile, Mem!Money, MemP!Money, Mem!Roles,
           MemP!Roles, Mem!NoRole, MemP!NoRole
  <1>2. MemP!FinancesAddUp /\ MemP!FileAllOrNothing => Mem!FinancesAddUp /\ Mem!FileAllOrNothing
    BY DEF Mem!FinancesAddUp, MemP!FinancesAddUp, Mem!FileAllOrNothing, MemP!FileAllOrNothing,
           Mem!FileQuota, MemP!FileQuota
  <1>3. MemP!PrivilegedByAdminOrEcho => Mem!PrivilegedByAdminOrEcho
    BY DEF Mem!PrivilegedByAdminOrEcho, MemP!PrivilegedByAdminOrEcho, Mem!PRIVILEGED_FIELDS,
           MemP!PRIVILEGED_FIELDS, Mem!ADMIN, MemP!ADMIN
  <1>4. MemP!LoanFitsUnlessMoved => Mem!LoanFitsUnlessMoved
    BY DEF Mem!LoanFitsUnlessMoved, MemP!LoanFitsUnlessMoved
  <1>5. MembersOK => FinancesHold /\ (which = "members" => Mem!TypeOK)
    BY <1>1, <1>2, MemP!MemSuffices DEF MembersOK, FinancesHold
  <1>6. MembersOK /\ [Next]_vars /\ which = "members"
        => MemP!PrivilegedByAdminOrEcho /\ MemP!LoanFitsUnlessMoved
    BY MemStep, MemP!MemActions DEF MembersOK
  <1> QED
    BY <1>3, <1>4, <1>5, <1>6

\* The figures of each member agree, whatever sections, files and applications
\* interleave, and a file that fails leaves none of its own.
THEOREM FinancesAlwaysHold == Spec => []FinancesHold
  BY InitMem, NextMem, MembersOKSuffices, PTL DEF Spec

\* A role or an identification moves by an administrator's request, or back to
\* what the request has read.
THEOREM PrivilegesAlwaysMoveByRight == Spec => PrivilegedByAdminOrEcho
  BY InitMem, NextMem, MembersOKSuffices, PTL DEF Spec, PrivilegedByAdminOrEcho

\* An application over the quota was checked before the quota moved.
THEOREM LoansAlwaysFitTheQuotaRead == Spec => LoanFitsUnlessMoved
  BY InitMem, NextMem, MembersOKSuffices, PTL DEF Spec, LoanFitsUnlessMoved

-----------------------------------------------------------------------------
\* Subscriptions and activities, for the constants of both.
SubP == INSTANCE MembersProofs WITH
    Members <- Users, Opening <- u1 :> ADMIN @@ u2 :> MEMBER,
    Identity <- u1 :> i1 @@ u2 :> i2, Identifications <- {i1, i2, i3},
    MaxRequests <- 4, MaxLines <- 2,
    Endpoints <- {e1, e2}, Attempts <- 3, Acts <- {a1, a2}, MaxYear <- 1, MaxCrashes <- 1,
    Kinds <- {"create", "patch", "user", "remove", "toggle"}

SubscriptionsOK == which = "subscriptions" => SubP!SubInv

LEMMA SubConstants == SubP!Sub!ConstantsAssumption
  BY InstancesAssumption
     DEF InstancesAssumption, Sub!ConstantsAssumption, SubP!Sub!ConstantsAssumption

LEMMA SameSubInit == Sub!Init => SubP!Sub!Init
  BY DEF Sub!Init, SubP!Sub!Init, Sub!Idle, SubP!Sub!Idle

LEMMA SameSubNext == Sub!Next => SubP!Sub!Next
  <1>1. ASSUME NEW q \in Requests
        PROVE  /\ Sub!Post(q) => SubP!Sub!Post(q)
               /\ Sub!PatchPreferences(q) => SubP!Sub!PatchPreferences(q)
               /\ Sub!Notify(q) => SubP!Sub!Notify(q)
    BY DEF Sub!Post, SubP!Sub!Post, Sub!PatchPreferences, SubP!Sub!PatchPreferences, Sub!Notify,
           SubP!Sub!Notify, Sub!Begin, SubP!Sub!Begin, Sub!Idle, SubP!Sub!Idle, Sub!Ends,
           SubP!Sub!Ends, Sub!Goes, SubP!Sub!Goes, Sub!Of, SubP!Sub!Of, Sub!At, SubP!Sub!At
  <1>2. ASSUME NEW q \in Requests
        PROVE  /\ Sub!Exists(q) => SubP!Sub!Exists(q)
               /\ Sub!Insert(q) => SubP!Sub!Insert(q)
    BY DEF Sub!Exists, SubP!Sub!Exists, Sub!Insert, SubP!Sub!Insert, Sub!Idle, SubP!Sub!Idle,
           Sub!Ends, SubP!Sub!Ends, Sub!Goes, SubP!Sub!Goes, Sub!Of, SubP!Sub!Of, Sub!At,
           SubP!Sub!At
  <1>3. ASSUME NEW q \in Requests
        PROVE  /\ Sub!Find(q) => SubP!Sub!Find(q)
               /\ Sub!Delete(q) => SubP!Sub!Delete(q)
    BY DEF Sub!Find, SubP!Sub!Find, Sub!Delete, SubP!Sub!Delete, Sub!Cardinality,
           SubP!Sub!Cardinality, Sub!IsFiniteSet, SubP!Sub!IsFiniteSet, Sub!Idle, SubP!Sub!Idle,
           Sub!Ends, SubP!Sub!Ends, Sub!Goes, SubP!Sub!Goes, Sub!Of, SubP!Sub!Of, Sub!At,
           SubP!Sub!At
  <1>4. ASSUME NEW q \in Requests
        PROVE  /\ Sub!ReadPreference(q) => SubP!Sub!ReadPreference(q)
               /\ Sub!Save(q) => SubP!Sub!Save(q)
               /\ Sub!SaveFails(q) => SubP!Sub!SaveFails(q)
               /\ Sub!Wipe(q) => SubP!Sub!Wipe(q)
    BY DEF Sub!ReadPreference, SubP!Sub!ReadPreference, Sub!Save, SubP!Sub!Save, Sub!SaveFails,
           SubP!Sub!SaveFails, Sub!Wipe, SubP!Sub!Wipe, Sub!Idle, SubP!Sub!Idle, Sub!Ends,
           SubP!Sub!Ends, Sub!Goes, SubP!Sub!Goes, Sub!Of, SubP!Sub!Of, Sub!At, SubP!Sub!At
  <1>5. ASSUME NEW q \in Requests
        PROVE  /\ Sub!Recipients(q) => SubP!Sub!Recipients(q)
               /\ Sub!SendAccepted(q) => SubP!Sub!SendAccepted(q)
               /\ Sub!SendRefused(q) => SubP!Sub!SendRefused(q)
               /\ Sub!AnswerLost(q) => SubP!Sub!AnswerLost(q)
               /\ Sub!Unpublished(q) => SubP!Sub!Unpublished(q)
    BY DEF Sub!Unpublished, SubP!Sub!Unpublished, Sub!Recipients, SubP!Sub!Recipients, Sub!SendAccepted, SubP!Sub!SendAccepted,
           Sub!SendRefused, SubP!Sub!SendRefused, Sub!AnswerLost, SubP!Sub!AnswerLost, Sub!Retry,
           SubP!Sub!Retry, Sub!Idle, SubP!Sub!Idle, Sub!Ends, SubP!Sub!Ends, Sub!Goes,
           SubP!Sub!Goes, Sub!Of, SubP!Sub!Of, Sub!At, SubP!Sub!At
  <1> QED
    BY <1>1, <1>2, <1>3, <1>4, <1>5
       DEF Sub!Next, SubP!Sub!Next, Sub!Step, SubP!Sub!Step

LEMMA SubStep ==
    ASSUME [Next]_vars, which = "subscriptions"
    PROVE  [SubP!Sub!Next]_(SubP!Sub!vars) /\ which' = which
  BY SameSubNext DEF Next, vars, ofSubscriptions, SubP!Sub!vars

LEMMA NextSub == ASSUME SubscriptionsOK, [Next]_vars  PROVE SubscriptionsOK'
  <1>1. SubP!SubInv /\ [SubP!Sub!Next]_(SubP!Sub!vars) => SubP!SubInv'
    BY SubConstants, SubP!SubStep
  <1>2. which' = which
    BY DEF Next, vars
  <1> QED
    BY <1>1, <1>2, SubStep DEF SubscriptionsOK

LEMMA InitSub == Init => SubscriptionsOK
  BY SubConstants, SameSubInit, SubP!SubInit DEF SubscriptionsOK, Init

LEMMA SubscriptionsOKSuffices ==
    ASSUME SubscriptionsOK  PROVE SubscriptionsHold /\ (which = "subscriptions" => Sub!TypeOK)
  <1>1. SubP!Sub!TypeOK => Sub!TypeOK
    BY DEF Sub!TypeOK, SubP!Sub!TypeOK
  <1>2. SubP!Sub!OneRowUnlessRaced => Sub!OneRowUnlessRaced
    BY DEF Sub!OneRowUnlessRaced, SubP!Sub!OneRowUnlessRaced, Sub!At, SubP!Sub!At,
           Sub!Cardinality, SubP!Sub!Cardinality, Sub!IsFiniteSet, SubP!Sub!IsFiniteSet
  <1>3. SubP!Sub!TwiceOnlyIfLost /\ SubP!Sub!ReportIsTrue => Sub!TwiceOnlyIfLost /\ Sub!ReportIsTrue
    BY DEF Sub!TwiceOnlyIfLost, SubP!Sub!TwiceOnlyIfLost, Sub!ReportIsTrue, SubP!Sub!ReportIsTrue
  <1> QED
    BY <1>1, <1>2, <1>3, SubConstants, SubP!SubSuffices DEF SubscriptionsOK, SubscriptionsHold

\* A browser is registered once unless two registrations raced, and the sender
\* of a message is told the truth of it.
THEOREM SubscriptionsAlwaysHold == Spec => []SubscriptionsHold
  BY InitSub, NextSub, SubscriptionsOKSuffices, PTL DEF Spec

-----------------------------------------------------------------------------
ActivitiesOK == which = "activities" => SubP!ActInv

LEMMA ActConstants == SubP!Act!ConstantsAssumption
  BY InstancesAssumption
     DEF InstancesAssumption, Act!ConstantsAssumption, SubP!Act!ConstantsAssumption

LEMMA SameActInit == Act!Init => SubP!Act!Init
  BY DEF Act!Init, SubP!Act!Init, Act!Idle, SubP!Act!Idle, Act!Ends, SubP!Act!Ends, Act!Live,
         SubP!Act!Live, Act!NoAct, SubP!Act!NoAct, Act!Uncharged, SubP!Act!Uncharged,
         Act!NotCharged, SubP!Act!NotCharged, Act!NOT_PAID, SubP!Act!NOT_PAID, Act!Years,
         SubP!Act!Years, Act!NoRow, SubP!Act!NoRow

LEMMA SameActNext == Act!Next => SubP!Act!Next
  <1>1. ASSUME NEW q \in Requests
        PROVE  Act!Post(q) => SubP!Act!Post(q)
    BY DEF Act!Post, SubP!Act!Post, Act!Idle, SubP!Act!Idle, Act!Ends, SubP!Act!Ends, Act!Live,
           SubP!Act!Live, Act!NoAct, SubP!Act!NoAct, Act!Uncharged, SubP!Act!Uncharged,
           Act!NotCharged, SubP!Act!NotCharged, Act!NOT_PAID, SubP!Act!NOT_PAID, Act!Years,
           SubP!Act!Years, Act!NoRow, SubP!Act!NoRow
  <1>2. ASSUME NEW q \in Requests
        PROVE  /\ Act!FindLast(q) => SubP!Act!FindLast(q)
               /\ Act!Disable(q) => SubP!Act!Disable(q)
               /\ Act!InsertYear(q) => SubP!Act!InsertYear(q)
    BY DEF Act!FindLast, SubP!Act!FindLast, Act!Disable, SubP!Act!Disable, Act!InsertYear,
           SubP!Act!InsertYear, Act!Others, SubP!Act!Others, Act!Max, SubP!Act!Max, Act!Idle,
           SubP!Act!Idle, Act!Ends, SubP!Act!Ends, Act!Live, SubP!Act!Live, Act!NoAct,
           SubP!Act!NoAct, Act!Uncharged, SubP!Act!Uncharged, Act!NotCharged, SubP!Act!NotCharged,
           Act!NOT_PAID, SubP!Act!NOT_PAID, Act!Years, SubP!Act!Years, Act!NoRow, SubP!Act!NoRow
  <1>3. ASSUME NEW q \in Requests
        PROVE  /\ Act!ReadUsers(q) => SubP!Act!ReadUsers(q)
               /\ Act!Commit(q) => SubP!Act!Commit(q)
    BY DEF Act!ReadUsers, SubP!Act!ReadUsers, Act!Commit, SubP!Act!Commit, Act!Idle,
           SubP!Act!Idle, Act!Ends, SubP!Act!Ends, Act!Live, SubP!Act!Live, Act!NoAct,
           SubP!Act!NoAct, Act!Uncharged, SubP!Act!Uncharged, Act!NotCharged, SubP!Act!NotCharged,
           Act!NOT_PAID, SubP!Act!NOT_PAID, Act!Years, SubP!Act!Years, Act!NoRow, SubP!Act!NoRow
  <1>4. ASSUME NEW q \in Requests
        PROVE  /\ Act!Update(q) => SubP!Act!Update(q)
               /\ Act!UpdateUser(q) => SubP!Act!UpdateUser(q)
    BY DEF Act!Update, SubP!Act!Update, Act!UpdateUser, SubP!Act!UpdateUser, Act!Idle,
           SubP!Act!Idle, Act!Ends, SubP!Act!Ends, Act!Live, SubP!Act!Live, Act!NoAct,
           SubP!Act!NoAct, Act!Uncharged, SubP!Act!Uncharged, Act!NotCharged, SubP!Act!NotCharged,
           Act!NOT_PAID, SubP!Act!NOT_PAID, Act!Years, SubP!Act!Years, Act!NoRow, SubP!Act!NoRow
  <1>5. ASSUME NEW q \in Requests
        PROVE  /\ Act!Reread(q) => SubP!Act!Reread(q)
               /\ Act!Remove(q) => SubP!Act!Remove(q)
    BY DEF Act!Reread, SubP!Act!Reread, Act!Remove, SubP!Act!Remove, Act!Idle, SubP!Act!Idle,
           Act!Ends, SubP!Act!Ends, Act!Live, SubP!Act!Live, Act!NoAct, SubP!Act!NoAct,
           Act!Uncharged, SubP!Act!Uncharged, Act!NotCharged, SubP!Act!NotCharged, Act!NOT_PAID,
           SubP!Act!NOT_PAID, Act!Years, SubP!Act!Years, Act!NoRow, SubP!Act!NoRow
  <1>6. ASSUME NEW m \in Users
        PROVE  Act!Toggle(m) => SubP!Act!Toggle(m)
    BY DEF Act!Toggle, SubP!Act!Toggle, Act!Idle, SubP!Act!Idle, Act!Ends, SubP!Act!Ends,
           Act!Live, SubP!Act!Live, Act!NoAct, SubP!Act!NoAct, Act!Uncharged, SubP!Act!Uncharged,
           Act!NotCharged, SubP!Act!NotCharged, Act!NOT_PAID, SubP!Act!NOT_PAID, Act!Years,
           SubP!Act!Years, Act!NoRow, SubP!Act!NoRow
  <1>7. /\ Act!NextYear => SubP!Act!NextYear
        /\ Act!Crash => SubP!Act!Crash
    BY DEF Act!NextYear, SubP!Act!NextYear, Act!Crash, SubP!Act!Crash, Act!Idle, SubP!Act!Idle,
           Act!Ends, SubP!Act!Ends, Act!Live, SubP!Act!Live, Act!NoAct, SubP!Act!NoAct,
           Act!Uncharged, SubP!Act!Uncharged, Act!NotCharged, SubP!Act!NotCharged, Act!NOT_PAID,
           SubP!Act!NOT_PAID, Act!Years, SubP!Act!Years, Act!NoRow, SubP!Act!NoRow
  <1>8. ASSUME NEW q \in Requests
        PROVE  Act!Step(q) => SubP!Act!Step(q)
    BY <1>2, <1>3, <1>4, <1>5 DEF Act!Step, SubP!Act!Step
  <1>9. ASSUME NEW q \in Requests, Act!Post(q) \/ Act!Step(q)
        PROVE  SubP!Act!Next
    BY <1>1, <1>8, <1>9 DEF SubP!Act!Next
  <1>10. ASSUME Act!NextYear \/ (\E m \in Users : Act!Toggle(m)) \/ Act!Crash
        PROVE  SubP!Act!Next
    BY <1>6, <1>7, <1>10 DEF SubP!Act!Next
  <1> QED
    BY <1>9, <1>10 DEF Act!Next

LEMMA ActStep ==
    ASSUME [Next]_vars, which = "activities"
    PROVE  [SubP!Act!Next]_(SubP!Act!vars) /\ which' = which
  BY SameActNext DEF Next, vars, ofActivities, SubP!Act!vars

LEMMA NextAct == ASSUME ActivitiesOK, [Next]_vars  PROVE ActivitiesOK'
  <1>1. SubP!ActInv /\ [SubP!Act!Next]_(SubP!Act!vars) => SubP!ActInv'
    BY ActConstants, SubP!ActStep
  <1>2. which' = which
    BY DEF Next, vars
  <1> QED
    BY <1>1, <1>2, ActStep DEF ActivitiesOK

LEMMA InitAct == Init => ActivitiesOK
  BY ActConstants, SameActInit, SubP!ActInit DEF ActivitiesOK, Init

LEMMA ActivitiesOKSuffices ==
    /\ ActivitiesOK => (which = "activities" => Act!TypeOK)
    /\ ActivitiesOK /\ [Next]_vars
       => [which = "activities" => Act!ChargesTheActive /\ Act!StateOfNamedActivity]_vars
  <1>1. SubP!Act!TypeOK => Act!TypeOK
    BY DEF Act!TypeOK, SubP!Act!TypeOK, Act!States, SubP!Act!States, Act!Live, SubP!Act!Live,
           Act!NoAct, SubP!Act!NoAct, Act!Uncharged, SubP!Act!Uncharged, Act!NotCharged,
           SubP!Act!NotCharged, Act!NOT_PAID, SubP!Act!NOT_PAID, Act!Years, SubP!Act!Years,
           Act!NoRow, SubP!Act!NoRow
  <1>2. SubP!Act!ChargesTheActive => Act!ChargesTheActive
    BY DEF Act!ChargesTheActive, SubP!Act!ChargesTheActive, Act!NOT_PAID, SubP!Act!NOT_PAID,
           Act!NotCharged, SubP!Act!NotCharged
  <1>3. SubP!Act!StateOfNamedActivity => Act!StateOfNamedActivity
    BY DEF Act!StateOfNamedActivity, SubP!Act!StateOfNamedActivity, Act!Live, SubP!Act!Live
  <1>4. ActivitiesOK => (which = "activities" => Act!TypeOK)
    BY <1>1, ActConstants, SubP!ActSuffices DEF ActivitiesOK
  <1>5. ActivitiesOK /\ [Next]_vars /\ which = "activities"
        => SubP!Act!ChargesTheActive /\ SubP!Act!StateOfNamedActivity
    BY ActConstants, ActStep, SubP!ActActions DEF ActivitiesOK
  <1> QED
    BY <1>2, <1>3, <1>4, <1>5

\* An activity appears with a charge for every active member, and a payment is
\* moved under the activity it is named with.
THEOREM ActivitiesAlwaysCharge == Spec => ChargesTheActive
  BY InitAct, NextAct, ActivitiesOKSuffices, PTL DEF Spec, ChargesTheActive

-----------------------------------------------------------------------------
YeaP == INSTANCE MembersProofs WITH
    Members <- {u1}, Opening <- u1 :> ADMIN @@ u2 :> MEMBER,
    Identity <- u1 :> i1 @@ u2 :> i2, Identifications <- {i1, i2, i3},
    MaxRequests <- 4, MaxLines <- 2,
    Endpoints <- {e1, e2}, Attempts <- 3, Acts <- {a1}, MaxYear <- 3, MaxCrashes <- 1,
    Kinds <- {"year"}

YearsOK == which = "years" => YeaP!ActInv

LEMMA YeaConstants == YeaP!Act!ConstantsAssumption
  BY InstancesAssumption
     DEF InstancesAssumption, Yea!ConstantsAssumption, YeaP!Act!ConstantsAssumption

LEMMA SameYeaInit == Yea!Init => YeaP!Act!Init
  BY DEF Yea!Init, YeaP!Act!Init, Yea!Idle, YeaP!Act!Idle, Yea!Ends, YeaP!Act!Ends, Yea!Live,
         YeaP!Act!Live, Yea!NoAct, YeaP!Act!NoAct, Yea!Uncharged, YeaP!Act!Uncharged,
         Yea!NotCharged, YeaP!Act!NotCharged, Yea!NOT_PAID, YeaP!Act!NOT_PAID, Yea!Years,
         YeaP!Act!Years, Yea!NoRow, YeaP!Act!NoRow

LEMMA SameYeaNext == Yea!Next => YeaP!Act!Next
  <1>1. ASSUME NEW q \in Requests
        PROVE  Yea!Post(q) => YeaP!Act!Post(q)
    BY DEF Yea!Post, YeaP!Act!Post, Yea!Idle, YeaP!Act!Idle, Yea!Ends, YeaP!Act!Ends, Yea!Live,
           YeaP!Act!Live, Yea!NoAct, YeaP!Act!NoAct, Yea!Uncharged, YeaP!Act!Uncharged,
           Yea!NotCharged, YeaP!Act!NotCharged, Yea!NOT_PAID, YeaP!Act!NOT_PAID, Yea!Years,
           YeaP!Act!Years, Yea!NoRow, YeaP!Act!NoRow
  <1>2. ASSUME NEW q \in Requests
        PROVE  /\ Yea!FindLast(q) => YeaP!Act!FindLast(q)
               /\ Yea!Disable(q) => YeaP!Act!Disable(q)
               /\ Yea!InsertYear(q) => YeaP!Act!InsertYear(q)
    BY DEF Yea!FindLast, YeaP!Act!FindLast, Yea!Disable, YeaP!Act!Disable, Yea!InsertYear,
           YeaP!Act!InsertYear, Yea!Others, YeaP!Act!Others, Yea!Max, YeaP!Act!Max, Yea!Idle,
           YeaP!Act!Idle, Yea!Ends, YeaP!Act!Ends, Yea!Live, YeaP!Act!Live, Yea!NoAct,
           YeaP!Act!NoAct, Yea!Uncharged, YeaP!Act!Uncharged, Yea!NotCharged, YeaP!Act!NotCharged,
           Yea!NOT_PAID, YeaP!Act!NOT_PAID, Yea!Years, YeaP!Act!Years, Yea!NoRow, YeaP!Act!NoRow
  <1>3. ASSUME NEW q \in Requests
        PROVE  /\ Yea!ReadUsers(q) => YeaP!Act!ReadUsers(q)
               /\ Yea!Commit(q) => YeaP!Act!Commit(q)
    BY DEF Yea!ReadUsers, YeaP!Act!ReadUsers, Yea!Commit, YeaP!Act!Commit, Yea!Idle,
           YeaP!Act!Idle, Yea!Ends, YeaP!Act!Ends, Yea!Live, YeaP!Act!Live, Yea!NoAct,
           YeaP!Act!NoAct, Yea!Uncharged, YeaP!Act!Uncharged, Yea!NotCharged, YeaP!Act!NotCharged,
           Yea!NOT_PAID, YeaP!Act!NOT_PAID, Yea!Years, YeaP!Act!Years, Yea!NoRow, YeaP!Act!NoRow
  <1>4. ASSUME NEW q \in Requests
        PROVE  /\ Yea!Update(q) => YeaP!Act!Update(q)
               /\ Yea!UpdateUser(q) => YeaP!Act!UpdateUser(q)
    BY DEF Yea!Update, YeaP!Act!Update, Yea!UpdateUser, YeaP!Act!UpdateUser, Yea!Idle,
           YeaP!Act!Idle, Yea!Ends, YeaP!Act!Ends, Yea!Live, YeaP!Act!Live, Yea!NoAct,
           YeaP!Act!NoAct, Yea!Uncharged, YeaP!Act!Uncharged, Yea!NotCharged, YeaP!Act!NotCharged,
           Yea!NOT_PAID, YeaP!Act!NOT_PAID, Yea!Years, YeaP!Act!Years, Yea!NoRow, YeaP!Act!NoRow
  <1>5. ASSUME NEW q \in Requests
        PROVE  /\ Yea!Reread(q) => YeaP!Act!Reread(q)
               /\ Yea!Remove(q) => YeaP!Act!Remove(q)
    BY DEF Yea!Reread, YeaP!Act!Reread, Yea!Remove, YeaP!Act!Remove, Yea!Idle, YeaP!Act!Idle,
           Yea!Ends, YeaP!Act!Ends, Yea!Live, YeaP!Act!Live, Yea!NoAct, YeaP!Act!NoAct,
           Yea!Uncharged, YeaP!Act!Uncharged, Yea!NotCharged, YeaP!Act!NotCharged, Yea!NOT_PAID,
           YeaP!Act!NOT_PAID, Yea!Years, YeaP!Act!Years, Yea!NoRow, YeaP!Act!NoRow
  <1>6. ASSUME NEW m \in {u1}
        PROVE  Yea!Toggle(m) => YeaP!Act!Toggle(m)
    BY DEF Yea!Toggle, YeaP!Act!Toggle, Yea!Idle, YeaP!Act!Idle, Yea!Ends, YeaP!Act!Ends,
           Yea!Live, YeaP!Act!Live, Yea!NoAct, YeaP!Act!NoAct, Yea!Uncharged, YeaP!Act!Uncharged,
           Yea!NotCharged, YeaP!Act!NotCharged, Yea!NOT_PAID, YeaP!Act!NOT_PAID, Yea!Years,
           YeaP!Act!Years, Yea!NoRow, YeaP!Act!NoRow
  <1>7. /\ Yea!NextYear => YeaP!Act!NextYear
        /\ Yea!Crash => YeaP!Act!Crash
    BY DEF Yea!NextYear, YeaP!Act!NextYear, Yea!Crash, YeaP!Act!Crash, Yea!Idle, YeaP!Act!Idle,
           Yea!Ends, YeaP!Act!Ends, Yea!Live, YeaP!Act!Live, Yea!NoAct, YeaP!Act!NoAct,
           Yea!Uncharged, YeaP!Act!Uncharged, Yea!NotCharged, YeaP!Act!NotCharged, Yea!NOT_PAID,
           YeaP!Act!NOT_PAID, Yea!Years, YeaP!Act!Years, Yea!NoRow, YeaP!Act!NoRow
  <1>8. ASSUME NEW q \in Requests
        PROVE  Yea!Step(q) => YeaP!Act!Step(q)
    BY <1>2, <1>3, <1>4, <1>5 DEF Yea!Step, YeaP!Act!Step
  <1>9. ASSUME NEW q \in Requests, Yea!Post(q) \/ Yea!Step(q)
        PROVE  YeaP!Act!Next
    BY <1>1, <1>8, <1>9 DEF YeaP!Act!Next
  <1>10. ASSUME Yea!NextYear \/ (\E m \in {u1} : Yea!Toggle(m)) \/ Yea!Crash
        PROVE  YeaP!Act!Next
    BY <1>6, <1>7, <1>10 DEF YeaP!Act!Next
  <1> QED
    BY <1>9, <1>10 DEF Yea!Next

LEMMA YeaStep ==
    ASSUME [Next]_vars, which = "years"
    PROVE  [YeaP!Act!Next]_(YeaP!Act!vars) /\ which' = which
  BY SameYeaNext DEF Next, vars, ofActivities, YeaP!Act!vars

LEMMA NextYea == ASSUME YearsOK, [Next]_vars  PROVE YearsOK'
  <1>1. YeaP!ActInv /\ [YeaP!Act!Next]_(YeaP!Act!vars) => YeaP!ActInv'
    BY YeaConstants, YeaP!ActStep
  <1>2. which' = which
    BY DEF Next, vars
  <1> QED
    BY <1>1, <1>2, YeaStep DEF YearsOK

LEMMA InitYea == Init => YearsOK
  BY YeaConstants, SameYeaInit, YeaP!ActInit DEF YearsOK, Init

LEMMA YearsOKSuffices == ASSUME YearsOK  PROVE OneYearEnabled
  <1>1. YeaP!Act!OneYearEnabled => Yea!OneYearEnabled
    BY DEF Yea!OneYearEnabled, YeaP!Act!OneYearEnabled, Yea!Years, YeaP!Act!Years,
           Yea!Cardinality, YeaP!Act!Cardinality
  <1>2. YeaP!Act!CurrentYearStaysEnabled => Yea!CurrentYearStaysEnabled
    BY DEF Yea!CurrentYearStaysEnabled, YeaP!Act!CurrentYearStaysEnabled
  <1> QED
    BY <1>1, <1>2, YeaConstants, YeaP!ActSuffices DEF YearsOK, OneYearEnabled

\* One year is enabled, the current one, as long as no request straggles.
THEOREM OneYearAlwaysEnabled == Spec => []OneYearEnabled
  BY InitYea, NextYea, YearsOKSuffices, PTL DEF Spec

-----------------------------------------------------------------------------

LEMMA PowersTyped == ASSUME PowersOK  PROVE which = "powers" => Pow!TypeOK
  <1>1. RecP!Pow!TypeOK => Pow!TypeOK
    BY DEF Pow!TypeOK, RecP!Pow!TypeOK, Pow!Row, RecP!Pow!Row, Pow!NoRow, RecP!Pow!NoRow,
           Pow!NONE, RecP!Pow!NONE, Pow!PENDING, RecP!Pow!PENDING, Pow!REJECTED,
           RecP!Pow!REJECTED
  <1> QED
    BY <1>1, RecP!PowersTypesHold DEF PowersOK

LEMMA FilesTyped == ASSUME FilesOK  PROVE which = "files" => Fil!TypeOK
  <1>1. RecP!Fil!TypeOK => Fil!TypeOK
    BY DEF Fil!TypeOK, RecP!Fil!TypeOK, Fil!Types, RecP!Fil!Types, Fil!NoType, RecP!Fil!NoType,
           Fil!Paths, RecP!Fil!Paths
  <1> QED
    BY <1>1, RecP!FilesInvSuffices DEF FilesOK

LEMMA ResetsTyped == ASSUME ResetsOK  PROVE which = "resets" => Res!TypeOK
  <1>1. ResP!TypeOK => Res!TypeOK
    BY DEF Res!TypeOK, ResP!TypeOK, Res!Rows, ResP!Rows, Res!Ids, ResP!Ids, Res!NoAccount,
           ResP!NoAccount, Res!Links, ResP!Links
  <1> QED
    BY <1>1, ResP!AccountsTypesHold DEF ResetsOK

LEMMA CapsTyped == ASSUME CapsOK  PROVE which = "caps" => Cap!TypeOK
  <1>1. RecP!Cap!TypeOK => Cap!TypeOK
    BY DEF Cap!TypeOK, RecP!Cap!TypeOK, Cap!States, RecP!Cap!States, Cap!Tasks, RecP!Cap!Tasks,
           Cap!Queue!Statuses, RecP!Cap!Queue!Statuses
  <1> QED
    BY <1>1, CapConstants, RecP!CapInvSuffices DEF CapsOK

LEMMA TypesSuffice ==
    ASSUME MembersOK, PowersOK, SubscriptionsOK, ActivitiesOK, FilesOK, ResetsOK, CapsOK
    PROVE  TypesOK
  BY MembersOKSuffices, PowersTyped, SubscriptionsOKSuffices, ActivitiesOKSuffices, FilesTyped,
     ResetsTyped, CapsTyped DEF TypesOK

\* Every module's variables have their types, and the rows of its tables the
\* keys the schema gives them.
THEOREM TypesAlwaysHold == Spec => []TypesOK
  BY InitMem, NextMem, InitPowers, NextPowers, InitSub, NextSub, InitAct, NextAct, InitFiles,
     NextFiles, InitRes, NextRes, InitCaps, NextCaps, TypesSuffice, PTL DEF Spec
===============================================================================
