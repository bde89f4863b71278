----------------------------- MODULE MCWebProofs -----------------------------
(***************************************************************************)
(* The properties of the run of MCWeb, from the theorems about what it     *)
(* instantiates, as ServicesProofs has those of MCServices: the proofs of  *)
(* WebProofs are instantiated as MCWeb instantiates the modules, and the   *)
(* pipeline is MCWeb's own.                                                *)
(***************************************************************************)
EXTENDS MCWeb, PipelineProofs

-----------------------------------------------------------------------------
(* Lists *)

UsersP == INSTANCE WebProofs WITH
    List <- "users", MaxId <- 6, PER_PAGE <- 2, MaxMoves <- 2,
    CHARS <- 2, Tabs <- {t1, t2}, MaxVisits <- 4,
    HeaderLists <- Lines, maxHeaderSize <- 7, MaxRequests <- 2,
    Values <- {1, 999}, Terms <- AboutBounds, Dates <- AboutMonthEnds,
    Years <- AboutLeapYear, Birthdates <- AboutLeapDay, MaxSaves <- 3

LoansP == INSTANCE WebProofs WITH
    List <- "loans", MaxId <- 7, PER_PAGE <- 2, MaxMoves <- 2,
    CHARS <- 2, Tabs <- {t1, t2}, MaxVisits <- 4,
    HeaderLists <- Lines, maxHeaderSize <- 7, MaxRequests <- 2,
    Values <- {1, 999}, Terms <- AboutBounds, Dates <- AboutMonthEnds,
    Years <- AboutLeapYear, Birthdates <- AboutLeapDay, MaxSaves <- 3

PowersP == INSTANCE WebProofs WITH
    List <- "powers", MaxId <- 7, PER_PAGE <- 2, MaxMoves <- 2,
    CHARS <- 2, Tabs <- {t1, t2}, MaxVisits <- 4,
    HeaderLists <- Lines, maxHeaderSize <- 7, MaxRequests <- 2,
    Values <- {1, 999}, Terms <- AboutBounds, Dates <- AboutMonthEnds,
    Years <- AboutLeapYear, Birthdates <- AboutLeapDay, MaxSaves <- 3

AccountsP == INSTANCE WebProofs WITH
    List <- "accounts", MaxId <- 7, PER_PAGE <- 2, MaxMoves <- 2,
    CHARS <- 2, Tabs <- {t1, t2}, MaxVisits <- 4,
    HeaderLists <- Lines, maxHeaderSize <- 7, MaxRequests <- 2,
    Values <- {1, 999}, Terms <- AboutBounds, Dates <- AboutMonthEnds,
    Years <- AboutLeapYear, Birthdates <- AboutLeapDay, MaxSaves <- 3

UsersOK == which = "users" => UsersP!ListInv

LEMMA UsersConstants == UsersP!ConstantsAssumption
  BY InstancesAssumption
     DEF InstancesAssumption, LUsers!ConstantsAssumption, UsersP!ConstantsAssumption

LEMMA SameUsersInit == LUsers!Init => UsersP!Init
  BY DEF LUsers!Init, UsersP!Init, LUsers!NoWalk, UsersP!NoWalk, LUsers!Ids, UsersP!Ids

LEMMA SameUsersQuery == LUsers!Query(rows) = UsersP!Query(rows)
  BY DEF LUsers!Query, UsersP!Query, LUsers!getUsers, UsersP!getUsers, LUsers!listPowers,
         UsersP!listPowers, LUsers!getLoans, UsersP!getLoans, LUsers!getAccounts,
         UsersP!getAccounts, LUsers!Visible, UsersP!Visible, LUsers!Ascending, UsersP!Ascending,
         LUsers!Descending, UsersP!Descending, LUsers!Own, UsersP!Own, LUsers!Ids, UsersP!Ids,
         LUsers!Cardinality, UsersP!Cardinality, LUsers!IsFiniteSet, UsersP!IsFiniteSet,
         LUsers!Reverse, UsersP!Reverse

LEMMA SameUsersCount == LUsers!Count => UsersP!Count
  BY SameUsersQuery
     DEF LUsers!Count, UsersP!Count, LUsers!numPages, UsersP!numPages, LUsers!isPageBeyondLast,
         UsersP!isPageBeyondLast, LUsers!Max, UsersP!Max, LUsers!history, UsersP!history

LEMMA SameUsersFind == LUsers!Find => UsersP!Find
  BY SameUsersQuery
     DEF LUsers!Find, UsersP!Find, LUsers!Page, UsersP!Page, LUsers!pageOffset, UsersP!pageOffset,
         LUsers!Min, UsersP!Min, LUsers!history, UsersP!history

LEMMA SameUsersMoves ==
    ASSUME LUsers!ChangeRole \/ \E i \in LUsers!Ids : LUsers!Arrive(i) \/ LUsers!Leave(i)
    PROVE  UsersP!ChangeRole \/ \E i \in UsersP!Ids : UsersP!Arrive(i) \/ UsersP!Leave(i)
  BY DEF LUsers!ChangeRole, UsersP!ChangeRole, LUsers!Arrive, UsersP!Arrive, LUsers!Leave,
         UsersP!Leave, LUsers!Walking, UsersP!Walking, LUsers!Ids, UsersP!Ids,
         LUsers!history, UsersP!history

LEMMA SameUsersSteps == LUsers!Ask \/ LUsers!Stop => UsersP!Ask \/ UsersP!Stop
  BY DEF LUsers!Ask, UsersP!Ask, LUsers!Stop, UsersP!Stop, LUsers!NoWalk, UsersP!NoWalk,
         LUsers!history, UsersP!history,
         LUsers!OtherRole, UsersP!OtherRole

LEMMA SameUsersNext == LUsers!Next => UsersP!Next
  BY SameUsersCount, SameUsersFind, SameUsersMoves, SameUsersSteps DEF LUsers!Next, UsersP!Next

LEMMA UsersStep == ASSUME [SuiteNext]_suiteVars, which = "users"  PROVE [UsersP!Next]_(UsersP!vars)
  <1>1. UNCHANGED ofLists => UNCHANGED UsersP!vars
    BY DEF ofLists, UsersP!vars
  <1> QED
    BY <1>1, SameUsersNext DEF SuiteNext, suiteVars

LEMMA NextUsers == ASSUME UsersOK, [SuiteNext]_suiteVars  PROVE UsersOK'
  <1>1. which' = which
    BY DEF SuiteNext, suiteVars
  <1>2. ASSUME which = "users"  PROVE UsersP!ListInv'
    BY <1>2, UsersStep, UsersConstants, UsersP!NextListInv DEF UsersOK
  <1> QED
    BY <1>1, <1>2 DEF UsersOK

LEMMA InitUsers == SuiteInit => UsersOK
  BY SameUsersInit, UsersConstants, UsersP!ListInit DEF UsersOK, SuiteInit

LEMMA UsersOKSuffices ==
    ASSUME UsersOK, which = "users"  PROVE LUsers!NothingFallsBetweenPages /\ LUsers!NoRepetitionUnlessArrived
  <1>1. UsersP!NothingFallsBetweenPages /\ UsersP!NoRepetitionUnlessArrived
    BY UsersP!ListInvSuffices DEF UsersOK
  <1>2. UsersP!NothingFallsBetweenPages => LUsers!NothingFallsBetweenPages
    BY DEF LUsers!NothingFallsBetweenPages, UsersP!NothingFallsBetweenPages, LUsers!Mine,
           UsersP!Mine, LUsers!Own, UsersP!Own, LUsers!Ids, UsersP!Ids, LUsers!Range, UsersP!Range,
           LUsers!Cardinality, UsersP!Cardinality, LUsers!IsFiniteSet, UsersP!IsFiniteSet
  <1>3. UsersP!NoRepetitionUnlessArrived => LUsers!NoRepetitionUnlessArrived
    BY DEF LUsers!NoRepetitionUnlessArrived, UsersP!NoRepetitionUnlessArrived
  <1> QED
    BY <1>1, <1>2, <1>3

-----------------------------------------------------------------------------
LoansOK == which = "loans" => LoansP!ListInv

LEMMA LoansConstants == LoansP!ConstantsAssumption
  BY InstancesAssumption
     DEF InstancesAssumption, LLoans!ConstantsAssumption, LoansP!ConstantsAssumption

LEMMA SameLoansInit == LLoans!Init => LoansP!Init
  BY DEF LLoans!Init, LoansP!Init, LLoans!NoWalk, LoansP!NoWalk, LLoans!Ids, LoansP!Ids

LEMMA SameLoansQuery == LLoans!Query(rows) = LoansP!Query(rows)
  BY DEF LLoans!Query, LoansP!Query, LLoans!getUsers, LoansP!getUsers, LLoans!listPowers,
         LoansP!listPowers, LLoans!getLoans, LoansP!getLoans, LLoans!getAccounts,
         LoansP!getAccounts, LLoans!Visible, LoansP!Visible, LLoans!Ascending, LoansP!Ascending,
         LLoans!Descending, LoansP!Descending, LLoans!Own, LoansP!Own, LLoans!Ids, LoansP!Ids,
         LLoans!Cardinality, LoansP!Cardinality, LLoans!IsFiniteSet, LoansP!IsFiniteSet,
         LLoans!Reverse, LoansP!Reverse

LEMMA SameLoansCount == LLoans!Count => LoansP!Count
  BY SameLoansQuery
     DEF LLoans!Count, LoansP!Count, LLoans!numPages, LoansP!numPages, LLoans!isPageBeyondLast,
         LoansP!isPageBeyondLast, LLoans!Max, LoansP!Max, LLoans!history, LoansP!history

LEMMA SameLoansFind == LLoans!Find => LoansP!Find
  BY SameLoansQuery
     DEF LLoans!Find, LoansP!Find, LLoans!Page, LoansP!Page, LLoans!pageOffset, LoansP!pageOffset,
         LLoans!Min, LoansP!Min, LLoans!history, LoansP!history

LEMMA SameLoansMoves ==
    ASSUME LLoans!ChangeRole \/ \E i \in LLoans!Ids : LLoans!Arrive(i) \/ LLoans!Leave(i)
    PROVE  LoansP!ChangeRole \/ \E i \in LoansP!Ids : LoansP!Arrive(i) \/ LoansP!Leave(i)
  BY DEF LLoans!ChangeRole, LoansP!ChangeRole, LLoans!Arrive, LoansP!Arrive, LLoans!Leave,
         LoansP!Leave, LLoans!Walking, LoansP!Walking, LLoans!Ids, LoansP!Ids,
         LLoans!history, LoansP!history

LEMMA SameLoansSteps == LLoans!Ask \/ LLoans!Stop => LoansP!Ask \/ LoansP!Stop
  BY DEF LLoans!Ask, LoansP!Ask, LLoans!Stop, LoansP!Stop, LLoans!NoWalk, LoansP!NoWalk,
         LLoans!history, LoansP!history,
         LLoans!OtherRole, LoansP!OtherRole

LEMMA SameLoansNext == LLoans!Next => LoansP!Next
  BY SameLoansCount, SameLoansFind, SameLoansMoves, SameLoansSteps DEF LLoans!Next, LoansP!Next

LEMMA LoansStep == ASSUME [SuiteNext]_suiteVars, which = "loans"  PROVE [LoansP!Next]_(LoansP!vars)
  <1>1. UNCHANGED ofLists => UNCHANGED LoansP!vars
    BY DEF ofLists, LoansP!vars
  <1> QED
    BY <1>1, SameLoansNext DEF SuiteNext, suiteVars

LEMMA NextLoans == ASSUME LoansOK, [SuiteNext]_suiteVars  PROVE LoansOK'
  <1>1. which' = which
    BY DEF SuiteNext, suiteVars
  <1>2. ASSUME which = "loans"  PROVE LoansP!ListInv'
    BY <1>2, LoansStep, LoansConstants, LoansP!NextListInv DEF LoansOK
  <1> QED
    BY <1>1, <1>2 DEF LoansOK

LEMMA InitLoans == SuiteInit => LoansOK
  BY SameLoansInit, LoansConstants, LoansP!ListInit DEF LoansOK, SuiteInit

LEMMA LoansOKSuffices ==
    ASSUME LoansOK, which = "loans"  PROVE LLoans!NothingFallsBetweenPages /\ LLoans!OthersNeedPrivilege
  <1>1. LoansP!NothingFallsBetweenPages /\ LoansP!OthersNeedPrivilege
    BY LoansP!ListInvSuffices DEF LoansOK
  <1>2. LoansP!NothingFallsBetweenPages => LLoans!NothingFallsBetweenPages
    BY DEF LLoans!NothingFallsBetweenPages, LoansP!NothingFallsBetweenPages, LLoans!Mine,
           LoansP!Mine, LLoans!Own, LoansP!Own, LLoans!Ids, LoansP!Ids, LLoans!Range, LoansP!Range,
           LLoans!Cardinality, LoansP!Cardinality, LLoans!IsFiniteSet, LoansP!IsFiniteSet
  <1>3. LoansP!OthersNeedPrivilege => LLoans!OthersNeedPrivilege
    BY DEF LLoans!OthersNeedPrivilege, LoansP!OthersNeedPrivilege, LLoans!Own, LoansP!Own,
           LLoans!Ids, LoansP!Ids
  <1> QED
    BY <1>1, <1>2, <1>3

-----------------------------------------------------------------------------
PowersOK == which = "powers" => PowersP!ListInv

LEMMA PowersConstants == PowersP!ConstantsAssumption
  BY InstancesAssumption
     DEF InstancesAssumption, LPowers!ConstantsAssumption, PowersP!ConstantsAssumption

LEMMA SamePowersInit == LPowers!Init => PowersP!Init
  BY DEF LPowers!Init, PowersP!Init, LPowers!NoWalk, PowersP!NoWalk, LPowers!Ids, PowersP!Ids

LEMMA SamePowersQuery == LPowers!Query(rows) = PowersP!Query(rows)
  BY DEF LPowers!Query, PowersP!Query, LPowers!getUsers, PowersP!getUsers, LPowers!listPowers,
         PowersP!listPowers, LPowers!getLoans, PowersP!getLoans, LPowers!getAccounts,
         PowersP!getAccounts, LPowers!Visible, PowersP!Visible, LPowers!Ascending,
         PowersP!Ascending, LPowers!Descending, PowersP!Descending, LPowers!Own, PowersP!Own,
         LPowers!Ids, PowersP!Ids, LPowers!Cardinality, PowersP!Cardinality, LPowers!IsFiniteSet,
         PowersP!IsFiniteSet, LPowers!Reverse, PowersP!Reverse

LEMMA SamePowersCount == LPowers!Count => PowersP!Count
  BY SamePowersQuery
     DEF LPowers!Count, PowersP!Count, LPowers!numPages, PowersP!numPages,
         LPowers!isPageBeyondLast, PowersP!isPageBeyondLast, LPowers!Max, PowersP!Max,
         LPowers!history, PowersP!history

LEMMA SamePowersFind == LPowers!Find => PowersP!Find
  BY SamePowersQuery
     DEF LPowers!Find, PowersP!Find, LPowers!Page, PowersP!Page, LPowers!pageOffset,
         PowersP!pageOffset, LPowers!Min, PowersP!Min, LPowers!history, PowersP!history

LEMMA SamePowersMoves ==
    ASSUME LPowers!ChangeRole \/ \E i \in LPowers!Ids : LPowers!Arrive(i) \/ LPowers!Leave(i)
    PROVE  PowersP!ChangeRole \/ \E i \in PowersP!Ids : PowersP!Arrive(i) \/ PowersP!Leave(i)
  BY DEF LPowers!ChangeRole, PowersP!ChangeRole, LPowers!Arrive, PowersP!Arrive, LPowers!Leave,
         PowersP!Leave, LPowers!Walking, PowersP!Walking, LPowers!Ids, PowersP!Ids,
         LPowers!history, PowersP!history

LEMMA SamePowersSteps == LPowers!Ask \/ LPowers!Stop => PowersP!Ask \/ PowersP!Stop
  BY DEF LPowers!Ask, PowersP!Ask, LPowers!Stop, PowersP!Stop, LPowers!NoWalk, PowersP!NoWalk,
         LPowers!history, PowersP!history,
         LPowers!OtherRole, PowersP!OtherRole

LEMMA SamePowersNext == LPowers!Next => PowersP!Next
  BY SamePowersCount, SamePowersFind, SamePowersMoves, SamePowersSteps
     DEF LPowers!Next, PowersP!Next

LEMMA PowersStep == ASSUME [SuiteNext]_suiteVars, which = "powers"  PROVE [PowersP!Next]_(PowersP!vars)
  <1>1. UNCHANGED ofLists => UNCHANGED PowersP!vars
    BY DEF ofLists, PowersP!vars
  <1> QED
    BY <1>1, SamePowersNext DEF SuiteNext, suiteVars

LEMMA NextPowers == ASSUME PowersOK, [SuiteNext]_suiteVars  PROVE PowersOK'
  <1>1. which' = which
    BY DEF SuiteNext, suiteVars
  <1>2. ASSUME which = "powers"  PROVE PowersP!ListInv'
    BY <1>2, PowersStep, PowersConstants, PowersP!NextListInv DEF PowersOK
  <1> QED
    BY <1>1, <1>2 DEF PowersOK

LEMMA InitPowers == SuiteInit => PowersOK
  BY SamePowersInit, PowersConstants, PowersP!ListInit DEF PowersOK, SuiteInit

LEMMA PowersOKSuffices ==
    ASSUME PowersOK, which = "powers"  PROVE LPowers!NothingFallsBetweenPages /\ LPowers!OthersNeedPrivilege
  <1>1. PowersP!NothingFallsBetweenPages /\ PowersP!OthersNeedPrivilege
    BY PowersP!ListInvSuffices DEF PowersOK
  <1>2. PowersP!NothingFallsBetweenPages => LPowers!NothingFallsBetweenPages
    BY DEF LPowers!NothingFallsBetweenPages, PowersP!NothingFallsBetweenPages, LPowers!Mine,
           PowersP!Mine, LPowers!Own, PowersP!Own, LPowers!Ids, PowersP!Ids, LPowers!Range,
           PowersP!Range,
           LPowers!Cardinality, PowersP!Cardinality, LPowers!IsFiniteSet, PowersP!IsFiniteSet
  <1>3. PowersP!OthersNeedPrivilege => LPowers!OthersNeedPrivilege
    BY DEF LPowers!OthersNeedPrivilege, PowersP!OthersNeedPrivilege, LPowers!Own, PowersP!Own,
           LPowers!Ids, PowersP!Ids
  <1> QED
    BY <1>1, <1>2, <1>3

-----------------------------------------------------------------------------
AccountsOK == which = "accounts" => AccountsP!ListInv

LEMMA AccountsConstants == AccountsP!ConstantsAssumption
  BY InstancesAssumption
     DEF InstancesAssumption, LAccounts!ConstantsAssumption, AccountsP!ConstantsAssumption

LEMMA SameAccountsInit == LAccounts!Init => AccountsP!Init
  BY DEF LAccounts!Init, AccountsP!Init, LAccounts!NoWalk, AccountsP!NoWalk, LAccounts!Ids,
         AccountsP!Ids

LEMMA SameAccountsQuery == LAccounts!Query(rows) = AccountsP!Query(rows)
  BY DEF LAccounts!Query, AccountsP!Query, LAccounts!getUsers, AccountsP!getUsers,
         LAccounts!listPowers, AccountsP!listPowers, LAccounts!getLoans, AccountsP!getLoans,
         LAccounts!getAccounts, AccountsP!getAccounts, LAccounts!Visible, AccountsP!Visible,
         LAccounts!Ascending, AccountsP!Ascending, LAccounts!Descending, AccountsP!Descending,
         LAccounts!Own, AccountsP!Own, LAccounts!Ids, AccountsP!Ids, LAccounts!Cardinality,
         AccountsP!Cardinality, LAccounts!IsFiniteSet, AccountsP!IsFiniteSet, LAccounts!Reverse,
         AccountsP!Reverse

LEMMA SameAccountsCount == LAccounts!Count => AccountsP!Count
  BY SameAccountsQuery
     DEF LAccounts!Count, AccountsP!Count, LAccounts!numPages, AccountsP!numPages,
         LAccounts!isPageBeyondLast, AccountsP!isPageBeyondLast, LAccounts!Max, AccountsP!Max,
         LAccounts!history, AccountsP!history

LEMMA SameAccountsFind == LAccounts!Find => AccountsP!Find
  BY SameAccountsQuery
     DEF LAccounts!Find, AccountsP!Find, LAccounts!Page, AccountsP!Page, LAccounts!pageOffset,
         AccountsP!pageOffset, LAccounts!Min, AccountsP!Min, LAccounts!history, AccountsP!history

LEMMA SameAccountsMoves ==
    ASSUME LAccounts!ChangeRole \/ \E i \in LAccounts!Ids : LAccounts!Arrive(i) \/ LAccounts!Leave(i)
    PROVE  AccountsP!ChangeRole \/ \E i \in AccountsP!Ids : AccountsP!Arrive(i) \/ AccountsP!Leave(i)
  BY DEF LAccounts!ChangeRole, AccountsP!ChangeRole, LAccounts!Arrive, AccountsP!Arrive,
         LAccounts!Leave, AccountsP!Leave, LAccounts!Walking, AccountsP!Walking, LAccounts!Ids,
         AccountsP!Ids,
         LAccounts!history, AccountsP!history

LEMMA SameAccountsSteps == LAccounts!Ask \/ LAccounts!Stop => AccountsP!Ask \/ AccountsP!Stop
  BY DEF LAccounts!Ask, AccountsP!Ask, LAccounts!Stop, AccountsP!Stop, LAccounts!NoWalk,
         AccountsP!NoWalk, LAccounts!history, AccountsP!history,
         LAccounts!OtherRole, AccountsP!OtherRole

LEMMA SameAccountsNext == LAccounts!Next => AccountsP!Next
  BY SameAccountsCount, SameAccountsFind, SameAccountsMoves, SameAccountsSteps
     DEF LAccounts!Next, AccountsP!Next

LEMMA AccountsStep == ASSUME [SuiteNext]_suiteVars, which = "accounts"  PROVE [AccountsP!Next]_(AccountsP!vars)
  <1>1. UNCHANGED ofLists => UNCHANGED AccountsP!vars
    BY DEF ofLists, AccountsP!vars
  <1> QED
    BY <1>1, SameAccountsNext DEF SuiteNext, suiteVars

LEMMA NextAccounts == ASSUME AccountsOK, [SuiteNext]_suiteVars  PROVE AccountsOK'
  <1>1. which' = which
    BY DEF SuiteNext, suiteVars
  <1>2. ASSUME which = "accounts"  PROVE AccountsP!ListInv'
    BY <1>2, AccountsStep, AccountsConstants, AccountsP!NextListInv DEF AccountsOK
  <1> QED
    BY <1>1, <1>2 DEF AccountsOK

LEMMA InitAccounts == SuiteInit => AccountsOK
  BY SameAccountsInit, AccountsConstants, AccountsP!ListInit DEF AccountsOK, SuiteInit

LEMMA AccountsOKSuffices ==
    ASSUME AccountsOK, which = "accounts"  PROVE LAccounts!NothingFallsBetweenPages /\ LAccounts!OthersNeedPrivilege
  <1>1. AccountsP!NothingFallsBetweenPages /\ AccountsP!OthersNeedPrivilege
    BY AccountsP!ListInvSuffices DEF AccountsOK
  <1>2. AccountsP!NothingFallsBetweenPages => LAccounts!NothingFallsBetweenPages
    BY DEF LAccounts!NothingFallsBetweenPages, AccountsP!NothingFallsBetweenPages, LAccounts!Mine,
           AccountsP!Mine, LAccounts!Own, AccountsP!Own, LAccounts!Ids, AccountsP!Ids,
           LAccounts!Range, AccountsP!Range,
           LAccounts!Cardinality, AccountsP!Cardinality, LAccounts!IsFiniteSet, AccountsP!IsFiniteSet
  <1>3. AccountsP!OthersNeedPrivilege => LAccounts!OthersNeedPrivilege
    BY DEF LAccounts!OthersNeedPrivilege, AccountsP!OthersNeedPrivilege, LAccounts!Own,
           AccountsP!Own, LAccounts!Ids, AccountsP!Ids
  <1> QED
    BY <1>1, <1>2, <1>3

\* No list is missing more rows from its pages than left during the walk, or arrived
\* between the last page's two statements, and the rows of others are shown to the
\* privileged alone (getUsers, getLoans, listPowers, getAccounts). Where a list is by
\* role, this is of walks whose pages were all asked for in one.
THEOREM ListsLoseNothing == SuiteSpec => []NothingFallsBetweenPages
  <1>1. SuiteInit => UsersOK /\ LoansOK /\ PowersOK /\ AccountsOK
    BY InitUsers, InitLoans, InitPowers, InitAccounts
  <1>2. UsersOK /\ LoansOK /\ PowersOK /\ AccountsOK /\ [SuiteNext]_suiteVars
          => (UsersOK /\ LoansOK /\ PowersOK /\ AccountsOK)'
    BY NextUsers, NextLoans, NextPowers, NextAccounts
  <1>3. UsersOK /\ LoansOK /\ PowersOK /\ AccountsOK => NothingFallsBetweenPages
    BY UsersOKSuffices, LoansOKSuffices, PowersOKSuffices, AccountsOKSuffices
       DEF NothingFallsBetweenPages
  <1> QED
    BY <1>1, <1>2, <1>3, PTL DEF SuiteSpec

-----------------------------------------------------------------------------
(* PasswordPages *)

PagesOK == which = "pages" => UsersP!PagesInv

LEMMA PagesConstants == UsersP!Pag!ConstantsAssumption
  BY InstancesAssumption
     DEF InstancesAssumption, Pages!ConstantsAssumption, UsersP!Pag!ConstantsAssumption

LEMMA SamePagesInit == Pages!Init => UsersP!Pag!Init
  BY DEF Pages!Init, UsersP!Pag!Init

LEMMA SamePagesNext == Pages!Next => UsersP!Pag!Next
  BY DEF Pages!Next, UsersP!Pag!Next, Pages!Send, UsersP!Pag!Send, Pages!Receive,
         UsersP!Pag!Receive, Pages!ReceiveForm, UsersP!Pag!ReceiveForm, Pages!Overwrite,
         UsersP!Pag!Overwrite, Pages!Submitted, UsersP!Pag!Submitted, Pages!rejectCsrf,
         UsersP!Pag!rejectCsrf, Pages!issueCsrfCookie, UsersP!Pag!issueCsrfCookie, Pages!Orphaned,
         UsersP!Pag!Orphaned, Pages!Usable, UsersP!Pag!Usable, Pages!csrfTokensMatch,
         UsersP!Pag!csrfTokensMatch, Pages!unmaskCsrfToken, UsersP!Pag!unmaskCsrfToken,
         Pages!maskCsrfSecret, UsersP!Pag!maskCsrfSecret, Pages!sanitizeCsrfToken,
         UsersP!Pag!sanitizeCsrfToken, Pages!Rem, UsersP!Pag!Rem, Pages!Chars, UsersP!Pag!Chars,
         Pages!NoSecret, UsersP!Pag!NoSecret, Pages!SAFE_METHODS, UsersP!Pag!SAFE_METHODS

LEMMA PagesStep == ASSUME [SuiteNext]_suiteVars, which = "pages"  PROVE [UsersP!Pag!Next]_(UsersP!Pag!vars)
  <1>1. UNCHANGED <<ofPages, answer>> => UNCHANGED UsersP!Pag!vars
    BY DEF ofPages, UsersP!Pag!vars
  <1> QED
    BY <1>1, SamePagesNext DEF SuiteNext, suiteVars

LEMMA NextPages == ASSUME PagesOK, [SuiteNext]_suiteVars  PROVE PagesOK'
  <1>1. which' = which
    BY DEF SuiteNext, suiteVars
  <1>2. ASSUME which = "pages"  PROVE UsersP!PagesInv'
    BY <1>2, PagesStep, PagesConstants, UsersP!NextPagesInv DEF PagesOK
  <1> QED
    BY <1>1, <1>2 DEF PagesOK

LEMMA InitPages == SuiteInit => PagesOK
  BY SamePagesInit, PagesConstants, UsersP!PagesInit DEF PagesOK, SuiteInit

LEMMA PagesOKSuffices == PagesOK => FormsStayGood
  BY DEF PagesOK, FormsStayGood, UsersP!PagesInv, Pages!FormsStayGood, UsersP!Pag!FormsStayGood

\* A form that a password page served is taken as long as its secret was not
\* replaced, whatever other tabs do (rejectCsrf, issueCsrfCookie).
THEOREM FormsAreTakenAlways == SuiteSpec => []FormsStayGood
  BY InitPages, NextPages, PagesOKSuffices, PTL DEF SuiteSpec

-----------------------------------------------------------------------------
(* HttpEdge *)

EdgeOK == which = "edge" => UsersP!EdgeInv

LEMMA EdgeConstants == UsersP!Edg!ConstantsAssumption
  BY InstancesAssumption
     DEF InstancesAssumption, Edge!ConstantsAssumption, UsersP!Edg!ConstantsAssumption,
         Edge!HeaderLine, UsersP!Edg!HeaderLine, Edge!Range, UsersP!Edg!Range

LEMMA SameEdgeInit == Edge!Init => UsersP!Edg!Init
  BY DEF Edge!Init, UsersP!Edg!Init, Edge!Sendable, UsersP!Edg!Sendable, Edge!Sent,
         UsersP!Edg!Sent, Edge!Body, UsersP!Edg!Body, Edge!Terminator, UsersP!Edg!Terminator,
         Edge!Known, UsersP!Edg!Known, Edge!Unknown, UsersP!Edg!Unknown, Edge!Accepted,
         UsersP!Edg!Accepted, Edge!Rejected, UsersP!Edg!Rejected

LEMMA SameSettle ==
    ASSUME NEW before, NEW after, Edge!Settle(before, after)  PROVE UsersP!Edg!Settle(before, after)
  BY DEF Edge!Settle, UsersP!Edg!Settle, Edge!InOrder, UsersP!Edg!InOrder, Edge!Cardinality,
         UsersP!Edg!Cardinality, Edge!IsFiniteSet, UsersP!Edg!IsFiniteSet, Edge!TerminatorAt,
         UsersP!Edg!TerminatorAt, Edge!HeadOf, UsersP!Edg!HeadOf, Edge!buildIncomingMessage,
         UsersP!Edg!buildIncomingMessage, Edge!incomingMessage, UsersP!Edg!incomingMessage,
         Edge!HeaderLines, UsersP!Edg!HeaderLines, Edge!Terminator, UsersP!Edg!Terminator

LEMMA SameRecovered ==
    ASSUME NEW chunk  PROVE Edge!RecoveredFrom(chunk) = UsersP!Edg!RecoveredFrom(chunk)
  BY DEF Edge!RecoveredFrom, UsersP!Edg!RecoveredFrom, Edge!onData, UsersP!Edg!onData,
         Edge!Collected, UsersP!Edg!Collected, Edge!attempt, UsersP!Edg!attempt, Edge!Rejected,
         UsersP!Edg!Rejected, Edge!TerminatorAt, UsersP!Edg!TerminatorAt, Edge!Terminator,
         UsersP!Edg!Terminator

LEMMA SameInvalidMethod ==
    ASSUME NEW n, Edge!InvalidMethod(n)  PROVE UsersP!Edg!InvalidMethod(n)
  <1> DEFINE chunk == SubSeq(unsent, 1, n)
  <1>1. Edge!Settle(recoveries, Edge!RecoveredFrom(chunk))
    BY DEF Edge!InvalidMethod
  <1>2. UsersP!Edg!Settle(recoveries, UsersP!Edg!RecoveredFrom(chunk))
    BY <1>1, SameRecovered, SameSettle
  <1>3. /\ Edge!Arriving(n) /\ request.method \in Edge!Unknown /\ owned' = TRUE
        /\ UNCHANGED received
    BY DEF Edge!InvalidMethod
  <1>4. UsersP!Edg!Arriving(n) /\ request.method \in UsersP!Edg!Unknown
    BY <1>3
       DEF Edge!Arriving, UsersP!Edg!Arriving, Edge!Unknown, UsersP!Edg!Unknown, Edge!Accepted,
              UsersP!Edg!Accepted, Edge!Rejected, UsersP!Edg!Rejected
  <1> QED
    BY <1>2, <1>3, <1>4 DEF UsersP!Edg!InvalidMethod

LEMMA SameKnownMethod ==
    ASSUME NEW n, Edge!KnownMethod(n)  PROVE UsersP!Edg!KnownMethod(n)
  BY DEF Edge!KnownMethod, UsersP!Edg!KnownMethod, Edge!Arriving, UsersP!Edg!Arriving,
         Edge!ReadSoFar, UsersP!Edg!ReadSoFar, Edge!Refused, UsersP!Edg!Refused, Edge!HeadSize,
         UsersP!Edg!HeadSize, Edge!Unknown, UsersP!Edg!Unknown, Edge!Accepted,
         UsersP!Edg!Accepted, Edge!Rejected, UsersP!Edg!Rejected, Edge!Sent, UsersP!Edg!Sent,
         Edge!writeNodeDefaultClientError, UsersP!Edg!writeNodeDefaultClientError,
         Edge!TerminatorAt, UsersP!Edg!TerminatorAt, Edge!HeadOf, UsersP!Edg!HeadOf,
         Edge!buildIncomingMessage, UsersP!Edg!buildIncomingMessage, Edge!incomingMessage,
         UsersP!Edg!incomingMessage, Edge!HeaderLines, UsersP!Edg!HeaderLines, Edge!Terminator,
         UsersP!Edg!Terminator

LEMMA SameRespond == Edge!Respond => UsersP!Edg!Respond
  BY DEF Edge!Respond, UsersP!Edg!Respond, Edge!Handler, UsersP!Edg!Handler,
         Edge!restoreCatchAllRoutes, UsersP!Edg!restoreCatchAllRoutes, Edge!isCatchAllRoute,
         UsersP!Edg!isCatchAllRoute, Edge!collapseToAllLayer, UsersP!Edg!collapseToAllLayer,
         Edge!Router, UsersP!Edg!Router, Edge!Get, UsersP!Edg!Get, Edge!All, UsersP!Edg!All,
         Edge!Layer, UsersP!Edg!Layer, Edge!Known, UsersP!Edg!Known, Edge!Min, UsersP!Edg!Min

LEMMA SameTimeouts ==
    ASSUME Edge!RecoveryTimeout \/ Edge!NodeTimeout \/ Edge!ClientLeaves
    PROVE  UsersP!Edg!RecoveryTimeout \/ UsersP!Edg!NodeTimeout \/ UsersP!Edg!ClientLeaves
  BY DEF Edge!RecoveryTimeout, UsersP!Edg!RecoveryTimeout, Edge!TimesOut, UsersP!Edg!TimesOut,
         Edge!NodeTimeout, UsersP!Edg!NodeTimeout, Edge!writeNodeDefaultClientError,
         UsersP!Edg!writeNodeDefaultClientError, Edge!TerminatorAt, UsersP!Edg!TerminatorAt,
         Edge!Terminator, UsersP!Edg!Terminator, Edge!ClientLeaves, UsersP!Edg!ClientLeaves,
         Edge!Unknown, UsersP!Edg!Unknown, Edge!Accepted, UsersP!Edg!Accepted, Edge!Rejected,
         UsersP!Edg!Rejected

LEMMA SameArrivals ==
    /\ \A n : Edge!AfterConnect(n) => UsersP!Edg!AfterConnect(n)
    /\ Edge!NextRequest => UsersP!Edg!NextRequest
  BY DEF Edge!AfterConnect, UsersP!Edg!AfterConnect, Edge!Arriving, UsersP!Edg!Arriving,
         Edge!NextRequest, UsersP!Edg!NextRequest, Edge!Sendable, UsersP!Edg!Sendable, Edge!Sent,
         UsersP!Edg!Sent, Edge!Body, UsersP!Edg!Body, Edge!Terminator, UsersP!Edg!Terminator,
         Edge!Known, UsersP!Edg!Known, Edge!Unknown, UsersP!Edg!Unknown, Edge!Accepted,
         UsersP!Edg!Accepted, Edge!Rejected, UsersP!Edg!Rejected

LEMMA SameEdgeNext == Edge!Next => UsersP!Edg!Next
  BY SameInvalidMethod, SameKnownMethod, SameRespond, SameTimeouts, SameArrivals
     DEF Edge!Next, UsersP!Edg!Next

LEMMA EdgeStep == ASSUME [SuiteNext]_suiteVars, which = "edge"  PROVE [UsersP!Edg!Next]_(UsersP!Edg!vars)
  <1>1. UNCHANGED <<ofEdge>> => UNCHANGED UsersP!Edg!vars
    BY DEF ofEdge, UsersP!Edg!vars
  <1> QED
    BY <1>1, SameEdgeNext DEF SuiteNext, suiteVars

LEMMA NextEdge == ASSUME EdgeOK, [SuiteNext]_suiteVars  PROVE EdgeOK'
  <1>1. which' = which
    BY DEF SuiteNext, suiteVars
  <1>2. ASSUME which = "edge"  PROVE UsersP!EdgeInv'
    BY <1>2, EdgeStep, EdgeConstants, UsersP!NextEdgeInv DEF EdgeOK
  <1> QED
    BY <1>1, <1>2 DEF EdgeOK

LEMMA InitEdge == SuiteInit => EdgeOK
  BY SameEdgeInit, EdgeConstants, UsersP!EdgeInit DEF EdgeOK, SuiteInit

LEMMA EdgeOKSuffices == EdgeOK => AnsweredOnce
  <1> SUFFICES ASSUME EdgeOK, which = "edge"  PROVE Edge!OneAnswerEach /\ Edge!RefusedArrivesWhole
    BY DEF AnsweredOnce
  <1>1. UsersP!Edg!OneAnswerEach /\ UsersP!Edg!RefusedArrivesWhole
    BY EdgeConstants, UsersP!EdgeInvSuffices DEF EdgeOK
  <1>2. UsersP!Edg!OneAnswerEach => Edge!OneAnswerEach
    BY DEF Edge!OneAnswerEach, UsersP!Edg!OneAnswerEach, Edge!Unknown, UsersP!Edg!Unknown,
           Edge!Accepted, UsersP!Edg!Accepted, Edge!Rejected, UsersP!Edg!Rejected
  <1>3. UsersP!Edg!RefusedArrivesWhole => Edge!RefusedArrivesWhole
    BY DEF Edge!RefusedArrivesWhole, UsersP!Edg!RefusedArrivesWhole, Edge!Handler,
           UsersP!Edg!Handler, Edge!restoreCatchAllRoutes, UsersP!Edg!restoreCatchAllRoutes,
           Edge!isCatchAllRoute, UsersP!Edg!isCatchAllRoute, Edge!collapseToAllLayer,
           UsersP!Edg!collapseToAllLayer, Edge!Router, UsersP!Edg!Router, Edge!Get,
           UsersP!Edg!Get, Edge!All, UsersP!Edg!All, Edge!Layer, UsersP!Edg!Layer, Edge!Known,
           UsersP!Edg!Known, Edge!Unknown, UsersP!Edg!Unknown, Edge!Accepted, UsersP!Edg!Accepted,
           Edge!Rejected, UsersP!Edg!Rejected, Edge!incomingMessage, UsersP!Edg!incomingMessage,
           Edge!Min, UsersP!Edg!Min
  <1> QED
    BY <1>1, <1>2, <1>3

\* A request is answered once, whatever times out and wherever its chunks end, and
\* one that Node refused reaches Express whole (recoverInvalidMethod).
THEOREM AnsweredOnceAlways == SuiteSpec => []AnsweredOnce
  BY InitEdge, NextEdge, EdgeOKSuffices, PTL DEF SuiteSpec

-----------------------------------------------------------------------------
(* Amortization *)

LoanOK == which = "amortization" => UsersP!AmoInv

LEMMA LoanConstants == UsersP!Amo!ConstantsAssumption
  BY InstancesAssumption
     DEF InstancesAssumption, Amo!ConstantsAssumption, UsersP!Amo!ConstantsAssumption

LEMMA SameLoanInit == Amo!Init => UsersP!Amo!Init
  BY DEF Amo!Init, UsersP!Amo!Init, Amo!None, UsersP!Amo!None

LEMMA SameMonths == \A y, m : Amo!daysInMonth(y, m) = UsersP!Amo!daysInMonth(y, m)
  BY DEF Amo!daysInMonth, UsersP!Amo!daysInMonth, Amo!isLeapYear, UsersP!Amo!isLeapYear

LEMMA SameIsDate == \A d : Amo!IsDate(d) <=> UsersP!Amo!IsDate(d)
  <1> TAKE d
  <1>1. Amo!daysInMonth(d.year, d.month) = UsersP!Amo!daysInMonth(d.year, d.month)
    BY SameMonths
  <1>2. d.day \in 1..Amo!daysInMonth(d.year, d.month)
           <=> d.day \in 1..UsersP!Amo!daysInMonth(d.year, d.month)
    BY <1>1
  <1> QED
    BY <1>2, PTL DEF Amo!IsDate, UsersP!Amo!IsDate

LEMMA SameMoves ==
    /\ Amo!NoDelta = UsersP!Amo!NoDelta
    /\ \A d, n : Amo!addMonths(d, n) = UsersP!Amo!addMonths(d, n)
    /\ \A d : Amo!utcDays(d) = UsersP!Amo!utcDays(d)
    /\ \A n : Amo!fromDateColumn(n) = UsersP!Amo!fromDateColumn(n)
  BY SameMonths
     DEF Amo!NoDelta, UsersP!Amo!NoDelta, Amo!addMonths, UsersP!Amo!addMonths, Amo!utcDays,
         UsersP!Amo!utcDays, Amo!fromDateColumn, UsersP!Amo!fromDateColumn, Amo!Date,
         UsersP!Amo!Date

LEMMA SameCalendar ==
    /\ \A d : Amo!isLastDay(d) <=> UsersP!Amo!isLastDay(d)
    /\ \A a, b : Amo!compare(a, b) = UsersP!Amo!compare(a, b)
    /\ \A d, delta : Amo!addRelativeDelta(d, delta) = UsersP!Amo!addRelativeDelta(d, delta)
    /\ Amo!NoDelta = UsersP!Amo!NoDelta
  BY SameMonths, SameMoves
     DEF Amo!isLastDay, UsersP!Amo!isLastDay, Amo!compare, UsersP!Amo!compare,
         Amo!addRelativeDelta, UsersP!Amo!addRelativeDelta

LEMMA SameCounting ==
    /\ \A a, b : Amo!days360(a, b) = UsersP!Amo!days360(a, b)
    /\ \A num, den : Amo!roundHalfEven(num, den) = UsersP!Amo!roundHalfEven(num, den)
  BY SameCalendar
     DEF Amo!days360, UsersP!Amo!days360, Amo!roundHalfEven, UsersP!Amo!roundHalfEven

LEMMA SameTerms ==
    /\ Amo!None = UsersP!Amo!None /\ Amo!instalments = UsersP!Amo!instalments /\ Amo!Unit = UsersP!Amo!Unit
    /\ \A t : Amo!getRate(t) = UsersP!Amo!getRate(t)
  BY DEF Amo!None, UsersP!Amo!None, Amo!instalments, UsersP!Amo!instalments, Amo!Unit,
         UsersP!Amo!Unit, Amo!getRate, UsersP!Amo!getRate, Amo!FEE_MONTHLY,
         UsersP!Amo!FEE_MONTHLY, Amo!FEE_UNIQUE, UsersP!Amo!FEE_UNIQUE

LEMMA SameRows ==
    /\ \A i : Amo!PaymentDate(i) = UsersP!Amo!PaymentDate(i)
    /\ \A r, b, f, t : Amo!calculateInterests(r, b, f, t) = UsersP!Amo!calculateInterests(r, b, f, t)
  BY SameCalendar, SameCounting
     DEF Amo!PaymentDate, UsersP!Amo!PaymentDate, Amo!calculateInterests,
         UsersP!Amo!calculateInterests, Amo!FEE_MONTHLY, UsersP!Amo!FEE_MONTHLY, Amo!FEE_UNIQUE,
         UsersP!Amo!FEE_UNIQUE

LEMMA SameSum == Amo!Sum = UsersP!Amo!Sum
  BY DEF Amo!Sum, UsersP!Amo!Sum, Amo!PaymentValue, UsersP!Amo!PaymentValue

LEMMA SameProjected == \A t : Amo!Projected(t) = UsersP!Amo!Projected(t)
  BY SameRows, SameCounting DEF Amo!Projected, UsersP!Amo!Projected

LEMMA SameApply == Amo!Apply => UsersP!Amo!Apply
  BY SameIsDate, SameTerms
     DEF Amo!Apply, UsersP!Amo!Apply, Amo!MIN_TIMELIMIT, UsersP!Amo!MIN_TIMELIMIT,
         Amo!MAX_TIMELIMIT, UsersP!Amo!MAX_TIMELIMIT, Amo!FEE_MONTHLY, UsersP!Amo!FEE_MONTHLY,
         Amo!FEE_UNIQUE, UsersP!Amo!FEE_UNIQUE

LEMMA SameAddRow == Amo!AddRow => UsersP!Amo!AddRow
  BY SameTerms, SameRows
     DEF Amo!AddRow, UsersP!Amo!AddRow

LEMMA SameSaveDetail == Amo!SaveDetail => UsersP!Amo!SaveDetail
  BY SameTerms, SameCounting, SameSum
     DEF Amo!SaveDetail, UsersP!Amo!SaveDetail, Amo!PaymentValue, UsersP!Amo!PaymentValue

LEMMA SameLoanNext == Amo!Next => UsersP!Amo!Next
  <1>1. Amo!Project => UsersP!Amo!Project
    BY SameTerms, SameProjected DEF Amo!Project, UsersP!Amo!Project
  <1> QED
    BY <1>1, SameApply, SameAddRow, SameSaveDetail DEF Amo!Next, UsersP!Amo!Next

LEMMA LoanStep == ASSUME [SuiteNext]_suiteVars, which = "amortization"  PROVE [UsersP!Amo!Next]_(UsersP!Amo!vars)
  <1>1. UNCHANGED <<ofAmortization, answer>> => UNCHANGED UsersP!Amo!vars
    BY DEF ofAmortization, UsersP!Amo!vars
  <1> QED
    BY <1>1, SameLoanNext DEF SuiteNext, suiteVars

LEMMA NextLoan == ASSUME LoanOK, [SuiteNext]_suiteVars  PROVE LoanOK'
  <1>1. which' = which
    BY DEF SuiteNext, suiteVars
  <1>2. ASSUME which = "amortization"  PROVE UsersP!AmoInv'
    BY <1>2, LoanStep, LoanConstants, UsersP!AmoNext DEF LoanOK
  <1> QED
    BY <1>1, <1>2 DEF LoanOK

LEMMA InitLoan == SuiteInit => LoanOK
  BY SameLoanInit, LoanConstants, UsersP!AmoInit DEF LoanOK, SuiteInit

LEMMA LoanOKSuffices == LoanOK => InstalmentsAgree
  <1> SUFFICES ASSUME LoanOK, which = "amortization"
               PROVE  Amo!SameDayEveryMonth /\ Amo!NeverMoreThanThirtyDays /\ Amo!FiguresAgree
    BY DEF InstalmentsAgree
  <1>1. UsersP!Amo!SameDayEveryMonth /\ UsersP!Amo!NeverMoreThanThirtyDays /\ UsersP!Amo!FiguresAgree
    BY UsersP!SameDay, UsersP!ThirtyDays, UsersP!Figures DEF LoanOK
  <1>2. UsersP!Amo!SameDayEveryMonth => Amo!SameDayEveryMonth
    BY SameCalendar
       DEF Amo!SameDayEveryMonth, UsersP!Amo!SameDayEveryMonth, Amo!FEE_MONTHLY,
           UsersP!Amo!FEE_MONTHLY
  <1>3. UsersP!Amo!NeverMoreThanThirtyDays => Amo!NeverMoreThanThirtyDays
    BY SameCounting
       DEF Amo!NeverMoreThanThirtyDays, UsersP!Amo!NeverMoreThanThirtyDays, Amo!FEE_MONTHLY,
           UsersP!Amo!FEE_MONTHLY
  <1>4. UsersP!Amo!FiguresAgree => Amo!FiguresAgree
    BY SameTerms, SameProjected
       DEF Amo!FiguresAgree, UsersP!Amo!FiguresAgree, Amo!MAX_TIMELIMIT, UsersP!Amo!MAX_TIMELIMIT
  <1> QED
    BY <1>1, <1>2, <1>3, <1>4

\* The instalments of a loan are on their days and for at most 30 days a month,
\* and the figures of its detail agree with its table and with what is projected
\* (generateAmortizationTable, upsertLoanDetail, paymentProjection).
THEOREM InstalmentsAlwaysAgree == SuiteSpec => []InstalmentsAgree
  BY InitLoan, NextLoan, LoanOKSuffices, PTL DEF SuiteSpec

-----------------------------------------------------------------------------
(* Birthdays *)

BirthdaysOK == which = "birthdays" => UsersP!BirInv

LEMMA SameBirMonths == \A y, m : Bir!daysInMonth(y, m) = UsersP!Bir!daysInMonth(y, m)
  BY DEF Bir!daysInMonth, UsersP!Bir!daysInMonth, Bir!isLeapYear, UsersP!Bir!isLeapYear

LEMMA SameBirIsDate == \A d : Bir!IsDate(d) <=> UsersP!Bir!IsDate(d)
  <1> TAKE d
  <1>1. Bir!daysInMonth(d.year, d.month) = UsersP!Bir!daysInMonth(d.year, d.month)
    BY SameBirMonths
  <1>2. d.day \in 1..Bir!daysInMonth(d.year, d.month)
           <=> d.day \in 1..UsersP!Bir!daysInMonth(d.year, d.month)
    BY <1>1
  <1> QED
    BY <1>2, PTL DEF Bir!IsDate, UsersP!Bir!IsDate

LEMMA BirthdaysConstants == UsersP!Bir!ConstantsAssumption
  BY InstancesAssumption, SameBirIsDate
     DEF InstancesAssumption, Bir!ConstantsAssumption, UsersP!Bir!ConstantsAssumption

LEMMA SameBirthdaysInit == Bir!Init => UsersP!Bir!Init
  BY DEF Bir!Init, UsersP!Bir!Init, Bir!NotSaving, UsersP!Bir!NotSaving, Bir!FirstDay,
         UsersP!Bir!FirstDay, Bir!FirstHour, UsersP!Bir!FirstHour, Bir!FirstYear,
         UsersP!Bir!FirstYear, Bir!Date, UsersP!Bir!Date

LEMMA SameBirMoves ==
    /\ Bir!NoDelta = UsersP!Bir!NoDelta
    /\ \A d, n : Bir!addMonths(d, n) = UsersP!Bir!addMonths(d, n)
    /\ \A d : Bir!utcDays(d) = UsersP!Bir!utcDays(d)
    /\ \A n : Bir!fromDateColumn(n) = UsersP!Bir!fromDateColumn(n)
  BY SameBirMonths
     DEF Bir!NoDelta, UsersP!Bir!NoDelta, Bir!addMonths, UsersP!Bir!addMonths, Bir!utcDays,
         UsersP!Bir!utcDays, Bir!fromDateColumn, UsersP!Bir!fromDateColumn, Bir!Date,
         UsersP!Bir!Date

LEMMA SameBirDelta ==
    \A d, delta : Bir!addRelativeDelta(d, delta) = UsersP!Bir!addRelativeDelta(d, delta)
  BY SameBirMoves
     DEF Bir!addRelativeDelta, UsersP!Bir!addRelativeDelta

LEMMA SameRepeat ==
    \A d : Bir!nextRepeatRunDate(d, Bir!YEARLY) = UsersP!Bir!nextRepeatRunDate(d, UsersP!Bir!YEARLY)
  <1>1. Bir!REPEAT_DELTAS(Bir!YEARLY) = UsersP!Bir!REPEAT_DELTAS(UsersP!Bir!YEARLY)
    BY SameBirMoves
       DEF Bir!REPEAT_DELTAS, UsersP!Bir!REPEAT_DELTAS, Bir!YEARLY, UsersP!Bir!YEARLY, Bir!DAILY,
           UsersP!Bir!DAILY, Bir!WEEKLY, UsersP!Bir!WEEKLY, Bir!MONTHLY, UsersP!Bir!MONTHLY
  <1> QED
    BY <1>1, SameBirDelta DEF Bir!nextRepeatRunDate, UsersP!Bir!nextRepeatRunDate

LEMMA SameDayAfter ==
    /\ \A d : Bir!DayAfter(d) = UsersP!Bir!DayAfter(d)
    /\ \A d : Bir!Later(d) = UsersP!Bir!Later(d)
    /\ \A a, b : Bir!compare(a, b) = UsersP!Bir!compare(a, b)
  BY SameBirMoves, SameBirDelta
     DEF Bir!DayAfter, UsersP!Bir!DayAfter, Bir!Later, UsersP!Bir!Later, Bir!LastDay,
         UsersP!Bir!LastDay, Bir!FirstDay, UsersP!Bir!FirstDay, Bir!Date, UsersP!Bir!Date,
         Bir!compare, UsersP!Bir!compare

LEMMA SameBirthday == \A y : Bir!birthdayInYear(y) = UsersP!Bir!birthdayInYear(y)
  BY DEF Bir!birthdayInYear, UsersP!Bir!birthdayInYear, Bir!isLeapYear, UsersP!Bir!isLeapYear,
         Bir!Date, UsersP!Bir!Date

LEMMA SameReadClock == Bir!ReadClock => UsersP!Bir!ReadClock
  <1>1. Bir!nextBirthdayRunDate = UsersP!Bir!nextBirthdayRunDate
    BY SameBirthday, SameDayAfter
       DEF Bir!nextBirthdayRunDate, UsersP!Bir!nextBirthdayRunDate, Bir!LAST_SCHEDULER_PASS_HOUR,
           UsersP!Bir!LAST_SCHEDULER_PASS_HOUR
  <1> QED
    BY <1>1 DEF Bir!ReadClock, UsersP!Bir!ReadClock, Bir!NotSaving, UsersP!Bir!NotSaving

LEMMA SameCommitSave == Bir!CommitSave => UsersP!Bir!CommitSave
  BY DEF Bir!CommitSave, UsersP!Bir!CommitSave, Bir!NotSaving, UsersP!Bir!NotSaving,
         Bir!Straddles, UsersP!Bir!Straddles

LEMMA SamePass == Bir!Pass => UsersP!Bir!Pass
  <1>1. Bir!Due = UsersP!Bir!Due
    BY SameDayAfter DEF Bir!Due, UsersP!Bir!Due
  <1>2. \A t : Bir!Run(t) = UsersP!Bir!Run(t)
    BY SameRepeat DEF Bir!Run, UsersP!Bir!Run
  <1>3. {Bir!Run(t) : t \in Bir!Due} = {UsersP!Bir!Run(t) : t \in UsersP!Bir!Due}
    BY <1>1, <1>2
  <1> QED
    BY <1>1, <1>3
       DEF Bir!Pass, UsersP!Bir!Pass, Bir!SCHEDULER_PASS_HOURS, UsersP!Bir!SCHEDULER_PASS_HOURS

LEMMA SameTick == Bir!Tick => UsersP!Bir!Tick
  BY SameDayAfter
     DEF Bir!Tick, UsersP!Bir!Tick, Bir!SCHEDULER_PASS_HOURS, UsersP!Bir!SCHEDULER_PASS_HOURS,
         Bir!NotSaving, UsersP!Bir!NotSaving, Bir!LastHour, UsersP!Bir!LastHour, Bir!FirstHour,
         UsersP!Bir!FirstHour, Bir!Hours, UsersP!Bir!Hours

LEMMA SameBirthdaysNext == Bir!Next => UsersP!Bir!Next
  BY SameReadClock, SameCommitSave, SamePass, SameTick DEF Bir!Next, UsersP!Bir!Next

LEMMA BirthdaysStep == ASSUME [SuiteNext]_suiteVars, which = "birthdays"  PROVE [UsersP!Bir!Next]_(UsersP!Bir!vars)
  <1>1. UNCHANGED <<ofBirthdays, sent>> => UNCHANGED UsersP!Bir!vars
    BY DEF ofBirthdays, UsersP!Bir!vars
  <1> QED
    BY <1>1, SameBirthdaysNext DEF SuiteNext, suiteVars

LEMMA NextBirthdays == ASSUME BirthdaysOK, [SuiteNext]_suiteVars  PROVE BirthdaysOK'
  <1>1. which' = which
    BY DEF SuiteNext, suiteVars
  <1>2. ASSUME which = "birthdays"  PROVE UsersP!BirInv'
    BY <1>2, BirthdaysStep, BirthdaysConstants, UsersP!BirNext DEF BirthdaysOK
  <1> QED
    BY <1>1, <1>2 DEF BirthdaysOK

LEMMA InitBirthdays == SuiteInit => BirthdaysOK
  BY SameBirthdaysInit, BirthdaysConstants, UsersP!BirInit DEF BirthdaysOK, SuiteInit

LEMMA BirthdaysOKSuffices == BirthdaysOK => BirthdaysAnnounced
  <1> SUFFICES ASSUME BirthdaysOK, which = "birthdays"
               PROVE  Bir!AnnouncedOnTheDay /\ Bir!NoBirthdayMissed
    BY DEF BirthdaysAnnounced
  <1>1. UsersP!Bir!AnnouncedOnTheDay /\ UsersP!Bir!NoBirthdayMissed
    BY BirthdaysConstants, UsersP!AnnouncedFollows, UsersP!MissedFollows DEF BirthdaysOK
  <1>2. \A y : Bir!Expected(y) = UsersP!Bir!Expected(y)
    BY SameBirthday, SameDayAfter DEF Bir!Expected, UsersP!Bir!Expected, Bir!Date, UsersP!Bir!Date
  <1>3. UsersP!Bir!AnnouncedOnTheDay => Bir!AnnouncedOnTheDay
    BY <1>2 DEF Bir!AnnouncedOnTheDay, UsersP!Bir!AnnouncedOnTheDay
  <1>4. UsersP!Bir!NoBirthdayMissed => Bir!NoBirthdayMissed
    BY SameDayAfter
       DEF Bir!NoBirthdayMissed, UsersP!Bir!NoBirthdayMissed, Bir!LastDay, UsersP!Bir!LastDay,
           Bir!Date, UsersP!Bir!Date
  <1> QED
    BY <1>1, <1>3, <1>4

\* However late the profile is saved, and saved again, each birthday is announced
\* on its day, and none is missed (nextBirthdayRunDate, createRepeatInstance).
THEOREM BirthdaysAlwaysAnnounced == SuiteSpec => []BirthdaysAnnounced
  BY InitBirthdays, NextBirthdays, BirthdaysOKSuffices, PTL DEF SuiteSpec

-----------------------------------------------------------------------------
(* HttpPipeline *)

RequestsOK == which = "pipeline" => PipeInv

LEMMA NextRequests == ASSUME RequestsOK, [SuiteNext]_suiteVars  PROVE RequestsOK'
  <1>1. which' = which
    BY DEF SuiteNext, suiteVars
  <1>2. UNCHANGED ofPipeline => UNCHANGED vars
    BY DEF ofPipeline, vars
  <1>3. ASSUME which = "pipeline"  PROVE [Next]_vars
    BY <1>2, <1>3 DEF SuiteNext, suiteVars
  <1>4. ASSUME which = "pipeline"  PROVE PipeInv'
    BY <1>3, <1>4, InstancesAssumption, PipeStep DEF RequestsOK, InstancesAssumption
  <1> QED
    BY <1>1, <1>4 DEF RequestsOK

LEMMA InitRequests == SuiteInit => RequestsOK
  BY InstancesAssumption, InitPipeInv DEF SuiteInit, RequestsOK, InstancesAssumption

LEMMA RequestsOKSuffices == RequestsOK => ReachedByRight /\ HeadersPassed
  BY InstancesAssumption, PipeInvSuffices
     DEF RequestsOK, ReachedByRight, HeadersPassed, InstancesAssumption

\* A handler runs only for a client that may do this, and after its credentials
\* were looked at (TokenAuthGuard, RolesGuard).
THEOREM HandlersReachedByRight == SuiteSpec => []ReachedByRight
  BY InitRequests, NextRequests, RequestsOKSuffices, PTL DEF SuiteSpec

\* An answer has the headers of the middlewares it passed, and no other
\* (onBeforeHeaders, DjangoResponseHeaders).
THEOREM HeadersAlwaysPassed == SuiteSpec => []HeadersPassed
  BY InitRequests, NextRequests, RequestsOKSuffices, PTL DEF SuiteSpec
=============================================================================
