-------------------------------- MODULE MCWeb --------------------------------
(***************************************************************************)
(* Instances for TLC of what a request passes on its way (HttpEdge,        *)
(* Multipart, HttpPipeline, PasswordPages), of the lists, and of the       *)
(* arithmetic of dates behind two services. They share no state: a         *)
(* behaviour is one of an instance in Suite, which the other variables     *)
(* take no part in. One run checks them all.                               *)
(***************************************************************************)
EXTENDS HttpPipeline

CONSTANTS Suite, t1, t2

VARIABLES
    which,                                                  \* the instance
    rows, privileged, walk, shown, moves,
    stayed, left, arrived, between, changed,                \* Lists
    cookie, forms, tab, visits,                             \* PasswordPages
    body, position, fields, files,
    numBytesRead, numPostKeys, outcome,                     \* Multipart
    requests, request, unsent, received, owned,
    recoveries, dispatched, answers, socket,                \* HttpEdge
    loan, table, detail,                                    \* Amortization
    birthdate, now, tasks, save, saves, owed,               \* Birthdays
    answer, sent                                            \* of two of them

ofPipeline == <<user, edits, req, at, resp, seen>>
ofLists == <<rows, privileged, walk, shown, moves, stayed, left, arrived, between, changed>>
ofPages == <<cookie, forms, tab, visits>>
ofMultipart == <<body, position, fields, files, numBytesRead, numPostKeys, outcome>>
ofEdge == <<requests, request, unsent, received, owned, recoveries, dispatched, answers, socket>>
ofAmortization == <<loan, table, detail>>
ofBirthdays == <<birthdate, now, tasks, save, saves, owed>>
suiteVars == <<which, ofPipeline, ofLists, ofPages, ofMultipart, ofEdge, ofAmortization,
               ofBirthdays, answer, sent>>

-----------------------------------------------------------------------------
(* HttpPipeline: paths on either side of every pattern of the old table and of
   every route of the new one, with the methods that differ; and on some of them
   everything else a request may have, two oddities at a time. *)

Thirds == {"7", "-7", "word", "-word", "7.5", "year", "activate", "apps", "detail"}
Verbs == {"GET", "HEAD", "POST", "PATCH", "OPTIONS"}
Tried ==
    {<<s>> : s \in Segments} \cup {<<"api", s>> : s \in Segments}
    \cup {<<"api", s, c>> : s \in {"loan", "user", "activity", "notification", "file", "admin"},
                            c \in Thirds}
    \cup {<<"api", s, c, d>> : s \in {"loan", "user", "activity"},
                               c \in {"7", "year", "activate", "apps", "detail"}, d \in Thirds}
    \cup {<<s, c>> : s \in {"reset", "password_reset"}, c \in {"done", "7"}}
    \cup {<<"reset", c, d>> : c \in {"word", "7.5"}, d \in {"set-password", "5x2-abc", "word"}}
Routed == {[Ordinary EXCEPT !.path = Path(s, slash), !.method = m] :
              s \in Tried, slash \in BOOLEAN, m \in Verbs}

Oddities == [path : {Path(<<"api", "loan">>, FALSE), Path(<<"api", "user", "activate", "7">>, FALSE),
                     Path(<<"password_reset">>, TRUE), Path(<<"health">>, FALSE),
                     Path(<<"api", "file">>, FALSE), Path(<<"api-token-auth">>, TRUE)},
             method : {"GET", "POST", "OPTIONS"}, host : BOOLEAN, preflight : BOOLEAN,
             accept : {"ok", "format", "type"}, auth : {"none", "other", "malformed", "key"},
             body : {"none", "good", "type", "malformed"}, outcome : {"ok", "ApiException", "crash"}]
Odd == {r \in Oddities :
           Cardinality({f \in DOMAIN r \ {"path", "method"} : r[f] # Ordinary[f]}) <= 2}
AllRequests == Routed \cup Odd

-----------------------------------------------------------------------------
(* Lists: two over a page, three pages and one row, with two rows that move *)

LUsers == INSTANCE Lists WITH List <- "users", MaxId <- 6, PER_PAGE <- 2, MaxMoves <- 2
LLoans == INSTANCE Lists WITH List <- "loans", MaxId <- 7, PER_PAGE <- 2, MaxMoves <- 2
LPowers == INSTANCE Lists WITH List <- "powers", MaxId <- 7, PER_PAGE <- 2, MaxMoves <- 2
LAccounts == INSTANCE Lists WITH List <- "accounts", MaxId <- 7, PER_PAGE <- 2, MaxMoves <- 2

Pages == INSTANCE PasswordPages WITH CHARS <- 2, Tabs <- {t1, t2}, MaxVisits <- 4

-----------------------------------------------------------------------------
(* Multipart: one part with every oddity, two with line ends at their edges, one
   over the limit of fields and one that is not, for a part without a name *)

Part(kind, name, payload) ==
    [kind |-> kind, name |-> name, base64 |-> FALSE, long |-> FALSE, payload |-> payload]
cr == <<"cr">>
lf == <<"lf">>
x == <<"x">>
mark == <<"bom">>
bad == <<"bad">>
named == <<<<"a">>>>
none == <<<<"no name">>>>
Xs(n) == [i \in 1..n |-> x]
Ends == {<<>>, <<lf>>, <<cr, lf>>, Xs(3)}
Payloads == Ends \cup {<<cr>>, <<x, cr, lf>>, <<cr, lf, cr, lf>>, <<<<"z">>>>}
            \cup {Xs(n) : n \in {1, 4, 6, 10}}
Alone == {[Part(kind, named, p) EXCEPT !.base64 = b, !.long = l] :
             kind \in {"field", "file", "raw"}, p \in Payloads, b \in BOOLEAN, l \in BOOLEAN}
\* Text that is none, marks of byte order, names of every kind.
Texts == {<<mark>>, <<mark, mark, x>>, <<x, mark>>, <<bad, x>>}
Names == {named, <<>>, none, <<<<"space">>, <<"a">>>>, <<mark, <<"a">>>>, <<bad>>}
Odder == {[Part(kind, named, p) EXCEPT !.base64 = b] : kind \in {"field", "file"}, p \in Texts,
             b \in BOOLEAN}
         \cup {Part(kind, n, p) : kind \in {"field", "file", "dots"}, n \in Names,
                  p \in {<<lf>>} \cup {Xs(k) : k \in 4..7}}
Pairs == {<<Part(k, named, p), Part(l, n, r)>> : k \in {"field", "file"}, l \in {"field", "file"},
             n \in {<<>>, named}, p \in Ends, r \in Ends}
Three(n) == <<Part("field", <<>>, <<>>), Part("field", n, <<>>), Part("field", <<>>, <<>>)>>
Dots == <<Part("file", named, <<x>>), Part("dots", named, <<x, x>>)>>

Multi == INSTANCE Multipart WITH
    PartLists <- {<<p>> : p \in Alone \cup Odder} \cup Pairs \cup {Three(<<>>), Three(none), Dots},
    DATA_UPLOAD_MAX_MEMORY_SIZE <- 9, DATA_UPLOAD_MAX_NUMBER_FIELDS <- 2, MAX_HEADER_SIZE <- 10

\* Names that repeat, a line that is no header, and more than the limit.
Lines == {<<>>, <<<<"a", "1">>>>, <<<<"a", "1">>, <<"b", "2">>, <<"a", "3">>>>,
          <<<<"t">>, <<"a", "1">>>>, [i \in 1..5 |-> <<"a", "1">>]}
Edge == INSTANCE HttpEdge WITH HeaderLists <- Lines, maxHeaderSize <- 7, MaxRequests <- 2

-----------------------------------------------------------------------------
(* Amortization: terms about each bound, dates about the ends of the months.
   Birthdays: a leap year and its neighbours, birthdates about its day. *)

On(year, month, days) == {[year |-> year, month |-> month, day |-> d] : d \in days}
AboutBounds == {0, 1, 2, 3, 6, 7, 12, 13, 24, 25, 36, 37}
AboutMonthEnds ==
    On(2023, 1, 28..31) \cup On(2023, 2, 27..28) \cup On(2024, 1, 29..31)
    \cup On(2024, 2, 28..29) \cup On(2023, 4, {30}) \cup On(2023, 5, {31})
    \cup On(2023, 6, {1}) \cup On(2023, 12, {31}) \cup On(2024, 12, {15})
Amo == INSTANCE Amortization WITH
    Values <- {1, 999}, Terms <- AboutBounds, Dates <- AboutMonthEnds
AboutLeapYear == 2027..2029
AboutLeapDay == On(1990, 2, 27..28) \cup On(1992, 2, {29}) \cup On(1990, 3, {1})
Bir == INSTANCE Birthdays WITH
    Years <- AboutLeapYear, Birthdates <- AboutLeapDay, MaxSaves <- 3

ASSUME InstancesAssumption ==
    /\ ConstantsAssumption /\ Pages!ConstantsAssumption /\ Edge!ConstantsAssumption
    /\ Amo!ConstantsAssumption /\ Bir!ConstantsAssumption
    /\ LUsers!ConstantsAssumption /\ LLoans!ConstantsAssumption
    /\ LPowers!ConstantsAssumption /\ LAccounts!ConstantsAssumption

-----------------------------------------------------------------------------
NoPipeline == user = {} /\ edits = {} /\ req = {} /\ at = {} /\ resp = {} /\ seen = {}
NoLists == /\ rows = {} /\ privileged = {} /\ walk = {} /\ shown = {} /\ moves = {}
           /\ stayed = {} /\ left = {} /\ arrived = {} /\ between = {} /\ changed = {}
NoPages == cookie = {} /\ forms = {} /\ tab = {} /\ visits = {}
NoMultipart == /\ body = {} /\ position = {} /\ fields = {} /\ files = {}
               /\ numBytesRead = {} /\ numPostKeys = {} /\ outcome = {}
NoEdge == /\ requests = {} /\ request = {} /\ unsent = {} /\ received = {} /\ owned = {}
          /\ recoveries = {} /\ dispatched = {} /\ answers = {} /\ socket = {}
NoAmortization == loan = {} /\ table = {} /\ detail = {}
NoBirthdays == birthdate = {} /\ now = {} /\ tasks = {} /\ save = {} /\ saves = {} /\ owed = {}
NoAnswer == answer = {}
NoSent == sent = {}

SuiteInit ==
    /\ which \in Suite
    /\ IF which = "pipeline" THEN Init ELSE NoPipeline
    /\ CASE which = "users" -> LUsers!Init
         [] which = "loans" -> LLoans!Init
         [] which = "powers" -> LPowers!Init
         [] which = "accounts" -> LAccounts!Init
         [] OTHER -> NoLists
    /\ IF which = "pages" THEN Pages!Init ELSE NoPages
    /\ IF which = "multipart" THEN Multi!Init ELSE NoMultipart
    /\ IF which = "edge" THEN Edge!Init ELSE NoEdge
    /\ IF which = "amortization" THEN Amo!Init ELSE NoAmortization
    /\ IF which = "birthdays" THEN Bir!Init ELSE NoBirthdays
    /\ which \notin {"pages", "amortization"} => NoAnswer
    /\ which \notin {"multipart", "birthdays"} => NoSent

SuiteNext ==
    \/ /\ which = "pipeline" /\ Next
       /\ UNCHANGED <<which, ofLists, ofPages, ofMultipart, ofEdge, ofAmortization,
                      ofBirthdays, answer, sent>>
    \/ /\ \/ which = "users" /\ LUsers!Next
          \/ which = "loans" /\ LLoans!Next
          \/ which = "powers" /\ LPowers!Next
          \/ which = "accounts" /\ LAccounts!Next
       /\ UNCHANGED <<which, ofPipeline, ofPages, ofMultipart, ofEdge, ofAmortization,
                      ofBirthdays, answer, sent>>
    \/ /\ which = "pages" /\ Pages!Next
       /\ UNCHANGED <<which, ofPipeline, ofLists, ofMultipart, ofEdge, ofAmortization,
                      ofBirthdays, sent>>
    \/ /\ which = "multipart" /\ Multi!Next
       /\ UNCHANGED <<which, ofPipeline, ofLists, ofPages, ofEdge, ofAmortization,
                      ofBirthdays, answer>>
    \/ /\ which = "edge" /\ Edge!Next
       /\ UNCHANGED <<which, ofPipeline, ofLists, ofPages, ofMultipart, ofAmortization,
                      ofBirthdays, answer, sent>>
    \/ /\ which = "amortization" /\ Amo!Next
       /\ UNCHANGED <<which, ofPipeline, ofLists, ofPages, ofMultipart, ofEdge,
                      ofBirthdays, sent>>
    \/ /\ which = "birthdays" /\ Bir!Next
       /\ UNCHANGED <<which, ofPipeline, ofLists, ofPages, ofMultipart, ofEdge,
                      ofAmortization, answer>>

SuiteSpec == SuiteInit /\ [][SuiteNext]_suiteVars

-----------------------------------------------------------------------------
(* The properties: those of the modules, of the behaviours of their instances *)

\* A list loses no more rows between its pages than left, or arrived at its end,
\* and shows the rows of others to the privileged alone.
NothingFallsBetweenPages ==
    /\ which = "users" => LUsers!NothingFallsBetweenPages /\ LUsers!NoRepetitionUnlessArrived
    /\ which = "loans" => LLoans!NothingFallsBetweenPages /\ LLoans!OthersNeedPrivilege
    /\ which = "powers" => LPowers!NothingFallsBetweenPages /\ LPowers!OthersNeedPrivilege
    /\ which = "accounts" => LAccounts!NothingFallsBetweenPages /\ LAccounts!OthersNeedPrivilege

\* A handler runs for a client that may do this, after its credentials.
ReachedByRight == which = "pipeline" => HandlersAreReachedByRight /\ CredentialsComeFirst

\* An answer has the headers of the middlewares it passed.
HeadersPassed == which = "pipeline" => HeadersFollowDjango

\* A form that a page served is taken, whatever other tabs do.
FormsStayGood == which = "pages" => Pages!FormsStayGood

\* A form body arrives, its files to the byte and its fields as text, or is refused.
ArrivesWholeOrNotAtAll == which = "multipart" => Multi!ArrivesWholeOrNotAtAll

\* A request is answered once, and one that Node refused arrives whole.
AnsweredOnce == which = "edge" => Edge!OneAnswerEach /\ Edge!RefusedArrivesWhole

\* The instalments of a loan are on their days, and its figures agree.
InstalmentsAgree == which = "amortization" =>
    Amo!SameDayEveryMonth /\ Amo!NeverMoreThanThirtyDays /\ Amo!FiguresAgree

\* A birthday is announced on its day, every year.
BirthdaysAnnounced ==
    which = "birthdays" => Bir!AnnouncedOnTheDay /\ Bir!NoBirthdayMissed
=============================================================================
