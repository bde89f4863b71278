# Fondo API v2 — a TLA+ verification project

Fondo API is the back end of a savings fund: a NestJS service over PostgreSQL
(Prisma, `READ COMMITTED`), ported from a Django application whose behaviour it
keeps. Members apply for loans and refinance them, a treasurer decides on them
and uploads a monthly file, members hold saving accounts (CAPs) that close on
their end date, and a scheduler sends payment reminders and birthday greetings
and closes the CAPs. The tables are shared by concurrent requests and by every
process that runs the scheduler; what is hard about the code is what may come
between two of its statements.

All paths below are relative to the repository (`src/src/...` is its `src/`
directory as mapped in `PROJECT.json`).

## 1. Inventory

| Component | State it keeps | Operations | Interacts with |
|---|---|---|---|
| Scheduler (`scheduler/`) | `fondo_api_schedulertask`; per process, the list a pass has loaded and the row it has claimed | `handleCron` (10:00 and 14:00), `claim`, executer, `release`, `createRepeatInstance` | tasks written by users, loans, CAPs; executers call notifications and CAPs |
| Loans (`loans/`) | `fondo_api_loan`, `fondo_api_loandetail` | create, PATCH (approve, deny, pay), refinance, monthly file, projection, lists | schedules and deletes reminders; sends mail; pushes notifications |
| CAPs (`saving-accounts/`) | `fondo_api_savingaccount` | create (with its close task), PUT, list, close, overdue check | scheduler |
| Users (`users/user.service.ts`) | `auth_user`, profile, finance, preferences | create, activate, deactivate, PATCH personal / finance / preferences, finance file | birthday tasks, subscriptions, mail |
| Notifications (`notifications/`) | subscriptions; SQS queue | subscribe, unsubscribe, wipe, schedule, publish (3 attempts) | scheduler, loans, users |
| Powers (`users/power.service.ts`) | `fondo_api_power` | create, list, decide | mail |
| Activities (`activities/`) | years, activities, payments | create year, create, patch, mark paid | users |
| Files (`files/`) | rows and storage objects | save, list, sign a URL | object store |
| Auth (`auth/`) | `authtoken_token` | login, authenticate, role and ownership guards | all controllers |
| Password reset (`password-reset/`) | none: a signed link over the password hash | request, confirm | users, mail |
| Mail, health, admin, schema guard | none | | |
| Request pipeline (`app.module.ts`, `common/http/`, `auth/guards/`) | the response and its pending header hooks, per request | seven middlewares, route, two guards, body interceptor, handler, exception filter | every controller; the role matrix |
| Multipart bodies (`common/http/django-multipart.ts`) | fields, files and counters, per body | split on the boundary, read a part, decode a field, find a file | the handlers that take files |
| Connection edge (`common/http/gunicorn-http-edge.ts`) | sockets it has taken over, heads being collected | recover a refused method, CONNECT, default error, timeout | Node's HTTP server, Express's router |
| Lists (`common/http/pagination.ts`) | none | count and page | loans, users, powers, CAPs |
| Amortization and dates (`loans/amortization.ts`, `common/utils/`) | none | rate, table, interests, relative dates | loans, scheduler, birthdays |
| JSON and text of Python, configuration, migrations | none | conversions | all controllers |

What makes each component correct:

* **Scheduler** — a task is handled by one process at a time and its work done at
  most once; work is lost only by a fault, one task per fault; a refused task is
  offered again; a repeating chain neither forks nor ends by itself; nothing runs
  before its day; what a request deleted does not come back; one task that always
  fails starves no other.
* **Loans** — two decisions on a loan never overwrite each other; states follow D9's
  table; a decided loan has its detail, the borrower is told once; the monthly file
  closes exactly the approved loans it leaves out; refinance links agree; a closed
  loan keeps no reminders; requests that wait for each other end.
* **CAPs** — closed on the end date, not before, once; a CAP nobody will close is
  the trace of a fault or of a reopening.
* **Users** — a role moves only by an administrator, or by an echo of what was read;
  total, utilized and available quota agree; the finance file is written whole or not
  at all; an account that was deactivated stays so; every account can be opened.
* **Notifications** — one row per endpoint unless two registrations raced; the sender
  of a message is told the truth about it, also when it was never tried; the message is
  on the queue twice only when an answer of SQS was lost.
* **Powers** — the letter to the fund takes the requester and another member.
* **Activities** — one year is enabled, the current one; an activity appears with all
  its charges.
* **Files** — a row has its object; an object without a row is the trace of a fault.
* **Auth, password reset** — one token per user whoever logs in first; a link changes
  its own account's password, and not after it was used.
* **Pipeline** — a handler runs for a client that may do this, whatever the path; an
  answer has the headers of the layers it passed.
* **Edge, bodies, lists, dates** — a request is answered once; a body arrives whole or is
  refused; a page's row is not lost between two pages; instalments and birthdays fall
  on their days.

The behaviours that are hard to test are the `hazards` of `PROJECT.json`, each at
its line, with the properties that would notice them going wrong. Two of them the code
takes as they are (a reminder that an upload creates for a loan being paid, and loans that
together exceed a quota), and no property speaks against them.

## 2. The modules

| Module | Contents |
|---|---|
| `Scheduler` | the task table, the runners, the requests that write it, crashes and lost answers |
| `TaskQueue` | what the scheduler promises of each task; `Scheduler` implements it |
| `MCScheduler` | instances of `Scheduler` |
| `SchedulerProofs` | proofs about `Scheduler`: types, claims, order, losses, and that it implements `TaskQueue` |
| `Loans` | applications, decisions, refinances and the monthly file as interleaved transactions |
| `LoanBook` | what the loan service promises, each request in one step; `Loans` implements it |
| `LoansProofs` | proofs about `Loans`, and that it implements `LoanBook` |
| `MCLoans` | instances of `Loans` |
| `CapClosing` | CAPs and their closing, over `TaskQueue` |
| `MCLive` | `Scheduler`, `Loans` and `CapClosing` under fairness |
| `AccessControl` | role matrix, ownership and the PATCH field policy; operators |
| `Members` | PATCH personal and finance, the finance file, the quota check of an application |
| `Accounts` | creation, activation, deactivation, login, password reset |
| `Powers` | powers of attorney |
| `Subscriptions` | push subscriptions, preferences, the publisher and its retries |
| `Activities` | years, activities and payments |
| `Files` | objects and rows |
| `MembersProofs` | proofs about `Members`, `Subscriptions` and `Activities` |
| `RecordsProofs` | proofs about `CapClosing`, `Files`, `Powers` and `Accounts` |
| `MCServices` | instances of the six services and of `CapClosing` |
| `ServicesProofs` | the properties of `MCServices`, from the proofs about its components |
| `MCMembers` | an instance of `Members` |
| `UrlConf` | the old system's patterns and Nest's routes; operators |
| `HttpPipeline` | a request through middlewares, guards, handler and filter |
| `PasswordPages` | the CSRF cookie and the open forms of the password pages |
| `Multipart` | how a multipart body is taken apart |
| `HttpEdge` | a connection that Node's parser has refused |
| `Lists` | walks over the paginated lists |
| `Dates` | relative dates, `days360`, rounding; operators |
| `Amortization` | rate, table, detail and projection of a loan |
| `Birthdays` | where saves and clones put a birthday task |
| `MCWeb` | instances of the seven above |
| `WebProofs` | proofs about `Lists`, `PasswordPages`, `HttpEdge`, `Amortization` and `Birthdays` |
| `PipelineProofs` | proofs about `HttpPipeline` |
| `MCWebProofs` | the properties of `MCWeb`, from the proofs about its components |

Operators whose comment starts with *Variant:* are not part of the models. Each is
the definition that follows it with one plausible bug; substituting it makes the
property it is paired with in `PROJECT.json` (`mutants`) fail.

### Scheduler

`job[id]` holds the columns no code updates; `unprocessed` and `processed` say which
rows are in the table. A row is inserted at the end of `job` and its id never reused,
as with the serial key. A runner's `pc` is the `await` it stands at:

| `pc` | In `scheduler.runner.ts` |
|---|---|
| `idle` | between passes (`waitForCompletion` forbids two in one process) |
| `loop` | at the top of `for (const task of due)` |
| `run` | the claim matched its row; in `executer.run` |
| `release` | the executer threw; before `tasks.release` |
| `clone` | the executer returned; in `createRepeatInstance` |

Each statement on the database is an action: `ClaimWon` and `ClaimLost` are the two
outcomes of `claim` (`UPDATE ... WHERE processed = false`, count 1 or 0), `ClaimFails`
the exception, with the update applied or not; likewise `Release`/`ReleaseFails` and
`Clone`/`CloneFails`. `Errored` is the outer `catch`. The rows of a due list may be
reached in any order, since `findDueUnprocessed` has no `ORDER BY`.

A request is a transaction (`tx[q]`): `BeginBirthday` is `updateUserPersonal` up to the
deletion of the old chain, `BeginReminders` the line of a monthly file up to its first
`scheduleNotification`, `BeginPayout` a payout's deletion. `ScheduleNotification` is
the dedupe read and the insert, and `Commit` makes everything visible. The row lock
each of them takes first (`auth_user`, `LoanDetail`, `Loan`) is `Free`; a row deleted
and not committed makes a claim of it wait (`Locked`). `ScheduleClose` is the CAP's
task, which is written outside any transaction.

`returned`, `parent`, `overlaps` and `summary` are history: which executers returned,
which row a row was cloned from, how often a birthdate edit met a row in a runner's
hands, and what the pass's counters counted. `TypeOK` also says that a pass has each row
of its list once (`OncePerPass`).

### Loans

`loan`, `detail` and `reminders` are what is committed. `req[q]` is a request: where
it stands in its handler, what it has read (`from`, `id`, `left`) and what it has
written and not committed (`rows`, `details`, `added`, `dropped`). Rows in `req[q].rows`
are locked: another update of them waits (`RowFree`), then evaluates its `WHERE` on
what was committed, as PostgreSQL does at `READ COMMITTED`. `PatchRead`, `CasWins`,
`CasLoses`, `PayParent`, `UpsertDetail`, `MailDecision`, `Unlink` and `Purge` follow
`updateLoanIn`; the file goes `FileBegin`, `Line` for each id, `ListApproved`, and then
`CloseRead`, `CasWins`, `Purge` for each loan it closes. A refinance is
three steps with no transaction. `Rollback` is any failure of a transaction, its time
limit included; mail that was sent stays sent.

### CapClosing

The scheduler appears through `TaskQueue`: `Take`, `Finish`, `Return` and `Drop` of the
close task, which `SchedulerProofs` shows the real scheduler does not exceed. Between
`Take` and `Finish` the executer runs `closeAccount`. `createAccount` is two
statements (`Create`, `Schedule`) with `ScheduleFails` between them, and `Put` may write any
state at any time. An orphan is a task whose account is gone, for which
`closeAccount` throws.

### The services

`Members`, `Accounts`, `Powers`, `Subscriptions`, `Activities` and `Files` are built
alike. A request `q` stands at `req[q].at`, before the statement of that name; each
action is one `await` of a handler with its early returns, whose status is the answer.
What it has read and will use later is in `req[q]` (for instance `was` in
`Subscriptions`: the preference as it was before the save). Transactions keep what they
have written in the record until `Commit`, and what they lock is waited for.

* `Members`: `PatchUser` is the role ceiling and the section gate, with the role the
  token guard loaded; `ReadProfile` and the field allowlist come before the transaction
  and `SavePersonal` writes every column, as the code does. `ReadFinance`, `SaveFinance`
  and `Line` recompute the available quota. A birthdate edit is in `Scheduler`, the
  preferences are in `Subscriptions`.
* `Accounts`: a password is the number of the write that stored it. `Invite` sends the
  mail inside the transaction that inserts; `CheckKey` and `Open` are the two halves of
  an activation, with the hash between them; a link's token is checked (`CheckLink`) on
  the row that was read and `SetPassword` writes by id. A browser holds one link cookie.
* `Activities`: `FindLast`, and the writes of the roll-over that follow it, are statements
  of their own and a `Crash` may come between; the clock may pass midnight of 31 December
  meanwhile. The other operations are transactions.
* `Files`: a call of the store may fail having been done.
* `Subscriptions`: `publish` may give up before its loop (`Unpublished`: no queue is
  configured, or the body cannot be encoded); otherwise each attempt is accepted, refused
  or accepted with its answer lost.

In these six modules `Ends` is the model's end of a request, not a function of the code.

### The web

* `UrlConf` keeps both tables as they are written; a path is its segments, taken from
  words that differ in what the patterns tell apart (digits, signed digits, letters, and
  the literals). `HttpPipeline` runs one request through the seven middlewares of
  `AppModule.configure` in their order, Nest's route, `TokenAuthGuard`, `RolesGuard`,
  `DrfParserInterceptor`, the handler and the filter. `resp.hooks` and `resp.floor` are
  `before-headers.ts`. An administrator may edit the client's row at any moment.
* `PasswordPages` has no server state: a browser, its tabs and its cookie. Secrets are
  one character, so `mask` and `unmask` are their arithmetic on one position.
* `Multipart` reads a body that was built from parts, symbol by symbol: a line end is two
  symbols, a header line and a separator one each. Bodies may be cut anywhere. A field is
  decoded as `forceText` does: a byte order mark in front is lost, and what is no text is
  replaced, which takes three bytes where the limits count a name. Parts without a
  disposition, without a name, and files whose name comes to nothing are left out without
  a word.
* `HttpEdge` cuts the head of a request into chunks anywhere; `owned`, `recoveries` and
  `finish` are the module's own, the parser's repeated refusal is Node's as the
  repository measured it.
* `Lists` is a client that reads page after page until the last it was told of, while
  rows and roles move. The count and the rows are two statements. A row that leaves can
  push one back over a page that was read, and one that arrives between the last page's
  statements can push one beyond it, so what may be missing is counted against these
  (`left`, `between`) and is never more. Only pages of two roles, of the two lists that
  depend on the role, are excused (`changed`).
* `Amortization` is exact, in integer fractions of a peso; `Birthdays` follows one
  member over three years, of which the days around the end of February are looked at.

### Composition

Components that share tables are composed where they meet: the requests that write tasks
are in `Scheduler`; a decision's reminders in `Loans`; `CapClosing` runs over `TaskQueue`,
which `Scheduler` implements; `Members` and `HttpPipeline` use `AccessControl`,
`HttpPipeline` uses `UrlConf`. The others share no table and no code. `MCServices`,
`MCWeb` and `MCLive` check such components in one run: `which` says whose behaviour it is,
the variables of the others are `{}`, and each property speaks of the behaviours of its
component. This adds the state spaces and multiplies nothing.

## 3. The runs

| Run | Instance | Question |
|---|---|---|
| `scheduler_faults` | 2 runners, 2 faults; a birthday chain and a request that edits it, or 4 rows (chain, malformed, unknown type, bad repeat) | exclusion, at-most-once, deletions that stay, loss and broken chains only by faults, the queue |
| `scheduler_web` | 2 runners, 2 concurrent requests, 2 writes, a birthday chain; or the 4 rows above and no request | chains, reminders, dates, refused repeats |
| `live` | 2 fair runners with a fault, a poison row and a request (the close tasks of CAPs are in the third instance); 2 fair requests over 2 loans; 2 CAPs, 1 PUT, 2 faults | every runnable row is run, every request ends, a due CAP is closed |
| `loans` | 3 loans (one approved and two to be created, or approved, waiting and denied), 4 requests, 2 at a time | decisions, details, mail, links, the file, the loan book |
| `services` | see `MCServices` | one question per service, and the two of PATCH |
| `web` | see `MCWeb` | routes and rights, headers, forms, bodies, answers, lists, dates |
| `scheduler_errored` | 1 runner, a row with repeat 7 | a documented meaning of `errored` that does not hold |
| `scheduler_skipped` | 1 runner, 1 request | a documented meaning of `skippedClaimed` that does not hold |
| `loans_unlink` | 2 loans, 2 requests | the link of a denied refinance |
| `members_role` | 2 members, 3 requests, 2 at a time | who can move a role |
| `powers_twice` | 2 members, 2 powers, 4 requests | a decision on a decided power |
| `files_stored` | 3 names, 3 uploads | what was answered 201 is listed |

The six passing runs explore between 120 thousand and 1.4 million states each, all of
their instances' states. They check 40 properties; each has a mutant of the code's
definitions, listed in `PROJECT.json`, that violates it under the same configuration.
A property of `MCServices` or `MCWeb` is the conjunction of what its component's module
states, where each conjunct has its comment.

**Bounds.** Two runners are enough for every interleaving on one row, since a step
involves at most two of them; a third would repeat what the second does. Two faults
let one fault hit what the other left (a release that fails after an executer failed).
Two requests at a time give every pair of transactions on one owner; four in all let a
loan be refinanced and both loans decided, a year be opened on both sides of a crash, a
power be asked for, decided twice and announced, and a link be used and used again.
Days 0 to 1 with steps of 1 and 2 days give rows before, on and after today. In `web`,
the paths are every route, every pattern and their neighbours in each segment, and the
other oddities of a request come two at a time, which is as many as any answer depends
on; lists have pages of two rows, three pages and one row; the parts of a body surround
each limit by one; terms surround each band of the rate, dates the ends of months and of
a leap February. `MaxDay`, `MaxWrites`, `MaxFaults`, `MaxRequests`, `MaxPuts`, `MaxLines`,
`MaxLinks`, `MaxCrashes`, `MaxYear`, `MaxEdits`, `MaxMoves`, `MaxVisits`, `MaxSaves` bound the
counters; `RowLeft` keeps a loan row for each refinance under way.
The runs of the scheduler and of the loans, `services` and `members_role` are symmetric
in the runners or the requests; `live` uses no symmetry.

**Deadlock** is not checked: the days, the requests and the faults of an instance run
out, and the system may then have nothing to do. That requests do not block each
other for ever is `RequestsEnd`.

**Fairness.** A deployed runner keeps running (cron fires twice a day, and no statement
waits for ever, as transactions end at 20 s or 120 s), so each runner and each open
transaction is weakly fair. Nothing is assumed of faults, of requests that have not
begun or of administrators. In `Loans` the time limit itself is the fair action
(`Rollback`), which is what ends two transactions that wait for each other's rows. In
`CapClosing` the scheduler's fairness is that a due task is run, which is `EventuallyRun`.
`MCLive` states these assumptions, and the liveness properties of the three modules, for
the behaviours of each instance.

### What the violated runs show

* `SchedulerRunSummary.errored` is documented as rows whose executer threw and whose
  claim was released. It also counts rows whose executer *returned* and whose repeat was
  refused (`scheduler_errored`); these stay processed.
* `skippedClaimed`, and the warning that two processes are flagged, also appear with
  one process, when a request deletes a row between the read and the claim.
* `refinanceLoan` links the parent after it has created the refinance. A denial that
  commits in between clears nothing, and the parent stays linked to a denied loan
  (`loans_unlink`).
* A PATCH of one's own profile echoes the role it has read. When an administrator's
  change of that role commits between the read and the write, the echo writes the old
  role back (`members_role`): the member's request moved the role.
* `updatePower` checks the state it has read and updates by id: of two decisions that
  read the power while it was pending, the second overwrites the first (`powers_twice`).
* `saveFile` decides on the *object* whether to insert the *row*. After an upload whose
  insert failed, later uploads of that path are answered 201 and never listed
  (`files_stored`).

### Known limits of the code, which the properties state as they are

* A refinance's approval pays its parent without a guard (`LoanBook` allows it by name),
  and without clearing its reminders; a file schedules reminders for loans that are
  closed, or being closed meanwhile, as its tests ask (D33; `leftover` in
  `PaidKeepsNoReminder`).
* Loans are checked against the quota that was read; it may have moved, and several loans
  may together exceed it (`LoanFitsUnlessMoved`).
* A birthdate edit that meets a claimed row leaves two chains (`overlaps`).
* Two registrations of one endpoint at once leave two rows (`raced`), which no
  unsubscribe removes any more (it answers 500).
* Two submissions of one reset link that are both checked before either writes are both
  written (`UsedLinkIsRefused` speaks of links whose check comes after a use); and a login
  does not touch `last_login`, so it leaves the links issued before it valid.
* The subscriptions are wiped on the preference as it was read before the save; a second
  PATCH in between may turn notifications off and wipe nothing.
* An upload past D46's check may store an object of one name under both types.
* On a connection that has already carried an answer, a request that Node itself
  refuses is closed without one (`OneAnswerEach` names it).
* A field of a multipart body that begins with a byte order mark loses it: `forceText` says
  that it is Django's `force_text`, which keeps the mark, and `TextDecoder` does not
  (`ArrivesWholeOrNotAtAll` speaks of the text it makes).
* The year of a member's very first save, made on the birthday itself, may go by
  unannounced (`NoBirthdayMissed` says when).

## 4. What is proved

A theorem holds for any sets and bounds that satisfy the module's `ConstantsAssumption`,
which says no more than that bounds are numbers (at least one attempt, one year, one id),
that markers such as `Nobody` and `None` are no members or loans, that a legacy row of the
scheduler has no parent and a step moves at least a day, that the sets which are counted are
finite, that there is a file name in lower case, that identifications differ at the start
(the column is unique), that requests and header lines have the form of one, and that
birthdates are dates around the end of February, which are the days of a year that the clock
of `Birthdays` stops at. Every module with such an assumption is an instance of some run,
where TLC evaluates it.

Each proof has one inductive invariant, one lemma per action that keeps it, and the
properties as consequences. The invariants differ from the properties, and this is where
each says why the code is right:

* **Scheduler.** `ClaimInv` is `TypeOK` (with `OncePerPass`), `ClaimExcludes`, `HeldIsProcessed`
  and `ReturnedIsFinal`, none of which is inductive alone: exclusion needs that a held row is
  not unprocessed (or a second claim could match it); that needs exclusion (or a release by
  a second holder would offer it again); and that a finished row is not offered needs both. That a deleted row stays so
  (`DeletedForGood`) is an action property over the types: a release is an update.
  `OrderInv` adds that what a pass has loaded is due, that what a transaction is about to
  insert has no parent and that the row a runner is about to clone has no clone: so nothing
  runs before its day and no chain forks at a row (`TasksRunInOrder`). `LossInv` adds the
  count: `Stranded` rows and `BrokenChains` grow by one element at most in a step, and in a
  step of a fault only (`LossIsCounted`); each step is shown to leave the set of lost rows
  within the old one, or within it and the row at hand.
  `ReminderInv` is about the transactions: a row lock leaves one of an operation on an owner,
  a transaction of reminders deletes none and adds none it has read or added, and without a
  fault a runner gives back a malformed row only; so no reminder of a day waits twice
  (`NoReminderTwice`). `ChainInv` counts, for each edit of a birthdate that is open, the chains
  it has not deleted: they are those a runner holds, and if there is one the edit has counted
  as overlapped; a clone takes the place of the row it follows (`OneChainEach`, whatever faults
  occur). Both theorems say what they need of the rows the table holds at first: a reminder is
  there once and does not repeat (`LegacyReminders`), a member has one birthday
  (`LegacyBirthdays`). The tables of the runs are such.
* **Scheduler implements TaskQueue** (`Implementation`). `NextRefines` has one case per
  group of actions: a claim is `Take`, a returning executer `Finish`, a release `Return`, a
  crash or a failed release `Drop` (or `Return` to *gone* when a request has deleted the row
  meanwhile), an insertion or a commit `Edit`, and the rest stutter.
* **Loans.** `LoansInv` says, request by request, how what it has written and not committed
  differs from what is committed (`PatchOK`, `FileOK`, `RefinanceOK`), that no two requests
  have locked one row (`LocksOK`), and that a loan which replaces another replaces one with
  a detail (`LinksOK`). `BooksAgree` alone is not inductive: it holds after a commit because
  of what stood in the locked rows before. `ListedOK` (what the lines of a file have become),
  `MailsOK` (a mail counted and not undone is a decision committed or about to be) and
  `RemindersOK` (a reminder of a loan being closed goes with it) carry the three other
  properties over it.
* **Loans implements LoanBook** (`LoansImplementBook`). A request takes effect at its commit,
  in one step of the book; its statements stutter. A refinance, which is no transaction, is
  two stutters around the step that opens its loan.
* **CapClosing.** `CapSafe` ties a taken task to a day that has come and counts an account's
  closings against its openings. `UndrivenNeedsCause` counts accounts in a state that can be
  entered by finishing a task; `Unhandled` counts them as soon as the task has run, so that
  only a fault or a reopening adds one.
* **Files.** `FilesInv` remembers for whom an object without a row is waiting.
* **Powers.** A decision writes without looking at the state again. `PowersInv` says that a
  power never becomes pending again, that all who have read it so are still to write, and
  that only those who are done with it can have announced it (`Heard`).
* **Accounts.** `AccountsInv` rests on what never goes back (`Grows`): a row stays, its
  username stays, a password is only replaced by a later one, a link keeps its account and
  its hash. `InsertsApart` is that the transactions inserting accounts hold ids and usernames
  nobody else has.
* **Subscriptions.** `SubInv`: whoever is about to insert an endpoint has found no row of
  it, so that a second row takes a second request at the same statement, which is a race;
  the copies of a message are counted against its attempts and the lost answers, and a
  message given up before its first attempt has neither.
* **Activities.** `ActInv`: as long as no request straggles, no year after the current one
  has a row, and what a request is about to disable covers every enabled year but its own,
  so that its insert finds none (`OpensYear`). Members that were active during the whole of a
  creation are among those it has read, and those among the ones that were active at some
  time of it (`Creates`); no two creations have one id (`CreatesApart`), or the second commit
  would find an activity that is there.
* **Members.** `MemInv` keeps with a request the outcome of the checks it has passed: a save
  is an administrator's or equals what was seen in the privileged fields (`FieldGate` proves
  it of the policy's operators), an insert is within the quota that was seen.
* **HttpPipeline.** `PipeInv` says, for each place a request may stand at, what it has passed
  to get there: what the middlewares have left on the response so far, that the route Nest
  found serves the path the old patterns aimed at it, and, behind the guards, that a role was
  one the client had with a key while active. `HandlersAreReachedByRight` rests on the last:
  an administrator may overtake a guard, so it speaks of the states the client's row was in
  since the request arrived (`seen`). That the two route tables agree is a lemma on the tables.
* **Lists.** `ListInv`: of the rows that have stayed and were not shown, no more than have left
  have fewer rows ahead of them than the client has read (`Passed`): an arrival adds none to
  them and a departure one at most, for one row at most stands right at the end of what was read
  (`OneLess`). On the last page nothing stays unread but what arrived since its count
  (`NothingPassed`). Every row that was shown has fewer ahead of it (`ShownBehind`), which an
  arrival may undo.
* **PasswordPages.** `PagesInv`: a form that is no orphan is taken with the cookie as it is
  now (`Goes`), and one that is under way with the cookie it was sent with.
* **HttpEdge.** `EdgeInv` says, of a connection that is open, which half of the server has it
  (`TakenOver`), that what was received and what is to come make the request (`Reading`,
  `Recovering`), and that what is answered, what is dispatched and the requests so far differ
  by one at most (`Counted`). What Express has is the request as it was sent (`Given`).
* **Amortization.** `AmoInv`: a row is what its place says (`RowOf`), and the detail what the
  rows say. Under it are the calendar (`MonthsAdded`: a date moved by months keeps its day or
  is the last of its month; `DaysBetween`: two such dates are 30 days a month apart by
  `days360`, or less by two at most, about a February) and the sum of the payments, which is
  at least the loan and its first interests.
* **Birthdays.** `BirInv` has one row that waits, and says where it may stand against the
  clock: this year's is still to come, is today's, or is yesterday's until the first pass (of
  a save that was computed before the day's last pass and committed after it); next year's
  only when this year's was announced or is not owed. Under it is the calendar: `DayFound`
  proves that `fromDateColumn` inverts the count of days, through the eras of 400 years as the
  code divides them, and `NumAfter` that no date lies between a day and the day after it.

The sum of the payments needs induction over data, with which the library's induction
theorems do not help (they take an operator). It is proved through `WFMin`: were there a
number of rows it fails for, there would be a least one.

`ServicesProofs` carries these to the properties of `MCServices`: each proof is instantiated
with the constants of the run, `which` never changes, and a behaviour of the run is one of
the component it names. `MCWebProofs` does the same for `MCWeb`, where the lists are four
instances of one proof. So every invariant and every action property of `services`, and every
one of `web` but one, is a theorem too; what TLC adds is that the interesting states are
reached, and that mutants of the code are caught.

Model-checked only: the liveness properties of `live` (fairness and `ENABLED` are out of the
prover's reach) and `ArrivesWholeOrNotAtAll` of `Multipart`: the body and what is read
of it are folds and selections over sequences (`FoldLeft`, `SelectSeq`), whose library
definitions take operators that the prover cannot instantiate.

## 5. Plan

Done: all the modules of section 2, and the proofs of section 4.

Theorems still worth proving:

1. `Multipart`: `ArrivesWholeOrNotAtAll`, with the folds written as recursive functions of
   the part's number and the proof by least counterexample that the sum of the payments has.
2. `AccessControl`: the matrix agrees with the capture of the old system.

## 6. Not modelled

* `python-json.ts`, `python-str.ts`, `python-obj.ts` and the serialisers: conversions of
  characters and values with no order of events in them. The model would restate them
  line by line.
* Configuration, health, admin, the schema guard and the migrations: no concurrent state.
  The paths of health and admin are among those of `HttpPipeline`.
* `Decimal`'s 28 digits: `Amortization` is exact, and where the two differ is half a peso's
  last digit. The European method of `days360`, which nothing calls, is left out.
* Pipelined requests: a client of `HttpEdge` sends one at a time. Routers mounted inside
  Express's router: the application has none.
* The cells of the two spreadsheets: a line is well formed or not, and names a row or not.
* The text of mails and messages and their recipients, wherever no property depends on
  them. PostgreSQL (row locks, statement snapshots, atomic commit), SES, SQS, the object
  store and Node's parser are external; their definitions in the map are marked so.
