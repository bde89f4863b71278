--------------------------- MODULE SchedulerProofs ---------------------------
(***************************************************************************)
(* Proofs about Scheduler, for any number of runners, requests, rows,      *)
(* days and faults.                                                        *)
(***************************************************************************)
EXTENDS Scheduler, SequenceTheorems, FiniteSetTheorems, TLAPS

LEMMA Constants ==
    /\ Owners # {}
    /\ Step \in [1..4 -> Nat \ {0}]
    /\ Leads \subseteq Nat
    /\ Legacy \in Seq(Row)
    /\ MaxDay \in Nat /\ MaxWrites \in Nat /\ MaxFaults \in Nat
  BY ConstantsAssumption DEF ConstantsAssumption

LEMMA SuccessorType ==
    ASSUME NEW id \in Ids, job \in Seq(Row), Repeats(id)
    PROVE  Successor(id) \in Row
  <1>1. job[id] \in Row
    BY DEF Ids
  <1>2. Step[job[id].repeat] \in Nat
    BY <1>1, Constants DEF Repeats
  <1>3. job[id].date \in Nat
    BY <1>1 DEF Row
  <1>4. job[id].date + Step[job[id].repeat] \in Nat
    BY <1>2, <1>3
  <1>5. id \in Nat
    BY DEF Ids
  <1>6. \A row \in Row, d, p \in Nat : [row EXCEPT !.date = d, !.parent = p] \in Row
    BY DEF Row
  <1> HIDE DEF Row
  <1> QED
    BY <1>1, <1>4, <1>5, <1>6 DEF Successor

LEMMA NewRowType ==
    ASSUME NEW kind \in Kinds, NEW o \in Owners, NEW d \in Nat
    PROVE  NewRow(kind, o, d) \in Row
  BY DEF NewRow, Row, Types, KnownTypes, Yearly

LEMMA NoTxType == NoTx \in Tx /\ NoTx.drop = {}
  <1>1. (CHOOSE o \in Owners : TRUE) \in Owners
    BY Constants
  <1>2. <<>> \in Seq(Row)
    OBVIOUS
  <1> QED
    BY <1>1, <1>2 DEF NoTx, Tx, Ops

\* What a step of runner r may do to its own variables.
LEMMA SummaryType ==
    ASSUME NEW r \in Runners, NEW i \in Nat, summary \in [Runners -> Summary]
    PROVE  /\ [summary EXCEPT ![r].errored = @ \cup {i}] \in [Runners -> Summary]
           /\ [summary EXCEPT ![r].skippedClaimed = @ \cup {i}] \in [Runners -> Summary]
           /\ [summary EXCEPT ![r] = NoSummary] \in [Runners -> Summary]
  BY DEF Summary, NoSummary

\* A pass handles a row once: what is done with a row takes it off the list, or
\* out of the runner's hands.
Once(p, d, c, m) ==
    /\ c # 0 => c \notin d \cup m.errored \cup m.skippedClaimed
    /\ d \cap m.errored = {}
    /\ d \cap m.skippedClaimed = {}
    /\ m.errored \cap m.skippedClaimed = {}
    /\ p = "idle" => d = {} /\ m = NoSummary

LEMMA OnceEach == OncePerPass <=> \A r \in Runners : Once(pc[r], due[r], cur[r], summary[r])
  BY DEF OncePerPass, Once

LEMMA OnceCount ==
    ASSUME NEW c, NEW d, NEW m \in Summary, Once("loop", d, 0, m), c \notin d, c # 0,
           c \notin m.errored, c \notin m.skippedClaimed, 0 \notin d
    PROVE  /\ Once("loop", d, 0, [m EXCEPT !.errored = @ \cup {c}])
           /\ Once("loop", d, 0, [m EXCEPT !.skippedClaimed = @ \cup {c}])
           /\ \A p \in {"loop", "run", "release", "clone"} : Once(p, d, c, m)
  BY DEF Once, Summary

LEMMA RunnerKeepsOncePerPass ==
    ASSUME TypeOK, NEW r \in Runners, RunnerStep(r) \/ RunnerFault(r)
    PROVE  OncePerPass'
  <1>0. /\ \A s \in Runners : Once(pc[s], due[s], cur[s], summary[s])
        /\ due[r] \subseteq Ids /\ 0 \notin Ids
        /\ summary \in [Runners -> Summary] /\ due \in [Runners -> SUBSET Ids]
        /\ cur \in [Runners -> Ids \cup {0}]
        /\ pc \in [Runners -> {"idle", "loop", "run", "release", "clone"}]
        /\ cur[r] = 0 <=> pc[r] \in {"idle", "loop"}
        /\ summary[r] \in Summary
    BY OnceEach DEF TypeOK, Ids
  <1>1. ASSUME \A s \in Runners \ {r} :
                   /\ pc'[s] = pc[s] /\ due'[s] = due[s]
                   /\ cur'[s] = cur[s] /\ summary'[s] = summary[s],
               Once(pc'[r], due'[r], cur'[r], summary'[r])
        PROVE  OncePerPass'
    <2>1. \A s \in Runners : Once(pc'[s], due'[s], cur'[s], summary'[s])
      BY <1>0, <1>1, Zenon
    <2> QED
      BY <2>1 DEF OncePerPass, Once
  <1>2. CASE StartPass(r)
    <2>1. /\ pc' = [pc EXCEPT ![r] = "loop"] /\ cur' = cur /\ summary' = summary
          /\ due' = [due EXCEPT ![r] = DueUnprocessed] /\ pc[r] = "idle"
      BY <1>2 DEF StartPass
    <2>2. DueUnprocessed \subseteq Ids
      BY DEF DueUnprocessed, TypeOK
    <2>3. summary[r] = NoSummary /\ cur[r] = 0
      BY <1>0, <2>1 DEF Once
    <2>4. Once("loop", DueUnprocessed, 0, NoSummary)
      BY <1>0, <2>2 DEF Once, NoSummary
    <2> QED
      BY <1>0, <1>1, <2>1, <2>3, <2>4
  <1>3. ASSUME NEW id \in due[r], pc[r] = "loop", pc' = pc, cur' = cur,
               due' = [due EXCEPT ![r] = @ \ {id}],
               \/ summary' = [summary EXCEPT ![r].errored = @ \cup {id}]
               \/ summary' = [summary EXCEPT ![r].skippedClaimed = @ \cup {id}]
        PROVE  OncePerPass'
    <2>1. /\ id # 0 /\ id \notin summary[r].errored /\ id \notin summary[r].skippedClaimed
          /\ cur[r] = 0 /\ Once("loop", due[r] \ {id}, 0, summary[r])
      BY <1>0, <1>3 DEF Once
    <2>2. /\ Once("loop", due[r] \ {id}, 0, [summary[r] EXCEPT !.errored = @ \cup {id}])
          /\ Once("loop", due[r] \ {id}, 0, [summary[r] EXCEPT !.skippedClaimed = @ \cup {id}])
      BY <1>0, <2>1, OnceCount
    <2>3. /\ due'[r] = due[r] \ {id} /\ cur'[r] = 0 /\ pc'[r] = "loop"
          /\ summary'[r] \in {[summary[r] EXCEPT !.errored = @ \cup {id}],
                               [summary[r] EXCEPT !.skippedClaimed = @ \cup {id}]}
      BY <1>0, <1>3, <2>1
    <2>4. \A s \in Runners \ {r} : /\ pc'[s] = pc[s] /\ due'[s] = due[s]
                                   /\ cur'[s] = cur[s] /\ summary'[s] = summary[s]
      BY <1>0, <1>3
    <2>5. Once(pc'[r], due'[r], cur'[r], summary'[r])
      BY <2>2, <2>3, Zenon
    <2> QED
      BY <1>1, <2>4, <2>5
  <1>4. ASSUME NEW id \in due[r], ClaimWon(r, id) PROVE OncePerPass'
    <2>1. /\ pc[r] = "loop" /\ pc' = [pc EXCEPT ![r] = "run"] /\ cur' = [cur EXCEPT ![r] = id]
          /\ due' = [due EXCEPT ![r] = @ \ {id}] /\ summary' = summary
      BY <1>4 DEF ClaimWon
    <2>2. Once("run", due[r] \ {id}, id, summary[r])
      BY <1>0, <1>4 DEF Once
    <2> QED
      BY <1>0, <1>1, <2>1, <2>2
  <1>5. ASSUME NEW p \in {"run", "release", "clone"}, pc[r] \in {"run", "release", "clone"},
               pc' = [pc EXCEPT ![r] = p], UNCHANGED <<due, cur, summary>>
        PROVE  OncePerPass'
    <2>1. Once(p, due[r], cur[r], summary[r])
      BY <1>0, <1>5 DEF Once
    <2> QED
      BY <1>0, <1>1, <1>5, <2>1
  <1>6. ASSUME pc[r] \in {"run", "release", "clone"}, pc' = [pc EXCEPT ![r] = "loop"],
               cur' = [cur EXCEPT ![r] = 0], due' = due,
               \/ summary' = summary
               \/ summary' = [summary EXCEPT ![r].errored = @ \cup {cur[r]}]
        PROVE  OncePerPass'
    <2>1. /\ cur[r] # 0 /\ cur[r] \notin due[r] /\ 0 \notin due[r]
          /\ cur[r] \notin summary[r].errored /\ cur[r] \notin summary[r].skippedClaimed
          /\ Once("loop", due[r], 0, summary[r])
      BY <1>0, <1>6 DEF Once, Summary
    <2>2. Once("loop", due[r], 0, [summary[r] EXCEPT !.errored = @ \cup {cur[r]}])
      BY <1>0, <2>1, OnceCount
    <2>3. /\ due'[r] = due[r] /\ cur'[r] = 0 /\ pc'[r] = "loop"
          /\ summary'[r] \in {summary[r], [summary[r] EXCEPT !.errored = @ \cup {cur[r]}]}
      BY <1>0, <1>6
    <2>4. \A s \in Runners \ {r} : /\ pc'[s] = pc[s] /\ due'[s] = due[s]
                                   /\ cur'[s] = cur[s] /\ summary'[s] = summary[s]
      BY <1>0, <1>6
    <2>5. Once(pc'[r], due'[r], cur'[r], summary'[r])
      BY <2>1, <2>2, <2>3, Zenon
    <2> QED
      BY <1>1, <2>4, <2>5
  <1>7. CASE EndPass(r) \/ Crash(r)
    <2>1. /\ pc'[r] = "idle" /\ due'[r] = {} /\ cur'[r] = 0 /\ summary'[r] = NoSummary
          /\ \A s \in Runners \ {r} : /\ pc'[s] = pc[s] /\ due'[s] = due[s]
                                      /\ cur'[s] = cur[s] /\ summary'[s] = summary[s]
      BY <1>0, <1>7 DEF EndPass, Crash
    <2>2. Once("idle", {}, 0, NoSummary)
      BY DEF Once, NoSummary
    <2> QED
      BY <1>1, <2>1, <2>2
  <1>8. ASSUME NEW id \in due[r], UnknownType(r, id) \/ ClaimLost(r, id) \/ ClaimFails(r, id)
        PROVE  OncePerPass'
    BY <1>3, <1>8 DEF UnknownType, ClaimLost, ClaimFails
  <1>9. CASE ExecuterReturns(r) \/ ExecuterRejects(r) \/ ExecuterFails(r)
    BY <1>5, <1>9 DEF ExecuterReturns, ExecuterRejects, ExecuterFails
  <1>10. CASE Release(r) \/ NoRepeat(r) \/ Clone(r) \/ RepeatRefused(r)
              \/ ReleaseFails(r) \/ CloneFails(r)
    BY <1>6, <1>10 DEF Release, NoRepeat, Clone, RepeatRefused, ReleaseFails, CloneFails, Errored
  <1> QED
    BY <1>2, <1>4, <1>7, <1>8, <1>9, <1>10, Zenon DEF RunnerStep, RunnerFault

LEMMA InitTypeOK == Init => TypeOK
  <1> SUFFICES ASSUME Init PROVE TypeOK
    OBVIOUS
  <1>1. NoSummary \in Summary
    BY DEF NoSummary, Summary
  <1>2. Len(job) \in Nat /\ Ids = 1..Len(Legacy)
    BY Constants DEF Init, Ids
  <1>3. OncePerPass
    BY DEF Init, OncePerPass, NoSummary
  <1> QED
    BY <1>1, <1>2, <1>3, NoTxType, Constants DEF Init, TypeOK

LEMMA RunnerStepTypeOK ==
    ASSUME TypeOK, NEW r \in Runners, RunnerStep(r)
    PROVE  TypeOK'
  <1>once. OncePerPass'
    BY RunnerKeepsOncePerPass
  <1> USE <1>once DEF TypeOK
  <1>0. /\ Len(job) \in Nat /\ Ids \subseteq Nat /\ 0 \notin Ids
        /\ unprocessed \subseteq Nat /\ due[r] \subseteq Ids
    BY DEF Ids
  <1>1. CASE StartPass(r)
    <2>1. DueUnprocessed \subseteq Ids
      BY DEF DueUnprocessed
    <2> QED
      BY <1>1, <2>1 DEF StartPass, table, web, Ids
  <1>2. ASSUME NEW id \in due[r], UnknownType(r, id) PROVE TypeOK'
    BY <1>0, <1>2, SummaryType DEF UnknownType, table, web, Ids
  <1>3. ASSUME NEW id \in due[r], ClaimWon(r, id) PROVE TypeOK'
    BY <1>0, <1>3 DEF ClaimWon, web, Ids
  <1>4. ASSUME NEW id \in due[r], ClaimLost(r, id) PROVE TypeOK'
    BY <1>0, <1>4, SummaryType DEF ClaimLost, table, web, Ids
  <1>5. CASE ExecuterReturns(r)
    BY <1>0, <1>5 DEF ExecuterReturns, web, Ids
  <1>6. CASE ExecuterRejects(r)
    BY <1>0, <1>6 DEF ExecuterRejects, table, web, Ids
  <1>7. CASE Release(r)
    BY <1>0, <1>7, SummaryType DEF Release, Errored, Present, web, Ids
  <1>8. CASE NoRepeat(r)
    BY <1>0, <1>8 DEF NoRepeat, table, web, Ids
  <1>9. CASE Clone(r)
    <2>1. cur[r] \in Ids
      BY <1>9 DEF Clone
    <2>2. job' = Append(job, Successor(cur[r])) /\ Successor(cur[r]) \in Row
      BY <1>9, <2>1, SuccessorType DEF Clone
    <2>3. job' \in Seq(Row) /\ Len(job') = Len(job) + 1
      BY <2>2
    <2>4. Len(job) + 1 \in Ids' /\ Ids \subseteq Ids' /\ Len(job) + 1 \notin Ids
      BY <1>0, <2>3 DEF Ids
    <2> HIDE DEF Ids
    <2> QED
      BY <1>0, <1>9, <2>3, <2>4 DEF Clone, web
  <1>10. CASE RepeatRefused(r)
    BY <1>0, <1>10, SummaryType DEF RepeatRefused, Errored, web, Ids
  <1>11. CASE EndPass(r)
    BY <1>0, <1>11, SummaryType DEF EndPass, table, web, Ids
  <1> QED
    BY <1>1, <1>2, <1>3, <1>4, <1>5, <1>6, <1>7, <1>8, <1>9, <1>10, <1>11, Zenon DEF RunnerStep

LEMMA RunnerFaultTypeOK ==
    ASSUME TypeOK, NEW r \in Runners, RunnerFault(r)
    PROVE  TypeOK'
  <1>once. OncePerPass'
    BY RunnerKeepsOncePerPass
  <1> USE <1>once DEF TypeOK
  <1>0. /\ Len(job) \in Nat /\ Ids \subseteq Nat /\ 0 \notin Ids
        /\ unprocessed \subseteq Nat /\ due[r] \subseteq Ids
        /\ MaxFaults \in Nat
    BY Constants DEF Ids
  <1>1. Fault => faults' \in 0..MaxFaults
    BY <1>0 DEF Fault
  <1>2. ASSUME NEW id \in due[r], ClaimFails(r, id) PROVE TypeOK'
    BY <1>0, <1>1, <1>2, SummaryType DEF ClaimFails, web, Ids
  <1>3. CASE ExecuterFails(r)
    BY <1>0, <1>1, <1>3 DEF ExecuterFails, table, web, Ids
  <1>4. CASE ReleaseFails(r)
    BY <1>0, <1>1, <1>4, SummaryType DEF ReleaseFails, Errored, web, Ids
  <1>5. CASE CloneFails(r)
    <2>1. cur[r] \in Ids /\ cur[r] \in Nat /\ Fault /\ Errored(r) /\ processed' = processed
      BY <1>0, <1>5 DEF CloneFails
    <2>2. summary' \in [Runners -> Summary]
      BY <2>1, SummaryType DEF Errored
    <2>3. CASE UNCHANGED <<job, unprocessed>>
      BY <1>0, <1>1, <2>1, <2>2, <2>3 DEF Errored, web, Ids
    <2>4. CASE /\ job' = Append(job, Successor(cur[r]))
               /\ unprocessed' = unprocessed \cup {Len(job) + 1}
      <3>1. job' \in Seq(Row) /\ Len(job') = Len(job) + 1
        BY <1>5, <2>1, <2>4, SuccessorType DEF CloneFails
      <3>2. Len(job) + 1 \in Ids' /\ Ids \subseteq Ids' /\ Len(job) + 1 \notin Ids
        BY <1>0, <3>1 DEF Ids
      <3> HIDE DEF Ids
      <3> QED
        BY <1>0, <1>1, <2>1, <2>2, <2>4, <3>1, <3>2 DEF Errored, web
    <2> QED
      BY <1>5, <2>3, <2>4 DEF CloneFails
  <1>6. CASE Crash(r)
    BY <1>0, <1>1, <1>6, SummaryType DEF Crash, table, web, Ids
  <1> QED
    BY <1>2, <1>3, <1>4, <1>5, <1>6, Zenon DEF RunnerFault

LEMMA QuietOncePerPass == TypeOK /\ UNCHANGED runner => OncePerPass'
  BY DEF TypeOK, OncePerPass, runner

LEMMA BeginTypeOK ==
    ASSUME TypeOK, NEW q \in Requests, NEW op \in Ops, NEW o \in Owners,
           NEW todo \in SUBSET Nat, NEW drop \in SUBSET Ids,
           Begin(q, op, o, todo, drop), overlaps' \in Nat
    PROVE  TypeOK'
  <1>once. OncePerPass'
    BY QuietOncePerPass DEF Begin
  <1> USE <1>once
  <1>1. writes' \in 0..MaxWrites
    BY Constants DEF TypeOK, Begin, Web
  <1>2. <<>> \in Seq(Row) /\ Ids \subseteq Nat
    BY DEF Ids
  <1>3. [op |-> op, owner |-> o, todo |-> todo, drop |-> drop, add |-> <<>>] \in Tx
    BY <1>2 DEF Tx
  <1> QED
    BY <1>1, <1>3 DEF TypeOK, Begin, table, runner, Ids

LEMMA WebStepTypeOK ==
    ASSUME TypeOK, NEW q \in Requests, WebStep(q)
    PROVE  TypeOK'
  <1>once. OncePerPass'
    BY QuietOncePerPass DEF WebStep, BeginBirthday, BeginReminders, BeginPayout, Begin,
                            ScheduleNotification, Commit, Rollback
  <1> USE <1>once
  <1>0. /\ Members \subseteq Owners /\ Loans \subseteq Owners
        /\ \A k \in Kinds, o \in Owners : RowsOf(k, o) \in SUBSET Ids
    BY DEF Owners, RowsOf, Present, TypeOK
  <1>1. ASSUME NEW m \in Members, BeginBirthday(q, m) PROVE TypeOK'
    <2>1. PICK d \in day..(day + Step[Yearly]) :
              /\ Begin(q, "birthday", m, {d}, RowsOf("birthdate", m))
              /\ overlaps' = IF HeldKind("birthdate", m) THEN overlaps + 1 ELSE overlaps
      BY <1>1 DEF BeginBirthday
    <2>2. Step[Yearly] \in Nat /\ day \in Nat
      BY Constants DEF Yearly, TypeOK
    <2>3. d \in Nat /\ overlaps' \in Nat
      BY <2>1, <2>2 DEF TypeOK
    <2> QED
      BY <1>0, <2>1, <2>3, BeginTypeOK DEF Ops, Kinds
  <1>2. ASSUME NEW l \in Loans, BeginReminders(q, l) PROVE TypeOK'
    <2>1. PICK payday \in 0..MaxDay :
              /\ Begin(q, "reminders", l, {payday - k : k \in {k \in Leads : k <= payday}}, {})
              /\ UNCHANGED overlaps
      BY <1>2 DEF BeginReminders
    <2>2. {payday - k : k \in {k \in Leads : k <= payday}} \in SUBSET Nat
      BY Constants
    <2>3. overlaps' \in Nat
      BY <2>1 DEF TypeOK
    <2> QED
      BY <1>0, <2>1, <2>2, <2>3, BeginTypeOK DEF Ops
  <1>3. ASSUME NEW l \in Loans, BeginPayout(q, l) PROVE TypeOK'
    BY <1>0, <1>3, BeginTypeOK DEF BeginPayout, Ops, Kinds, TypeOK
  <1>4. CASE ScheduleNotification(q)
    <2>0. tx[q] \in Tx
      BY DEF TypeOK
    <2>1. PICK d \in tx[q].todo :
             \E add \in {tx[q].add, Append(tx[q].add, NewRow(KindOf(tx[q].op), tx[q].owner, d))} :
                /\ tx' = [tx EXCEPT ![q].todo = @ \ {d}, ![q].add = add]
                /\ UNCHANGED <<table, day, runner, overlaps, writes, faults>>
      BY <1>4 DEF ScheduleNotification
    <2>a. PICK add \in {tx[q].add, Append(tx[q].add, NewRow(KindOf(tx[q].op), tx[q].owner, d))} :
             /\ tx' = [tx EXCEPT ![q].todo = @ \ {d}, ![q].add = add]
             /\ UNCHANGED <<table, day, runner, overlaps, writes, faults>>
      BY <2>1
    <2>2. NewRow(KindOf(tx[q].op), tx[q].owner, d) \in Row
      BY <2>0, <2>1, NewRowType DEF KindOf, Kinds, Tx
    <2>3. add \in Seq(Row)
      <3>1. tx[q].add \in Seq(Row)
        BY <2>0 DEF Tx
      <3>2. Append(tx[q].add, NewRow(KindOf(tx[q].op), tx[q].owner, d)) \in Seq(Row)
        BY <2>2, <3>1
      <3> QED
        BY <2>a, <3>1, <3>2
    <2>4. tx' = [tx EXCEPT ![q] = [tx[q] EXCEPT !.todo = @ \ {d}, !.add = add]]
      BY <2>a
    <2>5. /\ [tx[q] EXCEPT !.todo = @ \ {d}, !.add = add] \in Tx
          /\ [tx[q] EXCEPT !.todo = @ \ {d}, !.add = add].drop = tx[q].drop
      BY <2>0, <2>3 DEF Tx
    <2>6. tx' \in [Requests -> Tx] /\ \A p \in Requests : tx'[p].drop = tx[p].drop
      BY <2>4, <2>5 DEF TypeOK
    <2> QED
      BY <2>a, <2>6 DEF TypeOK, table, runner, Ids
  <1>5. CASE Commit(q)
    <2>1. tx[q].add \in Seq(Row) /\ job \in Seq(Row)
      BY DEF TypeOK, Tx
    <2>2. job' \in Seq(Row) /\ Len(job') = Len(job) + Len(tx[q].add)
      BY <1>5, <2>1 DEF Commit
    <2>3. Len(job) \in Nat /\ Len(tx[q].add) \in Nat
      BY <2>1
    <2>4. DEFINE New == (Len(job)+1)..(Len(job)+Len(tx[q].add))
    <2>5. New \subseteq Ids' /\ Ids \subseteq Ids' /\ New \cap Ids = {}
      BY <2>2, <2>3 DEF Ids
    <2>6. unprocessed' = (unprocessed \ tx[q].drop) \cup New /\ processed' = processed \ tx[q].drop
      BY <1>5 DEF Commit
    <2>7. /\ unprocessed' \subseteq Ids' /\ processed' \subseteq Ids'
          /\ unprocessed' \cap processed' = {}
      BY <2>5, <2>6 DEF TypeOK
    <2>8. tx' \in [Requests -> Tx] /\ \A p \in Requests : tx'[p].drop \subseteq Ids'
      BY <1>5, <2>5, NoTxType DEF Commit, TypeOK
    <2> HIDE DEF Ids
    <2> QED
      BY <1>5, <2>2, <2>5, <2>7, <2>8 DEF Commit, TypeOK, runner
  <1>6. CASE Rollback(q)
    BY <1>6, NoTxType DEF Rollback, TypeOK, table, runner, Ids
  <1> QED
    BY <1>1, <1>2, <1>3, <1>4, <1>5, <1>6 DEF WebStep

LEMMA NextTypeOK == TypeOK /\ [Next]_vars => TypeOK'
  <1> SUFFICES ASSUME TypeOK, [Next]_vars PROVE TypeOK'
    OBVIOUS
  <1>once. UNCHANGED runner => OncePerPass'
    BY QuietOncePerPass
  <1> USE <1>once
  <1>1. ASSUME NEW a \in Accounts, ScheduleClose(a) PROVE TypeOK'
    <2>1. PICK d \in 0..MaxDay : job' = Append(job, NewRow("close_saving_account", a, d))
      BY <1>1 DEF ScheduleClose
    <2>2. job' \in Seq(Row) /\ Len(job') = Len(job) + 1
      BY <2>1, NewRowType DEF TypeOK, Kinds, Owners
    <2>3. Len(job) + 1 \in Ids' /\ Ids \subseteq Ids' /\ Len(job) + 1 \notin Ids
      BY <2>2 DEF Ids, TypeOK
    <2>4. writes' \in 0..MaxWrites
      BY <1>1, Constants DEF ScheduleClose, Web, TypeOK
    <2>5. /\ unprocessed' \subseteq Ids' /\ processed' \subseteq Ids' /\ returned' \subseteq Ids'
          /\ unprocessed' \cap processed' = {}
      BY <1>1, <2>3 DEF ScheduleClose, TypeOK
    <2>6. \A p \in Requests : tx'[p].drop \subseteq Ids'
      BY <1>1, <2>3 DEF ScheduleClose, TypeOK
    <2>7. due' \in [Runners -> SUBSET Ids'] /\ cur' \in [Runners -> Ids' \cup {0}]
      BY <1>1, <2>3 DEF ScheduleClose, TypeOK, runner
    <2>8. UNCHANGED <<day, pc, cur, summary, tx, overlaps, faults>>
      BY <1>1 DEF ScheduleClose, runner
    <2>9. OncePerPass'
      BY <1>1 DEF ScheduleClose
    <2> HIDE DEF Ids
    <2> QED
      BY <2>2, <2>4, <2>5, <2>6, <2>7, <2>8, <2>9 DEF TypeOK
  <1>2. CASE NextDay
    <2>1. day' \in 0..MaxDay
      BY <1>2, Constants DEF NextDay, TypeOK
    <2> QED
      BY <1>2, <2>1 DEF NextDay, TypeOK, table, runner, web, Ids
  <1>3. CASE UNCHANGED vars
    BY <1>3 DEF vars, TypeOK, table, runner, web, Ids
  <1> QED
    BY <1>1, <1>2, <1>3, RunnerStepTypeOK, RunnerFaultTypeOK, WebStepTypeOK DEF Next

\* Type correctness of the task table, the runners and the requests.
THEOREM TypeCorrect == Spec => []TypeOK
  BY InitTypeOK, NextTypeOK, PTL DEF Spec

-----------------------------------------------------------------------------
(***************************************************************************)
(* The claim.  None of ClaimExcludes, HeldIsProcessed and ReturnedIsFinal  *)
(* is inductive alone: a won claim excludes the other runners because a    *)
(* held row is not unprocessed, and finishes a row that has not returned   *)
(* because a returned one is not unprocessed.                              *)
(***************************************************************************)
ClaimInv == TypeOK /\ ClaimExcludes /\ HeldIsProcessed /\ ReturnedIsFinal

LEMMA InitClaimInv == Init => ClaimInv
  BY InitTypeOK DEF Init, ClaimInv, ClaimExcludes, HeldIsProcessed, ReturnedIsFinal

LEMMA RunnerStepClaimInv ==
    ASSUME ClaimInv, NEW r \in Runners, RunnerStep(r), TypeOK'
    PROVE  ClaimInv'
  <1> USE DEF ClaimInv, ClaimExcludes, HeldIsProcessed, ReturnedIsFinal
  <1>0. TypeOK /\ TypeOK'
    OBVIOUS
  <1>1. CASE StartPass(r)
    BY <1>1 DEF StartPass, TypeOK, table
  <1>2. ASSUME NEW id \in due[r], UnknownType(r, id) PROVE ClaimInv'
    BY <1>2 DEF UnknownType, TypeOK, table
  <1>3. ASSUME NEW id \in due[r], ClaimWon(r, id) PROVE ClaimInv'
    <2>1. id # 0 /\ id \notin unprocessed' /\ id \notin returned
      BY <1>3 DEF ClaimWon, TypeOK, Ids
    <2>2. \A s \in Runners : cur[s] # id /\ cur'[s] = (IF s = r THEN id ELSE cur[s])
      BY <1>3 DEF ClaimWon, TypeOK
    <2>3. \A s \in Runners : pc'[s] = (IF s = r THEN "run" ELSE pc[s])
      BY <1>3 DEF ClaimWon, TypeOK
    <2>4. unprocessed' \subseteq unprocessed /\ returned' = returned
      BY <1>3 DEF ClaimWon
    <2> QED
      BY <2>1, <2>2, <2>3, <2>4
  <1>4. ASSUME NEW id \in due[r], ClaimLost(r, id) PROVE ClaimInv'
    BY <1>4 DEF ClaimLost, TypeOK, table
  <1>5. CASE ExecuterReturns(r)
    <2>1. cur[r] # 0 /\ cur' = cur /\ unprocessed' = unprocessed /\ returned' = returned \cup {cur[r]}
      BY <1>5 DEF ExecuterReturns, TypeOK
    <2>2. \A s \in Runners : pc'[s] = (IF s = r THEN "clone" ELSE pc[s])
      BY <1>5 DEF ExecuterReturns, TypeOK
    <2>3. \A s \in Runners : pc[s] \in {"run", "release"} => cur[s] # 0
      BY DEF TypeOK
    <2> QED
      BY <2>1, <2>2, <2>3
  <1>6. CASE ExecuterRejects(r)
    BY <1>6 DEF ExecuterRejects, TypeOK, table
  <1>7. CASE Release(r)
    <2>0. pc[r] = "release" /\ returned' = returned
      BY <1>7 DEF Release, Errored
    <2>1. cur[r] # 0 /\ cur[r] \notin returned
      <3>1. pc[r] \in {"run", "release"} /\ pc[r] \notin {"idle", "loop"}
        BY <2>0
      <3> QED
        BY <3>1, Zenon DEF TypeOK
    <2>2. \A s \in Runners : /\ cur'[s] = (IF s = r THEN 0 ELSE cur[s])
                             /\ pc'[s] = (IF s = r THEN "loop" ELSE pc[s])
      BY <1>7 DEF Release, Errored, TypeOK
    <2>3. unprocessed' \subseteq unprocessed \cup {cur[r]}
      BY <1>7 DEF Release
    <2> QED
      BY <2>0, <2>1, <2>2, <2>3
  <1>8. CASE NoRepeat(r)
    BY <1>8 DEF NoRepeat, TypeOK, table
  <1>9. CASE Clone(r)
    <2>1. unprocessed' = unprocessed \cup {Len(job) + 1} /\ returned' = returned
      BY <1>9 DEF Clone
    <2>2. \A s \in Runners : /\ cur'[s] = (IF s = r THEN 0 ELSE cur[s])
                             /\ pc'[s] = (IF s = r THEN "loop" ELSE pc[s])
      BY <1>9 DEF Clone, TypeOK
    <2>3. Len(job) + 1 \notin returned /\ \A s \in Runners : cur[s] # Len(job) + 1
      BY DEF TypeOK, Ids
    <2> QED
      BY <2>1, <2>2, <2>3
  <1>10. CASE RepeatRefused(r)
    BY <1>10 DEF RepeatRefused, Errored, TypeOK
  <1>11. CASE EndPass(r)
    BY <1>11 DEF EndPass, TypeOK, table
  <1> QED
    BY <1>1, <1>2, <1>3, <1>4, <1>5, <1>6, <1>7, <1>8, <1>9, <1>10, <1>11, Zenon DEF RunnerStep

LEMMA RunnerFaultClaimInv ==
    ASSUME ClaimInv, NEW r \in Runners, RunnerFault(r), TypeOK'
    PROVE  ClaimInv'
  <1> USE DEF ClaimInv, ClaimExcludes, HeldIsProcessed, ReturnedIsFinal
  <1>1. ASSUME NEW id \in due[r], ClaimFails(r, id) PROVE ClaimInv'
    BY <1>1 DEF ClaimFails, TypeOK
  <1>2. CASE ExecuterFails(r)
    BY <1>2 DEF ExecuterFails, TypeOK, table
  <1>3. CASE ReleaseFails(r)
    BY <1>3 DEF ReleaseFails, Errored, TypeOK
  <1>4. CASE CloneFails(r)
    <2>1. unprocessed' \subseteq unprocessed \cup {Len(job) + 1} /\ returned' = returned
      BY <1>4 DEF CloneFails, Errored
    <2>2. \A s \in Runners : /\ cur'[s] = (IF s = r THEN 0 ELSE cur[s])
                             /\ pc'[s] = (IF s = r THEN "loop" ELSE pc[s])
      BY <1>4 DEF CloneFails, Errored, TypeOK
    <2>3. Len(job) + 1 \notin returned /\ \A s \in Runners : cur[s] # Len(job) + 1
      BY DEF TypeOK, Ids
    <2> QED
      BY <2>1, <2>2, <2>3
  <1>5. CASE Crash(r)
    BY <1>5 DEF Crash, TypeOK, table
  <1> QED
    BY <1>1, <1>2, <1>3, <1>4, <1>5, Zenon DEF RunnerFault

\* The requests and the calendar touch no runner, take only rows away and add
\* only new ones.
LEMMA QuietClaimInv ==
    ASSUME ClaimInv, TypeOK', UNCHANGED <<runner, returned>>,
           \A id \in Ids : id \in unprocessed' => id \in unprocessed
    PROVE  ClaimInv'
  BY DEF ClaimInv, ClaimExcludes, HeldIsProcessed, ReturnedIsFinal, TypeOK, runner, Ids

LEMMA WebClaimInv ==
    ASSUME TypeOK,
           \/ \E q \in Requests : WebStep(q)
           \/ \E a \in Accounts : ScheduleClose(a)
           \/ NextDay
    PROVE  /\ UNCHANGED <<runner, returned>>
           /\ \A id \in Ids : id \in unprocessed' => id \in unprocessed
  <1>1. ASSUME NEW q \in Requests, Commit(q)
        PROVE  /\ UNCHANGED <<runner, returned>>
               /\ \A id \in Ids : id \in unprocessed' => id \in unprocessed
    BY <1>1 DEF Commit, TypeOK, Ids
  <1>2. ASSUME NEW a \in Accounts, ScheduleClose(a)
        PROVE  /\ UNCHANGED <<runner, returned>>
               /\ \A id \in Ids : id \in unprocessed' => id \in unprocessed
    BY <1>2 DEF ScheduleClose, TypeOK, Ids
  <1> QED
    BY <1>1, <1>2 DEF WebStep, BeginBirthday, BeginReminders, BeginPayout, Begin,
                      ScheduleNotification, Rollback, NextDay, table

LEMMA NextClaimInv == ClaimInv /\ [Next]_vars => ClaimInv'
  <1> SUFFICES ASSUME ClaimInv, [Next]_vars PROVE ClaimInv'
    OBVIOUS
  <1>1. TypeOK /\ TypeOK'
    BY NextTypeOK DEF ClaimInv
  <1>2. CASE UNCHANGED vars
    BY <1>1, <1>2, QuietClaimInv DEF vars, table
  <1>3. CASE \/ \E q \in Requests : WebStep(q)
             \/ \E a \in Accounts : ScheduleClose(a)
             \/ NextDay
    BY <1>1, <1>3, WebClaimInv, QuietClaimInv
  <1> QED
    BY <1>1, <1>2, <1>3, RunnerStepClaimInv, RunnerFaultClaimInv DEF Next

LEMMA ClaimInvariant == Spec => []ClaimInv
  BY InitClaimInv, NextClaimInv, PTL DEF Spec

\* However many processes have SCHEDULER_ENABLED=true, no two of them handle
\* the same row at the same time.
THEOREM MutualExclusion == Spec => []ClaimExcludes
  BY ClaimInvariant, PTL DEF ClaimInv

\* A row in a runner's hands is never offered to another pass.
THEOREM HeldStaysProcessed == Spec => []HeldIsProcessed
  BY ClaimInvariant, PTL DEF ClaimInv

\* A row whose executer returned is never offered again.
THEOREM ReturnIsFinal == Spec => []ReturnedIsFinal
  BY ClaimInvariant, PTL DEF ClaimInv

\* A row that is not in the table is never in it again: no release, whenever it
\* comes, brings back what a request deleted.
THEOREM DeletedForGood == Spec => DeletedStaysDeleted
  <1>1. TypeOK /\ [Next]_vars => [\A id \in Ids : id \notin Present => id \notin Present']_vars
    <2> SUFFICES ASSUME TypeOK, Next, NEW id \in Ids, id \notin Present
                 PROVE  id \notin Present'
      OBVIOUS
    <2>0. id # Len(job) + 1 /\ id \in 1..Len(job) /\ Len(job) \in Nat /\ unprocessed \subseteq Ids
      BY DEF Ids, TypeOK
    <2>1. ASSUME NEW r \in Runners, RunnerStep(r) PROVE id \notin Present'
      <3>1. ASSUME NEW i \in due[r], UnknownType(r, i) \/ ClaimWon(r, i) \/ ClaimLost(r, i)
            PROVE  id \notin Present'
        BY <3>1 DEF UnknownType, ClaimWon, ClaimLost, Present, table
      <3> QED
        BY <2>0, <2>1, <3>1 DEF RunnerStep, StartPass, ExecuterReturns, ExecuterRejects, Release,
                                NoRepeat, Clone, RepeatRefused, EndPass, Errored, Present, table
    <2>2. ASSUME NEW r \in Runners, RunnerFault(r) PROVE id \notin Present'
      BY <2>0, <2>2 DEF RunnerFault, ClaimFails, ExecuterFails, ReleaseFails, CloneFails, Crash,
                        Present, table
    <2>3. ASSUME NEW q \in Requests, Commit(q) PROVE id \notin Present'
      <3>1. Len(tx[q].add) \in Nat
        BY DEF TypeOK, Tx
      <3> QED
        BY <2>0, <2>3, <3>1 DEF Commit, Present
    <2>4. ASSUME NEW a \in Accounts, ScheduleClose(a) PROVE id \notin Present'
      BY <2>0, <2>4 DEF ScheduleClose, Present
    <2>5. ASSUME NEW q \in Requests, WebStep(q) PROVE id \notin Present'
      BY <2>3, <2>5 DEF WebStep, BeginBirthday, BeginReminders, BeginPayout, Begin,
                        ScheduleNotification, Rollback, Present, table
    <2> QED
      BY <2>1, <2>2, <2>4, <2>5 DEF Next, NextDay, Present, table
  <1> QED
    BY <1>1, TypeCorrect, PTL DEF Spec, DeletedStaysDeleted

-----------------------------------------------------------------------------
(***************************************************************************)
(* Transactions: their types, and what a step of scheduleNotification      *)
(* leaves in one.                                                          *)
(***************************************************************************)
LEMMA TxTypes ==
    ASSUME TypeOK, NEW q \in Requests
    PROVE  /\ tx[q] \in Tx /\ tx[q].op \in Ops /\ tx[q].owner \in Owners
           /\ tx[q].todo \subseteq Nat /\ tx[q].drop \subseteq Ids /\ tx[q].add \in Seq(Row)
           /\ Len(tx[q].add) \in Nat
  <1>1. tx[q] \in Tx /\ tx[q].drop \subseteq Ids
    BY DEF TypeOK
  <1> QED
    BY <1>1 DEF Tx

\* A step of scheduleNotification on day d adds the row of d, or finds it there.
AddsOn(q, d, add) ==
    \/ add = tx[q].add
    \/ /\ add = Append(tx[q].add, NewRow(KindOf(tx[q].op), tx[q].owner, d))
       /\ \A id \in unprocessed \ tx[q].drop :
            ~(job[id].kind = KindOf(tx[q].op) /\ job[id].owner = tx[q].owner /\ job[id].date = d)
After(q, d, add) == [tx[q] EXCEPT !.todo = @ \ {d}, !.add = add]

LEMMA Schedules ==
    ASSUME TypeOK, NEW q \in Requests, ScheduleNotification(q)
    PROVE  /\ \E d \in tx[q].todo : \E add \in Seq(Row) :
                AddsOn(q, d, add) /\ tx' = [tx EXCEPT ![q] = After(q, d, add)]
           /\ UNCHANGED <<table, day, runner, overlaps, faults>>
  <1>1. PICK d \in tx[q].todo :
          LET kind == KindOf(tx[q].op)
              already == \E id \in unprocessed \ tx[q].drop :
                            job[id].kind = kind /\ job[id].owner = tx[q].owner /\ job[id].date = d
          IN  /\ tx' = [tx EXCEPT ![q].todo = @ \ {d},
                                  ![q].add = IF already THEN @
                                             ELSE Append(@, NewRow(kind, tx[q].owner, d))]
              /\ UNCHANGED <<table, day, runner, overlaps, writes, faults>>
    BY DEF ScheduleNotification
  <1> DEFINE already == \E id \in unprocessed \ tx[q].drop :
                          /\ job[id].kind = KindOf(tx[q].op) /\ job[id].owner = tx[q].owner
                          /\ job[id].date = d
             row == NewRow(KindOf(tx[q].op), tx[q].owner, d)
             add == IF already THEN tx[q].add ELSE Append(tx[q].add, row)
  <1>2. tx' = [tx EXCEPT ![q] = [tx[q] EXCEPT !.todo = @ \ {d}, !.add = add]]
    BY <1>1, TxTypes DEF TypeOK
  <1>3. row \in Row
    BY TxTypes, NewRowType DEF KindOf, Kinds
  <1>4. AddsOn(q, d, add)
    BY DEF AddsOn
  <1>5. add \in Seq(Row)
    BY <1>3, TxTypes, AppendProperties
  <1> HIDE DEF add
  <1> QED
    BY <1>1, <1>2, <1>4, <1>5, Zenon DEF After

LEMMA AfterFields ==
    ASSUME TypeOK, NEW q \in Requests, NEW d \in Nat, NEW add \in Seq(Row)
    PROVE  /\ After(q, d, add).op = tx[q].op /\ After(q, d, add).owner = tx[q].owner
           /\ After(q, d, add).todo = tx[q].todo \ {d} /\ After(q, d, add).drop = tx[q].drop
           /\ After(q, d, add).add = add
  BY TxTypes DEF After, Tx

\* The rows it adds, one by one.
LEMMA AddedRows ==
    ASSUME TypeOK, NEW q \in Requests, NEW d \in tx[q].todo, NEW add \in Seq(Row),
           AddsOn(q, d, add), add # tx[q].add
    PROVE  /\ Len(add) = Len(tx[q].add) + 1
           /\ \A i \in 1..Len(tx[q].add) : add[i] = tx[q].add[i]
           /\ add[Len(tx[q].add) + 1] = NewRow(KindOf(tx[q].op), tx[q].owner, d)
  <1>1. NewRow(KindOf(tx[q].op), tx[q].owner, d) \in Row /\ tx[q].add \in Seq(Row)
    BY TxTypes, NewRowType DEF KindOf, Kinds
  <1>2. add = Append(tx[q].add, NewRow(KindOf(tx[q].op), tx[q].owner, d))
    BY DEF AddsOn
  <1> QED
    BY <1>1, <1>2, AppendProperties

LEMMA NewRowFields ==
    ASSUME NEW kind, NEW owner, NEW d
    PROVE  /\ NewRow(kind, owner, d).kind = kind /\ NewRow(kind, owner, d).owner = owner
           /\ NewRow(kind, owner, d).date = d /\ NewRow(kind, owner, d).sound
           /\ kind # "birthdate" => NewRow(kind, owner, d).repeat = 0
  BY DEF NewRow

-----------------------------------------------------------------------------
(***************************************************************************)
(* Order.  A row a pass has loaded was due when it was loaded, and is the  *)
(* same row when it runs; and a runner about to clone a row is the first   *)
(* to, because until its executer returned the row had no successor, and   *)
(* since then nobody else holds it.  Rows the requests write are roots.    *)
(***************************************************************************)
LoadedIsDue ==
    \A r \in Runners : /\ \A id \in due[r] : job[id].date <= day
                       /\ cur[r] # 0 => job[cur[r]].date <= day
AddedAreRoots ==
    \A q \in Requests : \A i \in 1..Len(tx[q].add) : tx[q].add[i].parent = 0
CloneIsFirst ==
    \A r \in Runners : pc[r] = "clone" => \A i \in Ids : job[i].parent # cur[r]

OrderInv == ClaimInv /\ LoadedIsDue /\ AddedAreRoots /\ ChainsDoNotFork /\ CloneIsFirst

LEMMA InitOrderInv == Init => OrderInv
  <1> SUFFICES ASSUME Init PROVE OrderInv
    OBVIOUS
  <1>1. \A i \in Ids : job[i].parent = 0
    BY ConstantsAssumption DEF Init, Ids, ConstantsAssumption
  <1>2. Len(<<>>) = 0
    OBVIOUS
  <1>3. LoadedIsDue /\ AddedAreRoots /\ ChainsDoNotFork /\ CloneIsFirst
    BY <1>1, <1>2 DEF Init, NoTx, LoadedIsDue, AddedAreRoots, ChainsDoNotFork, CloneIsFirst
  <1> QED
    BY <1>3, InitClaimInv DEF OrderInv

\* The three things a step may do to the rows: nothing, insert roots, or
\* insert the successor of a row whose runner then lets go of it.
RowsKept == job' = job
RootsAdded ==
    /\ \A i \in Ids : i \in Ids' /\ job'[i] = job[i]
    /\ \A i \in Ids' \ Ids : job'[i].parent = 0
    /\ UNCHANGED <<pc, due, cur, returned, day>>
Cloned(r) ==
    /\ pc[r] = "clone" /\ Repeats(cur[r])
    /\ job' = Append(job, Successor(cur[r]))
    /\ cur' = [cur EXCEPT ![r] = 0] /\ pc' = [pc EXCEPT ![r] = "loop"]
    /\ UNCHANGED <<due, returned, day>>

LEMMA AppendedRoot ==
    ASSUME job \in Seq(Row), NEW row \in Row, row.parent = 0, job' = Append(job, row),
           UNCHANGED <<pc, due, cur, returned, day>>
    PROVE  RootsAdded
  <1>1. /\ Len(job) \in Nat /\ Len(job') = Len(job) + 1
        /\ \A i \in 1..Len(job) : job'[i] = job[i]
        /\ job'[Len(job) + 1] = row
    BY AppendProperties
  <1> QED
    BY <1>1 DEF RootsAdded, Ids

LEMMA RowsStep ==
    ASSUME TypeOK, AddedAreRoots, [Next]_vars
    PROVE  RowsKept \/ RootsAdded \/ \E r \in Runners : Cloned(r)
  <1>1. ASSUME NEW r \in Runners, RunnerStep(r) PROVE RowsKept \/ Cloned(r)
    BY <1>1 DEF RunnerStep, StartPass, UnknownType, ClaimWon, ClaimLost, ExecuterReturns,
                ExecuterRejects, Release, NoRepeat, Clone, RepeatRefused, EndPass, table,
                RowsKept, Cloned
  <1>2. ASSUME NEW r \in Runners, RunnerFault(r) PROVE RowsKept \/ Cloned(r)
    <2>1. CloneFails(r) => RowsKept \/ Cloned(r)
      BY DEF CloneFails, Errored, RowsKept, Cloned
    <2> QED
      BY <1>2, <2>1 DEF RunnerFault, ClaimFails, ExecuterFails, ReleaseFails, Crash, table,
                        RowsKept
  <1>3. ASSUME NEW q \in Requests, WebStep(q) PROVE RowsKept \/ RootsAdded
    <2>1. CASE Commit(q)
      <3>1. tx[q].add \in Seq(Row) /\ job \in Seq(Row) /\ job' = job \o tx[q].add
        BY <2>1 DEF Commit, TypeOK, Tx
      <3>2. /\ Len(job) \in Nat /\ Len(tx[q].add) \in Nat
            /\ Len(job') = Len(job) + Len(tx[q].add)
            /\ \A i \in 1..Len(job) + Len(tx[q].add) :
                 job'[i] = IF i <= Len(job) THEN job[i] ELSE tx[q].add[i - Len(job)]
        BY <3>1, ConcatProperties, LenProperties
      <3>3. \A i \in Ids' \ Ids : i - Len(job) \in 1..Len(tx[q].add)
        BY <3>2 DEF Ids
      <3>4. ASSUME NEW i \in Ids' \ Ids PROVE job'[i].parent = 0
        <4>1. i \in 1..Len(job) + Len(tx[q].add) /\ ~(i <= Len(job))
          BY <3>2 DEF Ids
        <4>2. job'[i] = tx[q].add[i - Len(job)]
          BY <3>2, <4>1
        <4> QED
          BY <3>3, <4>2, Zenon DEF AddedAreRoots
      <3>5. UNCHANGED <<pc, due, cur, returned, day>>
        BY <2>1 DEF Commit, runner
      <3> QED
        BY <3>2, <3>4, <3>5 DEF RootsAdded, Ids
    <2> QED
      BY <1>3, <2>1 DEF WebStep, BeginBirthday, BeginReminders, BeginPayout, Begin,
                        ScheduleNotification, Rollback, table, RowsKept
  <1>4. ASSUME NEW a \in Accounts, ScheduleClose(a) PROVE RootsAdded
    <2>1. PICK d \in 0..MaxDay : job' = Append(job, NewRow("close_saving_account", a, d))
      BY <1>4 DEF ScheduleClose
    <2>2. NewRow("close_saving_account", a, d) \in Row
      BY NewRowType DEF Kinds, Owners
    <2>3. NewRow("close_saving_account", a, d).parent = 0
      BY DEF NewRow
    <2> QED
      BY <1>4, <2>1, <2>2, <2>3, AppendedRoot DEF ScheduleClose, runner, TypeOK
  <1> QED
    BY <1>1, <1>2, <1>3, <1>4 DEF Next, NextDay, vars, table, RowsKept

\* A request's rows are roots: NewRow is the only thing it appends.
LEMMA NextAddedAreRoots ==
    ASSUME TypeOK, AddedAreRoots, [Next]_vars
    PROVE  AddedAreRoots'
  <1> DEFINE Roots(add) == \A i \in 1..Len(add) : add[i].parent = 0
  <1>0. Len(<<>>) = 0 /\ Roots(NoTx.add)
    BY DEF NoTx
  <1>1. ASSUME NEW q \in Requests, NEW t, Roots(t.add), tx' = [tx EXCEPT ![q] = t]
        PROVE  AddedAreRoots'
    BY <1>1 DEF AddedAreRoots, TypeOK
  <1>2. ASSUME NEW q \in Requests, ScheduleNotification(q) PROVE AddedAreRoots'
    <2>1. PICK d \in tx[q].todo, add \in Seq(Row) :
            AddsOn(q, d, add) /\ tx' = [tx EXCEPT ![q] = After(q, d, add)]
      BY <1>2, Schedules
    <2>2. Roots(tx[q].add) /\ Len(tx[q].add) \in Nat /\ d \in Nat
      BY TxTypes DEF AddedAreRoots
    <2>3. Roots(add)
      <3>1. CASE add = tx[q].add
        BY <2>2, <3>1
      <3>2. CASE add # tx[q].add
        <4>1. /\ Len(add) = Len(tx[q].add) + 1
              /\ \A i \in 1..Len(tx[q].add) : add[i] = tx[q].add[i]
              /\ add[Len(tx[q].add) + 1] = NewRow(KindOf(tx[q].op), tx[q].owner, d)
          BY <2>1, <3>2, AddedRows
        <4>2. add[Len(tx[q].add) + 1].parent = 0
          BY <4>1 DEF NewRow
        <4>3. ASSUME NEW i \in 1..Len(add) PROVE add[i].parent = 0
          <5>1. CASE i = Len(tx[q].add) + 1
            BY <4>2, <5>1
          <5>2. CASE i # Len(tx[q].add) + 1
            <6>1. i \in 1..Len(tx[q].add)
              BY <2>2, <4>1, <5>2
            <6> QED
              BY <2>2, <4>1, <6>1
          <5> QED
            BY <5>1, <5>2
        <4> QED
          BY <4>3
      <3> QED
        BY <3>1, <3>2
    <2>4. After(q, d, add).add = add
      <3> HIDE DEF Roots
      <3> QED
        BY <2>2, AfterFields
    <2>5. Roots(After(q, d, add).add)
      BY <2>3, <2>4, Zenon
    <2> HIDE DEF Roots
    <2> QED
      BY <1>1, <2>1, <2>5
  <1>3. ASSUME NEW q \in Requests, NEW op, NEW o, NEW todo, NEW drop, Begin(q, op, o, todo, drop)
        PROVE  AddedAreRoots'
    <2>1. tx' = [tx EXCEPT ![q] = [op |-> op, owner |-> o, todo |-> todo,
                                   drop |-> drop, add |-> <<>>]]
      BY <1>3 DEF Begin
    <2>2. Roots(<<>>)
      BY <1>0
    <2>3. \A t : t = [op |-> op, owner |-> o, todo |-> todo, drop |-> drop, add |-> <<>>]
                  => Roots(t.add)
      BY <2>2
    <2> HIDE DEF Roots
    <2> QED
      BY <1>1, <2>1, <2>3
  <1>4. ASSUME NEW q \in Requests, WebStep(q) PROVE AddedAreRoots'
    BY <1>0, <1>1, <1>2, <1>3, <1>4 DEF WebStep, BeginBirthday, BeginReminders, BeginPayout,
                                       Commit, Rollback
  <1>5. ASSUME UNCHANGED tx PROVE AddedAreRoots'
    BY <1>5 DEF AddedAreRoots
  <1>6. ASSUME NEW r \in Runners, RunnerStep(r) \/ RunnerFault(r) PROVE UNCHANGED tx
    BY <1>6 DEF RunnerStep, RunnerFault, StartPass, UnknownType, ClaimWon, ClaimLost,
                ExecuterReturns, ExecuterRejects, Release, NoRepeat, Clone, RepeatRefused,
                EndPass, ClaimFails, ExecuterFails, ReleaseFails, CloneFails, Crash, Errored, web
  <1> QED
    BY <1>4, <1>5, <1>6 DEF Next, NextDay, ScheduleClose, vars, web

\* No row that was inserted is changed.
LEMMA RowsGrow ==
    ASSUME TypeOK, RowsKept \/ RootsAdded \/ \E r \in Runners : Cloned(r)
    PROVE  \A id \in Ids : id \in Ids' /\ job'[id] = job[id]
  <1>1. ASSUME NEW r \in Runners, Cloned(r) PROVE \A id \in Ids : id \in Ids' /\ job'[id] = job[id]
    <2>1. Successor(cur[r]) \in Row
      <3>1. pc[r] = "clone" /\ Repeats(cur[r])
        BY <1>1 DEF Cloned
      <3>2. cur[r] \in Ids
        BY <3>1 DEF TypeOK
      <3> QED
        BY <3>1, <3>2, SuccessorType DEF TypeOK
    <2>2. job \in Seq(Row) /\ job' = Append(job, Successor(cur[r]))
      BY <1>1 DEF Cloned, TypeOK
    <2>3. /\ Len(job) \in Nat /\ Len(job') = Len(job) + 1
          /\ \A i \in 1..Len(job) : job'[i] = job[i]
      BY <2>1, <2>2, AppendProperties
    <2> QED
      BY <2>3 DEF Ids
  <1> QED
    BY <1>1 DEF RowsKept, RootsAdded, Ids

\* The day does not go back, and a row that has returned is not forgotten.
LEMMA DayAndReturned ==
    ASSUME [Next]_vars
    PROVE  (day' = day \/ day' = day + 1) /\ returned \subseteq returned'
  <1>1. ASSUME NEW r \in Runners, RunnerStep(r) PROVE day' = day /\ returned \subseteq returned'
    <2>1. ASSUME NEW id \in due[r], UnknownType(r, id) \/ ClaimWon(r, id) \/ ClaimLost(r, id)
          PROVE  day' = day /\ returned' = returned
      BY <2>1 DEF UnknownType, ClaimWon, ClaimLost, table
    <2>2. CASE StartPass(r) \/ ExecuterReturns(r) \/ ExecuterRejects(r) \/ Release(r)
      BY <2>2 DEF StartPass, ExecuterReturns, ExecuterRejects, Release, Errored, table
    <2>3. CASE NoRepeat(r) \/ Clone(r) \/ RepeatRefused(r) \/ EndPass(r)
      BY <2>3 DEF NoRepeat, Clone, RepeatRefused, EndPass, Errored, table
    <2> QED
      BY <1>1, <2>1, <2>2, <2>3 DEF RunnerStep
  <1>2. ASSUME NEW r \in Runners, RunnerFault(r) PROVE day' = day /\ returned' = returned
    BY <1>2 DEF RunnerFault, ClaimFails, ExecuterFails, ReleaseFails, CloneFails, Crash,
                Errored, table
  <1>3. ASSUME NEW q \in Requests, WebStep(q) PROVE day' = day /\ returned' = returned
    BY <1>3 DEF WebStep, BeginBirthday, BeginReminders, BeginPayout, Begin,
                ScheduleNotification, Commit, Rollback, table
  <1>4. ASSUME NEW a \in Accounts, ScheduleClose(a) PROVE day' = day /\ returned' = returned
    BY <1>4 DEF ScheduleClose
  <1>5. NextDay => day' = day + 1 /\ returned' = returned
    BY DEF NextDay, table
  <1> QED
    BY <1>1, <1>2, <1>3, <1>4, <1>5 DEF Next, vars, table

\* What a runner holds or has loaded was there before, or is due: the day does
\* not go back and a row keeps its date.
LEMMA NextLoadedIsDue ==
    ASSUME TypeOK, LoadedIsDue, [Next]_vars,
           RowsKept \/ RootsAdded \/ \E r \in Runners : Cloned(r)
    PROVE  LoadedIsDue'
  <1>1. \A id \in Ids : id \in Ids' /\ job'[id] = job[id]
    BY RowsGrow
  <1>2. day \in Nat /\ day' \in Nat /\ day <= day'
    <2>1. day \in Nat /\ MaxDay \in Nat
      BY Constants DEF TypeOK
    <2>2. day' = day \/ day' = day + 1
      BY DayAndReturned
    <2> QED
      BY <2>1, <2>2
  <1>3. \A id \in Ids : job[id].date \in Nat
    <2>1. \A id \in Ids : job[id] \in Row
      BY DEF TypeOK, Ids
    <2> QED
      BY <2>1 DEF Row
  <1>4. ASSUME NEW r \in Runners
        PROVE  /\ \A id \in due'[r] : id \in due[r] \/ id \in DueUnprocessed
               /\ cur'[r] # 0 => cur'[r] = cur[r] \/ cur'[r] \in due[r]
    <2> USE DEF TypeOK
    <2>1. ASSUME NEW s \in Runners, RunnerStep(s)
          PROVE  /\ \A id \in due'[r] : id \in due[r] \/ id \in DueUnprocessed
                 /\ cur'[r] # 0 => cur'[r] = cur[r] \/ cur'[r] \in due[r]
      <3>1. ASSUME NEW id \in due[s], UnknownType(s, id) \/ ClaimWon(s, id) \/ ClaimLost(s, id)
            PROVE  /\ \A i \in due'[r] : i \in due[r]
                   /\ cur'[r] # 0 => cur'[r] = cur[r] \/ cur'[r] \in due[r]
        BY <3>1 DEF UnknownType, ClaimWon, ClaimLost
      <3> QED
        BY <2>1, <3>1 DEF RunnerStep, StartPass, ExecuterReturns, ExecuterRejects, Release,
                          NoRepeat, Clone, RepeatRefused, EndPass, Errored
    <2>2. ASSUME NEW s \in Runners, RunnerFault(s)
          PROVE  /\ \A id \in due'[r] : id \in due[r] \/ id \in DueUnprocessed
                 /\ cur'[r] # 0 => cur'[r] = cur[r] \/ cur'[r] \in due[r]
      BY <2>2 DEF RunnerFault, ClaimFails, ExecuterFails, ReleaseFails, CloneFails, Crash, Errored
    <2>3. ASSUME \/ \E q \in Requests : WebStep(q)
                 \/ \E a \in Accounts : ScheduleClose(a)
                 \/ NextDay
          PROVE  UNCHANGED <<due, cur>>
      BY <2>3, WebClaimInv DEF runner
    <2> QED
      BY <2>1, <2>2, <2>3 DEF Next, vars, runner
  <1>5. \A id \in DueUnprocessed : id \in Ids /\ job[id].date <= day
    BY DEF DueUnprocessed, TypeOK
  <1>6. \A r \in Runners : due[r] \subseteq Ids /\ (cur[r] # 0 => cur[r] \in Ids)
    BY DEF TypeOK
  <1>7. \A id \in Ids : job[id].date <= day => job'[id].date <= day'
    BY <1>1, <1>2, <1>3
  <1> QED
    BY <1>4, <1>5, <1>6, <1>7 DEF LoadedIsDue

\* Which runners may be about to clone, after a step.
LEMMA AtClone ==
    ASSUME ClaimInv, [Next]_vars, NEW s \in Runners, pc'[s] = "clone"
    PROVE  /\ cur'[s] = cur[s]
           /\ pc[s] = "clone" \/ cur[s] \notin returned
  <1> USE DEF ClaimInv, TypeOK
  <1>0. pc[s] = "run" => cur[s] \notin returned
    <2>1. pc[s] = "run" => pc[s] \in {"run", "release"}
      OBVIOUS
    <2> QED
      BY <2>1, Zenon DEF ReturnedIsFinal
  <1>1. ASSUME NEW r \in Runners, RunnerStep(r) PROVE cur'[s] = cur[s] /\ pc[s] \in {"run", "clone"}
    <2>1. ASSUME NEW id \in due[r], UnknownType(r, id) \/ ClaimWon(r, id) \/ ClaimLost(r, id)
          PROVE  cur'[s] = cur[s] /\ pc[s] \in {"run", "clone"}
      BY <2>1 DEF UnknownType, ClaimWon, ClaimLost
    <2> QED
      BY <1>1, <2>1 DEF RunnerStep, StartPass, ExecuterReturns, ExecuterRejects, Release,
                        NoRepeat, Clone, RepeatRefused, EndPass, Errored
  <1>2. ASSUME NEW r \in Runners, RunnerFault(r) PROVE cur'[s] = cur[s] /\ pc[s] \in {"run", "clone"}
    BY <1>2 DEF RunnerFault, ClaimFails, ExecuterFails, ReleaseFails, CloneFails, Crash, Errored
  <1>3. ASSUME \/ \E q \in Requests : WebStep(q)
               \/ \E a \in Accounts : ScheduleClose(a)
               \/ NextDay
        PROVE  UNCHANGED <<pc, cur>>
    BY <1>3, WebClaimInv DEF runner
  <1> QED
    BY <1>0, <1>1, <1>2, <1>3 DEF Next, vars, runner

\* Rows that have returned are not forgotten.
LEMMA ReturnedGrows ==
    ASSUME TypeOK, [Next]_vars
    PROVE  returned \subseteq returned'
  BY DayAndReturned

SameButLater(new, old, p) == new = [old EXCEPT !.date = new.date, !.parent = p]

LEMMA ChainsUnfold ==
    ChainsDoNotFork <=>
      \A i \in Ids : job[i].parent # 0 =>
        /\ job[i].parent < i /\ job[i].parent \in returned
        /\ job[job[i].parent].date < job[i].date
        /\ SameButLater(job[i], job[job[i].parent], job[i].parent)
        /\ \A j \in Ids : job[j].parent = job[i].parent => j = i
  BY Zenon DEF ChainsDoNotFork, SameButLater

\* A row's parent was inserted before it.
LEMMA ParentIsRow ==
    ASSUME TypeOK, ChainsDoNotFork, NEW i \in Ids, job[i].parent # 0
    PROVE  job[i].parent \in Ids
  <1>1. job[i] \in Row /\ Len(job) \in Nat /\ i \in 1..Len(job)
    BY DEF TypeOK, Ids
  <1>2. job[i].parent \in Nat /\ job[i].parent < i
    BY <1>1, ChainsUnfold DEF Row
  <1> QED
    BY <1>1, <1>2 DEF Ids

LEMMA NextChains ==
    ASSUME ClaimInv, ChainsDoNotFork, CloneIsFirst, [Next]_vars,
           RowsKept \/ RootsAdded \/ \E r \in Runners : Cloned(r)
    PROVE  ChainsDoNotFork' /\ CloneIsFirst'
  <1> DEFINE Chained(i) ==
        /\ job[i].parent < i /\ job[i].parent \in returned
        /\ job[job[i].parent].date < job[i].date
        /\ SameButLater(job[i], job[job[i].parent], job[i].parent)
        /\ \A j \in Ids : job[j].parent = job[i].parent => j = i
  <1>0. /\ TypeOK /\ returned \subseteq returned' /\ job \in Seq(Row) /\ Len(job) \in Nat
        /\ 0 \notin Ids /\ Ids \subseteq Nat
        /\ \A s \in Runners : pc[s] # "idle" /\ pc[s] # "loop" => cur[s] \in Ids
    <2>1. TypeOK /\ returned \subseteq returned'
      BY ReturnedGrows DEF ClaimInv
    <2>2. job \in Seq(Row) /\ Len(job) \in Nat /\ 0 \notin Ids /\ Ids \subseteq Nat
      BY <2>1 DEF TypeOK, Ids
    <2>3. ASSUME NEW s \in Runners, pc[s] # "idle", pc[s] # "loop" PROVE cur[s] \in Ids
      BY <2>1, <2>3 DEF TypeOK
    <2> QED
      BY <2>1, <2>2, <2>3
  <1>a. \A i \in Ids : job[i].parent # 0 => Chained(i) /\ job[i].parent \in Ids
    BY <1>0, ChainsUnfold, ParentIsRow
  <1>b. ASSUME \A i \in Ids' : job'[i].parent # 0 => Chained(i)' PROVE ChainsDoNotFork'
    BY <1>b, Zenon DEF ChainsDoNotFork, SameButLater
  <1>1. CASE RowsKept
    <2>1. Ids' = Ids /\ job' = job
      BY <1>1 DEF RowsKept, Ids
    <2>2. ChainsDoNotFork'
      BY <1>0, <1>a, <1>b, <2>1 DEF SameButLater
    <2>3. CloneIsFirst'
      <3> SUFFICES ASSUME NEW s \in Runners, pc'[s] = "clone", NEW i \in Ids
                   PROVE  job[i].parent # cur[s]
        BY <2>1, AtClone DEF CloneIsFirst
      <3>1. CASE pc[s] = "clone"
        BY <3>1 DEF CloneIsFirst
      <3>2. CASE cur[s] \notin returned /\ cur[s] # 0
        BY <1>a, <3>2
      <3>3. cur'[s] = cur[s] /\ cur'[s] # 0
        BY AtClone, NextTypeOK, <1>0 DEF TypeOK
      <3> QED
        BY <3>1, <3>2, <3>3, AtClone
    <2> QED
      BY <2>2, <2>3
  <1>2. CASE RootsAdded
    <2> USE <1>2 DEF RootsAdded
    <2>1. ASSUME NEW i \in Ids', job'[i].parent # 0
          PROVE  i \in Ids /\ job'[i] = job[i] /\ Chained(i) /\ job[i].parent \in Ids
      BY <1>a, <2>1
    <2>2. ASSUME NEW i \in Ids', job'[i].parent # 0 PROVE Chained(i)'
      <3>1. job'[job[i].parent] = job[job[i].parent] /\ \A j \in Ids : job'[j] = job[j]
        BY <2>1, <2>2
      <3>2. ASSUME NEW j \in Ids', job'[j].parent = job[i].parent PROVE j \in Ids
        BY <2>1, <2>2, <3>2
      <3>3. /\ job'[i] = job[i] /\ Chained(i) /\ job[i].parent \in returned'
            /\ job'[job'[i].parent] = job[job[i].parent]
        BY <1>0, <2>1, <2>2, <3>1
      <3>4. \A j \in Ids' : job'[j].parent = job[i].parent => j = i
        BY <3>1, <3>2, <3>3
      <3> QED
        BY <3>3, <3>4
    <2>3. ChainsDoNotFork'
      BY <1>b, <2>2
    <2>4. CloneIsFirst'
      BY <1>0 DEF CloneIsFirst, TypeOK
    <2> QED
      BY <2>3, <2>4
  <1>3. ASSUME NEW r \in Runners, Cloned(r) PROVE ChainsDoNotFork' /\ CloneIsFirst'
    <2> DEFINE p == cur[r]  n == Len(job) + 1
    <2>0. /\ pc[r] = "clone" /\ Repeats(p) /\ job' = Append(job, Successor(p))
          /\ cur' = [cur EXCEPT ![r] = 0] /\ pc' = [pc EXCEPT ![r] = "loop"]
          /\ returned' = returned
      BY <1>3 DEF Cloned
    <2>1. p \in Ids /\ p \in returned /\ Successor(p) \in Row /\ p \in Nat /\ p < n
      <3>1. p \in Ids
        BY <1>0, <2>0
      <3>2. p \in returned
        BY <2>0, Zenon DEF ClaimInv, ReturnedIsFinal
      <3> QED
        BY <1>0, <2>0, <3>1, <3>2, SuccessorType DEF Ids
    <2>2. /\ Ids' = Ids \cup {n} /\ n \notin Ids /\ job'[n] = Successor(p)
          /\ \A i \in Ids : job'[i] = job[i]
      BY <1>0, <2>0, <2>1, AppendProperties DEF Ids
    <2>3. /\ Successor(p).parent = p /\ job[p].date < Successor(p).date
          /\ SameButLater(Successor(p), job[p], p)
      <3>1. job[p] \in Row
        BY <1>0, <2>1 DEF Ids
      <3>2. Step[job[p].repeat] \in Nat \ {0} /\ job[p].date \in Nat
        BY <2>0, <3>1, Constants DEF Repeats, Row
      <3>3. \A row \in Row, d, x \in Nat : /\ [row EXCEPT !.date = d, !.parent = x].date = d
                                           /\ [row EXCEPT !.date = d, !.parent = x].parent = x
        BY DEF Row
      <3> DEFINE d == job[p].date + Step[job[p].repeat]
      <3>4. Successor(p) = [job[p] EXCEPT !.date = d, !.parent = p]
        BY DEF Successor
      <3>5. d \in Nat /\ job[p].date < d
        BY <3>2
      <3>6. Successor(p).date = d /\ Successor(p).parent = p
        BY <2>1, <3>1, <3>3, <3>4, <3>5
      <3>7. Successor(p) = [job[p] EXCEPT !.date = Successor(p).date, !.parent = p]
        BY <3>4, <3>6, Zenon
      <3> HIDE DEF d
      <3> QED
        BY <3>5, <3>6, <3>7 DEF SameButLater
    <2>4. \A i \in Ids : job[i].parent # p
      BY <2>0 DEF CloneIsFirst
    <2>5. ASSUME NEW i \in Ids', job'[i].parent # 0 PROVE Chained(i)'
      <3>1. CASE i = n
        BY <1>0, <2>0, <2>1, <2>2, <2>3, <2>4, <3>1
      <3>2. CASE i \in Ids
        <4>1. Chained(i) /\ job[i].parent \in Ids /\ job'[i] = job[i]
          BY <1>a, <2>2, <2>5, <3>2
        <4> QED
          BY <2>0, <2>2, <2>3, <2>4, <3>2, <4>1
      <3> QED
        BY <2>2, <3>1, <3>2
    <2>6. CloneIsFirst'
      <3> SUFFICES ASSUME NEW s \in Runners, pc'[s] = "clone", NEW i \in Ids'
                   PROVE  job'[i].parent # cur'[s]
        BY DEF CloneIsFirst
      <3>1. s # r /\ pc[s] = "clone" /\ cur'[s] = cur[s] /\ cur[s] # 0
        BY <1>0, <2>0 DEF TypeOK
      <3>2. cur[s] # p
        BY <2>1, <3>1, <1>0 DEF ClaimInv, ClaimExcludes
      <3> QED
        BY <2>2, <2>3, <3>1, <3>2 DEF CloneIsFirst
    <2> QED
      BY <1>b, <2>5, <2>6
  <1> QED
    BY <1>1, <1>2, <1>3

LEMMA NextOrderInv == OrderInv /\ [Next]_vars => OrderInv'
  <1> SUFFICES ASSUME OrderInv, [Next]_vars PROVE OrderInv'
    OBVIOUS
  <1>1. TypeOK
    BY DEF OrderInv, ClaimInv
  <1>2. RowsKept \/ RootsAdded \/ \E r \in Runners : Cloned(r)
    BY <1>1, RowsStep DEF OrderInv
  <1> QED
    BY <1>1, <1>2, NextClaimInv, NextLoadedIsDue, NextAddedAreRoots, NextChains DEF OrderInv

\* No task runs before its day, and no repeating task is followed twice, or by
\* anything but its own copy at a later date, whatever runners, requests and
\* faults interleave.
THEOREM TasksRunInOrder == Spec => []RunsInOrder
  <1>1. OrderInv => RunsInOrder
    BY DEF OrderInv, LoadedIsDue, RunsInOrder, NeverEarly
  <1> QED
    BY <1>1, InitOrderInv, NextOrderInv, PTL DEF Spec

-----------------------------------------------------------------------------
(***************************************************************************)
(* Loss.  A step without a fault strands no row and breaks no chain; a     *)
(* fault strands one row or breaks one chain, never both, since it loses   *)
(* the one row its runner held, and that row had returned or had not.      *)
(***************************************************************************)
StrandedRows == {id \in Ids : Stranded(id)}
BrokenChains == {id \in returned : Repeats(id) /\ ~Continued(id)}

LEMMA LostSetsFinite ==
    ASSUME TypeOK
    PROVE  IsFiniteSet(StrandedRows) /\ IsFiniteSet(BrokenChains)
  <1>1. IsFiniteSet(Ids)
    BY FS_Interval DEF TypeOK, Ids
  <1> QED
    BY <1>1, FS_Subset DEF StrandedRows, BrokenChains, TypeOK

LEMMA AtMostOneMore ==
    ASSUME NEW S, IsFiniteSet(S), NEW T, NEW x, T \subseteq S \cup {x}
    PROVE  /\ IsFiniteSet(T) /\ Cardinality(T) \in Nat /\ Cardinality(S) \in Nat
           /\ Cardinality(T) <= Cardinality(S) + 1
           /\ T \subseteq S => Cardinality(T) <= Cardinality(S)
  <1> DEFINE U == S \cup {x}
  <1>1. Cardinality(S) \in Nat
    BY FS_CardinalityType
  <1>2. IsFiniteSet(U) /\ Cardinality(U) \in Nat /\ Cardinality(U) <= Cardinality(S) + 1
    BY <1>1, FS_AddElement
  <1>3. T \subseteq U
    OBVIOUS
  <1> HIDE DEF U
  <1>4. IsFiniteSet(T) /\ Cardinality(T) <= Cardinality(U)
    BY <1>2, <1>3, FS_Subset
  <1>5. Cardinality(T) \in Nat
    BY <1>4, FS_CardinalityType
  <1>6. T \subseteq S => Cardinality(T) <= Cardinality(S)
    BY FS_Subset
  <1> QED
    BY <1>1, <1>2, <1>4, <1>5, <1>6

\* What a step may do to the two sets.
NothingLost ==
    StrandedRows' \subseteq StrandedRows /\ BrokenChains' \subseteq BrokenChains /\ faults' >= faults
OneLost ==
    /\ faults' = faults + 1
    /\ \E id : \/ /\ StrandedRows' \subseteq StrandedRows \cup {id}
                  /\ BrokenChains' \subseteq BrokenChains
               \/ /\ StrandedRows' \subseteq StrandedRows
                  /\ BrokenChains' \subseteq BrokenChains \cup {id}

LEMMA LossCounted ==
    ASSUME TypeOK, LossNeedsFault, NothingLost \/ OneLost, faults' \in Nat
    PROVE  LossNeedsFault'
  <1>1. /\ IsFiniteSet(StrandedRows) /\ IsFiniteSet(BrokenChains)
        /\ Cardinality(StrandedRows) + Cardinality(BrokenChains) <= faults /\ faults \in Nat
    BY LostSetsFinite DEF LossNeedsFault, StrandedRows, BrokenChains, TypeOK
  <1> DEFINE S == StrandedRows  T == StrandedRows'  B == BrokenChains  C == BrokenChains'
  <1>2. \/ T \subseteq S /\ C \subseteq B /\ faults' >= faults
        \/ /\ faults' = faults + 1
           /\ \E x : \/ T \subseteq S \cup {x} /\ C \subseteq B
                     \/ T \subseteq S /\ C \subseteq B \cup {x}
    BY DEF NothingLost, OneLost
  <1> HIDE DEF S, T, B, C
  <1>3. ASSUME NEW x, T \subseteq S \cup {x}, C \subseteq B \cup {x}
        PROVE  /\ Cardinality(S) \in Nat /\ Cardinality(T) \in Nat
               /\ Cardinality(B) \in Nat /\ Cardinality(C) \in Nat
               /\ Cardinality(T) <= Cardinality(S) + 1
               /\ Cardinality(C) <= Cardinality(B) + 1
               /\ T \subseteq S => Cardinality(T) <= Cardinality(S)
               /\ C \subseteq B => Cardinality(C) <= Cardinality(B)
    BY <1>1, <1>3, AtMostOneMore DEF S, B
  <1>4. Cardinality(T) + Cardinality(C) <= faults'
    <2>1. CASE T \subseteq S /\ C \subseteq B /\ faults' >= faults
      BY <1>1, <1>3, <2>1 DEF S, B
    <2>2. ASSUME faults' = faults + 1, NEW x, T \subseteq S \cup {x}, C \subseteq B
          PROVE  Cardinality(T) + Cardinality(C) <= faults'
      BY <1>1, <1>3, <2>2 DEF S, B
    <2>3. ASSUME faults' = faults + 1, NEW x, T \subseteq S, C \subseteq B \cup {x}
          PROVE  Cardinality(T) + Cardinality(C) <= faults'
      BY <1>1, <1>3, <2>3 DEF S, B
    <2> QED
      BY <1>2, <2>1, <2>2, <2>3
  <1> QED
    BY <1>4 DEF T, C, LossNeedsFault, StrandedRows, BrokenChains

\* The steps of a runner that lose nothing: it lets go of a row only when the
\* row was given back, will not repeat, or has its successor.
LEMMA RunnerStepLosesNothing ==
    ASSUME ClaimInv, NEW r \in Runners, RunnerStep(r)
    PROVE  NothingLost
  <1> USE DEF NothingLost, StrandedRows, BrokenChains, Stranded, Held, Continued
  <1>0. /\ TypeOK /\ faults \in Nat /\ 0 \notin Ids /\ Ids \subseteq Nat
        /\ returned \subseteq Ids /\ unprocessed \cap processed = {}
        /\ job \in Seq(Row) /\ Len(job) \in Nat
    BY DEF ClaimInv, TypeOK, Ids
  <1>1. ASSUME NEW id \in due[r], UnknownType(r, id) \/ ClaimLost(r, id) PROVE NothingLost
    BY <1>0, <1>1 DEF UnknownType, ClaimLost, table, Ids, Repeats
  <1>2. ASSUME NEW id \in due[r], ClaimWon(r, id) PROVE NothingLost
    <2>1. \A s \in Runners : cur'[s] = (IF s = r THEN id ELSE cur[s])
      BY <1>0, <1>2 DEF ClaimWon, TypeOK
    <2>2. \A s \in Runners : pc'[s] = (IF s = r THEN "run" ELSE pc[s])
      BY <1>0, <1>2 DEF ClaimWon, TypeOK
    <2>3. /\ processed' = processed \cup {id} /\ job' = job /\ returned' = returned
          /\ faults' = faults /\ pc[r] = "loop" /\ Ids' = Ids /\ cur[r] = 0
      BY <1>0, <1>2 DEF ClaimWon, TypeOK, Ids
    <2> QED
      BY <1>0, <2>1, <2>2, <2>3 DEF Repeats
  <1>3. CASE StartPass(r)
    BY <1>0, <1>3 DEF StartPass, table, Ids, Repeats, TypeOK
  <1>4. CASE ExecuterReturns(r)
    <2>1. \A s \in Runners : pc'[s] = (IF s = r THEN "clone" ELSE pc[s])
      BY <1>0, <1>4 DEF ExecuterReturns, TypeOK
    <2> QED
      BY <1>0, <1>4, <2>1 DEF ExecuterReturns, Ids, Repeats
  <1>5. CASE ExecuterRejects(r)
    BY <1>0, <1>5 DEF ExecuterRejects, table, Ids, Repeats, TypeOK
  <1>6. CASE EndPass(r)
    BY <1>0, <1>6 DEF EndPass, table, Ids, Repeats, TypeOK
  <1>7. ASSUME cur' = [cur EXCEPT ![r] = 0], pc' = [pc EXCEPT ![r] = "loop"], pc[r] # "loop"
        PROVE  \A s \in Runners : /\ cur'[s] = (IF s = r THEN 0 ELSE cur[s])
                                  /\ pc'[s] = (IF s = r THEN "loop" ELSE pc[s])
    BY <1>0, <1>7 DEF TypeOK
  <1>8. CASE Release(r)
    <2>1. pc[r] = "release" /\ job' = job /\ returned' = returned /\ faults' = faults
          /\ processed' = processed \ {cur[r]} /\ Ids' = Ids
      BY <1>8 DEF Release, Errored, Ids
    <2> QED
      BY <1>0, <1>7, <1>8, <2>1 DEF Release, Errored, Repeats
  <1>9. ASSUME pc[r] = "clone" PROVE cur[r] \in Ids /\ cur[r] \in returned
    <2>1. cur[r] \in Ids
      BY <1>0, <1>9 DEF TypeOK
    <2>2. cur[r] \in returned
      BY <1>9, Zenon DEF ClaimInv, ReturnedIsFinal
    <2> QED
      BY <2>1, <2>2
  <1>10. CASE NoRepeat(r) \/ RepeatRefused(r)
    <2>1. /\ pc[r] = "clone" /\ job' = job /\ returned' = returned /\ faults' = faults
          /\ processed' = processed /\ Ids' = Ids
          /\ cur' = [cur EXCEPT ![r] = 0] /\ pc' = [pc EXCEPT ![r] = "loop"]
      BY <1>10 DEF NoRepeat, RepeatRefused, Errored, table, Ids
    <2>2. ~Repeats(cur[r])
      BY <1>10 DEF NoRepeat, RepeatRefused, Repeats
    <2> QED
      BY <1>0, <1>7, <1>9, <2>1, <2>2 DEF Repeats
  <1>11. CASE Clone(r)
    <2>1. /\ pc[r] = "clone" /\ returned' = returned /\ faults' = faults /\ processed' = processed
          /\ cur' = [cur EXCEPT ![r] = 0] /\ pc' = [pc EXCEPT ![r] = "loop"]
          /\ job' = Append(job, Successor(cur[r])) /\ Repeats(cur[r])
      BY <1>11 DEF Clone
    <2>2. Successor(cur[r]) \in Row /\ Successor(cur[r]).parent = cur[r]
      <3>1. Successor(cur[r]) \in Row
        BY <1>0, <1>9, <2>1, SuccessorType
      <3>2. job[cur[r]] \in Row
        BY <1>0, <1>9, <2>1 DEF Ids
      <3> QED
        BY <3>1, <3>2 DEF Successor, Row
    <2>3. /\ Ids' = Ids \cup {Len(job) + 1} /\ Len(job) + 1 \notin Ids
          /\ \A i \in Ids : job'[i] = job[i]
          /\ job'[Len(job) + 1] = Successor(cur[r])
      BY <1>0, <2>1, <2>2, AppendProperties DEF Ids
    <2>4. StrandedRows' \subseteq StrandedRows
      BY <1>0, <1>7, <1>9, <2>1, <2>3 DEF TypeOK
    <2>5. ASSUME NEW id \in returned, Repeats(id)', ~Continued(id)'
          PROVE  Repeats(id) /\ ~Continued(id)
      <3>1. id \in Ids /\ job'[id] = job[id]
        BY <1>0, <2>3
      <3>2. id # cur[r]
        BY <2>2, <2>3, <2>5
      <3>3. \A i \in Ids : job[i].parent # id
        BY <2>3, <2>5
      <3>4. \A s \in Runners : ~(cur[s] = id /\ pc[s] = "clone")
        BY <1>7, <2>1, <2>5, <3>2
      <3> QED
        BY <2>5, <3>1, <3>3, <3>4 DEF Repeats
    <2>6. BrokenChains' \subseteq BrokenChains
      BY <2>1, <2>5
    <2> HIDE DEF StrandedRows, BrokenChains
    <2> QED
      BY <1>0, <2>1, <2>4, <2>6
  <1> QED
    BY <1>1, <1>2, <1>3, <1>4, <1>5, <1>6, <1>8, <1>10, <1>11 DEF RunnerStep

\* A fault loses at most the row its runner held or was claiming.
LEMMA RunnerFaultLosesOne ==
    ASSUME ClaimInv, NEW r \in Runners, RunnerFault(r)
    PROVE  OneLost
  <1> USE DEF StrandedRows, BrokenChains, Stranded, Held, Continued
  <1>0. /\ TypeOK /\ faults \in Nat /\ 0 \notin Ids /\ Ids \subseteq Nat
        /\ returned \subseteq Ids /\ unprocessed \cap processed = {}
        /\ job \in Seq(Row) /\ Len(job) \in Nat
    BY DEF ClaimInv, TypeOK, Ids
  <1>1. ASSUME NEW id, faults' = faults + 1, StrandedRows' \subseteq StrandedRows \cup {id},
               BrokenChains' \subseteq BrokenChains
        PROVE  OneLost
    <2> HIDE DEF StrandedRows, BrokenChains
    <2> QED
      BY <1>1 DEF OneLost
  <1>2. ASSUME NEW id, faults' = faults + 1, StrandedRows' \subseteq StrandedRows,
               BrokenChains' \subseteq BrokenChains \cup {id}
        PROVE  OneLost
    <2> HIDE DEF StrandedRows, BrokenChains
    <2> QED
      BY <1>2 DEF OneLost
  <1>3. ASSUME NEW id \in due[r], ClaimFails(r, id) PROVE OneLost
    <2>1. /\ faults' = faults + 1 /\ processed' \subseteq processed \cup {id}
          /\ UNCHANGED <<job, returned, pc, cur>> /\ Ids' = Ids
      BY <1>3 DEF ClaimFails, Fault, Ids
    <2>2. StrandedRows' \subseteq StrandedRows \cup {id}
      BY <2>1
    <2>3. BrokenChains' \subseteq BrokenChains
      BY <2>1 DEF Repeats
    <2> QED
      BY <1>1, <2>1, <2>2, <2>3
  <1>4. CASE ExecuterFails(r)
    <2>1. /\ faults' = faults + 1 /\ UNCHANGED <<job, processed, returned, cur>> /\ Ids' = Ids
          /\ pc[r] = "run" /\ \A s \in Runners : pc'[s] = (IF s = r THEN "release" ELSE pc[s])
      BY <1>0, <1>4 DEF ExecuterFails, Fault, table, Ids, TypeOK
    <2>2. StrandedRows' \subseteq StrandedRows \cup {0}
      BY <2>1
    <2>3. BrokenChains' \subseteq BrokenChains
      BY <2>1 DEF Repeats
    <2> QED
      BY <1>1, <2>1, <2>2, <2>3
  \* The runner lets go of its row, whatever it was doing with it.
  <1>5. ASSUME faults' = faults + 1, UNCHANGED <<job, processed, returned>>,
               \A s \in Runners : cur'[s] = (IF s = r THEN 0 ELSE cur[s]),
               \A s \in Runners \ {r} : pc'[s] = pc[s]
        PROVE  OneLost
    <2>1. Ids' = Ids
      BY <1>5 DEF Ids
    <2>2. StrandedRows' \subseteq StrandedRows \cup ({cur[r]} \ returned)
      BY <1>0, <1>5, <2>1
    <2>3. ASSUME NEW id \in BrokenChains', id # cur[r] PROVE id \in BrokenChains
      BY <1>5, <2>1, <2>3 DEF Repeats
    <2>4. BrokenChains' \subseteq BrokenChains \cup ({cur[r]} \cap returned)
      BY <1>5, <2>3
    <2> HIDE DEF StrandedRows, BrokenChains
    <2>5. CASE cur[r] \in returned
      BY <1>2, <1>5, <2>2, <2>4, <2>5
    <2>6. CASE cur[r] \notin returned
      BY <1>1, <1>5, <2>2, <2>4, <2>6
    <2> QED
      BY <2>5, <2>6
  <1>6. CASE ReleaseFails(r)
    BY <1>0, <1>5, <1>6 DEF ReleaseFails, Errored, Fault, TypeOK
  <1>7. CASE Crash(r)
    BY <1>0, <1>5, <1>7 DEF Crash, Fault, TypeOK, table
  <1>8. CASE CloneFails(r)
    <2>1. CASE UNCHANGED job
      BY <1>0, <1>5, <1>8, <2>1 DEF CloneFails, Errored, Fault, TypeOK
    <2>2. CASE job' = Append(job, Successor(cur[r]))
      <3>1. /\ pc[r] = "clone" /\ Repeats(cur[r]) /\ faults' = faults + 1
            /\ UNCHANGED <<processed, returned>>
            /\ \A s \in Runners : cur'[s] = (IF s = r THEN 0 ELSE cur[s])
            /\ \A s \in Runners \ {r} : pc'[s] = pc[s]
        BY <1>0, <1>8 DEF CloneFails, Errored, Fault, TypeOK
      <3>2. cur[r] \in Ids /\ cur[r] \in returned
        <4>1. cur[r] \in Ids
          BY <1>0, <3>1 DEF TypeOK
        <4>2. cur[r] \in returned
          BY <3>1, Zenon DEF ClaimInv, ReturnedIsFinal
        <4> QED
          BY <4>1, <4>2
      <3>3. /\ Ids' = Ids \cup {Len(job) + 1} /\ Len(job) + 1 \notin Ids
            /\ \A i \in Ids : job'[i] = job[i]
        <4>1. Successor(cur[r]) \in Row
          BY <1>0, <3>1, <3>2, SuccessorType
        <4> QED
          BY <1>0, <2>2, <4>1, AppendProperties DEF Ids
      <3>4. StrandedRows' \subseteq StrandedRows
        BY <1>0, <3>1, <3>2, <3>3 DEF TypeOK
      <3>5. ASSUME NEW id \in BrokenChains', id # cur[r] PROVE id \in BrokenChains
        <4>1. id \in returned /\ id \in Ids /\ job'[id] = job[id] /\ Repeats(id)' /\ ~Continued(id)'
          BY <1>0, <3>1, <3>3, <3>5
        <4>2. \A i \in Ids : job[i].parent # id
          BY <3>3, <4>1
        <4>3. \A s \in Runners : ~(cur[s] = id /\ pc[s] = "clone")
          BY <3>1, <3>5, <4>1
        <4> QED
          BY <4>1, <4>2, <4>3 DEF Repeats
      <3>6. BrokenChains' \subseteq BrokenChains \cup {cur[r]}
        BY <3>5
      <3> QED
        BY <1>2, <3>1, <3>4, <3>6
    <2> QED
      BY <1>8, <2>1, <2>2 DEF CloneFails
  <1> QED
    BY <1>3, <1>4, <1>6, <1>7, <1>8 DEF RunnerFault

\* The requests and the calendar hold no row and only add and delete rows.
LEMMA QuietLosesNothing ==
    ASSUME ClaimInv, UNCHANGED <<runner, returned>>, faults' >= faults,
           \A id \in Ids : id \in Ids' /\ job'[id] = job[id],
           processed' \subseteq processed
    PROVE  NothingLost
  <1>0. TypeOK /\ returned \subseteq Ids
    BY DEF ClaimInv, TypeOK
  <1>1. StrandedRows' \subseteq StrandedRows
    BY <1>0 DEF StrandedRows, Stranded, Held, TypeOK, runner
  <1>2. ASSUME NEW id \in BrokenChains' PROVE id \in BrokenChains
    BY <1>0, <1>2 DEF BrokenChains, Repeats, Continued, runner
  <1> QED
    BY <1>1, <1>2 DEF NothingLost

LEMMA NextLosses ==
    ASSUME OrderInv, [Next]_vars
    PROVE  NothingLost \/ OneLost
  <1>0. ClaimInv /\ TypeOK /\ \A id \in Ids : id \in Ids' /\ job'[id] = job[id]
    BY RowsStep, RowsGrow DEF OrderInv, ClaimInv
  <1>1. ASSUME \/ \E q \in Requests : WebStep(q)
               \/ \E a \in Accounts : ScheduleClose(a)
               \/ NextDay
               \/ UNCHANGED vars
        PROVE  NothingLost
    <2>1. UNCHANGED <<runner, returned>>
      BY <1>0, <1>1, WebClaimInv DEF vars, table
    <2>2. processed' \subseteq processed /\ faults' = faults
      BY <1>1 DEF WebStep, BeginBirthday, BeginReminders, BeginPayout, Begin, ScheduleNotification,
                  Commit, Rollback, ScheduleClose, NextDay, vars, table
    <2>3. faults' >= faults
      BY <1>0, <2>2 DEF TypeOK
    <2> QED
      BY <1>0, <2>1, <2>2, <2>3, QuietLosesNothing
  <1> QED
    BY <1>0, <1>1, RunnerStepLosesNothing, RunnerFaultLosesOne DEF Next

LossInv == OrderInv /\ LossNeedsFault

LEMMA InitLossInv == Init => LossInv
  <1> SUFFICES ASSUME Init PROVE LossInv
    OBVIOUS
  <1>1. StrandedRows = {} /\ BrokenChains = {}
    BY DEF Init, StrandedRows, BrokenChains, Stranded
  <1>2. Cardinality(StrandedRows) = 0 /\ Cardinality(BrokenChains) = 0 /\ faults = 0
    BY <1>1, FS_EmptySet DEF Init
  <1>3. LossNeedsFault
    BY <1>2 DEF LossNeedsFault, StrandedRows, BrokenChains
  <1> QED
    BY <1>3, InitOrderInv DEF LossInv

LEMMA NextLossInv == LossInv /\ [Next]_vars => LossInv'
  <1> SUFFICES ASSUME LossInv, [Next]_vars PROVE LossInv'
    OBVIOUS
  <1>1. OrderInv /\ OrderInv' /\ TypeOK /\ TypeOK'
    BY NextOrderInv DEF LossInv, OrderInv, ClaimInv
  <1>2. faults' \in Nat
    BY <1>1 DEF TypeOK
  <1> QED
    BY <1>1, <1>2, NextLosses, LossCounted DEF LossInv

\* Each lost answer, failed statement or crash costs at most one task its run or
\* one repeating task its next date, and nothing else costs any.
THEOREM LossIsCounted == Spec => []LossNeedsFault
  BY InitLossInv, NextLossInv, PTL DEF Spec, LossInv

-----------------------------------------------------------------------------
(***************************************************************************)
(* What the transactions hold.  A transaction adds only rows that          *)
(* scheduleNotification makes for its owner, deletes only rows of its kind *)
(* and owner, and the row lock leaves one transaction of an operation on   *)
(* an owner.                                                               *)
(***************************************************************************)
TxShape(t) ==
    /\ \A i \in 1..Len(t.add) : t.add[i] = NewRow(KindOf(t.op), t.owner, t.add[i].date)
    /\ t.op = "none" => t.todo = {} /\ t.add = <<>> /\ t.drop = {}
    /\ t.op = "reminders" => t.drop = {}
    /\ t.op = "payout" => t.add = <<>> /\ t.todo = {}
    /\ t.op = "birthday" => \/ t.todo = {} /\ Len(t.add) <= 1
                            \/ t.add = <<>> /\ \E d \in Nat : t.todo = {d}
OneTxPerOwner ==
    \A p, q \in Requests :
        tx[p].op # "none" /\ tx[p].op = tx[q].op /\ tx[p].owner = tx[q].owner => p = q
DropsItsOwn ==
    \A q \in Requests : \A id \in tx[q].drop :
        job[id].kind = KindOf(tx[q].op) /\ job[id].owner = tx[q].owner
TxInv == OneTxPerOwner /\ DropsItsOwn /\ \A q \in Requests : TxShape(tx[q])

\* A runner leaves the transactions alone, and so do a new account and a new day.
LEMMA OthersKeepTx ==
    ASSUME \/ \E r \in Runners : RunnerStep(r) \/ RunnerFault(r)
           \/ \E a \in Accounts : ScheduleClose(a)
           \/ NextDay \/ UNCHANGED vars
    PROVE  UNCHANGED <<tx, overlaps>>
  BY DEF RunnerStep, RunnerFault, StartPass, UnknownType, ClaimWon, ClaimLost,
         ExecuterReturns, ExecuterRejects, Release, NoRepeat, Clone, RepeatRefused,
         EndPass, ClaimFails, ExecuterFails, ReleaseFails, CloneFails, Crash, Errored, web,
         ScheduleClose, NextDay, vars

LEMMA AfterShape ==
    ASSUME TypeOK, NEW q \in Requests, TxShape(tx[q]), NEW d \in tx[q].todo, NEW add \in Seq(Row),
           AddsOn(q, d, add)
    PROVE  TxShape(After(q, d, add))
  <1> DEFINE t == tx[q]  u == After(q, d, add)
  <1>1. /\ u.op = t.op /\ u.owner = t.owner /\ u.todo = t.todo \ {d} /\ u.drop = t.drop
        /\ u.add = add
    BY AfterFields, TxTypes
  <1>2. t.op # "none" /\ t.op # "payout"
    BY DEF TxShape
  <1>3. \A i \in 1..Len(add) : add[i] = NewRow(KindOf(t.op), t.owner, add[i].date)
    <2>1. CASE add = t.add
      BY <2>1 DEF TxShape
    <2>2. ASSUME add # t.add, NEW i \in 1..Len(add)
          PROVE  add[i] = NewRow(KindOf(t.op), t.owner, add[i].date)
      <3>1. /\ Len(add) = Len(t.add) + 1 /\ Len(t.add) \in Nat
            /\ \A j \in 1..Len(t.add) : add[j] = t.add[j]
            /\ add[Len(t.add) + 1] = NewRow(KindOf(t.op), t.owner, d)
        BY <2>2, AddedRows, TxTypes
      <3>2. CASE i \in 1..Len(t.add)
        BY <3>1, <3>2 DEF TxShape
      <3>3. CASE i = Len(t.add) + 1
        BY <3>1, <3>3, NewRowFields
      <3> QED
        BY <2>2, <3>1, <3>2, <3>3
    <2> QED
      BY <2>1, <2>2
  <1>4. ASSUME t.op = "birthday" PROVE u.todo = {} /\ Len(add) <= 1
    <2>1. t.todo = {d} /\ t.add = <<>>
      BY <1>4 DEF TxShape
    <2>2. Len(t.add) = 0
      BY <2>1
    <2>3. CASE add = t.add
      BY <1>1, <2>1, <2>2, <2>3
    <2>4. CASE add # t.add
      <3>1. Len(add) = Len(t.add) + 1
        BY <2>4, AddedRows
      <3> QED
        BY <1>1, <2>1, <2>2, <3>1
    <2> QED
      BY <2>3, <2>4
  <1> QED
    BY <1>1, <1>2, <1>3, <1>4 DEF TxShape

LEMMA BeginShapes ==
    ASSUME NEW t, t.add = <<>>, t.op = "birthday" => \E d \in Nat : t.todo = {d},
           t.op = "reminders" => t.drop = {}, t.op = "payout" => t.todo = {}, t.op # "none"
    PROVE  TxShape(t)
  <1>1. Len(t.add) = 0
    OBVIOUS
  <1>2. \A i \in 1..Len(t.add) : t.add[i] = NewRow(KindOf(t.op), t.owner, t.add[i].date)
    BY <1>1
  <1> QED
    BY <1>2, Zenon DEF TxShape

LEMMA NoTxShape == TxShape(NoTx) /\ NoTx.op = "none" /\ NoTx.drop = {}
  <1>1. /\ NoTx.op = "none" /\ NoTx.drop = {} /\ NoTx.todo = {} /\ NoTx.add = <<>>
        /\ Len(NoTx.add) = 0
    BY DEF NoTx
  <1> QED
    BY <1>1 DEF TxShape

LEMMA Begins ==
    ASSUME TypeOK, NEW q \in Requests,
           \/ \E m \in Members : BeginBirthday(q, m)
           \/ \E l \in Loans : BeginReminders(q, l) \/ BeginPayout(q, l)
    PROVE  \E t \in Tx :
             /\ tx[q].op = "none" /\ Free(t.op, t.owner)
             /\ tx' = [tx EXCEPT ![q] = t]
             /\ UNCHANGED <<table, day, runner, faults>>
             /\ t.op # "none" /\ TxShape(t) /\ t.add = <<>>
             /\ \A id \in t.drop : /\ job[id].kind = KindOf(t.op) /\ job[id].owner = t.owner
                                   /\ id \in Present
             /\ \/ t.op # "birthday" /\ overlaps' = overlaps
                \/ /\ t.op = "birthday" /\ t.owner \in Members
                   /\ t.drop = RowsOf("birthdate", t.owner)
                   /\ overlaps' = IF HeldKind("birthdate", t.owner) THEN overlaps + 1
                                  ELSE overlaps
  <1> DEFINE T(op, o, todo, drop) == [op |-> op, owner |-> o, todo |-> todo,
                                      drop |-> drop, add |-> <<>>]
  <1>0. <<>> \in Seq(Row) /\ (unprocessed \cup processed) \subseteq Ids /\ Ids \subseteq Nat
    BY DEF TypeOK, Ids
  <1>1. ASSUME NEW m \in Members, BeginBirthday(q, m)
        PROVE  \E d \in Nat :
                 /\ Begin(q, "birthday", m, {d}, RowsOf("birthdate", m))
                 /\ overlaps' = IF HeldKind("birthdate", m) THEN overlaps + 1 ELSE overlaps
    <2>1. PICK d \in day..(day + Step[Yearly]) :
                 /\ Begin(q, "birthday", m, {d}, RowsOf("birthdate", m))
                 /\ overlaps' = IF HeldKind("birthdate", m) THEN overlaps + 1 ELSE overlaps
      BY <1>1 DEF BeginBirthday
    <2>2. d \in Nat
      BY <2>1, Constants DEF TypeOK, Yearly
    <2> QED
      BY <2>1, <2>2
  <1>2. CASE \E m \in Members : BeginBirthday(q, m)
    <2>1. PICK m \in Members, d \in Nat :
                 /\ Begin(q, "birthday", m, {d}, RowsOf("birthdate", m))
                 /\ overlaps' = IF HeldKind("birthdate", m) THEN overlaps + 1 ELSE overlaps
      BY <1>1, <1>2
    <2> DEFINE t == T("birthday", m, {d}, RowsOf("birthdate", m))
    <2>2. t \in Tx
      BY <1>0 DEF Tx, Ops, Owners, RowsOf, Present
    <2>3. TxShape(t)
      BY BeginShapes
    <2> QED
      BY <2>1, <2>2, <2>3 DEF Begin, RowsOf, KindOf
  <1>3. ASSUME NEW l \in Loans, BeginReminders(q, l) PROVE
             /\ overlaps' = overlaps
             /\ \E todo \in SUBSET Nat : Begin(q, "reminders", l, todo, {})
    <2>1. PICK payday \in 0..MaxDay :
             /\ Begin(q, "reminders", l, {payday - k : k \in {k \in Leads : k <= payday}}, {})
             /\ UNCHANGED overlaps
      BY <1>3 DEF BeginReminders
    <2>2. {payday - k : k \in {k \in Leads : k <= payday}} \subseteq Nat
      BY Constants
    <2> QED
      BY <2>1, <2>2
  <1>4. CASE \E l \in Loans : BeginReminders(q, l)
    <2>1. PICK l \in Loans, todo \in SUBSET Nat :
             overlaps' = overlaps /\ Begin(q, "reminders", l, todo, {})
      BY <1>3, <1>4
    <2> DEFINE t == T("reminders", l, todo, {})
    <2>2. t \in Tx
      BY <1>0 DEF Tx, Ops, Owners
    <2>3. TxShape(t)
      BY BeginShapes
    <2> QED
      BY <2>1, <2>2, <2>3 DEF Begin
  <1>5. CASE \E l \in Loans : BeginPayout(q, l)
    <2>1. PICK l \in Loans : /\ Begin(q, "payout", l, {}, RowsOf("payment_reminder", l))
                             /\ overlaps' = overlaps
      BY <1>5 DEF BeginPayout
    <2> DEFINE t == T("payout", l, {}, RowsOf("payment_reminder", l))
    <2>2. t \in Tx
      BY <1>0 DEF Tx, Ops, Owners, RowsOf, Present
    <2>3. TxShape(t)
      BY BeginShapes
    <2> QED
      BY <2>1, <2>2, <2>3 DEF Begin, RowsOf, KindOf
  <1> QED
    BY <1>2, <1>4, <1>5

LEMMA NextTxInv ==
    ASSUME TypeOK, TxInv, [Next]_vars, \A id \in Ids : id \in Ids' /\ job'[id] = job[id]
    PROVE  TxInv'
  <1>0. \A q \in Requests : tx[q].drop \subseteq Ids
    BY TxTypes
  <1>1. ASSUME NEW q \in Requests, NEW t, tx' = [tx EXCEPT ![q] = t], TxShape(t),
               \A id \in t.drop : id \in Ids /\ job[id].kind = KindOf(t.op)
                                  /\ job[id].owner = t.owner,
               \/ t.op = "none"
               \/ t.op = tx[q].op /\ t.owner = tx[q].owner
               \/ Free(t.op, t.owner)
        PROVE  TxInv'
    <2>1. tx \in [Requests -> Tx]
      BY DEF TypeOK
    <2>2. \A p \in Requests : tx'[p] = IF p = q THEN t ELSE tx[p]
      BY <1>1, <2>1
    <2>3. OneTxPerOwner'
      BY <1>1, <2>2 DEF TxInv, OneTxPerOwner, Free
    <2>4. DropsItsOwn'
      BY <1>0, <1>1, <2>2 DEF TxInv, DropsItsOwn
    <2>5. \A p \in Requests : TxShape(tx'[p])
      BY <1>1, <2>2 DEF TxInv
    <2> QED
      BY <2>3, <2>4, <2>5 DEF TxInv
  <1>2. ASSUME NEW q \in Requests, WebStep(q) PROVE TxInv'
    <2>1. CASE \/ \E m \in Members : BeginBirthday(q, m)
               \/ \E l \in Loans : BeginReminders(q, l) \/ BeginPayout(q, l)
      <3>1. PICK t \in Tx :
               /\ Free(t.op, t.owner) /\ tx' = [tx EXCEPT ![q] = t] /\ TxShape(t)
               /\ \A id \in t.drop : /\ job[id].kind = KindOf(t.op)
                                     /\ job[id].owner = t.owner /\ id \in Present
        BY <2>1, Begins
      <3>2. Present \subseteq Ids
        BY DEF TypeOK, Present
      <3> QED
        BY <1>1, <3>1, <3>2
    <2>2. CASE ScheduleNotification(q)
      <3>1. PICK d \in tx[q].todo, add \in Seq(Row) :
               AddsOn(q, d, add) /\ tx' = [tx EXCEPT ![q] = After(q, d, add)]
        BY <2>2, Schedules
      <3>2. /\ After(q, d, add).op = tx[q].op /\ After(q, d, add).owner = tx[q].owner
            /\ After(q, d, add).drop = tx[q].drop
        BY TxTypes, AfterFields
      <3>3. TxShape(After(q, d, add))
        BY <3>1, AfterShape DEF TxInv
      <3> DEFINE u == After(q, d, add)
      <3>4. \A id \in u.drop : id \in Ids /\ job[id].kind = KindOf(u.op)
                               /\ job[id].owner = u.owner
        BY <1>0, <3>2 DEF TxInv, DropsItsOwn
      <3>5. tx' = [tx EXCEPT ![q] = u] /\ u.op = tx[q].op /\ u.owner = tx[q].owner /\ TxShape(u)
        BY <3>1, <3>2, <3>3
      <3> HIDE DEF u
      <3> QED
        BY <1>1, <3>4, <3>5
    <2>3. CASE Commit(q) \/ Rollback(q)
      <3> DEFINE u == NoTx
      <3>1. tx' = [tx EXCEPT ![q] = u] /\ TxShape(u) /\ u.op = "none"
        BY <2>3, NoTxShape DEF Commit, Rollback
      <3>2. \A id \in u.drop : id \in Ids /\ job[id].kind = KindOf(u.op)
                               /\ job[id].owner = u.owner
        BY NoTxShape
      <3> HIDE DEF u
      <3> QED
        BY <1>1, <3>1, <3>2
    <2> QED
      BY <1>2, <2>1, <2>2, <2>3 DEF WebStep
  <1>3. ASSUME UNCHANGED tx PROVE TxInv'
    BY <1>0, <1>3 DEF TxInv, OneTxPerOwner, DropsItsOwn
  <1> QED
    BY <1>2, <1>3, OthersKeepTx DEF Next

\* The rows a commit inserts.
LEMMA Commits ==
    ASSUME TypeOK, NEW q \in Requests, Commit(q)
    PROVE  /\ \A id \in Ids : id \in Ids' /\ job'[id] = job[id]
           /\ \A id \in Ids' \ Ids : \E i \in 1..Len(tx[q].add) :
                id = Len(job) + i /\ job'[id] = tx[q].add[i]
           /\ Len(job) \in Nat
           /\ unprocessed' = (unprocessed \ tx[q].drop) \cup (Ids' \ Ids)
           /\ processed' = processed \ tx[q].drop
           /\ tx' = [tx EXCEPT ![q] = NoTx]
           /\ UNCHANGED <<returned, day, runner, overlaps, faults>>
  <1>1. tx[q].add \in Seq(Row) /\ job \in Seq(Row) /\ job' = job \o tx[q].add
    BY TxTypes DEF Commit, TypeOK
  <1>2. /\ Len(job) \in Nat /\ Len(tx[q].add) \in Nat
        /\ Len(job') = Len(job) + Len(tx[q].add)
        /\ \A i \in 1..Len(job) + Len(tx[q].add) :
             job'[i] = IF i <= Len(job) THEN job[i] ELSE tx[q].add[i - Len(job)]
    BY <1>1, ConcatProperties, LenProperties
  <1>3. \A id \in Ids : id \in Ids' /\ job'[id] = job[id]
    BY <1>2 DEF Ids
  <1>4. ASSUME NEW id \in Ids' \ Ids
        PROVE  \E i \in 1..Len(tx[q].add) : id = Len(job) + i /\ job'[id] = tx[q].add[i]
    <2>1. id - Len(job) \in 1..Len(tx[q].add) /\ job'[id] = tx[q].add[id - Len(job)]
      BY <1>2 DEF Ids
    <2>2. id = Len(job) + (id - Len(job))
      BY <1>2 DEF Ids
    <2> QED
      BY <2>1, <2>2
  <1>5. (Len(job)+1)..(Len(job)+Len(tx[q].add)) = Ids' \ Ids
    BY <1>2 DEF Ids
  <1> QED
    BY <1>2, <1>3, <1>4, <1>5 DEF Commit

LEMMA Closes ==
    ASSUME TypeOK, NEW a \in Accounts, ScheduleClose(a)
    PROVE  /\ Ids' = Ids \cup {Len(job) + 1} /\ Len(job) + 1 \notin Ids
           /\ \A id \in Ids : job'[id] = job[id]
           /\ job'[Len(job) + 1].kind = "close_saving_account"
           /\ unprocessed' = unprocessed \cup {Len(job) + 1}
           /\ UNCHANGED <<processed, returned, day, runner, tx, overlaps, faults>>
  <1>1. PICK d \in 0..MaxDay : job' = Append(job, NewRow("close_saving_account", a, d))
    BY DEF ScheduleClose
  <1> DEFINE row == NewRow("close_saving_account", a, d)
  <1>2. row \in Row /\ row.kind = "close_saving_account"
    BY NewRowType DEF Kinds, Owners, NewRow
  <1> HIDE DEF row
  <1>3. job \in Seq(Row) /\ job' = Append(job, row)
    BY <1>1 DEF TypeOK, row
  <1>4. /\ Len(job) \in Nat /\ Len(job') = Len(job) + 1 /\ job'[Len(job) + 1] = row
        /\ \A i \in 1..Len(job) : job'[i] = job[i]
    BY <1>2, <1>3, AppendProperties
  <1> QED
    BY <1>2, <1>4 DEF Ids, ScheduleClose

LEMMA Clones ==
    ASSUME TypeOK, NEW r \in Runners, Cloned(r)
    PROVE  /\ cur[r] \in Ids /\ Repeats(cur[r])
           /\ Ids' = Ids \cup {Len(job) + 1} /\ Len(job) + 1 \notin Ids
           /\ \A id \in Ids : job'[id] = job[id]
           /\ job'[Len(job) + 1].kind = job[cur[r]].kind
           /\ job'[Len(job) + 1].owner = job[cur[r]].owner
           /\ job'[Len(job) + 1].sound = job[cur[r]].sound
           /\ job'[Len(job) + 1].repeat = job[cur[r]].repeat
  <1>1. cur[r] \in Ids /\ Repeats(cur[r]) /\ job' = Append(job, Successor(cur[r]))
    BY DEF Cloned, TypeOK
  <1>2. job \in Seq(Row) /\ Successor(cur[r]) \in Row /\ job[cur[r]] \in Row
    BY <1>1, SuccessorType DEF TypeOK, Ids
  <1>3. /\ Len(job) \in Nat /\ Len(job') = Len(job) + 1
        /\ job'[Len(job) + 1] = Successor(cur[r])
        /\ \A i \in 1..Len(job) : job'[i] = job[i]
    BY <1>1, <1>2, AppendProperties
  <1>4. /\ Successor(cur[r]).kind = job[cur[r]].kind /\ Successor(cur[r]).owner = job[cur[r]].owner
        /\ Successor(cur[r]).sound = job[cur[r]].sound
        /\ Successor(cur[r]).repeat = job[cur[r]].repeat
    BY <1>2 DEF Successor, Row
  <1> QED
    BY <1>1, <1>3, <1>4 DEF Ids

-----------------------------------------------------------------------------
(***************************************************************************)
(* Reminders.  Two rows of one reminder cannot both wait: a transaction    *)
(* adds none it has seen or added, it is the only one of its loan, and     *)
(* without a fault a runner offers nothing it has claimed but a row whose  *)
(* payload is malformed.                                                   *)
(***************************************************************************)
IsReminder(row) == row.kind = "payment_reminder" /\ row.sound
SameReminder(x, y) == x.owner = y.owner /\ x.date = y.date

RemindersDoNotRepeat == \A id \in Ids : IsReminder(job[id]) => ~Repeats(id)
RejectedAreUnsound == \A r \in Runners : pc[r] = "release" => ~job[cur[r]].sound
NoTwins ==
    \A i, j \in unprocessed :
        IsReminder(job[i]) /\ IsReminder(job[j]) /\ SameReminder(job[i], job[j]) => i = j
NoTwinOf(t) ==
    /\ \A i \in 1..Len(t.add) : t.add[i].date \notin t.todo
    /\ \A i, j \in 1..Len(t.add) : t.add[i].date = t.add[j].date => i = j
    /\ \A i \in 1..Len(t.add) : \A id \in unprocessed :
         IsReminder(job[id]) => ~SameReminder(job[id], t.add[i])
NoTwinAdded == \A q \in Requests : tx[q].op = "reminders" => NoTwinOf(tx[q])

\* The rows the table holds at first: a reminder does not repeat, and is there once.
LegacyReminders ==
    /\ \A i \in 1..Len(Legacy) : IsReminder(Legacy[i]) => Legacy[i].repeat \notin 1..4
    /\ \A i, j \in 1..Len(Legacy) :
         /\ IsReminder(Legacy[i]) /\ IsReminder(Legacy[j])
         /\ SameReminder(Legacy[i], Legacy[j])
         => i = j

ReminderInv ==
    /\ OrderInv /\ TxInv /\ RemindersDoNotRepeat
    /\ faults = 0 => RejectedAreUnsound /\ NoTwins /\ NoTwinAdded

LEMMA InitTxInv == Init => TxInv
  <1> SUFFICES ASSUME Init PROVE TxInv
    OBVIOUS
  <1>1. \A q \in Requests : tx[q] = NoTx
    BY DEF Init
  <1>2. DropsItsOwn /\ OneTxPerOwner
    BY <1>1, NoTxShape DEF DropsItsOwn, OneTxPerOwner
  <1> QED
    BY <1>1, <1>2, NoTxShape DEF TxInv

LEMMA InitReminderInv == LegacyReminders /\ Init => ReminderInv
  <1> SUFFICES ASSUME LegacyReminders, Init PROVE ReminderInv
    OBVIOUS
  <1>1. RemindersDoNotRepeat
    BY DEF Init, LegacyReminders, RemindersDoNotRepeat, Ids, Repeats
  <1>2. RejectedAreUnsound
    BY DEF Init, RejectedAreUnsound
  <1>3. NoTwins
    BY DEF Init, LegacyReminders, NoTwins
  <1>4. NoTwinAdded
    BY NoTxShape DEF Init, NoTwinAdded
  <1> QED
    BY <1>1, <1>2, <1>3, <1>4, InitOrderInv, InitTxInv DEF ReminderInv

\* A row that repeats is the clone of one that does; what requests write of
\* reminders does not.
LEMMA NextRemindersDoNotRepeat ==
    ASSUME TypeOK, TxInv, AddedAreRoots, RemindersDoNotRepeat, [Next]_vars
    PROVE  RemindersDoNotRepeat'
  <1>1. RowsKept \/ RootsAdded \/ \E r \in Runners : Cloned(r)
    BY RowsStep
  <1>2. \A id \in Ids : id \in Ids' /\ job'[id] = job[id]
    BY <1>1, RowsGrow
  <1>3. CASE RowsKept
    BY <1>3 DEF RowsKept, RemindersDoNotRepeat, Repeats, Ids
  <1>4. ASSUME NEW r \in Runners, Cloned(r) PROVE RemindersDoNotRepeat'
    <2>1. /\ cur[r] \in Ids /\ Repeats(cur[r]) /\ Ids' = Ids \cup {Len(job) + 1}
          /\ job'[Len(job) + 1].kind = job[cur[r]].kind
          /\ job'[Len(job) + 1].sound = job[cur[r]].sound
      BY <1>4, Clones
    <2> QED
      BY <1>2, <2>1 DEF RemindersDoNotRepeat, IsReminder, Repeats
  <1>5. ASSUME NEW q \in Requests, Commit(q) PROVE RemindersDoNotRepeat'
    <2>1. ASSUME NEW id \in Ids' \ Ids, IsReminder(job'[id]) PROVE job'[id].repeat \notin 1..4
      <3>1. PICK i \in 1..Len(tx[q].add) : job'[id] = tx[q].add[i]
        BY <1>5, Commits
      <3>2. job'[id] = NewRow(KindOf(tx[q].op), tx[q].owner, job'[id].date)
        BY <3>1 DEF TxInv, TxShape
      <3>3. KindOf(tx[q].op) = "payment_reminder"
        BY <2>1, <3>2, NewRowFields DEF IsReminder
      <3>4. job'[id].repeat = 0
        BY <3>2, <3>3, NewRowFields
      <3> QED
        BY <3>4
    <2> QED
      BY <1>2, <2>1 DEF RemindersDoNotRepeat, Repeats
  <1>6. ASSUME NEW a \in Accounts, ScheduleClose(a) PROVE RemindersDoNotRepeat'
    BY <1>2, <1>6, Closes DEF RemindersDoNotRepeat, Repeats, IsReminder
  <1>7. ASSUME RootsAdded PROVE \/ RowsKept \/ \E q \in Requests : Commit(q)
                                \/ \E a \in Accounts : ScheduleClose(a)
    <2>1. ASSUME NEW r \in Runners, RunnerStep(r) \/ RunnerFault(r) PROVE RowsKept \/ Cloned(r)
      BY <2>1 DEF RunnerStep, StartPass, UnknownType, ClaimWon, ClaimLost, ExecuterReturns,
                  ExecuterRejects, Release, NoRepeat, Clone, RepeatRefused, EndPass, table,
                  RowsKept, Cloned, RunnerFault, ClaimFails, ExecuterFails, ReleaseFails, Crash,
                  CloneFails, Errored
    <2>2. ASSUME NEW r \in Runners, Cloned(r) PROVE FALSE
      BY <1>7, <2>2 DEF Cloned, RootsAdded, TypeOK
    <2>3. ASSUME NEW q \in Requests, WebStep(q) PROVE RowsKept \/ Commit(q)
      BY <2>3 DEF WebStep, BeginBirthday, BeginReminders, BeginPayout, Begin,
                  ScheduleNotification, Rollback, table, RowsKept
    <2> QED
      BY <2>1, <2>2, <2>3 DEF Next, NextDay, vars, table, RowsKept
  <1> QED
    BY <1>1, <1>3, <1>4, <1>5, <1>6, <1>7

\* Every fault is counted.
LEMMA NoFaultYet ==
    ASSUME TypeOK, [Next]_vars, faults' = 0
    PROVE  faults = 0 /\ \A r \in Runners : ~RunnerFault(r)
  <1>1. faults \in Nat
    BY Constants DEF TypeOK
  <1>2. ASSUME NEW r \in Runners, RunnerFault(r) PROVE FALSE
    BY <1>1, <1>2 DEF RunnerFault, ClaimFails, ExecuterFails, ReleaseFails, CloneFails, Crash,
                      Fault
  <1>3. ASSUME NEW r \in Runners, RunnerStep(r) PROVE faults' = faults
    BY <1>3 DEF RunnerStep, StartPass, UnknownType, ClaimWon, ClaimLost, ExecuterReturns,
                ExecuterRejects, Release, NoRepeat, Clone, RepeatRefused, EndPass
  <1>4. ASSUME NEW q \in Requests, WebStep(q) PROVE faults' = faults
    BY <1>4 DEF WebStep, BeginBirthday, BeginReminders, BeginPayout, Begin,
                ScheduleNotification, Commit, Rollback
  <1>5. (\E a \in Accounts : ScheduleClose(a)) \/ NextDay \/ UNCHANGED vars => faults' = faults
    BY DEF ScheduleClose, NextDay, vars
  <1> QED
    BY <1>2, <1>3, <1>4, <1>5 DEF Next

\* No reminder is offered that was not.
NothingOffered ==
    \A id \in unprocessed' : IsReminder(job'[id]) => id \in unprocessed /\ job'[id] = job[id]

LEMMA NothingOfferedKeeps ==
    ASSUME TypeOK, NoTwins, NoTwinAdded, NothingOffered,
           \A q \in Requests : tx'[q] = tx[q] \/ tx'[q].op # "reminders" \/ tx'[q].add = <<>>
    PROVE  NoTwins' /\ NoTwinAdded'
  <1>1. NoTwins'
    BY DEF NoTwins, NothingOffered
  <1>2. ASSUME NEW q \in Requests, tx'[q].op = "reminders" PROVE NoTwinOf(tx[q])'
    <2>1. CASE tx'[q].add = <<>>
      <3>1. Len(tx'[q].add) = 0
        BY <2>1
      <3> QED
        BY <3>1 DEF NoTwinOf
    <2>2. CASE tx'[q] = tx[q]
      BY <1>2, <2>2 DEF NoTwinAdded, NoTwinOf, NothingOffered
    <2> QED
      BY <1>2, <2>1, <2>2
  <1> QED
    BY <1>1, <1>2 DEF NoTwinAdded

\* Without a fault, a runner offers malformed rows and clones of rows that repeat.
LEMMA RunnerOffers ==
    ASSUME ClaimInv, RemindersDoNotRepeat, RejectedAreUnsound, NEW r \in Runners, RunnerStep(r)
    PROVE  NothingOffered /\ RejectedAreUnsound'
  <1> USE DEF ClaimInv
  <1>0. /\ unprocessed \subseteq Ids /\ cur \in [Runners -> Ids \cup {0}]
        /\ \A s \in Runners : cur[s] = 0 <=> pc[s] \in {"idle", "loop"}
        /\ pc \in [Runners -> {"idle", "loop", "run", "release", "clone"}]
    BY DEF TypeOK
  <1>1. CASE StartPass(r) \/ EndPass(r) \/ NoRepeat(r) \/ RepeatRefused(r)
    <2>1. job' = job /\ unprocessed' = unprocessed
      BY <1>1 DEF StartPass, EndPass, NoRepeat, RepeatRefused, table
    <2>2. \A s \in Runners : pc'[s] = "release" => pc[s] = "release" /\ cur'[s] = cur[s]
      BY <1>0, <1>1 DEF StartPass, EndPass, NoRepeat, RepeatRefused, Errored
    <2> QED
      BY <2>1, <2>2 DEF NothingOffered, RejectedAreUnsound
  <1>2. ASSUME NEW id \in due[r], UnknownType(r, id) \/ ClaimWon(r, id) \/ ClaimLost(r, id)
        PROVE  NothingOffered /\ RejectedAreUnsound'
    <2>1. job' = job /\ unprocessed' \subseteq unprocessed
      BY <1>2 DEF UnknownType, ClaimWon, ClaimLost, table
    <2>2. \A s \in Runners : pc'[s] = "release" => pc[s] = "release" /\ cur'[s] = cur[s]
      BY <1>0, <1>2 DEF UnknownType, ClaimWon, ClaimLost
    <2> QED
      BY <2>1, <2>2 DEF NothingOffered, RejectedAreUnsound
  <1>3. CASE ExecuterReturns(r) \/ ExecuterRejects(r)
    <2>1. job' = job /\ unprocessed' = unprocessed /\ cur' = cur
      BY <1>3 DEF ExecuterReturns, ExecuterRejects, table
    <2>2. \A s \in Runners : pc'[s] = "release" => pc[s] = "release" \/ ~job[cur[s]].sound
      BY <1>0, <1>3 DEF ExecuterReturns, ExecuterRejects
    <2> QED
      BY <2>1, <2>2 DEF NothingOffered, RejectedAreUnsound
  <1>4. CASE Release(r)
    <2>1. job' = job /\ unprocessed' \subseteq unprocessed \cup {cur[r]} /\ pc[r] = "release"
      BY <1>4 DEF Release
    <2>2. ~job[cur[r]].sound
      BY <2>1 DEF RejectedAreUnsound
    <2>3. \A s \in Runners : pc'[s] = "release" => pc[s] = "release" /\ cur'[s] = cur[s]
      BY <1>0, <1>4 DEF Release, Errored
    <2> QED
      BY <2>1, <2>2, <2>3 DEF NothingOffered, RejectedAreUnsound, IsReminder
  <1>5. CASE Clone(r)
    <2>1. Cloned(r) /\ unprocessed' = unprocessed \cup {Len(job) + 1}
      BY <1>5 DEF Clone, Cloned
    <2>2. /\ cur[r] \in Ids /\ Repeats(cur[r]) /\ \A id \in Ids : job'[id] = job[id]
          /\ job'[Len(job) + 1].kind = job[cur[r]].kind
          /\ job'[Len(job) + 1].sound = job[cur[r]].sound
      BY <2>1, Clones
    <2>3. ~IsReminder(job'[Len(job) + 1])
      BY <2>2 DEF RemindersDoNotRepeat, IsReminder
    <2>4. \A s \in Runners : pc'[s] = "release" => /\ pc[s] = "release" /\ cur'[s] = cur[s]
                                                   /\ cur[s] \in Ids
      BY <1>0, <2>1 DEF Cloned
    <2>5. NothingOffered
      BY <1>0, <2>1, <2>2, <2>3 DEF NothingOffered
    <2> QED
      BY <2>2, <2>4, <2>5 DEF RejectedAreUnsound
  <1> QED
    BY <1>1, <1>2, <1>3, <1>4, <1>5 DEF RunnerStep

\* What scheduleNotification adds is no twin: the rows it reads are all those of
\* the loan, because a transaction of reminders deletes none.
LEMMA ScheduledNoTwin ==
    ASSUME TypeOK, TxInv, NoTwinAdded, NEW q \in Requests, tx[q].op = "reminders",
           NEW d \in tx[q].todo, NEW add \in Seq(Row), AddsOn(q, d, add),
           tx' = [tx EXCEPT ![q] = After(q, d, add)], UNCHANGED <<job, unprocessed>>
    PROVE  NoTwinOf(tx[q])'
  <1> DEFINE t == tx[q]  n == Len(tx[q].add) + 1
  <1>1. d \in Nat /\ t.add \in Seq(Row) /\ Len(t.add) \in Nat
    BY TxTypes
  <1>2. tx'[q] = After(q, d, add)
    BY DEF TypeOK
  <1>3. tx'[q].add = add /\ tx'[q].todo = t.todo \ {d}
    BY <1>1, <1>2, AfterFields
  <1>4. NoTwinOf(t) /\ t.drop = {}
    BY DEF NoTwinAdded, TxInv, TxShape
  <1>5. CASE add = t.add
    BY <1>3, <1>4, <1>5 DEF NoTwinOf
  <1>6. CASE add # t.add
    <2>1. /\ Len(add) = n /\ \A i \in 1..Len(t.add) : add[i] = t.add[i]
          /\ add[n] = NewRow(KindOf(t.op), t.owner, d)
      BY <1>6, AddedRows
    <2>2. /\ \A id \in unprocessed :
               ~(job[id].kind = KindOf(t.op) /\ job[id].owner = t.owner /\ job[id].date = d)
          /\ KindOf(t.op) = "payment_reminder"
      BY <1>4, <1>6 DEF AddsOn, KindOf
    <2>3. add[n].date = d /\ add[n].owner = t.owner
      BY <2>1, NewRowFields
    <2>4. \A i \in 1..n : i = n \/ i \in 1..Len(t.add)
      BY <1>1
    <2>5. \A i \in 1..n : add[i].date \notin t.todo \ {d}
      BY <1>4, <2>1, <2>3, <2>4 DEF NoTwinOf
    <2>6. ASSUME NEW i \in 1..n, NEW j \in 1..n, add[i].date = add[j].date PROVE i = j
      <3>1. \A k \in 1..Len(t.add) : add[k].date # d
        BY <1>4, <2>1 DEF NoTwinOf
      <3>2. CASE i = n \/ j = n
        BY <2>3, <2>4, <2>6, <3>1, <3>2
      <3>3. CASE i \in 1..Len(t.add) /\ j \in 1..Len(t.add)
        BY <1>4, <2>1, <2>6, <3>3 DEF NoTwinOf
      <3> QED
        BY <2>4, <3>2, <3>3
    <2>7. \A i \in 1..n : \A id \in unprocessed :
            IsReminder(job[id]) => ~SameReminder(job[id], add[i])
      <3>1. \A i \in 1..Len(t.add) : \A id \in unprocessed :
              IsReminder(job[id]) => ~SameReminder(job[id], add[i])
        BY <1>4, <2>1 DEF NoTwinOf
      <3>2. \A id \in unprocessed : IsReminder(job[id]) => ~SameReminder(job[id], add[n])
        BY <2>2, <2>3 DEF IsReminder, SameReminder
      <3> QED
        BY <2>4, <3>1, <3>2
    <2> QED
      BY <1>3, <2>1, <2>5, <2>6, <2>7 DEF NoTwinOf
  <1> QED
    BY <1>5, <1>6

LEMMA CommitNoTwin ==
    ASSUME TypeOK, TxInv, NoTwins, NoTwinAdded, NEW q \in Requests, Commit(q)
    PROVE  NoTwins' /\ NoTwinAdded'
  <1> DEFINE t == tx[q]
  <1>1. /\ \A id \in Ids : id \in Ids' /\ job'[id] = job[id]
        /\ \A id \in Ids' \ Ids : \E i \in 1..Len(t.add) :
             id = Len(job) + i /\ job'[id] = t.add[i]
        /\ Len(job) \in Nat
        /\ unprocessed' = (unprocessed \ t.drop) \cup (Ids' \ Ids)
        /\ tx' = [tx EXCEPT ![q] = NoTx]
    BY Commits
  <1>2. unprocessed \subseteq Ids /\ tx \in [Requests -> Tx]
    BY DEF TypeOK
  <1>3. tx'[q].op = "none" /\ \A p \in Requests \ {q} : tx'[p] = tx[p]
    BY <1>1, <1>2, NoTxShape
  <1>4. \A i \in 1..Len(t.add) : /\ t.add[i].kind = KindOf(t.op)
                                 /\ t.add[i].owner = t.owner
    BY NewRowFields DEF TxInv, TxShape
  <1>5. CASE t.op # "reminders"
    <2>1. \A i \in 1..Len(t.add) : ~IsReminder(t.add[i])
      <3>1. CASE t.op = "birthday"
        BY <1>4, <3>1 DEF KindOf, IsReminder
      <3>2. CASE t.op \in {"none", "payout"}
        <4>1. Len(t.add) = 0
          BY <3>2 DEF TxInv, TxShape
        <4> QED
          BY <4>1
      <3> QED
        BY <1>5, <3>1, <3>2, TxTypes DEF Ops
    <2>2. NothingOffered
      BY <1>1, <1>2, <2>1 DEF NothingOffered
    <2>3. \A p \in Requests : tx'[p] = tx[p] \/ tx'[p].op # "reminders"
      BY <1>3
    <2> QED
      BY <2>2, <2>3, NothingOfferedKeeps
  <1>6. CASE t.op = "reminders"
    <2>1. NoTwinOf(t)
      BY <1>6 DEF NoTwinAdded
    <2>2. ASSUME NEW i \in unprocessed', NEW j \in unprocessed', IsReminder(job'[i]),
                 IsReminder(job'[j]), SameReminder(job'[i], job'[j])
          PROVE  i = j
      <3>1. CASE i \in unprocessed /\ j \in unprocessed
        BY <1>1, <1>2, <2>2, <3>1 DEF NoTwins
      <3>a. ASSUME NEW x \in unprocessed, IsReminder(job'[x]), NEW y \in Ids' \ Ids
            PROVE  ~SameReminder(job'[x], job'[y])
        <4>1. PICK b \in 1..Len(t.add) : job'[y] = t.add[b]
          BY <1>1
        <4>2. job'[x] = job[x]
          BY <1>1, <1>2
        <4>3. ~SameReminder(job[x], t.add[b])
          BY <2>1, <3>a, <4>2 DEF NoTwinOf
        <4> QED
          BY <4>1, <4>2, <4>3
      <3>2. CASE i \in unprocessed /\ j \in Ids' \ Ids
        BY <2>2, <3>a, <3>2
      <3>3. CASE i \in Ids' \ Ids /\ j \in unprocessed
        <4>1. SameReminder(job'[j], job'[i])
          BY <2>2 DEF SameReminder
        <4> QED
          BY <2>2, <3>a, <3>3, <4>1
      <3>4. CASE i \in Ids' \ Ids /\ j \in Ids' \ Ids
        <4>1. PICK a \in 1..Len(t.add) : i = Len(job) + a /\ job'[i] = t.add[a]
          BY <1>1, <3>4
        <4>2. PICK b \in 1..Len(t.add) : j = Len(job) + b /\ job'[j] = t.add[b]
          BY <1>1, <3>4
        <4>3. a = b
          BY <2>1, <2>2, <4>1, <4>2 DEF NoTwinOf, SameReminder
        <4> QED
          BY <4>1, <4>2, <4>3
      <3> QED
        BY <1>1, <3>1, <3>2, <3>3, <3>4
    <2>3. ASSUME NEW p \in Requests, tx'[p].op = "reminders" PROVE NoTwinOf(tx[p])'
      <3>1. p # q /\ tx'[p] = tx[p] /\ NoTwinOf(tx[p])
        BY <1>3, <2>3 DEF NoTwinAdded
      <3>2. tx[p].owner # t.owner
        BY <1>6, <2>3, <3>1 DEF TxInv, OneTxPerOwner
      <3>3. \A i \in 1..Len(tx[p].add) : tx[p].add[i].owner = tx[p].owner
        BY NewRowFields DEF TxInv, TxShape
      <3>4. ASSUME NEW i \in 1..Len(tx[p].add), NEW id \in unprocessed', IsReminder(job'[id])
            PROVE  ~SameReminder(job'[id], tx[p].add[i])
        <4>1. CASE id \in unprocessed
          BY <1>1, <1>2, <3>1, <3>4, <4>1 DEF NoTwinOf
        <4>2. CASE id \in Ids' \ Ids
          <5>1. job'[id].owner = t.owner
            BY <1>1, <1>4, <4>2
          <5> QED
            BY <3>2, <3>3, <5>1 DEF SameReminder
        <4> QED
          BY <1>1, <4>1, <4>2
      <3> QED
        BY <3>1, <3>4 DEF NoTwinOf
    <2> QED
      BY <2>2, <2>3 DEF NoTwins, NoTwinAdded
  <1> QED
    BY <1>5, <1>6

LEMMA NextNoTwins ==
    ASSUME ClaimInv, TxInv, RemindersDoNotRepeat, RejectedAreUnsound, NoTwins, NoTwinAdded,
           [Next]_vars, \A r \in Runners : ~RunnerFault(r),
           \A id \in Ids : id \in Ids' /\ job'[id] = job[id]
    PROVE  RejectedAreUnsound' /\ NoTwins' /\ NoTwinAdded'
  <1>0. TypeOK
    BY DEF ClaimInv
  <1>1. ASSUME NEW r \in Runners, RunnerStep(r)
        PROVE  RejectedAreUnsound' /\ NoTwins' /\ NoTwinAdded'
    BY <1>0, <1>1, RunnerOffers, NothingOfferedKeeps, OthersKeepTx
  <1>2. ASSUME UNCHANGED <<pc, cur>> PROVE RejectedAreUnsound'
    BY <1>0, <1>2 DEF RejectedAreUnsound, TypeOK
  <1>3. ASSUME NEW q \in Requests, WebStep(q)
        PROVE  UNCHANGED <<pc, cur>> /\ NoTwins' /\ NoTwinAdded'
    <2>1. CASE Commit(q)
      BY <1>0, <2>1, CommitNoTwin, Commits DEF runner
    <2>2. CASE ScheduleNotification(q)
      <3>1. PICK d \in tx[q].todo, add \in Seq(Row) :
              AddsOn(q, d, add) /\ tx' = [tx EXCEPT ![q] = After(q, d, add)]
        BY <1>0, <2>2, Schedules
      <3>2. UNCHANGED <<job, unprocessed, pc, cur>>
        BY <1>0, <2>2, Schedules DEF table, runner
      <3>3. NoTwins'
        BY <3>2 DEF NoTwins
      <3>4. After(q, d, add).op = tx[q].op /\ tx'[q] = After(q, d, add)
            /\ \A p \in Requests \ {q} : tx'[p] = tx[p]
        BY <1>0, <3>1, AfterFields, TxTypes DEF TypeOK
      <3>5. ASSUME NEW p \in Requests, tx'[p].op = "reminders" PROVE NoTwinOf(tx[p])'
        <4>1. CASE p = q
          <5>1. tx[q].op = "reminders"
            BY <1>0, <3>1, <3>4, <3>5, <4>1, AfterFields, TxTypes
          <5>2. NoTwinOf(tx[q])'
            BY <1>0, <3>1, <3>2, <5>1, ScheduledNoTwin
          <5> QED
            BY <4>1, <5>2 DEF NoTwinOf
        <4>2. CASE p # q
          BY <3>2, <3>4, <3>5, <4>2 DEF NoTwinAdded, NoTwinOf
        <4> QED
          BY <4>1, <4>2
      <3> QED
        BY <3>2, <3>3, <3>5 DEF NoTwinAdded
    <2>3. CASE \/ \E m \in Members : BeginBirthday(q, m)
               \/ \E l \in Loans : BeginReminders(q, l) \/ BeginPayout(q, l)
      <3>1. PICK t \in Tx : /\ tx' = [tx EXCEPT ![q] = t] /\ t.add = <<>>
                            /\ UNCHANGED <<table, day, runner, faults>>
        BY <1>0, <2>3, Begins
      <3>2. \A p \in Requests : tx'[p] = tx[p] \/ tx'[p].add = <<>>
        BY <1>0, <3>1 DEF TypeOK
      <3>3. NothingOffered
        BY <3>1 DEF NothingOffered, table
      <3> QED
        BY <1>0, <3>1, <3>2, <3>3, NothingOfferedKeeps DEF runner
    <2>4. CASE Rollback(q)
      <3>1. \A p \in Requests : tx'[p] = tx[p] \/ tx'[p].op # "reminders"
        BY <1>0, <2>4, NoTxShape DEF Rollback, TypeOK
      <3>2. NothingOffered
        BY <2>4 DEF Rollback, NothingOffered, table
      <3> QED
        BY <1>0, <2>4, <3>1, <3>2, NothingOfferedKeeps DEF Rollback, runner
    <2> QED
      BY <1>3, <2>1, <2>2, <2>3, <2>4 DEF WebStep
  <1>4. ASSUME NEW a \in Accounts, ScheduleClose(a)
        PROVE  UNCHANGED <<pc, cur>> /\ NoTwins' /\ NoTwinAdded'
    <2>1. NothingOffered
      <3>1. unprocessed \subseteq Ids
        BY <1>0 DEF TypeOK
      <3> QED
        BY <1>0, <1>4, <3>1, Closes DEF NothingOffered, IsReminder
    <2> QED
      BY <1>0, <1>4, <2>1, Closes, NothingOfferedKeeps DEF runner
  <1>5. ASSUME NextDay \/ UNCHANGED vars
        PROVE  UNCHANGED <<pc, cur>> /\ NoTwins' /\ NoTwinAdded'
    <2>1. UNCHANGED <<job, unprocessed, tx, pc, cur>>
      BY <1>5 DEF NextDay, vars, table, web, runner
    <2> QED
      BY <2>1 DEF NoTwins, NoTwinAdded, NoTwinOf
  <1> QED
    BY <1>1, <1>2, <1>3, <1>4, <1>5 DEF Next

LEMMA NextReminderInv == ReminderInv /\ [Next]_vars => ReminderInv'
  <1> SUFFICES ASSUME ReminderInv, [Next]_vars PROVE ReminderInv'
    OBVIOUS
  <1>1. TypeOK /\ AddedAreRoots /\ OrderInv /\ ClaimInv
    BY DEF ReminderInv, OrderInv, ClaimInv
  <1>2. \A id \in Ids : id \in Ids' /\ job'[id] = job[id]
    BY <1>1, RowsStep, RowsGrow
  <1>3. OrderInv' /\ TxInv' /\ RemindersDoNotRepeat'
    BY <1>1, <1>2, NextOrderInv, NextTxInv, NextRemindersDoNotRepeat DEF ReminderInv
  <1>4. faults' = 0 => RejectedAreUnsound' /\ NoTwins' /\ NoTwinAdded'
    BY <1>1, <1>2, NoFaultYet, NextNoTwins DEF ReminderInv
  <1> QED
    BY <1>3, <1>4 DEF ReminderInv

\* Whatever files are uploaded at once, and whatever runs meanwhile, a reminder
\* of a loan on a day waits at most once, if it did at first and no fault makes a
\* runner give one back.
THEOREM NoReminderTwice == LegacyReminders /\ Spec => []OneReminderPerDay
  <1>1. ReminderInv => OneReminderPerDay
    <2> SUFFICES ASSUME ReminderInv PROVE OneReminderPerDay
      OBVIOUS
    <2>1. faults \in Nat
      BY Constants DEF ReminderInv, OrderInv, ClaimInv, TypeOK
    <2>2. CASE faults = 0
      BY <2>2 DEF ReminderInv, NoTwins, OneReminderPerDay, IsReminder, SameReminder
    <2>3. CASE faults > 0
      BY <2>3 DEF OneReminderPerDay
    <2> QED
      BY <2>1, <2>2, <2>3
  <1> QED
    BY <1>1, InitReminderInv, NextReminderInv, PTL DEF Spec

-----------------------------------------------------------------------------
(***************************************************************************)
(* Chains.  The birthday rows of a member that are offered or held are his *)
(* chains.  A runner never adds to them: its clone takes the place of the  *)
(* row it lets go.  Of those an edit has not deleted, all are held: the    *)
(* edit has locked the others, and if there is one it counts as overlapped.*)
(***************************************************************************)
ChainBut(drop, m) ==
    {id \in Ids : /\ job[id].kind = "birthdate" /\ job[id].owner = m
                  /\ id \in unprocessed \ drop \/ Held(id)}

ChainsCounted == \A m \in Members : Cardinality(ChainBut({}, m)) <= 1 + overlaps
EditsCounted ==
    \A q \in Requests : tx[q].op = "birthday" =>
        Cardinality(ChainBut(tx[q].drop, tx[q].owner)) <= overlaps

\* The rows the table holds at first: a member has one birthday.
LegacyBirthdays ==
    \A i, j \in 1..Len(Legacy) :
        /\ Legacy[i].kind = "birthdate" /\ Legacy[j].kind = "birthdate"
        /\ Legacy[i].owner = Legacy[j].owner
        => i = j

ChainInv == OrderInv /\ TxInv /\ ChainsCounted /\ EditsCounted

LEMMA ChainsFinite ==
    ASSUME TypeOK, NEW drop, NEW m
    PROVE  /\ IsFiniteSet(ChainBut(drop, m)) /\ Cardinality(ChainBut(drop, m)) \in Nat
           /\ ChainBut(drop, m) \subseteq Ids
  <1>1. Len(job) \in Nat
    BY DEF TypeOK
  <1>2. IsFiniteSet(Ids) /\ ChainBut(drop, m) \subseteq Ids
    BY <1>1, FS_Interval DEF Ids, ChainBut
  <1> QED
    BY <1>2, FS_Subset, FS_CardinalityType

LEMMA ChainsFinitePrimed ==
    ASSUME TypeOK', NEW drop, NEW m
    PROVE  Cardinality(ChainBut(drop, m)') \in Nat
  <1>1. Len(job') \in Nat
    BY DEF TypeOK
  <1>2. IsFiniteSet(Ids') /\ ChainBut(drop, m)' \subseteq Ids'
    BY <1>1, FS_Interval DEF Ids, ChainBut
  <1> QED
    BY <1>2, FS_Subset, FS_CardinalityType

LEMMA InitChainInv == LegacyBirthdays /\ Init => ChainInv
  <1> SUFFICES ASSUME LegacyBirthdays, Init PROVE ChainInv
    OBVIOUS
  <1>1. OrderInv /\ TxInv /\ TypeOK
    BY InitOrderInv, InitTxInv, InitTypeOK
  <1>2. ASSUME NEW m \in Members PROVE Cardinality(ChainBut({}, m)) <= 1 + overlaps
    <2>1. \A i, j \in ChainBut({}, m) : i = j
      BY DEF Init, ChainBut, LegacyBirthdays, Ids
    <2>0. overlaps = 0
      BY DEF Init
    <2>2. CASE ChainBut({}, m) = {}
      BY <2>0, <2>2, FS_EmptySet
    <2>3. CASE ChainBut({}, m) # {}
      <3>1. PICK i : i \in ChainBut({}, m)
        BY <2>3
      <3>2. ChainBut({}, m) = {i}
        BY <2>1, <3>1
      <3> QED
        <4>1. Cardinality(ChainBut({}, m)) = 1
          BY <3>2, FS_Singleton, Zenon
        <4> QED
          BY <2>0, <4>1
    <2> QED
      BY <2>2, <2>3
  <1>3. \A q \in Requests : tx[q].op # "birthday"
    BY NoTxShape DEF Init
  <1> QED
    BY <1>1, <1>2, <1>3 DEF ChainInv, ChainsCounted, EditsCounted

\* Nobody's chains grow when every row of them was there, or when one is new
\* and another one is not there any more.
LEMMA NoMoreChains ==
    ASSUME TypeOK, TypeOK', NEW drop, NEW m, ChainBut(drop, m)' \subseteq ChainBut(drop, m)
    PROVE  Cardinality(ChainBut(drop, m)') <= Cardinality(ChainBut(drop, m))
  BY ChainsFinite, FS_Subset

LEMMA ChainReplaced ==
    ASSUME TypeOK, NEW drop, NEW m, NEW old \in ChainBut(drop, m), NEW new,
           ChainBut(drop, m)' \subseteq (ChainBut(drop, m) \ {old}) \cup {new}
    PROVE  Cardinality(ChainBut(drop, m)') <= Cardinality(ChainBut(drop, m))
  <1> DEFINE S == ChainBut(drop, m)
             T == (S \ {old}) \cup {new}
  <1>1. IsFiniteSet(S) /\ Cardinality(S) \in Nat
    BY ChainsFinite
  <1>2. IsFiniteSet(S \ {old}) /\ Cardinality(S \ {old}) = Cardinality(S) - 1
    BY <1>1, FS_RemoveElement
  <1>3. IsFiniteSet(T) /\ Cardinality(T) <= Cardinality(S)
    <2>1. CASE new \in S \ {old}
      <3>1. T = S \ {old}
        BY <2>1
      <3> QED
        <4>1. IsFiniteSet(T) /\ Cardinality(T) = Cardinality(S) - 1
          BY <1>2, <3>1, Zenon
        <4> QED
          BY <1>1, <4>1
    <2>2. CASE new \notin S \ {old}
      <3>1. Cardinality(T) = Cardinality(S \ {old}) + 1 /\ IsFiniteSet(T)
        BY <1>2, <2>2, FS_AddElement
      <3> QED
        BY <1>1, <1>2, <3>1
    <2> QED
      BY <2>1, <2>2
  <1>4. Cardinality(ChainBut(drop, m)') <= Cardinality(T) /\ Cardinality(T) \in Nat
        /\ Cardinality(ChainBut(drop, m)') \in Nat
    BY <1>3, FS_Subset, FS_CardinalityType
  <1> QED
    BY <1>1, <1>3, <1>4

LEMMA RunnerKeepsChains ==
    ASSUME ClaimInv, TypeOK', NEW r \in Runners, RunnerStep(r) \/ RunnerFault(r),
           NEW m, NEW drop, \A id \in drop : Locked(id)
    PROVE  Cardinality(ChainBut(drop, m)') <= Cardinality(ChainBut(drop, m))
  <1>0. /\ TypeOK /\ unprocessed \subseteq Ids /\ cur \in [Runners -> Ids \cup {0}]
        /\ pc \in [Runners -> {"idle", "loop", "run", "release", "clone"}]
        /\ \A s \in Runners : cur[s] = 0 <=> pc[s] \in {"idle", "loop"}
        /\ 0 \notin Ids
    <2>1. TypeOK
      BY DEF ClaimInv
    <2>2. 0 \notin Ids
      BY DEF Ids
    <2> QED
      BY <2>1, <2>2 DEF TypeOK
  \* A step that keeps the rows and offers or holds nothing that was not.
  <1>1. ASSUME job' = job, \A id \in Ids : id \in unprocessed' \ drop \/ Held(id)' =>
                             id \in unprocessed \ drop \/ Held(id)
        PROVE  Cardinality(ChainBut(drop, m)') <= Cardinality(ChainBut(drop, m))
    <2>1. ChainBut(drop, m)' \subseteq ChainBut(drop, m)
      BY <1>1 DEF ChainBut, Ids
    <2> QED
      BY <1>0, <2>1, NoMoreChains
  <1>2. ASSUME cur' = cur \/ cur' = [cur EXCEPT ![r] = 0], NEW id \in Ids, Held(id)'
        PROVE  Held(id)
    BY <1>0, <1>2 DEF Held
  <1>3. CASE StartPass(r) \/ EndPass(r) \/ NoRepeat(r) \/ RepeatRefused(r)
             \/ ExecuterReturns(r) \/ ExecuterRejects(r)
    <2>1. /\ job' = job /\ unprocessed' = unprocessed
          /\ cur' = cur \/ cur' = [cur EXCEPT ![r] = 0]
      BY <1>3 DEF StartPass, EndPass, NoRepeat, RepeatRefused, Errored, ExecuterReturns,
                  ExecuterRejects, table
    <2> QED
      BY <1>1, <1>2, <2>1
  <1>4. ASSUME NEW id \in due[r], UnknownType(r, id) \/ ClaimLost(r, id) \/ ClaimFails(r, id)
        PROVE  Cardinality(ChainBut(drop, m)') <= Cardinality(ChainBut(drop, m))
    <2>1. job' = job /\ unprocessed' \subseteq unprocessed /\ cur' = cur
      BY <1>4 DEF UnknownType, ClaimLost, ClaimFails, table
    <2> QED
      BY <1>1, <1>2, <2>1
  <1>5. ASSUME NEW id \in due[r], ClaimWon(r, id)
        PROVE  Cardinality(ChainBut(drop, m)') <= Cardinality(ChainBut(drop, m))
    <2>1. /\ job' = job /\ unprocessed' \subseteq unprocessed /\ cur' = [cur EXCEPT ![r] = id]
          /\ id \in unprocessed \ drop
      BY <1>5 DEF ClaimWon
    <2>2. \A i \in Ids : Held(i)' => Held(i) \/ i = id
      BY <1>0, <2>1 DEF Held
    <2> QED
      BY <1>1, <2>1, <2>2
  <1>6. CASE Release(r) \/ ReleaseFails(r)
    <2>1. /\ job' = job /\ unprocessed' \subseteq unprocessed \cup {cur[r]}
          /\ cur' = [cur EXCEPT ![r] = 0]
      BY <1>6 DEF Release, ReleaseFails, Errored
    <2>2. Held(cur[r])
      BY DEF Held
    <2> QED
      BY <1>1, <1>2, <2>1, <2>2
  <1>7. CASE ExecuterFails(r) \/ Crash(r)
    <2>1. /\ job' = job /\ unprocessed' = unprocessed
          /\ cur' = cur \/ cur' = [cur EXCEPT ![r] = 0]
      BY <1>7 DEF ExecuterFails, Crash, table
    <2> QED
      BY <1>1, <1>2, <2>1
  <1>8. CASE Clone(r) \/ CloneFails(r)
    <2>1. CASE job' = job
      <3>1. unprocessed' = unprocessed /\ cur' = [cur EXCEPT ![r] = 0]
        <4>1. CASE Clone(r)
          <5>1. Cloned(r)
            BY <4>1 DEF Clone, Cloned
          <5>2. Ids' = Ids
            BY <2>1 DEF Ids
          <5> QED
            BY <1>0, <5>1, <5>2, Clones
        <4>2. CASE CloneFails(r)
          <5>1. Cloned(r) => FALSE
            <6>1. Ids' = Ids
              BY <2>1 DEF Ids
            <6> QED
              BY <1>0, <6>1, Clones
          <5> QED
            BY <4>2, <5>1 DEF CloneFails, Cloned, Errored
        <4> QED
          BY <1>8, <4>1, <4>2
      <3> QED
        BY <1>1, <1>2, <2>1, <3>1
    <2>2. CASE job' # job
      <3>1. /\ Cloned(r) /\ unprocessed' = unprocessed \cup {Len(job) + 1}
            /\ cur' = [cur EXCEPT ![r] = 0]
        BY <1>8, <2>2 DEF Clone, CloneFails, Cloned, Errored
      <3>p. PICK p \in Ids : p = cur[r]
        BY <1>0, <3>1, Clones
      <3>n. PICK n : n = Len(job) + 1
        OBVIOUS
      <3>2. /\ p = cur[r] /\ p \in Ids /\ Ids' = Ids \cup {n} /\ n \notin Ids
            /\ \A id \in Ids : job'[id] = job[id]
            /\ job'[n].kind = job[p].kind /\ job'[n].owner = job[p].owner
        BY <1>0, <3>1, <3>p, <3>n, Clones
      <3>3. p \notin unprocessed' /\ ~Held(p)'
        <4>1. p \notin unprocessed
          BY <1>0, <3>2 DEF ClaimInv, HeldIsProcessed
        <4>2. ~Held(p)'
          <5>1. ASSUME NEW s \in Runners, s # r PROVE cur'[s] = cur[s] /\ cur[s] # p
            BY <1>0, <3>1, <3>2, <5>1 DEF ClaimInv, ClaimExcludes
          <5>2. cur'[r] # p
            BY <1>0, <3>1, <3>2
          <5> QED
            BY <5>1, <5>2 DEF Held
        <4> QED
          BY <3>1, <3>2, <3>n, <4>1, <4>2
      <3>4. \A id \in Ids : /\ id \in unprocessed' => id \in unprocessed
                            /\ Held(id)' => Held(id)
        BY <1>2, <3>1, <3>2, <3>n
      <3>5. CASE p \in ChainBut(drop, m)
        <4>1. ChainBut(drop, m)' \subseteq (ChainBut(drop, m) \ {p}) \cup {n}
          <5> SUFFICES ASSUME NEW id \in ChainBut(drop, m)', id # n
                       PROVE  id \in ChainBut(drop, m) \ {p}
            OBVIOUS
          <5>1. id \in Ids /\ job'[id] = job[id]
            BY <3>2 DEF ChainBut
          <5>2. id \in unprocessed' \ drop \/ Held(id)'
            BY DEF ChainBut
          <5>3. id # p /\ (id \in unprocessed \ drop \/ Held(id))
            BY <3>3, <3>4, <5>1, <5>2
          <5>4. job[id].kind = "birthdate" /\ job[id].owner = m
            BY <5>1 DEF ChainBut
          <5> QED
            BY <5>1, <5>3, <5>4 DEF ChainBut
        <4> QED
          BY <1>0, <3>5, <4>1, ChainReplaced
      <3>6. CASE p \notin ChainBut(drop, m)
        <4>1. ~(job[p].kind = "birthdate" /\ job[p].owner = m)
          <5>1. Held(p)
            BY <3>p DEF Held
          <5> QED
            BY <3>2, <3>6, <5>1 DEF ChainBut
        <4>2. ChainBut(drop, m)' \subseteq ChainBut(drop, m)
          BY <3>2, <3>4, <4>1 DEF ChainBut
        <4> QED
          BY <1>0, <4>2, NoMoreChains
      <3> QED
        BY <3>5, <3>6
    <2> QED
      BY <2>1, <2>2
  <1> QED
    BY <1>3, <1>4, <1>5, <1>6, <1>7, <1>8 DEF RunnerStep, RunnerFault

\* Of the chains the edit of a member has not deleted, none is new.
LEMMA EditKeeps ==
    ASSUME TypeOK, EditsCounted, NEW q \in Requests, tx[q].op = "birthday",
           tx'[q].drop = tx[q].drop, tx'[q].owner = tx[q].owner,
           overlaps' \in Nat, overlaps <= overlaps',
           TypeOK',
           \A drop, m : drop = tx[q].drop /\ m = tx[q].owner =>
             Cardinality(ChainBut(drop, m)') <= Cardinality(ChainBut(drop, m))
    PROVE  Cardinality(ChainBut(tx[q].drop, tx[q].owner)') <= overlaps'
  <1>1. PICK drop, m : drop = tx[q].drop /\ m = tx[q].owner
    OBVIOUS
  <1>2. ChainBut(tx[q].drop, tx[q].owner)' = ChainBut(drop, m)'
    BY <1>1 DEF ChainBut
  <1>3. Cardinality(ChainBut(drop, m)) <= overlaps
    BY <1>1 DEF EditsCounted
  <1>4. Cardinality(ChainBut(drop, m)') <= Cardinality(ChainBut(drop, m))
    BY <1>1
  <1>5. /\ Cardinality(ChainBut(drop, m)) \in Nat /\ Cardinality(ChainBut(drop, m)') \in Nat
        /\ overlaps \in Nat
    BY ChainsFinite, ChainsFinitePrimed DEF TypeOK
  <1> QED
    BY <1>2, <1>3, <1>4, <1>5

LEMMA SameChains ==
    ASSUME UNCHANGED <<job, unprocessed, cur>>, NEW drop, NEW m
    PROVE  ChainBut(drop, m)' = ChainBut(drop, m)
  BY DEF ChainBut, Held, Ids

\* An edit that begins counts as overlapped when it leaves a chain it cannot delete.
LEMMA BeginCounts ==
    ASSUME TypeOK, TypeOK', ChainsCounted, NEW q \in Requests, NEW t \in Tx,
           UNCHANGED <<job, unprocessed, processed, cur>>, tx' = [tx EXCEPT ![q] = t],
           t.op = "birthday", t.owner \in Members, t.drop = RowsOf("birthdate", t.owner),
           overlaps' = IF HeldKind("birthdate", t.owner) THEN overlaps + 1 ELSE overlaps
    PROVE  Cardinality(ChainBut(tx[q].drop, tx[q].owner)') <= overlaps'
  <1> DEFINE m == t.owner
  <1>1. PICK drop : drop = RowsOf("birthdate", m)
    OBVIOUS
  <1>2. tx'[q] = t
    BY DEF TypeOK
  <1>3. ChainBut(tx[q].drop, tx[q].owner)' = ChainBut(drop, m)
    <2>1. ChainBut(tx[q].drop, tx[q].owner)' = ChainBut(drop, m)'
      BY <1>1, <1>2 DEF ChainBut
    <2> QED
      BY <2>1, SameChains
  <1>4. \A id \in ChainBut(drop, m) : /\ job[id].kind = "birthdate" /\ job[id].owner = m
                                      /\ id \in Ids /\ Held(id)
    BY <1>1 DEF ChainBut, RowsOf, Present
  <1>5. ChainBut(drop, m) \subseteq ChainBut({}, m) /\ overlaps \in Nat
    BY <1>4 DEF ChainBut, TypeOK
  <1>6. Cardinality(ChainBut(drop, m)) <= Cardinality(ChainBut({}, m))
        /\ Cardinality(ChainBut({}, m)) \in Nat /\ Cardinality(ChainBut(drop, m)) \in Nat
    BY <1>5, ChainsFinite, FS_Subset
  <1>7. Cardinality(ChainBut({}, m)) <= 1 + overlaps
    BY DEF ChainsCounted
  <1>8. CASE HeldKind("birthdate", m)
    BY <1>3, <1>5, <1>6, <1>7, <1>8
  <1>9. CASE ~HeldKind("birthdate", m)
    <2>1. ASSUME NEW id \in ChainBut(drop, m) PROVE FALSE
      <3>1. PICK r \in Runners : cur[r] = id
        BY <1>4 DEF Held
      <3>2. cur[r] # 0 /\ job[cur[r]].kind = "birthdate" /\ job[cur[r]].owner = m
        BY <1>4, <3>1 DEF Ids
      <3> QED
        BY <1>9, <3>2 DEF HeldKind
    <2>2. Cardinality(ChainBut(drop, m)) = 0
      <3>1. ChainBut(drop, m) = {}
        BY <2>1
      <3> QED
        BY <3>1, FS_EmptySet, Zenon
    <2> QED
      BY <1>3, <1>5, <1>9, <2>2
  <1> QED
    BY <1>8, <1>9

\* A commit adds one chain at most, to those the edit has left of its member.
LEMMA CommitChains ==
    ASSUME TypeOK, TypeOK', TxInv, NEW q \in Requests, Commit(q), NEW drop, NEW m
    PROVE  /\ tx[q].op # "birthday" \/ tx[q].owner # m =>
                ChainBut(drop, m)' \subseteq ChainBut(drop, m)
           /\ tx[q].op = "birthday" /\ tx[q].owner = m =>
                ChainBut({}, m)' \subseteq ChainBut(tx[q].drop, m) \cup {Len(job) + 1}
  <1> DEFINE t == tx[q]
  <1>1. /\ \A id \in Ids : id \in Ids' /\ job'[id] = job[id]
        /\ \A id \in Ids' \ Ids : \E i \in 1..Len(t.add) :
             id = Len(job) + i /\ job'[id] = t.add[i]
        /\ Len(job) \in Nat
        /\ unprocessed' = (unprocessed \ t.drop) \cup (Ids' \ Ids)
        /\ cur' = cur
    BY Commits DEF runner
  <1>2. \A id : Held(id)' <=> Held(id)
    BY <1>1 DEF Held
  <1>3. \A i \in 1..Len(t.add) : t.add[i].kind = KindOf(t.op) /\ t.add[i].owner = t.owner
    BY NewRowFields DEF TxInv, TxShape
  <1>4. \A r \in Runners : cur[r] \in Ids \cup {0}
    BY DEF TypeOK
  <1>5. \A id \in Ids' : Held(id) => id \in Ids
    BY <1>4 DEF Held, Ids
  <1>6. ASSUME t.op # "birthday" \/ t.owner # m, NEW id \in ChainBut(drop, m)'
        PROVE  id \in ChainBut(drop, m)
    <2>1. /\ id \in Ids' /\ job'[id].kind = "birthdate" /\ job'[id].owner = m
          /\ id \in unprocessed' \ drop \/ Held(id)'
      BY <1>6 DEF ChainBut
    <2>2. id \in Ids
      <3>1. ASSUME id \notin Ids PROVE FALSE
        <4>1. PICK i \in 1..Len(t.add) : job'[id] = t.add[i]
          BY <1>1, <2>1, <3>1
        <4>2. KindOf(t.op) = "birthdate" /\ t.owner = m
          BY <1>3, <2>1, <4>1
        <4> QED
          BY <1>6, <4>2 DEF KindOf
      <3> QED
        BY <3>1
    <2> QED
      BY <1>1, <1>2, <2>1, <2>2 DEF ChainBut
  <1>7. ASSUME t.op = "birthday", t.owner = m, NEW id \in ChainBut({}, m)', id # Len(job) + 1
        PROVE  id \in ChainBut(t.drop, m)
    <2>1. /\ id \in Ids' /\ job'[id].kind = "birthdate" /\ job'[id].owner = m
          /\ id \in unprocessed' \/ Held(id)'
      BY <1>7 DEF ChainBut
    <2>2. id \in Ids
      <3>1. ASSUME id \notin Ids PROVE FALSE
        <4>1. PICK i \in 1..Len(t.add) : id = Len(job) + i
          BY <1>1, <2>1, <3>1
        <4>2. Len(t.add) <= 1
          <5>1. TxShape(t) /\ Len(<<>>) = 0
            BY DEF TxInv
          <5> QED
            BY <1>7, <5>1 DEF TxShape
        <4>3. Len(t.add) \in Nat
          BY TxTypes
        <4> QED
          BY <1>1, <1>7, <4>1, <4>2, <4>3
      <3> QED
        BY <3>1
    <2> QED
      BY <1>1, <1>2, <2>1, <2>2 DEF ChainBut
  <1> QED
    BY <1>6, <1>7

LEMMA NextChainInv == ChainInv /\ [Next]_vars => ChainInv'
  <1> SUFFICES ASSUME ChainInv, [Next]_vars PROVE ChainInv'
    OBVIOUS
  <1>1. /\ OrderInv /\ ClaimInv /\ TypeOK /\ TxInv /\ AddedAreRoots
        /\ ChainsCounted /\ EditsCounted
    BY DEF ChainInv, OrderInv, ClaimInv
  <1>2. OrderInv' /\ TypeOK'
    BY <1>1, NextOrderInv DEF OrderInv, ClaimInv
  <1>3. TxInv'
    BY <1>1, RowsStep, RowsGrow, NextTxInv
  <1>4. overlaps \in Nat /\ overlaps' \in Nat
    BY <1>1, <1>2 DEF TypeOK
  <1>5. \A drop, m : /\ Cardinality(ChainBut(drop, m)) \in Nat
                     /\ IsFiniteSet(ChainBut(drop, m))
    BY <1>1, ChainsFinite
  \* Where no chain grows and no edit begins, both counts stand.
  <1>6. ASSUME \A drop, m : (\A id \in drop : Locked(id)) =>
                 Cardinality(ChainBut(drop, m)') <= Cardinality(ChainBut(drop, m)),
               overlaps' = overlaps,
               \A q \in Requests : tx'[q].op = "birthday" =>
                 /\ tx[q].op = "birthday" /\ tx'[q].drop = tx[q].drop
                 /\ tx'[q].owner = tx[q].owner
        PROVE  ChainsCounted' /\ EditsCounted'
    <2>1. ASSUME NEW m \in Members PROVE Cardinality(ChainBut({}, m)') <= 1 + overlaps'
      <3>1. Cardinality(ChainBut({}, m)') <= Cardinality(ChainBut({}, m))
        BY <1>6
      <3>2. Cardinality(ChainBut({}, m)) <= 1 + overlaps
        BY <1>1 DEF ChainsCounted
      <3>3. Cardinality(ChainBut({}, m)') \in Nat
        BY <1>2, ChainsFinitePrimed
      <3> QED
        BY <1>4, <1>5, <1>6, <3>1, <3>2, <3>3
    <2>2. ASSUME NEW q \in Requests, tx'[q].op = "birthday"
          PROVE  Cardinality(ChainBut(tx[q].drop, tx[q].owner)') <= overlaps'
      <3>1. \A id \in tx[q].drop : Locked(id)
        BY DEF Locked
      <3> QED
        BY <1>1, <1>2, <1>4, <1>6, <2>2, <3>1, EditKeeps
    <2> QED
      BY <2>1, <2>2 DEF ChainsCounted, EditsCounted
  <1>7. ASSUME UNCHANGED <<job, unprocessed, cur>>, NEW drop, NEW m
        PROVE  Cardinality(ChainBut(drop, m)') <= Cardinality(ChainBut(drop, m))
    BY <1>5, <1>7, SameChains
  <1>8. ASSUME NEW r \in Runners, RunnerStep(r) \/ RunnerFault(r)
        PROVE  ChainsCounted' /\ EditsCounted'
    BY <1>1, <1>2, <1>6, <1>8, RunnerKeepsChains, OthersKeepTx
  <1>9. ASSUME NEW q \in Requests, WebStep(q) PROVE ChainsCounted' /\ EditsCounted'
    <2>1. CASE Commit(q)
      <3>1. /\ tx' = [tx EXCEPT ![q] = NoTx] /\ overlaps' = overlaps
        BY <1>1, <2>1, Commits
      <3>2. tx'[q].op = "none" /\ \A p \in Requests \ {q} : tx'[p] = tx[p]
        BY <1>1, <3>1, NoTxShape DEF TypeOK
      <3>3. ASSUME NEW drop, NEW m, tx[q].op # "birthday" \/ tx[q].owner # m
            PROVE  Cardinality(ChainBut(drop, m)') <= Cardinality(ChainBut(drop, m))
        BY <1>1, <1>2, <2>1, <3>3, CommitChains, NoMoreChains
      <3>4. ASSUME NEW m \in Members PROVE Cardinality(ChainBut({}, m)') <= 1 + overlaps'
        <4>1. Cardinality(ChainBut({}, m)') \in Nat
          BY <1>2, ChainsFinitePrimed
        <4>2. CASE tx[q].op # "birthday" \/ tx[q].owner # m
          <5>1. Cardinality(ChainBut({}, m)') <= Cardinality(ChainBut({}, m))
            BY <3>3, <4>2
          <5>2. Cardinality(ChainBut({}, m)) <= 1 + overlaps
            BY <1>1 DEF ChainsCounted
          <5> QED
            BY <1>4, <1>5, <3>1, <4>1, <5>1, <5>2
        <4>3. CASE tx[q].op = "birthday" /\ tx[q].owner = m
          <5>1. PICK S : S = ChainBut(tx[q].drop, m)
            OBVIOUS
          <5>2. Cardinality(S) <= overlaps /\ Cardinality(S) \in Nat /\ IsFiniteSet(S)
            BY <1>1, <1>5, <4>3, <5>1 DEF EditsCounted
          <5>3. ChainBut({}, m)' \subseteq S \cup {Len(job) + 1}
            BY <1>1, <1>2, <2>1, <4>3, <5>1, CommitChains
          <5>4. /\ IsFiniteSet(S \cup {Len(job) + 1})
                /\ Cardinality(S \cup {Len(job) + 1}) \in Nat
                /\ Cardinality(S \cup {Len(job) + 1}) <= Cardinality(S) + 1
            <6>1. PICK n : n = Len(job) + 1
              OBVIOUS
            <6>2. /\ IsFiniteSet(S \cup {n})
                  /\ Cardinality(S \cup {n}) =
                       IF n \in S THEN Cardinality(S) ELSE Cardinality(S) + 1
              BY <5>2, FS_AddElement, Zenon
            <6> QED
              BY <5>2, <6>1, <6>2
          <5>5. Cardinality(ChainBut({}, m)') <= Cardinality(S \cup {Len(job) + 1})
            BY <5>3, <5>4, FS_Subset
          <5> QED
            BY <1>4, <3>1, <4>1, <5>2, <5>4, <5>5
        <4> QED
          BY <4>2, <4>3
      <3>5. ASSUME NEW p \in Requests, tx'[p].op = "birthday"
            PROVE  Cardinality(ChainBut(tx[p].drop, tx[p].owner)') <= overlaps'
        <4>1. tx'[p] = tx[p] /\ p # q
          BY <3>2, <3>5
        <4>2. tx[q].op # "birthday" \/ tx[q].owner # tx[p].owner
          BY <1>1, <3>5, <4>1 DEF TxInv, OneTxPerOwner
        <4>3. \A drop, m : drop = tx[p].drop /\ m = tx[p].owner =>
                Cardinality(ChainBut(drop, m)') <= Cardinality(ChainBut(drop, m))
          BY <3>3, <4>2
        <4> QED
          BY <1>1, <1>2, <1>4, <3>1, <3>5, <4>1, <4>3, EditKeeps
      <3> QED
        BY <3>4, <3>5 DEF ChainsCounted, EditsCounted
    <2>2. CASE ScheduleNotification(q)
      <3>1. PICK d \in tx[q].todo, add \in Seq(Row) :
              AddsOn(q, d, add) /\ tx' = [tx EXCEPT ![q] = After(q, d, add)]
        BY <1>1, <2>2, Schedules
      <3>2. UNCHANGED <<job, unprocessed, cur>> /\ overlaps' = overlaps
        BY <1>1, <2>2, Schedules DEF table, runner
      <3>3. \A p \in Requests : /\ tx'[p].op = tx[p].op /\ tx'[p].drop = tx[p].drop
                                /\ tx'[p].owner = tx[p].owner
        BY <1>1, <3>1, AfterFields, TxTypes DEF TypeOK
      <3> QED
        BY <1>6, <1>7, <3>2, <3>3
    <2>3. CASE Rollback(q)
      <3>1. UNCHANGED <<job, unprocessed, cur>> /\ overlaps' = overlaps
        BY <2>3 DEF Rollback, table, runner
      <3>2. \A p \in Requests : tx'[p] = tx[p] \/ tx'[p].op = "none"
        BY <1>1, <2>3, NoTxShape DEF Rollback, TypeOK
      <3> QED
        BY <1>6, <1>7, <3>1, <3>2
    <2>4. CASE \/ \E m \in Members : BeginBirthday(q, m)
               \/ \E l \in Loans : BeginReminders(q, l) \/ BeginPayout(q, l)
      <3>1. PICK t \in Tx :
              /\ tx' = [tx EXCEPT ![q] = t] /\ UNCHANGED <<table, day, runner, faults>>
              /\ \/ t.op # "birthday" /\ overlaps' = overlaps
                 \/ /\ t.op = "birthday" /\ t.owner \in Members
                    /\ t.drop = RowsOf("birthdate", t.owner)
                    /\ overlaps' = IF HeldKind("birthdate", t.owner) THEN overlaps + 1
                                   ELSE overlaps
        BY <1>1, <2>4, Begins
      <3>2. /\ UNCHANGED <<job, unprocessed, processed, cur>> /\ overlaps <= overlaps'
            /\ tx'[q] = t /\ \A p \in Requests \ {q} : tx'[p] = tx[p]
        BY <1>1, <1>4, <3>1 DEF TypeOK, table, runner
      <3>3. ASSUME NEW m \in Members PROVE Cardinality(ChainBut({}, m)') <= 1 + overlaps'
        <4>1. ChainBut({}, m)' = ChainBut({}, m)
          BY <3>2, SameChains
        <4>2. Cardinality(ChainBut({}, m)) <= 1 + overlaps
          BY <1>1 DEF ChainsCounted
        <4> QED
          BY <1>4, <1>5, <3>2, <4>1, <4>2
      <3>4. ASSUME NEW p \in Requests, tx'[p].op = "birthday"
            PROVE  Cardinality(ChainBut(tx[p].drop, tx[p].owner)') <= overlaps'
        <4>1. CASE p = q
          BY <1>1, <1>2, <3>1, <3>2, <3>4, <4>1, BeginCounts
        <4>2. CASE p # q
          BY <1>1, <1>2, <1>4, <1>7, <3>2, <3>4, <4>2, EditKeeps
        <4> QED
          BY <4>1, <4>2
      <3> QED
        BY <3>3, <3>4 DEF ChainsCounted, EditsCounted
    <2> QED
      BY <1>9, <2>1, <2>2, <2>3, <2>4 DEF WebStep
  <1>10. ASSUME NEW a \in Accounts, ScheduleClose(a) PROVE ChainsCounted' /\ EditsCounted'
    <2>1. /\ Ids' = Ids \cup {Len(job) + 1} /\ \A id \in Ids : job'[id] = job[id]
          /\ job'[Len(job) + 1].kind = "close_saving_account"
          /\ unprocessed' = unprocessed \cup {Len(job) + 1} /\ Len(job) + 1 \notin Ids
          /\ cur' = cur /\ tx' = tx /\ overlaps' = overlaps
      BY <1>1, <1>10, Closes DEF runner
    <2>2. ASSUME NEW drop, NEW m PROVE ChainBut(drop, m)' \subseteq ChainBut(drop, m)
      BY <2>1 DEF ChainBut, Held
    <2> QED
      BY <1>1, <1>2, <1>6, <2>1, <2>2, NoMoreChains
  <1>11. ASSUME NextDay \/ UNCHANGED vars PROVE ChainsCounted' /\ EditsCounted'
    <2>1. UNCHANGED <<job, unprocessed, cur, tx, overlaps>>
      BY <1>11 DEF NextDay, vars, table, runner, web
    <2> QED
      BY <1>6, <1>7, <2>1
  <1> QED
    BY <1>1, <1>2, <1>3, <1>8, <1>9, <1>10, <1>11 DEF Next, ChainInv

\* A member has one chain of birthday rows, and one more at most for each edit
\* of his birthdate that found a runner at work on one, whatever faults occur.
THEOREM OneChainEach == LegacyBirthdays /\ Spec => []OneChainUnlessOverlapped
  <1>1. ChainInv => OneChainUnlessOverlapped
    <2> SUFFICES ASSUME ChainInv, NEW m \in Members
                 PROVE  Cardinality(ChainOf(m)) <= 1 + overlaps
      BY DEF OneChainUnlessOverlapped
    <2>1. ChainOf(m) = ChainBut({}, m)
      BY DEF ChainOf, ChainBut
    <2> QED
      BY <2>1 DEF ChainInv, ChainsCounted
  <1> QED
    BY <1>1, InitChainInv, NextChainInv, PTL DEF Spec

-----------------------------------------------------------------------------
(* The scheduler implements TaskQueue: every initial state maps to an     *)
(* initial state, every step to a step of the queue or to none.            *)

QStatus == [id \in Ids |-> Status(id)]

LEMMA StatusType == \A id : Status(id) \in Queue!Statuses
  BY DEF Status, Queue!Statuses

LEMMA QStatusType ==
    ASSUME job \in Seq(Row)
    PROVE  /\ QStatus \in Seq(Queue!Statuses) /\ Len(QStatus) = Len(job)
           /\ DOMAIN QStatus = Ids
  <1>1. Len(job) \in Nat
    OBVIOUS
  <1>2. DOMAIN QStatus = 1..Len(job) /\ \A id \in Ids : QStatus[id] \in Queue!Statuses
    BY StatusType DEF QStatus, Ids
  <1>3. QStatus \in [1..Len(job) -> Queue!Statuses]
    BY <1>2, StatusType DEF QStatus, Ids
  <1>4. QStatus \in Seq(Queue!Statuses)
    BY <1>1, <1>3
  <1> QED
    BY <1>1, <1>2, <1>4 DEF Ids

\* A step that changes the status of no row.
LEMMA Stutter ==
    ASSUME job' = job, \A id \in Ids : Status(id)' = Status(id)
    PROVE  QStatus' = QStatus
  BY DEF QStatus, Ids

\* A step that changes the status of one row.
LEMMA OneRow ==
    ASSUME job' = job, NEW i \in Ids, \A id \in Ids \ {i} : Status(id)' = Status(id)
    PROVE  QStatus' = [QStatus EXCEPT ![i] = Status(i)']
  BY DEF QStatus, Ids

\* A step that deletes rows nobody holds and inserts unprocessed ones.
LEMMA EditRows ==
    ASSUME job \in Seq(Row), job' \in Seq(Row), Len(job') >= Len(job),
           \A id \in Ids : Status(id)' = Status(id)
                           \/ (Status(id) \in {"pending", "lost"} /\ Status(id)' = "gone"),
           \A id \in Ids' \ Ids : Status(id)' = "pending"
    PROVE  Queue!Edit
  <1>1. /\ QStatus \in Seq(Queue!Statuses) /\ Len(QStatus) = Len(job) /\ DOMAIN QStatus = Ids
    BY QStatusType
  <1>2. \A id : Status(id)' \in Queue!Statuses
    BY DEF Status, Queue!Statuses
  <1>3. DOMAIN QStatus' = 1..Len(job') /\ QStatus' \in [1..Len(job') -> Queue!Statuses]
    BY <1>2 DEF QStatus, Ids
  <1>4. QStatus' \in Seq(Queue!Statuses) /\ Len(QStatus') = Len(job')
    <2>1. Len(job') \in Nat
      OBVIOUS
    <2> QED
      BY <1>3, <2>1
  <1>5. \A id \in Ids : QStatus[id] = Status(id)
    BY DEF QStatus
  <1>6. \A id \in Ids' : QStatus'[id] = Status(id)'
    BY DEF QStatus
  <1>7. DOMAIN QStatus' = Ids'
    BY DEF QStatus
  <1>8. \A i \in DOMAIN QStatus' :
          IF i \in DOMAIN QStatus
          THEN QStatus'[i] = QStatus[i] \/ (QStatus[i] \in {"pending", "lost"} /\ QStatus'[i] = "gone")
          ELSE QStatus'[i] = "pending"
    BY <1>1, <1>5, <1>6, <1>7
  <1> QED
    BY <1>1, <1>4, <1>8 DEF Queue!Edit, Queue!Tasks, QStatus

\* What Status says of a row, by who holds it.
LEMMA StatusOf ==
    ASSUME ClaimInv, NEW id
    PROVE  /\ (\E r \in Runners : Running(r, id)) => Status(id) = "taken"
           /\ (~(\E r \in Runners : Running(r, id)) /\ id \in returned) => Status(id) = "done"
           /\ id \in unprocessed => id # 0 /\ Status(id) = "pending"
  <1>1. id \in unprocessed => id \notin processed /\ id \notin returned /\ id # 0
    BY DEF ClaimInv, TypeOK, ReturnedIsFinal, Ids
  <1>2. id \in unprocessed => ~(\E r \in Runners : Running(r, id))
    BY <1>1 DEF ClaimInv, HeldIsProcessed, Running
  <1> QED
    BY <1>1, <1>2 DEF Status

\* An unprocessed row is pending, after a step as before it.
LEMMA NewIsPending ==
    ASSUME ClaimInv'
    PROVE  \A i \in unprocessed' : Status(i)' = "pending"
  <1>1. TAKE i \in unprocessed'
  <1>2. i \notin processed' /\ i \notin returned' /\ i # 0
    BY DEF ClaimInv, TypeOK, ReturnedIsFinal, Ids
  <1>3. ~(\E s \in Runners : Running(s, i))'
    BY <1>2 DEF ClaimInv, HeldIsProcessed, Running
  <1> QED
    BY <1>2, <1>3 DEF Status

LEMMA InitRefines == Init => Queue!Init
  <1> SUFFICES ASSUME Init PROVE Queue!Init
    OBVIOUS
  <1>1. \A id \in Ids : Status(id) = "pending"
    BY Constants DEF Init, Ids, Status, Running
  <1>2. Len(job) \in Nat
    BY Constants DEF Init
  <1>3. QStatus \in [1..Len(job) -> {"pending"}]
    BY <1>1 DEF QStatus, Ids
  <1>4. QStatus \in Seq({"pending"})
    BY <1>2, <1>3
  <1> QED
    BY <1>4 DEF Queue!Init, QStatus

\* The steps of a runner that leave every status alone.
LEMMA RunnerStutters ==
    ASSUME ClaimInv, ClaimInv', NEW r \in Runners,
           \/ StartPass(r) \/ ExecuterRejects(r) \/ ExecuterFails(r)
           \/ NoRepeat(r) \/ RepeatRefused(r) \/ EndPass(r)
           \/ \E id \in due[r] : UnknownType(r, id) \/ ClaimLost(r, id)
    PROVE  QStatus' = QStatus
  <1>1. job' = job /\ unprocessed' = unprocessed /\ processed' = processed /\ returned' = returned
    BY DEF StartPass, ExecuterRejects, ExecuterFails, NoRepeat, RepeatRefused, Errored,
           EndPass, UnknownType, ClaimLost, table
  <1>2. \A s \in Runners, id \in Ids : Running(s, id)' = Running(s, id)
    BY DEF StartPass, ExecuterRejects, ExecuterFails, NoRepeat, RepeatRefused, Errored,
           EndPass, UnknownType, ClaimLost, Running, ClaimInv, TypeOK, Ids
  <1> QED
    BY <1>1, <1>2, Stutter DEF Status

\* A runner that takes up a row, or lets go of the one it works on, is the only
\* one that works on it.
LEMMA SoleRunner ==
    ASSUME ClaimInv, NEW r \in Runners, cur[r] # 0
    PROVE  /\ cur[r] \in Ids /\ cur[r] \notin unprocessed
           /\ \A s \in Runners : s # r => cur[s] # cur[r]
           /\ pc[r] \in {"run", "release"} =>
                 Status(cur[r]) = "taken" /\ cur[r] \notin returned
  BY DEF ClaimInv, TypeOK, ClaimExcludes, HeldIsProcessed, ReturnedIsFinal, Status, Running

LEMMA ClaimWonTakes ==
    ASSUME ClaimInv, ClaimInv', NEW r \in Runners, NEW id \in due[r], ClaimWon(r, id)
    PROVE  Queue!Take(id)
  <1>1. id \in Ids /\ id \in unprocessed /\ Status(id) = "pending"
    BY StatusOf DEF ClaimWon, ClaimInv, TypeOK
  <1>2. pc[r] = "loop" /\ cur[r] = 0 /\ pc'[r] = "run" /\ cur'[r] = id
    BY DEF ClaimWon, ClaimInv, TypeOK
  <1>3. Status(id)' = "taken"
    BY <1>2 DEF Status, Running
  <1>4. \A s \in Runners, i \in Ids \ {id} : Running(s, i)' = Running(s, i)
    BY <1>2 DEF ClaimWon, Running, ClaimInv, TypeOK, Ids
  <1>5. \A i \in Ids \ {id} : Status(i)' = Status(i)
    BY <1>4 DEF ClaimWon, Status
  <1>6. job' = job
    BY DEF ClaimWon
  <1>7. QStatus' = [QStatus EXCEPT ![id] = Status(id)']
    BY <1>1, <1>5, <1>6, OneRow
  <1> QED
    BY <1>1, <1>3, <1>7 DEF Queue!Take, QStatus

LEMMA ClaimFailsDrops ==
    ASSUME ClaimInv, ClaimInv', NEW r \in Runners, NEW id \in due[r], ClaimFails(r, id)
    PROVE  QStatus' = QStatus \/ Queue!Drop(id)
  <1>1. job' = job /\ returned' = returned /\ pc' = pc /\ cur' = cur
    BY DEF ClaimFails
  <1>2. \A i : (\E s \in Runners : Running(s, i))' <=> (\E s \in Runners : Running(s, i))
    BY <1>1 DEF Running
  <1>3. CASE UNCHANGED <<unprocessed, processed>>
    <2>1. \A i \in Ids : Status(i)' = Status(i)
      BY <1>1, <1>2, <1>3 DEF Status
    <2> QED
      BY <1>1, <2>1, Stutter
  <1>4. CASE /\ id \in unprocessed
             /\ unprocessed' = unprocessed \ {id}
             /\ processed' = processed \cup {id}
    <2>1. id \in Ids /\ Status(id) = "pending" /\ id \notin returned
      BY <1>4, StatusOf DEF ClaimInv, TypeOK, ReturnedIsFinal
    <2>2. ~(\E s \in Runners : Running(s, id))
      BY <1>4 DEF Running, ClaimInv, HeldIsProcessed, TypeOK
    <2>3. Status(id)' = "lost"
      BY <1>1, <1>2, <1>4, <2>1, <2>2 DEF Status
    <2>4. \A i \in Ids \ {id} : Status(i)' = Status(i)
      BY <1>1, <1>2, <1>4 DEF Status
    <2>5. QStatus' = [QStatus EXCEPT ![id] = Status(id)']
      BY <1>1, <2>1, <2>4, OneRow
    <2> QED
      BY <2>1, <2>3, <2>5 DEF Queue!Drop, QStatus
  <1> QED
    BY <1>3, <1>4 DEF ClaimFails

\* A runner that lets go of the row it works on changes that row's status only.
LEMMA LetsGo ==
    ASSUME ClaimInv, ClaimInv', NEW r \in Runners, NEW id, id = cur[r], id # 0, job' = job,
           pc'[r] \notin {"run", "release"},
           \A s \in Runners \ {r} : pc'[s] = pc[s] /\ cur'[s] = cur[s],
           \A i \in Ids \ {id} : /\ i \in unprocessed' <=> i \in unprocessed
                                 /\ i \in processed' <=> i \in processed
                                 /\ i \in returned' <=> i \in returned
    PROVE  /\ QStatus' = [QStatus EXCEPT ![id] = Status(id)']
           /\ Status(id)' = IF id \in returned' THEN "done"
                            ELSE IF id \in processed' THEN "lost"
                            ELSE IF id \in unprocessed' THEN "pending" ELSE "gone"
  <1>1. id \in Ids /\ \A s \in Runners \ {r} : cur[s] # id
    BY SoleRunner
  <1>2. \A s \in Runners, i \in Ids \ {id} : Running(s, i)' = Running(s, i)
    BY DEF Running
  <1>3. \A i \in Ids \ {id} : Status(i)' = Status(i)
    <2> HIDE DEF Ids
    <2>1. TAKE i \in Ids \ {id}
    <2>2. (\E s \in Runners : Running(s, i))' <=> (\E s \in Runners : Running(s, i))
      BY <1>2
    <2> QED
      BY <2>2 DEF Status
  <1>4. ~(\E s \in Runners : cur'[s] = id /\ pc'[s] \in {"run", "release"})
    BY <1>1
  <1>5. QStatus' = [QStatus EXCEPT ![id] = Status(id)']
    BY <1>1, <1>3, OneRow
  <1> QED
    BY <1>4, <1>5 DEF Status, Running

LEMMA ReturnsFinishes ==
    ASSUME ClaimInv, ClaimInv', NEW r \in Runners, ExecuterReturns(r)
    PROVE  \E id \in Ids : Queue!Finish(id)
  <1>1. cur[r] # 0
    BY DEF ExecuterReturns, ClaimInv, TypeOK
  <1>2. PICK id : id = cur[r]
    OBVIOUS
  <1>3. id \in Ids /\ id # 0 /\ Status(id) = "taken"
    BY <1>1, <1>2, SoleRunner DEF ExecuterReturns
  <1>4. QStatus' = [QStatus EXCEPT ![id] = Status(id)'] /\ Status(id)' = "done"
    <2>1. /\ job' = job /\ pc'[r] \notin {"run", "release"} /\ id \in returned'
          /\ \A s \in Runners \ {r} : pc'[s] = pc[s] /\ cur'[s] = cur[s]
          /\ \A i \in Ids \ {id} : /\ i \in unprocessed' <=> i \in unprocessed
                                   /\ i \in processed' <=> i \in processed
                                   /\ i \in returned' <=> i \in returned
      BY <1>2 DEF ExecuterReturns, ClaimInv, TypeOK
    <2> QED
      BY <1>2, <1>3, <2>1, LetsGo
  <1> QED
    BY <1>3, <1>4 DEF Queue!Finish, QStatus

LEMMA ReleaseReturns ==
    ASSUME ClaimInv, ClaimInv', NEW r \in Runners, Release(r) \/ ReleaseFails(r) \/ Crash(r)
    PROVE  QStatus' = QStatus \/ \E id \in Ids : Queue!Return(id) \/ Queue!Drop(id)
  <1>1. /\ job' = job /\ returned' = returned /\ pc'[r] \notin {"run", "release"}
        /\ \A s \in Runners \ {r} : pc'[s] = pc[s] /\ cur'[s] = cur[s]
    BY DEF Release, ReleaseFails, Crash, Errored, ClaimInv, TypeOK, table
  <1>2. CASE pc[r] \in {"run", "release"}
    <2>1. cur[r] # 0
      BY <1>2 DEF ClaimInv, TypeOK
    <2>2. PICK id : id = cur[r]
      OBVIOUS
    <2>3. id \in Ids /\ id # 0 /\ Status(id) = "taken" /\ id \notin returned
      BY <1>2, <2>1, <2>2, SoleRunner
    <2>4. \A i \in Ids \ {id} : /\ i \in unprocessed' <=> i \in unprocessed
                                /\ i \in processed' <=> i \in processed
      BY <2>2 DEF Release, ReleaseFails, Crash, table
    <2>5. /\ QStatus' = [QStatus EXCEPT ![id] = Status(id)']
          /\ Status(id)' \in {"lost", "pending", "gone"}
      BY <1>1, <2>2, <2>3, <2>4, LetsGo
    <2> QED
      BY <2>3, <2>5 DEF Queue!Return, Queue!Drop, QStatus
  <1>3. CASE pc[r] \notin {"run", "release"}
    <2>1. unprocessed' = unprocessed /\ processed' = processed
      BY <1>3 DEF Release, ReleaseFails, Crash, table
    <2>2. \A s \in Runners : \A i : Running(s, i)' = Running(s, i)
      BY <1>1, <1>3 DEF Running
    <2>3. \A i \in Ids : Status(i)' = Status(i)
      <3> HIDE DEF Ids
      <3>1. TAKE i \in Ids
      <3>2. (\E s \in Runners : Running(s, i))' <=> (\E s \in Runners : Running(s, i))
        BY <2>2
      <3> QED
        BY <1>1, <2>1, <3>2 DEF Status
    <2> QED
      BY <1>1, <2>3, Stutter
  <1> QED
    BY <1>2, <1>3

\* A clone is an unprocessed row at the end of the table.
LEMMA CloneEdits ==
    ASSUME ClaimInv, ClaimInv', NEW r \in Runners, Clone(r) \/ CloneFails(r)
    PROVE  QStatus' = QStatus \/ Queue!Edit
  <1>1. /\ pc[r] = "clone" /\ pc'[r] = "loop" /\ processed' = processed /\ returned' = returned
        /\ \A s \in Runners \ {r} : pc'[s] = pc[s] /\ cur'[s] = cur[s]
    BY DEF Clone, CloneFails, Errored, ClaimInv, TypeOK
  <1>2. \A s \in Runners : \A i : Running(s, i)' = Running(s, i)
    BY <1>1 DEF Running
  <1>3. \A i : (\E s \in Runners : Running(s, i))' <=> (\E s \in Runners : Running(s, i))
    BY <1>2
  <1>4. CASE UNCHANGED <<job, unprocessed>>
    <2>1. \A i \in Ids : Status(i)' = Status(i)
      BY <1>1, <1>3, <1>4 DEF Status
    <2> QED
      BY <1>4, <2>1, Stutter
  <1>5. CASE /\ job' = Append(job, Successor(cur[r]))
             /\ unprocessed' = unprocessed \cup {Len(job) + 1}
    <2>1. /\ job \in Seq(Row) /\ job' \in Seq(Row) /\ Len(job) \in Nat
          /\ processed \subseteq Ids /\ returned \subseteq Ids
      BY DEF ClaimInv, TypeOK
    <2>2. Len(job') = Len(job) + 1 /\ Ids' \ Ids = {Len(job) + 1}
      BY <1>5, <2>1 DEF Ids
    <2>3. \A i \in Ids : Status(i)' = Status(i)
      BY <1>1, <1>3, <1>5, <2>1 DEF Status, Ids
    <2>4. \A i \in Ids' \ Ids : Status(i)' = "pending"
      BY <1>5, <2>2, NewIsPending
    <2> QED
      BY <2>1, <2>2, <2>3, <2>4, EditRows
  <1> QED
    BY <1>4, <1>5 DEF Clone, CloneFails

\* Requests change no runner; what they insert is unprocessed and what they
\* delete is pending or lost, unless a runner works on it or its work is done.
LEMMA TableEdits ==
    ASSUME ClaimInv, ClaimInv', pc' = pc, cur' = cur, returned' = returned,
           Len(job') >= Len(job),
           Ids' \ Ids \subseteq unprocessed',
           \A i \in Ids : \/ /\ i \in unprocessed' <=> i \in unprocessed
                             /\ i \in processed' <=> i \in processed
                          \/ i \notin unprocessed' /\ i \notin processed'
                             /\ (i \in unprocessed \/ i \in processed)
    PROVE  Queue!Edit
  <1>1. job \in Seq(Row) /\ job' \in Seq(Row)
    BY DEF ClaimInv, TypeOK
  <1>2. \A i : (\E s \in Runners : Running(s, i))' <=> (\E s \in Runners : Running(s, i))
    BY DEF Running
  <1>3. \A i \in Ids : Status(i)' = Status(i)
                       \/ (Status(i) \in {"pending", "lost"} /\ Status(i)' = "gone")
    <2> HIDE DEF Ids
    <2>1. TAKE i \in Ids
    <2> QED
      BY <1>2 DEF Status
  <1>4. \A i \in Ids' \ Ids : Status(i)' = "pending"
    BY NewIsPending
  <1> QED
    BY <1>1, <1>3, <1>4, EditRows

LEMMA CommitEdits ==
    ASSUME ClaimInv, ClaimInv', NEW q \in Requests, Commit(q)
    PROVE  Queue!Edit
  <1>1. job \in Seq(Row) /\ tx[q].add \in Seq(Row) /\ tx[q].drop \subseteq Ids
    BY DEF ClaimInv, TypeOK, Tx
  <1>2. /\ Len(job) \in Nat /\ Len(tx[q].add) \in Nat
        /\ Len(job') = Len(job) + Len(tx[q].add)
    BY <1>1 DEF Commit
  <1>3. Ids' \ Ids \subseteq unprocessed'
    BY <1>2 DEF Commit, Ids
  <1>4. pc' = pc /\ cur' = cur /\ returned' = returned
    BY DEF Commit, runner
  <1>5. \A i \in Ids : \/ /\ i \in unprocessed' <=> i \in unprocessed
                          /\ i \in processed' <=> i \in processed
                       \/ i \notin unprocessed' /\ i \notin processed'
                          /\ (i \in unprocessed \/ i \in processed)
    <2>1. TAKE i \in Ids
    <2>2. i \notin (Len(job) + 1)..(Len(job) + Len(tx[q].add))
      BY <1>2, <2>1 DEF Ids
    <2>3. /\ i \in unprocessed' <=> i \in unprocessed /\ i \notin tx[q].drop
          /\ i \in processed' <=> i \in processed /\ i \notin tx[q].drop
      BY <2>2 DEF Commit
    <2> QED
      BY <2>3
  <1> QED
    BY <1>2, <1>3, <1>4, <1>5, TableEdits

LEMMA CloseEdits ==
    ASSUME ClaimInv, ClaimInv', NEW a \in Accounts, ScheduleClose(a)
    PROVE  Queue!Edit
  <1>1. PICK d : job' = Append(job, NewRow("close_saving_account", a, d))
    BY DEF ScheduleClose
  <1>2. Len(job) \in Nat /\ Len(job') = Len(job) + 1
    BY <1>1 DEF ClaimInv, TypeOK
  <1>3. /\ pc' = pc /\ cur' = cur /\ returned' = returned /\ processed' = processed
        /\ unprocessed' = unprocessed \cup {Len(job) + 1}
    BY DEF ScheduleClose, runner
  <1>4. \A i \in Ids : i # Len(job) + 1
    BY <1>2 DEF Ids
  <1>5. Ids' \ Ids \subseteq unprocessed'
    BY <1>2, <1>3 DEF Ids
  <1> QED
    BY <1>2, <1>3, <1>4, <1>5, TableEdits

\* Every step of the system is a step of the queue or none.
LEMMA NextRefines ==
    ASSUME ClaimInv, ClaimInv', [Next]_vars
    PROVE  [Queue!Next]_QStatus
  <1>1. DOMAIN QStatus = Ids
    BY DEF QStatus
  <1>2. ASSUME NEW r \in Runners, RunnerStep(r) \/ RunnerFault(r)
        PROVE  [Queue!Next]_QStatus
    <2>1. CASE \/ StartPass(r) \/ ExecuterRejects(r) \/ ExecuterFails(r)
               \/ NoRepeat(r) \/ RepeatRefused(r) \/ EndPass(r)
               \/ \E id \in due[r] : UnknownType(r, id) \/ ClaimLost(r, id)
      BY <2>1, RunnerStutters
    <2>2. ASSUME NEW id \in due[r], ClaimWon(r, id) \/ ClaimFails(r, id)
          PROVE  [Queue!Next]_QStatus
      <3>1. id \in Ids
        BY DEF ClaimInv, TypeOK
      <3> QED
        BY <1>1, <2>2, <3>1, ClaimWonTakes, ClaimFailsDrops DEF Queue!Next, Queue!Tasks, QStatus
    <2>3. CASE ExecuterReturns(r)
      BY <1>1, <2>3, ReturnsFinishes DEF Queue!Next, Queue!Tasks, QStatus
    <2>4. CASE Release(r) \/ ReleaseFails(r) \/ Crash(r)
      BY <1>1, <2>4, ReleaseReturns DEF Queue!Next, Queue!Tasks, QStatus
    <2>5. CASE Clone(r) \/ CloneFails(r)
      BY <2>5, CloneEdits DEF Queue!Next, QStatus
    <2> QED
      BY <1>2, <2>1, <2>2, <2>3, <2>4, <2>5 DEF RunnerStep, RunnerFault
  <1>3. ASSUME NEW q \in Requests, Commit(q)
        PROVE  [Queue!Next]_QStatus
    BY <1>3, CommitEdits DEF Queue!Next, QStatus
  <1>4. ASSUME NEW a \in Accounts, ScheduleClose(a)
        PROVE  [Queue!Next]_QStatus
    BY <1>4, CloseEdits DEF Queue!Next, QStatus
  <1>5. ASSUME UNCHANGED <<table, pc, cur>>
        PROVE  [Queue!Next]_QStatus
    BY <1>5, Stutter DEF table, Status, Running
  <1> QED
    BY <1>2, <1>3, <1>4, <1>5
       DEF Next, WebStep, BeginBirthday, BeginReminders, BeginPayout, Begin, ScheduleNotification,
           Rollback, NextDay, runner, vars

\* The scheduler implements the task queue (ImplementsQueue): for any runners,
\* requests, faults and bounds, a row of fondo_api_schedulertask goes through
\* the life TaskQueue gives a task, and no other.
THEOREM Implementation == Spec => ImplementsQueue
  <1>1. Init => Queue!Init
    BY InitRefines
  <1>2. ClaimInv /\ ClaimInv' /\ [Next]_vars => [Queue!Next]_QStatus
    BY NextRefines
  <1>3. Spec => []ClaimInv
    BY ClaimInvariant
  <1> QED
    BY <1>1, <1>2, <1>3, PTL DEF Spec, ImplementsQueue, Queue!Spec, QStatus
=============================================================================
