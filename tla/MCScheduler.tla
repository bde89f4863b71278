----------------------------- MODULE MCScheduler -----------------------------
(***************************************************************************)
(* Instances of Scheduler for TLC.                                         *)
(***************************************************************************)
EXTENDS Scheduler, TLC

CONSTANTS m1, l1, a1

MCStep == <<1, 1, 2, 2>>
MCLeads == {0, 1}

LegacyRow(type, kind, owner, date, repeat, sound) ==
    [type |-> type, kind |-> kind, owner |-> owner, date |-> date,
     repeat |-> repeat, sound |-> sound, parent |-> 0]

\* A birthday chain, a reminder, a row whose payload is malformed, a row of a
\* type the factory does not know, and a row whose repeat is outside 0..4.
Birthday == LegacyRow("notifications", "birthdate", m1, 0, 4, TRUE)
Reminder == LegacyRow("notifications", "payment_reminder", l1, 0, 0, TRUE)
Malformed == LegacyRow("notifications", "payment_reminder", l1, 0, 1, FALSE)
Unknown == LegacyRow("unknown", "payment_reminder", l1, 0, 0, TRUE)
BadRepeat == LegacyRow("notifications", "payment_reminder", l1, 1, 7, TRUE)

LegacyChain == <<Birthday>>
LegacyMixed == <<Birthday, Malformed, Unknown, BadRepeat>>
LegacyBadRepeat == <<BadRepeat>>
LegacyReminder == <<Reminder>>

\* Two tables in one run: the chain of the cfg, with the requests that write it,
\* or one row of every kind, when no request is left to write.
MixedInit ==
    /\ job = LegacyMixed
    /\ unprocessed = 1..Len(LegacyMixed)
    /\ processed = {} /\ returned = {}
    /\ day = 0
    /\ pc = [r \in Runners |-> "idle"]
    /\ due = [r \in Runners |-> {}]
    /\ cur = [r \in Runners |-> 0]
    /\ summary = [r \in Runners |-> NoSummary]
    /\ tx = [q \in Requests |-> NoTx]
    /\ overlaps = 0 /\ writes = MaxWrites /\ faults = 0

TablesSpec == (Init \/ MixedInit) /\ [][Next]_vars

RunnerSymmetry == Permutations(Runners)
=============================================================================
