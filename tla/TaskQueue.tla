------------------------------ MODULE TaskQueue ------------------------------
(***************************************************************************)
(* What the scheduler promises of each task, whoever runs it: the work is  *)
(* done at most once, a refused task is offered again, a task whose work   *)
(* is done is never offered again, and one that is lost was being handled. *)
(*                                                                         *)
(*   pending --Take--> taken --Finish--> done                              *)
(*      ^                | \--Drop----> lost                               *)
(*      +----Return------+                                                 *)
(*                                                                         *)
(* A deletion makes a pending or lost task gone; one that is taken stays   *)
(* taken, for its work is under way, and is gone only when it is given     *)
(* back.                                                                   *)
(***************************************************************************)
EXTENDS Naturals, Sequences

VARIABLE status   \* the status of every task ever submitted, in order

Statuses == {"pending", "taken", "done", "lost", "gone"}

Tasks == DOMAIN status

Init == status \in Seq({"pending"})

Take(i) == status[i] = "pending" /\ status' = [status EXCEPT ![i] = "taken"]

Finish(i) == status[i] = "taken" /\ status' = [status EXCEPT ![i] = "done"]

Return(i) ==
    /\ status[i] = "taken"
    /\ \E s \in {"pending", "gone"} : status' = [status EXCEPT ![i] = s]

\* The answer to the claim is lost (from pending) or the holder dies.
Drop(i) ==
    /\ status[i] \in {"pending", "taken"}
    /\ status' = [status EXCEPT ![i] = "lost"]

\* Tasks are submitted and deleted, in one step.
Edit ==
    /\ status' \in Seq(Statuses)
    /\ Len(status') >= Len(status)
    /\ \A i \in DOMAIN status' :
         IF i \in Tasks
         THEN status'[i] = status[i] \/ (status[i] \in {"pending", "lost"} /\ status'[i] = "gone")
         ELSE status'[i] = "pending"

Next == Edit \/ \E i \in Tasks : Take(i) \/ Finish(i) \/ Return(i) \/ Drop(i)

Spec == Init /\ [][Next]_status
=============================================================================
