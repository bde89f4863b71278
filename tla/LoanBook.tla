------------------------------ MODULE LoanBook ------------------------------
(***************************************************************************)
(* What the loan service promises of the fund's loans, each change made in *)
(* one step: the life of a loan, and that exactly the approved ones get    *)
(* the detail its payments are computed from.                              *)
(*                                                                         *)
(*   waiting --Approve--> approved --Close--> paid                         *)
(*      \------Deny------>   \----Deny----> denied                         *)
(*                                                                         *)
(* Approving a refinance pays the loan it replaces, whatever has become of *)
(* that loan since.                                                        *)
(***************************************************************************)
CONSTANT Loans

VARIABLES state, detail

States == {"none", "waiting", "approved", "denied", "paid"}

Init ==
    /\ state \in [Loans -> States]
    /\ detail = {l \in Loans : state[l] \in {"approved", "paid"}}

Open(l) ==
    /\ state[l] = "none"
    /\ state' = [state EXCEPT ![l] = "waiting"]
    /\ UNCHANGED detail

Approve(l, replaced) ==
    /\ state[l] = "waiting"
    /\ \A p \in replaced : state[p] # "none"
    /\ state' = [p \in Loans |-> IF p = l THEN "approved"
                                 ELSE IF p \in replaced THEN "paid" ELSE state[p]]
    /\ detail' = detail \cup {l}

Deny(l) ==
    /\ state[l] \in {"waiting", "approved"}
    /\ state' = [state EXCEPT ![l] = "denied"]
    /\ UNCHANGED detail

\* A payout, or all the loans a monthly file leaves out.
Close(S) ==
    /\ \A l \in S : state[l] = "approved"
    /\ state' = [l \in Loans |-> IF l \in S THEN "paid" ELSE state[l]]
    /\ UNCHANGED detail

Next ==
    \/ \E l \in Loans : Open(l) \/ Deny(l)
    \/ \E l \in Loans : Approve(l, {}) \/ \E p \in Loans \ {l} : Approve(l, {p})
    \/ \E S \in SUBSET Loans : Close(S)

Spec == Init /\ [][Next]_<<state, detail>>
=============================================================================
