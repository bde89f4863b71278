------------------------------- MODULE MCLoans -------------------------------
(***************************************************************************)
(* Instances of Loans for TLC.                                             *)
(***************************************************************************)
EXTENDS Loans, TLC

CONSTANTS l1, l2, l3

\* One loan to refinance and one row to create.
OpeningsRefinance == {l1 :> "approved" @@ l2 :> "none"}

\* A refinance of each of two loans at once, and a loan that the next file
\* lists before it is approved.
OpeningsMany == {l1 :> "approved" @@ l2 :> "none" @@ l3 :> "none",
                 l1 :> "approved" @@ l2 :> "waiting" @@ l3 :> "denied"}

RequestSymmetry == Permutations(Requests)
=============================================================================
