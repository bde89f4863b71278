------------------------------ MODULE MCMembers ------------------------------
(***************************************************************************)
(* Instances of Members for TLC.                                           *)
(***************************************************************************)
EXTENDS Members, TLC

CONSTANTS u1, u2, i1, i2

\* An administrator and a member.
OpeningTwo == u1 :> ADMIN @@ u2 :> MEMBER
IdentityTwo == u1 :> i1 @@ u2 :> i2

RequestSymmetry == Permutations(Requests)
=============================================================================
