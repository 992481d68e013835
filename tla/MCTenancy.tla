------------------------------ MODULE MCTenancy ------------------------------
(***************************************************************************)
(* Two bootstraps that may overlap, so that there may be two               *)
(* organizations.  The second founder may be invited into the first        *)
(* organization, as an admin or a member, before or after.  Two calls at a *)
(* time, any number one after the other, about one project and one         *)
(* hostname.                                                               *)
(***************************************************************************)
EXTENDS Tenancy, TLC

CONSTANTS u1, u2, o1, o2, b1, b2

MCFounderOf == b1 :> u1 @@ b2 :> u2
MCFoundedBy == b1 :> o1 @@ b2 :> o2
MCInvitable == {<<u2, o1>>}

Symmetry == Permutations(Call)
==============================================================================
