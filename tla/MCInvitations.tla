---------------------------- MODULE MCInvitations ----------------------------
(***************************************************************************)
(* Two invitations of one person, with different roles.  Two calls present *)
(* the token of the first, one of them by somebody who does not know the   *)
(* person's password, and one that of the second.  Three connections: the  *)
(* three transactions together fill the pool, any two of them do not.      *)
(***************************************************************************)
EXTENDS Invitations, TLC

CONSTANTS c1, c2, c3, i1, i2, e1, pa, pb

MCEmailOf == [i \in Invitation |-> e1]
MCRoleOf == i1 :> "member" @@ i2 :> "admin"
MCInvitationOf == c1 :> i1 @@ c2 :> i1 @@ c3 :> i2
MCPasswordOf == c1 :> pa @@ c2 :> pb @@ c3 :> pa
===============================================================================
