------------------------ MODULE MCDomainVerification ------------------------
(***************************************************************************)
(* Three attempts, two of which share a process, and a rotation, with room *)
(* for one attempt in the limiter's window.                                *)
(***************************************************************************)
EXTENDS DomainVerification, TLC

CONSTANTS a1, a2, a3, p1, p2

MCAt == a1 :> p1 @@ a2 :> p1 @@ a3 :> p2

Symmetry == Permutations({a1, a2})
=============================================================================
