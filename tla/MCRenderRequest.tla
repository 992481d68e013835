--------------------------- MODULE MCRenderRequest ---------------------------
(***************************************************************************)
(* Three requests with one key, a pool of one place and one waiter, and    *)
(* two changes of the rows.  The requests are alike.                       *)
(***************************************************************************)
EXTENDS RenderRequest, TLC

CONSTANT k1

MCKeyOf == [r \in Request |-> k1]
MCLimit == k1 :> 1 @@ Ip :> 2
Alike == Permutations(Request)
=============================================================================
