------------------------------ MODULE MCServer ------------------------------
(***************************************************************************)
(* Two renders at a time and one that waits; the client of one of the      *)
(* three may leave.  One probe at a time and both signals.                 *)
(***************************************************************************)
EXTENDS Server
=============================================================================
