------------------------------ MODULE MCApiKeys ------------------------------
(***************************************************************************)
(* Five calls and four keys: a key is created and four more calls, each    *)
(* a rotation or a revocation of it or of its successor, overlap.          *)
(***************************************************************************)
EXTENDS ApiKeys, TLC

Symmetry == Permutations(Key) \cup Permutations(Request)
==============================================================================
