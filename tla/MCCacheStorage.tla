---------------------------- MODULE MCCacheStorage ----------------------------
(***************************************************************************)
(* Two attempts that render the same page and one that renders another, a  *)
(* reader, and room for an invalidation between any two of their steps.    *)
(***************************************************************************)
EXTENDS CacheStorage, TLC

CONSTANTS w1, w2, w3, same, other

MCContentOf == w1 :> same @@ w2 :> same @@ w3 :> other
===============================================================================
