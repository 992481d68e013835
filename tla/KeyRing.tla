------------------------------- MODULE KeyRing -------------------------------
(***************************************************************************)
(* What the management of a project's API keys promises, without requests, *)
(* locks, the enabled flag or audit: a set of live keys.  An id is issued  *)
(* once, a retired key never comes back, and a rotation trades one live    *)
(* key for one new key in a single step, so that at no moment both or      *)
(* neither of the two is live, and no key is traded twice.                 *)
(***************************************************************************)
CONSTANTS Key, NoKey

VARIABLES live,   \* keys that are enabled
          issued, \* ids that were ever given out
          parent  \* the key each key was traded for, or NoKey

vars == <<live, issued, parent>>

Init ==
    /\ live = {}
    /\ issued = {}
    /\ parent = [k \in Key |-> NoKey]

Issue(k) ==
    /\ k \notin issued
    /\ live' = live \cup {k}
    /\ issued' = issued \cup {k}
    /\ UNCHANGED parent

Retire(k) ==
    /\ live' = live \ {k}
    /\ UNCHANGED <<issued, parent>>

Replace(k, j) ==
    /\ k \in live
    /\ j \notin issued
    /\ live' = (live \ {k}) \cup {j}
    /\ issued' = issued \cup {j}
    /\ parent' = [parent EXCEPT ![j] = k]

Next ==
    \/ \E k \in Key : Issue(k) \/ Retire(k)
    \/ \E k, j \in Key : Replace(k, j)

Spec == Init /\ [][Next]_vars
=============================================================================
