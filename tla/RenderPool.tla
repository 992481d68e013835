----------------------------- MODULE RenderPool -----------------------------
(***************************************************************************)
(* What the render capacity controller promises to its callers, without    *)
(* timers, entries or counters: a pool of MaxConcurrent renders with a     *)
(* bounded waiting room.                                                   *)
(*                                                                         *)
(* A call is new, then it waits or renders, and it ends done or refused.   *)
(* A finished render hands its place to a waiting call in the same step,   *)
(* a refused call never renders, and a shut pool admits nobody.            *)
(***************************************************************************)
EXTENDS Naturals, FiniteSets

CONSTANTS Request,        \* calls, each made at most once
          MaxConcurrent,  \* renders that may run at the same time
          MaxQueued       \* calls that may wait

VARIABLES phase,  \* where each call is
          shut    \* the pool admits nobody any more

vars == <<phase, shut>>

In(p) == {r \in Request : phase[r] = p}

Rendering == In("rendering")
Waiting   == In("waiting")

Init ==
    /\ phase = [r \in Request |-> "new"]
    /\ shut = FALSE

\* A call renders at once only when nobody has been waiting for the place.
Enter(r) ==
    /\ ~shut
    /\ phase[r] = "new"
    /\ Cardinality(Rendering) < MaxConcurrent
    /\ Waiting = {}
    /\ phase' = [phase EXCEPT ![r] = "rendering"]
    /\ UNCHANGED shut

\* A call waits only when every place is taken and the room has space.
Wait(r) ==
    /\ ~shut
    /\ phase[r] = "new"
    /\ Cardinality(Rendering) = MaxConcurrent
    /\ Cardinality(Waiting) < MaxQueued
    /\ phase' = [phase EXCEPT ![r] = "waiting"]
    /\ UNCHANGED shut

\* A call is refused on arrival only by a full pool or a shut one.
Refuse(r) ==
    /\ phase[r] = "new"
    /\ \/ shut
       \/ /\ Cardinality(Rendering) = MaxConcurrent
          /\ Cardinality(Waiting) = MaxQueued
    /\ phase' = [phase EXCEPT ![r] = "refused"]
    /\ UNCHANGED shut

GiveUp(r) ==
    /\ phase[r] = "waiting"
    /\ phase' = [phase EXCEPT ![r] = "refused"]
    /\ UNCHANGED shut

\* A render ends and, if anyone waits, one of them takes its place at once.
Finish(r) ==
    /\ phase[r] = "rendering"
    /\ \/ /\ Waiting = {}
          /\ phase' = [phase EXCEPT ![r] = "done"]
       \/ \E w \in Waiting :
             phase' = [phase EXCEPT ![r] = "done", ![w] = "rendering"]
    /\ UNCHANGED shut

Shut ==
    /\ ~shut
    /\ shut' = TRUE
    /\ phase' = [r \in Request |->
                    IF phase[r] = "waiting" THEN "refused" ELSE phase[r]]

Next ==
    \/ \E r \in Request :
          Enter(r) \/ Wait(r) \/ Refuse(r) \/ GiveUp(r) \/ Finish(r)
    \/ Shut

Spec == Init /\ [][Next]_vars
=============================================================================
