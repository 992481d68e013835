------------------------------- MODULE Browser -------------------------------
(***************************************************************************)
(* The Chromium instance that all renders of a process share               *)
(* (src/services/renderer.ts): getBrowser with its launch promise, the     *)
(* handler of a disconnect and close().                                    *)
(*                                                                         *)
(* Launches are numbered in their order, and a promise is the number of    *)
(* its launch.  What runs when a promise settles, for the caller that      *)
(* launched and for all that wait, runs before any other event of the      *)
(* process: it is one step.                                                *)
(***************************************************************************)
EXTENDS Naturals, FiniteSets

CONSTANT Caller   \* a finite set of renders, each of which calls getBrowser once

\* A caller launches at most once.
Launches == 1 .. Cardinality(Caller)

VARIABLES shared,    \* browserPromise, 0 for null
          state,     \* of each launch
          doomed,    \* launches whose browser close() has taken away
          launched,  \* number of launches
          pc,        \* where each caller is
          on         \* the launch each caller waits for or was given

vars == <<shared, state, doomed, launched, pc, on>>

Init ==
    /\ shared = 0
    /\ state = [n \in Launches |-> "none"]
    /\ doomed = {}
    /\ launched = 0
    /\ pc = [c \in Caller |-> "new"]
    /\ on = [c \in Caller |-> 0]

\* Callers that a launch will answer: the one that made it comes first.
Waiting(n) == {c \in Caller : on[c] = n /\ pc[c] = "waiting"}
Launcher(n) == {c \in Caller : on[c] = n /\ pc[c] = "launching"}

Live == {n \in Launches : state[n] \in {"launching", "up"}}

-----------------------------------------------------------------------------
(* Faulty variants of the actions below: mistakes the code could have made, *)
(* kept to check that the properties notice them.                           *)

\* The promise is shared once it has been fulfilled.
LaunchUnshared(c) ==
    /\ pc[c] = "new"
    /\ shared = 0
    /\ launched' = launched + 1
    /\ state' = [state EXCEPT ![launched'] = "launching"]
    /\ pc' = [pc EXCEPT ![c] = "launching"]
    /\ on' = [on EXCEPT ![c] = launched']
    /\ UNCHANGED <<shared, doomed>>

\* A rejection is handled by the caller that launched and by nobody else.
LaunchFailsUnheard(n) ==
    /\ state[n] = "launching"
    /\ state' = [state EXCEPT ![n] = "failed"]
    /\ shared' = 0
    /\ pc' = [c \in Caller |-> IF c \in Launcher(n) THEN "error" ELSE pc[c]]
    /\ UNCHANGED <<doomed, launched, on>>

-----------------------------------------------------------------------------
(* getBrowser *)

\* The promise is there and fulfilled with a connected browser.
Reuse(c) ==
    /\ pc[c] = "new"
    /\ shared # 0 /\ state[shared] = "up"
    /\ pc' = [pc EXCEPT ![c] = "served"]
    /\ on' = [on EXCEPT ![c] = shared]
    /\ UNCHANGED <<shared, state, doomed, launched>>

AwaitLaunch(c) ==
    /\ pc[c] = "new"
    /\ shared # 0 /\ state[shared] = "launching"
    /\ pc' = [pc EXCEPT ![c] = "waiting"]
    /\ on' = [on EXCEPT ![c] = shared]
    /\ UNCHANGED <<shared, state, doomed, launched>>

Launch(c) ==
    /\ pc[c] = "new"
    /\ shared # 0 => state[shared] \in {"failed", "gone"}
    /\ launched' = launched + 1
    /\ state' = [state EXCEPT ![launched'] = "launching"]
    /\ shared' = launched'
    /\ pc' = [pc EXCEPT ![c] = "launching"]
    /\ on' = [on EXCEPT ![c] = launched']
    /\ UNCHANGED doomed

\* Everybody gets the browser, and close() closes it if it was waiting too.
LaunchSucceeds(n) ==
    /\ state[n] = "launching"
    /\ state' = [state EXCEPT ![n] = "up"]
    /\ pc' = [c \in Caller |->
                 IF c \in Waiting(n) \cup Launcher(n) THEN "served" ELSE pc[c]]
    /\ UNCHANGED <<shared, doomed, launched, on>>

\* The launcher resets the promise and throws.  Then each of those that waited
\* resets the promise, whatever it has become, and launches on its own.
LaunchFails(n) ==
    LET again == launched + 1 .. launched + Cardinality(Waiting(n)) IN
    /\ state[n] = "launching"
    /\ launched' = launched + Cardinality(Waiting(n))
    /\ state' = [m \in Launches |-> IF m = n THEN "failed"
                                    ELSE IF m \in again THEN "launching" ELSE state[m]]
    /\ shared' = IF again = {} THEN 0 ELSE launched'
    /\ \E turn \in [Waiting(n) -> again] :
          /\ \A m \in again : \E c \in Waiting(n) : turn[c] = m
          /\ on' = [c \in Caller |-> IF c \in Waiting(n) THEN turn[c] ELSE on[c]]
    /\ pc' = [c \in Caller |-> IF c \in Launcher(n) THEN "error"
                               ELSE IF c \in Waiting(n) THEN "launching" ELSE pc[c]]
    /\ UNCHANGED doomed

\* The caller is done, with a browser or without one.
LetGo(c) ==
    /\ pc[c] \in {"new", "served", "error"}
    /\ pc' = [pc EXCEPT ![c] = "done"]
    /\ on' = [on EXCEPT ![c] = 0]
    /\ UNCHANGED <<shared, state, doomed, launched>>

-----------------------------------------------------------------------------

\* The browser crashes, or has been closed.  Its handler resets the promise,
\* whichever browser that is for.
Disconnect(n) ==
    /\ state[n] = "up"
    /\ state' = [state EXCEPT ![n] = "gone"]
    /\ shared' = 0
    /\ UNCHANGED <<doomed, launched, pc, on>>

\* close() takes the promise and closes its browser, now or when it is up.
Close ==
    /\ shared # 0
    /\ doomed' = doomed \cup {shared}
    /\ shared' = 0
    /\ UNCHANGED <<state, launched, pc, on>>

-----------------------------------------------------------------------------

Next ==
    \/ \E c \in Caller : Reuse(c) \/ AwaitLaunch(c) \/ Launch(c) \/ LetGo(c)
    \/ \E n \in Launches : LaunchSucceeds(n) \/ LaunchFails(n) \/ Disconnect(n)
    \/ Close

Spec == Init /\ [][Next]_vars

-----------------------------------------------------------------------------
(* Properties *)

\* As long as no launch failed and nobody closed the renderer there is one
\* browser at most, however the callers overlap and however often it crashed.
OneBrowserWithoutTrouble ==
    doomed = {} /\ (\A n \in Launches : state[n] # "failed") => Cardinality(Live) <= 1
=============================================================================
