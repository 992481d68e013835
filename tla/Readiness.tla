------------------------------ MODULE Readiness ------------------------------
(***************************************************************************)
(* The check of the database behind GET /readyz (src/db/readiness.ts): a   *)
(* result that is used for three seconds and, once it is too old, a ping   *)
(* that all who ask meanwhile share.                                       *)
(*                                                                         *)
(* Of the time only this is kept: whether the last result is too old.  A   *)
(* probe that is answered from it, or turned away because the server shuts *)
(* down, is answered at once and leaves nothing behind.                    *)
(***************************************************************************)
CONSTANT Probe   \* requests for /readyz that may wait at the same time

VARIABLES up,      \* the database answers
          last,    \* lastResult, or "none" when it is too old
          asking,  \* probes that wait for the ping in flight
          sawUp    \* history: the database was up at some time since the ping in
                   \* flight, or the one with the good result, began

vars == <<up, last, asking, sawUp>>

Init ==
    /\ up \in BOOLEAN
    /\ last = "none"
    /\ asking = {}
    /\ sawUp = FALSE

-----------------------------------------------------------------------------
(* Faulty variants of the actions below: mistakes the code could have made, *)
(* kept to check that the properties notice them.                           *)

\* A ping counts as a success when it ends, however it ends.
PingFailsUnseen ==
    /\ asking # {}
    /\ last' = "ready"
    /\ asking' = {}
    /\ UNCHANGED <<up, sawUp>>

-----------------------------------------------------------------------------

\* The last result is too old: a ping begins, or one is in flight already.
Ask(q) ==
    /\ last = "none"
    /\ q \notin asking
    /\ asking' = asking \cup {q}
    /\ sawUp' = IF asking = {} THEN up ELSE sawUp
    /\ UNCHANGED <<up, last>>

Answer(result) ==
    /\ asking # {}
    /\ last' = result
    /\ asking' = {}
    /\ sawUp' = (sawUp /\ result = "ready")
    /\ UNCHANGED up

PingSucceeds == up /\ Answer("ready")

\* The database is down, no connection came free, or a second has passed.
PingFails == Answer("not_ready")

\* Three seconds have passed since the last result.
Age ==
    /\ last # "none"
    /\ last' = "none"
    /\ sawUp' = FALSE
    /\ UNCHANGED <<up, asking>>

GoUp ==
    /\ ~up
    /\ up' = TRUE
    /\ sawUp' = (asking # {} \/ sawUp)
    /\ UNCHANGED <<last, asking>>

GoDown == up /\ up' = FALSE /\ UNCHANGED <<last, asking, sawUp>>

-----------------------------------------------------------------------------
(* Properties *)

\* Who is told that the server is ready, from the result of whichever ping,
\* is never told so for a database that was down from the time that ping
\* began: a ping that failed or timed out does not pass for a success.
GoodResultWasUp == last = "ready" => sawUp
=============================================================================
