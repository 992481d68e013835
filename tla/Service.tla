------------------------------- MODULE Service -------------------------------
(***************************************************************************)
(* What a server process promises its clients, without pool, browser and   *)
(* signal handlers: a request that it has taken stays with it until it is  *)
(* answered or its client leaves.  From some point on it takes no more     *)
(* requests; it stops when it has none left, and ends after that.  Only a  *)
(* process that can be interrupted may break off with requests unanswered. *)
(***************************************************************************)

CONSTANTS Request,
          Breakable  \* the process can be interrupted

VARIABLES served,  \* requests that have a client who waits for the answer
          stage    \* how far the process has come

vars == <<served, stage>>

Init ==
    /\ served = {}
    /\ stage = "open"

Take(r) ==
    /\ stage = "open"
    /\ served' = served \cup {r}
    /\ UNCHANGED stage

\* The client has its answer, or has gone without.
Part(r) ==
    /\ served' = served \ {r}
    /\ UNCHANGED stage

TakeNoMore ==
    /\ stage = "open"
    /\ stage' = "emptying"
    /\ UNCHANGED served

Stop ==
    /\ stage = "emptying"
    /\ served = {}
    /\ stage' = "stopped"
    /\ UNCHANGED served

End ==
    /\ stage = "stopped"
    /\ stage' = "ended"
    /\ UNCHANGED served

Break ==
    /\ Breakable
    /\ stage \in {"open", "emptying", "stopped"}
    /\ stage' = "broken"
    /\ UNCHANGED served

Next ==
    \/ \E r \in Request : Take(r) \/ Part(r)
    \/ TakeNoMore \/ Stop \/ End \/ Break

Spec == Init /\ [][Next]_vars
=============================================================================
