----------------------------- MODULE ServerProofs -----------------------------
(***************************************************************************)
(* Proofs about Server for any number of renders, probes and signals, and  *)
(* any pool.                                                               *)
(*                                                                         *)
(* The order of the shutdown carries the argument: nothing is taken from a *)
(* request before http has gone past draining, and once it has, only       *)
(* requests without a client are left, which cannot become more.  A        *)
(* browser that runs is the shared one or, when a handler has taken it,    *)
(* the one that handler waits for.                                         *)
(***************************************************************************)
EXTENDS Server, FiniteSetTheorems, TLAPS

Phase == {"new", "waiting", "rendering", "done", "refused"}
LaunchState == {"none", "launching", "up", "failed", "gone"}
HttpState == {"open", "draining", "ending_database", "closed"}
HandlerState == {"none", "closing_app", "closing_renderer", "exited", "aborted"}
CallState == {"new", "waiting", "launching", "served", "error", "done"}
RequestState == {"away", "checking", "called"}

\* The shape of the pool, the browser, the readiness check and the process.
TypeOK ==
    /\ phase \in [Render -> Phase]
    /\ shared \in Nat
    /\ state \in [Chromium!Launches -> LaunchState]
    /\ launched \in Nat
    /\ doomed \subseteq Nat
    /\ pc \in [Render -> CallState]
    /\ on \in [Render -> Nat]
    /\ up \in BOOLEAN /\ sawUp \in BOOLEAN
    /\ last \in {"none", "ready", "not_ready"}
    /\ asking \subseteq Probe
    /\ handler \in [Signal -> HandlerState]
    /\ taken \in [Signal -> Nat]
    /\ http \in HttpState
    /\ caught \subseteq Interrupt
    /\ request \in [Render -> RequestState]
    /\ left \subseteq Render

\* While a ping is in flight there is no result, and the database was up since
\* it began if it is up now.
PingsSawUp ==
    /\ Ready!GoodResultWasUp
    /\ asking # {} => last = "none" /\ (up => sawUp)

\* Launches are numbered in their order.
LaunchesNumbered ==
    \A n \in Chromium!Launches : state[n] # "none" => n =< launched

NoneFailed == \A n \in Chromium!Launches : state[n] # "failed"

\* The browsers that handlers have taken and wait for.
Taken == {taken[s] : s \in {s \in Signal : handler[s] = "closing_renderer"}}

\* Nothing is taken away before the server has stopped, and it stops when the
\* requests that are left have no client any more.
ClosedInOrder ==
    /\ http \in {"ending_database", "closed"} => Unanswered \subseteq left
    /\ shut => http \in {"ending_database", "closed"}
    /\ doomed # {} => http = "closed"
    /\ Taken \subseteq doomed
    /\ \A s \in Signal :
          handler[s] \in {"closing_renderer", "exited"} => http = "closed"

\* No client has left a render in the pool.
LeftBeforePool == \A r \in left : request[r] = "checking"

\* Where the browsers are: with the promise, or with a handler, unless an
\* interrupt has ended the handlers.
BrowsersTracked ==
    NoneFailed =>
        /\ doomed = {} => Chromium!Live \subseteq {shared}
        /\ doomed # {} /\ LeftBeforePool /\ ~Aborted =>
              shared = 0 /\ Chromium!Live \subseteq Taken

\* Only requests that have passed their checks are known to the pool.
PooledWereChecked == \A r \in Render : phase[r] # "new" => request[r] = "called"

IInv ==
    /\ TypeOK
    /\ PooledWereChecked
    /\ PingsSawUp
    /\ LaunchesNumbered
    /\ ClosedInOrder
    /\ BrowsersTracked
    /\ ExitLeavesNoBrowser

-----------------------------------------------------------------------------

LEMMA TwoElements ==
  ASSUME NEW S, IsFiniteSet(S), NEW a \in S, NEW b \in S, a # b
  PROVE  Cardinality(S) > 1
<1>1. Cardinality({a}) = 1 /\ IsFiniteSet({a})
  BY FS_Singleton
<1>2. Cardinality({a} \cup {b}) = 2
  BY <1>1, FS_AddElement
<1>3. Cardinality({a} \cup {b}) =< Cardinality(S)
  BY FS_Subset
<1>4. Cardinality(S) \in Nat
  BY FS_CardinalityType
<1> QED
  BY <1>2, <1>3, <1>4

\* The Cardinality that Browser uses is this one.
LEMMA BrowserCounts == \A S : Chromium!Cardinality(S) = Cardinality(S)
  BY DEF Chromium!Cardinality, Cardinality

\* Those who wait for a launch can be counted.
LEMMA WaitersCounted ==
  ASSUME NEW n
  PROVE  Cardinality(Chromium!Waiting(n)) \in Nat
<1>1. IsFiniteSet(Chromium!Waiting(n))
  BY ServerAssumption, FS_Subset DEF Chromium!Waiting
<1> QED
  BY <1>1, FS_CardinalityType

\* Every step keeps the shape.
LEMMA TypeStep == IInv /\ [Next]_vars => TypeOK'
<1> SUFFICES ASSUME IInv, [Next]_vars
             PROVE  TypeOK'
  OBVIOUS
<1>1. ASSUME NEW r \in Render, Arrive(r)
      PROVE  TypeOK'
  BY <1>1
     DEF Arrive, Pool!Enter, Pool!Wait, Pool!Refuse, browser, readiness,
         process, IInv, TypeOK, Phase, LaunchState, HttpState, HandlerState,
         CallState, RequestState
<1>2. ASSUME NEW r \in Render, Leave(r)
      PROVE  TypeOK'
  BY <1>2
     DEF Leave, pool, browser, readiness, process, IInv, TypeOK, Phase,
         LaunchState, HttpState, HandlerState, CallState, RequestState
<1>3. ASSUME NEW r \in Render, Accept(r)
      PROVE  TypeOK'
  BY <1>3
     DEF Accept, pool, browser, readiness, process, IInv, TypeOK, Phase,
         LaunchState, HttpState, HandlerState, CallState, RequestState
<1>4. ASSUME NEW r \in Render, QueueTimeout(r)
      PROVE  TypeOK'
  BY <1>4
     DEF QueueTimeout, Pool!GiveUp, browser, readiness, process, clients, IInv,
         TypeOK, Phase, LaunchState, HttpState, HandlerState, CallState,
         RequestState
<1>5. ASSUME NEW r \in Render, GetBrowser(r)
      PROVE  TypeOK'
  <2>1. \A v \in CallState, n \in Nat :
           pc' = [pc EXCEPT ![r] = v] /\ on' = [on EXCEPT ![r] = n]
             => pc' \in [Render -> CallState] /\ on' \in [Render -> Nat]
    BY DEF IInv, TypeOK
  <2>2. CASE Chromium!Reuse(r) \/ Chromium!AwaitLaunch(r)
    BY <1>5, <2>1, <2>2
       DEF GetBrowser, Chromium!Reuse, Chromium!AwaitLaunch, pool, readiness,
           process, clients, IInv, TypeOK, CallState
  <2>3. CASE Chromium!Launch(r)
    <3>1. /\ launched' = launched + 1 /\ shared' = launched' /\ doomed' = doomed
          /\ state' = [state EXCEPT ![launched'] = "launching"]
          /\ pc' = [pc EXCEPT ![r] = "launching"] /\ on' = [on EXCEPT ![r] = launched']
      BY <2>3 DEF Chromium!Launch
    <3>2. launched' \in Nat
      BY <3>1 DEF IInv, TypeOK
    <3>3. state' \in [Chromium!Launches -> LaunchState]
      BY <3>1 DEF IInv, TypeOK, LaunchState
    <3>4. pc' \in [Render -> CallState] /\ on' \in [Render -> Nat]
      BY <2>1, <3>1, <3>2 DEF CallState
    <3> QED
      BY <1>5, <3>1, <3>2, <3>3, <3>4
         DEF GetBrowser, pool, readiness, process, clients, IInv, TypeOK
  <2> QED
    BY <1>5, <2>2, <2>3 DEF GetBrowser
<1>6. ASSUME NEW r \in Render, Finish(r)
      PROVE  TypeOK'
  BY <1>6
     DEF Finish, Pool!Finish, Chromium!LetGo, Pool!Waiting, Pool!In, browser,
         readiness, process, clients, IInv, TypeOK, Phase, LaunchState,
         HttpState, HandlerState, CallState, RequestState
<1>7. ASSUME NEW q \in Probe, ReadyProbe(q)
      PROVE  TypeOK'
  BY <1>7
     DEF ReadyProbe, Ready!Ask, pool, browser, process, clients, IInv, TypeOK,
         Phase, LaunchState, HttpState, HandlerState, CallState, RequestState
<1>8. CASE Ping
  BY <1>8
     DEF Ping, Ready!PingSucceeds, Ready!PingFails, Ready!Answer, pool, browser,
         process, clients, IInv, TypeOK, Phase, LaunchState, HttpState,
         HandlerState, CallState, RequestState
<1>9. ASSUME NEW n \in Chromium!Launches, Crash(n)
      PROVE  TypeOK'
  BY <1>9
     DEF Crash, Chromium!Disconnect, pool, readiness, process, clients, IInv,
         TypeOK, Phase, LaunchState, HttpState, HandlerState, CallState,
         RequestState
<1>10. ASSUME NEW n \in Chromium!Launches, LaunchSettles(n)
      PROVE  TypeOK'
  <2>1. shared' \in Nat /\ launched' \in Nat
    <3>1. CASE Chromium!LaunchSucceeds(n)
      BY <3>1 DEF Chromium!LaunchSucceeds, IInv, TypeOK
    <3>2. CASE Chromium!LaunchFails(n)
      <4> DEFINE again == launched + 1 .. launched + Cardinality(Chromium!Waiting(n))
      <4>1. /\ launched' = launched + Cardinality(Chromium!Waiting(n))
            /\ shared' = IF again = {} THEN 0 ELSE launched'
        BY <3>2, BrowserCounts DEF Chromium!LaunchFails
      <4>2. launched' \in Nat
        BY <4>1, WaitersCounted DEF IInv, TypeOK
      <4> QED
        BY <4>1, <4>2
    <3> QED
      BY <1>10, <3>1, <3>2 DEF LaunchSettles
  <2>2. state' \in [Chromium!Launches -> LaunchState]
    BY <1>10
       DEF LaunchSettles, Chromium!LaunchSucceeds, Chromium!LaunchFails, IInv,
           TypeOK, LaunchState
  <2>3. pc' \in [Render -> CallState]
    BY <1>10
       DEF LaunchSettles, Chromium!LaunchSucceeds, Chromium!LaunchFails, IInv,
           TypeOK, CallState
  <2>4. on' \in [Render -> Nat]
    <3>1. CASE Chromium!LaunchSucceeds(n)
      BY <3>1 DEF Chromium!LaunchSucceeds, IInv, TypeOK
    <3>2. CASE Chromium!LaunchFails(n)
      <4> DEFINE again == launched + 1 .. launched + Cardinality(Chromium!Waiting(n))
      <4>1. PICK turn \in [Chromium!Waiting(n) -> again] :
               on' = [c \in Render |-> IF c \in Chromium!Waiting(n) THEN turn[c] ELSE on[c]]
        BY <3>2, BrowserCounts DEF Chromium!LaunchFails
      <4>2. again \subseteq Nat
        BY WaitersCounted DEF IInv, TypeOK
      <4> QED
        BY <4>1, <4>2 DEF IInv, TypeOK
    <3> QED
      BY <1>10, <3>1, <3>2 DEF LaunchSettles
  <2>5. doomed' = doomed
    BY <1>10 DEF LaunchSettles, Chromium!LaunchSucceeds, Chromium!LaunchFails
  <2> QED
    BY <1>10, <2>1, <2>2, <2>3, <2>4, <2>5
       DEF LaunchSettles, pool, readiness, process, clients, IInv, TypeOK
<1>11. ASSUME NEW n \in Chromium!Launches, BrowserCloses(n)
      PROVE  TypeOK'
  BY <1>11
     DEF BrowserCloses, Chromium!Disconnect, pool, readiness, process, clients,
         IInv, TypeOK, Phase, LaunchState, HttpState, HandlerState, CallState,
         RequestState
<1>12. CASE Database
  BY <1>12
     DEF Database, Ready!GoUp, Ready!GoDown, Ready!Age, pool, browser, process,
         clients, IInv, TypeOK, Phase, LaunchState, HttpState, HandlerState,
         CallState, RequestState
<1>13. ASSUME NEW s \in Signal, OnSignal(s)
      PROVE  TypeOK'
  BY <1>13
     DEF OnSignal, pool, browser, readiness, clients, IInv, TypeOK, Phase,
         LaunchState, HttpState, HandlerState, CallState, RequestState
<1>14. CASE StopAccepting
  BY <1>14
     DEF StopAccepting, pool, browser, readiness, clients, IInv, TypeOK, Phase,
         LaunchState, HttpState, HandlerState, CallState, RequestState
<1>15. CASE OnClose
  BY <1>15
     DEF OnClose, Drained, Pool!Shut, browser, readiness, clients, IInv, TypeOK,
         Phase, LaunchState, HttpState, HandlerState, CallState, RequestState
<1>16. CASE DatabaseEnded
  BY <1>16
     DEF DatabaseEnded, pool, browser, readiness, clients, IInv, TypeOK, Phase,
         LaunchState, HttpState, HandlerState, CallState, RequestState
<1>17. ASSUME NEW s \in Signal, CloseRenderer(s)
      PROVE  TypeOK'
  BY <1>17
     DEF CloseRenderer, ServerClosed, Chromium!Close, pool, readiness, clients,
         IInv, TypeOK, Phase, LaunchState, HttpState, HandlerState, CallState,
         RequestState
<1>18. ASSUME NEW s \in Signal, Exit(s)
      PROVE  TypeOK'
  BY <1>18
     DEF Exit, ServerClosed, pool, browser, readiness, clients, IInv, TypeOK,
         Phase, LaunchState, HttpState, HandlerState, CallState, RequestState
<1>19. CASE UNCHANGED vars
  BY <1>19
     DEF vars, pool, browser, readiness, process, clients, IInv, TypeOK, Phase,
         LaunchState, HttpState, HandlerState, CallState, RequestState
<1>20. ASSUME NEW r \in Render, Reject(r)
      PROVE  TypeOK'
  BY <1>20
     DEF Reject, pool, browser, readiness, process, IInv, TypeOK, Phase,
         LaunchState, HttpState, HandlerState, CallState, RequestState
<1>21. ASSUME NEW n \in Chromium!Launches, PlaywrightCloses(n)
      PROVE  TypeOK'
  BY <1>21
     DEF PlaywrightCloses, Chromium!Disconnect, pool, readiness, process,
         clients, IInv, TypeOK, Phase, LaunchState, HttpState, HandlerState,
         CallState, RequestState
<1>22. ASSUME NEW s \in Signal, ExitOnInterrupt(s)
      PROVE  TypeOK'
  BY <1>22
     DEF ExitOnInterrupt, pool, browser, readiness, clients, IInv, TypeOK,
         Phase, LaunchState, HttpState, HandlerState, CallState, RequestState
<1> QED
  BY <1>1, <1>2, <1>3, <1>4, <1>5, <1>6, <1>7, <1>8, <1>9, <1>10, <1>11, <1>12,
     <1>13, <1>14, <1>15, <1>16, <1>17, <1>18, <1>19, <1>20, <1>21, <1>22
     DEF Next, RenderProgress, BrowserProgress, ShutdownProgress

\* The pool knows the requests that have passed their checks.
LEMMA CheckedStep == IInv /\ [Next]_vars => PooledWereChecked'
<1> SUFFICES ASSUME IInv, [Next]_vars
             PROVE  PooledWereChecked'
  OBVIOUS
<1>1. ASSUME NEW r \in Render, Arrive(r)
      PROVE  PooledWereChecked'
  BY <1>1
     DEF Arrive, Pool!Enter, Pool!Wait, Pool!Refuse, browser, readiness,
         process, IInv, TypeOK, PooledWereChecked, InFlight, Unanswered,
         Pool!Waiting, Pool!Rendering, Pool!In
<1>2. ASSUME NEW r \in Render, Leave(r)
      PROVE  PooledWereChecked'
  BY <1>2
     DEF Leave, pool, browser, readiness, process, IInv, TypeOK,
         PooledWereChecked, InFlight, Pool!Waiting, Pool!Rendering, Pool!In
<1>3. ASSUME NEW r \in Render, Accept(r)
      PROVE  PooledWereChecked'
  BY <1>3
     DEF Accept, pool, browser, readiness, process, IInv, TypeOK,
         PooledWereChecked, InFlight, Pool!Waiting, Pool!Rendering, Pool!In
<1>4. ASSUME NEW r \in Render, QueueTimeout(r)
      PROVE  PooledWereChecked'
  BY <1>4
     DEF QueueTimeout, Pool!GiveUp, browser, readiness, process, clients, IInv,
         TypeOK, PooledWereChecked, InFlight, Unanswered, Pool!Waiting,
         Pool!Rendering, Pool!In
<1>5. ASSUME NEW r \in Render, GetBrowser(r)
      PROVE  PooledWereChecked'
  BY <1>5
     DEF GetBrowser, Chromium!Reuse, Chromium!AwaitLaunch, Chromium!Launch,
         pool, readiness, process, clients, IInv, TypeOK, PooledWereChecked,
         InFlight, Unanswered, Pool!Waiting, Pool!Rendering, Pool!In
<1>6. ASSUME NEW r \in Render, Finish(r)
      PROVE  PooledWereChecked'
  BY <1>6
     DEF Finish, Pool!Finish, Chromium!LetGo, Pool!Waiting, Pool!In, browser,
         readiness, process, clients, IInv, TypeOK, PooledWereChecked, InFlight,
         Unanswered, Pool!Rendering
<1>7. ASSUME NEW q \in Probe, ReadyProbe(q)
      PROVE  PooledWereChecked'
  BY <1>7
     DEF ReadyProbe, Ready!Ask, pool, browser, process, clients, IInv, TypeOK,
         PooledWereChecked, InFlight, Unanswered, Pool!Waiting, Pool!Rendering,
         Pool!In
<1>8. CASE Ping
  BY <1>8
     DEF Ping, Ready!PingSucceeds, Ready!PingFails, Ready!Answer, pool, browser,
         process, clients, IInv, TypeOK, PooledWereChecked, InFlight,
         Unanswered, Pool!Waiting, Pool!Rendering, Pool!In
<1>9. ASSUME NEW n \in Chromium!Launches, Crash(n)
      PROVE  PooledWereChecked'
  BY <1>9
     DEF Crash, Chromium!Disconnect, pool, readiness, process, clients, IInv,
         TypeOK, PooledWereChecked, InFlight, Unanswered, Pool!Waiting,
         Pool!Rendering, Pool!In
<1>10. ASSUME NEW n \in Chromium!Launches, LaunchSettles(n)
      PROVE  PooledWereChecked'
  BY <1>10
     DEF LaunchSettles, Chromium!LaunchSucceeds, Chromium!LaunchFails, pool,
         readiness, process, clients, IInv, TypeOK, PooledWereChecked, InFlight,
         Unanswered, Pool!Waiting, Pool!Rendering, Pool!In
<1>11. ASSUME NEW n \in Chromium!Launches, BrowserCloses(n)
      PROVE  PooledWereChecked'
  BY <1>11
     DEF BrowserCloses, Chromium!Disconnect, pool, readiness, process, clients,
         IInv, TypeOK, PooledWereChecked, InFlight, Unanswered, Pool!Waiting,
         Pool!Rendering, Pool!In
<1>12. CASE Database
  BY <1>12
     DEF Database, Ready!GoUp, Ready!GoDown, Ready!Age, pool, browser, process,
         clients, IInv, TypeOK, PooledWereChecked, InFlight, Unanswered,
         Pool!Waiting, Pool!Rendering, Pool!In
<1>13. ASSUME NEW s \in Signal, OnSignal(s)
      PROVE  PooledWereChecked'
  BY <1>13
     DEF OnSignal, pool, browser, readiness, clients, IInv, TypeOK,
         PooledWereChecked, InFlight, Pool!Waiting, Pool!Rendering, Pool!In
<1>14. CASE StopAccepting
  BY <1>14
     DEF StopAccepting, pool, browser, readiness, clients, IInv, TypeOK,
         PooledWereChecked, InFlight, Unanswered, Pool!Waiting, Pool!Rendering,
         Pool!In
<1>15. CASE OnClose
  BY <1>15
     DEF OnClose, Drained, Pool!Shut, browser, readiness, clients, IInv, TypeOK,
         PooledWereChecked, InFlight, Unanswered, Pool!Waiting, Pool!Rendering,
         Pool!In
<1>16. CASE DatabaseEnded
  BY <1>16
     DEF DatabaseEnded, pool, browser, readiness, clients, IInv, TypeOK,
         PooledWereChecked, InFlight, Unanswered, Pool!Waiting, Pool!Rendering,
         Pool!In
<1>17. ASSUME NEW s \in Signal, CloseRenderer(s)
      PROVE  PooledWereChecked'
  BY <1>17
     DEF CloseRenderer, ServerClosed, Chromium!Close, pool, readiness, clients,
         IInv, TypeOK, PooledWereChecked, InFlight, Unanswered, Pool!Waiting,
         Pool!Rendering, Pool!In
<1>18. ASSUME NEW s \in Signal, Exit(s)
      PROVE  PooledWereChecked'
  BY <1>18
     DEF Exit, ServerClosed, pool, browser, readiness, clients, IInv, TypeOK,
         PooledWereChecked, InFlight, Unanswered, Pool!Waiting, Pool!Rendering,
         Pool!In
<1>19. CASE UNCHANGED vars
  BY <1>19
     DEF vars, pool, browser, readiness, process, clients, IInv, TypeOK,
         PooledWereChecked, InFlight, Unanswered, Pool!Waiting, Pool!Rendering,
         Pool!In
<1>20. ASSUME NEW r \in Render, Reject(r)
      PROVE  PooledWereChecked'
  BY <1>20
     DEF Reject, pool, browser, readiness, process, IInv, TypeOK,
         PooledWereChecked, InFlight, Pool!Waiting, Pool!Rendering, Pool!In
<1>21. ASSUME NEW n \in Chromium!Launches, PlaywrightCloses(n)
      PROVE  PooledWereChecked'
  BY <1>21
     DEF PlaywrightCloses, Chromium!Disconnect, pool, readiness, process,
         clients, IInv, TypeOK, PooledWereChecked, InFlight, Unanswered,
         Pool!Waiting, Pool!Rendering, Pool!In
<1>22. ASSUME NEW s \in Signal, ExitOnInterrupt(s)
      PROVE  PooledWereChecked'
  BY <1>22
     DEF ExitOnInterrupt, pool, browser, readiness, clients, IInv, TypeOK,
         PooledWereChecked, InFlight, Unanswered, Pool!Waiting, Pool!Rendering,
         Pool!In
<1> QED
  BY <1>1, <1>2, <1>3, <1>4, <1>5, <1>6, <1>7, <1>8, <1>9, <1>10, <1>11, <1>12,
     <1>13, <1>14, <1>15, <1>16, <1>17, <1>18, <1>19, <1>20, <1>21, <1>22
     DEF Next, RenderProgress, BrowserProgress, ShutdownProgress

\* A ping that succeeds ends while the database is up.
LEMMA PingsStep == IInv /\ [Next]_vars => PingsSawUp'
<1> SUFFICES ASSUME IInv, [Next]_vars
             PROVE  PingsSawUp'
  OBVIOUS
<1>1. ASSUME NEW r \in Render, Arrive(r)
      PROVE  PingsSawUp'
  BY <1>1
     DEF Arrive, Pool!Enter, Pool!Wait, Pool!Refuse, browser, readiness,
         process, IInv, TypeOK, PingsSawUp, Ready!GoodResultWasUp
<1>2. ASSUME NEW r \in Render, Leave(r)
      PROVE  PingsSawUp'
  BY <1>2
     DEF Leave, pool, browser, readiness, process, IInv, TypeOK, PingsSawUp,
         Ready!GoodResultWasUp
<1>3. ASSUME NEW r \in Render, Accept(r)
      PROVE  PingsSawUp'
  BY <1>3
     DEF Accept, pool, browser, readiness, process, IInv, TypeOK, PingsSawUp,
         Ready!GoodResultWasUp
<1>4. ASSUME NEW r \in Render, QueueTimeout(r)
      PROVE  PingsSawUp'
  BY <1>4
     DEF QueueTimeout, Pool!GiveUp, browser, readiness, process, clients, IInv,
         TypeOK, PingsSawUp, Ready!GoodResultWasUp
<1>5. ASSUME NEW r \in Render, GetBrowser(r)
      PROVE  PingsSawUp'
  BY <1>5
     DEF GetBrowser, Chromium!Reuse, Chromium!AwaitLaunch, Chromium!Launch,
         pool, readiness, process, clients, IInv, TypeOK, PingsSawUp,
         Ready!GoodResultWasUp
<1>6. ASSUME NEW r \in Render, Finish(r)
      PROVE  PingsSawUp'
  BY <1>6
     DEF Finish, Pool!Finish, Chromium!LetGo, Pool!Waiting, Pool!In, browser,
         readiness, process, clients, IInv, TypeOK, PingsSawUp,
         Ready!GoodResultWasUp
<1>7. ASSUME NEW q \in Probe, ReadyProbe(q)
      PROVE  PingsSawUp'
  BY <1>7
     DEF ReadyProbe, Ready!Ask, pool, browser, process, clients, IInv, TypeOK,
         PingsSawUp, Ready!GoodResultWasUp
<1>8. CASE Ping
  BY <1>8
     DEF Ping, Ready!PingSucceeds, Ready!PingFails, Ready!Answer, pool, browser,
         process, clients, IInv, TypeOK, PingsSawUp, Ready!GoodResultWasUp
<1>9. ASSUME NEW n \in Chromium!Launches, Crash(n)
      PROVE  PingsSawUp'
  BY <1>9
     DEF Crash, Chromium!Disconnect, pool, readiness, process, clients, IInv,
         TypeOK, PingsSawUp, Ready!GoodResultWasUp
<1>10. ASSUME NEW n \in Chromium!Launches, LaunchSettles(n)
      PROVE  PingsSawUp'
  BY <1>10
     DEF LaunchSettles, Chromium!LaunchSucceeds, Chromium!LaunchFails, pool,
         readiness, process, clients, IInv, TypeOK, PingsSawUp,
         Ready!GoodResultWasUp
<1>11. ASSUME NEW n \in Chromium!Launches, BrowserCloses(n)
      PROVE  PingsSawUp'
  BY <1>11
     DEF BrowserCloses, Chromium!Disconnect, pool, readiness, process, clients,
         IInv, TypeOK, PingsSawUp, Ready!GoodResultWasUp
<1>12. CASE Database
  BY <1>12
     DEF Database, Ready!GoUp, Ready!GoDown, Ready!Age, pool, browser, process,
         clients, IInv, TypeOK, PingsSawUp, Ready!GoodResultWasUp
<1>13. ASSUME NEW s \in Signal, OnSignal(s)
      PROVE  PingsSawUp'
  BY <1>13
     DEF OnSignal, pool, browser, readiness, clients, IInv, TypeOK, PingsSawUp,
         Ready!GoodResultWasUp
<1>14. CASE StopAccepting
  BY <1>14
     DEF StopAccepting, pool, browser, readiness, clients, IInv, TypeOK,
         PingsSawUp, Ready!GoodResultWasUp
<1>15. CASE OnClose
  BY <1>15
     DEF OnClose, Drained, Pool!Shut, browser, readiness, clients, IInv, TypeOK,
         PingsSawUp, Ready!GoodResultWasUp
<1>16. CASE DatabaseEnded
  BY <1>16
     DEF DatabaseEnded, pool, browser, readiness, clients, IInv, TypeOK,
         PingsSawUp, Ready!GoodResultWasUp
<1>17. ASSUME NEW s \in Signal, CloseRenderer(s)
      PROVE  PingsSawUp'
  BY <1>17
     DEF CloseRenderer, ServerClosed, Chromium!Close, pool, readiness, clients,
         IInv, TypeOK, PingsSawUp, Ready!GoodResultWasUp
<1>18. ASSUME NEW s \in Signal, Exit(s)
      PROVE  PingsSawUp'
  BY <1>18
     DEF Exit, ServerClosed, pool, browser, readiness, clients, IInv, TypeOK,
         PingsSawUp, Ready!GoodResultWasUp
<1>19. CASE UNCHANGED vars
  BY <1>19
     DEF vars, pool, browser, readiness, process, clients, IInv, TypeOK,
         PingsSawUp, Ready!GoodResultWasUp
<1>20. ASSUME NEW r \in Render, Reject(r)
      PROVE  PingsSawUp'
  BY <1>20
     DEF Reject, pool, browser, readiness, process, IInv, TypeOK, PingsSawUp,
         Ready!GoodResultWasUp
<1>21. ASSUME NEW n \in Chromium!Launches, PlaywrightCloses(n)
      PROVE  PingsSawUp'
  BY <1>21
     DEF PlaywrightCloses, Chromium!Disconnect, pool, readiness, process,
         clients, IInv, TypeOK, PingsSawUp, Ready!GoodResultWasUp
<1>22. ASSUME NEW s \in Signal, ExitOnInterrupt(s)
      PROVE  PingsSawUp'
  BY <1>22
     DEF ExitOnInterrupt, pool, browser, readiness, clients, IInv, TypeOK,
         PingsSawUp, Ready!GoodResultWasUp
<1> QED
  BY <1>1, <1>2, <1>3, <1>4, <1>5, <1>6, <1>7, <1>8, <1>9, <1>10, <1>11, <1>12,
     <1>13, <1>14, <1>15, <1>16, <1>17, <1>18, <1>19, <1>20, <1>21, <1>22
     DEF Next, RenderProgress, BrowserProgress, ShutdownProgress

\* A launch takes the next number, and keeps it.
LEMMA LaunchesStep == IInv /\ [Next]_vars => LaunchesNumbered'
<1> SUFFICES ASSUME IInv, [Next]_vars
             PROVE  LaunchesNumbered'
  OBVIOUS
<1>1. ASSUME NEW r \in Render, Arrive(r)
      PROVE  LaunchesNumbered'
  BY <1>1
     DEF Arrive, Pool!Enter, Pool!Wait, Pool!Refuse, browser, readiness,
         process, IInv, TypeOK, LaunchesNumbered, LaunchState, Chromium!Launches
<1>2. ASSUME NEW r \in Render, Leave(r)
      PROVE  LaunchesNumbered'
  BY <1>2
     DEF Leave, pool, browser, readiness, process, IInv, TypeOK,
         LaunchesNumbered, LaunchState, Chromium!Launches
<1>3. ASSUME NEW r \in Render, Accept(r)
      PROVE  LaunchesNumbered'
  BY <1>3
     DEF Accept, pool, browser, readiness, process, IInv, TypeOK,
         LaunchesNumbered, LaunchState, Chromium!Launches
<1>4. ASSUME NEW r \in Render, QueueTimeout(r)
      PROVE  LaunchesNumbered'
  BY <1>4
     DEF QueueTimeout, Pool!GiveUp, browser, readiness, process, clients, IInv,
         TypeOK, LaunchesNumbered, LaunchState, Chromium!Launches
<1>5. ASSUME NEW r \in Render, GetBrowser(r)
      PROVE  LaunchesNumbered'
  <2> SUFFICES ASSUME NEW n \in Chromium!Launches, state'[n] # "none"
               PROVE  n =< launched'
    BY DEF LaunchesNumbered
  <2>1. CASE Chromium!Reuse(r) \/ Chromium!AwaitLaunch(r)
    BY <2>1 DEF Chromium!Reuse, Chromium!AwaitLaunch, IInv, LaunchesNumbered
  <2>2. CASE Chromium!Launch(r)
    <3>1. /\ launched' = launched + 1
          /\ state' = [state EXCEPT ![launched'] = "launching"]
      BY <2>2 DEF Chromium!Launch
    <3>2. n \in Nat /\ launched \in Nat
      BY DEF IInv, TypeOK, Chromium!Launches
    <3>3. CASE n = launched'
      BY <3>1, <3>2, <3>3
    <3>4. CASE n # launched'
      <4>1. state[n] # "none"
        BY <3>1, <3>4 DEF IInv, TypeOK
      <4>2. n =< launched
        BY <4>1 DEF IInv, LaunchesNumbered
      <4> QED
        BY <3>1, <3>2, <4>2
    <3> QED
      BY <3>3, <3>4
  <2> QED
    BY <1>5, <2>1, <2>2 DEF GetBrowser
<1>6. ASSUME NEW r \in Render, Finish(r)
      PROVE  LaunchesNumbered'
  BY <1>6
     DEF Finish, Pool!Finish, Chromium!LetGo, Pool!Waiting, Pool!In, browser,
         readiness, process, clients, IInv, TypeOK, LaunchesNumbered,
         LaunchState, Chromium!Launches
<1>7. ASSUME NEW q \in Probe, ReadyProbe(q)
      PROVE  LaunchesNumbered'
  BY <1>7
     DEF ReadyProbe, Ready!Ask, pool, browser, process, clients, IInv, TypeOK,
         LaunchesNumbered, LaunchState, Chromium!Launches
<1>8. CASE Ping
  BY <1>8
     DEF Ping, Ready!PingSucceeds, Ready!PingFails, Ready!Answer, pool, browser,
         process, clients, IInv, TypeOK, LaunchesNumbered, LaunchState,
         Chromium!Launches
<1>9. ASSUME NEW n \in Chromium!Launches, Crash(n)
      PROVE  LaunchesNumbered'
  BY <1>9
     DEF Crash, Chromium!Disconnect, pool, readiness, process, clients, IInv,
         TypeOK, LaunchesNumbered, LaunchState, Chromium!Launches
<1>10. ASSUME NEW n \in Chromium!Launches, LaunchSettles(n)
      PROVE  LaunchesNumbered'
  <2> SUFFICES ASSUME NEW m \in Chromium!Launches, state'[m] # "none"
               PROVE  m =< launched'
    BY DEF LaunchesNumbered
  <2> DEFINE waiting == Cardinality(Chromium!Waiting(n))
  <2>1. m \in Nat /\ launched \in Nat /\ waiting \in Nat
    BY WaitersCounted DEF IInv, TypeOK, Chromium!Launches
  <2>2. launched' = launched \/ launched' = launched + waiting
    BY <1>10, BrowserCounts
       DEF LaunchSettles, Chromium!LaunchSucceeds, Chromium!LaunchFails
  <2>3. CASE state[m] # "none"
    <3>1. m =< launched
      BY <2>3 DEF IInv, LaunchesNumbered
    <3> QED
      BY <2>1, <2>2, <3>1
  <2>4. CASE state[m] = "none"
    <3>1. Chromium!LaunchFails(n)
      BY <1>10, <2>4 DEF LaunchSettles, Chromium!LaunchSucceeds, IInv, TypeOK
    <3>2. m \in launched + 1 .. launched + waiting /\ launched' = launched + waiting
      BY <2>4, <3>1, BrowserCounts DEF Chromium!LaunchFails
    <3> QED
      BY <2>1, <3>2
  <2> QED
    BY <2>3, <2>4
<1>11. ASSUME NEW n \in Chromium!Launches, BrowserCloses(n)
      PROVE  LaunchesNumbered'
  BY <1>11
     DEF BrowserCloses, Chromium!Disconnect, pool, readiness, process, clients,
         IInv, TypeOK, LaunchesNumbered, LaunchState, Chromium!Launches
<1>12. CASE Database
  BY <1>12
     DEF Database, Ready!GoUp, Ready!GoDown, Ready!Age, pool, browser, process,
         clients, IInv, TypeOK, LaunchesNumbered, LaunchState, Chromium!Launches
<1>13. ASSUME NEW s \in Signal, OnSignal(s)
      PROVE  LaunchesNumbered'
  BY <1>13
     DEF OnSignal, pool, browser, readiness, clients, IInv, TypeOK,
         LaunchesNumbered, LaunchState, Chromium!Launches
<1>14. CASE StopAccepting
  BY <1>14
     DEF StopAccepting, pool, browser, readiness, clients, IInv, TypeOK,
         LaunchesNumbered, LaunchState, Chromium!Launches
<1>15. CASE OnClose
  BY <1>15
     DEF OnClose, Drained, Pool!Shut, browser, readiness, clients, IInv, TypeOK,
         LaunchesNumbered, LaunchState, Chromium!Launches
<1>16. CASE DatabaseEnded
  BY <1>16
     DEF DatabaseEnded, pool, browser, readiness, clients, IInv, TypeOK,
         LaunchesNumbered, LaunchState, Chromium!Launches
<1>17. ASSUME NEW s \in Signal, CloseRenderer(s)
      PROVE  LaunchesNumbered'
  BY <1>17
     DEF CloseRenderer, ServerClosed, Chromium!Close, pool, readiness, clients,
         IInv, TypeOK, LaunchesNumbered, LaunchState, Chromium!Launches
<1>18. ASSUME NEW s \in Signal, Exit(s)
      PROVE  LaunchesNumbered'
  BY <1>18
     DEF Exit, ServerClosed, pool, browser, readiness, clients, IInv, TypeOK,
         LaunchesNumbered, LaunchState, Chromium!Launches
<1>19. CASE UNCHANGED vars
  BY <1>19
     DEF vars, pool, browser, readiness, process, clients, IInv, TypeOK,
         LaunchesNumbered, LaunchState, Chromium!Launches
<1>20. ASSUME NEW r \in Render, Reject(r)
      PROVE  LaunchesNumbered'
  BY <1>20
     DEF Reject, pool, browser, readiness, process, IInv, TypeOK,
         LaunchesNumbered, LaunchState, Chromium!Launches
<1>21. ASSUME NEW n \in Chromium!Launches, PlaywrightCloses(n)
      PROVE  LaunchesNumbered'
  BY <1>21
     DEF PlaywrightCloses, Chromium!Disconnect, pool, readiness, process,
         clients, IInv, TypeOK, LaunchesNumbered, LaunchState, Chromium!Launches
<1>22. ASSUME NEW s \in Signal, ExitOnInterrupt(s)
      PROVE  LaunchesNumbered'
  BY <1>22
     DEF ExitOnInterrupt, pool, browser, readiness, clients, IInv, TypeOK,
         LaunchesNumbered, LaunchState, Chromium!Launches
<1> QED
  BY <1>1, <1>2, <1>3, <1>4, <1>5, <1>6, <1>7, <1>8, <1>9, <1>10, <1>11, <1>12,
     <1>13, <1>14, <1>15, <1>16, <1>17, <1>18, <1>19, <1>20, <1>21, <1>22
     DEF Next, RenderProgress, BrowserProgress, ShutdownProgress

\* Requests come in while the server is open and by no other way.
LEMMA ClosedStep == IInv /\ [Next]_vars => ClosedInOrder'
<1> SUFFICES ASSUME IInv, [Next]_vars
             PROVE  ClosedInOrder'
  OBVIOUS
<1>1. ASSUME NEW r \in Render, Arrive(r)
      PROVE  ClosedInOrder'
  BY <1>1
     DEF Arrive, Pool!Enter, Pool!Wait, Pool!Refuse, browser, readiness,
         process, IInv, TypeOK, ClosedInOrder, Taken, InFlight, Unanswered,
         Pool!Waiting, Pool!Rendering, Pool!In, Phase, HttpState
<1>2. ASSUME NEW r \in Render, Leave(r)
      PROVE  ClosedInOrder'
  BY <1>2
     DEF Leave, pool, browser, readiness, process, IInv, TypeOK, ClosedInOrder,
         Taken, InFlight, Unanswered, Pool!Waiting, Pool!Rendering, Pool!In,
         Phase, HttpState
<1>3. ASSUME NEW r \in Render, Accept(r)
      PROVE  ClosedInOrder'
  BY <1>3
     DEF Accept, pool, browser, readiness, process, IInv, TypeOK, ClosedInOrder,
         Taken, InFlight, Unanswered, Pool!Waiting, Pool!Rendering, Pool!In,
         Phase, HttpState
<1>4. ASSUME NEW r \in Render, QueueTimeout(r)
      PROVE  ClosedInOrder'
  BY <1>4
     DEF QueueTimeout, Pool!GiveUp, browser, readiness, process, clients, IInv,
         TypeOK, ClosedInOrder, Taken, InFlight, Unanswered, Pool!Waiting,
         Pool!Rendering, Pool!In, Phase, HttpState
<1>5. ASSUME NEW r \in Render, GetBrowser(r)
      PROVE  ClosedInOrder'
  BY <1>5
     DEF GetBrowser, Chromium!Reuse, Chromium!AwaitLaunch, Chromium!Launch,
         pool, readiness, process, clients, IInv, TypeOK, ClosedInOrder, Taken,
         Unanswered, InFlight, Pool!Waiting, Pool!Rendering, Pool!In, Phase,
         HttpState
<1>6. ASSUME NEW r \in Render, Finish(r)
      PROVE  ClosedInOrder'
  BY <1>6
     DEF Finish, Pool!Finish, Chromium!LetGo, Pool!Waiting, Pool!In, browser,
         readiness, process, clients, IInv, TypeOK, ClosedInOrder, Taken,
         Unanswered, InFlight, Pool!Rendering, Phase, HttpState
<1>7. ASSUME NEW q \in Probe, ReadyProbe(q)
      PROVE  ClosedInOrder'
  BY <1>7
     DEF ReadyProbe, Ready!Ask, pool, browser, process, clients, IInv, TypeOK,
         ClosedInOrder, Taken, InFlight, Unanswered, Pool!Waiting,
         Pool!Rendering, Pool!In, Phase, HttpState
<1>8. CASE Ping
  BY <1>8
     DEF Ping, Ready!PingSucceeds, Ready!PingFails, Ready!Answer, pool, browser,
         process, clients, IInv, TypeOK, ClosedInOrder, Taken, InFlight,
         Unanswered, Pool!Waiting, Pool!Rendering, Pool!In, Phase, HttpState
<1>9. ASSUME NEW n \in Chromium!Launches, Crash(n)
      PROVE  ClosedInOrder'
  BY <1>9
     DEF Crash, Chromium!Disconnect, pool, readiness, process, clients, IInv,
         TypeOK, ClosedInOrder, Taken, InFlight, Unanswered, Pool!Waiting,
         Pool!Rendering, Pool!In, Phase, HttpState
<1>10. ASSUME NEW n \in Chromium!Launches, LaunchSettles(n)
      PROVE  ClosedInOrder'
  BY <1>10
     DEF LaunchSettles, Chromium!LaunchSucceeds, Chromium!LaunchFails, pool,
         readiness, process, clients, IInv, TypeOK, ClosedInOrder, Taken,
         Unanswered, InFlight, Pool!Waiting, Pool!Rendering, Pool!In, Phase,
         HttpState
<1>11. ASSUME NEW n \in Chromium!Launches, BrowserCloses(n)
      PROVE  ClosedInOrder'
  BY <1>11
     DEF BrowserCloses, Chromium!Disconnect, pool, readiness, process, clients,
         IInv, TypeOK, ClosedInOrder, Taken, InFlight, Unanswered, Pool!Waiting,
         Pool!Rendering, Pool!In, Phase, HttpState
<1>12. CASE Database
  BY <1>12
     DEF Database, Ready!GoUp, Ready!GoDown, Ready!Age, pool, browser, process,
         clients, IInv, TypeOK, ClosedInOrder, Taken, InFlight, Unanswered,
         Pool!Waiting, Pool!Rendering, Pool!In, Phase, HttpState
<1>13. ASSUME NEW s \in Signal, OnSignal(s)
      PROVE  ClosedInOrder'
  BY <1>13
     DEF OnSignal, pool, browser, readiness, clients, IInv, TypeOK,
         ClosedInOrder, Taken, InFlight, Unanswered, Pool!Waiting,
         Pool!Rendering, Pool!In, Phase, HttpState
<1>14. CASE StopAccepting
  BY <1>14
     DEF StopAccepting, pool, browser, readiness, clients, IInv, TypeOK,
         ClosedInOrder, Taken, InFlight, Unanswered, Pool!Waiting,
         Pool!Rendering, Pool!In, Phase, HttpState
<1>15. CASE OnClose
  BY <1>15
     DEF OnClose, Drained, Pool!Shut, browser, readiness, clients, IInv, TypeOK,
         ClosedInOrder, Taken, InFlight, Unanswered, Pool!Waiting,
         Pool!Rendering, Pool!In, Phase, HttpState
<1>16. CASE DatabaseEnded
  BY <1>16
     DEF DatabaseEnded, pool, browser, readiness, clients, IInv, TypeOK,
         ClosedInOrder, Taken, InFlight, Unanswered, Pool!Waiting,
         Pool!Rendering, Pool!In, Phase, HttpState
<1>17. ASSUME NEW s \in Signal, CloseRenderer(s)
      PROVE  ClosedInOrder'
  BY <1>17
     DEF CloseRenderer, ServerClosed, Chromium!Close, pool, readiness, clients,
         IInv, TypeOK, ClosedInOrder, Taken, InFlight, Unanswered, Pool!Waiting,
         Pool!Rendering, Pool!In, Phase, HttpState
<1>18. ASSUME NEW s \in Signal, Exit(s)
      PROVE  ClosedInOrder'
  BY <1>18
     DEF Exit, ServerClosed, pool, browser, readiness, clients, IInv, TypeOK,
         ClosedInOrder, Taken, InFlight, Unanswered, Pool!Waiting,
         Pool!Rendering, Pool!In, Phase, HttpState
<1>19. CASE UNCHANGED vars
  BY <1>19
     DEF vars, pool, browser, readiness, process, clients, IInv, TypeOK,
         ClosedInOrder, Taken, InFlight, Unanswered, Pool!Waiting,
         Pool!Rendering, Pool!In, Phase, HttpState
<1>20. ASSUME NEW r \in Render, Reject(r)
      PROVE  ClosedInOrder'
  BY <1>20
     DEF Reject, pool, browser, readiness, process, IInv, TypeOK, ClosedInOrder,
         Taken, InFlight, Unanswered, Pool!Waiting, Pool!Rendering, Pool!In,
         Phase, HttpState, PooledWereChecked
<1>21. ASSUME NEW n \in Chromium!Launches, PlaywrightCloses(n)
      PROVE  ClosedInOrder'
  BY <1>21
     DEF PlaywrightCloses, Chromium!Disconnect, pool, readiness, process,
         clients, IInv, TypeOK, ClosedInOrder, Taken, InFlight, Unanswered,
         Pool!Waiting, Pool!Rendering, Pool!In, Phase, HttpState
<1>22. ASSUME NEW s \in Signal, ExitOnInterrupt(s)
      PROVE  ClosedInOrder'
  BY <1>22
     DEF ExitOnInterrupt, pool, browser, readiness, clients, IInv, TypeOK,
         ClosedInOrder, Taken, InFlight, Unanswered, Pool!Waiting,
         Pool!Rendering, Pool!In, Phase, HttpState
<1> QED
  BY <1>1, <1>2, <1>3, <1>4, <1>5, <1>6, <1>7, <1>8, <1>9, <1>10, <1>11, <1>12,
     <1>13, <1>14, <1>15, <1>16, <1>17, <1>18, <1>19, <1>20, <1>21, <1>22
     DEF Next, RenderProgress, BrowserProgress, ShutdownProgress

\* A browser is launched only when the shared one is gone, unless a launch fails,
\* and none any more when there are no clients left.
LEMMA TrackedStep == IInv /\ [Next]_vars => BrowsersTracked'
<1> SUFFICES ASSUME IInv, [Next]_vars
             PROVE  BrowsersTracked'
  OBVIOUS
<1>1. ASSUME NEW r \in Render, Arrive(r)
      PROVE  BrowsersTracked'
  BY <1>1
     DEF Arrive, Pool!Enter, Pool!Wait, Pool!Refuse, browser, readiness,
         process, IInv, TypeOK, BrowsersTracked, LeftBeforePool, Aborted,
         LaunchesNumbered, NoneFailed, Taken, Chromium!Live
<1>2. ASSUME NEW r \in Render, Leave(r)
      PROVE  BrowsersTracked'
  BY <1>2
     DEF Leave, pool, browser, readiness, process, IInv, TypeOK,
         BrowsersTracked, LeftBeforePool, Aborted, LaunchesNumbered, NoneFailed,
         Taken, Chromium!Live
<1>3. ASSUME NEW r \in Render, Accept(r)
      PROVE  BrowsersTracked'
  BY <1>3
     DEF Accept, pool, browser, readiness, process, IInv, TypeOK,
         BrowsersTracked, LeftBeforePool, Aborted, LaunchesNumbered, NoneFailed,
         Taken, Chromium!Live, ClosedInOrder
<1>4. ASSUME NEW r \in Render, QueueTimeout(r)
      PROVE  BrowsersTracked'
  BY <1>4
     DEF QueueTimeout, Pool!GiveUp, browser, readiness, process, clients, IInv,
         TypeOK, BrowsersTracked, LeftBeforePool, Aborted, LaunchesNumbered,
         NoneFailed, Taken, Chromium!Live
<1>5. ASSUME NEW r \in Render, GetBrowser(r)
      PROVE  BrowsersTracked'
  <2>1. CASE Chromium!Reuse(r) \/ Chromium!AwaitLaunch(r)
    BY <1>5, <2>1
       DEF GetBrowser, Chromium!Reuse, Chromium!AwaitLaunch, process, clients,
           IInv, BrowsersTracked, LeftBeforePool, Aborted, NoneFailed, Taken,
           Chromium!Live
  <2>2. ASSUME Chromium!Launch(r), NoneFailed'
        PROVE  /\ doomed' = {} => Chromium!Live' \subseteq {shared'}
               /\ doomed' # {} /\ LeftBeforePool' /\ ~Aborted' =>
                 shared' = 0 /\ Chromium!Live' \subseteq Taken'
    <3>1. /\ launched' = launched + 1 /\ shared' = launched'
          /\ state' = [state EXCEPT ![launched'] = "launching"]
          /\ shared # 0 => state[shared] \in {"failed", "gone"}
          /\ doomed' = doomed /\ left' = left /\ request' = request
      BY <1>5, <2>2 DEF GetBrowser, clients, Chromium!Launch
    <3>2. \A n \in Chromium!Launches : n # launched' => state'[n] = state[n]
      BY <3>1 DEF IInv, TypeOK
    <3>3. \A n \in Chromium!Launches : n = launched' => state[n] = "none"
      BY <3>1 DEF IInv, TypeOK, LaunchesNumbered, Chromium!Launches
    <3>4. NoneFailed
      BY <2>2, <3>2, <3>3 DEF NoneFailed
    <3>5. CASE doomed = {}
      <4>1. Chromium!Live \subseteq {shared}
        BY <3>4, <3>5 DEF IInv, BrowsersTracked
      <4>2. Chromium!Live = {}
        BY <3>1, <4>1 DEF Chromium!Live, Chromium!Launches
      <4> QED
        BY <3>1, <3>2, <3>5, <4>2 DEF Chromium!Live
    <3>6. CASE doomed # {}
      <4>1. r \in InFlight
        BY <1>5 DEF GetBrowser, InFlight, Pool!Rendering, Pool!In
      <4>2. r \in left
        BY <3>6, <4>1 DEF IInv, ClosedInOrder, Unanswered
      <4>3. request[r] = "called"
        BY <4>1
           DEF InFlight, Pool!Waiting, Pool!Rendering, Pool!In, IInv,
               PooledWereChecked
      <4>4. ~LeftBeforePool'
        BY <3>1, <4>2, <4>3 DEF LeftBeforePool
      <4> QED
        BY <3>1, <3>6, <4>4
    <3> QED
      BY <3>5, <3>6
  <2> QED
    BY <1>5, <2>1, <2>2 DEF GetBrowser, BrowsersTracked
<1>6. ASSUME NEW r \in Render, Finish(r)
      PROVE  BrowsersTracked'
  BY <1>6
     DEF Finish, Pool!Finish, Chromium!LetGo, Pool!Waiting, Pool!In, browser,
         readiness, process, clients, IInv, TypeOK, BrowsersTracked,
         LeftBeforePool, Aborted, LaunchesNumbered, NoneFailed, Taken,
         Chromium!Live
<1>7. ASSUME NEW q \in Probe, ReadyProbe(q)
      PROVE  BrowsersTracked'
  BY <1>7
     DEF ReadyProbe, Ready!Ask, pool, browser, process, clients, IInv, TypeOK,
         BrowsersTracked, LeftBeforePool, Aborted, LaunchesNumbered, NoneFailed,
         Taken, Chromium!Live
<1>8. CASE Ping
  BY <1>8
     DEF Ping, Ready!PingSucceeds, Ready!PingFails, Ready!Answer, pool, browser,
         process, clients, IInv, TypeOK, BrowsersTracked, LeftBeforePool,
         Aborted, LaunchesNumbered, NoneFailed, Taken, Chromium!Live
<1>9. ASSUME NEW n \in Chromium!Launches, Crash(n)
      PROVE  BrowsersTracked'
  BY <1>9
     DEF Crash, Chromium!Disconnect, pool, readiness, process, clients, IInv,
         TypeOK, BrowsersTracked, LeftBeforePool, Aborted, LaunchesNumbered,
         NoneFailed, Taken, Chromium!Live
<1>10. ASSUME NEW n \in Chromium!Launches, LaunchSettles(n)
      PROVE  BrowsersTracked'
  BY <1>10
     DEF LaunchSettles, Chromium!LaunchSucceeds, Chromium!LaunchFails, pool,
         readiness, process, clients, IInv, TypeOK, BrowsersTracked,
         LeftBeforePool, Aborted, LaunchesNumbered, NoneFailed, Taken,
         Chromium!Live
<1>11. ASSUME NEW n \in Chromium!Launches, BrowserCloses(n)
      PROVE  BrowsersTracked'
  BY <1>11
     DEF BrowserCloses, Chromium!Disconnect, pool, readiness, process, clients,
         IInv, TypeOK, BrowsersTracked, LeftBeforePool, Aborted,
         LaunchesNumbered, NoneFailed, Taken, Chromium!Live
<1>12. CASE Database
  BY <1>12
     DEF Database, Ready!GoUp, Ready!GoDown, Ready!Age, pool, browser, process,
         clients, IInv, TypeOK, BrowsersTracked, LeftBeforePool, Aborted,
         LaunchesNumbered, NoneFailed, Taken, Chromium!Live
<1>13. ASSUME NEW s \in Signal, OnSignal(s)
      PROVE  BrowsersTracked'
  BY <1>13
     DEF OnSignal, pool, browser, readiness, clients, IInv, TypeOK,
         BrowsersTracked, LeftBeforePool, Aborted, LaunchesNumbered, NoneFailed,
         Taken, Chromium!Live
<1>14. CASE StopAccepting
  BY <1>14
     DEF StopAccepting, pool, browser, readiness, clients, IInv, TypeOK,
         BrowsersTracked, LeftBeforePool, Aborted, LaunchesNumbered, NoneFailed,
         Taken, Chromium!Live
<1>15. CASE OnClose
  BY <1>15
     DEF OnClose, Drained, Pool!Shut, browser, readiness, clients, IInv, TypeOK,
         BrowsersTracked, LeftBeforePool, Aborted, LaunchesNumbered, NoneFailed,
         Taken, Chromium!Live
<1>16. CASE DatabaseEnded
  BY <1>16
     DEF DatabaseEnded, pool, browser, readiness, clients, IInv, TypeOK,
         BrowsersTracked, LeftBeforePool, Aborted, LaunchesNumbered, NoneFailed,
         Taken, Chromium!Live
<1>17. ASSUME NEW s \in Signal, CloseRenderer(s)
      PROVE  BrowsersTracked'
  BY <1>17
     DEF CloseRenderer, ServerClosed, Chromium!Close, pool, readiness, clients,
         IInv, TypeOK, BrowsersTracked, LeftBeforePool, Aborted,
         LaunchesNumbered, NoneFailed, Taken, Chromium!Live
<1>18. ASSUME NEW s \in Signal, Exit(s)
      PROVE  BrowsersTracked'
  BY <1>18
     DEF Exit, ServerClosed, pool, browser, readiness, clients, IInv, TypeOK,
         BrowsersTracked, LeftBeforePool, Aborted, LaunchesNumbered, NoneFailed,
         Taken, Chromium!Live
<1>19. CASE UNCHANGED vars
  BY <1>19
     DEF vars, pool, browser, readiness, process, clients, IInv, TypeOK,
         BrowsersTracked, LeftBeforePool, Aborted, LaunchesNumbered, NoneFailed,
         Taken, Chromium!Live
<1>20. ASSUME NEW r \in Render, Reject(r)
      PROVE  BrowsersTracked'
  BY <1>20
     DEF Reject, pool, browser, readiness, process, IInv, TypeOK,
         BrowsersTracked, LeftBeforePool, Aborted, LaunchesNumbered, NoneFailed,
         Taken, Chromium!Live
<1>21. ASSUME NEW n \in Chromium!Launches, PlaywrightCloses(n)
      PROVE  BrowsersTracked'
  BY <1>21
     DEF PlaywrightCloses, Chromium!Disconnect, pool, readiness, process,
         clients, IInv, TypeOK, BrowsersTracked, LeftBeforePool, Aborted,
         LaunchesNumbered, NoneFailed, Taken, Chromium!Live
<1>22. ASSUME NEW s \in Signal, ExitOnInterrupt(s)
      PROVE  BrowsersTracked'
  BY <1>22
     DEF ExitOnInterrupt, pool, browser, readiness, clients, IInv, TypeOK,
         BrowsersTracked, LeftBeforePool, Aborted, LaunchesNumbered, NoneFailed,
         Taken, Chromium!Live
<1> QED
  BY <1>1, <1>2, <1>3, <1>4, <1>5, <1>6, <1>7, <1>8, <1>9, <1>10, <1>11, <1>12,
     <1>13, <1>14, <1>15, <1>16, <1>17, <1>18, <1>19, <1>20, <1>21, <1>22
     DEF Next, RenderProgress, BrowserProgress, ShutdownProgress

\* The handler that exits has waited for its own browser.
LEMMA ExitStep == IInv /\ [Next]_vars => ExitLeavesNoBrowser'
<1> SUFFICES ASSUME IInv, [Next]_vars
             PROVE  ExitLeavesNoBrowser'
  OBVIOUS
<1>1. ASSUME NEW r \in Render, ~Exited, Arrive(r)
      PROVE  ExitLeavesNoBrowser'
  BY <1>1
     DEF Arrive, Pool!Enter, Pool!Wait, Pool!Refuse, browser, readiness,
         process, IInv, TypeOK, ExitLeavesNoBrowser, Exited, Aborted,
         Chromium!Live
<1>2. ASSUME NEW r \in Render, ~Exited, Leave(r)
      PROVE  ExitLeavesNoBrowser'
  BY <1>2
     DEF Leave, pool, browser, readiness, process, IInv, TypeOK,
         ExitLeavesNoBrowser, Exited, Aborted, Chromium!Live
<1>3. ASSUME NEW r \in Render, ~Exited, Accept(r)
      PROVE  ExitLeavesNoBrowser'
  BY <1>3
     DEF Accept, pool, browser, readiness, process, IInv, TypeOK,
         ExitLeavesNoBrowser, Exited, Aborted, Chromium!Live
<1>4. ASSUME NEW r \in Render, ~Exited, QueueTimeout(r)
      PROVE  ExitLeavesNoBrowser'
  BY <1>4
     DEF QueueTimeout, Pool!GiveUp, browser, readiness, process, clients, IInv,
         TypeOK, ExitLeavesNoBrowser, Exited, Aborted, Chromium!Live
<1>5. ASSUME NEW r \in Render, ~Exited, GetBrowser(r)
      PROVE  ExitLeavesNoBrowser'
  BY <1>5
     DEF GetBrowser, Chromium!Reuse, Chromium!AwaitLaunch, Chromium!Launch,
         pool, readiness, process, clients, IInv, TypeOK, ExitLeavesNoBrowser,
         Exited, Aborted, Chromium!Live
<1>6. ASSUME NEW r \in Render, ~Exited, Finish(r)
      PROVE  ExitLeavesNoBrowser'
  BY <1>6
     DEF Finish, Pool!Finish, Chromium!LetGo, Pool!Waiting, Pool!In, browser,
         readiness, process, clients, IInv, TypeOK, ExitLeavesNoBrowser, Exited,
         Aborted, Chromium!Live
<1>7. ASSUME NEW q \in Probe, ~Exited, ReadyProbe(q)
      PROVE  ExitLeavesNoBrowser'
  BY <1>7
     DEF ReadyProbe, Ready!Ask, pool, browser, process, clients, IInv, TypeOK,
         ExitLeavesNoBrowser, Exited, Aborted, Chromium!Live
<1>8. ASSUME ~Exited, Ping
      PROVE  ExitLeavesNoBrowser'
  BY <1>8
     DEF Ping, Ready!PingSucceeds, Ready!PingFails, Ready!Answer, pool, browser,
         process, clients, IInv, TypeOK, ExitLeavesNoBrowser, Exited, Aborted,
         Chromium!Live
<1>9. ASSUME NEW n \in Chromium!Launches, ~Exited, Crash(n)
      PROVE  ExitLeavesNoBrowser'
  BY <1>9
     DEF Crash, Chromium!Disconnect, pool, readiness, process, clients, IInv,
         TypeOK, ExitLeavesNoBrowser, Exited, Aborted, Chromium!Live
<1>10. ASSUME NEW n \in Chromium!Launches, ~Exited, LaunchSettles(n)
      PROVE  ExitLeavesNoBrowser'
  BY <1>10
     DEF LaunchSettles, Chromium!LaunchSucceeds, Chromium!LaunchFails, pool,
         readiness, process, clients, IInv, TypeOK, ExitLeavesNoBrowser, Exited,
         Aborted, Chromium!Live
<1>11. ASSUME NEW n \in Chromium!Launches, ~Exited, BrowserCloses(n)
      PROVE  ExitLeavesNoBrowser'
  BY <1>11
     DEF BrowserCloses, Chromium!Disconnect, pool, readiness, process, clients,
         IInv, TypeOK, ExitLeavesNoBrowser, Exited, Aborted, Chromium!Live
<1>12. ASSUME ~Exited, Database
      PROVE  ExitLeavesNoBrowser'
  BY <1>12
     DEF Database, Ready!GoUp, Ready!GoDown, Ready!Age, pool, browser, process,
         clients, IInv, TypeOK, ExitLeavesNoBrowser, Exited, Aborted,
         Chromium!Live
<1>13. ASSUME NEW s \in Signal, ~Exited, OnSignal(s)
      PROVE  ExitLeavesNoBrowser'
  BY <1>13
     DEF OnSignal, pool, browser, readiness, clients, IInv, TypeOK,
         ExitLeavesNoBrowser, Exited, Aborted, Chromium!Live
<1>14. ASSUME ~Exited, StopAccepting
      PROVE  ExitLeavesNoBrowser'
  BY <1>14
     DEF StopAccepting, pool, browser, readiness, clients, IInv, TypeOK,
         ExitLeavesNoBrowser, Exited, Aborted, Chromium!Live
<1>15. ASSUME ~Exited, OnClose
      PROVE  ExitLeavesNoBrowser'
  BY <1>15
     DEF OnClose, Drained, Pool!Shut, browser, readiness, clients, IInv, TypeOK,
         ExitLeavesNoBrowser, Exited, Aborted, Chromium!Live
<1>16. ASSUME ~Exited, DatabaseEnded
      PROVE  ExitLeavesNoBrowser'
  BY <1>16
     DEF DatabaseEnded, pool, browser, readiness, clients, IInv, TypeOK,
         ExitLeavesNoBrowser, Exited, Aborted, Chromium!Live
<1>17. ASSUME NEW s \in Signal, ~Exited, CloseRenderer(s)
      PROVE  ExitLeavesNoBrowser'
  BY <1>17
     DEF CloseRenderer, ServerClosed, Chromium!Close, pool, readiness, clients,
         IInv, TypeOK, ExitLeavesNoBrowser, Exited, Aborted, Chromium!Live
<1>18. ASSUME NEW s \in Signal, ~Exited, Exit(s)
      PROVE  ExitLeavesNoBrowser'
  <2> SUFFICES ASSUME left = {}, NoneFailed, ~Aborted
               PROVE  \/ Chromium!Live = {}
                      \/ Cardinality({t \in Signal : handler'[t] # "none"}) > 1
    BY <1>18
       DEF Exit, browser, clients, ExitLeavesNoBrowser, Exited, Aborted, IInv, TypeOK,
           Chromium!Live, NoneFailed
  <2>1. handler' = [handler EXCEPT ![s] = "exited"]
    BY <1>18 DEF Exit
  <2>2. ASSUME NEW t \in Signal, t # s, handler[t] = "closing_renderer"
        PROVE  Cardinality({u \in Signal : handler'[u] # "none"}) > 1
    <3> DEFINE S == {u \in Signal : handler'[u] # "none"}
    <3>1. IsFiniteSet(S)
      BY ServerAssumption, FS_Subset
    <3>2. s \in S /\ t \in S
      BY <2>1, <2>2 DEF IInv, TypeOK
    <3> QED
      BY <2>2, <3>1, <3>2, TwoElements
  <2>3. ASSUME \A t \in Signal : t # s => handler[t] # "closing_renderer"
        PROVE  Chromium!Live = {}
    <3>1. CASE ServerClosed(s) /\ shared = 0
      <4>1. Taken = {}
        BY <2>3, <3>1 DEF ServerClosed, Taken
      <4>2. Chromium!Live \subseteq {0}
        BY <3>1, <4>1 DEF IInv, BrowsersTracked, LeftBeforePool
      <4> QED
        BY <4>2 DEF Chromium!Live, Chromium!Launches
    <3>2. CASE /\ handler[s] = "closing_renderer"
               /\ state[taken[s]] \in {"failed", "gone"}
      <4>1. Taken = {taken[s]}
        BY <2>3, <3>2 DEF Taken
      <4>2. Chromium!Live \subseteq {taken[s]}
        BY <4>1 DEF IInv, ClosedInOrder, BrowsersTracked, LeftBeforePool
      <4> QED
        BY <3>2, <4>2 DEF Chromium!Live
    <3> QED
      BY <1>18, <3>1, <3>2 DEF Exit
  <2> QED
    BY <2>2, <2>3
<1>19. CASE UNCHANGED vars
  BY <1>19
     DEF vars, pool, browser, readiness, process, clients, IInv, TypeOK,
         ExitLeavesNoBrowser, Exited, Aborted, Chromium!Live
<1>20. ASSUME NEW r \in Render, ~Exited, Reject(r)
      PROVE  ExitLeavesNoBrowser'
  BY <1>20
     DEF Reject, pool, browser, readiness, process, IInv, TypeOK,
         ExitLeavesNoBrowser, Exited, Aborted, Chromium!Live
<1>21. ASSUME NEW n \in Chromium!Launches, ~Exited, PlaywrightCloses(n)
      PROVE  ExitLeavesNoBrowser'
  BY <1>21
     DEF PlaywrightCloses, Chromium!Disconnect, pool, readiness, process,
         clients, IInv, TypeOK, ExitLeavesNoBrowser, Exited, Aborted,
         Chromium!Live
<1>22. ASSUME NEW s \in Signal, ~Exited, ExitOnInterrupt(s)
      PROVE  ExitLeavesNoBrowser'
  BY <1>22
     DEF ExitOnInterrupt, pool, browser, readiness, clients, IInv, TypeOK,
         ExitLeavesNoBrowser, Exited, Aborted, Chromium!Live
<1> QED
  BY <1>1, <1>2, <1>3, <1>4, <1>5, <1>6, <1>7, <1>8, <1>9, <1>10, <1>11, <1>12,
     <1>13, <1>14, <1>15, <1>16, <1>17, <1>18, <1>19, <1>20, <1>21, <1>22
     DEF Next, RenderProgress, BrowserProgress, ShutdownProgress

LEMMA Initially == Init => IInv
<1> SUFFICES ASSUME Init
             PROVE  IInv
  OBVIOUS
<1> USE DEF Init, Pool!Init, Chromium!Init, Ready!Init
<1>1. TypeOK
  BY DEF TypeOK, Phase, LaunchState, HttpState, HandlerState, CallState, RequestState
<1>2. PooledWereChecked
  BY DEF PooledWereChecked
<1>3. PingsSawUp
  BY DEF PingsSawUp, Ready!GoodResultWasUp
<1>4. LaunchesNumbered
  BY DEF LaunchesNumbered
<1>5. ClosedInOrder
  BY DEF ClosedInOrder, Taken
<1>6. BrowsersTracked
  BY DEF BrowsersTracked, Chromium!Live
<1>7. ExitLeavesNoBrowser
  BY DEF ExitLeavesNoBrowser, Exited
<1> QED
  BY <1>1, <1>2, <1>3, <1>4, <1>5, <1>6, <1>7 DEF IInv

LEMMA Inductive == Spec => []IInv
<1>1. IInv /\ [Next]_vars => IInv'
  BY TypeStep, CheckedStep, PingsStep, LaunchesStep, ClosedStep, TrackedStep,
     ExitStep
     DEF IInv
<1> QED
  BY <1>1, Initially, PTL DEF Spec

\* As long as no launch failed and no renderer was closed the process has one
\* browser at most, however renders, crashes and signals overlap (getBrowser).
THEOREM OneBrowser == Spec => []OneBrowserWithoutTrouble
<1>1. IInv => OneBrowserWithoutTrouble
  <2> SUFFICES ASSUME IInv, doomed = {}, NoneFailed
               PROVE  Cardinality(Chromium!Live) <= 1
    BY BrowserCounts
       DEF OneBrowserWithoutTrouble, Chromium!OneBrowserWithoutTrouble, NoneFailed
  <2>1. Chromium!Live \subseteq {shared}
    BY DEF IInv, BrowsersTracked
  <2>2. IsFiniteSet({shared}) /\ Cardinality({shared}) = 1
    BY FS_Singleton
  <2>3. IsFiniteSet(Chromium!Live) /\ Cardinality(Chromium!Live) =< 1
    BY <2>1, <2>2, FS_Subset
  <2> QED
    BY <2>3
<1> QED
  BY <1>1, Inductive, PTL

\* A good result that /readyz holds was got from a database that was up at some
\* moment of the ping (the readiness check of src/app.ts).
THEOREM GoodResultsAreReal == Spec => []GoodResultWasUp
<1>1. IInv => GoodResultWasUp
  BY DEF IInv, PingsSawUp, GoodResultWasUp
<1> QED
  BY <1>1, Inductive, PTL

\* When the program shuts the pool, takes a browser away or ends the process, the
\* requests without an answer, before or in the pool, are those whose client has
\* gone, however its handlers of the two signals interleave (shutdown in
\* src/server.ts).  What Playwright does at a signal is not the program's.
THEOREM ShutdownIsSafe == Spec => []ShutdownSparesRequests
<1>1. IInv => ShutdownSparesRequests
  BY DEF IInv, ClosedInOrder, ShutdownSparesRequests, Exited, Aborted
<1> QED
  BY <1>1, Inductive, PTL

\* A process that its own handler ends has closed its browsers, unless a launch
\* failed, a client left its render behind or a second signal came.
THEOREM NoBrowserIsLeft == Spec => []ExitLeavesNoBrowser
<1>1. IInv => ExitLeavesNoBrowser
  BY DEF IInv
<1> QED
  BY <1>1, Inductive, PTL

-----------------------------------------------------------------------------
(* The service *)

LEMMA SameStage ==
  ASSUME http' = http, handler' = handler
  PROVE  Stage' = Stage
BY DEF Stage, Exited, Aborted

\* Neither the clients nor the stage are in the part of the state that a step
\* of the browser or of a probe changes.
LEMMA HiddenStep ==
  ASSUME phase' = phase, request' = request, left' = left, http' = http,
         handler' = handler
  PROVE  UNCHANGED ToClients!vars
<1>1. servedBar' = servedBar
  BY DEF servedBar, Unanswered, InFlight, Pool!Waiting, Pool!Rendering, Pool!In
<1>2. Stage' = Stage
  BY SameStage
<1> QED
  BY <1>1, <1>2 DEF ToClients!vars

\* The handler of a signal exits after the server has closed.
LEMMA OpenMeansRunning ==
  ASSUME IInv, ~Aborted, http # "closed"
  PROVE  ~Exited
BY DEF IInv, ClosedInOrder, Exited, Aborted

LEMMA AcceptRefines ==
  ASSUME IInv, ~Exited, NEW r \in Render, Accept(r)
  PROVE  ToClients!Take(r) \/ UNCHANGED ToClients!vars
<1>1. /\ http = "open" /\ UNCHANGED <<http, handler, phase, left>>
      /\ request' = [request EXCEPT ![r] = "checking"]
  BY DEF Accept, process, pool
<1>2. Unanswered' = Unanswered \cup {r}
  BY <1>1
     DEF Unanswered, InFlight, Pool!Waiting, Pool!Rendering, Pool!In, IInv, TypeOK,
         Accept
<1>3. Stage = "open" /\ Stage' = Stage
  BY <1>1, SameStage DEF Stage, Exited, Aborted
<1>4. CASE r \in left
  BY <1>1, <1>2, <1>3, <1>4 DEF servedBar, ToClients!vars
<1>5. CASE r \notin left
  <2>1. servedBar' = servedBar \cup {r}
    BY <1>1, <1>2, <1>5 DEF servedBar
  <2> QED
    BY <1>3, <2>1 DEF ToClients!Take
<1> QED
  BY <1>4, <1>5

\* A step that is about one request at most: it is over, its client has gone, or
\* its client sees nothing of it.
LEMMA OneClient ==
  ASSUME NEW r \in Render, UNCHANGED <<http, handler>>,
         \A q \in Render \ {r} : q \in servedBar' <=> q \in servedBar,
         r \in servedBar' => r \in servedBar
  PROVE  ToClients!Part(r) \/ UNCHANGED ToClients!vars
<1>1. Stage' = Stage
  BY SameStage
<1>2. servedBar \subseteq Render /\ servedBar' \subseteq Render
  BY DEF servedBar, Unanswered, InFlight, Pool!Waiting, Pool!Rendering, Pool!In
<1>3. servedBar' = servedBar \/ servedBar' = servedBar \ {r}
  BY <1>2
<1> QED
  BY <1>1, <1>3 DEF ToClients!Part, ToClients!vars

\* Whatever the checks and the pool say, a request that has passed or failed its
\* checks is either still served or answered.
LEMMA ChecksRefine ==
  ASSUME IInv, NEW r \in Render, Reject(r) \/ Arrive(r)
  PROVE  ToClients!Part(r) \/ UNCHANGED ToClients!vars
<1>1. UNCHANGED <<http, handler>> /\ request[r] = "checking"
  BY DEF Reject, Arrive, process
<1>2. \A q \in Render \ {r} :
        /\ request'[q] = request[q] /\ phase'[q] = phase[q]
        /\ q \in left' <=> q \in left
  BY DEF Reject, Arrive, Pool!Enter, Pool!Wait, Pool!Refuse, pool, IInv, TypeOK
<1>3. \A q \in Render \ {r} : q \in servedBar' <=> q \in servedBar
  BY <1>2
     DEF servedBar, Unanswered, InFlight, Pool!Waiting, Pool!Rendering, Pool!In
<1>4. r \in servedBar' => r \in servedBar
  <2>1. CASE Reject(r)
    <3>1. phase[r] = "new" /\ phase' = phase /\ request'[r] = "away"
      BY <1>1, <2>1 DEF Reject, pool, IInv, TypeOK, PooledWereChecked
    <3> QED
      BY <3>1
         DEF servedBar, Unanswered, InFlight, Pool!Waiting, Pool!Rendering, Pool!In
  <2>2. CASE Arrive(r)
    BY <1>1, <2>2 DEF Arrive, servedBar, Unanswered
  <2> QED
    BY <2>1, <2>2
<1> QED
  BY <1>1, <1>3, <1>4, OneClient

\* What the end of a render, in the pool or in its queue, is to its client.
LEMMA EndRefines ==
  ASSUME IInv, NEW r \in Render, QueueTimeout(r) \/ Finish(r)
  PROVE  ToClients!Part(r) \/ UNCHANGED ToClients!vars
<1>1. UNCHANGED <<http, handler, left, request>>
  BY DEF QueueTimeout, Finish, process, clients
<1>2. /\ phase[r] \in {"waiting", "rendering"}
      /\ \A q \in Render \ {r} :
            \/ phase'[q] = phase[q]
            \/ phase[q] = "waiting" /\ phase'[q] = "rendering"
  BY DEF QueueTimeout, Finish, Pool!GiveUp, Pool!Finish, Pool!Waiting, Pool!In,
         IInv, TypeOK
<1>3. \A q \in Render \ {r} : q \in Unanswered' <=> q \in Unanswered
  BY <1>1, <1>2 DEF Unanswered, InFlight, Pool!Waiting, Pool!Rendering, Pool!In
<1>4. r \in Unanswered
  BY <1>2 DEF Unanswered, InFlight, Pool!Waiting, Pool!Rendering, Pool!In
<1> QED
  BY <1>1, <1>3, <1>4, OneClient DEF servedBar

LEMMA LeaveRefines ==
  ASSUME IInv, NEW r \in Render, Leave(r)
  PROVE  ToClients!Part(r) \/ UNCHANGED ToClients!vars
<1>1. UNCHANGED <<http, handler, phase, request>> /\ left' = left \cup {r}
  BY DEF Leave, process, pool
<1>2. Unanswered' = Unanswered
  BY <1>1 DEF Unanswered, InFlight, Pool!Waiting, Pool!Rendering, Pool!In
<1> QED
  BY <1>1, <1>2, OneClient DEF servedBar

\* The hook runs when the requests that are left have no client, so that the
\* pool that it shuts turns no client away.
LEMMA CloseRefines ==
  ASSUME IInv, ~Exited, OnClose
  PROVE  ToClients!Stop
<1>1. /\ http = "draining" /\ http' = "ending_database"
      /\ UNCHANGED <<handler, left, request>>
      /\ Unanswered \subseteq left
  BY DEF OnClose, Drained, clients
<1>2. phase' = [r \in Render |-> IF phase[r] = "waiting" THEN "refused" ELSE phase[r]]
  BY DEF OnClose, Pool!Shut
<1>3. Unanswered' \subseteq Unanswered
  BY <1>1, <1>2 DEF Unanswered, InFlight, Pool!Waiting, Pool!Rendering, Pool!In
<1>4. servedBar = {} /\ servedBar' = {}
  BY <1>1, <1>3 DEF servedBar
<1>5. Stage = "emptying" /\ Stage' = "stopped"
  BY <1>1 DEF Stage, Exited, Aborted
<1> QED
  BY <1>4, <1>5 DEF ToClients!Stop

\* A handler that exits ends the process, and no other step of a handler does.
\* Only Playwright's, of an interrupt, breaks it off.
LEMMA ShutdownRefines ==
  ASSUME IInv, ~Exited,
         NEW s \in Signal,
         \/ OnSignal(s) \/ StopAccepting \/ DatabaseEnded
         \/ CloseRenderer(s) \/ Exit(s) \/ ExitOnInterrupt(s)
  PROVE  ToClients!Next \/ UNCHANGED ToClients!vars
<1>1. UNCHANGED <<phase, left, request>>
  BY DEF OnSignal, StopAccepting, DatabaseEnded, CloseRenderer, Exit,
         ExitOnInterrupt, pool, clients
<1>2. servedBar' = servedBar
  BY <1>1
     DEF servedBar, Unanswered, InFlight, Pool!Waiting, Pool!Rendering, Pool!In
<1>3. CASE OnSignal(s) \/ CloseRenderer(s)
  <2>1. http' = http /\ ~Exited'
    BY <1>3 DEF OnSignal, CloseRenderer, Exited, IInv, TypeOK
  <2>2. Stage' = Stage
    BY <2>1 DEF Stage, Exited, Aborted
  <2> QED
    BY <1>2, <2>2 DEF ToClients!vars
<1>4. CASE StopAccepting
  <2>1. Stage = "open" /\ Stage' = "emptying"
    BY <1>4 DEF StopAccepting, Stage, Exited, Aborted
  <2> QED
    BY <1>2, <2>1 DEF ToClients!TakeNoMore, ToClients!Next
<1>5. CASE DatabaseEnded
  <2>1. Stage' = Stage
    BY <1>5 DEF DatabaseEnded, Stage, Exited, Aborted
  <2> QED
    BY <1>2, <2>1 DEF ToClients!vars
<1>6. CASE Exit(s)
  <2>1. http = "closed" /\ http' = http
    BY <1>6 DEF Exit, ServerClosed, IInv, ClosedInOrder
  <2>2. Exited' /\ ~Aborted'
    BY <1>6 DEF Exit, Exited, Aborted, IInv, TypeOK
  <2>3. Stage = "stopped" /\ Stage' = "ended"
    BY <2>1, <2>2 DEF Stage, Exited, Aborted
  <2> QED
    BY <1>2, <2>3 DEF ToClients!End, ToClients!Next
<1>7. CASE ExitOnInterrupt(s)
  <2>1. Aborted'
    BY <1>7 DEF ExitOnInterrupt, Aborted, IInv, TypeOK
  <2>2. Interrupt # {}
    BY <1>7 DEF ExitOnInterrupt, IInv, TypeOK
  <2>3. Stage \in {"open", "emptying", "stopped"} /\ Stage' = "broken"
    BY <2>1 DEF Stage, Exited, Aborted
  <2> QED
    BY <1>2, <2>2, <2>3 DEF ToClients!Break, ToClients!Next
<1> QED
  BY <1>3, <1>4, <1>5, <1>6, <1>7

\* To its clients the process is a service: it keeps every request that it has
\* accepted, checked or not, until it is answered or its client has gone, takes
\* none while it empties, and stops and ends after that; an interrupt that
\* Playwright catches breaks it off (src/server.ts, the onClose hook).
THEOREM ServerImplementsService == Spec => ImplementsService
<1>1. Init => ToClients!Init
  BY DEF Init, Pool!Init, ToClients!Init, servedBar, Unanswered, InFlight,
         Pool!Waiting, Pool!Rendering, Pool!In, Stage, Exited, Aborted
<1>2. IInv /\ [Next]_vars => [ToClients!Next]_(ToClients!vars)
  <2> SUFFICES ASSUME IInv, [Next]_vars
               PROVE  ToClients!Next \/ UNCHANGED ToClients!vars
    OBVIOUS
  <2>1. ASSUME NEW r \in Render, ~Exited, Accept(r)
        PROVE  ToClients!Next \/ UNCHANGED ToClients!vars
    BY <2>1, AcceptRefines DEF ToClients!Next
  <2>2. ASSUME NEW r \in Render, Leave(r)
        PROVE  ToClients!Next \/ UNCHANGED ToClients!vars
    BY <2>2, LeaveRefines DEF ToClients!Next
  <2>3. ASSUME NEW r \in Render, QueueTimeout(r) \/ Finish(r)
        PROVE  ToClients!Next \/ UNCHANGED ToClients!vars
    BY <2>3, EndRefines DEF ToClients!Next
  <2>4. ASSUME NEW r \in Render, Reject(r) \/ Arrive(r)
        PROVE  ToClients!Next \/ UNCHANGED ToClients!vars
    BY <2>4, ChecksRefine DEF ToClients!Next
  <2>5. ASSUME ~Exited, OnClose
        PROVE  ToClients!Next
    BY <2>5, CloseRefines DEF ToClients!Next
  <2>6. ASSUME NEW s \in Signal, ~Exited,
               \/ OnSignal(s) \/ StopAccepting \/ DatabaseEnded
               \/ CloseRenderer(s) \/ Exit(s) \/ ExitOnInterrupt(s)
        PROVE  ToClients!Next \/ UNCHANGED ToClients!vars
    BY <2>6, ShutdownRefines
  <2>7. ASSUME NEW r \in Render, GetBrowser(r)
        PROVE  UNCHANGED ToClients!vars
    BY <2>7, HiddenStep DEF GetBrowser, pool, process, clients
  <2>8. ASSUME NEW q \in Probe, ReadyProbe(q)
        PROVE  UNCHANGED ToClients!vars
    BY <2>8, HiddenStep DEF ReadyProbe, pool, process, clients
  <2>9. CASE Ping \/ Database
    BY <2>9, HiddenStep DEF Ping, Database, pool, process, clients
  <2>10. ASSUME NEW n \in Chromium!Launches,
                Crash(n) \/ PlaywrightCloses(n) \/ BrowserProgress(n)
         PROVE  UNCHANGED ToClients!vars
    BY <2>10, HiddenStep
       DEF Crash, PlaywrightCloses, BrowserProgress, LaunchSettles, BrowserCloses,
           pool, process, clients
  <2>11. CASE UNCHANGED vars
    BY <2>11, HiddenStep DEF vars, pool, process, clients
  <2> QED
    BY <2>1, <2>2, <2>3, <2>4, <2>5, <2>6, <2>7, <2>8, <2>9, <2>10, <2>11
       DEF Next, RenderProgress, ShutdownProgress
<1> QED
  BY <1>1, <1>2, Inductive, PTL DEF Spec, ImplementsService, ToClients!Spec

\* The pool, the browser, the readiness check and the process keep their shape.
THEOREM TypeCorrect == Spec => []TypeOK
<1>1. IInv => TypeOK
  BY DEF IInv
<1> QED
  BY <1>1, Inductive, PTL
=============================================================================
