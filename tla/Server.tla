------------------------------- MODULE Server -------------------------------
(***************************************************************************)
(* A server process from its start to process.exit (src/server.ts,         *)
(* src/app.ts): the requests it has accepted, the pool of renders, the     *)
(* browser, the readiness probe and the handlers of SIGINT and SIGTERM,    *)
(* which close all of them in an order.                                    *)
(*                                                                         *)
(* A render is checked first (src/routes/render.ts) and then in the pool   *)
(* (RenderPool), and while it has a place there it checks its URL, asks    *)
(* for the browser (Browser) and uses a page of it (renderUrl in           *)
(* src/services/renderer.ts).  app.close() waits for the connections that  *)
(* have a request in flight, checked or not, and for no request whose      *)
(* client has gone; the hook of onClose runs after that.                   *)
(*                                                                         *)
(* The handlers of server.ts are not the only ones: Playwright, launched   *)
(* with its defaults (src/lib/browser-launch.ts), has its own while it has *)
(* a browser.  On either signal they close every browser, whoever uses it, *)
(* and on SIGINT they end the process when the browsers have closed.       *)
(***************************************************************************)
EXTENDS Naturals, FiniteSets

CONSTANTS Render,         \* requests for a render
          Impatient,      \* those whose client may close the connection
          MaxConcurrent, MaxQueued,
          Probe,          \* requests for /readyz
          Signal,         \* SIGINT and SIGTERM
          Interrupt       \* SIGINT

ASSUME ServerAssumption ==
    /\ IsFiniteSet(Render) /\ IsFiniteSet(Signal)
    /\ Impatient \subseteq Render /\ Interrupt \subseteq Signal
    /\ MaxConcurrent \in Nat \ {0}
    /\ MaxQueued \in Nat

VARIABLES phase, shut,                               \* the pool
          shared, state, doomed, launched, pc, on,   \* the browser
          up, last, asking, sawUp,                   \* the readiness check
          handler,   \* where the handler of each signal is
          taken,     \* the launch whose browser each handler closes
          caught,    \* interrupts that Playwright has caught as well
          http,      \* the server and its onClose hook
          request,   \* where each render is before it calls the pool
          left       \* renders whose client has closed the connection

pool == <<phase, shut>>
browser == <<shared, state, doomed, launched, pc, on>>
readiness == <<up, last, asking, sawUp>>
process == <<handler, taken, caught, http>>
clients == <<request, left>>
vars == <<pool, browser, readiness, process, clients>>

Pool == INSTANCE RenderPool WITH Request <- Render
Chromium == INSTANCE Browser WITH Caller <- Render
Ready == INSTANCE Readiness

Init ==
    /\ Pool!Init
    /\ Chromium!Init
    /\ Ready!Init
    /\ handler = [s \in Signal |-> "none"]
    /\ taken = [s \in Signal |-> 0]
    /\ caught = {}
    /\ http = "open"
    /\ request = [r \in Render |-> "away"]
    /\ left = {}

InFlight == Pool!Waiting \cup Pool!Rendering
Unanswered == {r \in Render : request[r] = "checking"} \cup InFlight
ShuttingDown == \E s \in Signal : handler[s] # "none"
Aborted == \E s \in Signal : handler[s] = "aborted"
Exited == \E s \in Signal : handler[s] \in {"exited", "aborted"}

-----------------------------------------------------------------------------
(* Faulty variants of the definitions below: mistakes the code could have   *)
(* made, kept to check that the properties notice them.                     *)

\* The renderer is closed before the server has been.
ServerClosedUnawaited(s) == handler[s] = "closing_app"

\* It waits for the requests in the pool and forgets those on their way there.
DrainedOfThePool == InFlight \subseteq left /\ asking = {}

\* Requests are accepted until the server has closed.
AcceptLate(r) ==
    /\ http # "closed"
    /\ request[r] = "away"
    /\ request' = [request EXCEPT ![r] = "checking"]
    /\ UNCHANGED <<pool, browser, readiness, process, left>>

-----------------------------------------------------------------------------
(* Requests *)

\* Once the server is closing it answers 503 to what still comes in.
Accept(r) ==
    /\ http = "open"
    /\ request[r] = "away"
    /\ request' = [request EXCEPT ![r] = "checking"]
    /\ UNCHANGED <<pool, browser, readiness, process, left>>

\* The key, the limits, the project or the domain refuse it, or the database
\* cannot be asked (RenderRequest): it never calls the pool, and may be made
\* once more.
Reject(r) ==
    /\ request[r] = "checking"
    /\ request' = [request EXCEPT ![r] = "away"]
    /\ left' = left \ {r}
    /\ UNCHANGED <<pool, browser, readiness, process>>

\* A request that has passed its checks calls the pool, whatever has become of
\* the server meanwhile.  One that the pool refuses is answered at once.
Arrive(r) ==
    /\ request[r] = "checking"
    /\ request' = [request EXCEPT ![r] = "called"]
    /\ Pool!Enter(r) \/ Pool!Wait(r) \/ Pool!Refuse(r)
    /\ UNCHANGED <<browser, readiness, process, left>>

QueueTimeout(r) ==
    /\ Pool!GiveUp(r)
    /\ UNCHANGED <<browser, readiness, process, clients>>

\* The client closes the connection; nobody tells the render.
Leave(r) ==
    /\ r \in (Impatient \cap Unanswered) \ left
    /\ left' = left \cup {r}
    /\ UNCHANGED <<pool, browser, readiness, process, request>>

\* The URL has been checked and the render asks for the browser.
GetBrowser(r) ==
    /\ phase[r] = "rendering"
    /\ Chromium!Reuse(r) \/ Chromium!AwaitLaunch(r) \/ Chromium!Launch(r)
    /\ UNCHANGED <<pool, readiness, process, clients>>

\* The URL is refused, there is no browser, or the page is done or has failed.
Finish(r) ==
    /\ pc[r] \in {"new", "served", "error"}
    /\ Pool!Finish(r)
    /\ Chromium!LetGo(r)
    /\ UNCHANGED <<readiness, process, clients>>

\* Its page is at work.  page.content(), page.title() and context.close() wait
\* without a timeout, but only as long as there is a browser.
OnPage(r) == phase[r] = "rendering" /\ pc[r] = "served" /\ state[on[r]] = "up"

ReadyProbe(q) ==
    /\ http = "open"
    /\ ~ShuttingDown
    /\ Ready!Ask(q)
    /\ UNCHANGED <<pool, browser, process, clients>>

Ping ==
    /\ Ready!PingSucceeds \/ Ready!PingFails
    /\ UNCHANGED <<pool, browser, process, clients>>

-----------------------------------------------------------------------------
(* The browser and the database *)

LaunchSettles(n) ==
    /\ Chromium!LaunchSucceeds(n) \/ Chromium!LaunchFails(n)
    /\ UNCHANGED <<pool, readiness, process, clients>>

\* It crashes.
Crash(n) ==
    /\ Chromium!Disconnect(n)
    /\ UNCHANGED <<pool, readiness, process, clients>>

\* browser.close() takes effect.
BrowserCloses(n) ==
    /\ n \in doomed
    /\ Chromium!Disconnect(n)
    /\ UNCHANGED <<pool, readiness, process, clients>>

\* Playwright closes the browsers that it has when a signal comes, used or not.
\* That one which is launched later may go as well is no more than a crash.
PlaywrightCloses(n) ==
    /\ ShuttingDown
    /\ Chromium!Disconnect(n)
    /\ UNCHANGED <<pool, readiness, process, clients>>

Database ==
    /\ Ready!GoUp \/ Ready!GoDown \/ Ready!Age
    /\ UNCHANGED <<pool, browser, process, clients>>

-----------------------------------------------------------------------------
(* Shutdown *)

\* markShuttingDown() and app.close().  Playwright catches an interrupt too when
\* it has a browser, or the process of one that is being launched.
OnSignal(s) ==
    /\ handler[s] = "none"
    /\ handler' = [handler EXCEPT ![s] = "closing_app"]
    /\ \/ /\ s \in Interrupt /\ Chromium!Live # {}
          /\ caught' = caught \cup {s}
       \/ /\ s \in Interrupt => \A n \in Chromium!Launches : state[n] # "up"
          /\ caught' = caught
    /\ UNCHANGED <<pool, browser, readiness, taken, http, clients>>

\* app.close() gets to stop the server.
StopAccepting ==
    /\ ShuttingDown
    /\ http = "open"
    /\ http' = "draining"
    /\ UNCHANGED <<pool, browser, readiness, handler, taken, caught, clients>>

\* No connection has a request in flight.
Drained ==
    /\ Unanswered \subseteq left
    /\ asking = {}

\* The onClose hook shuts the pool and begins to end the database's.
OnClose ==
    /\ http = "draining"
    /\ Drained
    /\ http' = "ending_database"
    /\ Pool!Shut
    /\ UNCHANGED <<browser, readiness, handler, taken, caught, clients>>

DatabaseEnded ==
    /\ http = "ending_database"
    /\ http' = "closed"
    /\ UNCHANGED <<pool, browser, readiness, handler, taken, caught, clients>>

ServerClosed(s) == handler[s] = "closing_app" /\ http = "closed"

\* closeRenderer() closes the browser that it finds.
CloseRenderer(s) ==
    /\ ServerClosed(s)
    /\ Chromium!Close
    /\ taken' = [taken EXCEPT ![s] = shared]
    /\ handler' = [handler EXCEPT ![s] = "closing_renderer"]
    /\ UNCHANGED <<pool, readiness, caught, http, clients>>

\* It has none, or another handler has taken it; or it has closed it.
Exit(s) ==
    /\ \/ ServerClosed(s) /\ shared = 0
       \/ /\ handler[s] = "closing_renderer"
          /\ state[taken[s]] \in {"failed", "gone"}
    /\ handler' = [handler EXCEPT ![s] = "exited"]
    /\ UNCHANGED <<pool, browser, readiness, taken, caught, http, clients>>

\* Playwright calls process.exit when its browsers have gone or have not within
\* 30 seconds, whatever the handler of server.ts is waiting for.
ExitOnInterrupt(s) ==
    /\ s \in caught
    /\ handler' = [handler EXCEPT ![s] = "aborted"]
    /\ UNCHANGED <<pool, browser, readiness, taken, caught, http, clients>>

-----------------------------------------------------------------------------

\* What the process, its timers, Playwright and the database do by themselves.
RenderProgress(r) ==
    \/ Reject(r) \/ Arrive(r) \/ QueueTimeout(r) \/ GetBrowser(r)
    \/ Finish(r) /\ ~OnPage(r)
BrowserProgress(n) == LaunchSettles(n) \/ BrowserCloses(n)
ShutdownProgress(s) ==
    \/ StopAccepting \/ OnClose \/ DatabaseEnded
    \/ CloseRenderer(s) \/ Exit(s) \/ ExitOnInterrupt(s)

Next ==
    /\ ~Exited
    /\ \/ \E r \in Render : Accept(r) \/ Leave(r) \/ Finish(r) \/ RenderProgress(r)
       \/ \E q \in Probe : ReadyProbe(q)
       \/ Ping
       \/ \E n \in Chromium!Launches :
              Crash(n) \/ PlaywrightCloses(n) \/ BrowserProgress(n)
       \/ Database
       \/ \E s \in Signal : OnSignal(s) \/ ShutdownProgress(s)

\* Nobody has to send a request or a signal or to leave, no page has to come to
\* an end, and neither the browser nor the database has to fail.
Fairness ==
    /\ \A r \in Render : WF_vars(~Exited /\ RenderProgress(r))
    /\ \A n \in Chromium!Launches : WF_vars(~Exited /\ BrowserProgress(n))
    /\ \A s \in Signal : WF_vars(~Exited /\ ShutdownProgress(s))
    /\ WF_vars(~Exited /\ Ping)

Spec == Init /\ [][Next]_vars
FairSpec == Spec /\ Fairness

-----------------------------------------------------------------------------
(* Properties *)

\* Two signals, probes and renders in any order: as long as no launch failed
\* and no renderer was closed the process has one browser at most.
OneBrowserWithoutTrouble == Chromium!OneBrowserWithoutTrouble

GoodResultWasUp == Ready!GoodResultWasUp

\* What the program closes it does not close under a client: it takes neither
\* the pool nor the browser from a request whose client still waits, before or
\* in the pool, and it does not end under one, also when the second signal finds
\* the first one's work half done.  Only Playwright does both: it closes the
\* browser at the signal, and an interrupt that met one ends the process.
ShutdownSparesRequests ==
    shut \/ doomed # {} \/ (Exited /\ ~Aborted) => Unanswered \subseteq left

\* A process that ends has closed its browsers, unless it was interrupted, a
\* launch failed, a client left its render behind or a second signal overtook
\* the first.
ExitLeavesNoBrowser ==
    Exited => \/ Chromium!Live = {}
              \/ Aborted
              \/ \E n \in Chromium!Launches : state[n] = "failed"
              \/ left # {}
              \/ Cardinality({s \in Signal : handler[s] # "none"}) > 1

Stage ==
    IF Aborted THEN "broken"
    ELSE IF Exited THEN "ended"
    ELSE IF http \in {"ending_database", "closed"} THEN "stopped"
    ELSE IF http = "draining" THEN "emptying" ELSE "open"

servedBar == Unanswered \ left

ToClients == INSTANCE Service WITH Request <- Render, Breakable <- Interrupt # {},
                                   served <- servedBar, stage <- Stage

\* To its clients the process is a Service, whatever its pool, its browser, the
\* database and the handlers of the signals do to one another.
ImplementsService == ToClients!Spec

\* A signal ends the process, whatever is in flight, unless a page hangs.
EveryShutdownEnds == (\A r \in Render : []<>~OnPage(r)) => (ShuttingDown ~> Exited)
=============================================================================
