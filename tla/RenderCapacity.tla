--------------------------- MODULE RenderCapacity ---------------------------
(***************************************************************************)
(* The in-process controller that bounds concurrent browser renders        *)
(* (src/services/render-capacity.ts).  The program is single threaded:     *)
(* each action below is one synchronous stretch of JavaScript, a call of   *)
(* run() or close(), the callback of a settled render or of a queue timer, *)
(* including the loop of tryRunNext that the callback ends with.           *)
(*                                                                         *)
(* A member of Request is one call of run().  Its promise is "pending"     *)
(* until it is settled; a promise settles once and ignores what comes      *)
(* later, so that a callback which runs by mistake goes unnoticed by the   *)
(* caller and shows only in the variables of the controller.               *)
(***************************************************************************)
EXTENDS Naturals, FiniteSets, SequencesExt

CONSTANTS Request,        \* calls of run(), each made at most once
          MaxConcurrent,  \* MAX_CONCURRENT_RENDERS, at least 1
          MaxQueued       \* MAX_QUEUED_RENDERS, may be 0

ASSUME CapacityAssumption ==
    /\ IsFiniteSet(Request)
    /\ MaxConcurrent \in Nat \ {0}
    /\ MaxQueued \in Nat

VARIABLES active,     \* the counter of taken slots
          closed,     \* close() was called
          queue,      \* waiting entries, oldest first
          timers,     \* entries whose queue timer is armed
          cancelled,  \* entries whose cancelled flag is set
          executing,  \* entries whose task runs and has not released its slot
          outcome     \* what the caller of each call has been told

vars == <<active, closed, queue, timers, cancelled, executing, outcome>>

Refusal == {"full", "timeout", "closed"}
Outcome == {"not_called", "pending", "fulfilled", "rejected"} \cup Refusal

Init ==
    /\ active = 0
    /\ closed = FALSE
    /\ queue = <<>>
    /\ timers = {}
    /\ cancelled = {}
    /\ executing = {}
    /\ outcome = [r \in Request |-> "not_called"]

Settled(r, o) == IF outcome[r] = "pending" THEN o ELSE outcome[r]

-----------------------------------------------------------------------------
(* tryRunNext *)

\* The loop shifts an entry while a slot is free: it shifts the entry at i
\* exactly if fewer than `free` entries before it were there to be run.
LiveBefore(i) == {j \in 1 .. i - 1 : queue[j] \notin cancelled}
Pulled(act) ==
    {i \in DOMAIN queue : Cardinality(LiveBefore(i)) + act < MaxConcurrent}

Shifted(act) == {queue[i] : i \in Pulled(act)}

\* Entries that were cancelled are shifted and skipped.
Started(act) == Shifted(act) \ cancelled

\* The effect of the loop entered with `act` slots taken, after `leaver` has
\* released its own.
TryRunNext(act, leaver) ==
    /\ active' = act + Cardinality(Started(act))
    /\ queue' = SubSeq(queue, Cardinality(Pulled(act)) + 1, Len(queue))
    /\ timers' = timers \ Shifted(act)
    /\ executing' = (executing \ {leaver}) \cup Started(act)

-----------------------------------------------------------------------------
(* Faulty variants of the actions below: mistakes the code could have made, *)
(* kept to check that the properties notice them.  No behaviour has them.   *)

\* `>` for `>=` in the test of the queue's length.
EnqueueBeyondLimit(r) ==
    /\ outcome[r] = "not_called"
    /\ ~closed
    /\ active >= MaxConcurrent
    /\ Len(queue) <= MaxQueued
    /\ queue' = Append(queue, r)
    /\ timers' = timers \cup {r}
    /\ outcome' = [outcome EXCEPT ![r] = "pending"]
    /\ UNCHANGED <<active, closed, cancelled, executing>>

\* releaseSlot without tryRunNext.
CompleteStartsNobody(r) ==
    /\ r \in executing
    /\ active' = active - 1
    /\ executing' = executing \ {r}
    /\ \E o \in {"fulfilled", "rejected"} :
          outcome' = [outcome EXCEPT ![r] = Settled(r, o)]
    /\ UNCHANGED <<closed, queue, timers, cancelled>>

\* pop for shift.
CompleteStartsNewest(r) ==
    /\ r \in executing
    /\ LET s == IF queue = <<>> THEN {} ELSE {Last(queue)} IN
          /\ active' = active - 1 + Cardinality(s)
          /\ queue' = IF s = {} THEN queue ELSE Front(queue)
          /\ timers' = timers \ s
          /\ executing' = (executing \ {r}) \cup s
    /\ \E o \in {"fulfilled", "rejected"} :
          outcome' = [outcome EXCEPT ![r] = Settled(r, o)]
    /\ UNCHANGED <<closed, cancelled>>

\* The timer answers the caller and leaves its entry queued.
QueueTimeoutKeepsEntry(r) ==
    /\ r \in timers
    /\ timers' = timers \ {r}
    /\ outcome' = [outcome EXCEPT ![r] = Settled(r, "timeout")]
    /\ UNCHANGED <<active, closed, queue, cancelled, executing>>

\* close() clears the timers and forgets to answer the waiting callers.
CloseAnswersNobody ==
    /\ ~closed
    /\ closed' = TRUE
    /\ queue' = <<>>
    /\ timers' = timers \ Range(queue)
    /\ cancelled' = cancelled \cup Range(queue)
    /\ UNCHANGED <<active, executing, outcome>>

-----------------------------------------------------------------------------
(* run *)

RunWhenClosed(r) ==
    /\ outcome[r] = "not_called"
    /\ closed
    /\ outcome' = [outcome EXCEPT ![r] = "closed"]
    /\ UNCHANGED <<active, closed, queue, timers, cancelled, executing>>

RunNow(r) ==
    /\ outcome[r] = "not_called"
    /\ ~closed
    /\ active < MaxConcurrent
    /\ active' = active + 1
    /\ executing' = executing \cup {r}
    /\ outcome' = [outcome EXCEPT ![r] = "pending"]
    /\ UNCHANGED <<closed, queue, timers, cancelled>>

RunWhenFull(r) ==
    /\ outcome[r] = "not_called"
    /\ ~closed
    /\ active >= MaxConcurrent
    /\ Len(queue) >= MaxQueued
    /\ outcome' = [outcome EXCEPT ![r] = "full"]
    /\ UNCHANGED <<active, closed, queue, timers, cancelled, executing>>

Enqueue(r) ==
    /\ outcome[r] = "not_called"
    /\ ~closed
    /\ active >= MaxConcurrent
    /\ Len(queue) < MaxQueued
    /\ queue' = Append(queue, r)
    /\ timers' = timers \cup {r}
    /\ outcome' = [outcome EXCEPT ![r] = "pending"]
    /\ UNCHANGED <<active, closed, cancelled, executing>>

-----------------------------------------------------------------------------
(* callbacks *)

\* The task's promise settles: releaseSlot, then the caller is answered.
Complete(r) ==
    /\ r \in executing
    /\ TryRunNext(active - 1, r)
    /\ \E o \in {"fulfilled", "rejected"} :
          outcome' = [outcome EXCEPT ![r] = Settled(r, o)]
    /\ UNCHANGED <<closed, cancelled>>

\* The entry leaves the queue in the callback that cancels it.
QueueTimeout(r) ==
    /\ r \in timers
    /\ timers' = timers \ {r}
    /\ cancelled' = cancelled \cup {r}
    /\ queue' = RemoveFirst(queue, r)
    /\ outcome' = [outcome EXCEPT ![r] = Settled(r, "timeout")]
    /\ UNCHANGED <<active, closed, executing>>

-----------------------------------------------------------------------------
(* close *)

Close ==
    /\ ~closed
    /\ closed' = TRUE
    /\ queue' = <<>>
    /\ timers' = timers \ Range(queue)
    /\ cancelled' = cancelled \cup Range(queue)
    /\ outcome' = [r \in Request |->
                      IF r \in Range(queue) THEN Settled(r, "closed") ELSE outcome[r]]
    /\ UNCHANGED <<active, executing>>

-----------------------------------------------------------------------------

\* Every call was made and answered and the controller is closed: the
\* process has nothing left to do.
Finished ==
    /\ closed
    /\ \A r \in Request : outcome[r] \notin {"not_called", "pending"}
    /\ UNCHANGED vars

Next ==
    \/ \E r \in Request :
          \/ RunWhenClosed(r)
          \/ RunNow(r)
          \/ RunWhenFull(r)
          \/ Enqueue(r)
          \/ Complete(r)
          \/ QueueTimeout(r)
    \/ Close
    \/ Finished

\* The event loop runs the timers.  A render need not end: the renderer bounds
\* the navigation, but not reading the page's content and title or closing the
\* context.  Nobody has to call run() or close().
Fairness == \A r \in Request : WF_vars(QueueTimeout(r))

Spec == Init /\ [][Next]_vars
FairSpec == Spec /\ Fairness

-----------------------------------------------------------------------------
(* Properties *)

\* The shape of the controller's state.
TypeOK ==
    /\ active \in Nat
    /\ closed \in BOOLEAN
    /\ queue \in Seq(Request)
    /\ timers \subseteq Request
    /\ cancelled \subseteq Request
    /\ executing \subseteq Request
    /\ outcome \in [Request -> Outcome]

\* The counter is what getSnapshot() and the gauges report and what run()
\* decides by: it never leaks a slot and never frees one twice, and it and
\* the queue stay within their limits.
SlotsAccounted ==
    /\ active = Cardinality(executing)
    /\ active <= MaxConcurrent
    /\ Len(queue) <= MaxQueued

\* A caller waits for an answer exactly while its entry is queued, once, or
\* its render runs: no call is forgotten by a timeout, a close or a failed
\* render, and none is run after its caller was turned away.
PendingAccounted ==
    /\ {r \in Request : outcome[r] = "pending"} = executing \cup Range(queue)
    /\ executing \cap Range(queue) = {}
    /\ IsInjective(queue)

\* The armed timers are those of the queued entries: a started render cannot
\* be timed out by the timer of its wait, and no waiter is left without one.
TimersMatchQueue == timers = Range(queue)

\* No slot is idle while a call waits, and nobody waits once closed.
WorkConserving ==
    queue # <<>> => /\ active = MaxConcurrent
                    /\ ~closed

\* Calls start in the order in which they queued: a call that starts has
\* nobody older left waiting, whether it comes from the queue or is new.
FifoOrder ==
    [][\A r \in executing' \ executing : \A i \in DOMAIN queue :
          queue[i] \in Range(queue')
             => \E j \in DOMAIN queue : j < i /\ queue[j] = r]_vars

\* After close() no render starts and nothing is admitted again.
ClosedIsFinal ==
    [][closed => closed' /\ executing' \subseteq executing /\ queue' = <<>>]_vars

\* No call waits for ever: even when the renders that hold the slots hang, and
\* whoever else leaves the queue meanwhile, it is started or turned away.
EveryWaitEnds ==
    \A r \in Request : r \in Range(queue) ~> r \notin Range(queue)

-----------------------------------------------------------------------------
(* The controller implements the pool its callers rely on. *)

PhaseOf(r) ==
    CASE outcome[r] = "not_called"                    -> "new"
      [] r \in executing                              -> "rendering"
      [] outcome[r] = "pending" /\ r \notin executing -> "waiting"
      [] outcome[r] \in {"fulfilled", "rejected"}      -> "done"
      [] OTHER                                        -> "refused"

phaseBar == [r \in Request |-> PhaseOf(r)]

Pool == INSTANCE RenderPool WITH phase <- phaseBar, shut <- closed

\* Every step of the controller is a step of the pool or changes nothing the
\* callers can see.
ImplementsRenderPool == Pool!Spec
=============================================================================
