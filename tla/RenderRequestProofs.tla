-------------------------- MODULE RenderRequestProofs --------------------------
(***************************************************************************)
(* Proofs about RenderRequest for any number of requests and keys, any     *)
(* limits, any window and any pool.                                        *)
(*                                                                         *)
(* What is held against a request is never more than what is wrong now, so *)
(* that a check that it passes clears it of one thing, and a change of the *)
(* rows holds nothing new against it.  The limiters are reasoned about by  *)
(* the window that a bucket stands for: no two windows of a name overlap,  *)
(* and of the window before the present one at most the limit less one     *)
(* attempts are still recent, the first being too long ago.                *)
(***************************************************************************)
EXTENDS RenderRequest, FiniteSetTheorems, TLAPS

Check == {"new", "verifying", "organization", "project", "domain", "admitting",
          "called", "rejected"}
Place == {"new", "waiting", "rendering", "done", "refused"}
Fault == {"key", "organization", "project", "domain"}

\* The shape of the limiters.
LimiterOK ==
    /\ buckets = [n \in DOMAIN buckets |-> buckets[n]]
    /\ DOMAIN buckets \subseteq Name
    /\ \A n \in DOMAIN buckets : buckets[n] \in [start : Nat, count : Nat \ {0}]
    /\ now \in 0 .. MaxTime
    /\ grants \subseteq Name \X Request \X (0 .. MaxTime)
    /\ IsFiniteSet(grants)

\* The shape of the rest.
TypeOK ==
    /\ live \subseteq Key
    /\ organization \in {"active", "suspended"}
    /\ project \in ProjectStatus
    /\ domain \in {"verified", "pending"}
    /\ changes \in Nat
    /\ at \in [Request -> Check]
    /\ place \in [Request -> Place]
    /\ shut \in BOOLEAN
    /\ unfit \in [Request -> SUBSET Fault]
    /\ LimiterOK

-----------------------------------------------------------------------------
(* Who reaches the pool *)

\* What is held against a request is wrong now, and not what it has been found
\* to be in order.
ChecksClear ==
    \A r \in Request :
        /\ unfit[r] \subseteq UnfitNow(r)
        /\ at[r] \in {"organization", "project", "domain", "admitting", "called"}
              => "key" \notin unfit[r]
        /\ at[r] \in {"project", "domain", "admitting", "called"}
              => "organization" \notin unfit[r]
        /\ at[r] \in {"domain", "admitting", "called"} => "project" \notin unfit[r]
        /\ at[r] \in {"admitting", "called"} => "domain" \notin unfit[r]

\* A key was allowed the requests that called the pool.
CallsGranted ==
    \A r \in Request :
        /\ at[r] = "called" <=> place[r] # "new"
        /\ at[r] = "called" => \E t \in 0 .. MaxTime : <<KeyOf[r], r, t>> \in grants
        /\ \A k \in Key, t \in 0 .. MaxTime :
              <<k, r, t>> \in grants => k = KeyOf[r] /\ at[r] = "called"

-----------------------------------------------------------------------------
(* The windows *)

\* The attempts of n that were allowed less than a window before t.
Recent(n, t) ==
    {g \in grants : g[1] = n /\ g[3] < t /\ t < g[3] + Window}

\* Those that were allowed at t or later.
Since(n, t) == {g \in grants : g[1] = n /\ t =< g[3]}

\* When the next attempt of n will open a window, the last one is over.
NextWindow(n) ==
    Limiter!Fresh(n) => /\ Since(n, now) = {}
                        /\ Cardinality(Recent(n, now)) < Limit[n]

\* A bucket counts the attempts since its start, at which there was one, and
\* the window before it left the limit less one that are recent.
ThisWindow(n) ==
    n \in DOMAIN buckets =>
        LET b == buckets[n] IN
        /\ b.start =< now
        /\ b.count =< Limit[n]
        /\ Cardinality(Since(n, b.start)) =< b.count
        /\ \E g \in grants : g[1] = n /\ g[3] = b.start
        /\ Cardinality(Recent(n, b.start)) < Limit[n]

WindowsApart ==
    /\ \A g \in grants : g[3] =< now
    /\ \A n \in Name : NextWindow(n) /\ ThisWindow(n)

IInv ==
    /\ TypeOK
    /\ ChecksClear
    /\ CallsGranted
    /\ WindowsApart
    /\ GrantsBounded

-----------------------------------------------------------------------------
(* Steps *)

\* What a step does to the limiters.
LEMMA LimiterSteps ==
    ASSUME [Next]_vars
    PROVE  \/ UNCHANGED <<limiter, grants>>
           \/ \E n \in Name, r \in Request : Attempt(n, r)
           \/ LimiterStep
<1>1. ASSUME NEW r \in Request, RequestStep(r)
      PROVE  \/ UNCHANGED <<limiter, grants>>
             \/ \E n \in Name, q \in Request : Attempt(n, q)
  <2>1. CASE Malformed(r) \/ ArriveLimited(r) \/ VerifyKey(r) \/ CheckOrganization(r)
             \/ CheckProject(r) \/ CheckDomain(r) \/ WrongTarget(r) \/ AdmitLimited(r)
    BY <2>1 DEF Malformed, ArriveLimited, VerifyKey, CheckOrganization, CheckProject,
                CheckDomain, WrongTarget, AdmitLimited
  <2>2. CASE Arrive(r) \/ Admit(r)
    <3>1. Attempt(Ip, r) \/ Attempt(KeyOf[r], r)
      BY <2>2 DEF Arrive, Admit
    <3>2. Ip \in Name /\ KeyOf[r] \in Name
      BY RenderRequestAssumption DEF Name
    <3> QED
      BY <3>1, <3>2
  <2> QED
    BY <1>1, <2>1, <2>2 DEF RequestStep
<1>2. CASE PoolStep
  BY <1>2 DEF PoolStep
<1>3. CASE RowStep
  BY <1>3 DEF RowStep, LoseKey, SwitchOrganization, DomainChanges, DeleteProject,
              UpdateProject, Change
<1>4. CASE UNCHANGED vars
  BY <1>4 DEF vars
<1> QED
  BY <1>1, <1>2, <1>3, <1>4 DEF Next

LEMMA ConstantTypes ==
    /\ \A n \in Name : Limit[n] \in Nat \ {0}
    /\ Window \in Nat \ {0} /\ MaxTime \in Nat /\ MaxChanges \in Nat
    /\ \A r \in Request : KeyOf[r] \in Key /\ KeyOf[r] \in Name
    /\ Ip \in Name /\ Ip \notin Key /\ Key \subseteq Name
BY RenderRequestAssumption DEF Name

\* What is chosen from the grants is finite, and a smaller choice is no larger.
LEMMA Choices ==
    ASSUME LimiterOK, NEW S \in SUBSET grants, NEW T \in SUBSET S
    PROVE  /\ IsFiniteSet(S) /\ Cardinality(S) \in Nat
           /\ Cardinality(T) \in Nat /\ Cardinality(T) =< Cardinality(S)
BY FS_Subset, FS_CardinalityType DEF LimiterOK

LEMMA LaterChoices ==
    ASSUME LimiterOK', NEW S \in SUBSET grants', NEW T \in SUBSET S
    PROVE  /\ IsFiniteSet(S) /\ Cardinality(S) \in Nat
           /\ Cardinality(T) \in Nat /\ Cardinality(T) =< Cardinality(S)
BY FS_Subset, FS_CardinalityType DEF LimiterOK

\* An attempt that opens a window or is counted in the one that is open.
LEMMA AttemptEffect ==
    ASSUME LimiterOK, NEW n \in Name, NEW r \in Request, Attempt(n, r)
    PROVE  /\ UNCHANGED now
           /\ grants' = grants \cup {<<n, r, now>>}
           /\ \A m \in Name \ {n} :
                 /\ m \in DOMAIN buckets' <=> m \in DOMAIN buckets
                 /\ m \in DOMAIN buckets => buckets'[m] = buckets[m]
           /\ n \in DOMAIN buckets'
           /\ IF Limiter!Fresh(n)
              THEN buckets'[n] = [start |-> now, count |-> 1]
              ELSE /\ n \in DOMAIN buckets
                   /\ buckets[n].count < Limit[n]
                   /\ now < buckets[n].start + Window
                   /\ buckets'[n].start = buckets[n].start
                   /\ buckets'[n].count = buckets[n].count + 1
           /\ buckets' = [m \in DOMAIN buckets' |-> buckets'[m]]
<1>1. buckets' = Limiter!Counted(n) /\ Limiter!Allows(n)
  BY DEF Attempt
<1>2. CASE Limiter!Fresh(n)
  BY <1>1, <1>2 DEF Attempt, Limiter!Counted
<1>3. CASE ~Limiter!Fresh(n)
  <2>1. n \in DOMAIN buckets /\ ~Limiter!Over(n)
    BY <1>3 DEF Limiter!Fresh
  <2>2. buckets' = [buckets EXCEPT ![n].count = @ + 1]
    BY <1>1, <1>3 DEF Limiter!Counted
  <2>3. buckets[n].count < Limit[n]
    BY <1>1, <2>1 DEF Limiter!Allows
  <2>4. buckets[n] \in [start : Nat, count : Nat \ {0}]
    BY <2>1 DEF LimiterOK
  <2>5. now < buckets[n].start + Window
    BY <2>1, <2>4, ConstantTypes DEF Limiter!Over, LimiterOK
  <2> QED
    BY <1>3, <2>1, <2>2, <2>3, <2>4, <2>5 DEF Attempt, LimiterOK
<1> QED
  BY <1>2, <1>3

LEMMA LimiterTypeStep == LimiterOK /\ [Next]_vars => LimiterOK'
<1> SUFFICES ASSUME LimiterOK, [Next]_vars
             PROVE  LimiterOK'
  OBVIOUS
<1>1. CASE UNCHANGED <<limiter, grants>>
  BY <1>1 DEF LimiterOK, limiter
<1>2. ASSUME NEW n \in Name, NEW r \in Request, Attempt(n, r)
      PROVE  LimiterOK'
  <2>1. IsFiniteSet(grants')
    <3>1. grants' = grants \cup {<<n, r, now>>} /\ IsFiniteSet(grants)
      BY <1>2 DEF Attempt, LimiterOK
    <3> QED
      BY <3>1, FS_AddElement
  <2>2. DOMAIN buckets' \subseteq Name
    BY <1>2 DEF Attempt, Limiter!Counted, LimiterOK
  <2>3. ASSUME NEW m \in DOMAIN buckets'
        PROVE  buckets'[m] \in [start : Nat, count : Nat \ {0}]
    BY <1>2, <2>2, ConstantTypes DEF LimiterOK, Attempt, Limiter!Counted
  <2> QED
    BY <1>2, AttemptEffect, <2>1, <2>2, <2>3 DEF LimiterOK
<1>3. CASE LimiterStep
  <2>1. CASE Limiter!Cleanup
    BY <1>3, <2>1 DEF LimiterStep, Limiter!Cleanup, LimiterOK, Limiter!Restrict
  <2>2. CASE Limiter!Tick
    BY <1>3, <2>2, ConstantTypes DEF LimiterStep, Limiter!Tick, LimiterOK
  <2> QED
    BY <1>3, <2>1, <2>2 DEF LimiterStep
<1> QED
  BY <1>1, <1>2, <1>3, LimiterSteps

-----------------------------------------------------------------------------
(* The windows are kept apart *)

\* Grants are never taken back, and new ones are for the present tick.
LEMMA AttemptKeepsWindows ==
    ASSUME LimiterOK, WindowsApart, NEW n \in Name, NEW r \in Request, Attempt(n, r)
    PROVE  WindowsApart'
<1> DEFINE new == <<n, r, now>>
<1>e. /\ UNCHANGED now /\ grants' = grants \cup {new}
      /\ \A m \in Name \ {n} :
            /\ m \in DOMAIN buckets' <=> m \in DOMAIN buckets
            /\ m \in DOMAIN buckets => buckets'[m] = buckets[m]
  BY AttemptEffect
<1>t. now \in Nat /\ \A g \in grants : g[3] \in Nat
  BY ConstantTypes DEF LimiterOK
<1>n. new \in grants' /\ new[1] = n /\ new[3] = now
  BY <1>e
<1>1. \A g \in grants' : g[3] =< now'
  BY <1>e, <1>t DEF WindowsApart
<1>2. ASSUME NEW m \in Name \ {n}
      PROVE  NextWindow(m)' /\ ThisWindow(m)'
  <2>1. /\ \A t : Recent(m, t)' = Recent(m, t)
        /\ \A t : Since(m, t)' = Since(m, t)
    BY <1>e DEF Recent, Since
  <2>2. Limiter!Fresh(m)' => Limiter!Fresh(m)
    BY <1>e DEF Limiter!Fresh, Limiter!Over
  <2>3. NextWindow(m)'
    BY <1>e, <2>1, <2>2 DEF WindowsApart, NextWindow
  <2>4. ThisWindow(m)'
    BY <1>e, <2>1 DEF WindowsApart, ThisWindow
  <2> QED
    BY <2>3, <2>4
<1>3. CASE Limiter!Fresh(n)
  <2>1. buckets'[n] = [start |-> now, count |-> 1] /\ n \in DOMAIN buckets'
    BY <1>3, AttemptEffect
  <2>2. Since(n, now) = {} /\ Cardinality(Recent(n, now)) < Limit[n]
    BY <1>3 DEF WindowsApart, NextWindow
  <2>3. Since(n, now)' = {new} /\ Recent(n, now)' = Recent(n, now)
    BY <1>e, <1>t, <2>2 DEF Since, Recent
  <2>4. Cardinality(Since(n, now)') = 1
    BY <2>3, FS_Singleton
  <2>5. ThisWindow(n)'
    <3>1. \E g \in grants' : g[1] = n /\ g[3] = now
      BY <1>n
    <3>2. 1 =< Limit[n]
      BY ConstantTypes
    <3>3. now' =< now
      BY <1>e, <1>t
    <3> QED
      BY <1>e, <2>1, <2>2, <2>3, <2>4, <3>1, <3>2, <3>3 DEF ThisWindow
  <2>6. ~Limiter!Fresh(n)'
    BY <1>e, <1>t, <2>1, ConstantTypes DEF Limiter!Fresh, Limiter!Over
  <2> QED
    BY <1>1, <1>2, <2>5, <2>6 DEF WindowsApart, NextWindow
<1>4. CASE ~Limiter!Fresh(n)
  <2>0. n \in DOMAIN buckets /\ buckets[n] \in [start : Nat, count : Nat \ {0}]
    BY <1>4, AttemptEffect DEF LimiterOK
  <2>1. PICK s \in Nat, c \in Nat : s = buckets[n].start /\ c = buckets[n].count
    BY <2>0
  <2>2. /\ n \in DOMAIN buckets' /\ c < Limit[n] /\ now < s + Window
        /\ buckets'[n].start = s /\ buckets'[n].count = c + 1
    BY <1>4, <2>1, AttemptEffect
  <2>3. /\ s =< now
        /\ Cardinality(Since(n, s)) =< c
        /\ \E g \in grants : g[1] = n /\ g[3] = s
        /\ Cardinality(Recent(n, s)) < Limit[n]
    BY <2>0, <2>1 DEF WindowsApart, ThisWindow
  <2>4. /\ Since(n, s)' = Since(n, s) \cup {new}
        /\ Recent(n, s)' = Recent(n, s)
    BY <1>e, <1>t, <1>n, <2>3 DEF Since, Recent
  <2>5. /\ Cardinality(Since(n, s)) \in Nat
        /\ Cardinality(Since(n, s)') \in Nat
        /\ Cardinality(Since(n, s)') =< Cardinality(Since(n, s)) + 1
    <3>1. IsFiniteSet(Since(n, s))
      BY Choices DEF Since
    <3>2. Cardinality(Since(n, s)) \in Nat
      BY <3>1, FS_CardinalityType
    <3>3. Cardinality(Since(n, s) \cup {new}) \in
            {Cardinality(Since(n, s)), Cardinality(Since(n, s)) + 1}
      BY <3>1, FS_AddElement
    <3> QED
      BY <2>4, <3>2, <3>3
  <2>6. ThisWindow(n)'
    <3>1. buckets'[n].count =< Limit[n]
      BY <2>1, <2>2, ConstantTypes
    <3>2. Cardinality(Since(n, s)') =< c + 1
      BY <2>1, <2>3, <2>5
    <3>3. \E g \in grants' : g[1] = n /\ g[3] = s
      BY <1>e, <2>3
    <3> QED
      BY <1>e, <2>2, <2>3, <2>4, <3>1, <3>2, <3>3 DEF ThisWindow
  <2>7. ~Limiter!Fresh(n)'
    BY <1>e, <1>t, <2>1, <2>2, ConstantTypes DEF Limiter!Fresh, Limiter!Over
  <2> QED
    BY <1>1, <1>2, <2>6, <2>7 DEF WindowsApart, NextWindow
<1> QED
  BY <1>3, <1>4

\* Time passes, and windows end: the attempt that opened one is then a
\* window's length ago.
LEMMA TickKeepsWindows ==
    ASSUME LimiterOK, WindowsApart, Limiter!Tick, UNCHANGED grants
    PROVE  WindowsApart'
<1>1. now \in Nat /\ now' = now + 1 /\ buckets' = buckets /\ grants' = grants
      /\ \A g \in grants : g[3] \in Nat
  BY ConstantTypes DEF LimiterOK, Limiter!Tick
<1>2. \A g \in grants' : g[3] =< now'
  BY <1>1 DEF WindowsApart
<1>3. ASSUME NEW n \in Name
      PROVE  ThisWindow(n)'
  <2>1. ASSUME n \in DOMAIN buckets
        PROVE  /\ Since(n, buckets[n].start)' = Since(n, buckets[n].start)
               /\ Recent(n, buckets[n].start)' = Recent(n, buckets[n].start)
               /\ buckets[n].start \in Nat
    BY <1>1, <2>1 DEF Since, Recent, LimiterOK
  <2> QED
    BY <1>1, <2>1 DEF ThisWindow, WindowsApart
<1>4. ASSUME NEW n \in Name, Limiter!Fresh(n)'
      PROVE  Since(n, now)' = {} /\ Cardinality(Recent(n, now)') < Limit[n]
  <2>1. Since(n, now)' = {}
    BY <1>1 DEF Since, WindowsApart
  <2>2. CASE Limiter!Fresh(n)
    <3>1. Since(n, now) = {} /\ Cardinality(Recent(n, now)) < Limit[n]
      BY <2>2 DEF WindowsApart, NextWindow
    <3>2. Recent(n, now)' \subseteq Recent(n, now)
      BY <1>1, <3>1, ConstantTypes DEF Recent, Since
    <3>3. Recent(n, now) \subseteq grants
      BY DEF Recent
    <3>4. /\ Cardinality(Recent(n, now)) \in Nat /\ Cardinality(Recent(n, now)') \in Nat
          /\ Cardinality(Recent(n, now)') =< Cardinality(Recent(n, now))
      BY <3>2, <3>3, Choices
    <3> QED
      BY <2>1, <3>1, <3>4, ConstantTypes
  <2>3. CASE ~Limiter!Fresh(n)
    <3>1. /\ n \in DOMAIN buckets /\ ~Limiter!Over(n)
          /\ buckets[n] \in [start : Nat, count : Nat \ {0}]
      BY <2>3 DEF Limiter!Fresh, LimiterOK
    <3>2. PICK s \in Nat, c \in Nat : s = buckets[n].start /\ c = buckets[n].count
      BY <3>1
    <3>3. now < s + Window /\ s + Window =< now + 1
      BY <1>1, <1>4, <3>1, <3>2, ConstantTypes DEF Limiter!Fresh, Limiter!Over
    <3>4. /\ c =< Limit[n]
          /\ Cardinality(Since(n, s)) =< c
      BY <3>1, <3>2 DEF WindowsApart, ThisWindow
    <3>5. PICK g \in grants : g[1] = n /\ g[3] = s
      BY <3>1, <3>2 DEF WindowsApart, ThisWindow
    <3>6. g \in Since(n, s) /\ Recent(n, now)' \subseteq Since(n, s) \ {g}
      BY <1>1, <3>2, <3>3, <3>5, ConstantTypes DEF Since, Recent
    <3>7. IsFiniteSet(Since(n, s)) /\ Cardinality(Since(n, s)) \in Nat
      BY Choices DEF Since
    <3>8. Cardinality(Since(n, s) \ {g}) = Cardinality(Since(n, s)) - 1
      BY <3>6, <3>7, FS_RemoveElement
    <3>9. Since(n, s) \ {g} \subseteq grants
      BY DEF Since
    <3>10. /\ Cardinality(Recent(n, now)') \in Nat
           /\ Cardinality(Recent(n, now)') =< Cardinality(Since(n, s) \ {g})
      BY <3>6, <3>9, Choices
    <3> QED
      BY <2>1, <3>2, <3>4, <3>7, <3>8, <3>10, ConstantTypes
  <2> QED
    BY <2>2, <2>3
<1> QED
  BY <1>2, <1>3, <1>4 DEF WindowsApart, NextWindow

\* The timer drops buckets whose window is over, so that it changes no decision.
LEMMA CleanupKeepsWindows ==
    ASSUME LimiterOK, WindowsApart, Limiter!Cleanup, UNCHANGED grants
    PROVE  WindowsApart'
<1>1. /\ now' = now /\ grants' = grants
      /\ DOMAIN buckets' \subseteq DOMAIN buckets
      /\ \A n \in DOMAIN buckets' : buckets'[n] = buckets[n]
      /\ \A n \in DOMAIN buckets : ~Limiter!Over(n) => n \in DOMAIN buckets'
  BY DEF Limiter!Cleanup, Limiter!Restrict
<1>2. ASSUME NEW n \in Name
      PROVE  NextWindow(n)' /\ ThisWindow(n)'
  <2>1. \A t : Since(n, t)' = Since(n, t) /\ Recent(n, t)' = Recent(n, t)
    BY <1>1 DEF Since, Recent
  <2>2. Limiter!Fresh(n)' => Limiter!Fresh(n)
    BY <1>1 DEF Limiter!Fresh, Limiter!Over
  <2>3. NextWindow(n)'
    BY <1>1, <2>1, <2>2 DEF WindowsApart, NextWindow
  <2>4. ThisWindow(n)'
    BY <1>1, <2>1 DEF WindowsApart, ThisWindow
  <2> QED
    BY <2>3, <2>4
<1> QED
  BY <1>1, <1>2 DEF WindowsApart

LEMMA WindowsStep == LimiterOK /\ WindowsApart /\ [Next]_vars => WindowsApart'
<1> SUFFICES ASSUME LimiterOK, WindowsApart, [Next]_vars
             PROVE  WindowsApart'
  OBVIOUS
<1>1. CASE UNCHANGED <<limiter, grants>>
  BY <1>1 DEF limiter, WindowsApart, NextWindow, ThisWindow, Since, Recent,
              Limiter!Fresh, Limiter!Over
<1>2. CASE \E n \in Name, r \in Request : Attempt(n, r)
  BY <1>2, AttemptKeepsWindows
<1>3. CASE LimiterStep
  BY <1>3, TickKeepsWindows, CleanupKeepsWindows DEF LimiterStep
<1> QED
  BY <1>1, <1>2, <1>3, LimiterSteps

-----------------------------------------------------------------------------
(* The limits *)

\* The attempts of any window's length are those of a window and those that
\* are recent when it starts.
LEMMA LimitsStep ==
    LimiterOK /\ WindowsApart /\ GrantsBounded /\ [Next]_vars => GrantsBounded'
<1> SUFFICES ASSUME LimiterOK, WindowsApart, GrantsBounded, [Next]_vars
             PROVE  GrantsBounded'
  OBVIOUS
<1>t. LimiterOK' /\ WindowsApart'
  BY LimiterTypeStep, WindowsStep
<1>1. CASE UNCHANGED grants
  BY <1>1 DEF GrantsBounded, Granted
<1>2. ASSUME NEW n \in Name, NEW r \in Request, Attempt(n, r)
      PROVE  GrantsBounded'
  <2>e. /\ now' = now /\ now \in Nat /\ grants' = grants \cup {<<n, r, now>>}
        /\ \A g \in grants' : g[3] \in Nat /\ g[3] =< now
    BY <1>2, <1>t, ConstantTypes DEF Attempt, LimiterOK, WindowsApart
  <2>1. ASSUME NEW m \in Name \ {n}
        PROVE  \A t, u : Granted(m, t, u)' = Granted(m, t, u)
    BY <2>e DEF Granted
  <2>2. ~Limiter!Fresh(n)' /\ n \in DOMAIN buckets'
    BY <1>2, <2>e, <1>t, AttemptEffect, ConstantTypes
    DEF Limiter!Fresh, Limiter!Over, LimiterOK
  <2>3. PICK s \in Nat : s = buckets'[n].start
    BY <1>t, <2>2 DEF LimiterOK
  <2>4. /\ s =< now /\ now < s + Window
        /\ Cardinality(Since(n, s)') =< Limit[n]
        /\ Cardinality(Recent(n, s)') < Limit[n]
    <3>1. buckets'[n] \in [start : Nat, count : Nat \ {0}]
      BY <1>t, <2>2 DEF LimiterOK
    <3>2. PICK c \in Nat : c = buckets'[n].count
      BY <3>1
    <3>3. now < s + Window
      BY <2>e, <2>2, <2>3, ConstantTypes DEF Limiter!Fresh, Limiter!Over
    <3>4. ThisWindow(n)'
      BY <1>t DEF WindowsApart
    <3>5. /\ s =< now /\ c =< Limit[n]
          /\ Cardinality(Since(n, s)') =< c
          /\ Cardinality(Recent(n, s)') < Limit[n]
      BY <2>e, <2>2, <2>3, <3>2, <3>4 DEF ThisWindow
    <3>6. Cardinality(Since(n, s)') \in Nat
      BY <1>t, LaterChoices DEF Since
    <3> QED
      BY <3>2, <3>3, <3>5, <3>6, ConstantTypes
  <2>5. ASSUME NEW t \in 0 .. MaxTime
        PROVE  /\ Cardinality(Granted(n, t, t + 1)') =< Limit[n]
               /\ Cardinality(Granted(n, t, t + Window)') < 2 * Limit[n]
    <3>1. /\ Since(n, s)' \subseteq grants' /\ Recent(n, s)' \subseteq grants'
          /\ IsFiniteSet(Since(n, s)') /\ IsFiniteSet(Recent(n, s)')
          /\ Cardinality(Since(n, s)') \in Nat /\ Cardinality(Recent(n, s)') \in Nat
      <4>1. Since(n, s)' \subseteq grants' /\ Recent(n, s)' \subseteq grants'
        BY DEF Since, Recent
      <4> QED
        BY <1>t, <4>1, LaterChoices
    <3>2. Cardinality(Granted(n, t, t + 1)') =< Limit[n]
      <4>1. CASE t < s
        <5>1. Granted(n, t, t + 1)' = Granted(n, t, t + 1)
          BY <2>e, <2>4, <4>1 DEF Granted
        <5> QED
          BY <5>1 DEF GrantsBounded
      <4>2. CASE s =< t
        <5>1. Granted(n, t, t + 1)' \subseteq Since(n, s)'
          BY <2>e, <4>2 DEF Granted, Since
        <5>2. /\ Cardinality(Granted(n, t, t + 1)') \in Nat
              /\ Cardinality(Granted(n, t, t + 1)') =< Cardinality(Since(n, s)')
          BY <1>t, <3>1, <5>1, LaterChoices
        <5> QED
          BY <2>4, <3>1, <5>2, ConstantTypes
      <4> QED
        BY <4>1, <4>2
    <3>3. Cardinality(Granted(n, t, t + Window)') < 2 * Limit[n]
      <4>1. CASE t + Window =< s
        <5>1. Granted(n, t, t + Window)' = Granted(n, t, t + Window)
          BY <2>e, <2>4, <4>1, ConstantTypes DEF Granted
        <5> QED
          BY <5>1 DEF GrantsBounded
      <4>2. CASE s < t + Window
        <5> DEFINE U == Recent(n, s)' \cup Since(n, s)'
        <5>1. Granted(n, t, t + Window)' \subseteq U
          BY <2>e, <4>2, ConstantTypes DEF Granted, Since, Recent
        <5>2. Cardinality(U) =< Cardinality(Recent(n, s)') + Cardinality(Since(n, s)')
          <6>1. /\ Cardinality(U) = Cardinality(Recent(n, s)') + Cardinality(Since(n, s)')
                       - Cardinality(Recent(n, s)' \cap Since(n, s)')
            BY <3>1, FS_Union
          <6>2. Cardinality(Recent(n, s)' \cap Since(n, s)') \in Nat
            BY <3>1, FS_Subset, FS_CardinalityType
          <6> QED
            BY <3>1, <6>1, <6>2
        <5>3. U \subseteq grants'
          BY <3>1
        <5>4. /\ Cardinality(U) \in Nat
              /\ Cardinality(Granted(n, t, t + Window)') \in Nat
              /\ Cardinality(Granted(n, t, t + Window)') =< Cardinality(U)
          BY <1>t, <5>1, <5>3, LaterChoices
        <5>5. Limit[n] \in Nat
          BY ConstantTypes
        <5> QED
          BY <2>4, <3>1, <5>2, <5>4, <5>5
      <4> QED
        BY <4>1, <4>2, ConstantTypes
    <3> QED
      BY <3>2, <3>3
  <2> QED
    BY <2>1, <2>5 DEF GrantsBounded
<1> QED
  BY <1>1, <1>2, LimiterSteps DEF LimiterStep

-----------------------------------------------------------------------------
(* The requests *)

LEMMA TypeStep == TypeOK /\ [Next]_vars => TypeOK'
<1> SUFFICES ASSUME TypeOK, [Next]_vars
             PROVE  TypeOK'
  OBVIOUS
<1>1. LimiterOK'
  BY LimiterTypeStep DEF TypeOK
<1>2. ASSUME NEW r \in Request, RequestStep(r)
      PROVE  TypeOK'
  <2>1. at' \in [Request -> Check] /\ UNCHANGED rows
    BY <1>2 DEF TypeOK, Check, RequestStep, Malformed, Arrive, ArriveLimited, VerifyKey,
                CheckOrganization, CheckProject, CheckDomain, WrongTarget, Admit,
                AdmitLimited, Goto
  <2>2. unfit' \in [Request -> SUBSET Fault]
    <3>1. UnfitNow(r) \subseteq Fault
      BY DEF UnfitNow, Fault
    <3>2. unfit' = unfit \/ unfit' = [unfit EXCEPT ![r] = UnfitNow(r)]
      BY <1>2 DEF RequestStep, Malformed, Arrive, ArriveLimited, VerifyKey,
                  CheckOrganization, CheckProject, CheckDomain, WrongTarget, Admit,
                  AdmitLimited
    <3> QED
      BY <3>1, <3>2 DEF TypeOK
  <2>3. place' \in [Request -> Place] /\ shut' \in BOOLEAN
    <3>1. UNCHANGED pool \/ Pool!Enter(r) \/ Pool!Wait(r) \/ Pool!Refuse(r)
      BY <1>2 DEF RequestStep, Malformed, Arrive, ArriveLimited, VerifyKey,
                  CheckOrganization, CheckProject, CheckDomain, WrongTarget, Admit,
                  AdmitLimited
    <3> QED
      BY <3>1 DEF TypeOK, pool, Place, Pool!Enter, Pool!Wait, Pool!Refuse
  <2> QED
    BY <1>1, <2>1, <2>2, <2>3 DEF TypeOK, rows
<1>3. CASE PoolStep
  <2>1. place' \in [Request -> Place] /\ shut' \in BOOLEAN
    BY <1>3 DEF PoolStep, TypeOK, Place, Pool!Shut, Pool!GiveUp, Pool!Finish
  <2> QED
    BY <1>1, <1>3, <2>1 DEF PoolStep, TypeOK, rows
<1>4. CASE LimiterStep
  BY <1>1, <1>4 DEF LimiterStep, TypeOK, rows, pool
<1>5. CASE RowStep
  BY <1>1, <1>5 DEF RowStep, LoseKey, SwitchOrganization, DomainChanges, DeleteProject,
                    UpdateProject, Change, TypeOK, ProjectStatus, pool, limiter
<1>6. CASE UNCHANGED vars
  BY <1>1, <1>6 DEF vars, TypeOK, rows, pool
<1> QED
  BY <1>2, <1>3, <1>4, <1>5, <1>6 DEF Next

\* A check that a request passes finds in order what it looks at.
LEMMA ChecksStep == TypeOK /\ ChecksClear /\ [Next]_vars => ChecksClear'
<1> SUFFICES ASSUME TypeOK, ChecksClear, [Next]_vars
             PROVE  ChecksClear'
  OBVIOUS
<1>1. ASSUME NEW r \in Request, RequestStep(r)
      PROVE  ChecksClear'
  <2>1. CASE Malformed(r) \/ ArriveLimited(r) \/ WrongTarget(r) \/ AdmitLimited(r)
    BY <2>1 DEF Malformed, ArriveLimited, WrongTarget, AdmitLimited, Goto,
                TypeOK, ChecksClear, UnfitNow, rows
  <2>2. CASE Arrive(r)
    BY <2>2 DEF Arrive, Goto, TypeOK, ChecksClear, UnfitNow, rows
  <2>3. CASE VerifyKey(r)
    BY <2>3 DEF VerifyKey, Goto, TypeOK, ChecksClear, UnfitNow, rows
  <2>4. CASE CheckOrganization(r)
    BY <2>4 DEF CheckOrganization, Goto, TypeOK, ChecksClear, UnfitNow, rows
  <2>5. CASE CheckProject(r)
    BY <2>5 DEF CheckProject, Goto, TypeOK, ChecksClear, UnfitNow, rows
  <2>6. CASE CheckDomain(r)
    BY <2>6 DEF CheckDomain, Goto, TypeOK, ChecksClear, UnfitNow, rows
  <2>7. CASE Admit(r)
    BY <2>7 DEF Admit, Goto, TypeOK, ChecksClear, UnfitNow, rows
  <2> QED
    BY <1>1, <2>1, <2>2, <2>3, <2>4, <2>5, <2>6, <2>7 DEF RequestStep
<1>2. CASE RowStep
  <2>1. at' = at /\ \A r \in Request : unfit'[r] = unfit[r] \cap UnfitNow(r)'
    BY <1>2 DEF RowStep, LoseKey, SwitchOrganization, DomainChanges, DeleteProject,
                UpdateProject, Change
  <2> QED
    BY <2>1 DEF ChecksClear
<1>3. CASE PoolStep \/ LimiterStep \/ UNCHANGED vars
  BY <1>3 DEF PoolStep, LimiterStep, vars, rows, ChecksClear, UnfitNow
<1> QED
  BY <1>1, <1>2, <1>3 DEF Next

\* The pool takes a request in the step in which its key is charged for it,
\* and never gives it back.
LEMMA GrantsStep == TypeOK /\ CallsGranted /\ [Next]_vars => CallsGranted'
<1> SUFFICES ASSUME TypeOK, CallsGranted, [Next]_vars
             PROVE  CallsGranted'
  OBVIOUS
<1>1. ASSUME NEW r \in Request, RequestStep(r)
      PROVE  CallsGranted'
  <2>1. CASE Malformed(r) \/ ArriveLimited(r) \/ VerifyKey(r) \/ CheckOrganization(r)
             \/ CheckProject(r) \/ CheckDomain(r) \/ WrongTarget(r) \/ AdmitLimited(r)
    <3>1. /\ place' = place /\ grants' = grants
          /\ at[r] # "called"
          /\ \E check \in Check \ {"called"} : at' = [at EXCEPT ![r] = check]
      BY <2>1 DEF Malformed, ArriveLimited, VerifyKey, CheckOrganization, CheckProject,
                  CheckDomain, WrongTarget, AdmitLimited, Goto, Check, pool
    <3> QED
      BY <3>1 DEF CallsGranted, TypeOK
  <2>2. CASE Arrive(r)
    BY <2>2, ConstantTypes DEF Arrive, Attempt, Goto, CallsGranted, TypeOK, pool
  <2>3. CASE Admit(r)
    <3>1. /\ at[r] = "admitting" /\ at' = [at EXCEPT ![r] = "called"]
          /\ grants' = grants \cup {<<KeyOf[r], r, now>>} /\ now \in 0 .. MaxTime
      BY <2>3 DEF Admit, Attempt, Goto, TypeOK, LimiterOK
    <3>2. /\ place'[r] # "new"
          /\ \A q \in Request \ {r} : place'[q] = place[q]
      BY <2>3 DEF Admit, TypeOK, Pool!Enter, Pool!Wait, Pool!Refuse
    <3> QED
      BY <3>1, <3>2 DEF CallsGranted, TypeOK
  <2> QED
    BY <1>1, <2>1, <2>2, <2>3 DEF RequestStep
<1>2. CASE PoolStep
  <2>1. \A q \in Request : place'[q] # "new" <=> place[q] # "new"
    BY <1>2 DEF PoolStep, TypeOK, Pool!Shut, Pool!GiveUp, Pool!Finish, Pool!Waiting, Pool!In
  <2> QED
    BY <1>2, <2>1 DEF PoolStep, CallsGranted
<1>3. CASE LimiterStep \/ RowStep \/ UNCHANGED vars
  BY <1>3 DEF LimiterStep, RowStep, LoseKey, SwitchOrganization, DomainChanges,
              DeleteProject, UpdateProject, Change, vars, pool, CallsGranted
<1> QED
  BY <1>1, <1>2, <1>3 DEF Next

-----------------------------------------------------------------------------
(* Results *)

\* No request has come and nobody has been counted.
LEMMA Initially == Init => IInv
<1> SUFFICES ASSUME Init
             PROVE  IInv
  OBVIOUS
<1>1. buckets = <<>> /\ DOMAIN buckets = {} /\ grants = {} /\ now = 0
  BY DEF Init
<1>2. TypeOK
  <2>1. buckets = [n \in DOMAIN buckets |-> buckets[n]]
    BY <1>1
  <2>2. LimiterOK
    BY <1>1, <2>1, FS_EmptySet, ConstantTypes DEF LimiterOK
  <2> QED
    BY <2>2, ConstantTypes
    DEF Init, TypeOK, ProjectStatus, Check, Place, Fault, Pool!Init
<1>3. ChecksClear /\ CallsGranted
  BY <1>1 DEF Init, ChecksClear, CallsGranted, UnfitNow, Pool!Init
<1>4. \A n, t, u : Since(n, t) = {} /\ Recent(n, t) = {} /\ Granted(n, t, u) = {}
  BY <1>1 DEF Since, Recent, Granted
<1>5. Cardinality({}) = 0
  BY FS_EmptySet
<1>6. WindowsApart
  <2>1. ASSUME NEW n \in Name
        PROVE  NextWindow(n) /\ ThisWindow(n)
    <3>1. 0 < Limit[n]
      BY ConstantTypes
    <3> QED
      BY <1>1, <1>4, <1>5, <3>1 DEF NextWindow, ThisWindow
  <2> QED
    BY <1>1, <2>1 DEF WindowsApart
<1>7. GrantsBounded
  <2>1. ASSUME NEW n \in Name, NEW t \in 0 .. MaxTime
        PROVE  /\ Cardinality(Granted(n, t, t + 1)) =< Limit[n]
               /\ Cardinality(Granted(n, t, t + Window)) < 2 * Limit[n]
    <3>1. 0 =< Limit[n] /\ 0 < 2 * Limit[n]
      BY ConstantTypes
    <3>2. Granted(n, t, t + 1) = {} /\ Granted(n, t, t + Window) = {}
      BY <1>4
    <3> QED
      BY <1>5, <3>1, <3>2
  <2> QED
    BY <2>1 DEF GrantsBounded
<1> QED
  BY <1>2, <1>3, <1>6, <1>7 DEF IInv

LEMMA Inductive == Spec => []IInv
<1>1. IInv /\ [Next]_vars => IInv'
  BY TypeStep, ChecksStep, GrantsStep, WindowsStep, LimitsStep DEF IInv, TypeOK
<1> QED
  BY <1>1, Initially, PTL DEF Spec

\* A request that reaches the pool had its key, its organization, its project
\* and its domain each in order at some moment since it arrived, whatever is
\* changed while its checks run (POST /render).
THEOREM OnlyTheFitReachThePool == Spec => []PoolOnlyForTheFit
<1>1. IInv => PoolOnlyForTheFit
  BY DEF IInv, TypeOK, ChecksClear, PoolOnlyForTheFit, Fault
<1> QED
  BY <1>1, Inductive, PTL

\* A key is charged for exactly the requests that the pool took or refused
\* (the limiter of the key is asked last, right before the pool is called).
THEOREM KeysPayForCalls == Spec => []KeysPayForCallsOnly
<1>1. IInv => KeysPayForCallsOnly
  BY DEF IInv, CallsGranted, KeysPayForCallsOnly
<1> QED
  BY <1>1, Inductive, PTL

\* A limiter with windows of a fixed length that start with an attempt allows
\* its limit in a tick and less than twice the limit in a window's length.
THEOREM LimitsHold == Spec => []GrantsBounded
<1>1. IInv => GrantsBounded
  BY DEF IInv
<1> QED
  BY <1>1, Inductive, PTL

\* The rows, the limiters, the requests and the pool keep their shape.
THEOREM TypeCorrect == Spec => []TypeOK
<1>1. IInv => TypeOK
  BY DEF IInv
<1> QED
  BY <1>1, Inductive, PTL
=============================================================================
