---------------------------- MODULE RenderRequest ----------------------------
(***************************************************************************)
(* POST /render (src/routes/render.ts): what a request passes before it    *)
(* may take a place of the render pool, while its key, its organization,   *)
(* its project and its domain change under it.                             *)
(*                                                                         *)
(* The requests come from one address and concern one domain.  The pool is *)
(* RenderPool, which RenderCapacity implements, and the limiters are       *)
(* RateLimiter.  Every check is a statement of its own.  What follows the  *)
(* last one, from the limiter of the key to the call of the pool, has no   *)
(* await in it and is one step.                                            *)
(***************************************************************************)
EXTENDS Naturals, FiniteSets

CONSTANTS Request,        \* requests
          Key,            \* render API keys of the project
          KeyOf,          \* the key each request carries
          Ip,             \* the address they come from
          Limit,          \* attempts per window, of the address and of each key
          Window,         \* the window, in ticks
          MaxTime,        \* bound on the clock
          MaxChanges,     \* bound on the changes of the rows
          MaxConcurrent, MaxQueued

ASSUME RenderRequestAssumption ==
    /\ KeyOf \in [Request -> Key] /\ Ip \notin Key
    /\ Limit \in [Key \cup {Ip} -> Nat \ {0}]
    /\ Window \in Nat \ {0} /\ MaxTime \in Nat /\ MaxChanges \in Nat

Name == Key \cup {Ip}

VARIABLES live,          \* keys that verifyRenderApiKey accepts
          organization,  \* status of the organization
          project,       \* status of the project
          domain,        \* status of the domain
          changes,       \* number of changes of these rows
          buckets, now,  \* the limiters
          at,            \* the check each request is at
          place, shut,   \* the render pool
          grants,        \* history: which name was allowed which request at which time
          unfit          \* history: rows no check of a request could have passed so far

rows == <<live, organization, project, domain, changes>>
limiter == <<buckets, now>>
pool == <<place, shut>>
vars == <<rows, limiter, at, pool, grants, unfit>>

Pool == INSTANCE RenderPool WITH phase <- place
Limiter == INSTANCE RateLimiter

ProjectStatus == {"active", "suspended", "deleted"}

Init ==
    /\ live = Key
    /\ organization = "active" /\ project = "active" /\ domain = "verified"
    /\ changes = 0
    /\ buckets = <<>> /\ now = 0
    /\ at = [r \in Request |-> "new"]
    /\ Pool!Init
    /\ grants = {}
    /\ unfit = [r \in Request |-> {}]

\* The rows of a request that would be turned down now.
UnfitNow(r) ==
    {"key" : k \in {KeyOf[r]} \ live}
      \cup {"organization" : s \in {organization} \ {"active"}}
      \cup {"project" : s \in {project} \ {"active"}}
      \cup {"domain" : s \in {domain} \ {"verified"}}

Goto(r, check) == at' = [at EXCEPT ![r] = check]

\* An attempt of n, for r, that its limiter allows.
Attempt(n, r) ==
    /\ Limiter!Allows(n)
    /\ buckets' = Limiter!Counted(n)
    /\ grants' = grants \cup {<<n, r, now>>}
    /\ UNCHANGED now

-----------------------------------------------------------------------------
(* Faulty variants of the actions below: mistakes the code could have made, *)
(* kept to check that the properties notice them.                           *)

\* The project is looked up without its status.
CheckProjectExists(r) ==
    /\ at[r] = "project"
    /\ IF project # "deleted" THEN Goto(r, "domain") ELSE Goto(r, "rejected")
    /\ UNCHANGED <<rows, limiter, pool, grants, unfit>>

\* The limiter of the key is asked as soon as the domain has been read.
CheckDomainCounting(r) ==
    /\ at[r] = "domain"
    /\ Attempt(KeyOf[r], r)
    /\ IF domain = "verified" THEN Goto(r, "admitting") ELSE Goto(r, "rejected")
    /\ UNCHANGED <<rows, pool, unfit>>

-----------------------------------------------------------------------------
(* A request *)

\* No key, two keys, a key in the wrong place or of the wrong shape.
Malformed(r) ==
    /\ at[r] = "new"
    /\ Goto(r, "rejected")
    /\ UNCHANGED <<rows, limiter, pool, grants, unfit>>

\* The limiter of the address counts the request before its key is verified.
Arrive(r) ==
    /\ at[r] = "new"
    /\ Attempt(Ip, r)
    /\ Goto(r, "verifying")
    /\ unfit' = [unfit EXCEPT ![r] = UnfitNow(r)]
    /\ UNCHANGED <<rows, pool>>

ArriveLimited(r) ==
    /\ at[r] = "new"
    /\ ~Limiter!Allows(Ip)
    /\ Goto(r, "rejected")
    /\ UNCHANGED <<rows, limiter, pool, grants, unfit>>

\* A revoked, rotated or expired key is turned down; so is a good one that
\* exceeds the limit of its own row.
VerifyKey(r) ==
    /\ at[r] = "verifying"
    /\ (KeyOf[r] \in live /\ Goto(r, "organization")) \/ Goto(r, "rejected")
    /\ UNCHANGED <<rows, limiter, pool, grants, unfit>>

CheckOrganization(r) ==
    /\ at[r] = "organization"
    /\ IF organization = "active" THEN Goto(r, "project") ELSE Goto(r, "rejected")
    /\ UNCHANGED <<rows, limiter, pool, grants, unfit>>

CheckProject(r) ==
    /\ at[r] = "project"
    /\ IF project = "active" THEN Goto(r, "domain") ELSE Goto(r, "rejected")
    /\ UNCHANGED <<rows, limiter, pool, grants, unfit>>

CheckDomain(r) ==
    /\ at[r] = "domain"
    /\ IF domain = "verified" THEN Goto(r, "admitting") ELSE Goto(r, "rejected")
    /\ UNCHANGED <<rows, limiter, pool, grants, unfit>>

\* The body is not valid, names another domain, or its URL is not one of the
\* domain.
WrongTarget(r) ==
    /\ at[r] \in {"domain", "admitting"}
    /\ Goto(r, "rejected")
    /\ UNCHANGED <<rows, limiter, pool, grants, unfit>>

Admit(r) ==
    /\ at[r] = "admitting"
    /\ Attempt(KeyOf[r], r)
    /\ Pool!Enter(r) \/ Pool!Wait(r) \/ Pool!Refuse(r)
    /\ Goto(r, "called")
    /\ UNCHANGED <<rows, unfit>>

AdmitLimited(r) ==
    /\ at[r] = "admitting"
    /\ ~Limiter!Allows(KeyOf[r])
    /\ Goto(r, "rejected")
    /\ UNCHANGED <<rows, limiter, pool, grants, unfit>>

-----------------------------------------------------------------------------
(* What happens around the requests *)

PoolStep ==
    /\ Pool!Shut \/ \E r \in Request : Pool!GiveUp(r) \/ Pool!Finish(r)
    /\ UNCHANGED <<rows, limiter, at, grants, unfit>>

LimiterStep ==
    /\ Limiter!Cleanup \/ Limiter!Tick
    /\ UNCHANGED <<rows, at, pool, grants, unfit>>

\* A row changes, and what is fit now is no longer held against a request.
Change ==
    /\ changes < MaxChanges
    /\ changes' = changes + 1
    /\ unfit' = [r \in Request |-> unfit[r] \cap UnfitNow(r)']
    /\ UNCHANGED <<limiter, at, pool, grants>>

\* Revocation, rotation and expiry, which are final (ApiKeys).
LoseKey(k) ==
    /\ live' = live \ {k}
    /\ UNCHANGED <<organization, project, domain>>
    /\ Change

SwitchOrganization ==
    /\ organization' = IF organization = "active" THEN "suspended" ELSE "active"
    /\ UNCHANGED <<live, project, domain>>
    /\ Change

\* The status a PATCH writes does not depend on the one that is there: a
\* deleted project can be made active again.
UpdateProject(status) ==
    /\ project' = status
    /\ UNCHANGED <<live, organization, domain>>
    /\ Change

DeleteProject == UpdateProject("deleted")

\* Verification and rotation of its token (DomainVerification).
DomainChanges ==
    /\ domain' = IF domain = "verified" THEN "pending" ELSE "verified"
    /\ UNCHANGED <<live, organization, project>>
    /\ Change

RequestStep(r) ==
    \/ Malformed(r) \/ Arrive(r) \/ ArriveLimited(r)
    \/ VerifyKey(r) \/ CheckOrganization(r) \/ CheckProject(r) \/ CheckDomain(r)
    \/ WrongTarget(r) \/ Admit(r) \/ AdmitLimited(r)

RowStep ==
    \/ \E k \in live : LoseKey(k)
    \/ SwitchOrganization \/ DomainChanges
    \/ DeleteProject \/ \E s \in ProjectStatus \ {project} : UpdateProject(s)

Next ==
    \/ \E r \in Request : RequestStep(r)
    \/ PoolStep
    \/ LimiterStep
    \/ RowStep

Spec == Init /\ [][Next]_vars

-----------------------------------------------------------------------------
(* Properties *)

\* A request reaches the pool only if its key, its organization, its project
\* and its domain were each in order at some moment since it arrived: one
\* whose key, say, had been revoked before is never rendered, whatever is
\* changed while its checks run.
PoolOnlyForTheFit == \A r \in Request : at[r] = "called" => unfit[r] = {}

\* The window of a key counts the requests that reached the pool and no
\* others, and nobody takes a place in it without being counted.
KeysPayForCallsOnly ==
    \A k \in Key :
      {r \in Request : \E t \in 0 .. MaxTime : <<k, r, t>> \in grants}
        = {r \in Request : KeyOf[r] = k /\ place[r] # "new"}

\* The attempts of n that were allowed from one tick until before another.
Granted(n, from, until) ==
    {g \in grants : g[1] = n /\ from =< g[3] /\ g[3] < until}

\* The windows are fixed ones: a name is allowed its limit in one tick, and
\* less than twice its limit in any stretch of a window's length, with the
\* timer dropping buckets in between.
GrantsBounded ==
    \A n \in Name : \A t \in 0 .. MaxTime :
      /\ Cardinality(Granted(n, t, t + 1)) =< Limit[n]
      /\ Cardinality(Granted(n, t, t + Window)) < 2 * Limit[n]
=============================================================================
