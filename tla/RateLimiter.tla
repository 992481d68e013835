----------------------------- MODULE RateLimiter -----------------------------
(***************************************************************************)
(* The rate limiter of a process (src/lib/rate-limiter.ts): for each name  *)
(* a bucket that counts the allowed attempts since its first one, and a    *)
(* timer that drops the buckets whose window is over.                      *)
(***************************************************************************)
EXTENDS Naturals, Functions

CONSTANTS Name,    \* whom attempts are counted for: an address, a key
          Limit,   \* maxAttempts of each name
          Window,  \* windowMs, in ticks of the clock
          MaxTime  \* bound on the clock

VARIABLES buckets,  \* a function on the names that have a bucket
          now

Over(n) == now - buckets[n].start >= Window
Fresh(n) == \A m \in DOMAIN buckets \cap {n} : Over(m)

\* The decision of check(), and the buckets after an attempt it allows.
Allows(n) == \A m \in DOMAIN buckets \cap {n} : Over(m) \/ buckets[m].count < Limit[m]
Counted(n) ==
    IF Fresh(n)
    THEN [m \in DOMAIN buckets \cup {n} |->
            IF m = n THEN [start |-> now, count |-> 1] ELSE buckets[m]]
    ELSE [buckets EXCEPT ![n].count = @ + 1]

\* Faulty variant: the timer drops every bucket.
CleanupOfAll ==
    /\ buckets' = <<>>
    /\ UNCHANGED now

Cleanup ==
    /\ buckets' = Restrict(buckets, {n \in DOMAIN buckets : ~Over(n)})
    /\ UNCHANGED now

Tick ==
    /\ now < MaxTime
    /\ now' = now + 1
    /\ UNCHANGED buckets
=============================================================================
