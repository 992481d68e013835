------------------------- MODULE DomainVerification -------------------------
(***************************************************************************)
(* Proving the ownership of one domain: the verify and rotate-token routes *)
(* (src/routes/organizations.ts), the check over the network with its rate *)
(* limiter and single-flight guard                                         *)
(* (src/services/domain-verification-service.ts), and the transactions     *)
(* that record their outcome                                               *)
(* (src/repositories/postgres/tenant-repository.ts).                       *)
(*                                                                         *)
(* The limiter and the guard live in the memory of each server process; a  *)
(* restart forgets them together with the attempts the process was serving.*)
(* The row is read by statements of their own, before the check and before *)
(* each transaction, and every transaction writes what it computed from    *)
(* what was read.  Tokens are numbered in the order in which rotations     *)
(* commit them; 0 is the token the domain was registered with.             *)
(***************************************************************************)
EXTENDS Naturals, FiniteSets

CONSTANTS Attempt,       \* calls of the verify route
          Rotation,      \* calls of the rotate-verification-token route
          Process,       \* server processes
          At,            \* the process that serves each attempt
          MaxPerWindow   \* attempts per domain in a window of the limiter

ASSUME VerificationAssumption ==
    /\ Attempt \cap Rotation = {}
    /\ At \in [Attempt -> Process]
    /\ MaxPerWindow \in Nat \ {0}

VARIABLES status,      \* of the row
          verifiedAt,  \* of the row, whether it is set
          failures,    \* of the row, verificationFailureCount
          token,       \* of the row, the token whose hash is stored
          published,   \* tokens found in the domain's DNS zone or web site
          recent,      \* attempts each process counts in its window
          inFlight,    \* processes whose guard holds the domain
          pc,          \* where each attempt and rotation is
          seenToken,   \* the token each attempt looks for
          found,       \* attempts whose check succeeded
          seen,        \* the row as a call read it before its transaction
          audit,       \* committed audit events of the attempts
          proven,      \* tokens that a recorded attempt found (history)
          overtaken    \* attempts that a rotation committed during (history)

row == <<status, verifiedAt, failures, token>>
memory == <<recent, inFlight>>
calls == <<pc, seenToken, found, seen>>
history == <<proven, overtaken>>
vars == <<row, published, memory, calls, audit, history>>

Row == [status |-> status, verifiedAt |-> verifiedAt, failures |-> failures]
Nothing == [status |-> "pending", verifiedAt |-> FALSE, failures |-> 0]

Call == Attempt \cup Rotation

\* The attempts that one process has between the guard and its release.
Checking == {"checking", "checked", "writing"}
Holders(p) == {a \in Attempt : At[a] = p /\ pc[a] \in Checking}

\* Attempts that have read the token and are not answered yet.
Underway == {a \in Attempt : pc[a] \in {"read", "attempted"} \cup Checking}

Init ==
    /\ status = "pending"
    /\ verifiedAt = FALSE
    /\ failures = 0
    /\ token = 0
    /\ published = {}
    /\ recent = [p \in Process |-> 0]
    /\ inFlight = {}
    /\ pc = [c \in Call |-> "new"]
    /\ seenToken = [a \in Attempt |-> 0]
    /\ found = {}
    /\ seen = [c \in Call |-> Nothing]
    /\ audit = {}
    /\ proven = {}
    /\ overtaken = {}

Goto(c, from, to) ==
    /\ pc[c] = from
    /\ pc' = [pc EXCEPT ![c] = to]

Event(a, action) == [attempt |-> a, action |-> action]

Release(a) == inFlight' = inFlight \ {At[a]}

\* What a call has read is gone when the call has ended.
Forget(C) ==
    /\ seenToken' = [a \in Attempt |-> IF a \in C THEN 0 ELSE seenToken[a]]
    /\ found' = found \ C
    /\ seen' = [c \in Call |-> IF c \in C THEN Nothing ELSE seen[c]]

-----------------------------------------------------------------------------
(* Faulty variants of the definitions below: mistakes the code could have   *)
(* made, kept to check that the properties notice them.                     *)

\* A rotation leaves the domain verified.
StatusAfterRotationKept(s) == s.status

\* An attempt that is turned away runs the `finally` as well.
AdmitReleasing(a) ==
    LET p == At[a] IN
    /\ pc[a] = "attempted"
    /\ \/ /\ recent[p] >= MaxPerWindow
          /\ pc' = [pc EXCEPT ![a] = "rate_limited"]
          /\ Release(a)
          /\ UNCHANGED recent
       \/ /\ recent[p] < MaxPerWindow
          /\ recent' = [recent EXCEPT ![p] = @ + 1]
          /\ IF p \in inFlight
             THEN /\ pc' = [pc EXCEPT ![a] = "in_progress"]
                  /\ Release(a)
             ELSE /\ pc' = [pc EXCEPT ![a] = "checking"]
                  /\ inFlight' = inFlight \cup {p}
    /\ Forget(IF pc'[a] = "checking" THEN {} ELSE {a})
    /\ UNCHANGED <<row, published, audit, history>>

\* The outcome is audited for a success only.
OutcomeUnlessFailed(a) == IF a \in found THEN {Event(a, "succeeded")} ELSE {}

\* The check succeeds on a record of the right form, whatever its token.
TokenFoundAnyRecord(a) == published # {}

-----------------------------------------------------------------------------
(* The verify route *)

\* The domain is looked up, with the hash of its token.
ReadDomain(a) ==
    /\ Goto(a, "new", "read")
    /\ seenToken' = [seenToken EXCEPT ![a] = token]
    /\ UNCHANGED <<row, published, memory, found, seen, audit, history>>

\* The first audit event is a write of its own; the check starts only after
\* it was committed.
RecordAttempted(a) ==
    /\ Goto(a, "read", "attempted")
    /\ audit' = audit \cup {Event(a, "attempted")}
    /\ UNCHANGED <<row, published, memory, seenToken, found, seen, history>>

RecordAttemptedFails(a) ==
    /\ Goto(a, "read", "error")
    /\ Forget({a})
    /\ UNCHANGED <<row, published, memory, audit, history>>

\* The limiter counts an attempt before the guard may turn it away.
Admit(a) ==
    LET p == At[a] IN
    /\ pc[a] = "attempted"
    /\ \/ /\ recent[p] >= MaxPerWindow
          /\ pc' = [pc EXCEPT ![a] = "rate_limited"]
          /\ UNCHANGED memory
       \/ /\ recent[p] < MaxPerWindow
          /\ recent' = [recent EXCEPT ![p] = @ + 1]
          /\ IF p \in inFlight
             THEN /\ pc' = [pc EXCEPT ![a] = "in_progress"]
                  /\ UNCHANGED inFlight
             ELSE /\ pc' = [pc EXCEPT ![a] = "checking"]
                  /\ inFlight' = inFlight \cup {p}
    /\ Forget(IF pc'[a] = "checking" THEN {} ELSE {a})
    /\ UNCHANGED <<row, published, audit, history>>

\* What the network shows is compared with the hash that was read.
TokenFound(a) == seenToken[a] \in published

\* The check ends: it fails by a timeout or an error whatever is published.
Check(a) ==
    /\ Goto(a, "checking", "checked")
    /\ \/ found' = found
       \/ TokenFound(a) /\ found' = found \cup {a}
    /\ UNCHANGED <<row, published, memory, seenToken, seen, audit, history>>

\* markVerificationAttempt reads the row before its transaction.
ReadExisting(a) ==
    /\ Goto(a, "checked", "writing")
    /\ seen' = [seen EXCEPT ![a] = Row]
    /\ UNCHANGED <<row, published, memory, seenToken, found, audit, history>>

StatusAfterFailure(s) == IF s.status = "verified" THEN "verified" ELSE "failed"
FailuresAfter(a) == seen[a].failures + 1
Outcome(a) == {Event(a, IF a \in found THEN "succeeded" ELSE "failed")}

MarkSuccess(a) ==
    /\ a \in found
    /\ Goto(a, "writing", "verified")
    /\ status' = "verified"
    /\ verifiedAt' = TRUE
    /\ failures' = 0
    /\ proven' = proven \cup {seenToken[a]}
    /\ audit' = audit \cup Outcome(a)
    /\ Release(a)
    /\ Forget({a})
    /\ UNCHANGED <<token, published, recent, overtaken>>

MarkFailure(a) ==
    /\ a \notin found
    /\ Goto(a, "writing", "failed")
    /\ status' = StatusAfterFailure(seen[a])
    /\ failures' = FailuresAfter(a)
    /\ audit' = audit \cup Outcome(a)
    /\ Release(a)
    /\ Forget({a})
    /\ UNCHANGED <<verifiedAt, token, published, recent, history>>

\* Reading or writing the row fails and the route answers with an error.
MarkFails(a) ==
    /\ pc[a] \in {"checked", "writing"}
    /\ pc' = [pc EXCEPT ![a] = "error"]
    /\ Release(a)
    /\ Forget({a})
    /\ UNCHANGED <<row, published, recent, audit, history>>

-----------------------------------------------------------------------------
(* The rotate-verification-token route *)

RotateRead(r) ==
    /\ Goto(r, "new", "writing")
    /\ seen' = [seen EXCEPT ![r] = Row]
    /\ UNCHANGED <<row, published, memory, seenToken, found, audit, history>>

StatusAfterRotation(s) == IF s.status = "verified" THEN "pending" ELSE s.status

RotateCommit(r) ==
    /\ Goto(r, "writing", "rotated")
    /\ token' = token + 1
    /\ status' = StatusAfterRotation(seen[r])
    /\ verifiedAt' = (seen[r].status # "verified" /\ seen[r].verifiedAt)
    /\ overtaken' = overtaken \cup Underway
    /\ Forget({r})
    /\ UNCHANGED <<failures, published, memory, audit, proven>>

RotateFails(r) ==
    /\ Goto(r, "writing", "error")
    /\ Forget({r})
    /\ UNCHANGED <<row, published, memory, audit, history>>

-----------------------------------------------------------------------------
(* The surroundings *)

\* An attempt leaves the limiter's window.
WindowSlides(p) ==
    /\ recent[p] > 0
    /\ recent' = [recent EXCEPT ![p] = @ - 1]
    /\ UNCHANGED <<row, published, inFlight, calls, audit, history>>

\* The process is restarted; the attempts it was serving are not answered.
Restart(p) ==
    LET lost == {a \in Underway : At[a] = p} IN
    /\ recent' = [recent EXCEPT ![p] = 0]
    /\ inFlight' = inFlight \ {p}
    /\ pc' = [c \in Call |-> IF c \in lost THEN "dead" ELSE pc[c]]
    /\ Forget(lost)
    /\ UNCHANGED <<row, published, audit, history>>

\* The owner of the domain publishes a token it was told.  (A check may fail
\* although it is there, so that removing it again would add nothing.)
Publish(t) ==
    /\ published' = published \cup {t}
    /\ UNCHANGED <<row, memory, calls, audit, history>>

\* An operator suspends the domain in the database.
Suspend ==
    /\ status' = "suspended"
    /\ UNCHANGED <<verifiedAt, failures, token>>
    /\ UNCHANGED <<published, memory, calls, audit, history>>

-----------------------------------------------------------------------------

Verify(a) ==
    \/ ReadDomain(a)
    \/ RecordAttempted(a)
    \/ RecordAttemptedFails(a)
    \/ Admit(a)
    \/ Check(a)
    \/ ReadExisting(a)
    \/ MarkSuccess(a)
    \/ MarkFailure(a)
    \/ MarkFails(a)

Next ==
    \/ \E a \in Attempt : Verify(a)
    \/ \E r \in Rotation : RotateRead(r) \/ RotateCommit(r) \/ RotateFails(r)
    \/ \E p \in Process : WindowSlides(p) \/ Restart(p)
    \/ \E t \in 0 .. token : Publish(t)
    \/ Suspend

Spec == Init /\ [][Next]_vars

-----------------------------------------------------------------------------
(* Properties *)

Status == {"pending", "verified", "failed", "suspended"}
CallState == {"new", "read", "attempted", "checking", "checked", "writing",
              "rate_limited", "in_progress", "verified", "failed", "rotated",
              "error", "dead"}

\* The shape of the row, the memory of the processes and the calls.
TypeOK ==
    /\ status \in Status
    /\ verifiedAt \in BOOLEAN
    /\ failures \in Nat
    /\ token \in Nat
    /\ published \subseteq Nat
    /\ recent \in [Process -> 0 .. MaxPerWindow]
    /\ inFlight \subseteq Process
    /\ pc \in [Call -> CallState]
    /\ seenToken \in [Attempt -> Nat]
    /\ found \subseteq Attempt
    /\ seen \in [Call -> [status : Status, verifiedAt : BOOLEAN, failures : Nat]]
    /\ audit \subseteq [attempt : Attempt,
                        action : {"attempted", "succeeded", "failed"}]
    /\ proven \subseteq Nat
    /\ overtaken \subseteq Attempt

\* A domain is verified only after a recorded attempt had found a token that
\* was issued for it and that its owner had published.
VerifiedMeansProven ==
    status = "verified" => proven \cap published \cap 0 .. token # {}

\* A process checks a domain in one place at a time, and its guard is held
\* exactly while it does: no outcome, refusal, error or restart leaves the
\* domain locked or lets a second check in.
InFlightAccounted ==
    \A p \in Process : Cardinality(Holders(p)) = IF p \in inFlight THEN 1 ELSE 0

\* A rotated token stops proving anything: a domain that is verified while
\* its present token was never proven owes it to an attempt that a rotation
\* overtook, and to nothing else.  (The documentation knows no exception.)
OnlyOvertakenOutliveRotation ==
    status = "verified" /\ token \notin proven =>
        \E a \in overtaken : pc[a] \in {"verified", "failed"}

\* The audit trail has an outcome for exactly the attempts that were recorded
\* in the row, and the announcement of every attempt that touched the
\* network, in which a crash or an error may have left it without outcome.
OutcomesAudited ==
    /\ \A a \in Attempt :
          /\ pc[a] = "verified" <=> Event(a, "succeeded") \in audit
          /\ pc[a] = "failed" <=> Event(a, "failed") \in audit
          /\ pc[a] \in Checking \cup {"verified", "failed"}
                => Event(a, "attempted") \in audit

\* An attempt that failed never makes a pending domain verified.  (The
\* documentation: a failed attempt makes a domain failed or leaves it verified,
\* and a rotation returns a verified domain to pending.)
FailureNeverVerifies ==
    [][status = "pending" /\ status' = "verified"
          => \E a \in Attempt : pc[a] # "verified" /\ pc'[a] = "verified"]_vars
=============================================================================
