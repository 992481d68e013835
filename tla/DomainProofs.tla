---------------------------- MODULE DomainProofs ----------------------------
(***************************************************************************)
(* Proofs about a domain: DomainVerification, for any number of attempts,  *)
(* rotations and processes and any limit, and Sitemaps, for any site,      *)
(* calls and limits.                                                       *)
(*                                                                         *)
(* DomainVerification.  What was proven, published or issued stays so,     *)
(* which makes the row that a call read before its transaction as good a   *)
(* reason as the present one.  An attempt that no rotation has overtaken   *)
(* looks for the present token, and what it read of the row still holds;   *)
(* for the others the property makes its exception when they end.          *)
(*                                                                         *)
(* Sitemaps.  A walk has its own document first on its list and nested     *)
(* ones after it, so that all nodes but one are counted as nested; what it *)
(* has found and what it may still find fit together in what was left of   *)
(* the limit when it counted.  The recursion over lists of entries is kept *)
(* out of the proof by Kept, which says by position what SelectSeq builds. *)
(***************************************************************************)
EXTENDS DomainVerification, Sitemaps, FiniteSetTheorems, TLAPS

\* A process has at most one attempt between its guard and the release of it,
\* and has one exactly while the guard is held.
GuardExact ==
    /\ \A a, b \in Attempt :
          pc[a] \in Checking /\ pc[b] \in Checking /\ At[a] = At[b] => a = b
    /\ \A p \in Process : p \in inFlight <=> Holders(p) # {}

\* An attempt is announced before it goes on.
Announced ==
    \A a \in Attempt : pc[a] = "attempted" => Event(a, "attempted") \in audit

\* The tokens in use have been issued, and one that was found is published.
TokensIssued ==
    /\ \A a \in Attempt : seenToken[a] =< token
    /\ \A a \in found : pc[a] \in {"checked", "writing"} /\ seenToken[a] \in published

Proven == proven \cap published \cap 0 .. token # {}

\* A call that read a verified domain has the proof of it.
SeenMeansProven ==
    \A c \in Call : pc[c] = "writing" /\ seen[c].status = "verified" => Proven

\* Why a domain may be verified.
Excused ==
    token \in proven \/ \E a \in overtaken : pc[a] \in {"verified", "failed"}

\* What an attempt has read still holds, unless a rotation has overtaken it.
ReadsStillHold ==
    \A a \in Attempt \ overtaken :
        /\ a \in Underway => seenToken[a] = token
        /\ pc[a] = "writing" /\ seen[a].status = "verified" => Excused

IInv ==
    /\ TypeOK
    /\ GuardExact
    /\ Announced
    /\ OutcomesAudited
    /\ TokensIssued
    /\ SeenMeansProven
    /\ VerifiedMeansProven
    /\ ReadsStillHold
    /\ OnlyOvertakenOutliveRotation

\* Every step keeps the shape.
LEMMA TypeStep == IInv /\ [Next]_vars => TypeOK'
<1> SUFFICES ASSUME IInv, [Next]_vars
             PROVE  TypeOK'
  OBVIOUS
<1>1. ASSUME NEW a \in Attempt, ReadDomain(a)
      PROVE  TypeOK'
  BY <1>1, VerificationAssumption
     DEF ReadDomain, Goto, row, memory, history, IInv, TypeOK, Call, CallState,
         Status, Nothing, Event, Underway
<1>2. ASSUME NEW a \in Attempt, RecordAttempted(a)
      PROVE  TypeOK'
  BY <1>2, VerificationAssumption
     DEF RecordAttempted, Goto, row, memory, history, IInv, TypeOK, Call,
         CallState, Status, Nothing, Event, Underway
<1>3. ASSUME NEW a \in Attempt, RecordAttemptedFails(a)
      PROVE  TypeOK'
  BY <1>3, VerificationAssumption
     DEF RecordAttemptedFails, Goto, Forget, row, memory, history, IInv, TypeOK,
         Call, CallState, Status, Nothing, Event, Underway
<1>4. ASSUME NEW a \in Attempt, Admit(a)
      PROVE  TypeOK'
  BY <1>4, VerificationAssumption
     DEF Admit, Forget, row, memory, history, IInv, TypeOK, Call, CallState,
         Status, Nothing, Event, Underway
<1>5. ASSUME NEW a \in Attempt, Check(a)
      PROVE  TypeOK'
  BY <1>5, VerificationAssumption
     DEF Check, TokenFound, Goto, row, memory, history, IInv, TypeOK, Call,
         CallState, Status, Nothing, Event, Underway
<1>6. ASSUME NEW a \in Attempt, ReadExisting(a)
      PROVE  TypeOK'
  BY <1>6, VerificationAssumption
     DEF ReadExisting, Row, Goto, row, memory, history, IInv, TypeOK, Call,
         CallState, Status, Nothing, Event, Underway
<1>7. ASSUME NEW a \in Attempt, MarkSuccess(a)
      PROVE  TypeOK'
  <2>1. a \in Call /\ seenToken[a] \in Nat /\ Nothing \in [status : Status, verifiedAt : BOOLEAN, failures : Nat]
    BY DEF IInv, TypeOK, Call, Nothing, Status
  <2>2. pc' \in [Call -> CallState]
    BY <1>7, <2>1 DEF MarkSuccess, Goto, IInv, TypeOK, CallState
  <2>3. audit' \subseteq [attempt : Attempt, action : {"attempted", "succeeded", "failed"}]
    BY <1>7 DEF MarkSuccess, Outcome, Event, IInv, TypeOK
  <2>4. /\ seenToken' \in [Attempt -> Nat] /\ found' \subseteq Attempt
        /\ seen' \in [Call -> [status : Status, verifiedAt : BOOLEAN, failures : Nat]]
    BY <1>7, <2>1 DEF MarkSuccess, Forget, IInv, TypeOK
  <2> QED
    BY <1>7, <2>1, <2>2, <2>3, <2>4 DEF MarkSuccess, Release, IInv, TypeOK, Status
<1>8. ASSUME NEW a \in Attempt, MarkFailure(a)
      PROVE  TypeOK'
  BY <1>8, VerificationAssumption
     DEF MarkFailure, StatusAfterFailure, FailuresAfter, Outcome, Release, Goto,
         Forget, history, IInv, TypeOK, Call, CallState, Status, Nothing, Event,
         Underway
<1>9. ASSUME NEW a \in Attempt, MarkFails(a)
      PROVE  TypeOK'
  BY <1>9, VerificationAssumption
     DEF MarkFails, Release, Forget, row, history, IInv, TypeOK, Call, CallState,
         Status, Nothing, Event, Underway
<1>10. ASSUME NEW r \in Rotation, RotateRead(r)
      PROVE  TypeOK'
  BY <1>10, VerificationAssumption
     DEF RotateRead, Row, Goto, row, memory, history, IInv, TypeOK, Call,
         CallState, Status, Nothing, Event, Underway
<1>11. ASSUME NEW r \in Rotation, RotateCommit(r)
      PROVE  TypeOK'
  BY <1>11, VerificationAssumption
     DEF RotateCommit, StatusAfterRotation, Goto, Forget, memory, IInv, TypeOK,
         Call, CallState, Status, Nothing, Event, Underway
<1>12. ASSUME NEW r \in Rotation, RotateFails(r)
      PROVE  TypeOK'
  BY <1>12, VerificationAssumption
     DEF RotateFails, Goto, Forget, row, memory, history, IInv, TypeOK, Call,
         CallState, Status, Nothing, Event, Underway
<1>13. ASSUME NEW p \in Process, WindowSlides(p)
      PROVE  TypeOK'
  BY <1>13, VerificationAssumption
     DEF WindowSlides, row, calls, history, IInv, TypeOK, Call, CallState, Status,
         Nothing, Event, Underway
<1>14. ASSUME NEW p \in Process, Restart(p)
      PROVE  TypeOK'
  BY <1>14, VerificationAssumption
     DEF Restart, Forget, row, history, IInv, TypeOK, Call, CallState, Status,
         Nothing, Event, Underway
<1>15. ASSUME NEW t \in 0 .. token, Publish(t)
      PROVE  TypeOK'
  BY <1>15, VerificationAssumption
     DEF Publish, row, memory, calls, history, IInv, TypeOK, Call, CallState,
         Status, Nothing, Event, Underway
<1>16. CASE Suspend
  BY <1>16, VerificationAssumption
     DEF Suspend, memory, calls, history, IInv, TypeOK, Call, CallState, Status,
         Nothing, Event, Underway
<1>17. CASE UNCHANGED vars
  BY <1>17
     DEF vars, row, memory, calls, history, IInv, TypeOK, Call, CallState, Status,
         Nothing, Event, Underway
<1> QED
  BY <1>1, <1>2, <1>3, <1>4, <1>5, <1>6, <1>7, <1>8, <1>9, <1>10, <1>11, <1>12,
     <1>13, <1>14, <1>15, <1>16, <1>17
     DEF Next, Verify

\* The guard is taken on the way into the check and released on every way out.
LEMMA GuardStep == IInv /\ [Next]_vars => GuardExact'
<1> SUFFICES ASSUME IInv, [Next]_vars
             PROVE  GuardExact'
  OBVIOUS
<1>1. ASSUME NEW a \in Attempt, ReadDomain(a)
      PROVE  GuardExact'
  BY <1>1, VerificationAssumption
     DEF ReadDomain, Goto, row, memory, history, IInv, TypeOK, GuardExact,
         Holders, Underway, Call, Checking
<1>2. ASSUME NEW a \in Attempt, RecordAttempted(a)
      PROVE  GuardExact'
  BY <1>2, VerificationAssumption
     DEF RecordAttempted, Goto, row, memory, history, IInv, TypeOK, GuardExact,
         Holders, Underway, Call, Checking
<1>3. ASSUME NEW a \in Attempt, RecordAttemptedFails(a)
      PROVE  GuardExact'
  BY <1>3, VerificationAssumption
     DEF RecordAttemptedFails, Goto, Forget, row, memory, history, IInv, TypeOK,
         GuardExact, Holders, Underway, Call, Checking
<1>4. ASSUME NEW a \in Attempt, Admit(a)
      PROVE  GuardExact'
  BY <1>4, VerificationAssumption
     DEF Admit, Forget, row, memory, history, IInv, TypeOK, GuardExact, Holders,
         Underway, Call, Checking
<1>5. ASSUME NEW a \in Attempt, Check(a)
      PROVE  GuardExact'
  BY <1>5, VerificationAssumption
     DEF Check, TokenFound, Goto, row, memory, history, IInv, TypeOK, GuardExact,
         Holders, Underway, Call, Checking
<1>6. ASSUME NEW a \in Attempt, ReadExisting(a)
      PROVE  GuardExact'
  BY <1>6, VerificationAssumption
     DEF ReadExisting, Row, Goto, row, memory, history, IInv, TypeOK, GuardExact,
         Holders, Underway, Call, Checking
<1>7. ASSUME NEW a \in Attempt, MarkSuccess(a)
      PROVE  GuardExact'
  BY <1>7, VerificationAssumption
     DEF MarkSuccess, Outcome, Release, Goto, Forget, IInv, TypeOK, GuardExact,
         Holders, Underway, Call, Checking
<1>8. ASSUME NEW a \in Attempt, MarkFailure(a)
      PROVE  GuardExact'
  BY <1>8, VerificationAssumption
     DEF MarkFailure, StatusAfterFailure, FailuresAfter, Outcome, Release, Goto,
         Forget, history, IInv, TypeOK, GuardExact, Holders, Underway, Call,
         Checking
<1>9. ASSUME NEW a \in Attempt, MarkFails(a)
      PROVE  GuardExact'
  BY <1>9, VerificationAssumption
     DEF MarkFails, Release, Forget, row, history, IInv, TypeOK, GuardExact,
         Holders, Underway, Call, Checking
<1>10. ASSUME NEW r \in Rotation, RotateRead(r)
      PROVE  GuardExact'
  BY <1>10, VerificationAssumption
     DEF RotateRead, Row, Goto, row, memory, history, IInv, TypeOK, GuardExact,
         Holders, Underway, Call, Checking
<1>11. ASSUME NEW r \in Rotation, RotateCommit(r)
      PROVE  GuardExact'
  BY <1>11, VerificationAssumption
     DEF RotateCommit, StatusAfterRotation, Goto, Forget, memory, IInv, TypeOK,
         GuardExact, Holders, Underway, Call, Checking
<1>12. ASSUME NEW r \in Rotation, RotateFails(r)
      PROVE  GuardExact'
  BY <1>12, VerificationAssumption
     DEF RotateFails, Goto, Forget, row, memory, history, IInv, TypeOK,
         GuardExact, Holders, Underway, Call, Checking
<1>13. ASSUME NEW p \in Process, WindowSlides(p)
      PROVE  GuardExact'
  BY <1>13, VerificationAssumption
     DEF WindowSlides, row, calls, history, IInv, TypeOK, GuardExact, Holders,
         Underway, Call, Checking
<1>14. ASSUME NEW p \in Process, Restart(p)
      PROVE  GuardExact'
  <2>1. ASSUME NEW a \in Attempt
        PROVE  pc'[a] \in Checking <=> pc[a] \in Checking /\ At[a] # p
    BY <1>14 DEF Restart, Underway, Checking, Call, IInv, TypeOK
  <2>2. \A q \in Process : Holders(q)' = IF q = p THEN {} ELSE Holders(q)
    BY <2>1 DEF Holders
  <2> QED
    BY <1>14, <2>1, <2>2 DEF Restart, IInv, GuardExact
<1>15. ASSUME NEW t \in 0 .. token, Publish(t)
      PROVE  GuardExact'
  BY <1>15, VerificationAssumption
     DEF Publish, row, memory, calls, history, IInv, TypeOK, GuardExact, Holders,
         Underway, Call, Checking
<1>16. CASE Suspend
  BY <1>16, VerificationAssumption
     DEF Suspend, memory, calls, history, IInv, TypeOK, GuardExact, Holders,
         Underway, Call, Checking
<1>17. CASE UNCHANGED vars
  BY <1>17
     DEF vars, row, memory, calls, history, IInv, TypeOK, GuardExact, Holders,
         Underway, Call, Checking
<1> QED
  BY <1>1, <1>2, <1>3, <1>4, <1>5, <1>6, <1>7, <1>8, <1>9, <1>10, <1>11, <1>12,
     <1>13, <1>14, <1>15, <1>16, <1>17
     DEF Next, Verify

\* An outcome is audited in the step that ends the attempt with it.
LEMMA AuditStep == IInv /\ [Next]_vars => (Announced /\ OutcomesAudited)'
<1> SUFFICES ASSUME IInv, [Next]_vars
             PROVE  (Announced /\ OutcomesAudited)'
  OBVIOUS
<1>1. ASSUME NEW a \in Attempt, ReadDomain(a)
      PROVE  (Announced /\ OutcomesAudited)'
  BY <1>1, VerificationAssumption
     DEF ReadDomain, Goto, row, memory, history, IInv, TypeOK, Announced,
         OutcomesAudited, Event, Underway, Call, Checking
<1>2. ASSUME NEW a \in Attempt, RecordAttempted(a)
      PROVE  (Announced /\ OutcomesAudited)'
  BY <1>2, VerificationAssumption
     DEF RecordAttempted, Goto, row, memory, history, IInv, TypeOK, Announced,
         OutcomesAudited, Event, Underway, Call, Checking
<1>3. ASSUME NEW a \in Attempt, RecordAttemptedFails(a)
      PROVE  (Announced /\ OutcomesAudited)'
  BY <1>3, VerificationAssumption
     DEF RecordAttemptedFails, Goto, Forget, row, memory, history, IInv, TypeOK,
         Announced, OutcomesAudited, Event, Underway, Call, Checking
<1>4. ASSUME NEW a \in Attempt, Admit(a)
      PROVE  (Announced /\ OutcomesAudited)'
  BY <1>4, VerificationAssumption
     DEF Admit, Forget, row, memory, history, IInv, TypeOK, Announced,
         OutcomesAudited, Event, Underway, Call, Checking
<1>5. ASSUME NEW a \in Attempt, Check(a)
      PROVE  (Announced /\ OutcomesAudited)'
  BY <1>5, VerificationAssumption
     DEF Check, TokenFound, Goto, row, memory, history, IInv, TypeOK, Announced,
         OutcomesAudited, Event, Underway, Call, Checking
<1>6. ASSUME NEW a \in Attempt, ReadExisting(a)
      PROVE  (Announced /\ OutcomesAudited)'
  BY <1>6, VerificationAssumption
     DEF ReadExisting, Row, Goto, row, memory, history, IInv, TypeOK, Announced,
         OutcomesAudited, Event, Underway, Call, Checking
<1>7. ASSUME NEW a \in Attempt, MarkSuccess(a)
      PROVE  (Announced /\ OutcomesAudited)'
  BY <1>7, VerificationAssumption
     DEF MarkSuccess, Outcome, Release, Goto, Forget, IInv, TypeOK, Announced,
         OutcomesAudited, Event, Underway, Call, Checking
<1>8. ASSUME NEW a \in Attempt, MarkFailure(a)
      PROVE  (Announced /\ OutcomesAudited)'
  BY <1>8, VerificationAssumption
     DEF MarkFailure, StatusAfterFailure, FailuresAfter, Outcome, Release, Goto,
         Forget, history, IInv, TypeOK, Announced, OutcomesAudited, Event,
         Underway, Call, Checking
<1>9. ASSUME NEW a \in Attempt, MarkFails(a)
      PROVE  (Announced /\ OutcomesAudited)'
  BY <1>9, VerificationAssumption
     DEF MarkFails, Release, Forget, row, history, IInv, TypeOK, Announced,
         OutcomesAudited, Event, Underway, Call, Checking
<1>10. ASSUME NEW r \in Rotation, RotateRead(r)
      PROVE  (Announced /\ OutcomesAudited)'
  BY <1>10, VerificationAssumption
     DEF RotateRead, Row, Goto, row, memory, history, IInv, TypeOK, Announced,
         OutcomesAudited, Event, Underway, Call, Checking
<1>11. ASSUME NEW r \in Rotation, RotateCommit(r)
      PROVE  (Announced /\ OutcomesAudited)'
  BY <1>11, VerificationAssumption
     DEF RotateCommit, StatusAfterRotation, Goto, Forget, memory, IInv, TypeOK,
         Announced, OutcomesAudited, Event, Underway, Call, Checking
<1>12. ASSUME NEW r \in Rotation, RotateFails(r)
      PROVE  (Announced /\ OutcomesAudited)'
  BY <1>12, VerificationAssumption
     DEF RotateFails, Goto, Forget, row, memory, history, IInv, TypeOK, Announced,
         OutcomesAudited, Event, Underway, Call, Checking
<1>13. ASSUME NEW p \in Process, WindowSlides(p)
      PROVE  (Announced /\ OutcomesAudited)'
  BY <1>13, VerificationAssumption
     DEF WindowSlides, row, calls, history, IInv, TypeOK, Announced,
         OutcomesAudited, Event, Underway, Call, Checking
<1>14. ASSUME NEW p \in Process, Restart(p)
      PROVE  (Announced /\ OutcomesAudited)'
  BY <1>14, VerificationAssumption
     DEF Restart, Forget, row, history, IInv, TypeOK, Announced, OutcomesAudited,
         Event, Underway, Call, Checking
<1>15. ASSUME NEW t \in 0 .. token, Publish(t)
      PROVE  (Announced /\ OutcomesAudited)'
  BY <1>15, VerificationAssumption
     DEF Publish, row, memory, calls, history, IInv, TypeOK, Announced,
         OutcomesAudited, Event, Underway, Call, Checking
<1>16. CASE Suspend
  BY <1>16, VerificationAssumption
     DEF Suspend, memory, calls, history, IInv, TypeOK, Announced,
         OutcomesAudited, Event, Underway, Call, Checking
<1>17. CASE UNCHANGED vars
  BY <1>17
     DEF vars, row, memory, calls, history, IInv, TypeOK, Announced,
         OutcomesAudited, Event, Underway, Call, Checking
<1> QED
  BY <1>1, <1>2, <1>3, <1>4, <1>5, <1>6, <1>7, <1>8, <1>9, <1>10, <1>11, <1>12,
     <1>13, <1>14, <1>15, <1>16, <1>17
     DEF Next, Verify

\* Tokens are issued in order, and what is published stays published.
LEMMA TokensStep == IInv /\ [Next]_vars => TokensIssued'
<1> SUFFICES ASSUME IInv, [Next]_vars
             PROVE  TokensIssued'
  OBVIOUS
<1>1. ASSUME NEW a \in Attempt, ReadDomain(a)
      PROVE  TokensIssued'
  BY <1>1, VerificationAssumption
     DEF ReadDomain, Goto, row, memory, history, IInv, TypeOK, TokensIssued, Call,
         Nothing, Underway
<1>2. ASSUME NEW a \in Attempt, RecordAttempted(a)
      PROVE  TokensIssued'
  BY <1>2, VerificationAssumption
     DEF RecordAttempted, Goto, row, memory, history, IInv, TypeOK, TokensIssued,
         Call, Nothing, Underway
<1>3. ASSUME NEW a \in Attempt, RecordAttemptedFails(a)
      PROVE  TokensIssued'
  BY <1>3, VerificationAssumption
     DEF RecordAttemptedFails, Goto, Forget, row, memory, history, IInv, TypeOK,
         TokensIssued, Call, Nothing, Underway
<1>4. ASSUME NEW a \in Attempt, Admit(a)
      PROVE  TokensIssued'
  BY <1>4, VerificationAssumption
     DEF Admit, Forget, row, memory, history, IInv, TypeOK, TokensIssued, Call,
         Nothing, Underway
<1>5. ASSUME NEW a \in Attempt, Check(a)
      PROVE  TokensIssued'
  BY <1>5, VerificationAssumption
     DEF Check, TokenFound, Goto, row, memory, history, IInv, TypeOK,
         TokensIssued, Call, Nothing, Underway
<1>6. ASSUME NEW a \in Attempt, ReadExisting(a)
      PROVE  TokensIssued'
  BY <1>6, VerificationAssumption
     DEF ReadExisting, Row, Goto, row, memory, history, IInv, TypeOK,
         TokensIssued, Call, Nothing, Underway
<1>7. ASSUME NEW a \in Attempt, MarkSuccess(a)
      PROVE  TokensIssued'
  BY <1>7, VerificationAssumption
     DEF MarkSuccess, Outcome, Release, Goto, Forget, IInv, TypeOK, TokensIssued,
         Call, Nothing, Underway
<1>8. ASSUME NEW a \in Attempt, MarkFailure(a)
      PROVE  TokensIssued'
  BY <1>8, VerificationAssumption
     DEF MarkFailure, StatusAfterFailure, FailuresAfter, Outcome, Release, Goto,
         Forget, history, IInv, TypeOK, TokensIssued, Call, Nothing, Underway
<1>9. ASSUME NEW a \in Attempt, MarkFails(a)
      PROVE  TokensIssued'
  BY <1>9, VerificationAssumption
     DEF MarkFails, Release, Forget, row, history, IInv, TypeOK, TokensIssued,
         Call, Nothing, Underway
<1>10. ASSUME NEW r \in Rotation, RotateRead(r)
      PROVE  TokensIssued'
  BY <1>10, VerificationAssumption
     DEF RotateRead, Row, Goto, row, memory, history, IInv, TypeOK, TokensIssued,
         Call, Nothing, Underway
<1>11. ASSUME NEW r \in Rotation, RotateCommit(r)
      PROVE  TokensIssued'
  BY <1>11, VerificationAssumption
     DEF RotateCommit, StatusAfterRotation, Goto, Forget, memory, IInv, TypeOK,
         TokensIssued, Call, Nothing, Underway
<1>12. ASSUME NEW r \in Rotation, RotateFails(r)
      PROVE  TokensIssued'
  BY <1>12, VerificationAssumption
     DEF RotateFails, Goto, Forget, row, memory, history, IInv, TypeOK,
         TokensIssued, Call, Nothing, Underway
<1>13. ASSUME NEW p \in Process, WindowSlides(p)
      PROVE  TokensIssued'
  BY <1>13, VerificationAssumption
     DEF WindowSlides, row, calls, history, IInv, TypeOK, TokensIssued, Call,
         Nothing, Underway
<1>14. ASSUME NEW p \in Process, Restart(p)
      PROVE  TokensIssued'
  BY <1>14, VerificationAssumption
     DEF Restart, Forget, row, history, IInv, TypeOK, TokensIssued, Call, Nothing,
         Underway
<1>15. ASSUME NEW t \in 0 .. token, Publish(t)
      PROVE  TokensIssued'
  BY <1>15, VerificationAssumption
     DEF Publish, row, memory, calls, history, IInv, TypeOK, TokensIssued, Call,
         Nothing, Underway
<1>16. CASE Suspend
  BY <1>16, VerificationAssumption
     DEF Suspend, memory, calls, history, IInv, TypeOK, TokensIssued, Call,
         Nothing, Underway
<1>17. CASE UNCHANGED vars
  BY <1>17
     DEF vars, row, memory, calls, history, IInv, TypeOK, TokensIssued, Call,
         Nothing, Underway
<1> QED
  BY <1>1, <1>2, <1>3, <1>4, <1>5, <1>6, <1>7, <1>8, <1>9, <1>10, <1>11, <1>12,
     <1>13, <1>14, <1>15, <1>16, <1>17
     DEF Next, Verify

\* A proof outlives whatever happens to the row.
LEMMA ProvenStep == IInv /\ [Next]_vars => (SeenMeansProven /\ VerifiedMeansProven)'
<1> SUFFICES ASSUME IInv, [Next]_vars
             PROVE  (SeenMeansProven /\ VerifiedMeansProven)'
  OBVIOUS
<1>1. ASSUME NEW a \in Attempt, ReadDomain(a)
      PROVE  (SeenMeansProven /\ VerifiedMeansProven)'
  BY <1>1, VerificationAssumption
     DEF ReadDomain, Goto, row, memory, history, IInv, TypeOK, SeenMeansProven,
         VerifiedMeansProven, TokensIssued, Proven, Call, Nothing
<1>2. ASSUME NEW a \in Attempt, RecordAttempted(a)
      PROVE  (SeenMeansProven /\ VerifiedMeansProven)'
  BY <1>2, VerificationAssumption
     DEF RecordAttempted, Goto, row, memory, history, IInv, TypeOK,
         SeenMeansProven, VerifiedMeansProven, TokensIssued, Proven, Call, Nothing
<1>3. ASSUME NEW a \in Attempt, RecordAttemptedFails(a)
      PROVE  (SeenMeansProven /\ VerifiedMeansProven)'
  BY <1>3, VerificationAssumption
     DEF RecordAttemptedFails, Goto, Forget, row, memory, history, IInv, TypeOK,
         SeenMeansProven, VerifiedMeansProven, TokensIssued, Proven, Call, Nothing
<1>4. ASSUME NEW a \in Attempt, Admit(a)
      PROVE  (SeenMeansProven /\ VerifiedMeansProven)'
  BY <1>4, VerificationAssumption
     DEF Admit, Forget, row, memory, history, IInv, TypeOK, SeenMeansProven,
         VerifiedMeansProven, TokensIssued, Proven, Call, Nothing
<1>5. ASSUME NEW a \in Attempt, Check(a)
      PROVE  (SeenMeansProven /\ VerifiedMeansProven)'
  BY <1>5, VerificationAssumption
     DEF Check, TokenFound, Goto, row, memory, history, IInv, TypeOK,
         SeenMeansProven, VerifiedMeansProven, TokensIssued, Proven, Call, Nothing
<1>6. ASSUME NEW a \in Attempt, ReadExisting(a)
      PROVE  (SeenMeansProven /\ VerifiedMeansProven)'
  BY <1>6, VerificationAssumption
     DEF ReadExisting, Row, Goto, row, memory, history, IInv, TypeOK,
         SeenMeansProven, VerifiedMeansProven, TokensIssued, Proven, Call, Nothing
<1>7. ASSUME NEW a \in Attempt, MarkSuccess(a)
      PROVE  (SeenMeansProven /\ VerifiedMeansProven)'
  BY <1>7, VerificationAssumption
     DEF MarkSuccess, Outcome, Release, Goto, Forget, IInv, TypeOK,
         SeenMeansProven, VerifiedMeansProven, TokensIssued, Proven, Call, Nothing
<1>8. ASSUME NEW a \in Attempt, MarkFailure(a)
      PROVE  (SeenMeansProven /\ VerifiedMeansProven)'
  BY <1>8, VerificationAssumption
     DEF MarkFailure, StatusAfterFailure, FailuresAfter, Outcome, Release, Goto,
         Forget, history, IInv, TypeOK, SeenMeansProven, VerifiedMeansProven,
         TokensIssued, Proven, Call, Nothing
<1>9. ASSUME NEW a \in Attempt, MarkFails(a)
      PROVE  (SeenMeansProven /\ VerifiedMeansProven)'
  BY <1>9, VerificationAssumption
     DEF MarkFails, Release, Forget, row, history, IInv, TypeOK, SeenMeansProven,
         VerifiedMeansProven, TokensIssued, Proven, Call, Nothing
<1>10. ASSUME NEW r \in Rotation, RotateRead(r)
      PROVE  (SeenMeansProven /\ VerifiedMeansProven)'
  BY <1>10, VerificationAssumption
     DEF RotateRead, Row, Goto, row, memory, history, IInv, TypeOK,
         SeenMeansProven, VerifiedMeansProven, TokensIssued, Proven, Call, Nothing
<1>11. ASSUME NEW r \in Rotation, RotateCommit(r)
      PROVE  (SeenMeansProven /\ VerifiedMeansProven)'
  BY <1>11, VerificationAssumption
     DEF RotateCommit, StatusAfterRotation, Goto, Forget, memory, IInv, TypeOK,
         SeenMeansProven, VerifiedMeansProven, TokensIssued, Proven, Call, Nothing
<1>12. ASSUME NEW r \in Rotation, RotateFails(r)
      PROVE  (SeenMeansProven /\ VerifiedMeansProven)'
  BY <1>12, VerificationAssumption
     DEF RotateFails, Goto, Forget, row, memory, history, IInv, TypeOK,
         SeenMeansProven, VerifiedMeansProven, TokensIssued, Proven, Call, Nothing
<1>13. ASSUME NEW p \in Process, WindowSlides(p)
      PROVE  (SeenMeansProven /\ VerifiedMeansProven)'
  BY <1>13, VerificationAssumption
     DEF WindowSlides, row, calls, history, IInv, TypeOK, SeenMeansProven,
         VerifiedMeansProven, TokensIssued, Proven, Call, Nothing
<1>14. ASSUME NEW p \in Process, Restart(p)
      PROVE  (SeenMeansProven /\ VerifiedMeansProven)'
  BY <1>14, VerificationAssumption
     DEF Restart, Forget, row, history, IInv, TypeOK, SeenMeansProven,
         VerifiedMeansProven, TokensIssued, Proven, Call, Nothing
<1>15. ASSUME NEW t \in 0 .. token, Publish(t)
      PROVE  (SeenMeansProven /\ VerifiedMeansProven)'
  BY <1>15, VerificationAssumption
     DEF Publish, row, memory, calls, history, IInv, TypeOK, SeenMeansProven,
         VerifiedMeansProven, TokensIssued, Proven, Call, Nothing
<1>16. CASE Suspend
  BY <1>16, VerificationAssumption
     DEF Suspend, memory, calls, history, IInv, TypeOK, SeenMeansProven,
         VerifiedMeansProven, TokensIssued, Proven, Call, Nothing
<1>17. CASE UNCHANGED vars
  BY <1>17
     DEF vars, row, memory, calls, history, IInv, TypeOK, SeenMeansProven,
         VerifiedMeansProven, TokensIssued, Proven, Call, Nothing
<1> QED
  BY <1>1, <1>2, <1>3, <1>4, <1>5, <1>6, <1>7, <1>8, <1>9, <1>10, <1>11, <1>12,
     <1>13, <1>14, <1>15, <1>16, <1>17
     DEF Next, Verify

\* A rotation makes exceptions of the attempts that are underway.
LEMMA ReadsStep == IInv /\ [Next]_vars => (ReadsStillHold /\ OnlyOvertakenOutliveRotation)'
<1> SUFFICES ASSUME IInv, [Next]_vars
             PROVE  (ReadsStillHold /\ OnlyOvertakenOutliveRotation)'
  OBVIOUS
<1>1. ASSUME NEW a \in Attempt, ReadDomain(a)
      PROVE  (ReadsStillHold /\ OnlyOvertakenOutliveRotation)'
  BY <1>1, VerificationAssumption
     DEF ReadDomain, Goto, row, memory, history, IInv, TypeOK, ReadsStillHold,
         OnlyOvertakenOutliveRotation, Excused, Call, Underway, Checking, Nothing
<1>2. ASSUME NEW a \in Attempt, RecordAttempted(a)
      PROVE  (ReadsStillHold /\ OnlyOvertakenOutliveRotation)'
  BY <1>2, VerificationAssumption
     DEF RecordAttempted, Goto, row, memory, history, IInv, TypeOK,
         ReadsStillHold, OnlyOvertakenOutliveRotation, Excused, Call, Underway,
         Checking, Nothing
<1>3. ASSUME NEW a \in Attempt, RecordAttemptedFails(a)
      PROVE  (ReadsStillHold /\ OnlyOvertakenOutliveRotation)'
  BY <1>3, VerificationAssumption
     DEF RecordAttemptedFails, Goto, Forget, row, memory, history, IInv, TypeOK,
         ReadsStillHold, OnlyOvertakenOutliveRotation, Excused, Call, Underway,
         Checking, Nothing
<1>4. ASSUME NEW a \in Attempt, Admit(a)
      PROVE  (ReadsStillHold /\ OnlyOvertakenOutliveRotation)'
  BY <1>4, VerificationAssumption
     DEF Admit, Forget, row, memory, history, IInv, TypeOK, ReadsStillHold,
         OnlyOvertakenOutliveRotation, Excused, Call, Underway, Checking, Nothing
<1>5. ASSUME NEW a \in Attempt, Check(a)
      PROVE  (ReadsStillHold /\ OnlyOvertakenOutliveRotation)'
  BY <1>5, VerificationAssumption
     DEF Check, TokenFound, Goto, row, memory, history, IInv, TypeOK,
         ReadsStillHold, OnlyOvertakenOutliveRotation, Excused, Call, Underway,
         Checking, Nothing
<1>6. ASSUME NEW a \in Attempt, ReadExisting(a)
      PROVE  (ReadsStillHold /\ OnlyOvertakenOutliveRotation)'
  BY <1>6, VerificationAssumption
     DEF ReadExisting, Row, Goto, row, memory, history, IInv, TypeOK,
         ReadsStillHold, OnlyOvertakenOutliveRotation, Excused, Call, Underway,
         Checking, Nothing
<1>7. ASSUME NEW a \in Attempt, MarkSuccess(a)
      PROVE  (ReadsStillHold /\ OnlyOvertakenOutliveRotation)'
  BY <1>7, VerificationAssumption
     DEF MarkSuccess, Outcome, Release, Goto, Forget, IInv, TypeOK,
         ReadsStillHold, OnlyOvertakenOutliveRotation, Excused, Call, Underway,
         Checking, Nothing
<1>8. ASSUME NEW a \in Attempt, MarkFailure(a)
      PROVE  (ReadsStillHold /\ OnlyOvertakenOutliveRotation)'
  BY <1>8, VerificationAssumption
     DEF MarkFailure, StatusAfterFailure, FailuresAfter, Outcome, Release, Goto,
         Forget, history, IInv, TypeOK, ReadsStillHold,
         OnlyOvertakenOutliveRotation, Excused, Call, Underway, Checking, Nothing
<1>9. ASSUME NEW a \in Attempt, MarkFails(a)
      PROVE  (ReadsStillHold /\ OnlyOvertakenOutliveRotation)'
  BY <1>9, VerificationAssumption
     DEF MarkFails, Release, Forget, row, history, IInv, TypeOK, ReadsStillHold,
         OnlyOvertakenOutliveRotation, Excused, Call, Underway, Checking, Nothing
<1>10. ASSUME NEW r \in Rotation, RotateRead(r)
      PROVE  (ReadsStillHold /\ OnlyOvertakenOutliveRotation)'
  BY <1>10, VerificationAssumption
     DEF RotateRead, Row, Goto, row, memory, history, IInv, TypeOK,
         ReadsStillHold, OnlyOvertakenOutliveRotation, Excused, Call, Underway,
         Checking, Nothing
<1>11. ASSUME NEW r \in Rotation, RotateCommit(r)
      PROVE  (ReadsStillHold /\ OnlyOvertakenOutliveRotation)'
  BY <1>11, VerificationAssumption
     DEF RotateCommit, StatusAfterRotation, Goto, Forget, memory, IInv, TypeOK,
         ReadsStillHold, OnlyOvertakenOutliveRotation, Excused, Call, Underway,
         Checking, Nothing
<1>12. ASSUME NEW r \in Rotation, RotateFails(r)
      PROVE  (ReadsStillHold /\ OnlyOvertakenOutliveRotation)'
  BY <1>12, VerificationAssumption
     DEF RotateFails, Goto, Forget, row, memory, history, IInv, TypeOK,
         ReadsStillHold, OnlyOvertakenOutliveRotation, Excused, Call, Underway,
         Checking, Nothing
<1>13. ASSUME NEW p \in Process, WindowSlides(p)
      PROVE  (ReadsStillHold /\ OnlyOvertakenOutliveRotation)'
  BY <1>13, VerificationAssumption
     DEF WindowSlides, row, calls, history, IInv, TypeOK, ReadsStillHold,
         OnlyOvertakenOutliveRotation, Excused, Call, Underway, Checking, Nothing
<1>14. ASSUME NEW p \in Process, Restart(p)
      PROVE  (ReadsStillHold /\ OnlyOvertakenOutliveRotation)'
  BY <1>14, VerificationAssumption
     DEF Restart, Forget, row, history, IInv, TypeOK, ReadsStillHold,
         OnlyOvertakenOutliveRotation, Excused, Call, Underway, Checking, Nothing
<1>15. ASSUME NEW t \in 0 .. token, Publish(t)
      PROVE  (ReadsStillHold /\ OnlyOvertakenOutliveRotation)'
  BY <1>15, VerificationAssumption
     DEF Publish, row, memory, calls, history, IInv, TypeOK, ReadsStillHold,
         OnlyOvertakenOutliveRotation, Excused, Call, Underway, Checking, Nothing
<1>16. CASE Suspend
  BY <1>16, VerificationAssumption
     DEF Suspend, memory, calls, history, IInv, TypeOK, ReadsStillHold,
         OnlyOvertakenOutliveRotation, Excused, Call, Underway, Checking, Nothing
<1>17. CASE UNCHANGED vars
  BY <1>17
     DEF vars, row, memory, calls, history, IInv, TypeOK, ReadsStillHold,
         OnlyOvertakenOutliveRotation, Excused, Call, Underway, Checking, Nothing
<1> QED
  BY <1>1, <1>2, <1>3, <1>4, <1>5, <1>6, <1>7, <1>8, <1>9, <1>10, <1>11, <1>12,
     <1>13, <1>14, <1>15, <1>16, <1>17
     DEF Next, Verify

-----------------------------------------------------------------------------

LEMMA Initially == Init => IInv
<1> SUFFICES ASSUME Init
             PROVE  IInv
  OBVIOUS
<1>1. TypeOK
  <2>1. Nothing \in [status : Status, verifiedAt : BOOLEAN, failures : Nat]
    BY DEF Nothing, Status
  <2>2. 0 \in 0 .. MaxPerWindow
    BY VerificationAssumption
  <2>3. recent \in [Process -> 0 .. MaxPerWindow]
    BY <2>2 DEF Init
  <2>4. seen \in [Call -> [status : Status, verifiedAt : BOOLEAN, failures : Nat]]
    BY <2>1 DEF Init
  <2> QED
    BY <2>3, <2>4 DEF Init, TypeOK, Status, CallState
<1>2. \A a \in Attempt : pc[a] = "new"
  BY DEF Init, Call
<1>3. GuardExact
  BY <1>2 DEF Init, GuardExact, Holders, Checking
<1>4. Announced /\ OutcomesAudited
  BY <1>2 DEF Init, Announced, OutcomesAudited, Checking
<1>5. TokensIssued /\ SeenMeansProven /\ VerifiedMeansProven
  BY <1>2 DEF Init, Nothing, TokensIssued, SeenMeansProven, VerifiedMeansProven
<1>6. ReadsStillHold /\ OnlyOvertakenOutliveRotation
  BY <1>2 DEF Init, ReadsStillHold, OnlyOvertakenOutliveRotation, Underway, Checking
<1> QED
  BY <1>1, <1>3, <1>4, <1>5, <1>6 DEF IInv

LEMMA Inductive == Spec => []IInv
<1>1. IInv /\ [Next]_vars => IInv'
  BY TypeStep, GuardStep, AuditStep, TokensStep, ProvenStep, ReadsStep DEF IInv
<1> QED
  BY <1>1, Initially, PTL DEF Spec

\* The row, the memory of the processes and the calls keep their shape.
THEOREM TypeCorrect == Spec => []TypeOK
<1>1. IInv => TypeOK
  BY DEF IInv
<1> QED
  BY <1>1, Inductive, PTL

\* A domain is verified only by a token that was issued for it, published by
\* its owner and found by a recorded attempt (markVerificationAttempt).
THEOREM VerifiedIsProven == Spec => []VerifiedMeansProven
<1>1. IInv => VerifiedMeansProven
  BY DEF IInv
<1> QED
  BY <1>1, Inductive, PTL

\* The single-flight guard of a process is held for exactly one attempt while
\* it checks, whatever it ends with, and for none after a restart.
THEOREM GuardIsExact == Spec => []InFlightAccounted
<1>1. IInv => InFlightAccounted
  <2> SUFFICES ASSUME IInv, NEW p \in Process
               PROVE  Cardinality(Holders(p)) = IF p \in inFlight THEN 1 ELSE 0
    BY DEF InFlightAccounted
  <2>1. CASE p \in inFlight
    <3>1. \E a : Holders(p) = {a}
      BY <2>1 DEF IInv, GuardExact, Holders
    <3> QED
      BY <2>1, <3>1, FS_Singleton
  <2>2. CASE p \notin inFlight
    BY <2>2, FS_EmptySet DEF IInv, GuardExact
  <2> QED
    BY <2>1, <2>2
<1> QED
  BY <1>1, Inductive, PTL

\* A domain that is verified although its present token was never found owes
\* it to an attempt that a rotation overtook (rotateDomainToken returns a
\* verified domain to pending, and the attempt writes what it read before).
THEOREM OnlyOvertakenOutlive == Spec => []OnlyOvertakenOutliveRotation
<1>1. IInv => OnlyOvertakenOutliveRotation
  BY DEF IInv
<1> QED
  BY <1>1, Inductive, PTL

\* Every attempt on the network was announced, and its outcome is audited if
\* and only if it was recorded in the row.
THEOREM AuditIsExact == Spec => []OutcomesAudited
<1>1. IInv => OutcomesAudited
  BY DEF IInv
<1> QED
  BY <1>1, Inductive, PTL

-----------------------------------------------------------------------------
(* Sitemaps *)

Phases == InFlight \cup {"new", "ok", "rejected", "error", "lost"}
Outcomes == {"completed", "failed"}
Visits == [doc : Doc, depth : Nat]
Nodes == [doc : Doc, depth : Nat, success : BOOLEAN, pages : SUBSET Page]

\* The type invariant of Sitemaps.
SitemapsTypeOK ==
    /\ verified \in BOOLEAN
    /\ sources \in [Doc -> {"absent", "pending", "success", "failed"}]
    /\ urls \in SUBSET Page /\ IsFiniteSet(urls)
    /\ logged \in [Request -> SUBSET ({"started"} \cup Outcomes)]
    /\ phase \in [Request -> Phases]
    /\ target \in [Fetch -> Doc \cup {NoDoc}]
    /\ counted \in [Fetch -> Nat]
    /\ budget \in [Fetch -> Nat]
    /\ nested \in [Fetch -> Nat]
    /\ hops \in [Fetch -> Nat]
    /\ todo \in [Fetch -> Seq(Visits)]
    /\ nodes \in [Fetch -> Seq(Nodes)]
    /\ overlapped \in BOOLEAN
    /\ hung \in SUBSET Request
-----------------------------------------------------------------------------
\* Numbers a set of positions by how many of it come before, without gaps.
LEMMA PositionsAreFilled ==
    ASSUME NEW n \in Nat, NEW at \in SUBSET (1 .. n)
    PROVE  /\ IsFiniteSet(at)
           /\ Cardinality(at) \in Nat
           /\ \A k \in 1 .. Cardinality(at) :
                 \E i \in at : Cardinality({j \in at : j < i}) = k - 1
<1> DEFINE Below(i) == {j \in at : j < i}
<1>1. IsFiniteSet(at) /\ Cardinality(at) \in Nat
  <2>1. IsFiniteSet(1 .. n)
    BY FS_Interval
  <2>2. IsFiniteSet(at)
    BY <2>1, FS_Subset
  <2>3. QED
    BY <2>2, FS_CardinalityType
<1>2. \A i \in at : Below(i) \in SUBSET at /\ i \notin Below(i)
  OBVIOUS
<1>3. \A i, j \in at : j < i => j \in Below(i) /\ Below(j) \in SUBSET Below(i)
  <2>1. SUFFICES ASSUME NEW i \in at, NEW j \in at, j < i, NEW k \in Below(j)
                 PROVE  k \in Below(i)
    OBVIOUS
  <2>2. k \in Nat /\ j \in Nat /\ i \in Nat /\ k < j
    OBVIOUS
  <2>3. QED
    BY <2>1, <2>2
<1>4. \A i, j \in at : i # j => j < i \/ i < j
  OBVIOUS
<1> HIDE DEF Below
<1>5. ASSUME NEW i \in at
      PROVE  /\ IsFiniteSet(Below(i)) /\ Cardinality(Below(i)) \in Nat
             /\ Cardinality(Below(i)) < Cardinality(at)
  <2>1. Below(i) # at
    BY <1>2
  <2>2. IsFiniteSet(Below(i)) /\ Cardinality(Below(i)) \in Nat
    BY <1>1, <1>2, FS_Subset, FS_CardinalityType
  <2>3. Cardinality(Below(i)) =< Cardinality(at) /\ Cardinality(Below(i)) # Cardinality(at)
    BY <1>1, <1>2, <2>1, FS_Subset
  <2>4. QED
    BY <1>1, <2>2, <2>3
<1>6. ASSUME NEW i \in at, NEW j \in at, j < i
      PROVE  Cardinality(Below(j)) # Cardinality(Below(i))
  <2>1. Below(j) # Below(i)
    BY <1>2, <1>3, <1>6
  <2>2. QED
    BY <1>3, <1>5, <1>6, <2>1, FS_Subset
<1> DEFINE T == 0 .. (Cardinality(at) - 1)
           place == [i \in at |-> Cardinality(Below(i))]
<1>7. IsFiniteSet(T) /\ Cardinality(T) = Cardinality(at)
  BY <1>1, FS_Interval
<1>8. place \in [at -> T]
  BY <1>1, <1>5
<1>9. \A i, j \in at : place[i] = place[j] => i = j
  BY <1>4, <1>6
<1>10. place \in Injection(at, T)
  BY <1>8, <1>9 DEF Injection, IsInjective
<1>11. place \in Surjection(at, T)
  BY <1>1, <1>7, <1>10, FS_Injection
<1>12. ASSUME NEW k \in 1 .. Cardinality(at)
       PROVE  \E i \in at : Cardinality(Below(i)) = k - 1
  <2>1. k - 1 \in T
    BY <1>1
  <2>2. PICK i \in at : place[i] = k - 1
    BY <1>11, <2>1 DEF Surjection
  <2>3. QED
    BY <2>2
<1>13. QED
  BY <1>1, <1>12 DEF Below

\* What is kept of a list is a list of what was to be kept.
LEMMA KeptIsOfItsKind ==
    ASSUME NEW U, NEW s \in Seq(U), NEW S
    PROVE  Kept(s, S) \in Seq(S)
<1> DEFINE at == {i \in DOMAIN s : s[i] \in S}
           pick(k) == CHOOSE i \in at : Cardinality({j \in at : j < i}) = k - 1
<1>1. at \in SUBSET (1 .. Len(s)) /\ Len(s) \in Nat
  OBVIOUS
<1>2. /\ Cardinality(at) \in Nat
      /\ \A k \in 1 .. Cardinality(at) : \E i \in at : Cardinality({j \in at : j < i}) = k - 1
  BY <1>1, PositionsAreFilled
<1>3. \A k \in 1 .. Cardinality(at) : pick(k) \in at
  BY <1>2
<1>4. \A k \in 1 .. Cardinality(at) : s[pick(k)] \in S
  BY <1>3
<1>5. Kept(s, S) = [k \in 1 .. Cardinality(at) |-> s[pick(k)]]
  BY DEF Kept
<1> HIDE DEF at, pick
<1>6. QED
  BY <1>2, <1>4, <1>5

\* ... and the first members of it are at most as many as were asked for.
LEMMA FirstOfIsOfItsKind ==
    ASSUME NEW S, NEW s \in Seq(S), NEW n \in Nat
    PROVE  /\ FirstOf(n, s) \in Seq(S)
           /\ Len(FirstOf(n, s)) \in Nat
           /\ Len(FirstOf(n, s)) =< n
<1>1. /\ Smaller(n, Len(s)) \in Nat /\ Smaller(n, Len(s)) =< n
      /\ Smaller(n, Len(s)) =< Len(s)
  BY DEF Smaller
<1>2. QED
  BY <1>1 DEF FirstOf

\* A list has no more different members than places.
LEMMA MembersOfAList ==
    ASSUME NEW S, NEW s \in Seq(S)
    PROVE  /\ ToSet(s) \in SUBSET S /\ IsFiniteSet(ToSet(s))
           /\ Cardinality(ToSet(s)) \in Nat
           /\ Cardinality(ToSet(s)) =< Len(s)
<1>1. Len(s) \in Nat /\ s \in [1 .. Len(s) -> S] /\ DOMAIN s = 1 .. Len(s)
  OBVIOUS
<1>2. ToSet(s) \in SUBSET S
  BY <1>1 DEF ToSet
<1>3. s \in [1 .. Len(s) -> ToSet(s)]
  BY <1>1 DEF ToSet
<1>4. s \in Surjection(1 .. Len(s), ToSet(s))
  BY <1>1, <1>3 DEF ToSet, Surjection
<1>5. IsFiniteSet(1 .. Len(s)) /\ Cardinality(1 .. Len(s)) = Len(s)
  BY <1>1, FS_Interval
<1>6. IsFiniteSet(ToSet(s)) /\ Cardinality(ToSet(s)) =< Len(s)
  BY <1>4, <1>5, FS_Surjection
<1>7. QED
  BY <1>2, <1>6, FS_CardinalityType
-----------------------------------------------------------------------------
\* A call is about a document once it has begun, and visits nothing before it
\* has counted.
CallsBegin ==
    \A c \in Fetch :
        /\ phase[c] \in {"counting", "walking", "failing"} => target[c] \in Doc
        /\ phase[c] \in {"new", "counting"} => nodes[c] = <<>> /\ budget[c] = 0

\* No outcome is logged before a call is answered.
OutcomesComeLast ==
    \A c \in Request : phase[c] \in InFlight \cup {"new"} => logged[c] \cap Outcomes = {}

\* The document of the call comes first, and the others are all nested ones.
TopComesFirst ==
    \A c \in Fetch : \A i \in DOMAIN todo[c] :
        todo[c][i].depth = 0 => Len(todo[c]) = 1 /\ nodes[c] = <<>>

\* Every node but the first is counted.
NodesAreCounted ==
    \A c \in Fetch : Len(nodes[c]) =< 1 + nested[c] /\ nested[c] =< MaxNested

SuccessIsShallow ==
    \A c \in Fetch : \A i \in DOMAIN nodes[c] :
        nodes[c][i].success => nodes[c][i].depth =< MaxIndexDepth

\* What was found and what may still be found fit in what was left when the
\* call counted.
BudgetIsShared ==
    \A c \in Fetch :
        /\ IsFiniteSet(FoundBy(c))
        /\ Cardinality(FoundBy(c)) + budget[c]
              =< MaxPerDomain - Smaller(MaxPerDomain, counted[c])

SitemapsInv ==
    /\ SitemapsTypeOK
    /\ CallsBegin
    /\ OutcomesComeLast
    /\ TopComesFirst
    /\ NodesAreCounted
    /\ SuccessIsShallow
    /\ BudgetIsShared
    /\ OverrunNeedsOverlap

\* Nothing is there yet when the program starts.
LEMMA SitemapsStart == SitemapsInit => SitemapsInv
<1> SUFFICES ASSUME SitemapsInit PROVE SitemapsInv
  OBVIOUS
<1> USE DEF SitemapsInit
<1>1. SitemapsTypeOK
  <2>1. urls \in SUBSET Page /\ IsFiniteSet(urls)
    BY FS_EmptySet
  <2>2. todo \in [Fetch -> Seq(Visits)] /\ nodes \in [Fetch -> Seq(Nodes)]
    OBVIOUS
  <2>3. logged \in [Request -> SUBSET ({"started"} \cup Outcomes)]
    OBVIOUS
  <2>4. QED
    BY <2>1, <2>2, <2>3 DEF SitemapsTypeOK, Phases
<1>2. CallsBegin /\ OutcomesComeLast
  BY DEF CallsBegin, OutcomesComeLast, Request
<1>3. TopComesFirst /\ SuccessIsShallow
  BY DEF TopComesFirst, SuccessIsShallow
<1>4. NodesAreCounted
  BY SitemapsAssumption DEF NodesAreCounted
<1>5. BudgetIsShared
  <2>1. \A c \in Fetch : FoundBy(c) = {}
    BY DEF FoundBy
  <2>2. Smaller(MaxPerDomain, 0) = 0
    BY SitemapsAssumption DEF Smaller
  <2>3. IsFiniteSet({}) /\ Cardinality({}) = 0
    BY FS_EmptySet
  <2>4. MaxPerDomain \in Nat
    BY SitemapsAssumption
  <2>5. ASSUME NEW c \in Fetch
        PROVE  FoundBy(c) = {} /\ counted[c] = 0 /\ budget[c] = 0
    BY <2>1
  <2> HIDE DEF SitemapsInit
  <2>6. QED
    BY <2>2, <2>3, <2>4, <2>5 DEF BudgetIsShared
<1>6. OverrunNeedsOverlap
  BY FS_EmptySet, SitemapsAssumption DEF OverrunNeedsOverlap
<1>7. QED
  BY <1>1, <1>2, <1>3, <1>4, <1>5, <1>6 DEF SitemapsInv

\* A step that leaves the walks alone keeps what is said of them.
LEMMA WalksUntouched ==
    ASSUME SitemapsInv, UNCHANGED <<counted, walk>>
    PROVE  (TopComesFirst /\ NodesAreCounted /\ SuccessIsShallow /\ BudgetIsShared)'
<1> USE DEF SitemapsInv, walk
<1>1. (TopComesFirst /\ NodesAreCounted /\ SuccessIsShallow)'
  BY DEF TopComesFirst, NodesAreCounted, SuccessIsShallow
<1>2. \A c \in Fetch : FoundBy(c)' = FoundBy(c)
  BY DEF FoundBy
<1>3. BudgetIsShared'
  BY <1>2 DEF BudgetIsShared
<1>4. QED
  BY <1>1, <1>3

\* Calls that begin, go on, are answered or are lost without a walk.
LEMMA CallsKeepSitemaps ==
    ASSUME SitemapsInv, NEW c \in Request,
           \/ c \in Scan /\ (BeginScan(c) \/ StoreScan(c))
           \/ c \in Fetch /\ (\E d \in Doc : BeginFetch(c, d))
           \/ c \in Fetch /\ (CountFails(c) \/ TopFails(c) \/ StoreFailure(c))
           \/ BeginFails(c) \/ StoreFails(c)
    PROVE  SitemapsInv'
<1> USE DEF BeginScan, StoreScan, BeginFetch, CountFails, TopFails, StoreFailure,
            BeginFails, StoreFails, Log, Proceed, rows, walk
<1>1. UNCHANGED <<urls, counted, walk, overlapped, verified, hung>>
  OBVIOUS
<1>2. /\ c \in Scan => c \notin Fetch
      /\ Fetch \subseteq Request /\ Scan \subseteq Request
  BY SitemapsAssumption DEF Request
<1>3. phase[c] \in InFlight \cup {"new"}
  BY DEF InFlight, Visiting
<1>4. PICK p \in Phases : phase' = [phase EXCEPT ![c] = p]
  BY DEF Phases, InFlight
<1> DEFINE Adds(e) == /\ logged' = [logged EXCEPT ![c] = @ \cup e]
                      /\ p \in InFlight \cup {"new"} => e \cap Outcomes = {}
<1>5. PICK e \in SUBSET ({"started"} \cup Outcomes) : Adds(e)
  <2>1. logged \in [Request -> SUBSET ({"started"} \cup Outcomes)] /\ phase \in [Request -> Phases]
    BY DEF SitemapsInv, SitemapsTypeOK
  <2>2. CASE UNCHANGED logged
    <3>1. Adds({})
      BY <2>1, <2>2
    <3>2. QED
      BY <3>1
  <2>3. CASE Log(c, "started")
    <3>1. Adds({"started"})
      BY <2>3 DEF Outcomes
    <3>2. QED
      BY <3>1
  <2>4. ASSUME NEW o \in Outcomes, Log(c, o), Proceed(c, "rejected") \/ Proceed(c, "ok")
        PROVE  \E e \in SUBSET ({"started"} \cup Outcomes) : Adds(e)
    <3>1. p \in {"rejected", "ok"}
      BY <1>4, <2>1, <2>4
    <3>2. Adds({o})
      BY <2>4, <3>1 DEF InFlight
    <3> HIDE DEF Adds
    <3>3. {o} \in SUBSET ({"started"} \cup Outcomes)
      OBVIOUS
    <3>4. QED
      BY <3>2, <3>3
  <2>5. QED
    BY <2>2, <2>3, <2>4 DEF Outcomes
<1> HIDE DEF Adds
<1>6. SitemapsTypeOK'
  <2>1. phase' \in [Request -> Phases] /\ logged' \in [Request -> SUBSET ({"started"} \cup Outcomes)]
    BY <1>2, <1>4, <1>5 DEF Adds, SitemapsInv, SitemapsTypeOK
  <2>2. target' \in [Fetch -> Doc \cup {NoDoc}]
    BY DEF SitemapsInv, SitemapsTypeOK
  <2>3. sources' \in [Doc -> {"absent", "pending", "success", "failed"}]
    BY DEF SitemapsInv, SitemapsTypeOK
  <2>4. QED
    BY <1>1, <2>1, <2>2, <2>3 DEF SitemapsInv, SitemapsTypeOK
<1>7. CallsBegin'
  BY <1>2 DEF SitemapsInv, SitemapsTypeOK, CallsBegin, Visiting, InFlight
<1>8. OutcomesComeLast'
  BY <1>2, <1>3, <1>4, <1>5 DEF Adds, SitemapsInv, SitemapsTypeOK, OutcomesComeLast
<1>9. (TopComesFirst /\ NodesAreCounted /\ SuccessIsShallow /\ BudgetIsShared)'
  BY <1>1, WalksUntouched
<1>10. OverrunNeedsOverlap'
  BY <1>1 DEF SitemapsInv, OverrunNeedsOverlap
<1>11. QED
  BY <1>6, <1>7, <1>8, <1>9, <1>10 DEF SitemapsInv

\* A count makes a budget of what is left of the limit.
LEMMA ReadBudgetKeepsSitemaps ==
    ASSUME SitemapsInv, NEW c \in Fetch, ReadBudget(c)
    PROVE  SitemapsInv'
<1> USE DEF ReadBudget, Proceed, rows, walk, SitemapsInv
<1>1. /\ phase[c] = "counting" /\ c \in Request /\ target[c] \in Doc
      /\ nodes[c] = <<>> /\ Fetch \subseteq Request
  BY DEF CallsBegin, Request
<1>2. Cardinality(urls) \in Nat
  BY FS_CardinalityType DEF SitemapsTypeOK
<1>3. /\ MaxPerDomain \in Nat
      /\ Smaller(MaxPerDomain, Cardinality(urls)) \in Nat
      /\ Smaller(MaxPerDomain, Cardinality(urls)) =< MaxPerDomain
  BY <1>2, SitemapsAssumption DEF Smaller
<1> DEFINE top == [doc |-> target[c], depth |-> 0]
<1>4. top \in Visits /\ <<top>> \in Seq(Visits)
  BY <1>1 DEF Visits
<1>5. SitemapsTypeOK'
  <2>1. todo' \in [Fetch -> Seq(Visits)]
    BY <1>4 DEF SitemapsTypeOK
  <2>2. counted' \in [Fetch -> Nat] /\ budget' \in [Fetch -> Nat]
    BY <1>2, <1>3 DEF SitemapsTypeOK
  <2>3. phase' \in [Request -> Phases]
    BY DEF SitemapsTypeOK, Phases, InFlight
  <2>4. QED
    BY <2>1, <2>2, <2>3 DEF SitemapsTypeOK
<1>6. CallsBegin'
  BY <1>1 DEF CallsBegin, SitemapsTypeOK
<1>7. OutcomesComeLast'
  BY <1>1 DEF OutcomesComeLast, SitemapsTypeOK, InFlight
<1>8. TopComesFirst'
  BY <1>1 DEF TopComesFirst, SitemapsTypeOK
<1>9. (NodesAreCounted /\ SuccessIsShallow)'
  BY DEF NodesAreCounted, SuccessIsShallow
<1>10. BudgetIsShared'
  <2>1. \A f \in Fetch : FoundBy(f)' = FoundBy(f)
    BY DEF FoundBy
  <2>2. FoundBy(c) = {}
    BY <1>1 DEF FoundBy
  <2>3. IsFiniteSet({}) /\ Cardinality({}) = 0
    BY FS_EmptySet
  <2>4. ASSUME NEW f \in Fetch, f # c
        PROVE  counted'[f] = counted[f] /\ budget'[f] = budget[f]
    BY <2>4 DEF SitemapsTypeOK
  <2>5. /\ counted'[c] = Cardinality(urls)
        /\ budget'[c] = MaxPerDomain - Smaller(MaxPerDomain, Cardinality(urls))
    BY DEF SitemapsTypeOK
  <2> HIDE DEF ReadBudget
  <2> DEFINE Shared(f) == /\ IsFiniteSet(FoundBy(f))
                          /\ Cardinality(FoundBy(f)) + budget[f]
                                =< MaxPerDomain - Smaller(MaxPerDomain, counted[f])
  <2>6. Shared(c)'
    <3>1. FoundBy(c)' = {}
      BY <2>1, <2>2
    <3>2. Smaller(MaxPerDomain, counted[c])' = Smaller(MaxPerDomain, Cardinality(urls))
      BY <2>5
    <3>3. 0 + budget'[c] =< MaxPerDomain - Smaller(MaxPerDomain, Cardinality(urls))
      BY <1>3, <2>5
    <3>4. QED
      BY <2>3, <3>1, <3>2, <3>3
  <2>7. ASSUME NEW f \in Fetch, f # c
        PROVE  Shared(f)'
    <3>1. Shared(f)
      BY DEF BudgetIsShared
    <3>2. Smaller(MaxPerDomain, counted[f])' = Smaller(MaxPerDomain, counted[f])
      BY <2>4, <2>7 DEF Smaller
    <3>3. QED
      BY <2>1, <2>4, <2>7, <3>1, <3>2
  <2>8. QED
    BY <2>6, <2>7 DEF BudgetIsShared
<1>11. OverrunNeedsOverlap'
  BY DEF OverrunNeedsOverlap
<1>12. QED
  BY <1>5, <1>6, <1>7, <1>8, <1>9, <1>10, <1>11

\* A visit takes the first document off the list, puts nested ones in its
\* place, and takes from the budget what it finds.
LEMMA VisitKeepsSitemaps ==
    ASSUME SitemapsInv, NEW c \in Fetch, Visiting(c),
           NEW success \in BOOLEAN, NEW pages \in SUBSET Page, IsFiniteSet(pages),
           NEW entries \in Seq(Doc),
           Visited(c, success, pages, entries),
           success => Head(todo[c]).depth =< MaxIndexDepth,
           NEW spent \in Nat, spent =< budget[c], Cardinality(pages) =< spent,
           budget' = [budget EXCEPT ![c] = @ - spent],
           UNCHANGED <<verified, rows, logged, phase, target, counted, overlapped, hung>>
    PROVE  SitemapsInv'
<1> USE DEF SitemapsInv
<1> DEFINE visit == Head(todo[c])
           node == [doc |-> visit.doc, depth |-> visit.depth, success |-> success, pages |-> pages]
           nest == [i \in DOMAIN entries |-> [doc |-> entries[i], depth |-> visit.depth + 1]]
<1>1. /\ todo[c] \in Seq(Visits) /\ todo[c] # <<>>
      /\ nodes[c] \in Seq(Nodes) /\ budget[c] \in Nat /\ nested[c] \in Nat
  BY DEF SitemapsTypeOK, Visiting, WalkOver, ToSet
<1>2. visit \in Visits /\ visit = todo[c][1] /\ 1 \in DOMAIN todo[c] /\ Tail(todo[c]) \in Seq(Visits)
  BY <1>1
<1>3. visit.doc \in Doc /\ visit.depth \in Nat
  BY <1>2 DEF Visits
<1>4. node \in Nodes
  BY <1>3 DEF Nodes
<1>5. nest \in Seq(Visits) /\ \A i \in DOMAIN nest : nest[i].depth > 0
  <2>1. DOMAIN entries = 1 .. Len(entries) /\ Len(entries) \in Nat
    OBVIOUS
  <2>2. visit.depth + 1 \in Nat /\ visit.depth + 1 > 0
    BY <1>3
  <2> HIDE DEF visit
  <2>3. \A i \in 1 .. Len(entries) : [doc |-> entries[i], depth |-> visit.depth + 1] \in Visits
    BY <2>1, <2>2 DEF Visits
  <2>4. QED
    BY <2>1, <2>2, <2>3
<1>6. /\ nodes' = [nodes EXCEPT ![c] = Append(@, node)]
      /\ todo' = [todo EXCEPT ![c] = nest \o Tail(@)]
      /\ nested' = [nested EXCEPT ![c] = IF visit.depth > 0 THEN @ + 1 ELSE @]
      /\ hops' = [hops EXCEPT ![c] = 0]
  BY DEF Visited
<1>7. UNCHANGED <<verified, sources, urls, logged, phase, target, counted, overlapped, hung>>
  BY DEF rows
<1>8. \/ visit.depth = 0 /\ nodes[c] = <<>> /\ DOMAIN Tail(todo[c]) = {}
      \/ /\ visit.depth > 0 /\ nested[c] < MaxNested
         /\ \A i \in DOMAIN todo[c] : todo[c][i].depth > 0
  <2>1. CASE \E i \in DOMAIN todo[c] : todo[c][i].depth = 0
    <3>1. Len(todo[c]) = 1 /\ nodes[c] = <<>>
      BY <2>1 DEF TopComesFirst
    <3>2. DOMAIN todo[c] = {1} /\ DOMAIN Tail(todo[c]) = {}
      <4>1. DOMAIN todo[c] = 1 .. 1
        BY <1>1, <3>1
      <4>2. Len(Tail(todo[c])) = 0
        BY <1>1, <3>1
      <4>3. \A t \in Seq(Visits) : Len(t) = 0 => DOMAIN t = 1 .. 0
        OBVIOUS
      <4>4. DOMAIN Tail(todo[c]) = 1 .. 0
        BY <1>2, <4>2, <4>3
      <4>5. QED
        BY <4>1, <4>4
    <3>3. QED
      BY <1>2, <2>1, <3>1, <3>2
  <2>2. CASE \A i \in DOMAIN todo[c] : todo[c][i].depth # 0
    <3>1. \A i \in DOMAIN todo[c] : todo[c][i].depth > 0
      <4>1. \A i \in DOMAIN todo[c] : todo[c][i] \in Visits
        BY <1>1
      <4>2. QED
        BY <2>2, <4>1 DEF Visits
    <3>2. nested[c] < MaxNested
      BY <1>1, <3>1 DEF Visiting, WalkOver, ToSet
    <3>3. QED
      BY <1>2, <3>1, <3>2
  <2>3. QED
    BY <2>1, <2>2
<1> HIDE DEF visit, node, nest
<1>9. SitemapsTypeOK'
  <2>1. nest \o Tail(todo[c]) \in Seq(Visits) /\ Append(nodes[c], node) \in Seq(Nodes)
    BY <1>1, <1>2, <1>4, <1>5
  <2>2. todo' \in [Fetch -> Seq(Visits)] /\ nodes' \in [Fetch -> Seq(Nodes)]
    BY <1>6, <2>1 DEF SitemapsTypeOK
  <2>3. nested' \in [Fetch -> Nat] /\ hops' \in [Fetch -> Nat]
    BY <1>1, <1>6 DEF SitemapsTypeOK
  <2>4. budget' \in [Fetch -> Nat]
    BY <1>1 DEF SitemapsTypeOK
  <2>5. QED
    BY <1>7, <2>2, <2>3, <2>4 DEF SitemapsTypeOK
<1>10. (CallsBegin /\ OutcomesComeLast)'
  <2>1. phase[c] = "walking"
    BY DEF Visiting
  <2>2. QED
    BY <1>6, <1>7, <2>1 DEF CallsBegin, OutcomesComeLast, SitemapsTypeOK
<1>11. TopComesFirst'
  <2>1. \A i \in DOMAIN todo'[c] : todo'[c][i].depth # 0
    <3>1. todo'[c] = nest \o Tail(todo[c])
      BY <1>6 DEF SitemapsTypeOK
    <3>2. \A i \in DOMAIN Tail(todo[c]) : Tail(todo[c])[i].depth > 0
      <4>1. CASE DOMAIN Tail(todo[c]) = {}
        BY <4>1
      <4>2. CASE \A i \in DOMAIN todo[c] : todo[c][i].depth > 0
        <5>1. \A i \in DOMAIN Tail(todo[c]) : Tail(todo[c])[i] = todo[c][i + 1] /\ i + 1 \in DOMAIN todo[c]
          BY <1>1
        <5>2. QED
          BY <4>2, <5>1
      <4>3. QED
        BY <1>8, <4>1, <4>2
    <3> DEFINE tail == Tail(todo[c])
    <3>3. nest \in Seq(Visits) /\ tail \in Seq(Visits)
      BY <1>2, <1>5
    <3> HIDE DEF tail
    <3>4. \A i \in DOMAIN (nest \o tail) :
             \/ i \in DOMAIN nest /\ (nest \o tail)[i] = nest[i]
             \/ i - Len(nest) \in DOMAIN tail /\ (nest \o tail)[i] = tail[i - Len(nest)]
      BY <3>3
    <3>5. QED
      BY <1>5, <3>1, <3>2, <3>4 DEF tail
  <2>2. \A f \in Fetch : f # c => todo'[f] = todo[f] /\ nodes'[f] = nodes[f]
    BY <1>6 DEF SitemapsTypeOK
  <2>3. QED
    BY <2>1, <2>2 DEF TopComesFirst
<1>12. NodesAreCounted'
  <2>1. \A f \in Fetch : f # c => nodes'[f] = nodes[f] /\ nested'[f] = nested[f]
    BY <1>6 DEF SitemapsTypeOK
  <2>2. /\ nodes'[c] = Append(nodes[c], node)
        /\ nested'[c] = IF visit.depth > 0 THEN nested[c] + 1 ELSE nested[c]
    BY <1>6 DEF SitemapsTypeOK
  <2>3. Len(nodes'[c]) = Len(nodes[c]) + 1 /\ Len(nodes[c]) \in Nat
    BY <1>1, <1>4, <2>2
  <2>4. Len(nodes[c]) =< 1 + nested[c] /\ nested[c] =< MaxNested /\ MaxNested \in Nat
    BY SitemapsAssumption DEF NodesAreCounted
  <2>5. nodes[c] = <<>> => Len(nodes[c]) = 0
    OBVIOUS
  <2>6. Len(nodes'[c]) =< 1 + nested'[c] /\ nested'[c] =< MaxNested
    BY <1>1, <1>3, <1>8, <2>2, <2>3, <2>4, <2>5
  <2>7. QED
    BY <2>1, <2>6 DEF NodesAreCounted
<1>13. /\ DOMAIN nodes'[c] = DOMAIN nodes[c] \cup {Len(nodes[c]) + 1}
       /\ \A i \in DOMAIN nodes[c] : nodes'[c][i] = nodes[c][i]
       /\ nodes'[c][Len(nodes[c]) + 1] = node
       /\ \A f \in Fetch : f # c => nodes'[f] = nodes[f] /\ budget'[f] = budget[f]
  BY <1>1, <1>4, <1>6 DEF SitemapsTypeOK
<1>14. node.success = success /\ node.depth = visit.depth /\ node.pages = pages
  BY DEF node
<1>15. SuccessIsShallow'
  BY <1>13, <1>14 DEF SuccessIsShallow, visit
<1>16. BudgetIsShared'
  <2>1. FoundBy(c)' = FoundBy(c) \cup pages
    BY <1>13, <1>14 DEF FoundBy
  <2>2. \A f \in Fetch : f # c => FoundBy(f)' = FoundBy(f)
    BY <1>13 DEF FoundBy
  <2>3. /\ IsFiniteSet(FoundBy(c) \cup pages)
        /\ Cardinality(FoundBy(c) \cup pages) \in Nat /\ Cardinality(FoundBy(c)) \in Nat
        /\ Cardinality(FoundBy(c) \cup pages) =< Cardinality(FoundBy(c)) + Cardinality(pages)
    <3>1. IsFiniteSet(FoundBy(c))
      BY DEF BudgetIsShared
    <3>2. IsFiniteSet(FoundBy(c) \cap pages) /\ IsFiniteSet(FoundBy(c) \cup pages)
      BY <3>1, FS_Intersection, FS_Union
    <3>3. /\ Cardinality(FoundBy(c)) \in Nat /\ Cardinality(pages) \in Nat
          /\ Cardinality(FoundBy(c) \cap pages) \in Nat
          /\ Cardinality(FoundBy(c) \cup pages) \in Nat
      BY <3>1, <3>2, FS_CardinalityType
    <3>4. Cardinality(FoundBy(c) \cup pages)
            = Cardinality(FoundBy(c)) + Cardinality(pages) - Cardinality(FoundBy(c) \cap pages)
      BY <3>1, FS_Union
    <3>5. QED
      BY <3>2, <3>3, <3>4
  <2>4. Cardinality(pages) \in Nat
    BY FS_CardinalityType
  <2>5. budget'[c] = budget[c] - spent /\ counted[c] \in Nat
    BY DEF SitemapsTypeOK
  <2>6. MaxPerDomain \in Nat /\ Smaller(MaxPerDomain, counted[c]) \in Nat
    BY <2>5, SitemapsAssumption DEF Smaller
  <2>7. \A f \in Fetch : Smaller(MaxPerDomain, counted[f])' = Smaller(MaxPerDomain, counted[f])
    BY <1>7
  <2>8. Cardinality(FoundBy(c) \cup pages) + budget'[c]
          =< MaxPerDomain - Smaller(MaxPerDomain, counted[c])
    <3>1. Cardinality(FoundBy(c)) + budget[c] =< MaxPerDomain - Smaller(MaxPerDomain, counted[c])
      BY DEF BudgetIsShared
    <3>2. QED
      BY <1>1, <2>3, <2>4, <2>5, <2>6, <3>1
  <2>9. QED
    BY <1>7, <1>13, <2>1, <2>2, <2>3, <2>7, <2>8 DEF BudgetIsShared
<1>17. OverrunNeedsOverlap'
  BY <1>7 DEF OverrunNeedsOverlap
<1>18. QED
  BY <1>9, <1>10, <1>11, <1>12, <1>15, <1>16, <1>17

\* An index, a urlset and a failure are visits.
LEMMA WalkingKeepsSitemaps ==
    ASSUME SitemapsInv, NEW c \in Fetch,
           ServesIndex(c) \/ ServesUrlset(c) \/ NestedFails(c)
    PROVE  SitemapsInv'
<1>1. Visiting(c) /\ todo[c] \in Seq(Visits) /\ todo[c] # <<>> /\ budget[c] \in Nat
  <2>1. Visiting(c)
    BY DEF ServesIndex, ServesUrlset, NestedFails, Fetching
  <2>2. todo[c] \in Seq(Visits) /\ budget[c] \in Nat
    BY DEF SitemapsInv, SitemapsTypeOK
  <2>3. todo[c] # <<>>
    BY <2>1 DEF Visiting, WalkOver, ToSet
  <2>4. QED
    BY <2>1, <2>2, <2>3
<1>2. Head(todo[c]).doc \in Doc
  <2>1. Head(todo[c]) \in Visits
    BY <1>1
  <2>2. QED
    BY <2>1 DEF Visits
<1>3. /\ IsFiniteSet({}) /\ Cardinality({}) = 0 /\ {} \in SUBSET Page
      /\ <<>> \in Seq(Doc)
  BY FS_EmptySet
<1>4. PICK nothing \in Nat :
          /\ nothing = 0 /\ nothing =< budget[c] /\ Cardinality({}) =< nothing
          /\ budget' = budget => budget' = [budget EXCEPT ![c] = @ - nothing]
  <2>1. budget' = budget => budget' = [budget EXCEPT ![c] = @ - 0]
    BY <1>1 DEF SitemapsInv, SitemapsTypeOK
  <2>2. QED
    BY <1>1, <1>3, <2>1
<1>5. CASE ServesIndex(c)
  <2>1. PICK locs \in IndexAt[Head(todo[c]).doc] : Visited(c, TRUE, {}, Kept(locs, Doc))
    BY <1>5 DEF ServesIndex
  <2>2. locs \in Seq(Doc \cup {Foreign})
    BY <1>2, SitemapsAssumption
  <2>3. Kept(locs, Doc) \in Seq(Doc)
    BY <2>2, KeptIsOfItsKind
  <2>4. /\ UNCHANGED <<verified, rows, logged, phase, target, counted, overlapped, hung>>
        /\ UNCHANGED budget
        /\ Head(todo[c]).depth =< MaxIndexDepth
    BY <1>5 DEF ServesIndex, Fetching
  <2>5. QED
    BY <1>1, <1>3, <1>4, <2>1, <2>3, <2>4, VisitKeepsSitemaps
<1>6. CASE ServesUrlset(c)
  <2>1. PICK locs \in UrlsetAt[Head(todo[c]).doc] :
           /\ Visited(c, TRUE, ToSet(Taken(c, locs)), <<>>)
           /\ budget' = [budget EXCEPT ![c] = @ - Len(Taken(c, locs))]
    BY <1>6 DEF ServesUrlset
  <2>2. locs \in Seq(Page \cup {Foreign})
    BY <1>2, SitemapsAssumption
  <2>3. /\ Taken(c, locs) \in Seq(Page) /\ Len(Taken(c, locs)) \in Nat
        /\ Len(Taken(c, locs)) =< budget[c]
    BY <1>1, <2>2, KeptIsOfItsKind, FirstOfIsOfItsKind DEF Taken
  <2>4. /\ ToSet(Taken(c, locs)) \in SUBSET Page /\ IsFiniteSet(ToSet(Taken(c, locs)))
        /\ Cardinality(ToSet(Taken(c, locs))) =< Len(Taken(c, locs))
    BY <2>3, MembersOfAList
  <2>5. /\ UNCHANGED <<verified, rows, logged, phase, target, counted, overlapped, hung>>
        /\ Head(todo[c]).depth =< MaxIndexDepth
        /\ <<>> \in Seq(Doc)
    BY <1>6 DEF ServesUrlset, Fetching
  <2>6. QED
    BY <1>1, <2>1, <2>3, <2>4, <2>5, VisitKeepsSitemaps
<1>7. CASE NestedFails(c)
  <2>1. Visited(c, FALSE, {}, <<>>)
    BY <1>7 DEF NestedFails
  <2>2. /\ UNCHANGED <<verified, rows, logged, phase, target, counted, overlapped, hung>>
        /\ UNCHANGED budget
    BY <1>7 DEF NestedFails
  <2>3. QED
    BY <1>1, <1>3, <1>4, <2>1, <2>2, VisitKeepsSitemaps
<1>8. QED
  BY <1>5, <1>6, <1>7

\* What a fetch stores fits in the limit, unless its count is out of date.
LEMMA StoreKeepsSitemaps ==
    ASSUME SitemapsInv, NEW c \in Fetch, Store(c)
    PROVE  SitemapsInv'
<1> USE DEF SitemapsInv, Store, Log, Proceed, walk
<1>1. c \in Request /\ Fetch \subseteq Request /\ phase[c] = "walking"
  BY DEF Request
<1>2. IsFiniteSet(FoundBy(c)) /\ IsFiniteSet(urls \cup FoundBy(c)) /\ FoundBy(c) \in SUBSET Page
  <2>1. IsFiniteSet(FoundBy(c)) /\ IsFiniteSet(urls)
    BY DEF BudgetIsShared, SitemapsTypeOK
  <2>2. IsFiniteSet(urls \cup FoundBy(c))
    BY <2>1, FS_Union
  <2>3. \A i \in DOMAIN nodes[c] : nodes[c][i] \in Nodes
    BY DEF SitemapsTypeOK
  <2>4. FoundBy(c) \in SUBSET Page
    BY <2>3 DEF FoundBy, Nodes
  <2>5. QED
    BY <2>1, <2>2, <2>4
<1>3. SitemapsTypeOK'
  <2>1. phase' \in [Request -> Phases] /\ logged' \in [Request -> SUBSET ({"started"} \cup Outcomes)]
    BY <1>1 DEF SitemapsTypeOK, Phases, Outcomes
  <2>2. sources' \in [Doc -> {"absent", "pending", "success", "failed"}]
    BY DEF SitemapsTypeOK
  <2>3. overlapped' \in BOOLEAN
    BY DEF SitemapsTypeOK
  <2>4. urls' \in SUBSET Page /\ IsFiniteSet(urls')
    BY <1>2 DEF SitemapsTypeOK
  <2>5. QED
    BY <2>1, <2>2, <2>3, <2>4 DEF SitemapsTypeOK
<1>4. CallsBegin'
  BY <1>1 DEF CallsBegin, SitemapsTypeOK
<1>5. OutcomesComeLast'
  BY <1>1 DEF OutcomesComeLast, SitemapsTypeOK, InFlight
<1>6. (TopComesFirst /\ NodesAreCounted /\ SuccessIsShallow /\ BudgetIsShared)'
  BY WalksUntouched
<1>7. OverrunNeedsOverlap'
  <2>1. SUFFICES ASSUME counted[c] = Cardinality(urls), ~overlapped
                 PROVE  ~(Cardinality(urls \cup FoundBy(c)) > MaxPerDomain)
    <3>1. overlapped' = (overlapped \/ counted[c] # Cardinality(urls)) /\ urls' = urls \cup FoundBy(c)
      OBVIOUS
    <3>2. overlapped \in BOOLEAN /\ overlapped' \in BOOLEAN
      BY <1>3 DEF SitemapsTypeOK
    <3> HIDE DEF Store
    <3>3. QED
      BY <3>1, <3>2 DEF OverrunNeedsOverlap
  <2>2. /\ Cardinality(urls) \in Nat /\ Cardinality(FoundBy(c)) \in Nat
        /\ Cardinality(urls \cap FoundBy(c)) \in Nat
        /\ Cardinality(urls \cup FoundBy(c))
             = Cardinality(urls) + Cardinality(FoundBy(c)) - Cardinality(urls \cap FoundBy(c))
    <3>1. IsFiniteSet(urls)
      BY DEF SitemapsTypeOK
    <3>2. IsFiniteSet(urls \cap FoundBy(c))
      BY <3>1, FS_Intersection
    <3>3. QED
      BY <1>2, <3>1, <3>2, FS_Union, FS_CardinalityType
  <2>3. MaxPerDomain \in Nat /\ budget[c] \in Nat
    BY SitemapsAssumption DEF SitemapsTypeOK
  <2>4. Cardinality(urls) =< MaxPerDomain
    BY <2>1, <2>2, <2>3 DEF OverrunNeedsOverlap
  <2>5. Smaller(MaxPerDomain, counted[c]) = Cardinality(urls)
    BY <2>1, <2>2, <2>3, <2>4 DEF Smaller
  <2>6. Cardinality(FoundBy(c)) + budget[c] =< MaxPerDomain - Cardinality(urls)
    BY <2>5 DEF BudgetIsShared
  <2>7. QED
    BY <2>2, <2>3, <2>6
<1>8. QED
  BY <1>3, <1>4, <1>5, <1>6, <1>7

\* A crash, a change of the domain, a redirect or a request that hangs touches
\* neither rows nor walks.
LEMMA OthersKeepSitemaps ==
    ASSUME SitemapsInv,
           \/ Crash \/ DomainChanges \/ UNCHANGED sitemapsVars
           \/ \E c \in Fetch : Redirected(c)
           \/ \E c \in Request : Hang(c)
    PROVE  SitemapsInv'
<1> USE DEF SitemapsInv, rows, walk
<1>1. CASE Crash
  <2>1. UNCHANGED <<verified, sources, urls, logged, target, counted, walk, overlapped, hung>>
    BY <1>1 DEF Crash
  <2>2. phase' = [c \in Request |-> IF phase[c] \in InFlight THEN "lost" ELSE phase[c]]
    BY <1>1 DEF Crash
  <2>3. /\ SitemapsTypeOK' /\ Fetch \subseteq Request
        /\ \A c \in Request : phase'[c] # phase[c] => phase'[c] = "lost"
    BY <2>1, <2>2 DEF SitemapsTypeOK, Phases, Request
  <2>4. (CallsBegin /\ OutcomesComeLast)'
    BY <2>1, <2>3 DEF CallsBegin, OutcomesComeLast, InFlight
  <2>5. (TopComesFirst /\ NodesAreCounted /\ SuccessIsShallow /\ BudgetIsShared)'
    BY <2>1, WalksUntouched
  <2>6. QED
    BY <2>1, <2>3, <2>4, <2>5 DEF OverrunNeedsOverlap
<1>2. CASE \/ DomainChanges \/ UNCHANGED sitemapsVars
           \/ \E c \in Fetch : Redirected(c)
           \/ \E c \in Request : Hang(c)
  <2>1. /\ UNCHANGED <<sources, urls, logged, phase, target, counted, budget, nested, todo, nodes, overlapped>>
        /\ verified' \in BOOLEAN
        /\ hops' \in [Fetch -> Nat]
        /\ hung' \in SUBSET Request
    <3>1. verified \in BOOLEAN /\ hops \in [Fetch -> Nat] /\ hung \in SUBSET Request
      BY DEF SitemapsTypeOK
    <3>2. CASE DomainChanges \/ UNCHANGED sitemapsVars
      BY <3>1, <3>2 DEF DomainChanges, sitemapsVars
    <3>3. CASE \E c \in Fetch : Redirected(c)
      BY <3>1, <3>3 DEF Redirected
    <3>4. CASE \E c \in Request : Hang(c)
      BY <3>1, <3>4 DEF Hang
    <3>5. QED
      BY <1>2, <3>2, <3>3, <3>4
  <2>2. SitemapsTypeOK'
    BY <2>1 DEF SitemapsTypeOK
  <2>3. (CallsBegin /\ OutcomesComeLast /\ TopComesFirst /\ NodesAreCounted /\ SuccessIsShallow)'
    BY <2>1 DEF CallsBegin, OutcomesComeLast, TopComesFirst, NodesAreCounted, SuccessIsShallow
  <2>4. \A f \in Fetch : FoundBy(f)' = FoundBy(f)
    BY <2>1 DEF FoundBy
  <2>5. (BudgetIsShared /\ OverrunNeedsOverlap)'
    BY <2>1, <2>4 DEF BudgetIsShared, OverrunNeedsOverlap
  <2>6. QED
    BY <2>2, <2>3, <2>5
<1>3. QED
  BY <1>1, <1>2

\* The invariant of Sitemaps is kept by every step and holds throughout.
LEMMA SitemapsStep ==
    ASSUME SitemapsInv, [SitemapsNext]_sitemapsVars
    PROVE  SitemapsInv'
<1>1. Fetch \subseteq Request /\ Scan \subseteq Request
  BY DEF Request
<1>2. CASE \E s \in Scan : BeginScan(s) \/ BeginFails(s) \/ ScanStep(s)
  BY <1>1, <1>2, CallsKeepSitemaps DEF ScanStep
<1>3. CASE \E c \in Fetch : (\E d \in Doc : BeginFetch(c, d)) \/ BeginFails(c) \/ FetchStep(c)
  BY <1>1, <1>3, CallsKeepSitemaps, ReadBudgetKeepsSitemaps, WalkingKeepsSitemaps,
     StoreKeepsSitemaps, OthersKeepSitemaps DEF FetchStep
<1>4. CASE (\E c \in Request : Hang(c)) \/ Crash \/ DomainChanges \/ UNCHANGED sitemapsVars
  BY <1>4, OthersKeepSitemaps
<1>5. QED
  BY <1>2, <1>3, <1>4 DEF SitemapsNext

\* ... and it holds at the start.
LEMMA SitemapsInvariant == SitemapsSpec => []SitemapsInv
<1>1. SitemapsInv /\ [SitemapsNext]_sitemapsVars => SitemapsInv'
  BY SitemapsStep
<1>2. QED
  BY SitemapsStart, <1>1, PTL DEF SitemapsSpec

\* Whatever documents list, themselves and each other included, a walk visits,
\* descends and takes no more than its limits (buildSitemapFetchTree).
THEOREM WalksAreBounded == SitemapsSpec => []WalkBounded
<1>1. SitemapsInv => WalkBounded
  <2> SUFFICES ASSUME SitemapsInv, NEW c \in Fetch
               PROVE  /\ Len(nodes[c]) =< 1 + MaxNested
                      /\ \A i \in DOMAIN nodes[c] :
                            nodes[c][i].success => nodes[c][i].depth =< MaxIndexDepth
                      /\ Cardinality(FoundBy(c)) + counted[c]
                           =< IF counted[c] > MaxPerDomain THEN counted[c] ELSE MaxPerDomain
    BY DEF WalkBounded
  <2>1. /\ Len(nodes[c]) \in Nat /\ nested[c] \in Nat
        /\ counted[c] \in Nat /\ budget[c] \in Nat
    BY DEF SitemapsInv, SitemapsTypeOK
  <2>2. MaxNested \in Nat /\ MaxPerDomain \in Nat
    BY SitemapsAssumption
  <2>3. Len(nodes[c]) =< 1 + MaxNested
    BY <2>1, <2>2 DEF SitemapsInv, NodesAreCounted
  <2>4. \A i \in DOMAIN nodes[c] : nodes[c][i].success => nodes[c][i].depth =< MaxIndexDepth
    BY DEF SitemapsInv, SuccessIsShallow
  <2>5. /\ Cardinality(FoundBy(c)) \in Nat
        /\ Cardinality(FoundBy(c)) + budget[c] =< MaxPerDomain - Smaller(MaxPerDomain, counted[c])
    BY FS_CardinalityType DEF SitemapsInv, BudgetIsShared
  <2>6. QED
    BY <2>1, <2>2, <2>3, <2>4, <2>5 DEF Smaller
<1>2. QED
  BY <1>1, SitemapsInvariant, PTL

\* The limit of a domain is overrun only by fetches that overlapped: a fetch
\* whose count is still true takes no more than what is left (countByDomain is
\* read before the walk, persistNode writes after it).
THEOREM OverrunsOverlap == SitemapsSpec => []OverrunNeedsOverlap
<1>1. SitemapsInv => OverrunNeedsOverlap
  BY DEF SitemapsInv
<1>2. QED
  BY <1>1, SitemapsInvariant, PTL

\* The body of ChangesAreRecorded.
RecordedTogether ==
    LET recorded == {c \in Request : logged'[c] \cap {"completed", "failed"}
                                       # logged[c] \cap {"completed", "failed"}}
    IN  /\ rows' # rows => Cardinality(recorded) = 1
        /\ recorded = {c \in Request : phase[c] \in InFlight /\ phase'[c] \in {"ok", "rejected"}}

\* A step that answers one call and logs its outcome.
LEMMA AnswersAreRecorded ==
    ASSUME SitemapsInv, NEW c \in Request, NEW o \in Outcomes, phase[c] \in InFlight,
           Log(c, o), Proceed(c, "ok") \/ Proceed(c, "rejected")
    PROVE  RecordedTogether
<1> DEFINE recorded == {b \in Request : logged'[b] \cap {"completed", "failed"}
                                          # logged[b] \cap {"completed", "failed"}}
           answered == {b \in Request : phase[b] \in InFlight /\ phase'[b] \in {"ok", "rejected"}}
<1>1. /\ logged \in [Request -> SUBSET ({"started"} \cup Outcomes)]
      /\ phase \in [Request -> Phases]
      /\ logged[c] \cap Outcomes = {}
  BY DEF SitemapsInv, SitemapsTypeOK, OutcomesComeLast
<1>2. logged'[c] = logged[c] \cup {o} /\ phase'[c] \in {"ok", "rejected"}
  BY <1>1 DEF Log, Proceed
<1>3. \A b \in Request : b # c => logged'[b] = logged[b] /\ phase'[b] = phase[b]
  BY <1>1 DEF Log, Proceed
<1>4. recorded = {c}
  BY <1>1, <1>2, <1>3 DEF Outcomes
<1>5. answered = {c}
  BY <1>2, <1>3 DEF InFlight
<1>6. Cardinality({c}) = 1
  BY FS_Singleton
<1>7. QED
  BY <1>4, <1>5, <1>6 DEF RecordedTogether

\* A step that logs no outcome, answers no call and leaves the rows alone.
LEMMA NothingIsRecorded ==
    ASSUME SitemapsInv, UNCHANGED rows,
           \A c \in Request : logged'[c] \cap Outcomes = logged[c] \cap Outcomes,
           \A c \in Request : phase[c] \in InFlight => phase'[c] \notin {"ok", "rejected"}
    PROVE  RecordedTogether
  BY DEF RecordedTogether, Outcomes

\* Every step is of one kind or the other.
LEMMA RecordedStep ==
    ASSUME SitemapsInv, [SitemapsNext]_sitemapsVars
    PROVE  RecordedTogether
<1>1. /\ Fetch \subseteq Request /\ Scan \subseteq Request
      /\ logged \in [Request -> SUBSET ({"started"} \cup Outcomes)]
      /\ phase \in [Request -> Phases]
  BY DEF Request, SitemapsInv, SitemapsTypeOK
<1>2. ASSUME NEW c \in Request, UNCHANGED rows, UNCHANGED logged \/ Log(c, "started"),
             NEW p \in Phases \ {"ok", "rejected"}, Proceed(c, p)
      PROVE  RecordedTogether
  <2>1. \A b \in Request : logged'[b] \cap Outcomes = logged[b] \cap Outcomes
    BY <1>1, <1>2 DEF Log, Outcomes
  <2>2. \A b \in Request : phase[b] \in InFlight => phase'[b] \notin {"ok", "rejected"}
    BY <1>1, <1>2 DEF Proceed, InFlight
  <2>3. QED
    BY <1>2, <2>1, <2>2, NothingIsRecorded
<1>3. ASSUME NEW c \in Scan, BeginScan(c)
      PROVE  RecordedTogether
  BY <1>1, <1>2, <1>3 DEF BeginScan, Phases, InFlight
<1>4. ASSUME NEW c \in Scan, StoreScan(c)
      PROVE  RecordedTogether
  BY <1>1, <1>4, AnswersAreRecorded DEF StoreScan, InFlight, Outcomes
<1>5. ASSUME NEW c \in Request, BeginFails(c) \/ StoreFails(c)
      PROVE  RecordedTogether
  <2>1. UNCHANGED rows /\ UNCHANGED logged /\ Proceed(c, "error")
    BY <1>5 DEF BeginFails, StoreFails
  <2>2. QED
    BY <1>2, <2>1 DEF Phases
<1>6. ASSUME NEW c \in Fetch, NEW d \in Doc, BeginFetch(c, d)
      PROVE  RecordedTogether
  BY <1>1, <1>2, <1>6 DEF BeginFetch, Phases, InFlight
<1>7. ASSUME NEW c \in Fetch, ReadBudget(c)
      PROVE  RecordedTogether
  BY <1>1, <1>2, <1>7 DEF ReadBudget, Phases, InFlight
<1>8. ASSUME NEW c \in Fetch, CountFails(c) \/ TopFails(c)
      PROVE  RecordedTogether
  BY <1>1, <1>2, <1>8 DEF CountFails, TopFails, Phases, InFlight
<1>9. ASSUME NEW c \in Fetch,
             Redirected(c) \/ ServesIndex(c) \/ ServesUrlset(c) \/ NestedFails(c)
      PROVE  RecordedTogether
  <2>1. UNCHANGED <<rows, logged, phase>>
    BY <1>9 DEF Redirected, ServesIndex, ServesUrlset, NestedFails
  <2>2. QED
    BY <2>1, NothingIsRecorded DEF InFlight
<1>10. ASSUME NEW c \in Fetch, Store(c)
       PROVE  RecordedTogether
  BY <1>1, <1>10, AnswersAreRecorded DEF Store, InFlight, Outcomes
<1>11. ASSUME NEW c \in Fetch, StoreFailure(c)
       PROVE  RecordedTogether
  BY <1>1, <1>11, AnswersAreRecorded DEF StoreFailure, InFlight, Outcomes
<1>12. CASE Crash
  <2>1. UNCHANGED rows /\ UNCHANGED logged
    BY <1>12 DEF Crash
  <2>2. \A b \in Request : phase[b] \in InFlight => phase'[b] = "lost"
    BY <1>12 DEF Crash
  <2>3. QED
    BY <2>1, <2>2, NothingIsRecorded
<1>13. CASE (\E c \in Request : Hang(c)) \/ DomainChanges \/ UNCHANGED sitemapsVars
  <2>1. UNCHANGED <<rows, logged, phase>>
    BY <1>13 DEF Hang, DomainChanges, sitemapsVars, rows
  <2>2. QED
    BY <2>1, NothingIsRecorded DEF InFlight
<1>14. CASE \E s \in Scan : BeginScan(s) \/ BeginFails(s) \/ ScanStep(s)
  BY <1>1, <1>3, <1>4, <1>5, <1>14 DEF ScanStep
<1>15. CASE \E c \in Fetch : (\E d \in Doc : BeginFetch(c, d)) \/ BeginFails(c) \/ FetchStep(c)
  BY <1>1, <1>5, <1>6, <1>7, <1>8, <1>9, <1>10, <1>11, <1>15 DEF FetchStep
<1>16. QED
  BY <1>12, <1>13, <1>14, <1>15 DEF SitemapsNext

\* Rows, an outcome in the trail and the answer of a call come in one step,
\* or not at all (runAuditedTransaction).
THEOREM ChangesComeRecorded == SitemapsSpec => ChangesAreRecorded
<1>1. SitemapsInv /\ [SitemapsNext]_sitemapsVars => RecordedTogether
  BY RecordedStep
<1>2. QED
  BY <1>1, SitemapsInvariant, PTL DEF SitemapsSpec, ChangesAreRecorded, RecordedTogether

\* The body of WalksUseUp, for one call.
UsesUp(c) ==
    \/ UNCHANGED <<todo[c], nodes[c], hops[c]>>
    \/ Len(nodes'[c]) = Len(nodes[c]) + 1 /\ Len(nodes'[c]) =< 1 + MaxNested
    \/ /\ UNCHANGED <<todo[c], nodes[c]>>
       /\ hops'[c] = hops[c] + 1 /\ hops'[c] =< MaxRedirects

\* A visit adds one node, and the nodes are still within their limit.
LEMMA VisitsUseUp ==
    ASSUME SitemapsInv, NEW c \in Fetch, NEW b \in Fetch,
           ServesIndex(b) \/ ServesUrlset(b) \/ NestedFails(b)
    PROVE  UsesUp(c)
<1>1. /\ nodes \in [Fetch -> Seq(Nodes)] /\ todo \in [Fetch -> Seq(Visits)]
      /\ hops \in [Fetch -> Nat]
  BY DEF SitemapsInv, SitemapsTypeOK
<1>2. PICK success, pages, entries : Visited(b, success, pages, entries)
  BY DEF ServesIndex, ServesUrlset, NestedFails
<1>3. CASE c # b
  BY <1>1, <1>2, <1>3 DEF Visited, UsesUp
<1>4. CASE c = b
  <2>1. PICK node : nodes' = [nodes EXCEPT ![b] = Append(@, node)]
    BY <1>2 DEF Visited
  <2>2. nodes'[c] = Append(nodes[c], node) /\ nodes[c] \in Seq(Nodes)
    BY <1>1, <1>4, <2>1
  <2>3. Len(nodes'[c]) = Len(nodes[c]) + 1
    BY <2>2
  <2>4. /\ Len(nodes'[c]) \in Nat /\ nested'[c] \in Nat /\ MaxNested \in Nat
        /\ Len(nodes'[c]) =< 1 + nested'[c] /\ nested'[c] =< MaxNested
    <3>1. SitemapsInv'
      BY WalkingKeepsSitemaps
    <3>2. QED
      BY <3>1, SitemapsAssumption DEF SitemapsInv, SitemapsTypeOK, NodesAreCounted
  <2>5. QED
    BY <2>3, <2>4 DEF UsesUp
<1>5. QED
  BY <1>3, <1>4

\* Whatever a site answers, every step of a walk uses up one of finitely many
\* visits, or one of finitely many redirects between two of them, and nothing
\* gives them back: indexes that list each other and redirects in a circle end
\* (nestedCount of buildSitemapFetchTree, maxRedirects of safeFetch).
THEOREM WalksComeToAnEnd == SitemapsSpec => WalksUseUp
<1>1. ASSUME SitemapsInv, [SitemapsNext]_sitemapsVars, NEW c \in Fetch, phase[c] = "walking"
      PROVE  UsesUp(c)
  <2>1. ASSUME NEW b \in Fetch, Redirected(b)
        PROVE  UsesUp(c)
    <3>1. hops \in [Fetch -> Nat]
      BY <1>1 DEF SitemapsInv, SitemapsTypeOK
    <3>2. MaxRedirects \in Nat
      BY SitemapsAssumption
    <3>3. QED
      BY <2>1, <3>1, <3>2 DEF Redirected, UsesUp
  <2>2. ASSUME NEW b \in Fetch, ReadBudget(b)
        PROVE  UsesUp(c)
    <3>1. b # c /\ todo \in [Fetch -> Seq(Visits)]
      BY <1>1, <2>2 DEF ReadBudget, SitemapsInv, SitemapsTypeOK
    <3>2. QED
      BY <2>2, <3>1 DEF ReadBudget, UsesUp
  <2>3. CASE UNCHANGED walk
    BY <2>3 DEF walk, UsesUp
  <2>4. CASE \E s \in Scan : BeginScan(s) \/ BeginFails(s) \/ ScanStep(s)
    BY <2>3, <2>4 DEF BeginScan, BeginFails, ScanStep, StoreScan, StoreFails
  <2>5. ASSUME NEW b \in Fetch, (\E d \in Doc : BeginFetch(b, d)) \/ BeginFails(b) \/ FetchStep(b)
        PROVE  UsesUp(c)
    BY <1>1, <2>1, <2>2, <2>3, <2>5, VisitsUseUp
       DEF BeginFetch, BeginFails, FetchStep, CountFails, TopFails, Store, StoreFailure, StoreFails
  <2>6. CASE (\E b \in Request : Hang(b)) \/ Crash \/ DomainChanges \/ UNCHANGED sitemapsVars
    BY <2>3, <2>6 DEF Hang, Crash, DomainChanges, sitemapsVars
  <2>7. QED
    BY <1>1, <2>4, <2>5, <2>6 DEF SitemapsNext
<1>2. SitemapsInv /\ [SitemapsNext]_sitemapsVars =>
        [\A c \in Fetch : phase[c] = "walking" => UsesUp(c)]_sitemapsVars
  BY <1>1
<1>3. QED
  BY <1>2, SitemapsInvariant, PTL DEF SitemapsSpec, WalksUseUp, UsesUp
=============================================================================
