---------------------------- MODULE ApiKeysProofs ----------------------------
(***************************************************************************)
(* Proofs about ApiKeys for every number of keys and calls.                *)
(*                                                                         *)
(* A key that was disabled stays disabled, because no transaction sets the *)
(* flag of a key that has a row and a deleted row never returns.  The lock *)
(* makes the rest follow: while a rotation holds it nobody disables or     *)
(* deletes the key, so the key it replaces is alive when it commits and    *)
(* has no successor yet.                                                   *)
(***************************************************************************)
EXTENDS ApiKeys, TLAPS

\* Nothing refers to an id that was not given out.
FreshIds ==
    \A k \in Key \ issued :
        /\ rotatedTo[k] = NoKey
        /\ rotatedFrom[k] = NoKey
        /\ \A i \in Key : rotatedTo[i] # k /\ rotatedFrom[i] # k

\* A key with a link forward, and one a successor points back to, is dead.
LinkedKeysDead ==
    /\ \A k \in enabled : rotatedTo[k] = NoKey
    /\ \A j \in Key : rotatedFrom[j] # NoKey
                          => rotatedFrom[j] \in issued \ enabled

\* What each call may rely on where it is.
CallsInStep ==
    \A q \in Request :
        /\ pc[q] \in {"revoking", "updating"} => target[q] \in issued /\ seen[q] = NoKey
        /\ pc[q] = "rotating" => target[q] \in issued
        /\ pc[q] = "locked" => target[q] \in enabled /\ lock[target[q]] = q
        /\ pc[q] \in {"revoked", "already_revoked", "rotated", "already_rotated"}
              => target[q] \in issued \ enabled

Lineage ==
    /\ \A i, j \in Key :
          rotatedFrom[i] = rotatedFrom[j] /\ rotatedFrom[i] # NoKey => i = j
    /\ \A j \in Key : rotatedFrom[j] # NoKey =>
          rotatedTo[rotatedFrom[j]] \in {j, NoKey}
    /\ \A k \in Key : rotatedTo[k] # NoKey => rotatedFrom[rotatedTo[k]] = k

IInv ==
    /\ TypeOK
    /\ FreshIds
    /\ LinkedKeysDead
    /\ CallsInStep
    /\ Lineage
    /\ SignalsAgree
    /\ AuditExplainsKeys

LEMMA EventsDiffer ==
    \A a, b, k, j :
        /\ Event(a, k).action = a
        /\ Event(a, k).key = k
        /\ Event(a, k) = Event(b, j) => a = b /\ k = j
BY DEF Event

LEMMA IInvInit == Init => IInv
<1> SUFFICES ASSUME Init
             PROVE  IInv
  OBVIOUS
<1>1. TypeOK
  BY DEF Init, TypeOK, UnderWay
<1>2. FreshIds /\ LinkedKeysDead /\ CallsInStep /\ Lineage
  BY ApiKeysAssumption DEF Init, FreshIds, LinkedKeysDead, CallsInStep, Lineage
<1>3. SignalsAgree /\ AuditExplainsKeys
  BY DEF Init, Stored, SignalsAgree, AuditExplainsKeys
<1>4. QED
  BY <1>1, <1>2, <1>3 DEF IInv

-----------------------------------------------------------------------------
(* One lemma per action that changes the rows. *)

LEMMA CreateKeeps ==
    ASSUME IInv, NEW q \in Request, NEW k \in Key, Create(q, k)
    PROVE  IInv'
<1> USE DEF Create, Goto, IInv
<1>1. TypeOK'
  BY DEF TypeOK, Stored, UnderWay, Answer, Event
<1>2. FreshIds' /\ LinkedKeysDead' /\ Lineage'
  BY DEF TypeOK, FreshIds, LinkedKeysDead, Lineage
<1>3. CallsInStep'
  BY DEF TypeOK, CallsInStep
<1>4. SignalsAgree'
  BY DEF TypeOK, Stored, SignalsAgree
<1>5. AuditExplainsKeys'
  <2>1. \A e \in audit : e.key # k
    BY DEF AuditExplainsKeys
  <2>2. \A i \in issued : rotatedFrom[i] = rotatedFrom'[i]
    OBVIOUS
  <2>3. QED
    BY <2>1, <2>2, EventsDiffer DEF TypeOK, Stored, AuditExplainsKeys
<1>6. QED
  BY <1>1, <1>2, <1>3, <1>4, <1>5

LEMMA RevokeKeeps ==
    ASSUME IInv, NEW q \in Request, RevokeCommit(q)
    PROVE  IInv'
<1> DEFINE k == target[q]
<1>1. k \in issued /\ k \in Key /\ seen[q] = NoKey /\ lock[k] = NoRequest
  BY DEF RevokeCommit, Goto, Unlocked, IInv, CallsInStep, TypeOK
<1>2. k \notin Stored => k \in gone /\ k \notin enabled
  BY <1>1 DEF IInv, TypeOK, Stored
<1>3. CASE k \in Stored
  <2> USE DEF RevokeCommit, SetRevoked, Goto, IInv
  <2>1. TypeOK'
    BY <1>1, <1>3 DEF TypeOK, Stored, UnderWay, Answer, Event
  <2>2. FreshIds' /\ LinkedKeysDead'
    BY <1>1, <1>3 DEF TypeOK, Stored, FreshIds, LinkedKeysDead
  <2>3. Lineage'
    BY <1>1, <1>3 DEF TypeOK, Lineage
  <2>4. CallsInStep'
    <3> SUFFICES ASSUME NEW p \in Request
                 PROVE  CallsInStep!(p)'
      BY DEF CallsInStep
    <3>1. CASE p = q
      BY <1>1, <1>3, <3>1 DEF TypeOK, CallsInStep
    <3>2. CASE p # q
      <4>1. pc[p] = "locked" => target[p] # k
        BY <1>1, <3>2, ApiKeysAssumption DEF CallsInStep
      <4>2. QED
        BY <1>1, <1>3, <3>2, <4>1 DEF TypeOK, CallsInStep
    <3>3. QED
      BY <3>1, <3>2
  <2>5. SignalsAgree'
    BY <1>1, <1>3 DEF TypeOK, Stored, SignalsAgree
  <2>6. AuditExplainsKeys'
    BY <1>1, <1>3, EventsDiffer DEF TypeOK, Stored, AuditExplainsKeys
  <2>7. QED
    BY <2>1, <2>2, <2>3, <2>4, <2>5, <2>6
<1>4. CASE k \notin Stored
  <2> USE DEF RevokeCommit, Goto, rows, IInv
  <2>1. TypeOK'
    BY <1>1, <1>4 DEF TypeOK, Stored, UnderWay, Answer, Event
  <2>2. CallsInStep'
    BY <1>1, <1>2, <1>4 DEF TypeOK, CallsInStep
  <2>3. AuditExplainsKeys'
    BY <1>1, <1>2, <1>4, EventsDiffer DEF TypeOK, Stored, AuditExplainsKeys
  <2>4. QED
    BY <1>4, <2>1, <2>2, <2>3 DEF FreshIds, LinkedKeysDead, Lineage, SignalsAgree, Stored
<1>5. QED
  BY <1>3, <1>4

\* The row of an expired key goes, and with it the flag.
LEMMA DeleteKeeps ==
    ASSUME IInv, NEW k \in Key, Delete(k)
    PROVE  IInv'
<1> USE DEF Delete, IInv, calls
<1>1. TypeOK'
  BY DEF TypeOK, Stored
<1>2. k \in issued
  BY DEF TypeOK
<1>3. FreshIds' /\ LinkedKeysDead' /\ Lineage'
  BY DEF FreshIds, LinkedKeysDead, Lineage
<1>4. CallsInStep'
  BY <1>2, ApiKeysAssumption DEF Unlocked, CallsInStep
<1>5. SignalsAgree' /\ AuditExplainsKeys'
  BY <1>2 DEF TypeOK, Stored, SignalsAgree, AuditExplainsKeys
<1>6. QED
  BY <1>1, <1>3, <1>4, <1>5

LEMMA RotateKeeps ==
    ASSUME IInv, NEW q \in Request, NEW j \in Key, RotateCommit(q, j)
    PROVE  IInv'
<1> DEFINE k == target[q]
<1>1. /\ k \in enabled /\ k \in issued /\ k \in Key /\ k # j /\ j \notin issued
      /\ lock[k] = q
  BY DEF RotateCommit, Replaces, Goto, IInv, CallsInStep, TypeOK, Stored
<1>2. /\ rotatedTo[k] = NoKey /\ rotatedFrom[j] = NoKey
      /\ \A i \in Key : rotatedFrom[i] # k /\ rotatedFrom[i] # j /\ rotatedTo[i] # j
  BY <1>1, ApiKeysAssumption DEF IInv, LinkedKeysDead, FreshIds
<1> USE DEF RotateCommit, Replaces, Goto, IInv
<1>3. TypeOK'
  BY <1>1 DEF TypeOK, Stored, UnderWay, Answer, Event
<1>4. FreshIds' /\ LinkedKeysDead'
  BY <1>1, <1>2 DEF TypeOK, FreshIds, LinkedKeysDead
<1>5. Lineage'
  BY <1>1, <1>2, ApiKeysAssumption DEF TypeOK, Lineage
<1>6. CallsInStep'
  BY <1>1, ApiKeysAssumption DEF TypeOK, CallsInStep
<1>7. SignalsAgree'
  BY <1>1 DEF TypeOK, Stored, SignalsAgree
<1>8. AuditExplainsKeys'
  <2>1. \A e \in audit : e.key # j
    BY <1>1 DEF AuditExplainsKeys
  <2>2. QED
    BY <1>1, <1>2, <2>1, EventsDiffer DEF TypeOK, Stored, AuditExplainsKeys
<1>9. QED
  BY <1>3, <1>4, <1>5, <1>6, <1>7, <1>8

\* The steps that change no link, flag or event.
LEMMA OthersKeep ==
    ASSUME IInv,
           NEW q \in Request, NEW k \in Key,
           \/ RevokeRead(q, k) \/ RevokeReadAgain(q)
           \/ RotateRead(q, k) \/ RotateLock(q)
           \/ Abort(q) \/ Expire(k) \/ UNCHANGED vars
    PROVE  IInv'
<1> USE DEF IInv, Goto, rows, calls
<1>1. CASE RevokeRead(q, k) \/ RotateRead(q, k)
  <2>1. TypeOK'
    BY <1>1 DEF RevokeRead, RotateRead, TypeOK, Stored, UnderWay, Answer
  <2>2. CallsInStep'
    BY <1>1 DEF RevokeRead, RotateRead, TypeOK, Stored, CallsInStep, LinkedKeysDead
  <2>3. AuditExplainsKeys'
    BY <1>1 DEF RevokeRead, RotateRead, TypeOK, Stored, AuditExplainsKeys
  <2>4. QED
    BY <1>1, <2>1, <2>2, <2>3 DEF RevokeRead, RotateRead, FreshIds, LinkedKeysDead,
                                  Lineage, SignalsAgree, Stored
<1>2. CASE RevokeReadAgain(q)
  <2>1. target[q] \notin Stored => target[q] \in gone /\ target[q] \notin enabled
    BY <1>2 DEF RevokeReadAgain, TypeOK, Stored, CallsInStep
  <2>2. TypeOK'
    BY <1>2 DEF RevokeReadAgain, TypeOK, Stored, UnderWay, Answer
  <2>3. CallsInStep'
    BY <1>2, <2>1 DEF RevokeReadAgain, TypeOK, CallsInStep
  <2>4. AuditExplainsKeys'
    BY <1>2, <2>1 DEF RevokeReadAgain, TypeOK, Stored, AuditExplainsKeys
  <2>5. QED
    BY <1>2, <2>2, <2>3, <2>4 DEF RevokeReadAgain, FreshIds, LinkedKeysDead,
                                  Lineage, SignalsAgree, Stored
<1>3. CASE RotateLock(q)
  <2>1. TypeOK'
    BY <1>3 DEF RotateLock, TypeOK, Stored, UnderWay, Answer
  <2>2. CallsInStep'
    BY <1>3, ApiKeysAssumption
       DEF RotateLock, Unlocked, TypeOK, Stored, CallsInStep, SignalsAgree,
           LinkedKeysDead
  <2>3. AuditExplainsKeys'
    BY <1>3 DEF RotateLock, TypeOK, Stored, AuditExplainsKeys
  <2>4. QED
    BY <1>3, <2>1, <2>2, <2>3 DEF RotateLock, FreshIds, LinkedKeysDead,
                                  Lineage, SignalsAgree, Stored
<1>4. CASE Abort(q)
  <2>1. TypeOK'
    BY <1>4 DEF Abort, TypeOK, Stored, UnderWay, Answer
  <2>2. CallsInStep'
    <3> SUFFICES ASSUME NEW p \in Request
                 PROVE  CallsInStep!(p)'
      BY DEF CallsInStep
    <3>1. CASE p = q
      BY <1>4, <3>1 DEF Abort, TypeOK, CallsInStep
    <3>2. CASE p # q
      BY <1>4, <3>2 DEF Abort, TypeOK, Stored, CallsInStep
    <3>3. QED
      BY <3>1, <3>2
  <2>3. AuditExplainsKeys'
    BY <1>4 DEF Abort, TypeOK, Stored, AuditExplainsKeys
  <2>4. QED
    BY <1>4, <2>1, <2>2, <2>3 DEF Abort, FreshIds, LinkedKeysDead,
                                  Lineage, SignalsAgree, Stored
<1>5. CASE Expire(k) \/ UNCHANGED vars
  BY <1>5 DEF Expire, vars, TypeOK, Stored, FreshIds, LinkedKeysDead, CallsInStep,
              Lineage, SignalsAgree, AuditExplainsKeys
<1>6. QED
  BY <1>1, <1>2, <1>3, <1>4, <1>5

LEMMA IInvStep == IInv /\ [Next]_vars => IInv'
<1> SUFFICES ASSUME IInv, [Next]_vars
             PROVE  IInv'
  OBVIOUS
<1>1. ASSUME NEW q \in Request, NEW k \in Key,
             \/ Create(q, k) \/ RevokeRead(q, k)
             \/ RotateRead(q, k) \/ RotateCommit(q, k)
      PROVE  IInv'
  BY <1>1, CreateKeeps, RotateKeeps, OthersKeep
<1>2. ASSUME NEW q \in Request, RevokeCommit(q)
      PROVE  IInv'
  BY <1>2, RevokeKeeps
<1>3. ASSUME NEW q \in Request,
             RevokeReadAgain(q) \/ RotateLock(q) \/ Abort(q)
      PROVE  IInv'
  <2>1. target[q] \in Key
    BY <1>3 DEF RevokeReadAgain, RotateLock, Abort, IInv, CallsInStep, TypeOK, Stored
  <2>2. QED
    BY <1>3, <2>1, OthersKeep
<1>4. ASSUME NEW k \in Key, Delete(k)
      PROVE  IInv'
  BY <1>4, DeleteKeeps
<1>5. ASSUME NEW k \in Key, Expire(k)
      PROVE  IInv'
  BY <1>5 DEF Expire, IInv, calls, TypeOK, Stored, FreshIds, LinkedKeysDead,
              CallsInStep, Lineage, SignalsAgree, AuditExplainsKeys
<1>6. CASE UNCHANGED vars
  BY <1>6 DEF vars, rows, calls, IInv, TypeOK, Stored, FreshIds, LinkedKeysDead,
              CallsInStep, Lineage, SignalsAgree, AuditExplainsKeys
<1>7. QED
  BY <1>1, <1>2, <1>3, <1>4, <1>5, <1>6 DEF Next, Finished

LEMMA Invariance == Spec => []IInv
BY IInvInit, IInvStep, PTL DEF Spec

-----------------------------------------------------------------------------

\* The rows, the locks and the calls always have their shape.
THEOREM TypeCorrect == Spec => []TypeOK
<1>1. IInv => TypeOK
  BY DEF IInv
<1>2. QED
  BY <1>1, Invariance, PTL

\* A key of which a caller was told that it is revoked or was rotated is
\* never accepted for a render again.
THEOREM DeadKeysStayDead == Spec => []AnsweredKeysStayDead
<1>1. IInv => AnsweredKeysStayDead
  BY DEF IInv, CallsInStep, AnsweredKeysStayDead, Accepted
<1>2. QED
  BY <1>1, Invariance, PTL

\* However many rotations of a key overlap, it has at most one successor, and
\* it is dead from the moment it has one.
THEOREM RotationIsExclusive == Spec => []OneSuccessor
<1>1. IInv => OneSuccessor
  BY DEF IInv, Lineage, LinkedKeysDead, OneSuccessor, Accepted
<1>2. QED
  BY <1>1, Invariance, PTL

\* The flag and the metadata never disagree about a dead key.
THEOREM SignalsNeverSplit == Spec => []SignalsAgree
<1>1. IInv => SignalsAgree
  BY DEF IInv
<1>2. QED
  BY <1>1, Invariance, PTL

\* The audit trail explains how every key came to be and, unless its row was
\* deleted when it had expired, how it died.
THEOREM KeysAreExplained == Spec => []AuditExplainsKeys
<1>1. IInv => AuditExplainsKeys
  BY DEF IInv
<1>2. QED
  BY <1>1, Invariance, PTL

-----------------------------------------------------------------------------

LEMMA RingStep == IInv /\ [Next]_vars => [Ring!Next]_Ring!vars
<1> SUFFICES ASSUME IInv, [Next]_vars
             PROVE  [Ring!Next]_Ring!vars
  OBVIOUS
<1>1. ASSUME NEW q \in Request, NEW k \in Key, Create(q, k)
      PROVE  Ring!Issue(k)
  BY <1>1 DEF Create, Ring!Issue
<1>2. ASSUME NEW q \in Request, NEW j \in Key, RotateCommit(q, j)
      PROVE  target[q] \in Key /\ Ring!Replace(target[q], j)
  BY <1>2 DEF RotateCommit, Replaces, Goto, Ring!Replace, IInv, CallsInStep, TypeOK, Stored
<1>3. ASSUME NEW q \in Request, RevokeCommit(q)
      PROVE  target[q] \in Key /\ (Ring!Retire(target[q]) \/ UNCHANGED Ring!vars)
  BY <1>3 DEF RevokeCommit, SetRevoked, Goto, Ring!Retire, Ring!vars, rows, IInv,
              CallsInStep, TypeOK
<1>4. ASSUME NEW k \in Key, Delete(k)
      PROVE  Ring!Retire(k)
  BY <1>4 DEF Delete, Ring!Retire
<1>5. CASE \/ \E q \in Request, k \in Key : RevokeRead(q, k) \/ RotateRead(q, k)
           \/ \E q \in Request : RevokeReadAgain(q) \/ RotateLock(q) \/ Abort(q)
           \/ \E k \in Key : Expire(k)
           \/ UNCHANGED vars
  BY <1>5 DEF RevokeRead, RevokeReadAgain, RotateRead, RotateLock, Abort, Expire,
              vars, rows, Ring!vars
<1>6. QED
  BY <1>1, <1>2, <1>3, <1>4, <1>5 DEF Next, Finished, Ring!Next

\* Every commit and every deletion issues a key, retires one, or trades a
\* live key for a new one.
THEOREM RowsImplementRing == Spec => ImplementsKeyRing
<1>1. Init => Ring!Init
  BY DEF Init, Ring!Init
<1>2. QED
  BY <1>1, RingStep, Invariance, PTL DEF Spec, ImplementsKeyRing, Ring!Spec
=============================================================================
