------------------------------- MODULE ApiKeys -------------------------------
(***************************************************************************)
(* Creation, revocation and rotation of the API keys of one project        *)
(* (src/services/api-key-service.ts on                                     *)
(* src/repositories/postgres/api-key-repository.ts), and what the render   *)
(* route accepts of them (src/services/render-api-key-auth-service.ts).    *)
(*                                                                         *)
(* A Request is one call of the management API.  Each SELECT outside a     *)
(* transaction is a step.  A transaction is the step that commits it, and  *)
(* one that takes a row lock before it decides has a step for that too; it *)
(* can be rolled back at any point, by an error or by the process's death. *)
(* The other transactions and readers see what was committed.  The row of  *)
(* a key that is verified after it has expired is deleted, and any step of *)
(* a call may find it gone.                                                *)
(***************************************************************************)
EXTENDS FiniteSets

CONSTANTS Key,       \* ids of keys, as randomUUID gives them out
          Request,   \* management calls
          NoKey,     \* null in a link of the metadata, or of no call
          NoRequest  \* holder of a free row lock

ASSUME ApiKeysAssumption == NoKey \notin Key /\ NoRequest \notin Request

VARIABLES issued,     \* ids that were given out
          gone,       \* of those, the ones whose row was deleted
          enabled,    \* keys that have a row and are enabled
          expired,    \* keys whose expiresAt has passed
          revokedAt,  \* keys whose metadata says, or said, when they were revoked
          rotatedTo,  \* rotatedToKeyId of each key's metadata
          rotatedFrom,\* rotatedFromKeyId of each key's metadata
          audit,      \* committed audit events about keys
          lock,       \* holder of the lock on each row
          pc,         \* where each call is, or the answer it got
          target,     \* the key each call is about
          seen        \* rotatedToKeyId in the metadata that a revocation read

rows == <<issued, gone, enabled, expired, revokedAt, rotatedTo, rotatedFrom>>
calls == <<pc, target, seen>>
vars == <<rows, audit, lock, calls>>

Init ==
    /\ issued = {}
    /\ gone = {}
    /\ enabled = {}
    /\ expired = {}
    /\ revokedAt = {}
    /\ rotatedTo = [k \in Key |-> NoKey]
    /\ rotatedFrom = [k \in Key |-> NoKey]
    /\ audit = {}
    /\ lock = [k \in Key |-> NoRequest]
    /\ pc = [q \in Request |-> "new"]
    /\ target = [q \in Request |-> NoKey]
    /\ seen = [q \in Request |-> NoKey]

Event(action, k) == [action |-> action, key |-> k]

Goto(q, from, to) ==
    /\ pc[q] = from
    /\ pc' = [pc EXCEPT ![q] = to]

-----------------------------------------------------------------------------
(* Faulty variants of the definitions below: mistakes the code could have   *)
(* made, kept to check that the properties notice them.                     *)

\* The audit row is written after the transaction and may be lost.
RevokeCommitUnaudited(q) ==
    /\ Goto(q, "updating", "revoked")
    /\ lock[target[q]] = NoRequest
    /\ target[q] \notin gone
    /\ enabled' = enabled \ {target[q]}
    /\ revokedAt' = revokedAt \cup {target[q]}
    /\ rotatedTo' = [rotatedTo EXCEPT ![target[q]] = seen[q]]
    /\ UNCHANGED <<issued, gone, expired, rotatedFrom, audit, lock, target, seen>>

\* The rotated key is left enabled until its successor is used.
ReplacesKeepingOld(k, j) ==
    /\ j \notin issued
    /\ issued' = issued \cup {j}
    /\ enabled' = enabled \cup {j}
    /\ UNCHANGED <<gone, revokedAt>>
    /\ rotatedTo' = [rotatedTo EXCEPT ![k] = j]
    /\ rotatedFrom' = [rotatedFrom EXCEPT ![j] = k]

\* A rotation that failed repairs the old key instead of rolling back.
AbortRestoresKey(q) ==
    /\ pc[q] \in {"revoking", "updating", "rotating", "locked"}
    /\ target[q] \notin gone
    /\ pc' = [pc EXCEPT ![q] = "error"]
    /\ enabled' = enabled \cup {target[q]}
    /\ revokedAt' = revokedAt \ {target[q]}
    /\ rotatedTo' = [rotatedTo EXCEPT ![target[q]] = NoKey]
    /\ lock' = [k \in Key |-> IF lock[k] = q THEN NoRequest ELSE lock[k]]
    /\ UNCHANGED <<issued, gone, expired, rotatedFrom, audit, target, seen>>

-----------------------------------------------------------------------------
(* Rows *)

Stored == issued \ gone

Unlocked(k) == lock[k] = NoRequest

\* What the successor of a rotation adds and what it takes from the old key.
Replaces(k, j) ==
    /\ j \notin issued
    /\ issued' = issued \cup {j}
    /\ enabled' = (enabled \ {k}) \cup {j}
    /\ revokedAt' = revokedAt \cup {k}
    /\ rotatedTo' = [rotatedTo EXCEPT ![k] = j]
    /\ rotatedFrom' = [rotatedFrom EXCEPT ![j] = k]
    /\ UNCHANGED gone

-----------------------------------------------------------------------------
(* createKey *)

\* The row and its audit event are inserted in one transaction.
Create(q, k) ==
    /\ Goto(q, "new", "created")
    /\ k \notin issued
    /\ issued' = issued \cup {k}
    /\ enabled' = enabled \cup {k}
    /\ audit' = audit \cup {Event("created", k)}
    /\ target' = [target EXCEPT ![q] = k]
    /\ UNCHANGED <<gone, expired, revokedAt, rotatedTo, rotatedFrom, lock, seen>>

-----------------------------------------------------------------------------
(* revokeKey *)

\* The row is read, and the metadata to write is made from what was read.
RevokeRead(q, k) ==
    /\ pc[q] = "new"
    /\ pc' = [pc EXCEPT ![q] = IF k \notin Stored THEN "not_found"
                               ELSE IF k \notin enabled THEN "already_revoked"
                               ELSE "revoking"]
    /\ target' = [target EXCEPT ![q] = k]
    /\ seen' = [seen EXCEPT ![q] = rotatedTo[k]]
    /\ UNCHANGED <<rows, audit, lock>>

\* The repository reads the row again.  If it has been deleted since, nothing
\* is written, and the service answers as if it had been: it does not look at
\* what the repository returns.
RevokeReadAgain(q) ==
    /\ pc[q] = "revoking"
    /\ pc' = [pc EXCEPT ![q] = IF target[q] \in Stored THEN "updating" ELSE "revoked"]
    /\ UNCHANGED <<rows, audit, lock, target, seen>>

SetRevoked(k, to) ==
    /\ enabled' = enabled \ {k}
    /\ revokedAt' = revokedAt \cup {k}
    /\ rotatedTo' = [rotatedTo EXCEPT ![k] = to]
    /\ UNCHANGED <<issued, gone, expired, rotatedFrom>>

\* UPDATE waits for a lock on the row and then overwrites whatever the row
\* has become; if it is gone, no row is updated.  The event is inserted in
\* either case.
RevokeCommit(q) ==
    /\ Goto(q, "updating", "revoked")
    /\ Unlocked(target[q])
    /\ \/ target[q] \in Stored /\ SetRevoked(target[q], seen[q])
       \/ target[q] \notin Stored /\ UNCHANGED rows
    /\ audit' = audit \cup {Event("revoked", target[q])}
    /\ UNCHANGED <<lock, target, seen>>

-----------------------------------------------------------------------------
(* rotateKey *)

\* The pre-check outside the transaction.
RotateRead(q, k) ==
    /\ pc[q] = "new"
    /\ pc' = [pc EXCEPT ![q] = IF k \in Stored THEN "rotating" ELSE "not_found"]
    /\ target' = [target EXCEPT ![q] = k]
    /\ UNCHANGED <<rows, audit, lock, seen>>

\* SELECT ... FOR UPDATE, which returns no row if it is gone by now.  A
\* refusal ends the transaction and frees the row.
RotateLock(q) ==
    LET k == target[q]
        refusal == IF k \notin Stored THEN "not_found"
                   ELSE IF k \notin enabled \/ k \in revokedAt THEN "already_revoked"
                   ELSE IF rotatedTo[k] # NoKey THEN "already_rotated"
                   ELSE IF k \in expired THEN "expired" ELSE "none"
    IN  /\ pc[q] = "rotating"
        /\ Unlocked(k)
        /\ IF refusal = "none"
           THEN /\ lock' = [lock EXCEPT ![k] = q]
                /\ pc' = [pc EXCEPT ![q] = "locked"]
           ELSE /\ pc' = [pc EXCEPT ![q] = refusal]
                /\ UNCHANGED lock
        /\ UNCHANGED <<rows, audit, target, seen>>

\* The successor, the old row and the audit event, which names the new key.
RotateCommit(q, j) ==
    /\ Goto(q, "locked", "rotated")
    /\ Replaces(target[q], j)
    /\ audit' = audit \cup {Event("rotated", j)}
    /\ lock' = [lock EXCEPT ![target[q]] = NoRequest]
    /\ UNCHANGED <<expired, target, seen>>

-----------------------------------------------------------------------------

\* A transaction fails or the process dies: nothing of it remains.
Abort(q) ==
    /\ pc[q] \in {"revoking", "updating", "rotating", "locked"}
    /\ pc' = [pc EXCEPT ![q] = "error"]
    /\ lock' = [k \in Key |-> IF lock[k] = q THEN NoRequest ELSE lock[k]]
    /\ UNCHANGED <<rows, audit, target, seen>>

\* expiresAt passes.
Expire(k) ==
    /\ k \in issued \ expired
    /\ expired' = expired \cup {k}
    /\ UNCHANGED <<issued, gone, enabled, revokedAt, rotatedTo, rotatedFrom>>
    /\ UNCHANGED <<audit, lock, calls>>

\* The expired key is verified: Better Auth deletes its row, waiting for a
\* rotation that holds it.  What the metadata said is kept in the links, for
\* nobody reads it any more.
Delete(k) ==
    /\ k \in expired \ gone
    /\ Unlocked(k)
    /\ gone' = gone \cup {k}
    /\ enabled' = enabled \ {k}
    /\ UNCHANGED <<issued, expired, revokedAt, rotatedTo, rotatedFrom>>
    /\ UNCHANGED <<audit, lock, calls>>

UnderWay == {"new", "revoking", "updating", "rotating", "locked"}

\* All calls were answered and nothing is left to expire.
Finished ==
    /\ \A q \in Request : pc[q] \notin UnderWay
    /\ issued \subseteq expired
    /\ UNCHANGED vars

Next ==
    \/ \E q \in Request :
          \/ \E k \in Key : \/ Create(q, k)
                            \/ RevokeRead(q, k)
                            \/ RotateRead(q, k)
                            \/ RotateCommit(q, k)
          \/ RevokeReadAgain(q)
          \/ RevokeCommit(q)
          \/ RotateLock(q)
          \/ Abort(q)
    \/ \E k \in Key : Expire(k) \/ Delete(k)
    \/ Finished

Spec == Init /\ [][Next]_vars

-----------------------------------------------------------------------------
(* Properties *)

Answer == {"created", "not_found", "already_revoked", "revoked", "rotated",
           "already_rotated", "expired", "error"}

\* The shape of the rows, the locks and the calls.
TypeOK ==
    /\ issued \subseteq Key
    /\ expired \subseteq issued
    /\ gone \subseteq expired
    /\ enabled \subseteq Stored
    /\ revokedAt \subseteq issued
    /\ rotatedTo \in [Key -> Key \cup {NoKey}]
    /\ rotatedFrom \in [Key -> Key \cup {NoKey}]
    /\ audit \subseteq [action : {"created", "revoked", "rotated"}, key : Key]
    /\ lock \in [Key -> Request \cup {NoRequest}]
    /\ pc \in [Request -> UnderWay \cup Answer]
    /\ target \in [Request -> Key \cup {NoKey}]
    /\ seen \in [Request -> Key \cup {NoKey}]

\* verifyRenderApiKey accepts the key: Better Auth looks at the flag and the
\* expiry, the service at the metadata.
Accepted(k) ==
    /\ k \in enabled \ expired
    /\ k \notin revokedAt
    /\ rotatedTo[k] = NoKey

\* Once a caller has been told that a key is revoked or was rotated, the
\* render route never accepts it again, whatever revocations and rotations of
\* it were under way with data they had read before.
AnsweredKeysStayDead ==
    \A q \in Request :
        pc[q] \in {"revoked", "already_revoked", "rotated", "already_rotated"}
            => ~Accepted(target[q])

\* A rotated key has one successor and is dead from the moment it has it.
\* A link forward, where a late revocation has not wiped it, leads to it.
OneSuccessor ==
    /\ \A i, j \in Key :
          rotatedFrom[i] = rotatedFrom[j] /\ rotatedFrom[i] # NoKey => i = j
    /\ \A j \in Key : rotatedFrom[j] # NoKey =>
          /\ ~Accepted(rotatedFrom[j])
          /\ rotatedTo[rotatedFrom[j]] \in {j, NoKey}
    /\ \A k \in Key : rotatedTo[k] # NoKey => rotatedFrom[rotatedTo[k]] = k

\* The two signals of a dead key, the flag and the metadata, agree in every
\* row: neither a rotation nor a revocation that wrote what it read earlier
\* splits them.
SignalsAgree == revokedAt \ gone = Stored \ enabled

\* The audit trail explains every key: how it came to be, exactly once, and,
\* unless its row was deleted when it had expired, how it died; a revocation
\* that was answered has its event, or found the row deleted.  No failed
\* transaction leaves a row or an event behind.
AuditExplainsKeys ==
    /\ \A k \in issued :
          Event("created", k) \in audit <=> Event("rotated", k) \notin audit
    /\ \A k \in Stored \ enabled :
          \/ Event("revoked", k) \in audit
          \/ \E j \in Key : rotatedFrom[j] = k /\ Event("rotated", j) \in audit
    /\ \A q \in Request : pc[q] = "revoked" =>
          Event("revoked", target[q]) \in audit \/ target[q] \in gone
    /\ \A e \in audit : /\ e.key \in issued
                        /\ e.action = "revoked" => e.key \notin enabled

-----------------------------------------------------------------------------
(* The rows implement the set of live keys. *)

Ring == INSTANCE KeyRing WITH live <- enabled, parent <- rotatedFrom

\* Every commit and every deletion issues one key, retires one, or trades one
\* live key for a new one; concurrent rotations never both trade the same key.
ImplementsKeyRing == Ring!Spec
=============================================================================
