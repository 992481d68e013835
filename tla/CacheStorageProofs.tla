------------------------- MODULE CacheStorageProofs -------------------------
(***************************************************************************)
(* Proofs about CacheStorage for every number of attempts, readers and     *)
(* generations, and every assignment of pages to attempts.                 *)
(*                                                                         *)
(* An object is deleted by one step only, the cleanup of an attempt that   *)
(* lost.  The argument is that such an attempt is behind the row, and      *)
(* stays so, because generations only grow; an attempt with the same key   *)
(* has seen the same generation and is therefore behind as well, or it is  *)
(* the winner, in which case the one that cleans up is its twin.           *)
(***************************************************************************)
EXTENDS CacheStorage, TLAPS

\* An attempt is never ahead of the row, and is idle while there is none.
AttemptsBehindRow ==
    /\ \A w \in Writer : observed[w] <= generation
    /\ status = "absent" => /\ generation = 0
                            /\ \A w \in Writer : pc[w] = "idle"
    /\ \A w \in Writer :
          pc[w] \in {"losing", "conflict"} => observed[w] < generation
    /\ \A w \in Writer :
          pc[w] = "stored" => Key(w) \in objects \/ observed[w] < generation

\* A winner is done, its generation is past, and its object is there unless
\* a twin removed it.
WinnersKeepObjects ==
    \A w \in winners :
        /\ pc[w] \in {"success", "unanswered"}
        /\ observed[w] < generation
        /\ Key(w) \in objects \/ CleanedTwinOf(Key(w))

WonBySomebody(key) == \E w \in winners : Key(w) = key

\* The row's key, and every key a reader holds, is that of a winner.
KeysAreWon ==
    /\ status = "ready" => /\ storageKey.generation = generation
                           /\ WonBySomebody(storageKey)
    /\ \A r \in Reader :
          /\ reader[r] = "idle" => view[r] = NoKey
          /\ reader[r] = "reading" => WonBySomebody(view[r])
          /\ reader[r] = "missing_object" => CleanedTwinOf(view[r])
          /\ reader[r] # "malformed"

IInv ==
    /\ TypeOK
    /\ AttemptsBehindRow
    /\ OneWinnerPerGeneration
    /\ WinnersKeepObjects
    /\ KeysAreWon
    /\ ObjectsAccounted

LEMMA KeyIsKey ==
    ASSUME TypeOK, NEW w \in Writer
    PROVE  Key(w) \in Keys
BY CacheAssumption DEF TypeOK, Key, Keys

LEMMA TypeInit == Init => TypeOK
BY DEF Init, TypeOK, Status, WriterState, ReaderState

LEMMA TypeStep == TypeOK /\ [Next]_vars => TypeOK'
<1> SUFFICES ASSUME TypeOK, [Next]_vars
             PROVE  TypeOK'
  OBVIOUS
<1> USE DEF TypeOK, Status, WriterState, ReaderState, Goto
<1>1. ASSUME NEW w \in Writer, Begin(w)
      PROVE  TypeOK'
  BY <1>1 DEF Begin, reading
<1>2. ASSUME NEW w \in Writer, Commit(w)
      PROVE  TypeOK'
  <2>1. CASE CommitTooLarge(w) \/ PutFindsObject(w) \/ PutFindsNothing(w)
             \/ PutFails(w) \/ CommitLost(w) \/ CleanupFails(w)
    BY <2>1 DEF CommitTooLarge, PutFindsObject, PutFindsNothing, PutFails,
                CommitLost, CleanupFails, row, reading
  <2>2. CASE PutRenames(w) \/ Cleanup(w)
    BY <2>2, KeyIsKey DEF PutRenames, Cleanup, row, reading
  <2>3. CASE CommitReady(w) \/ CommitUnanswered(w)
    BY <2>3, KeyIsKey DEF CommitReady, CommitUnanswered, SetReady, reading
  <2>4. QED
    BY <1>2, <2>1, <2>2, <2>3 DEF Commit
<1>3. ASSUME NEW w \in Writer, MarkRenderFailed(w)
      PROVE  TypeOK'
  BY <1>3 DEF MarkRenderFailed, reading
<1>4. ASSUME NEW w \in Writer, StopBeforePut(w) \/ StopAfterPut(w)
      PROVE  TypeOK'
  BY <1>4 DEF StopBeforePut, StopAfterPut, row, reading
<1>5. CASE Invalidate
  BY <1>5 DEF Invalidate, writing, reading
<1>6. ASSUME NEW r \in Reader, ReadRow(r) \/ ReadObject(r) \/ ReadFails(r)
      PROVE  TypeOK'
  BY <1>6 DEF ReadRow, ReadObject, ReadFails, row, writing
<1>7. CASE UNCHANGED vars
  BY <1>7 DEF vars, row, writing, reading
<1>8. QED
  BY <1>1, <1>2, <1>3, <1>4, <1>5, <1>6, <1>7 DEF Next

\* The row, the store and the callers' progress always have their shape.
THEOREM TypeCorrect == Spec => []TypeOK
BY TypeInit, TypeStep, PTL DEF Spec

-----------------------------------------------------------------------------
(* What every step leaves as it is. *)

\* The generation never falls, an attempt that has begun keeps its key, one
\* that has ended stays where it ended, and a winner remains one.
Frame ==
    /\ generation' >= generation
    /\ winners \subseteq winners'
    /\ \A w \in Writer : pc[w] # "idle" => /\ observed'[w] = observed[w]
                                         /\ Key(w)' = Key(w)
                                         /\ pc'[w] # "idle"
    /\ \A w \in Writer : pc[w] \in {"success", "unanswered", "conflict"}
                         => pc'[w] = pc[w]

LEMMA StepFrame ==
    ASSUME TypeOK, AttemptsBehindRow, [Next]_vars
    PROVE  Frame
<1> USE DEF Goto, TypeOK, Key, Frame
<1>1. ASSUME NEW w \in Writer, Begin(w)
      PROVE  Frame
  BY <1>1 DEF Begin, AttemptsBehindRow
<1>2. ASSUME NEW w \in Writer, Commit(w)
      PROVE  Frame
  <2>1. CASE CommitTooLarge(w) \/ PutFindsObject(w) \/ PutFindsNothing(w)
             \/ PutRenames(w) \/ PutFails(w)
    BY <2>1 DEF CommitTooLarge, PutFindsObject, PutFindsNothing, PutRenames,
                PutFails, row
  <2>2. CASE CommitReady(w) \/ CommitUnanswered(w)
    BY <2>2 DEF CommitReady, CommitUnanswered, SetReady
  <2>3. CASE CommitLost(w) \/ Cleanup(w) \/ CleanupFails(w)
    BY <2>3 DEF CommitLost, Cleanup, CleanupFails, row
  <2>4. QED
    BY <1>2, <2>1, <2>2, <2>3 DEF Commit
<1>3. ASSUME NEW w \in Writer, MarkRenderFailed(w)
      PROVE  Frame
  BY <1>3 DEF MarkRenderFailed
<1>4. ASSUME NEW w \in Writer, StopBeforePut(w) \/ StopAfterPut(w)
      PROVE  Frame
  BY <1>4 DEF StopBeforePut, StopAfterPut, row
<1>5. CASE Invalidate
  BY <1>5 DEF Invalidate, writing
<1>6. ASSUME NEW r \in Reader, ReadRow(r) \/ ReadObject(r) \/ ReadFails(r)
      PROVE  Frame
  BY <1>6 DEF ReadRow, ReadObject, ReadFails, row, writing
<1>7. CASE UNCHANGED vars
  BY <1>7 DEF vars, row, writing
<1>8. QED
  BY <1>1, <1>2, <1>3, <1>4, <1>5, <1>6, <1>7 DEF Next

\* A key that was won stays so, and so does one that a twin cleaned up.
LEMMA HistoryStays ==
    ASSUME Frame, TypeOK, WinnersKeepObjects, NEW k
    PROVE  /\ (\E w \in winners : Key(w) = k) => (\E w \in winners' : Key(w)' = k)
           /\ (\E w \in Writer : pc[w] = "conflict" /\ Key(w) = k)
                 => (\E w \in Writer : pc'[w] = "conflict" /\ Key(w)' = k)
BY DEF Frame, WinnersKeepObjects, TypeOK

-----------------------------------------------------------------------------
(* The parts of the invariant. *)

LEMMA BehindStep ==
    ASSUME IInv, Frame, TypeOK', [Next]_vars
    PROVE  AttemptsBehindRow'
<1> USE DEF Goto, TypeOK, Key, AttemptsBehindRow
<1>0. TypeOK /\ AttemptsBehindRow
  BY DEF IInv
<1>1. ASSUME NEW w \in Writer, Begin(w)
      PROVE  AttemptsBehindRow'
  BY <1>0, <1>1 DEF Begin, Frame
<1>2. ASSUME NEW w \in Writer, Commit(w)
      PROVE  AttemptsBehindRow'
  <2>1. CASE CommitTooLarge(w) \/ PutFindsNothing(w) \/ PutFails(w)
    BY <1>0, <2>1 DEF CommitTooLarge, PutFindsNothing, PutFails, row
  <2>2. CASE PutFindsObject(w)
    BY <1>0, <2>2 DEF PutFindsObject, row
  <2>3. CASE PutRenames(w)
    BY <1>0, <2>3 DEF PutRenames, row
  <2>4. CASE CommitReady(w) \/ CommitUnanswered(w)
    BY <1>0, <2>4 DEF CommitReady, CommitUnanswered, SetReady
  <2>5. CASE CommitLost(w)
    BY <1>0, <2>5 DEF CommitLost, Matches, row
  <2>6. CASE Cleanup(w)
    <3>1. /\ observed[w] < generation
          /\ objects' = objects \ {Key(w)}
          /\ pc' = [pc EXCEPT ![w] = "conflict"]
          /\ UNCHANGED <<status, generation, observed>>
      BY <1>0, <2>6 DEF Cleanup, row
    <3>2. ASSUME NEW v \in Writer, pc'[v] = "stored"
          PROVE  Key(v)' \in objects' \/ observed'[v] < generation'
      BY <1>0, <3>1, <3>2
    <3>3. QED
      BY <1>0, <2>6, <3>1, <3>2 DEF Cleanup
  <2>7. CASE CleanupFails(w)
    BY <1>0, <2>7 DEF CleanupFails, row
  <2>8. QED
    BY <1>2, <2>1, <2>2, <2>3, <2>4, <2>5, <2>6, <2>7 DEF Commit
<1>3. ASSUME NEW w \in Writer, MarkRenderFailed(w)
      PROVE  AttemptsBehindRow'
  BY <1>0, <1>3 DEF MarkRenderFailed, Matches
<1>4. ASSUME NEW w \in Writer, StopBeforePut(w) \/ StopAfterPut(w)
      PROVE  AttemptsBehindRow'
  BY <1>0, <1>4 DEF StopBeforePut, StopAfterPut, row
<1>5. CASE Invalidate
  BY <1>0, <1>5 DEF Invalidate, writing
<1>6. ASSUME NEW r \in Reader, ReadRow(r) \/ ReadObject(r) \/ ReadFails(r)
      PROVE  AttemptsBehindRow'
  BY <1>0, <1>6 DEF ReadRow, ReadObject, ReadFails, row, writing
<1>7. CASE UNCHANGED vars
  BY <1>0, <1>7 DEF vars, row, writing
<1>8. QED
  BY <1>1, <1>2, <1>3, <1>4, <1>5, <1>6, <1>7 DEF Next

\* Only a commit adds a winner, and only a cleanup removes an object.
LEMMA StepKinds ==
    ASSUME TypeOK, [Next]_vars
    PROVE  \/ winners' = winners /\ objects \subseteq objects'
           \/ \E w \in Writer : CommitReady(w) \/ CommitUnanswered(w)
           \/ \E w \in Writer : Cleanup(w)
<1> DEFINE Quiet == winners' = winners /\ objects \subseteq objects'
<1>1. ASSUME NEW w \in Writer, Begin(w) \/ MarkRenderFailed(w)
                               \/ StopBeforePut(w) \/ StopAfterPut(w)
      PROVE  Quiet
  BY <1>1 DEF Begin, MarkRenderFailed, StopBeforePut, StopAfterPut
<1>2. ASSUME NEW w \in Writer, Commit(w), ~CommitReady(w), ~CommitUnanswered(w),
             ~Cleanup(w)
      PROVE  Quiet
  BY <1>2 DEF Commit, CommitTooLarge, PutFindsObject, PutFindsNothing,
              PutRenames, PutFails, CommitLost, CleanupFails
<1>3. CASE Invalidate
  BY <1>3 DEF Invalidate, writing
<1>4. ASSUME NEW r \in Reader, ReadRow(r) \/ ReadObject(r) \/ ReadFails(r)
      PROVE  Quiet
  BY <1>4 DEF ReadRow, ReadObject, ReadFails, writing
<1>5. CASE UNCHANGED vars
  BY <1>5 DEF vars, writing
<1>6. QED
  BY <1>1, <1>2, <1>3, <1>4, <1>5 DEF Next

LEMMA CommitEffect ==
    ASSUME TypeOK, NEW w \in Writer, CommitReady(w) \/ CommitUnanswered(w)
    PROVE  /\ pc[w] = "stored" /\ pc'[w] \in {"success", "unanswered"}
           /\ observed[w] = generation /\ generation' = generation + 1
           /\ status' = "ready" /\ storageKey' = Key(w)
           /\ winners' = winners \cup {w}
           /\ UNCHANGED <<objects, observed, reader, view>>
           /\ \A v \in Writer \ {w} : pc'[v] = pc[v]
BY DEF CommitReady, CommitUnanswered, SetReady, Matches, Goto, TypeOK, reading

LEMMA CleanupEffect ==
    ASSUME TypeOK, NEW w \in Writer, Cleanup(w)
    PROVE  /\ pc[w] = "losing" /\ pc' = [pc EXCEPT ![w] = "conflict"]
           /\ objects' = objects \ {Key(w)}
           /\ UNCHANGED <<status, generation, storageKey, observed, winners,
                          reader, view>>
BY DEF Cleanup, Goto, TypeOK, row, reading

\* The winner of a generation was the first to match it, and it left the row
\* one generation further.
LEMMA WinnersStep ==
    ASSUME IInv, Frame, [Next]_vars
    PROVE  OneWinnerPerGeneration' /\ WinnersKeepObjects'
<1> USE DEF WinnersKeepObjects, CleanedTwinOf
<1>0. TypeOK /\ AttemptsBehindRow /\ OneWinnerPerGeneration /\ WinnersKeepObjects
  BY DEF IInv
<1>1. CASE winners' = winners /\ objects \subseteq objects'
  <2>1. \A v \in winners : /\ v \in Writer
                           /\ pc'[v] = pc[v] /\ observed'[v] = observed[v]
                           /\ Key(v)' = Key(v) /\ generation' >= generation
    BY <1>0 DEF Frame, TypeOK
  <2>2. OneWinnerPerGeneration'
    BY <1>0, <1>1, <2>1 DEF OneWinnerPerGeneration
  <2>3. ASSUME NEW v \in winners
        PROVE  observed'[v] < generation'
    <3>1. observed[v] < generation /\ observed[v] \in Nat
          /\ generation \in Nat /\ generation' >= generation
          /\ observed'[v] = observed[v] /\ generation' \in Nat
      BY <1>0, <2>1, TypeStep DEF TypeOK
    <3>2. QED
      BY <3>1
  <2>4. ASSUME NEW v \in winners
        PROVE  Key(v)' \in objects' \/ CleanedTwinOf(Key(v))'
    BY <1>0, <1>1, <2>1, HistoryStays
  <2>5. QED
    BY <1>0, <1>1, <2>1, <2>2, <2>3, <2>4
<1>2. ASSUME NEW w \in Writer, CommitReady(w) \/ CommitUnanswered(w)
      PROVE  OneWinnerPerGeneration' /\ WinnersKeepObjects'
  <2>1. /\ pc[w] = "stored" /\ pc'[w] \in {"success", "unanswered"}
        /\ observed[w] = generation /\ generation' = generation + 1
        /\ winners' = winners \cup {w}
        /\ observed' = observed /\ objects' = objects
        /\ \A v \in Writer \ {w} : pc'[v] = pc[v]
    BY <1>0, <1>2, CommitEffect
  <2>2. \A v \in winners : v # w /\ observed[v] < generation /\ observed[v] \in Nat
    BY <1>0, <2>1 DEF TypeOK
  <2>3. OneWinnerPerGeneration'
    BY <1>0, <2>1, <2>2 DEF OneWinnerPerGeneration, TypeOK
  <2>4. Key(w)' \in objects'
    BY <1>0, <2>1 DEF AttemptsBehindRow, TypeOK, Key
  <2>5. ASSUME NEW v \in winners
        PROVE  Key(v)' \in objects' \/ CleanedTwinOf(Key(v))'
    <3>1. Key(v)' = Key(v)
      BY <2>1 DEF Key
    <3>2. QED
      BY <1>0, <2>1, <3>1, HistoryStays
  <2>6. \A v \in winners' : observed'[v] < generation'
    BY <1>0, <2>1, <2>2 DEF TypeOK
  <2>7. \A v \in winners' : pc'[v] \in {"success", "unanswered"}
    BY <1>0, <2>1, <2>2 DEF TypeOK
  <2>8. QED
    BY <2>1, <2>3, <2>4, <2>5, <2>6, <2>7
<1>3. ASSUME NEW w \in Writer, Cleanup(w)
      PROVE  OneWinnerPerGeneration' /\ WinnersKeepObjects'
  <2>1. /\ pc[w] = "losing" /\ pc' = [pc EXCEPT ![w] = "conflict"]
        /\ objects' = objects \ {Key(w)}
        /\ UNCHANGED <<generation, observed, winners>>
    BY <1>0, <1>3, CleanupEffect
  <2>2. OneWinnerPerGeneration'
    BY <1>0, <2>1 DEF OneWinnerPerGeneration
  <2>3. \A v \in winners : pc'[v] \in {"success", "unanswered"}
    BY <1>0, <2>1 DEF TypeOK
  <2>4. ASSUME NEW v \in winners
        PROVE  Key(v)' \in objects' \/ CleanedTwinOf(Key(v))'
    <3>1. Key(v)' = Key(v) /\ Key(w)' = Key(w) /\ pc'[w] = "conflict"
      BY <1>0, <2>1 DEF Key, TypeOK
    <3>2. CASE Key(v) = Key(w)
      BY <3>1, <3>2
    <3>3. CASE Key(v) # Key(w)
      BY <1>0, <2>1, <3>1, <3>3, HistoryStays
    <3>4. QED
      BY <3>2, <3>3
  <2>5. QED
    BY <1>0, <2>1, <2>2, <2>3, <2>4
<1>4. QED
  BY <1>0, <1>1, <1>2, <1>3, StepKinds

\* Who changes the row's key or status, and who changes a reader.
LEMMA RowKinds ==
    ASSUME TypeOK, [Next]_vars
    PROVE  \/ UNCHANGED <<status, generation, storageKey, reader, view>>
           \/ status' # "ready" /\ UNCHANGED <<reader, view>>
           \/ \E w \in Writer : CommitReady(w) \/ CommitUnanswered(w)
           \/ \E r \in Reader : ReadRow(r) \/ ReadObject(r) \/ ReadFails(r)
<1> DEFINE Same == UNCHANGED <<status, generation, storageKey, reader, view>>
           Other == status' # "ready" /\ UNCHANGED <<reader, view>>
<1>1. ASSUME NEW w \in Writer, Begin(w) \/ MarkRenderFailed(w)
      PROVE  Same \/ Other
  BY <1>1 DEF Begin, MarkRenderFailed, reading
<1>2. ASSUME NEW w \in Writer, Commit(w), ~CommitReady(w), ~CommitUnanswered(w)
      PROVE  Same
  BY <1>2 DEF Commit, CommitTooLarge, PutFindsObject, PutFindsNothing,
              PutRenames, PutFails, CommitLost, Cleanup, CleanupFails, row, reading
<1>3. ASSUME NEW w \in Writer, StopBeforePut(w) \/ StopAfterPut(w)
      PROVE  Same
  BY <1>3 DEF StopBeforePut, StopAfterPut, row, reading
<1>4. CASE Invalidate
  BY <1>4 DEF Invalidate, reading
<1>5. CASE UNCHANGED vars
  BY <1>5 DEF vars, row, reading
<1>6. QED
  BY <1>1, <1>2, <1>3, <1>4, <1>5 DEF Next

LEMMA KeysStep ==
    ASSUME IInv, Frame, [Next]_vars
    PROVE  KeysAreWon'
<1> USE DEF KeysAreWon, WonBySomebody, CleanedTwinOf
<1>0. TypeOK /\ WinnersKeepObjects /\ KeysAreWon
  BY DEF IInv
<1>1. ASSUME UNCHANGED <<reader, view>>
      PROVE  \A r \in Reader :
                /\ reader'[r] = "idle" => view'[r] = NoKey
                /\ reader'[r] = "reading" => WonBySomebody(view[r])'
                /\ reader'[r] = "missing_object" => CleanedTwinOf(view[r])'
                /\ reader'[r] # "malformed"
  BY <1>0, <1>1, HistoryStays
<1>2. CASE UNCHANGED <<status, generation, storageKey, reader, view>>
  <2>1. status' = "ready" => /\ storageKey'.generation = generation'
                             /\ WonBySomebody(storageKey)'
    BY <1>0, <1>2, HistoryStays
  <2>2. QED
    BY <1>1, <1>2, <2>1
<1>3. CASE status' # "ready" /\ UNCHANGED <<reader, view>>
  BY <1>1, <1>3
<1>4. ASSUME NEW w \in Writer, CommitReady(w) \/ CommitUnanswered(w)
      PROVE  KeysAreWon'
  <2>1. /\ observed[w] = generation /\ generation' = generation + 1
        /\ storageKey' = Key(w) /\ w \in winners'
        /\ UNCHANGED <<observed, reader, view>>
    BY <1>0, <1>4, CommitEffect
  <2>2. storageKey'.generation = generation' /\ Key(w)' = storageKey'
    BY <2>1 DEF Key
  <2>3. QED
    BY <1>1, <2>1, <2>2
<1>5. ASSUME NEW r \in Reader, ReadRow(r) \/ ReadObject(r) \/ ReadFails(r)
      PROVE  KeysAreWon'
  <2>1. UNCHANGED <<status, generation, storageKey, objects, pc, observed, winners>>
    BY <1>5 DEF ReadRow, ReadObject, ReadFails, row, writing
  <2>2. status' = "ready" => /\ storageKey'.generation = generation'
                             /\ WonBySomebody(storageKey)'
    BY <1>0, <2>1 DEF Key
  <2>3. ASSUME NEW k PROVE /\ WonBySomebody(k)' = WonBySomebody(k)
                           /\ CleanedTwinOf(k)' = CleanedTwinOf(k)
    BY <2>1 DEF Key
  <2>4. CASE ReadRow(r)
    <3>1. \A q \in Reader \ {r} : reader'[q] = reader[q] /\ view'[q] = view[q]
      BY <1>0, <2>4 DEF ReadRow, TypeOK
    <3>2. /\ reader'[r] \in {"not_ready", "reading"}
          /\ reader'[r] = "reading" => status = "ready" /\ view'[r] = storageKey
      BY <1>0, <2>4 DEF ReadRow, TypeOK
    <3>3. reader'[r] = "reading" => WonBySomebody(view[r])'
      BY <1>0, <2>1, <3>2 DEF Key
    <3>4. \A q \in Reader \ {r} :
             /\ reader'[q] = "idle" => view'[q] = NoKey
             /\ reader'[q] = "reading" => WonBySomebody(view[q])'
             /\ reader'[q] = "missing_object" => CleanedTwinOf(view[q])'
             /\ reader'[q] # "malformed"
      BY <1>0, <2>1, <3>1 DEF Key
    <3>5. QED
      BY <2>2, <3>2, <3>3, <3>4
  <2>5. CASE ReadObject(r) \/ ReadFails(r)
    <3>1. /\ view' = view /\ reader[r] = "reading"
          /\ \A q \in Reader \ {r} : reader'[q] = reader[q]
          /\ reader'[r] \in {"served", "missing_object", "provider_error"}
          /\ reader'[r] = "missing_object" => view[r] \notin objects
      BY <1>0, <2>5 DEF ReadObject, ReadFails, TypeOK
    <3>2. reader'[r] = "missing_object" => CleanedTwinOf(view[r])
      BY <1>0, <3>1 DEF WinnersKeepObjects
    <3>3. QED
      BY <1>0, <2>1, <2>2, <3>1, <3>2 DEF Key
  <2>6. QED
    BY <1>5, <2>4, <2>5
<1>6. QED
  BY <1>2, <1>3, <1>4, <1>5, <1>0, RowKinds

Owns(w) == w \in winners \/ pc[w] \in {"stored", "losing", "orphaned"}

LEMMA ObjectsStep ==
    ASSUME IInv, Frame, [Next]_vars
    PROVE  ObjectsAccounted'
<1> USE DEF Goto, TypeOK
<1>0. TypeOK /\ ObjectsAccounted /\ AttemptsBehindRow /\ WinnersKeepObjects
  BY DEF IInv
<1>1. ASSUME \A v \in Writer : Owns(v) => Owns(v)', objects' \subseteq objects
      PROVE  ObjectsAccounted'
  <2>1. ASSUME NEW k \in objects'
        PROVE  \E v \in Writer : Key(v)' = k /\ Owns(v)'
    <3>1. PICK v \in Writer : Key(v) = k /\ Owns(v)
      BY <1>0, <1>1 DEF ObjectsAccounted, Owns
    <3>2. pc[v] # "idle"
      BY <1>0, <3>1 DEF Owns, WinnersKeepObjects
    <3>3. QED
      BY <1>1, <3>1, <3>2 DEF Frame
  <2>2. QED
    BY <2>1 DEF ObjectsAccounted, Owns
<1>2. ASSUME NEW w \in Writer, Begin(w)
      PROVE  ObjectsAccounted'
  BY <1>0, <1>1, <1>2 DEF Begin, Owns
<1>3. ASSUME NEW w \in Writer, Commit(w)
      PROVE  ObjectsAccounted'
  <2>1. CASE CommitTooLarge(w) \/ PutFindsObject(w) \/ PutFindsNothing(w)
             \/ PutFails(w)
    BY <1>0, <1>1, <2>1 DEF CommitTooLarge, PutFindsObject, PutFindsNothing,
                            PutFails, Owns
  <2>2. CASE PutRenames(w)
    <3>1. /\ objects' = objects \cup {Key(w)} /\ Key(w)' = Key(w)
          /\ pc' = [pc EXCEPT ![w] = "stored"] /\ pc[w] = "putting"
          /\ UNCHANGED <<observed, winners>>
      BY <1>0, <2>2 DEF PutRenames, Key
    <3>2. ASSUME NEW k \in objects
          PROVE  \E v \in Writer : Key(v)' = k /\ Owns(v)'
      <4>1. PICK v \in Writer : Key(v) = k /\ Owns(v)
        BY <1>0 DEF ObjectsAccounted, Owns
      <4>2. Key(v)' = Key(v) /\ Owns(v)'
        BY <1>0, <3>1, <4>1 DEF Owns, Key
      <4>3. QED
        BY <4>1, <4>2
    <3>3. Key(w)' = Key(w) /\ Owns(w)'
      BY <1>0, <3>1 DEF Owns
    <3>4. QED
      BY <3>1, <3>2, <3>3 DEF ObjectsAccounted, Owns
  <2>3. CASE CommitReady(w) \/ CommitUnanswered(w)
    <3>1. /\ objects' = objects /\ winners' = winners \cup {w}
          /\ \A v \in Writer \ {w} : pc'[v] = pc[v]
      BY <1>0, <2>3, CommitEffect
    <3>2. QED
      BY <1>1, <3>1 DEF Owns
  <2>4. CASE CommitLost(w) \/ CleanupFails(w)
    BY <1>0, <1>1, <2>4 DEF CommitLost, CleanupFails, Owns
  <2>5. CASE Cleanup(w)
    <3>1. /\ pc[w] = "losing" /\ pc' = [pc EXCEPT ![w] = "conflict"]
          /\ objects' = objects \ {Key(w)}
          /\ UNCHANGED <<observed, winners>>
      BY <1>0, <2>5, CleanupEffect
    <3>2. ASSUME NEW k \in objects'
          PROVE  \E v \in Writer : Key(v)' = k /\ Owns(v)'
      <4>1. PICK v \in Writer : Key(v) = k /\ Owns(v)
        BY <1>0, <3>1 DEF ObjectsAccounted, Owns
      <4>2. v # w
        BY <3>1, <4>1
      <4>3. Key(v)' = Key(v) /\ Owns(v)'
        BY <1>0, <3>1, <4>1, <4>2 DEF Owns, Key
      <4>4. QED
        BY <4>1, <4>3
    <3>3. QED
      BY <3>2 DEF ObjectsAccounted, Owns
  <2>6. QED
    BY <1>3, <2>1, <2>2, <2>3, <2>4, <2>5 DEF Commit
<1>4. ASSUME NEW w \in Writer, MarkRenderFailed(w) \/ StopBeforePut(w)
                               \/ StopAfterPut(w)
      PROVE  ObjectsAccounted'
  BY <1>0, <1>1, <1>4 DEF MarkRenderFailed, StopBeforePut, StopAfterPut, Owns
<1>5. CASE Invalidate
  BY <1>0, <1>1, <1>5 DEF Invalidate, Owns, writing
<1>6. ASSUME NEW r \in Reader, ReadRow(r) \/ ReadObject(r) \/ ReadFails(r)
      PROVE  ObjectsAccounted'
  BY <1>0, <1>1, <1>6 DEF ReadRow, ReadObject, ReadFails, writing, Owns
<1>7. CASE UNCHANGED vars
  BY <1>0, <1>1, <1>7 DEF vars, writing, Owns
<1>8. QED
  BY <1>2, <1>3, <1>4, <1>5, <1>6, <1>7 DEF Next

LEMMA InvInit == Init => IInv
<1> SUFFICES ASSUME Init PROVE IInv
  OBVIOUS
<1>1. TypeOK
  BY TypeInit
<1>2. AttemptsBehindRow
  BY DEF Init, AttemptsBehindRow
<1>3. OneWinnerPerGeneration /\ WinnersKeepObjects /\ ObjectsAccounted
  BY DEF Init, OneWinnerPerGeneration, WinnersKeepObjects, ObjectsAccounted
<1>4. KeysAreWon
  BY DEF Init, KeysAreWon
<1>5. QED
  BY <1>1, <1>2, <1>3, <1>4 DEF IInv

LEMMA InvStep == IInv /\ [Next]_vars => IInv'
<1> SUFFICES ASSUME IInv, [Next]_vars PROVE IInv'
  OBVIOUS
<1>1. TypeOK' /\ Frame
  BY TypeStep, StepFrame DEF IInv
<1>2. QED
  BY <1>1, BehindStep, WinnersStep, KeysStep, ObjectsStep DEF IInv

LEMMA AlwaysIInv == Spec => []IInv
BY InvInit, InvStep, PTL DEF Spec

-----------------------------------------------------------------------------
(* Theorems *)

\* Of the attempts that saw the same generation at most one becomes active.
THEOREM OneWinner == Spec => []OneWinnerPerGeneration
<1>1. IInv => OneWinnerPerGeneration
  BY DEF IInv
<1>2. QED
  BY <1>1, AlwaysIInv, PTL

LEMMA WonKeysAreReal ==
    ASSUME IInv, NEW k, WonBySomebody(k)
    PROVE  k \in Keys /\ k.content \in Content /\ k.content # NoContent
BY KeyIsKey, CacheAssumption DEF IInv, TypeOK, WonBySomebody, Keys

\* No reader ever turns a ready row down as malformed metadata.
THEOREM ReadyRowsAreConsistent == Spec => []ReadyRowIsConsistent
<1>1. IInv => ReadyRowIsConsistent
  BY WonKeysAreReal DEF ReadyRowIsConsistent, IInv, KeysAreWon
<1>2. QED
  BY <1>1, AlwaysIInv, PTL

\* A ready row, or a reader that has read one, is left without its object
\* only by the cleanup of an attempt with the same page and generation.
THEOREM ObjectsAreKept == Spec => []OnlyTwinsTakeObjects
<1>1. IInv => OnlyTwinsTakeObjects
  BY DEF OnlyTwinsTakeObjects, IInv, KeysAreWon, WonBySomebody, WinnersKeepObjects
<1>2. QED
  BY <1>1, AlwaysIInv, PTL

\* When no two attempts render the same page, which is what the comments of
\* the service take for granted, an active object is never deleted.
DistinctPages == \A a, b \in Writer : ContentOf[a] = ContentOf[b] => a = b

THEOREM DistinctPagesKeepObjects ==
    ASSUME DistinctPages
    PROVE  Spec => []ReadyRowHasObject
<1>1. IInv => ReadyRowHasObject
  <2> SUFFICES ASSUME IInv, status = "ready", storageKey \notin objects
               PROVE  FALSE
    BY DEF ReadyRowHasObject
  <2>1. PICK w \in winners : Key(w) = storageKey
    BY DEF IInv, KeysAreWon, WonBySomebody
  <2>2. PICK v \in Writer : pc[v] = "conflict" /\ Key(v) = Key(w)
    BY <2>1 DEF IInv, WinnersKeepObjects, CleanedTwinOf
  <2>3. w \in Writer /\ pc[w] \in {"success", "unanswered"}
    BY DEF IInv, TypeOK, WinnersKeepObjects
  <2>4. ContentOf[v] = ContentOf[w]
    BY <2>2 DEF Key
  <2>5. QED
    BY <2>2, <2>3, <2>4 DEF DistinctPages
<1>2. QED
  BY <1>1, AlwaysIInv, PTL

\* Nothing is left in the store that nobody answers for: a conflict reported
\* to a caller has cleaned up behind it.
THEOREM NoUnexplainedObjects == Spec => []ObjectsAccounted
<1>1. IInv => ObjectsAccounted
  BY DEF IInv
<1>2. QED
  BY <1>1, AlwaysIInv, PTL

\* A row becomes ready only for an object that is in the store.
THEOREM CommitsAreStored == Spec => CommitsOnlyStoredPages
<1>1. IInv /\ [Next]_vars
         => [\A w \in winners' \ winners : Key(w) \in objects']_vars
  <2> SUFFICES ASSUME IInv, [Next]_vars, NEW w \in winners' \ winners
               PROVE  Key(w) \in objects'
    OBVIOUS
  <2>1. TypeOK /\ AttemptsBehindRow
    BY DEF IInv
  <2>2. CASE \E v \in Writer : CommitReady(v) \/ CommitUnanswered(v)
    <3>1. PICK v \in Writer : CommitReady(v) \/ CommitUnanswered(v)
      BY <2>2
    <3>2. /\ w = v /\ pc[v] = "stored" /\ observed[v] = generation
          /\ objects' = objects
      BY <2>1, <3>1, CommitEffect
    <3>3. QED
      BY <2>1, <3>2 DEF AttemptsBehindRow, TypeOK
  <2>3. CASE \E v \in Writer : Cleanup(v)
    BY <2>1, <2>3, CleanupEffect
  <2>4. QED
    BY <2>1, <2>2, <2>3, StepKinds
<1>2. QED
  BY <1>1, AlwaysIInv, PTL DEF Spec, CommitsOnlyStoredPages

-----------------------------------------------------------------------------
(* Refinement *)

\* A step that leaves the row and the readers alone and lets no attempt begin
\* is not a step of the cell.
LEMMA QuietRefines ==
    ASSUME UNCHANGED <<status, generation, storageKey, observed, reader, view>>,
           \A w \in Writer : pc[w] = "idle" <=> pc'[w] = "idle"
    PROVE  UNCHANGED Cell!vars
BY DEF Cell!vars, pageBar, linkedBar, takenBar, servedBar

LEMMA WriterQuiet ==
    ASSUME TypeOK, NEW w \in Writer,
           \/ CommitTooLarge(w) \/ PutFindsObject(w) \/ PutFindsNothing(w)
           \/ PutRenames(w) \/ PutFails(w)
           \/ CommitLost(w) \/ Cleanup(w) \/ CleanupFails(w)
           \/ StopBeforePut(w) \/ StopAfterPut(w)
    PROVE  UNCHANGED Cell!vars
<1>1. UNCHANGED <<status, generation, storageKey, observed, reader, view>>
  BY DEF CommitTooLarge, PutFindsObject, PutFindsNothing, PutRenames, PutFails,
         CommitLost, Cleanup, CleanupFails, StopBeforePut, StopAfterPut,
         row, reading
<1>2. \A v \in Writer : pc[v] = "idle" <=> pc'[v] = "idle"
  BY DEF CommitTooLarge, PutFindsObject, PutFindsNothing, PutRenames, PutFails,
         CommitLost, Cleanup, CleanupFails, StopBeforePut, StopAfterPut,
         Goto, TypeOK
<1>3. QED
  BY <1>1, <1>2, QuietRefines

LEMMA BeginRefines ==
    ASSUME IInv, NEW w \in Writer, Begin(w)
    PROVE  Cell!Link(w)
<1>1. /\ pc[w] = "idle" /\ pc' = [pc EXCEPT ![w] = "observed"]
      /\ observed' = [observed EXCEPT ![w] = generation']
      /\ UNCHANGED <<storageKey, reader, view>>
      /\ \/ status = "absent" /\ status' = "pending" /\ generation' = 1
         \/ status' = status /\ generation' = generation
  BY DEF Begin, Goto, reading
<1>2. pageBar' = pageBar /\ takenBar' = takenBar /\ servedBar' = servedBar
  BY <1>1 DEF pageBar, takenBar, servedBar
<1>3. linkedBar' = linkedBar \cup {w}
  <2>1. CASE status = "absent"
    <3>1. \A v \in Writer : pc[v] = "idle"
      BY <2>1 DEF IInv, AttemptsBehindRow
    <3>2. QED
      BY <1>1, <3>1 DEF linkedBar, IInv, TypeOK
  <2>2. CASE status' = status /\ generation' = generation
    BY <1>1, <2>2 DEF linkedBar, IInv, TypeOK
  <2>3. QED
    BY <1>1, <2>1, <2>2
<1>4. QED
  BY <1>2, <1>3 DEF Cell!Link

\* Every change of the row's generation cuts all links.
LEMMA LinksCut ==
    ASSUME IInv, generation' = generation + 1, observed' = observed
    PROVE  linkedBar' = {}
<1>1. \A v \in Writer : observed'[v] # generation'
  BY DEF IInv, TypeOK, AttemptsBehindRow
<1>2. QED
  BY <1>1 DEF linkedBar

LEMMA CommitRefines ==
    ASSUME IInv, NEW w \in Writer, CommitReady(w) \/ CommitUnanswered(w)
    PROVE  Cell!Publish(w)
<1>1. /\ pc[w] = "stored" /\ observed[w] = generation
      /\ generation' = generation + 1
      /\ status' = "ready" /\ storageKey' = Key(w)
      /\ UNCHANGED <<observed, reader, view>>
  BY CommitEffect DEF IInv
<1>2. w \in linkedBar
  BY <1>1 DEF linkedBar
<1>3. pageBar' = ContentOf[w]
  BY <1>1 DEF pageBar, Key
<1>4. takenBar' = takenBar /\ servedBar' = servedBar
  BY <1>1 DEF takenBar, servedBar
<1>5. QED
  BY <1>1, <1>2, <1>3, <1>4, LinksCut DEF Cell!Publish

LEMMA DropRefines ==
    ASSUME IInv, status' \in {"failed", "invalidated"},
           generation' = generation + 1, UNCHANGED <<observed, reader, view>>
    PROVE  Cell!Drop
<1>1. pageBar' = NoContent
  BY DEF pageBar
<1>2. takenBar' = takenBar /\ servedBar' = servedBar
  BY DEF takenBar, servedBar
<1>3. QED
  BY <1>1, <1>2, LinksCut DEF Cell!Drop

LEMMA MarkFailedRefines ==
    ASSUME IInv, NEW w \in Writer, MarkRenderFailed(w)
    PROVE  Cell!Drop \/ UNCHANGED Cell!vars
<1>1. CASE Matches(w)
  BY <1>1, DropRefines DEF MarkRenderFailed, reading
<1>2. CASE ~Matches(w)
  <2>1. UNCHANGED <<status, generation, storageKey, observed, reader, view>>
    BY <1>2 DEF MarkRenderFailed, reading
  <2>2. \A v \in Writer : pc[v] = "idle" <=> pc'[v] = "idle"
    BY DEF MarkRenderFailed, Goto, IInv, TypeOK
  <2>3. QED
    BY <2>1, <2>2, QuietRefines
<1>3. QED
  BY <1>1, <1>2

LEMMA ReaderRefines ==
    ASSUME IInv, NEW r \in Reader, ReadRow(r) \/ ReadObject(r) \/ ReadFails(r)
    PROVE  Cell!Take(r) \/ Cell!Serve(r) \/ UNCHANGED Cell!vars
<1>0. TypeOK /\ KeysAreWon
  BY DEF IInv
<1>1. pageBar' = pageBar /\ linkedBar' = linkedBar
  BY DEF ReadRow, ReadObject, ReadFails, row, writing, pageBar, linkedBar
<1>2. CASE ReadRow(r) /\ reader'[r] = "reading"
  <2>1. /\ reader[r] = "idle" /\ status = "ready"
        /\ reader' = [reader EXCEPT ![r] = "reading"]
        /\ view' = [view EXCEPT ![r] = storageKey]
    BY <1>0, <1>2 DEF ReadRow, TypeOK
  <2>2. takenBar[r] = NoContent
    BY <1>0, <2>1 DEF takenBar, KeysAreWon, NoKey
  <2>3. pageBar = storageKey.content /\ pageBar # NoContent
    BY <1>0, <2>1, WonKeysAreReal DEF pageBar, KeysAreWon
  <2>4. takenBar' = [takenBar EXCEPT ![r] = pageBar]
    BY <1>0, <2>1, <2>3 DEF takenBar, TypeOK
  <2>5. servedBar' = servedBar
    BY <1>0, <2>1 DEF servedBar, TypeOK
  <2>6. QED
    BY <1>1, <2>2, <2>3, <2>4, <2>5 DEF Cell!Take
<1>3. CASE ReadRow(r) /\ reader'[r] # "reading"
  <2>1. /\ view' = view /\ reader[r] = "idle" /\ reader'[r] # "served"
        /\ \A q \in Reader \ {r} : reader'[q] = reader[q]
    BY <1>0, <1>3 DEF ReadRow, TypeOK
  <2>2. takenBar' = takenBar /\ servedBar' = servedBar
    BY <2>1 DEF takenBar, servedBar
  <2>3. QED
    BY <1>1, <2>2 DEF Cell!vars
<1>4. CASE ReadObject(r) \/ ReadFails(r)
  <2>1. /\ view' = view /\ reader[r] = "reading"
        /\ \A q \in Reader \ {r} : reader'[q] = reader[q]
    BY <1>0, <1>4 DEF ReadObject, ReadFails, TypeOK
  <2>2. takenBar' = takenBar
    BY <2>1 DEF takenBar
  <2>3. takenBar[r] # NoContent
    BY <1>0, <2>1, WonKeysAreReal DEF takenBar, KeysAreWon
  <2>4. CASE reader'[r] = "served"
    <3>1. servedBar' = servedBar \cup {r}
      BY <2>1, <2>4 DEF servedBar
    <3>2. QED
      BY <1>1, <2>2, <2>3, <3>1 DEF Cell!Serve
  <2>5. CASE reader'[r] # "served"
    <3>1. servedBar' = servedBar
      BY <2>1, <2>5 DEF servedBar
    <3>2. QED
      BY <1>1, <2>2, <3>1 DEF Cell!vars
  <2>6. QED
    BY <2>4, <2>5
<1>5. QED
  BY <1>2, <1>3, <1>4

\* The service is a load-linked/store-conditional cell: a render that was
\* under way when the page changed is never published, and readers are
\* served pages that were active when they looked.
THEOREM ServiceImplementsCell == Spec => ImplementsLinkedPage
<1>1. Init => Cell!Init
  <2>1. Init => pageBar = NoContent /\ linkedBar = {} /\ servedBar = {}
    BY DEF Init, pageBar, linkedBar, servedBar
  <2>2. Init => takenBar = [r \in Reader |-> NoContent]
    BY DEF Init, takenBar, NoKey
  <2>3. QED
    BY <2>1, <2>2 DEF Cell!Init
<1>2. IInv /\ [Next]_vars => [Cell!Next]_(Cell!vars)
  <2> SUFFICES ASSUME IInv, [Next]_vars
               PROVE  Cell!Next \/ UNCHANGED Cell!vars
    OBVIOUS
  <2>0. TypeOK
    BY DEF IInv
  <2>1. ASSUME NEW w \in Writer, Begin(w)
        PROVE  Cell!Next
    BY <2>1, BeginRefines DEF Cell!Next
  <2>2. ASSUME NEW w \in Writer, CommitReady(w) \/ CommitUnanswered(w)
        PROVE  Cell!Next
    BY <2>2, CommitRefines DEF Cell!Next
  <2>3. ASSUME NEW w \in Writer, Commit(w), ~CommitReady(w), ~CommitUnanswered(w)
        PROVE  UNCHANGED Cell!vars
    BY <2>0, <2>3, WriterQuiet DEF Commit
  <2>4. ASSUME NEW w \in Writer, MarkRenderFailed(w)
        PROVE  Cell!Next \/ UNCHANGED Cell!vars
    BY <2>4, MarkFailedRefines DEF Cell!Next
  <2>5. ASSUME NEW w \in Writer, StopBeforePut(w) \/ StopAfterPut(w)
        PROVE  UNCHANGED Cell!vars
    BY <2>0, <2>5, WriterQuiet
  <2>6. CASE Invalidate
    BY <2>6, DropRefines DEF Invalidate, writing, reading, Cell!Next
  <2>7. ASSUME NEW r \in Reader, ReadRow(r) \/ ReadObject(r) \/ ReadFails(r)
        PROVE  Cell!Next \/ UNCHANGED Cell!vars
    BY <2>7, ReaderRefines DEF Cell!Next
  <2>8. CASE UNCHANGED vars
    BY <2>8, QuietRefines DEF vars, row, writing, reading
  <2>9. QED
    BY <2>1, <2>2, <2>3, <2>4, <2>5, <2>6, <2>7, <2>8 DEF Next
<1>3. QED
  BY <1>1, <1>2, AlwaysIInv, PTL DEF Spec, ImplementsLinkedPage, Cell!Spec
=============================================================================
