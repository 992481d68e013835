------------------------ MODULE RenderCapacityProofs ------------------------
(***************************************************************************)
(* Proofs that the render capacity controller keeps its accounts for every *)
(* set of calls and every limit.                                           *)
(***************************************************************************)
EXTENDS RenderCapacity, FiniteSetTheorems, SequenceTheorems, TLAPS

-----------------------------------------------------------------------------
(* Sequences without repetition *)

\* Appending an element that is not there yet.
LEMMA AppendNew ==
    ASSUME NEW S, NEW q \in Seq(S), NEW e \in S, IsInjective(q), e \notin Range(q)
    PROVE  /\ Append(q, e) \in Seq(S)
           /\ Len(Append(q, e)) = Len(q) + 1
           /\ Range(Append(q, e)) = Range(q) \cup {e}
           /\ IsInjective(Append(q, e))
<1> DEFINE p == Append(q, e)
<1>1. /\ p \in Seq(S)
      /\ Len(p) = Len(q) + 1
      /\ \A i \in 1 .. Len(q) : p[i] = q[i]
      /\ p[Len(q) + 1] = e
  BY AppendProperties
<1>2. DOMAIN q = 1 .. Len(q) /\ DOMAIN p = 1 .. Len(q) + 1 /\ Len(q) \in Nat
  BY <1>1, LenProperties
<1> HIDE DEF p
<1>3. Range(p) = Range(q) \cup {e}
  BY <1>1, <1>2 DEF Range
<1>4. \A i \in DOMAIN q : q[i] # e
  BY DEF Range
<1>5. ASSUME NEW i \in DOMAIN p, NEW j \in DOMAIN p, p[i] = p[j]
      PROVE  i = j
  <2>1. CASE i \in DOMAIN q /\ j \in DOMAIN q
    BY <1>1, <1>2, <1>5, <2>1 DEF IsInjective
  <2>2. CASE i \in DOMAIN q /\ j = Len(q) + 1
    BY <1>1, <1>2, <1>4, <1>5, <2>2
  <2>3. CASE i = Len(q) + 1 /\ j \in DOMAIN q
    BY <1>1, <1>2, <1>4, <1>5, <2>3
  <2>4. CASE i = Len(q) + 1 /\ j = Len(q) + 1
    BY <2>4
  <2>5. QED
    BY <1>2, <2>1, <2>2, <2>3, <2>4
<1>6. IsInjective(p)
  BY <1>5 DEF IsInjective
<1>7. QED
  BY <1>1, <1>3, <1>6 DEF p

\* Removing the element at one place.
LEMMA RemoveOne ==
    ASSUME NEW S, NEW q \in Seq(S), NEW k \in 1 .. Len(q), IsInjective(q)
    PROVE  /\ RemoveAt(q, k) \in Seq(S)
           /\ Len(RemoveAt(q, k)) = Len(q) - 1
           /\ Range(RemoveAt(q, k)) = Range(q) \ {q[k]}
           /\ IsInjective(RemoveAt(q, k))
<1> DEFINE a == SubSeq(q, 1, k - 1)
           b == SubSeq(q, k + 1, Len(q))
           p == a \o b
<1> HIDE DEF a, b, p
<1>0. Len(q) \in Nat /\ k \in Int /\ 1 <= k /\ k <= Len(q)
  BY LenProperties
<1>d. DOMAIN q = 1 .. Len(q)
  BY LenProperties
<1>1. /\ a \in Seq(S)
      /\ Len(a) = k - 1
      /\ \A i \in 1 .. k - 1 : a[i] = q[i]
  <2>1. /\ a \in Seq(S)
        /\ Len(a) = IF 1 <= k - 1 THEN (k - 1) - 1 + 1 ELSE 0
        /\ \A i \in 1 .. (k - 1) - 1 + 1 : a[i] = q[1 + i - 1]
    BY <1>0, SubSeqProperties, ElementOfSeq DEF a
  <2>2. QED
    BY <1>0, <2>1
<1>2. /\ b \in Seq(S)
      /\ Len(b) = Len(q) - k
      /\ \A i \in 1 .. Len(q) - k : b[i] = q[k + i]
  <2>1. /\ b \in Seq(S)
        /\ Len(b) = IF k + 1 <= Len(q) THEN Len(q) - (k + 1) + 1 ELSE 0
        /\ \A i \in 1 .. Len(q) - (k + 1) + 1 : b[i] = q[(k + 1) + i - 1]
    BY <1>0, SubSeqProperties, ElementOfSeq DEF b
  <2>2. Len(b) = Len(q) - k
    <3>1. Len(b) = IF k + 1 <= Len(q) THEN Len(q) - (k + 1) + 1 ELSE 0
      BY <2>1
    <3>2. QED
      BY <1>0, <3>1
  <2>3. ASSUME NEW i \in 1 .. Len(q) - k
        PROVE  b[i] = q[k + i]
    <3>1. i \in 1 .. Len(q) - (k + 1) + 1 /\ (k + 1) + i - 1 = k + i
      BY <1>0
    <3>2. QED
      BY <2>1, <3>1
  <2>4. QED
    BY <2>1, <2>2, <2>3
<1>3. /\ p \in Seq(S)
      /\ Len(p) = Len(q) - 1
      /\ \A i \in 1 .. k - 1 : p[i] = q[i]
      /\ \A i \in k .. Len(q) - 1 : p[i] = q[i + 1]
  <2>1. /\ p \in Seq(S)
        /\ Len(p) = Len(a) + Len(b)
        /\ \A i \in 1 .. Len(a) + Len(b) :
              p[i] = IF i <= Len(a) THEN a[i] ELSE b[i - Len(a)]
    BY <1>1, <1>2, ConcatProperties DEF p
  <2>2. Len(p) = Len(q) - 1
    BY <1>0, <1>1, <1>2, <2>1
  <2>3. ASSUME NEW i \in 1 .. k - 1
        PROVE  p[i] = q[i]
    <3>1. i \in 1 .. Len(a) + Len(b) /\ i <= Len(a)
      BY <1>0, <1>1, <1>2
    <3>2. QED
      BY <1>1, <2>1, <3>1
  <2>4. ASSUME NEW i \in k .. Len(q) - 1
        PROVE  p[i] = q[i + 1]
    <3>1. /\ i \in 1 .. Len(a) + Len(b) /\ ~(i <= Len(a))
          /\ i - Len(a) \in 1 .. Len(q) - k
          /\ k + (i - Len(a)) = i + 1
      BY <1>0, <1>1, <1>2
    <3>2. QED
      BY <1>2, <2>1, <3>1
  <2>5. QED
    BY <2>1, <2>2, <2>3, <2>4
<1>4. DOMAIN p = 1 .. Len(q) - 1
  BY <1>3, LenProperties
<1>5. Range(p) = Range(q) \ {q[k]}
  <2>1. \A i \in DOMAIN p : p[i] \in Range(q) \ {q[k]}
    BY <1>0, <1>d, <1>3, <1>4 DEF Range, IsInjective
  <2>2. ASSUME NEW j \in DOMAIN q, q[j] # q[k]
        PROVE  \E i \in DOMAIN p : p[i] = q[j]
    <3>1. CASE j < k
      <4>1. j \in DOMAIN p /\ p[j] = q[j]
        BY <1>0, <1>d, <1>3, <1>4, <3>1
      <4>2. QED
        BY <4>1
    <3>2. CASE j > k
      <4>1. j - 1 \in DOMAIN p /\ p[j - 1] = q[j]
        BY <1>0, <1>d, <1>3, <1>4, <3>2
      <4>2. QED
        BY <4>1
    <3>3. QED
      BY <1>0, <1>d, <2>2, <3>1, <3>2
  <2>3. QED
    BY <2>1, <2>2 DEF Range
<1>6. IsInjective(p)
  <2>1. SUFFICES ASSUME NEW i \in 1 .. Len(q) - 1, NEW j \in 1 .. Len(q) - 1, p[i] = p[j]
                 PROVE  i = j
    BY <1>4 DEF IsInjective
  <2>2. ASSUME NEW n \in 1 .. Len(q) - 1
        PROVE  \E m \in DOMAIN q : p[n] = q[m] /\ m = IF n < k THEN n ELSE n + 1
    <3>1. CASE n < k
      <4>1. n \in 1 .. k - 1 /\ n \in DOMAIN q
        BY <1>0, <1>d, <3>1
      <4>2. p[n] = q[n]
        BY <1>3, <4>1
      <4>3. QED
        BY <3>1, <4>1, <4>2
    <3>2. CASE ~(n < k)
      <4>1. n \in k .. Len(q) - 1 /\ n + 1 \in DOMAIN q
        BY <1>0, <1>d, <3>2
      <4>2. p[n] = q[n + 1]
        BY <1>3, <4>1
      <4>3. QED
        BY <3>2, <4>1, <4>2
    <3>3. QED
      BY <3>1, <3>2
  <2>3. PICK m \in DOMAIN q : p[i] = q[m] /\ m = IF i < k THEN i ELSE i + 1
    BY <2>2
  <2>4. PICK l \in DOMAIN q : p[j] = q[l] /\ l = IF j < k THEN j ELSE j + 1
    BY <2>2
  <2>5. m = l
    BY <2>1, <2>3, <2>4 DEF IsInjective
  <2>6. QED
    BY <1>0, <2>3, <2>4, <2>5
<1>7. RemoveAt(q, k) = p
  BY DEF RemoveAt, p, a, b
<1>8. QED
  BY <1>3, <1>5, <1>6, <1>7

\* Removing the element e wherever it stands.
LEMMA RemoveElement ==
    ASSUME NEW S, NEW q \in Seq(S), NEW e, e \in Range(q), IsInjective(q)
    PROVE  /\ RemoveFirst(q, e) \in Seq(S)
           /\ Len(RemoveFirst(q, e)) = Len(q) - 1
           /\ Range(RemoveFirst(q, e)) = Range(q) \ {e}
           /\ IsInjective(RemoveFirst(q, e))
<1>1. PICK k \in DOMAIN q : q[k] = e
  BY DEF Range
<1>2. k \in 1 .. Len(q) /\ DOMAIN q = 1 .. Len(q) /\ k \in Int
  BY LenProperties
<1>3. {i \in 1 .. Len(q) : q[i] = e} = {k}
  BY <1>1, <1>2 DEF IsInjective
<1>4. Min({k}) = k
  BY <1>2 DEF Min
<1>5. RemoveFirst(q, e) = RemoveAt(q, k)
  BY <1>1, <1>2, <1>3, <1>4 DEF RemoveFirst, SelectInSeq
<1>6. /\ RemoveAt(q, k) \in Seq(S)
      /\ Len(RemoveAt(q, k)) = Len(q) - 1
      /\ Range(RemoveAt(q, k)) = Range(q) \ {q[k]}
      /\ IsInjective(RemoveAt(q, k))
  BY <1>2, RemoveOne
<1>7. QED
  BY <1>1, <1>5, <1>6

\* Removing the first element.
LEMMA RemoveHead ==
    ASSUME NEW S, NEW q \in Seq(S), q # <<>>, IsInjective(q)
    PROVE  /\ q[1] \in Range(q)
           /\ SubSeq(q, 2, Len(q)) \in Seq(S)
           /\ Len(SubSeq(q, 2, Len(q))) = Len(q) - 1
           /\ Range(SubSeq(q, 2, Len(q))) = Range(q) \ {q[1]}
           /\ IsInjective(SubSeq(q, 2, Len(q)))
<1> DEFINE p == SubSeq(q, 2, Len(q))
<1> HIDE DEF p
<1>1. Len(q) \in Nat /\ Len(q) >= 1
  BY LenProperties, EmptySeq
<1>2. DOMAIN q = 1 .. Len(q)
  BY LenProperties
<1>3. /\ p \in Seq(S)
      /\ Len(p) = Len(q) - 1
      /\ \A i \in 1 .. Len(q) - 1 : p[i] = q[i + 1]
  <2>1. p = Tail(q)
    BY TailIsSubSeq DEF p
  <2>2. QED
    BY <2>1, HeadTailProperties
<1>4. DOMAIN p = 1 .. Len(q) - 1
  BY <1>3, LenProperties
<1>5. Range(p) = Range(q) \ {q[1]}
  <2>1. \A i \in DOMAIN p : p[i] \in Range(q) \ {q[1]}
    BY <1>1, <1>2, <1>3, <1>4 DEF Range, IsInjective
  <2>2. ASSUME NEW j \in DOMAIN q, q[j] # q[1]
        PROVE  \E i \in DOMAIN p : p[i] = q[j]
    <3>1. j - 1 \in DOMAIN p /\ p[j - 1] = q[j]
      BY <1>1, <1>2, <1>3, <1>4, <2>2
    <3>2. QED
      BY <3>1
  <2>3. QED
    BY <2>1, <2>2 DEF Range
<1>6. ASSUME NEW i \in DOMAIN p, NEW j \in DOMAIN p, p[i] = p[j]
      PROVE  i = j
  <2>1. /\ i + 1 \in DOMAIN q /\ j + 1 \in DOMAIN q
        /\ p[i] = q[i + 1] /\ p[j] = q[j + 1]
    BY <1>1, <1>2, <1>3, <1>4
  <2>2. i + 1 = j + 1
    BY <1>6, <2>1 DEF IsInjective
  <2>3. i \in Int /\ j \in Int
    BY <1>4
  <2>4. QED
    BY <2>2, <2>3
<1>7. q[1] \in Range(q)
  BY <1>1, <1>2 DEF Range
<1>8. IsInjective(p)
  BY <1>6 DEF IsInjective
<1>9. QED
  BY <1>3, <1>5, <1>7, <1>8 DEF p

-----------------------------------------------------------------------------
(* The inductive invariant *)

\* Whoever was taken out of the queue as cancelled has been turned away, so
\* that no queued or running entry carries the flag.
CancelledAnswered == \A r \in cancelled : outcome[r] \in Refusal

IInv ==
    /\ TypeOK
    /\ SlotsAccounted
    /\ PendingAccounted
    /\ TimersMatchQueue
    /\ WorkConserving
    /\ CancelledAnswered

\* Under the invariant the loop of tryRunNext, entered after one slot was
\* released, starts the oldest waiting entry, if there is one, and stops.
LEMMA LoopEffect ==
    ASSUME IInv
    PROVE  /\ queue = <<>> => /\ Pulled(active - 1) = {}
                              /\ Shifted(active - 1) = {}
                              /\ Started(active - 1) = {}
           /\ queue # <<>> => /\ Pulled(active - 1) = {1}
                              /\ Shifted(active - 1) = {queue[1]}
                              /\ Started(active - 1) = {queue[1]}
<1>1. CASE queue = <<>>
  <2>1. DOMAIN queue = {}
    BY <1>1
  <2>2. QED
    BY <1>1, <2>1 DEF Pulled, Shifted, Started
<1>2. CASE queue # <<>>
  <2>1. /\ Len(queue) \in Nat /\ Len(queue) >= 1
        /\ active = MaxConcurrent /\ MaxConcurrent \in Nat
    BY <1>2, LenProperties, EmptySeq, CapacityAssumption
       DEF IInv, TypeOK, WorkConserving
  <2>2. DOMAIN queue = 1 .. Len(queue)
    BY LenProperties DEF IInv, TypeOK
  <2>3. \A i \in DOMAIN queue : queue[i] \notin cancelled
    <3>1. \A r \in Range(queue) : outcome[r] = "pending"
      BY DEF IInv, PendingAccounted
    <3>2. QED
      BY <3>1 DEF IInv, CancelledAnswered, Refusal, Range
  <2>4. Cardinality(LiveBefore(1)) = 0
    <3>1. LiveBefore(1) = {}
      BY DEF LiveBefore
    <3>2. QED
      BY <3>1, FS_EmptySet
  <2>5. 1 \in DOMAIN queue
    BY <2>1, <2>2
  <2>6. ASSUME NEW i \in DOMAIN queue, i # 1
        PROVE  /\ Cardinality(LiveBefore(i)) \in Nat
               /\ Cardinality(LiveBefore(i)) >= 1
    <3>1. i \in Int /\ i >= 2
      BY <2>1, <2>2, <2>6
    <3>2. LiveBefore(i) \subseteq 1 .. i - 1
      BY DEF LiveBefore
    <3>3. IsFiniteSet(LiveBefore(i))
      <4>1. IsFiniteSet(1 .. i - 1)
        BY <3>1, FS_Interval
      <4>2. QED
        BY <3>2, <4>1, FS_Subset
    <3>4. 1 \in LiveBefore(i)
      BY <2>3, <2>5, <3>1 DEF LiveBefore
    <3>5. Cardinality(LiveBefore(i)) \in Nat
      BY <3>3, FS_CardinalityType
    <3>6. Cardinality(LiveBefore(i)) # 0
      BY <3>3, <3>4, FS_EmptySet
    <3>7. QED
      BY <3>5, <3>6
  <2>7. Pulled(active - 1) = {1}
    <3>1. 1 \in Pulled(active - 1)
      BY <2>1, <2>4, <2>5 DEF Pulled
    <3>2. \A i \in DOMAIN queue : i # 1 => i \notin Pulled(active - 1)
      BY <2>1, <2>6 DEF Pulled
    <3>3. Pulled(active - 1) \subseteq DOMAIN queue
      BY DEF Pulled
    <3>4. QED
      BY <3>1, <3>2, <3>3
  <2>8. Shifted(active - 1) = {queue[1]}
    BY <2>7 DEF Shifted
  <2>9. QED
    BY <1>2, <2>3, <2>5, <2>7, <2>8 DEF Started
<1>3. QED
  BY <1>1, <1>2

-----------------------------------------------------------------------------
(* Every action keeps the invariant *)

LEMMA InitIInv == Init => IInv
<1> SUFFICES ASSUME Init PROVE IInv
  OBVIOUS
<1>1. Range(queue) = {} /\ IsInjective(queue) /\ Len(queue) = 0
  BY DEF Init, Range, IsInjective
<1>2. TypeOK
  <2>1. queue \in Seq(Request)
    BY EmptySeq DEF Init
  <2>2. outcome \in [Request -> Outcome]
    BY DEF Init, Outcome
  <2>3. QED
    BY <2>1, <2>2 DEF Init, TypeOK
<1>3. SlotsAccounted
  BY <1>1, FS_EmptySet, CapacityAssumption DEF Init, SlotsAccounted
<1>4. PendingAccounted
  BY <1>1 DEF Init, PendingAccounted
<1>5. QED
  BY <1>1, <1>2, <1>3, <1>4
     DEF Init, IInv, TimersMatchQueue, WorkConserving, CancelledAnswered

\* Calls that only learn that they are refused.
LEMMA RefusedKeepsIInv ==
    ASSUME IInv, NEW r \in Request, RunWhenClosed(r) \/ RunWhenFull(r)
    PROVE  IInv'
<1>1. /\ outcome[r] = "not_called"
      /\ \E o \in Refusal : outcome' = [outcome EXCEPT ![r] = o]
      /\ UNCHANGED <<active, closed, queue, timers, cancelled, executing>>
  BY DEF RunWhenClosed, RunWhenFull, Refusal
<1>2. {q \in Request : outcome'[q] = "pending"}
        = {q \in Request : outcome[q] = "pending"}
  BY <1>1 DEF IInv, TypeOK, Refusal
<1>3. TypeOK'
  BY <1>1 DEF IInv, TypeOK, Outcome
<1>4. CancelledAnswered'
  BY <1>1 DEF IInv, TypeOK, CancelledAnswered, Refusal
<1>5. SlotsAccounted' /\ PendingAccounted' /\ TimersMatchQueue' /\ WorkConserving'
  BY <1>1, <1>2
     DEF IInv, SlotsAccounted, PendingAccounted, TimersMatchQueue, WorkConserving
<1>6. QED
  BY <1>3, <1>4, <1>5 DEF IInv

LEMMA RunNowKeepsIInv ==
    ASSUME IInv, NEW r \in Request, RunNow(r)
    PROVE  IInv'
<1> USE DEF RunNow
<1>1. r \notin executing /\ r \notin Range(queue) /\ r \notin cancelled
  BY DEF IInv, PendingAccounted, CancelledAnswered, Refusal
<1>2. queue = <<>>
  BY CapacityAssumption DEF IInv, TypeOK, WorkConserving
<1>3. {q \in Request : outcome'[q] = "pending"}
        = {q \in Request : outcome[q] = "pending"} \cup {r}
  BY DEF IInv, TypeOK
<1>4. TypeOK'
  BY DEF IInv, TypeOK, Outcome
<1>5. SlotsAccounted'
  <2>1. IsFiniteSet(executing)
    BY FS_Subset, CapacityAssumption DEF IInv, TypeOK
  <2>2. Cardinality(executing') = Cardinality(executing) + 1
    BY <1>1, <2>1, FS_AddElement
  <2>3. QED
    BY <2>2, CapacityAssumption DEF IInv, TypeOK, SlotsAccounted
<1>6. PendingAccounted'
  BY <1>1, <1>3 DEF IInv, PendingAccounted
<1>7. TimersMatchQueue' /\ WorkConserving' /\ CancelledAnswered'
  BY <1>1, <1>2
     DEF IInv, TypeOK, TimersMatchQueue, WorkConserving, CancelledAnswered
<1>8. QED
  BY <1>4, <1>5, <1>6, <1>7 DEF IInv

LEMMA EnqueueKeepsIInv ==
    ASSUME IInv, NEW r \in Request, Enqueue(r)
    PROVE  IInv'
<1> USE DEF Enqueue
<1>1. r \notin executing /\ r \notin Range(queue) /\ r \notin cancelled
  BY DEF IInv, PendingAccounted, CancelledAnswered, Refusal
<1>2. /\ queue' \in Seq(Request)
      /\ Len(queue') = Len(queue) + 1
      /\ Range(queue') = Range(queue) \cup {r}
      /\ IsInjective(queue')
  BY <1>1, AppendNew DEF IInv, TypeOK, PendingAccounted
<1>3. {q \in Request : outcome'[q] = "pending"}
        = {q \in Request : outcome[q] = "pending"} \cup {r}
  BY DEF IInv, TypeOK
<1>4. TypeOK'
  BY <1>2 DEF IInv, TypeOK, Outcome
<1>5. SlotsAccounted'
  BY <1>2, LenProperties, CapacityAssumption DEF IInv, TypeOK, SlotsAccounted
<1>6. PendingAccounted'
  BY <1>1, <1>2, <1>3 DEF IInv, PendingAccounted
<1>7. TimersMatchQueue' /\ CancelledAnswered'
  BY <1>1, <1>2 DEF IInv, TypeOK, TimersMatchQueue, CancelledAnswered
<1>8. WorkConserving'
  BY CapacityAssumption DEF IInv, TypeOK, SlotsAccounted, WorkConserving
<1>9. QED
  BY <1>4, <1>5, <1>6, <1>7, <1>8 DEF IInv

\* A settled render answers its own caller, who was pending.
LEMMA CompleteAnswers ==
    ASSUME IInv, NEW r \in Request, Complete(r)
    PROVE  /\ outcome' \in [Request -> Outcome]
           /\ {q \in Request : outcome'[q] = "pending"}
                = {q \in Request : outcome[q] = "pending"} \ {r}
           /\ \A q \in Request : q # r => outcome'[q] = outcome[q]
           /\ r \notin cancelled
<1>1. outcome[r] = "pending"
  BY DEF Complete, IInv, PendingAccounted
<1>2. \E o \in {"fulfilled", "rejected"} : outcome' = [outcome EXCEPT ![r] = o]
  BY <1>1 DEF Complete, Settled
<1>3. r \notin cancelled
  BY <1>1 DEF IInv, CancelledAnswered, Refusal
<1>4. QED
  BY <1>2, <1>3 DEF IInv, TypeOK, Outcome

\* What the step of a settled render does to the slots: it frees its own and
\* hands it to the oldest waiting entry.
LEMMA CompleteShape ==
    ASSUME IInv, NEW r \in Request, Complete(r)
    PROVE  /\ r \in executing
           /\ \/ /\ queue = <<>>
                 /\ active' = active - 1
                 /\ queue' = queue
                 /\ timers' = timers
                 /\ executing' = executing \ {r}
              \/ /\ queue # <<>>
                 /\ active' = active
                 /\ queue' = SubSeq(queue, 2, Len(queue))
                 /\ timers' = timers \ {queue[1]}
                 /\ executing' = (executing \ {r}) \cup {queue[1]}
<1>1. active \in Nat /\ Cardinality({}) = 0 /\ \A x : Cardinality({x}) = 1
  BY FS_EmptySet, FS_Singleton DEF IInv, TypeOK
<1>2. CASE queue = <<>>
  <2>1. /\ active' = (active - 1) + 0
        /\ queue' = SubSeq(queue, 0 + 1, Len(queue))
        /\ timers' = timers \ {}
        /\ executing' = (executing \ {r}) \cup {}
    BY <1>1, <1>2, LoopEffect DEF Complete, TryRunNext
  <2>2. SubSeq(queue, 0 + 1, Len(queue)) = <<>>
    BY <1>2, SubSeqEmpty, EmptySeq
  <2>3. QED
    BY <1>1, <1>2, <2>1, <2>2 DEF Complete
<1>3. CASE queue # <<>>
  <2>1. /\ active' = (active - 1) + 1
        /\ queue' = SubSeq(queue, 1 + 1, Len(queue))
        /\ timers' = timers \ {queue[1]}
        /\ executing' = (executing \ {r}) \cup {queue[1]}
    BY <1>1, <1>3, LoopEffect DEF Complete, TryRunNext
  <2>2. QED
    BY <1>1, <1>3, <2>1 DEF Complete
<1>4. QED
  BY <1>2, <1>3

LEMMA CompleteKeepsIInv ==
    ASSUME IInv, NEW r \in Request, Complete(r)
    PROVE  IInv'
<1>1. /\ r \in executing /\ r \notin Range(queue) /\ r \notin cancelled
      /\ outcome' \in [Request -> Outcome]
      /\ {q \in Request : outcome'[q] = "pending"}
           = {q \in Request : outcome[q] = "pending"} \ {r}
      /\ \A q \in Request : q # r => outcome'[q] = outcome[q]
  BY CompleteAnswers, CompleteShape DEF IInv, PendingAccounted
<1>2. /\ IsFiniteSet(executing)
      /\ IsFiniteSet(executing \ {r})
      /\ Cardinality(executing \ {r}) = active - 1
      /\ active \in Nat /\ active - 1 \in Nat
  <2>1. IsFiniteSet(executing)
    BY FS_Subset, CapacityAssumption DEF IInv, TypeOK
  <2>2. /\ IsFiniteSet(executing \ {r})
        /\ Cardinality(executing \ {r}) = Cardinality(executing) - 1
    BY <1>1, <2>1, FS_RemoveElement
  <2>3. Cardinality(executing \ {r}) \in Nat
    BY <2>2, FS_CardinalityType
  <2>4. QED
    BY <2>1, <2>2, <2>3 DEF IInv, TypeOK, SlotsAccounted
<1>3. UNCHANGED <<closed, cancelled>>
  BY DEF Complete
<1>4. CancelledAnswered'
  BY <1>1, <1>3 DEF IInv, TypeOK, CancelledAnswered
<1>5. CASE queue = <<>>
  <2>1. /\ active' = active - 1 /\ queue' = queue /\ timers' = timers
        /\ executing' = executing \ {r}
    BY <1>5, CompleteShape
  <2>2. TypeOK'
    BY <1>1, <1>2, <1>3, <2>1 DEF IInv, TypeOK
  <2>3. SlotsAccounted'
    BY <1>2, <2>1, CapacityAssumption DEF IInv, SlotsAccounted
  <2>4. PendingAccounted' /\ TimersMatchQueue' /\ WorkConserving'
    BY <1>1, <1>5, <2>1
       DEF IInv, PendingAccounted, TimersMatchQueue, WorkConserving
  <2>5. QED
    BY <1>4, <2>2, <2>3, <2>4 DEF IInv
<1>6. CASE queue # <<>>
  <2> DEFINE h == queue[1]
  <2>1. /\ active' = active
        /\ timers' = timers \ {h}
        /\ executing' = (executing \ {r}) \cup {h}
        /\ queue' = SubSeq(queue, 2, Len(queue))
    BY <1>6, CompleteShape
  <2>2. /\ h \in Range(queue)
        /\ queue' \in Seq(Request)
        /\ Len(queue') = Len(queue) - 1
        /\ Range(queue') = Range(queue) \ {h}
        /\ IsInjective(queue')
    BY <1>6, <2>1, RemoveHead DEF IInv, TypeOK, PendingAccounted
  <2> HIDE DEF h
  <2>3. h \in Request /\ h \notin executing
    BY <2>2 DEF IInv, PendingAccounted
  <2>4. TypeOK'
    BY <1>1, <1>3, <2>1, <2>2, <2>3 DEF IInv, TypeOK
  <2>5. SlotsAccounted'
    <3>1. Cardinality(executing') = active
      <4>1. Cardinality((executing \ {r}) \cup {h}) = Cardinality(executing \ {r}) + 1
        BY <1>2, <2>3, FS_AddElement
      <4>2. QED
        BY <1>2, <2>1, <4>1
    <3>2. Len(queue) \in Nat
      BY LenProperties DEF IInv, TypeOK
    <3>3. QED
      BY <2>1, <2>2, <3>1, <3>2, CapacityAssumption DEF IInv, SlotsAccounted
  <2>6. PendingAccounted'
    BY <1>1, <2>1, <2>2, <2>3 DEF IInv, PendingAccounted
  <2>7. TimersMatchQueue'
    BY <2>1, <2>2 DEF IInv, TimersMatchQueue
  <2>8. WorkConserving'
    BY <1>3, <1>6, <2>1 DEF IInv, WorkConserving
  <2>9. QED
    BY <1>4, <2>4, <2>5, <2>6, <2>7, <2>8 DEF IInv
<1>7. QED
  BY <1>5, <1>6

\* What a timer that fires does: its entry leaves the queue and its caller
\* learns that the wait is over.
LEMMA TimeoutShape ==
    ASSUME IInv, NEW r \in Request, QueueTimeout(r)
    PROVE  /\ r \in Range(queue)
           /\ queue' \in Seq(Request)
           /\ Len(queue') = Len(queue) - 1
           /\ Range(queue') = Range(queue) \ {r}
           /\ IsInjective(queue')
           /\ outcome[r] = "pending"
           /\ outcome' = [outcome EXCEPT ![r] = "timeout"]
<1>1. r \in Range(queue) /\ outcome[r] = "pending"
  BY DEF QueueTimeout, IInv, TimersMatchQueue, PendingAccounted
<1>2. QED
  BY <1>1, RemoveElement
     DEF QueueTimeout, IInv, TypeOK, PendingAccounted, Settled

LEMMA TimeoutKeepsIInv ==
    ASSUME IInv, NEW r \in Request, QueueTimeout(r)
    PROVE  IInv'
<1>1. /\ r \in Range(queue)
      /\ queue' \in Seq(Request)
      /\ Len(queue') = Len(queue) - 1
      /\ Range(queue') = Range(queue) \ {r}
      /\ IsInjective(queue')
      /\ outcome[r] = "pending"
      /\ outcome' = [outcome EXCEPT ![r] = "timeout"]
  BY TimeoutShape
<1>2. /\ timers' = timers \ {r}
      /\ cancelled' = cancelled \cup {r}
      /\ UNCHANGED <<active, closed, executing>>
  BY DEF QueueTimeout
<1>3. {q \in Request : outcome'[q] = "pending"}
        = {q \in Request : outcome[q] = "pending"} \ {r}
  BY <1>1 DEF IInv, TypeOK
<1>4. TypeOK'
  BY <1>1, <1>2 DEF IInv, TypeOK, Outcome, Refusal
<1>5. SlotsAccounted'
  <2>1. Len(queue) \in Nat
    BY LenProperties DEF IInv, TypeOK
  <2>2. QED
    BY <1>1, <1>2, <2>1, CapacityAssumption DEF IInv, SlotsAccounted
<1>6. PendingAccounted'
  BY <1>1, <1>2, <1>3 DEF IInv, PendingAccounted
<1>7. TimersMatchQueue' /\ CancelledAnswered'
  BY <1>1, <1>2
     DEF IInv, TypeOK, TimersMatchQueue, CancelledAnswered, Refusal
<1>8. WorkConserving'
  <2>1. queue # <<>>
    BY <1>1 DEF Range
  <2>2. QED
    BY <1>2, <2>1 DEF IInv, WorkConserving
<1>9. QED
  BY <1>4, <1>5, <1>6, <1>7, <1>8 DEF IInv

LEMMA CloseKeepsIInv ==
    ASSUME IInv, Close
    PROVE  IInv'
<1> USE DEF Close
<1>1. Range(queue') = {} /\ IsInjective(queue') /\ Len(queue') = 0
  BY DEF Range, IsInjective
<1>2. \A r \in Range(queue) : outcome[r] = "pending"
  BY DEF IInv, PendingAccounted
<1>3. Range(queue) \subseteq Request
  BY RangeOfSeq DEF IInv, TypeOK
<1>4. \A r \in Request :
         outcome'[r] = IF r \in Range(queue) THEN "closed" ELSE outcome[r]
  BY <1>2 DEF Settled
<1>5. outcome' \in [Request -> Outcome]
  <2>1. \A r \in Request : outcome'[r] \in Outcome
    BY <1>4 DEF IInv, TypeOK, Outcome, Refusal
  <2>2. QED
    BY <2>1
<1>6. TypeOK'
  <2>1. queue' \in Seq(Request)
    BY EmptySeq
  <2>2. QED
    BY <1>3, <1>5, <2>1 DEF IInv, TypeOK
<1>7. SlotsAccounted'
  BY <1>1, CapacityAssumption DEF IInv, SlotsAccounted
<1>8. PendingAccounted'
  <2>1. {r \in Request : outcome'[r] = "pending"} = executing
    BY <1>2, <1>4 DEF IInv, PendingAccounted
  <2>2. QED
    BY <1>1, <2>1 DEF PendingAccounted
<1>9. TimersMatchQueue' /\ WorkConserving'
  BY <1>1 DEF IInv, TimersMatchQueue, WorkConserving
<1>10. CancelledAnswered'
  <2>1. ASSUME NEW r \in cancelled'
        PROVE  outcome'[r] \in Refusal
    <3>1. CASE r \in Range(queue)
      BY <1>3, <1>4, <3>1 DEF Refusal
    <3>2. CASE r \notin Range(queue)
      BY <1>4, <2>1, <3>2 DEF IInv, TypeOK, CancelledAnswered
    <3>3. QED
      BY <3>1, <3>2
  <2>2. QED
    BY <2>1 DEF CancelledAnswered
<1>11. QED
  BY <1>6, <1>7, <1>8, <1>9, <1>10 DEF IInv

LEMMA StutterKeepsIInv ==
    ASSUME IInv, UNCHANGED vars
    PROVE  IInv'
BY DEF vars, IInv, TypeOK, SlotsAccounted, PendingAccounted, TimersMatchQueue,
       WorkConserving, CancelledAnswered

LEMMA NextKeepsIInv == IInv /\ [Next]_vars => IInv'
<1> SUFFICES ASSUME IInv, [Next]_vars
             PROVE  IInv'
  OBVIOUS
<1>1. ASSUME NEW r \in Request, RunWhenClosed(r) \/ RunWhenFull(r)
      PROVE  IInv'
  BY <1>1, RefusedKeepsIInv
<1>2. ASSUME NEW r \in Request, RunNow(r)
      PROVE  IInv'
  BY <1>2, RunNowKeepsIInv
<1>3. ASSUME NEW r \in Request, Enqueue(r)
      PROVE  IInv'
  BY <1>3, EnqueueKeepsIInv
<1>4. ASSUME NEW r \in Request, Complete(r)
      PROVE  IInv'
  BY <1>4, CompleteKeepsIInv
<1>5. ASSUME NEW r \in Request, QueueTimeout(r)
      PROVE  IInv'
  BY <1>5, TimeoutKeepsIInv
<1>6. CASE Close
  BY <1>6, CloseKeepsIInv
<1>7. CASE Finished \/ UNCHANGED vars
  BY <1>7, StutterKeepsIInv DEF Finished
<1>8. QED
  BY <1>1, <1>2, <1>3, <1>4, <1>5, <1>6, <1>7 DEF Next

LEMMA AlwaysIInv == Spec => []IInv
BY InitIInv, NextKeepsIInv, PTL DEF Spec

-----------------------------------------------------------------------------
(* The theorems *)

\* The controller's variables keep their types, whatever the limits.
THEOREM TypeCorrect == Spec => []TypeOK
BY AlwaysIInv, PTL DEF IInv

\* The slot counter equals the number of running renders and neither it nor
\* the queue exceeds its limit (run, releaseSlot, tryRunNext).
THEOREM SlotsAreAccounted == Spec => []SlotsAccounted
BY AlwaysIInv, PTL DEF IInv

\* Callers without an answer are those queued or rendering: nobody is
\* forgotten and nobody turned away is rendered for.
THEOREM NoCallIsLost == Spec => []PendingAccounted
BY AlwaysIInv, PTL DEF IInv

\* Queue timers are armed exactly for the waiting entries.
THEOREM TimersAreTheQueues == Spec => []TimersMatchQueue
BY AlwaysIInv, PTL DEF IInv

\* While a call waits every slot is taken and the controller is open.
THEOREM NoSlotIdlesWhileCallsWait == Spec => []WorkConserving
BY AlwaysIInv, PTL DEF IInv

\* A call that starts to render leaves no older call waiting.
FifoStep ==
    \A r \in executing' \ executing : \A i \in DOMAIN queue :
        queue[i] \in Range(queue')
            => \E j \in DOMAIN queue : j < i /\ queue[j] = r

LEMMA CompleteIsFifo ==
    ASSUME IInv, NEW c \in Request, Complete(c)
    PROVE  FifoStep
<1>1. SUFFICES ASSUME NEW r \in executing' \ executing, NEW i \in DOMAIN queue,
                      queue[i] \in Range(queue')
               PROVE  \E j \in DOMAIN queue : j < i /\ queue[j] = r
  BY DEF FifoStep
<1>2. /\ queue # <<>>
      /\ queue' = SubSeq(queue, 2, Len(queue))
      /\ executing' = (executing \ {c}) \cup {queue[1]}
  BY <1>1, CompleteShape
<1>3. r = queue[1]
  BY <1>1, <1>2
<1>4. 1 \in DOMAIN queue /\ i \in Int /\ 1 <= i
  BY <1>2, LenProperties, EmptySeq DEF IInv, TypeOK
<1>5. queue[i] # queue[1]
  BY <1>1, <1>2, RemoveHead DEF IInv, TypeOK, PendingAccounted
<1>6. i # 1
  BY <1>5
<1>7. 1 < i
  BY <1>4, <1>6
<1>8. QED
  BY <1>3, <1>4, <1>7

\* Waiting calls start in the order in which they arrived, and a new call
\* never overtakes them (run, tryRunNext).
THEOREM CallsStartInOrder == Spec => FifoOrder
<1>1. IInv /\ [Next]_vars => [FifoStep]_vars
  <2> SUFFICES ASSUME IInv, [Next]_vars
               PROVE  FifoStep \/ UNCHANGED vars
    OBVIOUS
  <2>1. ASSUME NEW r \in Request, RunNow(r)
        PROVE  FifoStep
    <3>1. queue = <<>>
      BY <2>1, CapacityAssumption DEF IInv, TypeOK, WorkConserving, RunNow
    <3>2. DOMAIN queue = {}
      BY <3>1
    <3>3. QED
      BY <3>2 DEF FifoStep
  <2>2. ASSUME NEW r \in Request, Complete(r)
        PROVE  FifoStep
    BY <2>2, CompleteIsFifo
  <2>3. ASSUME NEW r \in Request,
               RunWhenClosed(r) \/ RunWhenFull(r) \/ Enqueue(r) \/ QueueTimeout(r)
        PROVE  FifoStep
    BY <2>3 DEF FifoStep, RunWhenClosed, RunWhenFull, Enqueue, QueueTimeout
  <2>4. CASE Close
    BY <2>4 DEF FifoStep, Close
  <2>5. CASE Finished \/ UNCHANGED vars
    BY <2>5 DEF Finished
  <2>6. QED
    BY <2>1, <2>2, <2>3, <2>4, <2>5 DEF Next
<1>2. FifoOrder <=> [][FifoStep]_vars
  BY PTL DEF FifoOrder, FifoStep
<1>3. QED
  BY <1>1, <1>2, AlwaysIInv, PTL DEF Spec

ClosedStep ==
    closed => closed' /\ executing' \subseteq executing /\ queue' = <<>>

\* close() is final: afterwards no render starts and no call is queued.
THEOREM NothingStartsAfterClose == Spec => ClosedIsFinal
<1>1. IInv /\ [Next]_vars => [ClosedStep]_vars
  <2> SUFFICES ASSUME IInv, [Next]_vars, closed
               PROVE  \/ closed' /\ executing' \subseteq executing /\ queue' = <<>>
                      \/ UNCHANGED vars
    BY DEF ClosedStep
  <2>1. queue = <<>>
    BY DEF IInv, WorkConserving
  <2>2. ASSUME NEW r \in Request, Complete(r)
        PROVE  closed' /\ executing' \subseteq executing /\ queue' = <<>>
    BY <2>1, <2>2, CompleteShape DEF Complete
  <2>3. ASSUME NEW r \in Request, QueueTimeout(r)
        PROVE  FALSE
    <3>1. r \in Range(queue)
      BY <2>3, TimeoutShape
    <3>2. QED
      BY <2>1, <3>1 DEF Range
  <2>4. ASSUME NEW r \in Request,
               RunWhenClosed(r) \/ RunNow(r) \/ RunWhenFull(r) \/ Enqueue(r)
        PROVE  closed' /\ executing' \subseteq executing /\ queue' = <<>>
    BY <2>1, <2>4 DEF RunWhenClosed, RunNow, RunWhenFull, Enqueue
  <2>5. CASE Close
    BY <2>5 DEF Close
  <2>6. CASE Finished \/ UNCHANGED vars
    BY <2>6 DEF Finished
  <2>7. QED
    BY <2>2, <2>3, <2>4, <2>5, <2>6 DEF Next
<1>2. ClosedIsFinal <=> [][ClosedStep]_vars
  BY PTL DEF ClosedIsFinal, ClosedStep
<1>3. QED
  BY <1>1, <1>2, AlwaysIInv, PTL DEF Spec

-----------------------------------------------------------------------------
(* The controller implements the pool *)

\* A sequence without repetition has as many elements as places.
LEMMA CardinalityOfRange ==
    ASSUME NEW S, NEW q \in Seq(S), IsInjective(q)
    PROVE  Cardinality(Range(q)) = Len(q)
<1>1. Len(q) \in Nat
  BY LenProperties
<1>2. q \in [1 .. Len(q) -> Range(q)]
  BY LenProperties DEF Range
<1>3. DOMAIN q = 1 .. Len(q)
  BY LenProperties
<1>4. q \in Bijection(1 .. Len(q), Range(q))
  BY <1>2, <1>3 DEF Bijection, Injection, Surjection, IsInjective, Range
<1>5. QED
  BY <1>1, <1>4, FS_CountingElements DEF ExistsBijection

\* Where the pool sees each call, read off the controller's state.
PhasesRead ==
    \A r \in Request :
        /\ outcome[r] = "not_called" => phaseBar[r] = "new"
        /\ r \in executing => phaseBar[r] = "rendering"
        /\ r \in Range(queue) => phaseBar[r] = "waiting"
        /\ outcome[r] \in {"fulfilled", "rejected"} => phaseBar[r] = "done"
        /\ outcome[r] \in Refusal => phaseBar[r] = "refused"

LEMMA PhasesAreRead == IInv => PhasesRead
<1> SUFFICES ASSUME IInv, NEW r \in Request
             PROVE  /\ outcome[r] = "not_called" => phaseBar[r] = "new"
                    /\ r \in executing => phaseBar[r] = "rendering"
                    /\ r \in Range(queue) => phaseBar[r] = "waiting"
                    /\ outcome[r] \in {"fulfilled", "rejected"} => phaseBar[r] = "done"
                    /\ outcome[r] \in Refusal => phaseBar[r] = "refused"
  BY DEF PhasesRead
<1>1. /\ r \in executing => outcome[r] = "pending"
      /\ r \in Range(queue) => outcome[r] = "pending"
      /\ r \in executing => r \notin Range(queue)
  BY DEF IInv, PendingAccounted
<1>2. phaseBar[r] = PhaseOf(r)
  BY DEF phaseBar
<1>3. QED
  BY <1>1, <1>2 DEF PhaseOf, Refusal

LEMMA PhasesAreReadNext == IInv' => PhasesRead'
BY PhasesAreRead, PTL

\* Every call is somewhere.
LEMMA CallsAreSomewhere ==
    ASSUME IInv, NEW r \in Request
    PROVE  \/ outcome[r] = "not_called"
           \/ r \in executing
           \/ r \in Range(queue)
           \/ outcome[r] \in {"fulfilled", "rejected"}
           \/ outcome[r] \in Refusal
BY DEF IInv, TypeOK, Outcome, PendingAccounted

LEMMA PoolSets ==
    ASSUME IInv
    PROVE  /\ Pool!Rendering = executing
           /\ Pool!Waiting = Range(queue)
           /\ Cardinality(Pool!Rendering) = active
           /\ Cardinality(Pool!Waiting) = Len(queue)
<1>1. executing \subseteq Request /\ Range(queue) \subseteq Request
  BY RangeOfSeq DEF IInv, TypeOK
<1>2. \A r \in Request : /\ phaseBar[r] = "rendering" <=> r \in executing
                         /\ phaseBar[r] = "waiting" <=> r \in Range(queue)
  BY PhasesAreRead, CallsAreSomewhere DEF PhasesRead
<1>3. Pool!Rendering = executing /\ Pool!Waiting = Range(queue)
  BY <1>1, <1>2 DEF Pool!Rendering, Pool!Waiting, Pool!In
<1>4. Cardinality(Range(queue)) = Len(queue)
  BY CardinalityOfRange DEF IInv, TypeOK, PendingAccounted
<1>5. QED
  BY <1>3, <1>4 DEF IInv, SlotsAccounted

\* The pool counts as the controller does.
LEMMA PoolCounts == \A S : Pool!Cardinality(S) = Cardinality(S)
BY DEF Cardinality, Pool!Cardinality

LEMMA PhaseMoves ==
    ASSUME NEW r \in Request, NEW p, phaseBar'[r] = p,
           \A q \in Request \ {r} : phaseBar'[q] = phaseBar[q]
    PROVE  phaseBar' = [phaseBar EXCEPT ![r] = p]
BY DEF phaseBar

\* A call whose entry did not move is where it was.
LEMMA PhaseStays ==
    ASSUME NEW q \in Request,
           outcome'[q] = outcome[q],
           q \in executing' <=> q \in executing,
           q \in Range(queue)' <=> q \in Range(queue)
    PROVE  phaseBar'[q] = phaseBar[q]
BY DEF phaseBar, PhaseOf

LEMMA RefusalRefines ==
    ASSUME IInv, IInv', NEW r \in Request, RunWhenClosed(r) \/ RunWhenFull(r)
    PROVE  Pool!Refuse(r)
<1>1. /\ outcome[r] = "not_called"
      /\ outcome'[r] \in Refusal
      /\ \A q \in Request \ {r} : outcome'[q] = outcome[q]
      /\ UNCHANGED <<active, closed, queue, executing>>
  BY DEF RunWhenClosed, RunWhenFull, Refusal, IInv, TypeOK
<1>2. phaseBar[r] = "new" /\ phaseBar'[r] = "refused"
  BY <1>1, PhasesAreRead, PhasesAreReadNext DEF PhasesRead
<1>3. phaseBar' = [phaseBar EXCEPT ![r] = "refused"]
  BY <1>1, <1>2, PhaseMoves, PhaseStays
<1>4. \/ closed
      \/ /\ Cardinality(Pool!Rendering) = MaxConcurrent
         /\ Cardinality(Pool!Waiting) = MaxQueued
  <2>1. CASE RunWhenClosed(r)
    BY <2>1 DEF RunWhenClosed
  <2>2. CASE RunWhenFull(r)
    <3>1. /\ active >= MaxConcurrent /\ active <= MaxConcurrent
          /\ Len(queue) >= MaxQueued /\ Len(queue) <= MaxQueued
          /\ Len(queue) \in Nat /\ active \in Nat
      BY <2>2, LenProperties DEF RunWhenFull, IInv, TypeOK, SlotsAccounted
    <3>2. active = MaxConcurrent /\ Len(queue) = MaxQueued
      BY <3>1, CapacityAssumption
    <3>3. QED
      BY <3>2, PoolSets
  <2>3. QED
    BY <2>1, <2>2
<1>5. QED
  BY <1>1, <1>2, <1>3, <1>4, PoolCounts DEF Pool!Refuse

LEMMA RunNowRefines ==
    ASSUME IInv, IInv', NEW r \in Request, RunNow(r)
    PROVE  Pool!Enter(r)
<1>1. /\ outcome[r] = "not_called" /\ ~closed /\ closed' = closed
      /\ active < MaxConcurrent
      /\ executing' = executing \cup {r}
      /\ \A q \in Request \ {r} : outcome'[q] = outcome[q]
      /\ queue' = queue
  BY DEF RunNow, IInv, TypeOK
<1>2. phaseBar[r] = "new" /\ phaseBar'[r] = "rendering"
  BY <1>1, PhasesAreRead, PhasesAreReadNext DEF PhasesRead
<1>3. phaseBar' = [phaseBar EXCEPT ![r] = "rendering"]
  BY <1>1, <1>2, PhaseMoves, PhaseStays
<1>4. Pool!Cardinality(Pool!Rendering) < MaxConcurrent
  <2>1. Pool!Cardinality(Pool!Rendering) = active
    BY PoolSets, PoolCounts
  <2>2. QED
    BY <1>1, <2>1
<1>5. Pool!Waiting = {}
  <2>1. queue = <<>>
    BY <1>1, CapacityAssumption DEF IInv, TypeOK, WorkConserving
  <2>2. QED
    BY <2>1, PoolSets DEF Range
<1>6. QED
  BY <1>1, <1>2, <1>3, <1>4, <1>5 DEF Pool!Enter

LEMMA EnqueueRefines ==
    ASSUME IInv, IInv', NEW r \in Request, Enqueue(r)
    PROVE  Pool!Wait(r)
<1>1. /\ outcome[r] = "not_called" /\ ~closed /\ closed' = closed
      /\ active >= MaxConcurrent /\ Len(queue) < MaxQueued
      /\ \A q \in Request \ {r} : outcome'[q] = outcome[q]
      /\ executing' = executing
  BY DEF Enqueue, IInv, TypeOK
<1>2. Range(queue)' = Range(queue) \cup {r}
  <2>1. r \notin Range(queue)
    BY <1>1 DEF IInv, PendingAccounted
  <2>2. QED
    BY <2>1, AppendNew DEF Enqueue, IInv, TypeOK, PendingAccounted
<1>3. phaseBar[r] = "new" /\ phaseBar'[r] = "waiting"
  BY <1>1, <1>2, PhasesAreRead, PhasesAreReadNext DEF PhasesRead
<1>4. phaseBar' = [phaseBar EXCEPT ![r] = "waiting"]
  BY <1>1, <1>2, <1>3, PhaseMoves, PhaseStays
<1>5. active = MaxConcurrent
  BY <1>1, CapacityAssumption DEF IInv, TypeOK, SlotsAccounted
<1>6. Pool!Cardinality(Pool!Waiting) < MaxQueued
  <2>1. Pool!Cardinality(Pool!Waiting) = Len(queue)
    BY PoolSets, PoolCounts
  <2>2. QED
    BY <1>1, <2>1
<1>7. Pool!Cardinality(Pool!Rendering) = MaxConcurrent
  BY <1>5, PoolSets, PoolCounts
<1>8. QED
  BY <1>1, <1>3, <1>4, <1>6, <1>7 DEF Pool!Wait

LEMMA CompleteRefines ==
    ASSUME IInv, IInv', NEW r \in Request, Complete(r)
    PROVE  Pool!Finish(r)
<1>1. /\ r \in executing
      /\ outcome'[r] \in {"fulfilled", "rejected"}
      /\ \A q \in Request : q # r => outcome'[q] = outcome[q]
      /\ closed' = closed
  BY CompleteAnswers DEF Complete, Settled, IInv, TypeOK, PendingAccounted
<1>2. phaseBar[r] = "rendering" /\ phaseBar'[r] = "done"
  BY <1>1, PhasesAreRead, PhasesAreReadNext DEF PhasesRead
<1>3. CASE queue = <<>>
  <2>1. queue' = queue /\ executing' = executing \ {r}
    BY <1>3, CompleteShape
  <2>2. \A q \in Request \ {r} : phaseBar'[q] = phaseBar[q]
    BY <1>1, <2>1, PhaseStays
  <2>3. phaseBar' = [phaseBar EXCEPT ![r] = "done"]
    BY <1>2, <2>2, PhaseMoves
  <2>4. Pool!Waiting = {}
    BY <1>3, PoolSets DEF Range
  <2>5. QED
    BY <1>1, <1>2, <2>3, <2>4 DEF Pool!Finish
<1>4. CASE queue # <<>>
  <2> DEFINE h == queue[1]
  <2>1. /\ queue' = SubSeq(queue, 2, Len(queue))
        /\ executing' = (executing \ {r}) \cup {h}
    BY <1>4, CompleteShape
  <2>2. h \in Range(queue) /\ Range(queue') = Range(queue) \ {h}
    BY <1>4, <2>1, RemoveHead DEF IInv, TypeOK, PendingAccounted
  <2> HIDE DEF h
  <2>3. h \in Request /\ h # r
    BY <1>1, <2>2, RangeOfSeq DEF IInv, TypeOK, PendingAccounted
  <2>4. phaseBar'[h] = "rendering"
    BY <2>1, <2>3, PhasesAreReadNext DEF PhasesRead
  <2>5. \A q \in Request \ {r, h} : phaseBar'[q] = phaseBar[q]
    BY <1>1, <2>1, <2>2, PhaseStays
  <2>6. phaseBar' = [phaseBar EXCEPT ![r] = "done", ![h] = "rendering"]
    BY <1>2, <2>3, <2>4, <2>5 DEF phaseBar
  <2>7. h \in Pool!Waiting
    BY <2>2, PoolSets
  <2>8. QED
    BY <1>1, <1>2, <2>6, <2>7 DEF Pool!Finish
<1>5. QED
  BY <1>3, <1>4

LEMMA TimeoutRefines ==
    ASSUME IInv, IInv', NEW r \in Request, QueueTimeout(r)
    PROVE  Pool!GiveUp(r)
<1>1. /\ r \in Range(queue)
      /\ Range(queue') = Range(queue) \ {r}
      /\ outcome'[r] \in Refusal
      /\ \A q \in Request \ {r} : outcome'[q] = outcome[q]
      /\ executing' = executing /\ closed' = closed
  BY TimeoutShape DEF QueueTimeout, Refusal, IInv, TypeOK
<1>2. phaseBar[r] = "waiting" /\ phaseBar'[r] = "refused"
  BY <1>1, PhasesAreRead, PhasesAreReadNext DEF PhasesRead
<1>3. phaseBar' = [phaseBar EXCEPT ![r] = "refused"]
  BY <1>1, <1>2, PhaseMoves, PhaseStays
<1>4. QED
  BY <1>1, <1>2, <1>3 DEF Pool!GiveUp

LEMMA CloseRefines ==
    ASSUME IInv, IInv', Close
    PROVE  Pool!Shut
<1>1. /\ ~closed /\ closed' /\ executing' = executing
      /\ Range(queue') = {}
      /\ \A r \in Request :
            outcome'[r] = IF r \in Range(queue) THEN Settled(r, "closed")
                          ELSE outcome[r]
  BY DEF Close, Range
<1>2. ASSUME NEW r \in Request
      PROVE  phaseBar'[r] = IF phaseBar[r] = "waiting" THEN "refused" ELSE phaseBar[r]
  <2>1. CASE r \in Range(queue)
    <3>1. phaseBar[r] = "waiting"
      BY <2>1, PhasesAreRead DEF PhasesRead
    <3>2. outcome'[r] = "closed"
      BY <1>1, <2>1 DEF IInv, PendingAccounted, Settled
    <3>3. phaseBar'[r] = "refused"
      BY <3>2, PhasesAreReadNext DEF PhasesRead, Refusal
    <3>4. QED
      BY <3>1, <3>3
  <2>2. CASE r \notin Range(queue)
    <3>1. phaseBar[r] # "waiting"
      BY <2>2, PhasesAreRead, CallsAreSomewhere DEF PhasesRead
    <3>2. phaseBar'[r] = phaseBar[r]
      BY <1>1, <2>2, PhaseStays
    <3>3. QED
      BY <3>1, <3>2
  <2>3. QED
    BY <2>1, <2>2
<1>3. phaseBar' = [r \in Request |->
                      IF phaseBar[r] = "waiting" THEN "refused" ELSE phaseBar[r]]
  BY <1>2 DEF phaseBar
<1>4. QED
  BY <1>1, <1>3 DEF Pool!Shut

LEMMA StutterRefines ==
    ASSUME UNCHANGED vars
    PROVE  UNCHANGED Pool!vars
BY DEF vars, Pool!vars, phaseBar, PhaseOf

\* Every behaviour of the controller is one of the pool its callers rely on:
\* bounded renders, a bounded waiting room, handover without an idle slot,
\* and a refusal only of calls that never render.
THEOREM ControllerImplementsPool == Spec => ImplementsRenderPool
<1>1. Init => Pool!Init
  <2>1. ASSUME Init, NEW r \in Request
        PROVE  PhaseOf(r) = "new"
    <3>1. outcome[r] = "not_called" /\ r \notin executing
      BY <2>1 DEF Init
    <3>2. r \notin Range(queue)
      BY <2>1 DEF Init, Range
    <3>3. QED
      BY <3>1, <3>2 DEF PhaseOf
  <2>2. QED
    BY <2>1 DEF Init, Pool!Init, phaseBar
<1>2. IInv /\ IInv' /\ [Next]_vars => [Pool!Next]_(Pool!vars)
  <2> SUFFICES ASSUME IInv, IInv', [Next]_vars
               PROVE  Pool!Next \/ UNCHANGED Pool!vars
    OBVIOUS
  <2>1. ASSUME NEW r \in Request, RunWhenClosed(r) \/ RunWhenFull(r)
        PROVE  Pool!Next
    BY <2>1, RefusalRefines DEF Pool!Next
  <2>2. ASSUME NEW r \in Request, RunNow(r)
        PROVE  Pool!Next
    BY <2>2, RunNowRefines DEF Pool!Next
  <2>3. ASSUME NEW r \in Request, Enqueue(r)
        PROVE  Pool!Next
    BY <2>3, EnqueueRefines DEF Pool!Next
  <2>4. ASSUME NEW r \in Request, Complete(r)
        PROVE  Pool!Next
    BY <2>4, CompleteRefines DEF Pool!Next
  <2>5. ASSUME NEW r \in Request, QueueTimeout(r)
        PROVE  Pool!Next
    BY <2>5, TimeoutRefines DEF Pool!Next
  <2>6. CASE Close
    BY <2>6, CloseRefines DEF Pool!Next
  <2>7. CASE Finished \/ UNCHANGED vars
    BY <2>7, StutterRefines DEF Finished
  <2>8. QED
    BY <2>1, <2>2, <2>3, <2>4, <2>5, <2>6, <2>7 DEF Next
<1>3. QED
  BY <1>1, <1>2, AlwaysIInv, PTL DEF Spec, ImplementsRenderPool, Pool!Spec
=============================================================================
