-------------------------- MODULE LockServerProofs --------------------------
(***************************************************************************)
(* The blocking lock server grants its lock to one caller at a time, for   *)
(* any number of callers and any size of the pool, and with no more        *)
(* callers than threads its pool is never exhausted.                       *)
(***************************************************************************)
EXTENDS LockServer, FiniteSetTheorems, TLAPS

\* Queueing a caller that has no call in the queue.
LEMMA AppendQueue ==
  ASSUME NEW q \in Seq(Callers), NEW k \in Callers,
         \A i, j \in 1..Len(q) : q[i] = q[j] => i = j,
         \A i \in 1..Len(q) : q[i] # k
  PROVE  /\ Append(q, k) \in Seq(Callers)
         /\ \A i \in 1..Len(Append(q, k)) :
              Append(q, k)[i] = k \/ \E j \in 1..Len(q) : Append(q, k)[i] = q[j]
         /\ \A i, j \in 1..Len(Append(q, k)) : Append(q, k)[i] = Append(q, k)[j] => i = j
OBVIOUS

\* Taking the first caller leaves the others, each of them once.
LEMMA TailQueue ==
  ASSUME NEW q \in Seq(Callers), q # <<>>,
         \A i, j \in 1..Len(q) : q[i] = q[j] => i = j
  PROVE  /\ Tail(q) \in Seq(Callers)
         /\ Head(q) \in Callers
         /\ \A i \in 1..Len(Tail(q)) : i + 1 \in 1..Len(q) /\ Tail(q)[i] = q[i + 1]
         /\ \A i \in 1..Len(Tail(q)) : Tail(q)[i] # Head(q)
         /\ \A i, j \in 1..Len(Tail(q)) : Tail(q)[i] = Tail(q)[j] => i = j
<1>1. /\ Tail(q) \in Seq(Callers)
      /\ Head(q) \in Callers /\ Head(q) = q[1] /\ 1 \in 1..Len(q)
      /\ \A i \in 1..Len(Tail(q)) : i \in Nat /\ i + 1 \in 1..Len(q) /\ Tail(q)[i] = q[i + 1]
  OBVIOUS
<1>2. \A i \in 1..Len(Tail(q)) : Tail(q)[i] # Head(q)
  <2> SUFFICES ASSUME NEW i \in 1..Len(Tail(q)), q[i + 1] = q[1]
               PROVE  FALSE
    BY <1>1
  <2> QED
    BY <1>1
<1>3. \A i, j \in 1..Len(Tail(q)) : Tail(q)[i] = Tail(q)[j] => i = j
  <2> SUFFICES ASSUME NEW i \in 1..Len(Tail(q)), NEW j \in 1..Len(Tail(q)),
                      q[i + 1] = q[j + 1]
               PROVE  i = j
    BY <1>1
  <2> i + 1 = j + 1
    BY <1>1
  <2> QED
    BY <1>1
<1> QED
  BY <1>1, <1>2, <1>3

\* waitingCount follows the handlers that wait.
LEMMA CountFollows ==
  ASSUME IInv, NEW k \in Callers, at' \in [Callers -> Where],
         \/ Blocked' = Blocked /\ waitingCount' = waitingCount
         \/ /\ k \notin Blocked /\ Blocked' = Blocked \cup {k}
            /\ waitingCount' = waitingCount + 1
         \/ /\ k \in Blocked /\ Blocked' = Blocked \ {k}
            /\ waitingCount' = waitingCount - 1
  PROVE  CountExact' /\ waitingCount' \in Nat
<1>1. IsFiniteSet(Blocked)
  BY FS_Subset, PoolAssumption DEF Blocked
<1>2. Cardinality(Blocked) \in Nat /\ waitingCount = Cardinality(Blocked)
  BY <1>1, FS_CardinalityType DEF IInv, CountExact
<1>3. CASE Blocked' = Blocked /\ waitingCount' = waitingCount
  BY <1>2, <1>3 DEF CountExact
<1>4. CASE /\ k \notin Blocked /\ Blocked' = Blocked \cup {k}
           /\ waitingCount' = waitingCount + 1
  <2>1. Cardinality(Blocked \cup {k}) = Cardinality(Blocked) + 1
    BY <1>1, <1>4, FS_AddElement
  <2> QED
    BY <1>2, <1>4, <2>1 DEF CountExact
<1>5. CASE /\ k \in Blocked /\ Blocked' = Blocked \ {k}
           /\ waitingCount' = waitingCount - 1
  <2>1. Cardinality(Blocked \ {k}) = Cardinality(Blocked) - 1
    BY <1>1, <1>5, FS_RemoveElement, Zenon
  <2>2. Cardinality(Blocked \ {k}) \in Nat
    BY <1>1, FS_RemoveElement, FS_CardinalityType
  <2> QED
    BY <1>2, <1>5, <2>1, <2>2 DEF CountExact
<1> QED
  BY <1>3, <1>4, <1>5

\* A call that is sent joins the queue.
LEMMA CallInvariant ==
  ASSUME IInv, NEW k \in Callers, CallAcquire(k) \/ CallRelease(k)
  PROVE  IInv'
<1> USE DEF IInv, TypeOK, QueueMatches, Where
<1>1. \A i \in 1..Len(jobq) : jobq[i] # k
  BY DEF CallAcquire, CallRelease
<1>2. jobq' = Append(jobq, k) /\ UNCHANGED <<status, clientId, waitingCount, gone>>
  BY DEF CallAcquire, CallRelease
<1>3. \/ at[k] = "idle" /\ at' = [at EXCEPT ![k] = "acquire"]
      \/ at[k] = "holding" /\ at' = [at EXCEPT ![k] = "release"]
  BY DEF CallAcquire, CallRelease
<1>4. TypeOK'
  BY <1>2, <1>3
<1>5. EntryAgrees'
  BY <1>2, <1>3 DEF EntryAgrees
<1>6. QueueMatches'
  BY <1>1, <1>2, <1>3, AppendQueue
<1>7. CountExact'
  <2>1. Blocked' = Blocked
    BY <1>3 DEF Blocked
  <2> QED
    BY <1>2, <2>1 DEF CountExact
<1> QED
  BY <1>4, <1>5, <1>6, <1>7

\* A call that is served leaves the queue.
LEMMA ServeInvariant ==
  ASSUME IInv, NEW k \in Callers, Serve(k)
  PROVE  IInv'
<1> USE DEF IInv, TypeOK, QueueMatches, Where
<1>1. jobq # <<>> /\ k = Head(jobq) /\ jobq' = Tail(jobq)
  BY DEF Serve, AcquireFree, AcquireWait, Release, TakeJob
<1>2. /\ jobq' \in Seq(Callers)
      /\ \A i \in 1..Len(jobq') : i + 1 \in 1..Len(jobq) /\ jobq'[i] = jobq[i + 1]
      /\ \A i \in 1..Len(jobq') : jobq'[i] # k
      /\ \A i, j \in 1..Len(jobq') : jobq'[i] = jobq'[j] => i = j
  BY <1>1, TailQueue
<1>3. /\ at' \in [Callers -> Where]
      /\ \A j \in Callers \ {k} : at[j] \in {"acquire", "release"} => at'[j] = at[j]
      /\ status' \in {"FREE", "LOCKED"} /\ clientId' \in Callers \cup {NoCaller}
  <2>1. CASE AcquireFree(k)  BY <2>1 DEF AcquireFree
  <2>2. CASE AcquireWait(k)  BY <2>2 DEF AcquireWait
  <2>3. CASE Release(k)  BY <2>3 DEF Release
  <2> QED  BY <2>1, <2>2, <2>3 DEF Serve
<1>4. EntryAgrees'
  <2>1. CASE AcquireFree(k)  BY <2>1 DEF AcquireFree, EntryAgrees
  <2>2. CASE AcquireWait(k)  BY <2>2 DEF AcquireWait, EntryAgrees
  <2>3. CASE Release(k)  BY <2>3 DEF Release, EntryAgrees
  <2> QED  BY <2>1, <2>2, <2>3 DEF Serve
<1>5. QueueMatches'
  <2> SUFFICES ASSUME NEW i \in 1..Len(jobq')
               PROVE  at'[jobq'[i]] \in {"acquire", "release"}
    BY <1>2
  <2>1. jobq'[i] = jobq[i + 1] /\ i + 1 \in 1..Len(jobq) /\ jobq'[i] \in Callers \ {k}
    BY <1>2
  <2> QED
    BY <1>3, <2>1
<1>6. CountExact' /\ waitingCount' \in Nat
  <2>1. CASE AcquireFree(k)
    <3>1. Blocked' = Blocked /\ waitingCount' = waitingCount
      BY <2>1 DEF AcquireFree, Blocked
    <3> QED  BY <1>3, <3>1, CountFollows
  <2>2. CASE AcquireWait(k)
    <3>1. /\ k \notin Blocked /\ Blocked' = Blocked \cup {k}
          /\ waitingCount' = waitingCount + 1
      BY <2>2 DEF AcquireWait, Blocked
    <3> QED  BY <1>3, <3>1, CountFollows
  <2>3. CASE Release(k)
    <3>1. Blocked' = Blocked /\ waitingCount' = waitingCount
      BY <2>3 DEF Release, Blocked
    <3> QED  BY <1>3, <3>1, CountFollows
  <2> QED  BY <2>1, <2>2, <2>3 DEF Serve
<1>7. gone' = gone
  BY DEF Serve, AcquireFree, AcquireWait, Release
<1> QED
  BY <1>2, <1>3, <1>4, <1>5, <1>6, <1>7

\* A handler inside its wait touches no call of the queue.
LEMMA WakeInvariant ==
  ASSUME IInv, NEW k \in Callers, Wake(k) \/ SpuriousWakeup(k)
  PROVE  IInv'
<1> USE DEF IInv, TypeOK, QueueMatches, Where
<1>1. /\ at' \in [Callers -> Where] /\ jobq' = jobq
      /\ status' \in {"ABSENT", "FREE", "LOCKED"} /\ clientId' \in Callers \cup {NoCaller}
      /\ at[k] \in {"sleep", "woken"}
      /\ \A j \in Callers \ {k} : at'[j] = at[j]
  <2>1. CASE WakeGrant(k)  BY <2>1 DEF WakeGrant
  <2>2. CASE WakeWait(k)  BY <2>2 DEF WakeWait
  <2>3. CASE SpuriousWakeup(k)  BY <2>3 DEF SpuriousWakeup
  <2> QED  BY <2>1, <2>2, <2>3 DEF Wake
<1>2. EntryAgrees'
  <2>1. CASE WakeGrant(k)  BY <2>1 DEF WakeGrant, EntryAgrees
  <2>2. CASE WakeWait(k)  BY <2>2 DEF WakeWait, EntryAgrees
  <2>3. CASE SpuriousWakeup(k)  BY <2>3 DEF SpuriousWakeup, EntryAgrees
  <2> QED  BY <2>1, <2>2, <2>3 DEF Wake
<1>3. QueueMatches'
  BY <1>1
<1>4. CountExact' /\ waitingCount' \in Nat
  <2>1. CASE WakeGrant(k)
    <3>1. /\ k \in Blocked /\ Blocked' = Blocked \ {k}
          /\ waitingCount' = waitingCount - 1
      BY <2>1 DEF WakeGrant, Blocked
    <3> QED  BY <1>1, <3>1, CountFollows
  <2>2. CASE WakeWait(k) \/ SpuriousWakeup(k)
    <3>1. Blocked' = Blocked /\ waitingCount' = waitingCount
      BY <2>2 DEF WakeWait, SpuriousWakeup, Blocked
    <3> QED  BY <1>1, <3>1, CountFollows
  <2> QED  BY <2>1, <2>2 DEF Wake
<1>5. gone' = gone
  BY DEF Wake, WakeGrant, WakeWait, SpuriousWakeup
<1> QED
  BY <1>1, <1>2, <1>3, <1>4, <1>5

\* A caller that gives up leaves everything to the server as it is.
LEMMA TimeOutInvariant ==
  ASSUME IInv, NEW k \in Callers, TimeOut(k)
  PROVE  IInv'
<1>1. gone' \in SUBSET Callers
  BY DEF IInv, TypeOK, TimeOut
<1>2. UNCHANGED <<status, clientId, waitingCount, jobq, at>>
  BY DEF TimeOut
<1>3. Blocked' = Blocked
  BY <1>2 DEF Blocked
<1> QED
  BY <1>1, <1>2, <1>3 DEF IInv, TypeOK, EntryAgrees, QueueMatches, CountExact

\* The entry names the one caller that has the lock, waitingCount counts the handlers
\* that wait, and the queue holds the calls that are pending, whatever the interleaving
\* of callers and handlers and whichever callers give up and abort.
THEOREM InvariantHolds == Spec => []IInv
<1>1. Init => IInv
  <2> SUFFICES ASSUME Init PROVE IInv
    OBVIOUS
  <2>1. Blocked = {}
    BY DEF Init, Blocked
  <2>2. Cardinality({}) = 0
    BY FS_EmptySet
  <2> QED
    BY <2>1, <2>2, PoolAssumption DEF Init, IInv, TypeOK, EntryAgrees, QueueMatches, CountExact, Where
<1>2. IInv /\ [Next]_vars => IInv'
  <2> SUFFICES ASSUME IInv, [Next]_vars PROVE IInv'
    OBVIOUS
  <2>1. CASE UNCHANGED vars
    <3>1. Blocked' = Blocked
      BY <2>1 DEF vars, Blocked
    <3> QED
      BY <2>1, <3>1 DEF vars, IInv, TypeOK, EntryAgrees, QueueMatches, CountExact
  <2>2. CASE Next
    BY <2>2, CallInvariant, TimeOutInvariant, ServeInvariant, WakeInvariant DEF Next
  <2> QED
    BY <2>1, <2>2
<1> QED
  BY <1>1, <1>2, PTL DEF Spec

\* The lock's entry agrees with the callers, and no two callers have the lock.
THEOREM EntryAgreesHolds == Spec => []EntryAgrees
<1>1. IInv => EntryAgrees
  BY DEF IInv
<1> QED
  BY <1>1, InvariantHolds, PTL

\* With no more callers than threads in the pool a queued call always gets a thread:
\* the pool of six serves the six callers of lock_tester.
THEOREM PoolSuffices ==
  ASSUME Cardinality(Callers) <= PoolSize
  PROVE  Spec => []PoolNotExhausted
<1>1. IInv => PoolNotExhausted
  <2> SUFFICES ASSUME IInv, jobq # <<>> PROVE Cardinality(Blocked) < nthreads
    BY DEF PoolNotExhausted
  <2>1. jobq[1] \in Callers /\ jobq[1] \notin Blocked
    BY DEF IInv, TypeOK, QueueMatches, Blocked
  <2>2. Blocked \subseteq Callers /\ Blocked # Callers
    BY <2>1 DEF Blocked
  <2>3. /\ Cardinality(Blocked) \in Nat /\ Cardinality(Callers) \in Nat
        /\ Cardinality(Blocked) <= Cardinality(Callers)
        /\ Cardinality(Blocked) # Cardinality(Callers)
    BY <2>2, FS_Subset, FS_CardinalityType, PoolAssumption
  <2> QED
    BY <2>3, PoolAssumption DEF nthreads
<1> QED
  BY <1>1, InvariantHolds, PTL

\* At most one caller is seen to come or go in a step.
LEMMA OneCallerMoves ==
  ASSUME IInv, NEW k \in Callers,
         \/ CallAcquire(k) \/ CallRelease(k) \/ TimeOut(k)
         \/ Serve(k) \/ Wake(k) \/ SpuriousWakeup(k)
  PROVE  \A j \in Callers \ {k} : at'[j] = "holding" <=> at[j] = "holding"
<1> USE DEF IInv, TypeOK
<1>1. CASE CallAcquire(k) \/ CallRelease(k) \/ TimeOut(k)
  BY <1>1 DEF CallAcquire, CallRelease, TimeOut
<1>2. CASE Serve(k)
  BY <1>2 DEF Serve, AcquireFree, AcquireWait, Release
<1>3. CASE Wake(k) \/ SpuriousWakeup(k)
  BY <1>3 DEF Wake, WakeGrant, WakeWait, SpuriousWakeup
<1> QED
  BY <1>1, <1>2, <1>3

\* The blocking server implements the abstract lock: acquire returns only when nobody
\* has the lock, whatever the number of callers and threads.
THEOREM Refinement == Spec => LockSpec
<1>1. Init => L!Init
  BY DEF Init, L!Init, Holders
<1>2. IInv /\ IInv' /\ [Next]_vars => [L!Next]_Holders
  <2> SUFFICES ASSUME IInv, IInv', [Next]_vars, Holders' # Holders
               PROVE  L!Next
    OBVIOUS
  <2>1. ~ UNCHANGED vars
    BY DEF vars, Holders
  <2>2. PICK k \in Callers :
          \/ CallAcquire(k) \/ CallRelease(k) \/ TimeOut(k)
          \/ Serve(k) \/ Wake(k) \/ SpuriousWakeup(k)
    BY <2>1 DEF Next
  <2>3. \A j \in Callers \ {k} : j \in Holders' <=> j \in Holders
    BY <2>2, OneCallerMoves DEF Holders
  <2>4. /\ \A i, j \in Holders : i = j
        /\ \A i, j \in Holders' : i = j
        /\ Holders \subseteq Callers /\ Holders' \subseteq Callers
    BY DEF IInv, EntryAgrees, Holders
  <2>5. CASE k \in Holders
    <3>1. L!Release(k)
      BY <2>3, <2>4, <2>5 DEF L!Release
    <3> QED
      BY <3>1 DEF L!Next
  <2>6. CASE k \notin Holders
    <3>1. k \in Holders'
      BY <2>3, <2>4, <2>6
    <3>2. L!Acquire(k)
      BY <2>3, <2>4, <2>6, <3>1 DEF L!Acquire
    <3> QED
      BY <3>2 DEF L!Next
  <2> QED
    BY <2>5, <2>6
<1> QED
  BY <1>1, <1>2, InvariantHolds, PTL DEF Spec, LockSpec, L!Spec
=============================================================================
