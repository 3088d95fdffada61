--------------------------- MODULE LockCacheProofs --------------------------
(***************************************************************************)
(* The theorems about the caching lock service: mutual exclusion, the      *)
(* agreement of its records, and that it implements a lock, for any set of *)
(* clients and of threads.                                                 *)
(***************************************************************************)
EXTENDS LockCacheAcquireProofs, LockCacheServerProofs, LockCacheReleaseProofs

USE ConstantsAssumption

\* The first state satisfies the invariant.
LEMMA InitInvariant == Init => IInv
<1> SUFFICES ASSUME Init PROVE IInv
  OBVIOUS
<1> USE DEF Init
<1>1. TypeOK
  BY InitType
<1>2. NoRpcError /\ ActiveMatchesState /\ RpcMatchesState /\ ServerRecord
  BY DEF NoRpcError, ActiveMatchesState, RpcMatchesState, ServerRecord, ActivePC, AcqPC, RelPC
<1>3. HolderAgreement /\ QueueSound /\ QueuedOnce /\ ReacquirePending
  BY DEF HolderAgreement, Owns, QueueSound, QueuedOnce, ReacquirePending
<1>4. RevokeReachesHolder
  <2>1. \A v \in RevokePlace, b \in Clients : ~RevokeAt(v, b)
    BY DEF RevokePlace, RevokeAt
  <2>2. QED
    BY <2>1 DEF RevokeReachesHolder
<1>5. RetryReachesFront
  <2>1. \A v \in RetryPlace, b \in Clients : ~RetryAt(v, b)
    BY DEF RetryPlace, RetryAt, Reacquiring
  <2>2. QED
    BY <2>1 DEF RetryReachesFront
<1>6. QED
  BY <1>1, <1>2, <1>3, <1>4, <1>5, Zenon DEF IInv, Consistent

\* What a thread does in acquire and release, waking up included, preserves the
\* invariant as long as no RPC fails.
LEMMA ThreadInvariant ==
  ASSUME RpcMayFail = FALSE, IInv, NEW t \in Threads,
         Acquire(t) \/ ThreadStep(t) \/ Release(t) \/ Wakeup(t)
  PROVE  Consistent'
  BY AcquireCreateInvariant, AcquireNoneInvariant, AcquireFreeInvariant,
     AcquireWaitInvariant, AcquireReleasingInvariant, WakeLockInvariant,
     SleepLockInvariant, WakeAcquireInvariant, SleepAcquireInvariant,
     SpuriousWakeupInvariant, WakeRetryInvariant, SleepRetryInvariant,
     AcquireOKInvariant, AcquireRetryNowInvariant, AcquireRetryLaterInvariant,
     ReacquireOKInvariant, AcquireFailureInvariant, ReleaseToServerInvariant,
     ReleaseToCacheInvariant, ReleaseToWaitersInvariant, DoReleaseInvariant,
     ReleaseOKInvariant, ReleaseFailureInvariant, Zenon
  DEF Acquire, ThreadStep, Release, Wakeup

\* However retryCli returns, the release handler answers.
LEMMA RetryAnsweredInvariant ==
  ASSUME RpcMayFail = FALSE, IInv, NEW c \in Clients,
         ServerRetryReply(c) \/ ServerRetryFailure(c)
  PROVE  Consistent'
<1>1. rty[c] \in {"OK", "RPCERR"} /\ RetryReturns(c)
  BY DEF ServerRetryReply, ServerRetryFailure
<1> QED
  BY <1>1, RetryReturnsInvariant, Zenon

\* As long as no RPC fails no call is abandoned, and no abandoned call takes a step.
LEMMA NoneAbandoned ==
  ASSUME RpcMayFail = FALSE, IInv, Next
  PROVE  /\ late' = [a \in Abandoned |-> Over]
         /\ \/ \E t \in Threads : Acquire(t) \/ ThreadStep(t) \/ Release(t) \/ Wakeup(t)
            \/ \E c \in Clients : AcquireHandler(c) \/ ReleaseHandler(c)
<1>1. \A a \in Abandoned : late[a] = Over
  BY DEF IInv
<1>2. ASSUME NEW k \in LateKind \ {"over"}, NEW c
      PROVE  Over # <<k, c>>
  BY DEF Over
<1>3. ASSUME NEW a \in Abandoned, NEW c \in Clients
      PROVE  ~LateStep(a, c)
  <2>1. \A k \in {"acquire", "readHolder", "revoke", "dorelease", "callRel", "release",
                 "readFront", "retry"} : late[a] # <<k, c>>
    BY <1>1, <1>2 DEF LateKind
  <2> QED
    BY <2>1 DEF LateStep, LateAcquire, LateReadHolder, LateRevoke, LateDoRelease,
       LateReleaseReturns, LateRelease, LateReadFront, LateRetry
<1>4. \A c \in Clients : ~RpcFails(c)
  BY DEF RpcFails, AcquireRpcFails, ReleaseRpcFails, RevokeRpcFails, RetryRpcFails
<1>5. \/ \E t \in Threads : Acquire(t) \/ ThreadStep(t) \/ Release(t) \/ Wakeup(t)
      \/ \E c \in Clients : AcquireHandler(c) \/ ReleaseHandler(c)
  BY <1>3, <1>4, Zenon DEF Next
<1>6. UNCHANGED late
  BY <1>5, Zenon DEF Acquire, ThreadStep, Release, Wakeup, AcquireHandler, ReleaseHandler
<1> QED
  BY <1>5, <1>6, Zenon DEF IInv

\* What the handlers do preserves the invariant as long as no RPC fails.
LEMMA HandlerInvariant ==
  ASSUME RpcMayFail = FALSE, IInv, NEW c \in Clients,
         AcquireHandler(c) \/ ReleaseHandler(c)
  PROVE  Consistent'
  BY ServerAcquireFreeInvariant, ServerAcquireLockedInvariant,
     ServerAcquireBehindInvariant, ServerAcquireFrontInvariant,
     ServerAcquireFrontRevokeInvariant, ServerReadHolderInvariant,
     ServerRevokeReplyInvariant, RevokeFreeInvariant, RevokeLaterInvariant,
     RevokeDoReleaseInvariant, RevokeReleaseOKInvariant, RevokeReleaseFailureInvariant,
     ServerReleaseInvariant, ServerReadFrontInvariant, RetryInvariant,
     RetryAnsweredInvariant, Zenon
  DEF AcquireHandler, ReleaseHandler

\* Every step of the service preserves the invariant.
LEMMA StepInvariant ==
  ASSUME RpcMayFail = FALSE, IInv, [Next]_vars
  PROVE  IInv'
<1>1. TypeOK'
  BY TypeStep DEF IInv
<1>2. CASE Next
  BY <1>1, <1>2, NoneAbandoned, ThreadInvariant, HandlerInvariant, Zenon DEF IInv
<1>3. CASE UNCHANGED vars
  BY <1>1, <1>3, Frame DEF IInv, Consistent, vars, clientVars, serverVars, rpcVars
<1>4. QED
  BY <1>2, <1>3

\* As long as no RPC fails, the lock service keeps its inductive invariant: the
\* server's record and the clients' states agree, exactly one revoke is under way while
\* clients queue behind a holder, exactly one retry while a free lock is reserved, and the
\* second acquire is never refused.
THEOREM InvariantHolds ==
  ASSUME RpcMayFail = FALSE
  PROVE  Spec => []IInv
<1>1. Init => IInv
  BY InitInvariant
<1>2. IInv /\ [Next]_vars => IInv'
  BY StepInvariant, Zenon
<1>3. QED
  BY <1>1, <1>2, PTL DEF Spec

\* The invariant implies that at most one thread of all the clients holds the lock: a
\* holding thread's client is LOCKED, so it is the holder on the server's record.
LEMMA InvariantMutualExclusion == IInv => MutualExclusion
<1> SUFFICES ASSUME IInv, NEW t \in Holding, NEW u \in Holding PROVE t = u
  BY DEF MutualExclusion
<1>1. /\ t \in Threads /\ u \in Threads
      /\ pc[t] = "holding" /\ pc[u] = "holding"
      /\ ClientOf[t] \in Clients /\ ClientOf[u] \in Clients
  BY DEF Holding
<1>2. Owns(ClientOf[t]) /\ Owns(ClientOf[u])
  BY <1>1 DEF IInv, Consistent, ActiveMatchesState, Owns
<1>3. ClientOf[t] = ClientOf[u]
  BY <1>1, <1>2 DEF IInv, Consistent, HolderAgreement
<1>4. QED
  BY <1>1, <1>3 DEF IInv, Consistent, ActiveMatchesState, ActivePC

\* No two threads hold the lock at once, whatever the numbers of clients and threads
\* (lock_client_cache::acquire has returned and release has not been called).
THEOREM MutualExclusionHolds ==
  ASSUME RpcMayFail = FALSE
  PROVE  Spec => []MutualExclusion
  BY InvariantHolds, InvariantMutualExclusion, PTL

\* acquireAndMaybeRetry's second call is always granted, so that the branch printing
\* "Failure on re-acquiring lock" is never taken.
THEOREM ReacquireGrantedHolds ==
  ASSUME RpcMayFail = FALSE
  PROVE  Spec => []ReacquireGranted
<1>1. IInv => ReacquireGranted
  BY DEF IInv, Consistent, ReacquirePending, ReacquireGranted
<1>2. QED
  BY <1>1, InvariantHolds, PTL

\* The server's clientId and the clients' states agree on who has the lock, and the
\* revoke and the retry each have exactly one destination, the right one.
THEOREM RecordsAgree ==
  ASSUME RpcMayFail = FALSE
  PROVE  Spec => [](HolderAgreement /\ RevokeReachesHolder /\ RetryReachesFront /\ QueueSound)
<1>1. IInv => HolderAgreement /\ RevokeReachesHolder /\ RetryReachesFront /\ QueueSound
  BY DEF IInv, Consistent
<1>2. QED
  BY <1>1, InvariantHolds, PTL

-----------------------------------------------------------------------------
(* The service implements the lock *)

\* A step of a thread moves no other thread into or out of the lock: a broadcast or a
\* signal only wakes sleeping threads.
LEMMA ThreadMoves ==
  ASSUME TypeOK, NEW t \in Threads,
         Acquire(t) \/ ThreadStep(t) \/ Release(t) \/ Wakeup(t)
  PROVE  \A u \in Threads \ {t} : pc'[u] = "holding" <=> pc[u] = "holding"
<1>0. pc \in [Threads -> ThreadPC]
  BY DEF TypeOK
<1> USE <1>0
<1>1. CASE Acquire(t)
  BY <1>1 DEF Acquire, AcquireCreate, AcquireNone, AcquireFree, AcquireWait,
     AcquireReleasing
<1>2. CASE ReleaseOK(t)
  BY <1>2, ReleaseOKEffect
<1>3. CASE ThreadStep(t) /\ ~ReleaseOK(t)
  <2>1. CASE WakeLock(t) \/ SleepLock(t) \/ WakeAcquire(t) \/ SleepAcquire(t)
    BY <2>1 DEF WakeLock, SleepLock, WakeAcquire, SleepAcquire
  <2>2. CASE WakeRetry(t) \/ SleepRetry(t) \/ DoRelease(t)
    BY <2>2 DEF WakeRetry, SleepRetry, DoRelease
  <2>3. CASE AcquireOK(t) \/ AcquireRetryNow(t) \/ AcquireRetryLater(t)
    BY <2>3 DEF AcquireOK, AcquireRetryNow, AcquireRetryLater
  <2>4. CASE ReacquireOK(t) \/ AcquireFailure(t)
    BY <2>4 DEF ReacquireOK, AcquireFailure
  <2>5. CASE ReleaseFailure(t)
    BY <2>5 DEF ReleaseFailure, ReleaseGivesUp
  <2>6. QED
    BY <1>3, <2>1, <2>2, <2>3, <2>4, <2>5 DEF ThreadStep
<1>4. CASE ReleaseToServer(t) \/ ReleaseToCache(t)
  BY <1>4 DEF ReleaseToServer, ReleaseToCache
<1>5. CASE ReleaseToWaiters(t)
  <2>1. pc' = Broadcast([pc EXCEPT ![t] = "idle"], ClientOf[t], "sleepLock", "wokenLock")
    BY <1>5 DEF ReleaseToWaiters
  <2>2. QED
    BY <2>1 DEF Broadcast, Sleepers
<1>6. CASE Wakeup(t)
  BY <1>6 DEF Wakeup, SpuriousWakeup
<1>7. QED
  BY <1>1, <1>2, <1>3, <1>4, <1>5, <1>6 DEF Release

\* A handler moves no thread into or out of the lock.
LEMMA HandlerMoves ==
  ASSUME TypeOK, NEW c \in Clients, AcquireHandler(c) \/ ReleaseHandler(c)
  PROVE  \A u \in Threads : pc'[u] = "holding" <=> pc[u] = "holding"
<1>1. CASE RevokeReleaseOK(c)
  <2>1. ReleaseReturns(rvkTo[c], pc) /\ pc \in [Threads -> ThreadPC]
    BY <1>1 DEF RevokeReleaseOK, TypeOK
  <2>2. QED
    BY <2>1, ReleaseReturnsEffect
<1>2. CASE Retry(c)
  BY <1>2, RetryEffect
<1>3. CASE ~RevokeReleaseOK(c) /\ ~Retry(c)
  <2>1. pc' = pc
    BY <1>3 DEF AcquireHandler, ReleaseHandler, ServerAcquireFree,
       ServerAcquireLocked, ServerAcquireBehind, ServerAcquireFront,
       ServerAcquireFrontRevoke, ServerReadHolder, ServerRevokeReply, RevokeFree,
       RevokeLater, RevokeDoRelease, RevokeReleaseFailure, ReleaseGivesUp, ServerRelease,
       ServerReadFront, ServerRetryReply, ServerRetryFailure, RetryReturns
  <2>2. QED
    BY <2>1
<1>4. QED
  BY <1>1, <1>2, <1>3

\* As long as no RPC fails, the caching lock service implements the abstract lock: an
\* acquire returns, at any client, only while no thread of any client holds the lock.
THEOREM Refinement ==
  ASSUME RpcMayFail = FALSE
  PROVE  Spec => LockSpec
<1>1. Init => L!Init
  BY DEF Init, L!Init, Holding
<1>2. IInv /\ IInv' /\ [Next]_vars => [L!Next]_Holding
  <2> SUFFICES ASSUME IInv, IInv', [Next]_vars, Holding' # Holding
               PROVE  L!Next
    OBVIOUS
  <2>1. ~ UNCHANGED vars
    BY DEF vars, Holding
  <2>2. ASSUME NEW c \in Clients, AcquireHandler(c) \/ ReleaseHandler(c)
        PROVE  Holding' = Holding
    BY <2>2, HandlerMoves DEF IInv, Holding
  <2>3. PICK t \in Threads : Acquire(t) \/ ThreadStep(t) \/ Release(t) \/ Wakeup(t)
    BY <2>1, <2>2, NoneAbandoned, Zenon
  <2>4. \A u \in Threads \ {t} : u \in Holding' <=> u \in Holding
    BY <2>3, ThreadMoves DEF IInv, Holding
  <2>5. /\ MutualExclusion /\ MutualExclusion'
        /\ Holding \subseteq Threads /\ Holding' \subseteq Threads
    <3>1. MutualExclusion
      BY InvariantMutualExclusion
    <3>2. MutualExclusion'
      BY InvariantMutualExclusion, PTL
    <3>3. QED
      BY <3>1, <3>2 DEF Holding
  <2>6. CASE t \in Holding
    <3>1. L!Release(t)
      BY <2>4, <2>5, <2>6 DEF MutualExclusion, L!Release
    <3>2. QED
      BY <3>1 DEF L!Next
  <2>7. CASE t \notin Holding
    <3>1. t \in Holding'
      BY <2>4, <2>5, <2>7
    <3>2. L!Acquire(t)
      BY <2>4, <2>5, <2>7, <3>1 DEF MutualExclusion, L!Acquire
    <3>3. QED
      BY <3>2 DEF L!Next
  <2>8. QED
    BY <2>6, <2>7
<1>3. QED
  BY <1>1, <1>2, InvariantHolds, PTL DEF Spec, LockSpec, L!Spec
=============================================================================
