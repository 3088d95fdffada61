-------------------------- MODULE LockCacheLemmas ---------------------------
(***************************************************************************)
(* The caching lock service, for any set of clients and of threads: type   *)
(* correctness, and the lemmas on which the proof of the inductive         *)
(* invariant rests.                                                        *)
(***************************************************************************)
EXTENDS LockCache, TLAPS

\* A queue of two or more is not empty without its front.
LEMMA TailNonEmpty ==
  ASSUME NEW S, NEW s \in Seq(S), Len(s) > 1
  PROVE  Tail(s) # <<>>
<1> DEFINE r == Tail(s)
<1>1. s # <<>> /\ Len(s) \in Nat
  OBVIOUS
<1>2. Len(r) = Len(s) - 1
  BY <1>1
<1> HIDE DEF r
<1>3. Len(r) # 0
  BY <1>1, <1>2, SMTT(30)
<1>4. r # <<>>
  BY <1>3
<1>5. QED
  BY <1>4 DEF r

USE ConstantsAssumption

-----------------------------------------------------------------------------
(* Type correctness *)

\* Broadcast and signal turn one location into another and change nothing else.
LEMMA BroadcastEffect ==
  ASSUME NEW p \in [Threads -> ThreadPC], NEW c,
         NEW sleep \in ThreadPC, NEW woken \in ThreadPC
  PROVE  /\ Broadcast(p, c, sleep, woken) \in [Threads -> ThreadPC]
         /\ \A u \in Threads :
              \/ Broadcast(p, c, sleep, woken)[u] = p[u]
              \/ p[u] = sleep /\ Broadcast(p, c, sleep, woken)[u] = woken
  BY DEF Broadcast, Sleepers

LEMMA SignalEffect ==
  ASSUME NEW p \in [Threads -> ThreadPC], NEW c,
         NEW sleep \in ThreadPC, NEW woken \in ThreadPC,
         NEW q \in Signal(p, c, sleep, woken)
  PROVE  /\ q \in [Threads -> ThreadPC]
         /\ \A u \in Threads : q[u] = p[u] \/ (p[u] = sleep /\ q[u] = woken)
  BY DEF Signal, Sleepers

\* So do the two signals the code makes, each under its own condition.
LEMMA SignalType ==
  ASSUME NEW p \in [Threads -> ThreadPC], NEW c, NEW b
  PROVE  /\ \A q \in IF b THEN Signal(p, c, "sleepAcq", "wokenAcq") ELSE {p} :
              q \in [Threads -> ThreadPC]
         /\ \A q \in IF b THEN Signal(p, c, "sleepRetry", "wokenRetry") ELSE {p} :
              q \in [Threads -> ThreadPC]
<1>1. /\ "sleepAcq" \in ThreadPC /\ "wokenAcq" \in ThreadPC
      /\ "sleepRetry" \in ThreadPC /\ "wokenRetry" \in ThreadPC
  BY DEF ThreadPC
<1>2. \A q \in Signal(p, c, "sleepAcq", "wokenAcq") : q \in [Threads -> ThreadPC]
  BY <1>1, SignalEffect
<1>3. \A q \in Signal(p, c, "sleepRetry", "wokenRetry") : q \in [Threads -> ThreadPC]
  BY <1>1, SignalEffect
<1> QED
  BY <1>2, <1>3

\* An abandoned call stays one of the calls there are.
LEMMA LateType ==
  ASSUME TypeOK, [Next]_vars
  PROVE  late' \in [Abandoned -> Late]
<1>0. /\ late \in [Abandoned -> Late]
      /\ rvkTo \in [Clients -> Clients \cup {NoClient}]
      /\ rtyTo \in [Clients -> Clients \cup {NoClient}]
      /\ srvClient \in Clients \cup {NoClient}
      /\ srvWaitList \in Seq(Clients)
  BY DEF TypeOK
<1>1. \A k \in LateKind, c \in Clients \cup {NoClient} : <<k, c>> \in Late
  BY DEF Late
<1>2. Over \in Late
  BY DEF Over, Late, LateKind
<1>3. ASSUME NEW rest \in SUBSET Late, Abandons(rest)
      PROVE  late' \in [Abandoned -> Late]
  BY <1>0, <1>3, Zenon DEF Abandons
<1>4. ASSUME NEW c \in Clients
      PROVE  RevokeRest(c) \in SUBSET Late /\ RetryRest(c) \in SUBSET Late
  <2>1. rvkTo[c] \in Clients \cup {NoClient} /\ rtyTo[c] \in Clients \cup {NoClient}
    BY <1>0
  <2>2. {"revoke", "dorelease", "callRel", "retry"} \subseteq LateKind
    BY DEF LateKind
  <2>3. RevokeRest(c) \in SUBSET Late
    BY <1>1, <1>2, <2>1, <2>2 DEF RevokeRest
  <2>4. RetryRest(c) \in SUBSET Late
    BY <1>1, <1>2, <2>1, <2>2 DEF RetryRest
  <2> QED
    BY <2>3, <2>4
<1>5. ASSUME NEW c \in Clients
      PROVE  AcquireRest(c) \in SUBSET Late /\ ReleaseRest(c) \in SUBSET Late
  <2>1. {"acquire", "readHolder", "release", "readFront"} \subseteq LateKind
    BY DEF LateKind
  <2>2. AcquireRest(c) \in SUBSET Late
    BY <1>1, <1>2, <1>4, <2>1 DEF AcquireRest
  <2>3. ReleaseRest(c) \in SUBSET Late
    BY <1>1, <1>2, <1>4, <2>1 DEF ReleaseRest
  <2> QED
    BY <2>2, <2>3
<1>6. ASSUME NEW c \in Clients, RpcFails(c)
      PROVE  late' \in [Abandoned -> Late]
  BY <1>3, <1>4, <1>5, <1>6, Zenon
     DEF RpcFails, AcquireRpcFails, ReleaseRpcFails, RevokeRpcFails, RetryRpcFails
<1>7. ASSUME NEW a \in Abandoned, NEW l \in Late, LateMoves(a, l)
      PROVE  late' \in [Abandoned -> Late]
  BY <1>0, <1>7 DEF LateMoves
<1>8. ASSUME NEW a \in Abandoned, NEW c \in Clients, LateStep(a, c)
      PROVE  late' \in [Abandoned -> Late]
  <2>1. \A k \in {"readHolder", "revoke", "dorelease", "callRel", "readFront"} :
          <<k, c>> \in Late
    BY <1>1 DEF LateKind
  <2>2. <<"revoke", srvClient>> \in Late
    BY <1>0, <1>1 DEF LateKind
  <2>3. srvWaitList # <<>> => <<"retry", Head(srvWaitList)>> \in Late
    BY <1>0, <1>1 DEF LateKind
  <2>4. \E l \in Late : LateMoves(a, l)
    <3>1. CASE LateAcquire(a, c)
      BY <1>2, <2>1, <3>1 DEF LateAcquire
    <3>2. CASE LateReadHolder(a, c)
      BY <1>2, <2>2, <3>2 DEF LateReadHolder
    <3>3. CASE LateRevoke(a, c)
      BY <1>2, <2>1, <3>3 DEF LateRevoke
    <3>4. CASE LateDoRelease(a, c)
      BY <2>1, <3>4 DEF LateDoRelease
    <3>5. CASE LateReleaseReturns(a, c) \/ LateRetry(a, c)
      BY <1>2, <3>5, Zenon DEF LateReleaseReturns, LateRetry
    <3>6. CASE LateRelease(a, c)
      BY <1>2, <2>1, <3>6 DEF LateRelease
    <3>7. CASE LateReadFront(a, c)
      BY <2>3, <3>7, Zenon DEF LateReadFront
    <3> QED
      BY <1>8, <3>1, <3>2, <3>3, <3>4, <3>5, <3>6, <3>7, Zenon DEF LateStep
  <2> QED
    BY <1>7, <2>4
<1>9. CASE UNCHANGED late
  BY <1>0, <1>9
<1> QED
  BY <1>6, <1>8, <1>9, Zenon DEF Next, Acquire, ThreadStep, Release, Wakeup,
     AcquireHandler, ReleaseHandler, vars

LEMMA TypeStep ==
  ASSUME TypeOK, [Next]_vars
  PROVE  TypeOK'
<1>0. late' \in [Abandoned -> Late]
  BY LateType
<1>1. ASSUME NEW c, NEW p \in [Threads -> ThreadPC], ReleaseReturns(c, p)
      PROVE  pc' \in [Threads -> ThreadPC]
  BY <1>1, SignalType, Zenon DEF ReleaseReturns
<1>r. ASSUME NEW c, Retry(c) \/ \E a \in Abandoned : LateRetry(a, c)
      PROVE  pc' \in [Threads -> ThreadPC]
  <2>1. pc \in [Threads -> ThreadPC]
    BY DEF TypeOK
  <2> QED
    BY <1>r, <2>1, SignalType, Zenon DEF Retry, LateRetry
<1> USE DEF TypeOK, ClientState, ServerState, ThreadPC, AcqRpc, RelRpc, RvkRpc, RtyRpc,
            clientVars, serverVars, rpcVars
<1>2. ASSUME NEW t \in Threads, AcquireCreate(t) PROVE TypeOK'
  BY <1>0, <1>2 DEF AcquireCreate, SendAcquire
<1>3. ASSUME NEW t \in Threads, AcquireNone(t) PROVE TypeOK'
  BY <1>0, <1>3 DEF AcquireNone, SendAcquire
<1>4. ASSUME NEW t \in Threads, AcquireFree(t) PROVE TypeOK'
  BY <1>0, <1>4 DEF AcquireFree
<1>5. ASSUME NEW t \in Threads, AcquireWait(t) PROVE TypeOK'
  BY <1>0, <1>5 DEF AcquireWait
<1>6. ASSUME NEW t \in Threads, AcquireReleasing(t) PROVE TypeOK'
  BY <1>0, <1>6 DEF AcquireReleasing
<1>7. ASSUME NEW t \in Threads, WakeLock(t) PROVE TypeOK'
  BY <1>0, <1>7 DEF WakeLock
<1>8. ASSUME NEW t \in Threads, SleepLock(t) PROVE TypeOK'
  BY <1>0, <1>8 DEF SleepLock
<1>9. ASSUME NEW t \in Threads, WakeAcquire(t) PROVE TypeOK'
  BY <1>0, <1>9 DEF WakeAcquire, SendAcquire
<1>10. ASSUME NEW t \in Threads, SleepAcquire(t) PROVE TypeOK'
  BY <1>0, <1>10 DEF SleepAcquire
<1>11. ASSUME NEW t \in Threads, WakeRetry(t) PROVE TypeOK'
  BY <1>0, <1>11 DEF WakeRetry, SendAcquire
<1>12. ASSUME NEW t \in Threads, SleepRetry(t) PROVE TypeOK'
  BY <1>0, <1>12 DEF SleepRetry
<1>13. ASSUME NEW t \in Threads, AcquireOK(t) PROVE TypeOK'
  BY <1>0, <1>13 DEF AcquireOK
<1>14. ASSUME NEW t \in Threads, AcquireRetryNow(t) PROVE TypeOK'
  BY <1>0, <1>14 DEF AcquireRetryNow, SendAcquire
<1>15. ASSUME NEW t \in Threads, AcquireRetryLater(t) PROVE TypeOK'
  BY <1>0, <1>15 DEF AcquireRetryLater
<1>16. ASSUME NEW t \in Threads, ReacquireOK(t) PROVE TypeOK'
  BY <1>0, <1>16 DEF ReacquireOK
<1>17. ASSUME NEW t \in Threads, AcquireFailure(t) PROVE TypeOK'
  BY <1>0, <1>17 DEF AcquireFailure
<1>18. ASSUME NEW t \in Threads, DoRelease(t) PROVE TypeOK'
  BY <1>0, <1>18 DEF DoRelease
<1>19. ASSUME NEW t \in Threads, ReleaseOK(t) PROVE TypeOK'
  BY <1>0, <1>19, <1>1, Zenon DEF ReleaseOK, ReleaseReturns
<1>20. ASSUME NEW t \in Threads, ReleaseFailure(t) PROVE TypeOK'
  BY <1>0, <1>20 DEF ReleaseFailure, ReleaseGivesUp
<1>21. ASSUME NEW t \in Threads, ReleaseToServer(t) PROVE TypeOK'
  BY <1>0, <1>21 DEF ReleaseToServer
<1>22. ASSUME NEW t \in Threads, ReleaseToCache(t) PROVE TypeOK'
  BY <1>0, <1>22 DEF ReleaseToCache
<1>23. ASSUME NEW t \in Threads, ReleaseToWaiters(t) PROVE TypeOK'
  <2>1. [pc EXCEPT ![t] = "idle"] \in [Threads -> ThreadPC]
    OBVIOUS
  <2>2. pc' \in [Threads -> ThreadPC]
    <3>1. Broadcast([pc EXCEPT ![t] = "idle"], ClientOf[t], "sleepLock", "wokenLock")
            \in [Threads -> ThreadPC]
      BY DEF Broadcast, Sleepers
    <3>2. QED
      BY <1>23, <3>1, Zenon DEF ReleaseToWaiters
  <2>3. QED
    BY <1>0, <1>23, <2>2, Zenon DEF ReleaseToWaiters
<1>24. ASSUME NEW t \in Threads, SpuriousWakeup(t) PROVE TypeOK'
  BY <1>0, <1>24, SMTT(30) DEF SpuriousWakeup
<1>25. ASSUME NEW c \in Clients, ServerAcquireFree(c) PROVE TypeOK'
  BY <1>0, <1>25 DEF ServerAcquireFree, Grant
<1>26. ASSUME NEW c \in Clients, ServerAcquireLocked(c) PROVE TypeOK'
  BY <1>0, <1>26 DEF ServerAcquireLocked
<1>27. ASSUME NEW c \in Clients, ServerAcquireBehind(c) PROVE TypeOK'
  BY <1>0, <1>27 DEF ServerAcquireBehind
<1>28. ASSUME NEW c \in Clients, ServerAcquireFront(c) PROVE TypeOK'
  BY <1>0, <1>28 DEF ServerAcquireFront, Grant
<1>29. ASSUME NEW c \in Clients, ServerAcquireFrontRevoke(c) PROVE TypeOK'
  BY <1>0, <1>29 DEF ServerAcquireFrontRevoke, Grant
<1>30. ASSUME NEW c \in Clients, ServerReadHolder(c) PROVE TypeOK'
  BY <1>0, <1>30 DEF ServerReadHolder
<1>31. ASSUME NEW c \in Clients, ServerRevokeReply(c) PROVE TypeOK'
  BY <1>0, <1>31 DEF ServerRevokeReply
<1>32. ASSUME NEW c \in Clients, RevokeFree(c) PROVE TypeOK'
  BY <1>0, <1>32, Zenon DEF RevokeFree
<1>33. ASSUME NEW c \in Clients, RevokeLater(c) PROVE TypeOK'
  BY <1>0, <1>33, Zenon DEF RevokeLater
<1>34. ASSUME NEW c \in Clients, RevokeDoRelease(c) PROVE TypeOK'
  BY <1>0, <1>34, Zenon DEF RevokeDoRelease
<1>35. ASSUME NEW c \in Clients, RevokeReleaseOK(c) PROVE TypeOK'
  BY <1>0, <1>35, <1>1, Zenon DEF RevokeReleaseOK, ReleaseReturns
<1>36. ASSUME NEW c \in Clients, RevokeReleaseFailure(c) PROVE TypeOK'
  BY <1>0, <1>36, Zenon DEF RevokeReleaseFailure, ReleaseGivesUp
<1>37. ASSUME NEW c \in Clients, ServerRelease(c) PROVE TypeOK'
  BY <1>0, <1>37 DEF ServerRelease
<1>38. ASSUME NEW c \in Clients, ServerReadFront(c) PROVE TypeOK'
  BY <1>0, <1>38 DEF ServerReadFront
<1>39. ASSUME NEW c \in Clients, ServerRetryReply(c) PROVE TypeOK'
  BY <1>0, <1>39 DEF ServerRetryReply, RetryReturns
<1>40. ASSUME NEW c \in Clients, Retry(c) PROVE TypeOK'
  BY <1>0, <1>40, <1>r, Zenon DEF Retry
<1>41. ASSUME NEW c \in Clients, ServerRetryFailure(c) PROVE TypeOK'
  BY <1>0, <1>41 DEF ServerRetryFailure, RetryReturns
<1>42. ASSUME NEW c \in Clients, RpcFails(c) PROVE TypeOK'
  <2>1. CASE AcquireRpcFails(c)
    BY <1>0, <2>1 DEF AcquireRpcFails
  <2>2. CASE ReleaseRpcFails(c)
    BY <1>0, <2>2 DEF ReleaseRpcFails
  <2>3. CASE RevokeRpcFails(c)
    BY <1>0, <2>3 DEF RevokeRpcFails
  <2>4. CASE RetryRpcFails(c)
    BY <1>0, <2>4 DEF RetryRpcFails
  <2> QED
    BY <1>42, <2>1, <2>2, <2>3, <2>4, Zenon DEF RpcFails
<1>43. ASSUME NEW a \in Abandoned, NEW c \in Clients, LateStep(a, c) PROVE TypeOK'
  <2>1. CASE LateAcquire(a, c)
    <3>0. srvWaitList' \in {Append(srvWaitList, c), <<>>}
            \/ (srvWaitList # <<>> /\ srvWaitList' = Tail(srvWaitList))
      BY <2>1, Zenon DEF LateAcquire
    <3>1. srvWaitList' \in Seq(Clients)
      <4>1. srvWaitList \in Seq(Clients)
        BY Zenon
      <4>2. /\ Append(srvWaitList, c) \in Seq(Clients)
            /\ <<>> \in Seq(Clients)
            /\ srvWaitList # <<>> => Tail(srvWaitList) \in Seq(Clients)
        BY <4>1
      <4> QED
        BY <3>0, <4>2, Zenon
    <3>2. srvState' \in ServerState /\ srvClient' \in Clients \cup {NoClient}
      BY <2>1 DEF LateAcquire, Grant
    <3> QED
      BY <1>0, <2>1, <3>1, <3>2, Zenon DEF LateAcquire
  <2>2. CASE LateReadHolder(a, c) \/ LateReadFront(a, c)
    <3>1. UNCHANGED <<clientVars, pc, serverVars, rpcVars>>
      BY <2>2, Zenon DEF LateReadHolder, LateReadFront
    <3> QED
      BY <1>0, <3>1
  <2>3. CASE LateRevoke(a, c)
    <3>1. state' \in [Clients -> ClientState]
      BY <2>3 DEF LateRevoke
    <3>2. toRevoke' \in [Clients -> BOOLEAN]
      BY <2>3, Zenon DEF LateRevoke
    <3> QED
      BY <1>0, <2>3, <3>1, <3>2, Zenon DEF LateRevoke
  <2>4. CASE LateDoRelease(a, c)
    BY <1>0, <2>4 DEF LateDoRelease
  <2>5. CASE LateReleaseReturns(a, c)
    <3>1. CASE ReleaseReturns(c, pc)
      BY <1>0, <1>1, <2>5, <3>1, Zenon DEF LateReleaseReturns, ReleaseReturns
    <3>2. CASE ReleaseGivesUp(c, pc)
      BY <1>0, <2>5, <3>2, Zenon DEF LateReleaseReturns, ReleaseGivesUp
    <3> QED
      BY <2>5, <3>1, <3>2, Zenon DEF LateReleaseReturns
  <2>6. CASE LateRelease(a, c)
    BY <1>0, <2>6 DEF LateRelease
  <2>7. CASE LateRetry(a, c)
    BY <1>0, <1>r, <2>7, Zenon DEF LateRetry
  <2> QED
    BY <1>43, <2>1, <2>2, <2>3, <2>4, <2>5, <2>6, <2>7, Zenon DEF LateStep
<1>44. CASE UNCHANGED vars
  BY <1>44 DEF vars
<1>45. QED
  BY <1>2, <1>3, <1>4, <1>5, <1>6, <1>7, <1>8, <1>9, <1>10, <1>11, <1>12, <1>13, <1>14,
     <1>15, <1>16, <1>17, <1>18, <1>19, <1>20, <1>21, <1>22, <1>23, <1>24, <1>25, <1>26,
     <1>27, <1>28, <1>29, <1>30, <1>31, <1>32, <1>33, <1>34, <1>35, <1>36, <1>37, <1>38,
     <1>39, <1>40, <1>41, <1>42, <1>43, <1>44, Zenon
  DEF Next, Acquire, ThreadStep, Release, Wakeup, AcquireHandler, ReleaseHandler

LEMMA InitType ==
  ASSUME Init
  PROVE  TypeOK
<1>1. late \in [Abandoned -> Late]
  <2>1. Over \in Late
    BY DEF Over, Late, LateKind
  <2> QED
    BY <2>1 DEF Init
<1> QED
  BY <1>1 DEF Init, TypeOK, ClientState, ServerState, ThreadPC, AcqRpc, RelRpc, RvkRpc, RtyRpc

\* Spec keeps every variable of the lock service in its declared type, RPC failures
\* included.
THEOREM TypeCorrect == Spec => []TypeOK
<1>1. Init => TypeOK
  BY InitType
<1>2. TypeOK /\ [Next]_vars => TypeOK'
  BY TypeStep
<1>3. QED
  BY <1>1, <1>2, PTL DEF Spec

-----------------------------------------------------------------------------
(* What a step does to the inductive invariant *)

\* The answer to the release RPC wakes at most a thread that sleeps to acquire.
LEMMA ReleaseReturnsEffect ==
  ASSUME NEW c, NEW p \in [Threads -> ThreadPC], ReleaseReturns(c, p)
  PROVE  \A u \in Threads : pc'[u] = p[u] \/ (p[u] = "sleepAcq" /\ pc'[u] = "wokenAcq")
<1>1. pc' \in IF waitingToAcq[c] THEN Signal(p, c, "sleepAcq", "wokenAcq") ELSE {p}
  BY DEF ReleaseReturns
<1>2. CASE waitingToAcq[c]
  <2>1. pc' \in Signal(p, c, "sleepAcq", "wokenAcq")
    BY <1>1, <1>2
  <2>2. QED
    BY <2>1 DEF Signal, Sleepers
<1>3. CASE ~waitingToAcq[c]
  BY <1>1, <1>3
<1>4. QED
  BY <1>2, <1>3

LEMMA ReleaseOKEffect ==
  ASSUME TypeOK, NEW t \in Threads, ReleaseOK(t)
  PROVE  \A u \in Threads :
           IF u = t THEN pc'[u] = "idle"
           ELSE pc'[u] = pc[u] \/ (pc[u] = "sleepAcq" /\ pc'[u] = "wokenAcq")
<1> DEFINE p == [pc EXCEPT ![t] = "idle"]
<1>1. p \in [Threads -> ThreadPC]
  BY DEF TypeOK, ThreadPC
<1>2. ReleaseReturns(ClientOf[t], p)
  BY DEF ReleaseOK
<1> HIDE DEF p
<1>3. \A u \in Threads : pc'[u] = p[u] \/ (p[u] = "sleepAcq" /\ pc'[u] = "wokenAcq")
  BY <1>1, <1>2, ReleaseReturnsEffect
<1>4. \A u \in Threads : p[u] = IF u = t THEN "idle" ELSE pc[u]
  BY DEF p, TypeOK
<1>5. QED
  BY <1>3, <1>4

\* The retry wakes at most a thread that sleeps to retry.
LEMMA RetryEffect ==
  ASSUME TypeOK, NEW c \in Clients, Retry(c)
  PROVE  \A u \in Threads :
           pc'[u] = pc[u] \/ (pc[u] = "sleepRetry" /\ pc'[u] = "wokenRetry")
<1> DEFINE d == rtyTo[c]
<1>1. pc' \in IF waitingToRetry[d] THEN Signal(pc, d, "sleepRetry", "wokenRetry") ELSE {pc}
  BY DEF Retry
<1> HIDE DEF d
<1>2. CASE waitingToRetry[d]
  <2>1. pc' \in Signal(pc, d, "sleepRetry", "wokenRetry")
    BY <1>1, <1>2
  <2>2. QED
    BY <2>1 DEF Signal, Sleepers, TypeOK
<1>3. CASE ~waitingToRetry[d]
  BY <1>1, <1>3
<1>4. QED
  BY <1>2, <1>3

\* A conjunct holds on as long as the variables it reads do not change.
LEMMA Frame ==
  /\ UNCHANGED <<acq, rel, rvk>> => (NoRpcError <=> NoRpcError')
  /\ UNCHANGED <<pc, state, rvk, rvkTo>> => (ActiveMatchesState <=> ActiveMatchesState')
  /\ UNCHANGED <<state, pc, acq, rel, rvk, rvkTo, rty>> =>
       (RpcMatchesState <=> RpcMatchesState')
  /\ UNCHANGED <<srvState, srvClient, srvWaitList>> => (ServerRecord <=> ServerRecord')
  /\ UNCHANGED <<state, acq, rel, srvState, srvClient>> =>
       (HolderAgreement <=> HolderAgreement')
  /\ UNCHANGED <<state, toRevoke, srvState, srvClient, srvWaitList, acq, rel, rvk, rvkTo>> =>
       (RevokeReachesHolder <=> RevokeReachesHolder')
  /\ UNCHANGED <<pc, toRetry, srvState, srvWaitList, acq, rel, rty, rtyTo>> =>
       (RetryReachesFront <=> RetryReachesFront')
  /\ UNCHANGED <<state, srvWaitList, acq, rel>> => (QueueSound <=> QueueSound')
  /\ UNCHANGED <<pc, srvWaitList, acq>> => (QueuedOnce <=> QueuedOnce')
  /\ UNCHANGED <<pc, acq>> => (ReacquirePending <=> ReacquirePending')
<1>1. UNCHANGED <<acq, rel, rvk>> => (NoRpcError <=> NoRpcError')
  BY DEF NoRpcError
<1>2. UNCHANGED <<pc, state, rvk, rvkTo>> => (ActiveMatchesState <=> ActiveMatchesState')
  BY DEF ActiveMatchesState
<1>3. UNCHANGED <<state, pc, acq, rel, rvk, rvkTo, rty>> =>
        (RpcMatchesState <=> RpcMatchesState')
  BY DEF RpcMatchesState
<1>4. UNCHANGED <<srvState, srvClient, srvWaitList>> => (ServerRecord <=> ServerRecord')
  BY DEF ServerRecord
<1>5. UNCHANGED <<state, acq, rel, srvState, srvClient>> =>
        (HolderAgreement <=> HolderAgreement')
  BY DEF HolderAgreement, Owns
<1>6. UNCHANGED <<state, toRevoke, srvState, srvClient, srvWaitList, acq, rel, rvk, rvkTo>> =>
        (RevokeReachesHolder <=> RevokeReachesHolder')
  BY DEF RevokeReachesHolder, RevokeAt, RevokeFor
<1>7. UNCHANGED <<pc, toRetry, srvState, srvWaitList, acq, rel, rty, rtyTo>> =>
        (RetryReachesFront <=> RetryReachesFront')
  BY DEF RetryReachesFront, RetryAt, RetryFor, Reacquiring
<1>8. UNCHANGED <<state, srvWaitList, acq, rel>> => (QueueSound <=> QueueSound')
  BY DEF QueueSound, Owns
<1>9. UNCHANGED <<pc, srvWaitList, acq>> => (QueuedOnce <=> QueuedOnce')
  BY DEF QueuedOnce, Reacquiring
<1>10. UNCHANGED <<pc, acq>> => (ReacquirePending <=> ReacquirePending')
  BY DEF ReacquirePending
<1>11. QED
  BY <1>1, <1>2, <1>3, <1>4, <1>5, <1>6, <1>7, <1>8, <1>9, <1>10

\* The revoke of a tenure is kept where it is, moves to the place (x, d), or is none.
LEMMA RevokeKept ==
  ASSUME RevokeReachesHolder,
         \A v \in RevokePlace, b \in Clients : RevokeAt(v, b)' <=> RevokeAt(v, b),
         \A b \in Clients : rvk[b] = "request" => rvkTo'[b] = rvkTo[b],
         srvState' = srvState, srvClient' = srvClient,
         srvWaitList' = <<>> <=> srvWaitList = <<>>
  PROVE  RevokeReachesHolder'
<1>1. \A v \in RevokePlace, b \in Clients :
        RevokeAt(v, b) => RevokeFor(v, b)' = RevokeFor(v, b)
  BY DEF RevokePlace, RevokeAt, RevokeFor
<1>2. QED
  BY <1>1 DEF RevokeReachesHolder

LEMMA RevokeMoved ==
  ASSUME NEW x \in RevokePlace, NEW d \in Clients,
         RevokeAt(x, d)', RevokeFor(x, d)' = srvClient',
         \A v \in RevokePlace, b \in Clients : RevokeAt(v, b)' => v = x /\ b = d,
         srvState' = "LOCKED", srvWaitList' # <<>>
  PROVE  RevokeReachesHolder'
  BY DEF RevokeReachesHolder

LEMMA RevokeNone ==
  ASSUME \A v \in RevokePlace, b \in Clients : ~RevokeAt(v, b)',
         srvState' # "LOCKED" \/ srvWaitList' = <<>>
  PROVE  RevokeReachesHolder'
  BY DEF RevokeReachesHolder

\* The same of the retry and the front of the queue.
LEMMA RetryKept ==
  ASSUME RetryReachesFront,
         \A v \in RetryPlace, b \in Clients : RetryAt(v, b)' <=> RetryAt(v, b),
         \A b \in Clients : rty[b] = "request" => rtyTo'[b] = rtyTo[b],
         srvState' = srvState,
         srvWaitList' = <<>> <=> srvWaitList = <<>>,
         srvState = "FREE" /\ srvWaitList # <<>> => Head(srvWaitList') = Head(srvWaitList)
  PROVE  RetryReachesFront'
<1>1. \A v \in RetryPlace, b \in Clients :
        RetryAt(v, b) => RetryFor(v, b)' = RetryFor(v, b)
  BY DEF RetryPlace, RetryAt, RetryFor, RetryReachesFront
<1>2. QED
  BY <1>1 DEF RetryReachesFront

LEMMA RetryMoved ==
  ASSUME NEW x \in RetryPlace, NEW d \in Clients,
         RetryAt(x, d)', RetryFor(x, d)' = Head(srvWaitList'),
         \A v \in RetryPlace, b \in Clients : RetryAt(v, b)' => v = x /\ b = d,
         srvState' = "FREE", srvWaitList' # <<>>
  PROVE  RetryReachesFront'
  BY DEF RetryReachesFront

LEMMA RetryNone ==
  ASSUME \A v \in RetryPlace, b \in Clients : ~RetryAt(v, b)',
         srvState' # "FREE" \/ srvWaitList' = <<>>
  PROVE  RetryReachesFront'
  BY DEF RetryReachesFront

\* A revoke noted by a client is for the lock it owns.
LEMMA RevokeNoted ==
  ASSUME IInv, NEW c \in Clients, toRevoke[c]
  PROVE  Owns(c)
<1>1. "toRevoke" \in RevokePlace /\ RevokeAt("toRevoke", c) /\ RevokeFor("toRevoke", c) = c
  BY DEF RevokePlace, RevokeAt, RevokeFor
<1>2. srvState = "LOCKED" /\ c = srvClient
  BY <1>1 DEF IInv, Consistent, RevokeReachesHolder
<1>3. QED
  BY <1>2 DEF IInv, Consistent, HolderAgreement

\* A retry noted by a client is for the acquire it has queued.
LEMMA RetryNoted ==
  ASSUME IInv, NEW c \in Clients, toRetry[c]
  PROVE  state[c] = "ACQUIRING"
<1>1. "toRetry" \in RetryPlace /\ RetryAt("toRetry", c) /\ RetryFor("toRetry", c) = c
  BY DEF RetryPlace, RetryAt, RetryFor
<1>2. srvWaitList # <<>> /\ c = Head(srvWaitList)
  BY <1>1 DEF IInv, Consistent, RetryReachesFront
<1>3. QED
  BY <1>2 DEF IInv, Consistent, TypeOK, QueueSound

\* A second acquire call is at the server only for the front of a free lock's queue.
LEMMA ReacquireFront ==
  ASSUME IInv, NEW t \in Threads, Reacquiring(t)
  PROVE  /\ srvState = "FREE" /\ srvWaitList # <<>> /\ Head(srvWaitList) = ClientOf[t]
         /\ \A v \in RetryPlace, b \in Clients :
              RetryAt(v, b) => v = "reacquire" /\ b = ClientOf[t]
<1>1. ClientOf[t] \in Clients /\ "reacquire" \in RetryPlace
  BY DEF RetryPlace
<1>2. RetryAt("reacquire", ClientOf[t])
  BY DEF RetryAt
<1>3. RetryFor("reacquire", ClientOf[t]) = ClientOf[t]
  BY DEF RetryFor
<1>4. QED
  BY <1>1, <1>2, <1>3 DEF IInv, Consistent, RetryReachesFront
=============================================================================
