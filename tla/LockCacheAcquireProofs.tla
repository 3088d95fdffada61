----------------------- MODULE LockCacheAcquireProofs -----------------------
(***************************************************************************)
(* lock_client_cache::acquire and acquireAndMaybeRetry preserve the        *)
(* inductive invariant of the lock service.                                *)
(***************************************************************************)
EXTENDS LockCacheLemmas

USE ConstantsAssumption

-----------------------------------------------------------------------------
(* lock_client_cache::acquire *)

\* A client with no entry has neither a noted revoke nor a noted retry to lose.
LEMMA AcquireCreateInvariant ==
  ASSUME RpcMayFail = FALSE, IInv, NEW t \in Threads, AcquireCreate(t)
  PROVE  Consistent'
<1> USE DEF Consistent, clientVars, serverVars, rpcVars
<1> Consistent
  BY DEF IInv
<1>0. /\ state \in [Clients -> ClientState]
      /\ toRetry \in [Clients -> BOOLEAN]
      /\ toRevoke \in [Clients -> BOOLEAN]
      /\ pc \in [Threads -> ThreadPC]
      /\ acq \in [Clients -> AcqRpc]
      /\ srvWaitList \in Seq(Clients)
  BY DEF IInv, TypeOK
<1> USE <1>0
<1>1. ServerRecord'
  BY Frame DEF AcquireCreate, SendAcquire
<1>2. ~toRevoke[ClientOf[t]] /\ ~toRetry[ClientOf[t]]
  BY RevokeNoted, RetryNoted DEF AcquireCreate, Owns, RpcMatchesState
<1>3. \A b \in Clients : Owns(b)' <=> Owns(b)
  BY SMTT(90) DEF AcquireCreate, SendAcquire, Owns, RpcMatchesState
<1>4. NoRpcError'
  BY <1>2 DEF AcquireCreate, SendAcquire, NoRpcError
<1>5. ActiveMatchesState'
  BY SMTT(90) DEF AcquireCreate, ActiveMatchesState, ActivePC, RelPC
<1>6. RpcMatchesState'
  BY SMTT(90) DEF AcquireCreate, SendAcquire, ActiveMatchesState, RpcMatchesState,
     AcqPC
<1>7. HolderAgreement'
  BY <1>3 DEF AcquireCreate, HolderAgreement
<1>8. \A v \in RevokePlace, b \in Clients : RevokeAt(v, b)' <=> RevokeAt(v, b)
  BY <1>2, SMTT(90) DEF AcquireCreate, SendAcquire, RevokeAt, RpcMatchesState
<1>9. RevokeReachesHolder'
  BY <1>8, RevokeKept DEF AcquireCreate, SendAcquire
<1>10. \A v \in RetryPlace, b \in Clients : RetryAt(v, b)' <=> RetryAt(v, b)
  BY <1>2, SMTT(90) DEF AcquireCreate, SendAcquire, RetryAt, Reacquiring,
     ActiveMatchesState, AcqPC
<1>11. RetryReachesFront'
  BY <1>10, RetryKept DEF AcquireCreate, SendAcquire
<1>12. QueueSound'
  BY <1>3, SMTT(90) DEF AcquireCreate, QueueSound
<1>13. QueuedOnce'
  BY SMTT(90) DEF AcquireCreate, SendAcquire, QueuedOnce, Reacquiring, QueueSound
<1>14. ReacquirePending'
  BY <1>2 DEF AcquireCreate, SendAcquire, ReacquirePending
<1>15. QED
  BY <1>1, <1>4, <1>5, <1>6, <1>7, <1>9, <1>11, <1>12, <1>13, <1>14

\* A thread that fetches the lock is the only active one of its client.
LEMMA AcquireNoneInvariant ==
  ASSUME RpcMayFail = FALSE, IInv, NEW t \in Threads, AcquireNone(t)
  PROVE  Consistent'
<1> USE DEF Consistent, clientVars, serverVars, rpcVars
<1> Consistent
  BY DEF IInv
<1>0. /\ state \in [Clients -> ClientState]
      /\ pc \in [Threads -> ThreadPC]
      /\ acq \in [Clients -> AcqRpc]
      /\ srvWaitList \in Seq(Clients)
  BY DEF IInv, TypeOK
<1> USE <1>0
<1>1. ServerRecord'
  BY Frame DEF AcquireNone, SendAcquire
<1>2a. PICK c \in Clients : c = ClientOf[t]
  OBVIOUS
<1>2b. acq[c] = "none" /\ state[c] = "NONE"
  BY <1>2a DEF AcquireNone, RpcMatchesState
<1>2c. /\ state' = [state EXCEPT ![c] = "ACQUIRING"]
       /\ acq' = [acq EXCEPT ![c] = "request"]
       /\ UNCHANGED <<rel, rvk, rvkTo, toRevoke>>
  BY <1>2a DEF AcquireNone, SendAcquire
<1>2. \A b \in Clients : Owns(b)' <=> Owns(b)
  BY <1>2b, <1>2c, SMTT(90) DEF Owns
<1>3. NoRpcError'
  BY DEF AcquireNone, SendAcquire, NoRpcError
<1>4. ActiveMatchesState'
  BY SMTT(90) DEF AcquireNone, ActiveMatchesState, ActivePC, RelPC
<1>5. RpcMatchesState'
  BY SMTT(90) DEF AcquireNone, SendAcquire, ActiveMatchesState, RpcMatchesState, AcqPC
<1>6. HolderAgreement'
  BY <1>2 DEF AcquireNone, HolderAgreement
<1>7. \A v \in RevokePlace, b \in Clients : RevokeAt(v, b)' <=> RevokeAt(v, b)
  BY <1>2b, <1>2c, SMTT(90) DEF RevokePlace, RevokeAt
<1>8. RevokeReachesHolder'
  BY <1>7, RevokeKept DEF AcquireNone, SendAcquire
<1>9. \A v \in RetryPlace, b \in Clients : RetryAt(v, b)' <=> RetryAt(v, b)
  BY SMTT(90) DEF AcquireNone, SendAcquire, RetryAt, Reacquiring, ActiveMatchesState,
     AcqPC
<1>10. RetryReachesFront'
  BY <1>9, RetryKept DEF AcquireNone, SendAcquire
<1>11. QueueSound'
  BY <1>2, SMTT(90) DEF AcquireNone, QueueSound
<1>12. QueuedOnce'
  BY SMTT(90) DEF AcquireNone, SendAcquire, QueuedOnce, Reacquiring, QueueSound
<1>13. ReacquirePending'
  BY DEF AcquireNone, SendAcquire, ReacquirePending
<1>14. QED
  BY <1>1, <1>3, <1>4, <1>5, <1>6, <1>8, <1>10, <1>11, <1>12, <1>13

\* Taking the cached lock leaves the client its owner.
LEMMA AcquireFreeInvariant ==
  ASSUME RpcMayFail = FALSE, IInv, NEW t \in Threads, AcquireFree(t)
  PROVE  Consistent'
<1> USE DEF Consistent, clientVars, serverVars, rpcVars
<1> Consistent
  BY DEF IInv
<1>0. /\ state \in [Clients -> ClientState]
      /\ pc \in [Threads -> ThreadPC]
      /\ srvWaitList \in Seq(Clients)
  BY DEF IInv, TypeOK
<1> USE <1>0
<1>1. NoRpcError' /\ ServerRecord'
  BY Frame DEF AcquireFree
<1>2. \A b \in Clients : Owns(b)' <=> Owns(b)
  BY SMTT(90) DEF AcquireFree, Owns
<1>3. ActiveMatchesState'
  BY SMTT(90) DEF AcquireFree, ActiveMatchesState, ActivePC, AcqPC, RelPC
<1>4. RpcMatchesState'
  BY SMTT(90) DEF AcquireFree, RpcMatchesState
<1>5. HolderAgreement'
  BY <1>2 DEF AcquireFree, HolderAgreement
<1>6. \A v \in RevokePlace, b \in Clients : RevokeAt(v, b)' <=> RevokeAt(v, b)
  BY SMTT(90) DEF AcquireFree, RevokeAt
<1>7. RevokeReachesHolder'
  BY <1>6, RevokeKept DEF AcquireFree
<1>8. \A v \in RetryPlace, b \in Clients : RetryAt(v, b)' <=> RetryAt(v, b)
  BY SMTT(90) DEF AcquireFree, RetryAt, Reacquiring
<1>9. RetryReachesFront'
  BY <1>8, RetryKept DEF AcquireFree
<1>10. QueueSound'
  BY <1>2, SMTT(90) DEF AcquireFree, QueueSound
<1>11. QueuedOnce'
  BY SMTT(90) DEF AcquireFree, QueuedOnce, Reacquiring
<1>12. ReacquirePending'
  BY DEF AcquireFree, ReacquirePending
<1>13. QED
  BY <1>1, <1>3, <1>4, <1>5, <1>7, <1>9, <1>10, <1>11, <1>12

\* A thread that goes to sleep on lockCondVar changes nothing the others rely on.
LEMMA AcquireWaitInvariant ==
  ASSUME RpcMayFail = FALSE, IInv, NEW t \in Threads, AcquireWait(t)
  PROVE  Consistent'
<1> USE DEF Consistent, clientVars, serverVars, rpcVars
<1> Consistent
  BY DEF IInv
<1>0. /\ pc \in [Threads -> ThreadPC]
      /\ srvWaitList \in Seq(Clients)
  BY DEF IInv, TypeOK
<1> USE <1>0
<1>1. NoRpcError' /\ ServerRecord' /\ HolderAgreement' /\ RevokeReachesHolder' /\ QueueSound'
  BY Frame DEF AcquireWait
<1>2. ActiveMatchesState'
  BY SMTT(90) DEF AcquireWait, ActiveMatchesState, ActivePC, AcqPC, RelPC
<1>3. RpcMatchesState'
  BY SMTT(90) DEF AcquireWait, RpcMatchesState
<1>4. \A v \in RetryPlace, b \in Clients : RetryAt(v, b)' <=> RetryAt(v, b)
  BY SMTT(90) DEF AcquireWait, RetryAt, Reacquiring
<1>5. RetryReachesFront'
  BY <1>4, RetryKept DEF AcquireWait
<1>6. QueuedOnce'
  BY SMTT(90) DEF AcquireWait, QueuedOnce, Reacquiring
<1>7. ReacquirePending'
  BY DEF AcquireWait, ReacquirePending
<1>8. QED
  BY <1>1, <1>2, <1>3, <1>5, <1>6, <1>7

\* Nor does the thread that waits for the release to finish.
LEMMA AcquireReleasingInvariant ==
  ASSUME RpcMayFail = FALSE, IInv, NEW t \in Threads, AcquireReleasing(t)
  PROVE  Consistent'
<1> USE DEF Consistent, clientVars, serverVars, rpcVars
<1> Consistent
  BY DEF IInv
<1>0. /\ pc \in [Threads -> ThreadPC]
      /\ srvWaitList \in Seq(Clients)
  BY DEF IInv, TypeOK
<1> USE <1>0
<1>1. NoRpcError' /\ ServerRecord' /\ HolderAgreement' /\ RevokeReachesHolder' /\ QueueSound'
  BY Frame DEF AcquireReleasing
<1>2. ActiveMatchesState'
  BY SMTT(90) DEF AcquireReleasing, ActiveMatchesState, ActivePC, AcqPC, RelPC
<1>3. RpcMatchesState'
  BY SMTT(90) DEF AcquireReleasing, RpcMatchesState
<1>4. \A v \in RetryPlace, b \in Clients : RetryAt(v, b)' <=> RetryAt(v, b)
  BY SMTT(90) DEF AcquireReleasing, RetryAt, Reacquiring
<1>5. RetryReachesFront'
  BY <1>4, RetryKept DEF AcquireReleasing
<1>6. QueuedOnce'
  BY SMTT(90) DEF AcquireReleasing, QueuedOnce, Reacquiring
<1>7. ReacquirePending'
  BY DEF AcquireReleasing, ReacquirePending
<1>8. QED
  BY <1>1, <1>2, <1>3, <1>5, <1>6, <1>7

\* A woken thread takes the cached lock only when it is FREE.
LEMMA WakeLockInvariant ==
  ASSUME RpcMayFail = FALSE, IInv, NEW t \in Threads, WakeLock(t)
  PROVE  Consistent'
<1> USE DEF Consistent, clientVars, serverVars, rpcVars
<1> Consistent
  BY DEF IInv
<1>0. /\ state \in [Clients -> ClientState]
      /\ pc \in [Threads -> ThreadPC]
      /\ srvWaitList \in Seq(Clients)
  BY DEF IInv, TypeOK
<1> USE <1>0
<1>1. NoRpcError' /\ ServerRecord'
  BY Frame DEF WakeLock
<1>2. \A b \in Clients : Owns(b)' <=> Owns(b)
  BY SMTT(90) DEF WakeLock, Owns
<1>3. ActiveMatchesState'
  BY SMTT(90) DEF WakeLock, ActiveMatchesState, ActivePC, AcqPC, RelPC
<1>4. RpcMatchesState'
  BY SMTT(90) DEF WakeLock, RpcMatchesState
<1>5. HolderAgreement'
  BY <1>2 DEF WakeLock, HolderAgreement
<1>6. \A v \in RevokePlace, b \in Clients : RevokeAt(v, b)' <=> RevokeAt(v, b)
  BY SMTT(90) DEF WakeLock, RevokeAt
<1>7. RevokeReachesHolder'
  BY <1>6, RevokeKept DEF WakeLock
<1>8. \A v \in RetryPlace, b \in Clients : RetryAt(v, b)' <=> RetryAt(v, b)
  BY SMTT(90) DEF WakeLock, RetryAt, Reacquiring
<1>9. RetryReachesFront'
  BY <1>8, RetryKept DEF WakeLock
<1>10. QueueSound'
  BY <1>2, SMTT(90) DEF WakeLock, QueueSound
<1>11. QueuedOnce'
  BY SMTT(90) DEF WakeLock, QueuedOnce, Reacquiring
<1>12. ReacquirePending'
  BY DEF WakeLock, ReacquirePending
<1>13. QED
  BY <1>1, <1>3, <1>4, <1>5, <1>7, <1>9, <1>10, <1>11, <1>12

\* Going back to sleep on lockCondVar is invisible to the rest.
LEMMA SleepLockInvariant ==
  ASSUME RpcMayFail = FALSE, IInv, NEW t \in Threads, SleepLock(t)
  PROVE  Consistent'
<1> USE DEF Consistent, clientVars, serverVars, rpcVars
<1> Consistent
  BY DEF IInv
<1>0. /\ pc \in [Threads -> ThreadPC]
      /\ srvWaitList \in Seq(Clients)
  BY DEF IInv, TypeOK
<1> USE <1>0
<1>1. NoRpcError' /\ ServerRecord' /\ HolderAgreement' /\ RevokeReachesHolder' /\ QueueSound'
  BY Frame DEF SleepLock
<1>2. ActiveMatchesState'
  BY SMTT(90) DEF SleepLock, ActiveMatchesState, ActivePC, AcqPC, RelPC
<1>3. RpcMatchesState'
  BY SMTT(90) DEF SleepLock, RpcMatchesState
<1>4. \A v \in RetryPlace, b \in Clients : RetryAt(v, b)' <=> RetryAt(v, b)
  BY SMTT(90) DEF SleepLock, RetryAt, Reacquiring
<1>5. RetryReachesFront'
  BY <1>4, RetryKept DEF SleepLock
<1>6. QueuedOnce'
  BY SMTT(90) DEF SleepLock, QueuedOnce, Reacquiring
<1>7. ReacquirePending'
  BY DEF SleepLock, ReacquirePending
<1>8. QED
  BY <1>1, <1>2, <1>3, <1>5, <1>6, <1>7

\* The thread that fetches the lock again does so when no other is active.
LEMMA WakeAcquireInvariant ==
  ASSUME RpcMayFail = FALSE, IInv, NEW t \in Threads, WakeAcquire(t)
  PROVE  Consistent'
<1> USE DEF Consistent, clientVars, serverVars, rpcVars
<1> Consistent
  BY DEF IInv
<1>0. /\ state \in [Clients -> ClientState]
      /\ pc \in [Threads -> ThreadPC]
      /\ acq \in [Clients -> AcqRpc]
      /\ srvWaitList \in Seq(Clients)
  BY DEF IInv, TypeOK
<1> USE <1>0
<1>1. ServerRecord'
  BY Frame DEF WakeAcquire, SendAcquire
<1>2. \A b \in Clients : Owns(b)' <=> Owns(b)
  BY SMTT(90) DEF WakeAcquire, SendAcquire, Owns, RpcMatchesState
<1>3. NoRpcError'
  BY DEF WakeAcquire, SendAcquire, NoRpcError
<1>4. ActiveMatchesState'
  BY SMTT(90) DEF WakeAcquire, ActiveMatchesState, ActivePC, RelPC
<1>5. RpcMatchesState'
  BY SMTT(90) DEF WakeAcquire, SendAcquire, ActiveMatchesState, RpcMatchesState, AcqPC
<1>6. HolderAgreement'
  BY <1>2 DEF WakeAcquire, HolderAgreement
<1>7. \A v \in RevokePlace, b \in Clients : RevokeAt(v, b)' <=> RevokeAt(v, b)
  BY SMTT(90) DEF WakeAcquire, SendAcquire, RevokeAt, RpcMatchesState
<1>8. RevokeReachesHolder'
  BY <1>7, RevokeKept DEF WakeAcquire, SendAcquire
<1>9. \A v \in RetryPlace, b \in Clients : RetryAt(v, b)' <=> RetryAt(v, b)
  BY SMTT(90) DEF WakeAcquire, SendAcquire, RetryAt, Reacquiring, ActiveMatchesState,
     AcqPC
<1>10. RetryReachesFront'
  BY <1>9, RetryKept DEF WakeAcquire, SendAcquire
<1>11. QueueSound'
  BY <1>2, SMTT(90) DEF WakeAcquire, QueueSound
<1>12. QueuedOnce'
  BY SMTT(90) DEF WakeAcquire, SendAcquire, QueuedOnce, Reacquiring, QueueSound
<1>13. ReacquirePending'
  BY DEF WakeAcquire, SendAcquire, ReacquirePending
<1>14. QED
  BY <1>1, <1>3, <1>4, <1>5, <1>6, <1>8, <1>10, <1>11, <1>12, <1>13

\* Going back to sleep on acquireCondVar is invisible to the rest.
LEMMA SleepAcquireInvariant ==
  ASSUME RpcMayFail = FALSE, IInv, NEW t \in Threads, SleepAcquire(t)
  PROVE  Consistent'
<1> USE DEF Consistent, clientVars, serverVars, rpcVars
<1> Consistent
  BY DEF IInv
<1>0. /\ pc \in [Threads -> ThreadPC]
      /\ srvWaitList \in Seq(Clients)
  BY DEF IInv, TypeOK
<1> USE <1>0
<1>1. NoRpcError' /\ ServerRecord' /\ HolderAgreement' /\ RevokeReachesHolder' /\ QueueSound'
  BY Frame DEF SleepAcquire
<1>2. ActiveMatchesState'
  BY SMTT(90) DEF SleepAcquire, ActiveMatchesState, ActivePC, AcqPC, RelPC
<1>3. RpcMatchesState'
  BY SMTT(90) DEF SleepAcquire, RpcMatchesState
<1>4. \A v \in RetryPlace, b \in Clients : RetryAt(v, b)' <=> RetryAt(v, b)
  BY SMTT(90) DEF SleepAcquire, RetryAt, Reacquiring
<1>5. RetryReachesFront'
  BY <1>4, RetryKept DEF SleepAcquire
<1>6. QueuedOnce'
  BY SMTT(90) DEF SleepAcquire, QueuedOnce, Reacquiring
<1>7. ReacquirePending'
  BY DEF SleepAcquire, ReacquirePending
<1>8. QED
  BY <1>1, <1>2, <1>3, <1>5, <1>6, <1>7

\* A spurious wakeup changes nothing the others rely on.
LEMMA SpuriousWakeupInvariant ==
  ASSUME RpcMayFail = FALSE, IInv, NEW t \in Threads, SpuriousWakeup(t)
  PROVE  Consistent'
<1> USE DEF Consistent, clientVars, serverVars, rpcVars
<1> Consistent
  BY DEF IInv
<1>0. /\ pc \in [Threads -> ThreadPC]
      /\ srvWaitList \in Seq(Clients)
  BY DEF IInv, TypeOK
<1> USE <1>0
<1>1. \A u \in Threads : pc'[u] = pc[u] \/ (<<pc[u], pc'[u]>> \in {<<"sleepLock", "wokenLock">>,
                          <<"sleepAcq", "wokenAcq">>, <<"sleepRetry", "wokenRetry">>})
  BY DEF SpuriousWakeup
<1>2. NoRpcError' /\ ServerRecord' /\ HolderAgreement' /\ RevokeReachesHolder' /\ QueueSound'
  BY Frame DEF SpuriousWakeup
<1>3. ActiveMatchesState'
  BY <1>1, SMTT(90) DEF SpuriousWakeup, ActiveMatchesState, ActivePC, AcqPC, RelPC
<1>4. RpcMatchesState'
  BY <1>1, SMTT(90) DEF SpuriousWakeup, RpcMatchesState
<1>5. \A v \in RetryPlace, b \in Clients : RetryAt(v, b)' <=> RetryAt(v, b)
  BY <1>1, SMTT(90) DEF SpuriousWakeup, RetryAt, Reacquiring
<1>6. RetryReachesFront'
  BY <1>5, RetryKept DEF SpuriousWakeup
<1>7. QueuedOnce'
  BY <1>1, SMTT(90) DEF SpuriousWakeup, QueuedOnce, Reacquiring
<1>8. ReacquirePending'
  BY <1>1 DEF SpuriousWakeup, ReacquirePending
<1>9. QED
  BY <1>2, <1>3, <1>4, <1>6, <1>7, <1>8

-----------------------------------------------------------------------------
(* lock_client_cache::acquireAndMaybeRetry *)

\* The noted retry becomes the second acquire call, of the front of the queue.
LEMMA WakeRetryInvariant ==
  ASSUME RpcMayFail = FALSE, IInv, NEW t \in Threads, WakeRetry(t)
  PROVE  Consistent'
<1> USE DEF Consistent, clientVars, serverVars, rpcVars
<1> Consistent
  BY DEF IInv
<1>0. /\ toRetry \in [Clients -> BOOLEAN]
      /\ pc \in [Threads -> ThreadPC]
      /\ acq \in [Clients -> AcqRpc]
      /\ srvWaitList \in Seq(Clients)
  BY DEF IInv, TypeOK
<1> USE <1>0
<1>1. ServerRecord'
  BY Frame DEF WakeRetry, SendAcquire
<1>2. \A b \in Clients : Owns(b)' <=> Owns(b)
  BY SMTT(90) DEF WakeRetry, SendAcquire, Owns, RpcMatchesState
<1>3. NoRpcError'
  BY DEF WakeRetry, SendAcquire, NoRpcError
<1>4. ActiveMatchesState'
  BY SMTT(90) DEF WakeRetry, ActiveMatchesState, ActivePC, AcqPC, RelPC
<1>5. RpcMatchesState'
  BY SMTT(90) DEF WakeRetry, SendAcquire, ActiveMatchesState, RpcMatchesState,
     ActivePC, AcqPC
<1>6. HolderAgreement'
  BY <1>2 DEF WakeRetry, HolderAgreement
<1>7. \A v \in RevokePlace, b \in Clients : RevokeAt(v, b)' <=> RevokeAt(v, b)
  BY SMTT(90) DEF WakeRetry, SendAcquire, RevokeAt, RpcMatchesState
<1>8. RevokeReachesHolder'
  BY <1>7, RevokeKept DEF WakeRetry, SendAcquire
<1>9. "toRetry" \in RetryPlace /\ RetryAt("toRetry", ClientOf[t])
  BY DEF WakeRetry, RetryPlace, RetryAt
<1>10. srvState = "FREE" /\ srvWaitList # <<>> /\ RetryFor("toRetry", ClientOf[t]) = Head(srvWaitList)
  BY <1>9 DEF RetryReachesFront
<1>11. \A v \in RetryPlace, b \in Clients : RetryAt(v, b) => v = "toRetry" /\ b = ClientOf[t]
  BY <1>9 DEF RetryReachesFront
<1>12. ClientOf[t] \in Clients /\ RetryFor("reacquire", ClientOf[t])' = Head(srvWaitList')
  BY <1>10 DEF WakeRetry, RetryFor
<1>13. RetryAt("reacquire", ClientOf[t])'
  BY <1>12 DEF WakeRetry, SendAcquire, RetryAt, Reacquiring
<1>14. \A v \in RetryPlace, b \in Clients : RetryAt(v, b)' => v = "reacquire" /\ b = ClientOf[t]
  BY <1>11, <1>12 DEF WakeRetry, SendAcquire, RetryAt, Reacquiring
<1>15. srvState' = "FREE" /\ srvWaitList' # <<>> /\ "reacquire" \in RetryPlace
  BY <1>10 DEF WakeRetry, RetryPlace
<1>16. RetryReachesFront'
  BY <1>12, <1>13, <1>14, <1>15, RetryMoved
<1>17. QueueSound'
  <2>1. srvWaitList' = srvWaitList /\ state' = state
    BY DEF WakeRetry, serverVars
  <2>2. \A i \in 1..Len(srvWaitList) : srvWaitList[i] \in Clients
    OBVIOUS
  <2> QED
    BY <1>2, <2>1, <2>2, Zenon DEF QueueSound
<1>18. QueuedOnce'
  BY SMTT(90) DEF WakeRetry, SendAcquire, QueuedOnce, Reacquiring
<1>19. ReacquirePending'
  BY DEF WakeRetry, SendAcquire, ReacquirePending
<1>20. QED
  BY <1>1, <1>3, <1>4, <1>5, <1>6, <1>8, <1>16, <1>17, <1>18, <1>19

\* Going back to sleep on retryCondVar keeps the retry where it is.
LEMMA SleepRetryInvariant ==
  ASSUME RpcMayFail = FALSE, IInv, NEW t \in Threads, SleepRetry(t)
  PROVE  Consistent'
<1> USE DEF Consistent, clientVars, serverVars, rpcVars
<1> Consistent
  BY DEF IInv
<1>0. /\ pc \in [Threads -> ThreadPC]
      /\ srvWaitList \in Seq(Clients)
  BY DEF IInv, TypeOK
<1> USE <1>0
<1>1. NoRpcError' /\ ServerRecord' /\ HolderAgreement' /\ RevokeReachesHolder' /\ QueueSound'
  BY Frame DEF SleepRetry
<1>2. ActiveMatchesState'
  BY SMTT(90) DEF SleepRetry, ActiveMatchesState, ActivePC, AcqPC, RelPC
<1>3. RpcMatchesState'
  BY SMTT(90) DEF SleepRetry, RpcMatchesState
<1>4. \A v \in RetryPlace, b \in Clients : RetryAt(v, b)' <=> RetryAt(v, b)
  BY SMTT(90) DEF SleepRetry, RetryAt, Reacquiring
<1>5. RetryReachesFront'
  BY <1>4, RetryKept DEF SleepRetry
<1>6. QueuedOnce'
  BY SMTT(90) DEF SleepRetry, QueuedOnce, Reacquiring
<1>7. ReacquirePending'
  BY DEF SleepRetry, ReacquirePending
<1>8. QED
  BY <1>1, <1>2, <1>3, <1>5, <1>6, <1>7

\* The answer OK turns the server's grant into the state LOCKED.
LEMMA AcquireOKInvariant ==
  ASSUME RpcMayFail = FALSE, IInv, NEW t \in Threads, AcquireOK(t)
  PROVE  Consistent'
<1> USE DEF Consistent, clientVars, serverVars, rpcVars
<1> Consistent
  BY DEF IInv
<1>0. /\ state \in [Clients -> ClientState]
      /\ pc \in [Threads -> ThreadPC]
      /\ acq \in [Clients -> AcqRpc]
      /\ srvWaitList \in Seq(Clients)
  BY DEF IInv, TypeOK
<1> USE <1>0
<1>1. ServerRecord'
  BY Frame DEF AcquireOK
<1>2. \A b \in Clients : Owns(b)' <=> Owns(b)
  BY SMTT(90) DEF AcquireOK, Owns
<1>3. NoRpcError'
  BY DEF AcquireOK, NoRpcError
<1>4. ActiveMatchesState'
  BY SMTT(90) DEF AcquireOK, ActiveMatchesState, ActivePC, AcqPC, RelPC
<1>5. RpcMatchesState'
  BY SMTT(90) DEF AcquireOK, RpcMatchesState
<1>6. HolderAgreement'
  BY <1>2 DEF AcquireOK, HolderAgreement
<1>7. \A v \in RevokePlace, b \in Clients : RevokeAt(v, b)' <=> RevokeAt(v, b)
  BY SMTT(90) DEF AcquireOK, RevokeAt, RpcMatchesState
<1>8. RevokeReachesHolder'
  BY <1>7, RevokeKept DEF AcquireOK
<1>9. \A v \in RetryPlace, b \in Clients : RetryAt(v, b)' <=> RetryAt(v, b)
  BY SMTT(90) DEF AcquireOK, RetryAt, Reacquiring
<1>10. RetryReachesFront'
  BY <1>9, RetryKept DEF AcquireOK
<1>11. QueueSound'
  BY <1>2, SMTT(90) DEF AcquireOK, QueueSound, Owns
<1>12. QueuedOnce'
  BY SMTT(90) DEF AcquireOK, QueuedOnce, Reacquiring
<1>13. ReacquirePending'
  BY DEF AcquireOK, ReacquirePending, ActiveMatchesState, ActivePC, AcqPC
<1>14. QED
  BY <1>1, <1>3, <1>4, <1>5, <1>6, <1>8, <1>10, <1>11, <1>12, <1>13

\* A retry that overtook the answer RETRY is not lost.
LEMMA AcquireRetryNowInvariant ==
  ASSUME RpcMayFail = FALSE, IInv, NEW t \in Threads, AcquireRetryNow(t)
  PROVE  Consistent'
<1> USE DEF Consistent, clientVars, serverVars, rpcVars
<1> Consistent
  BY DEF IInv
<1>0. /\ toRetry \in [Clients -> BOOLEAN]
      /\ pc \in [Threads -> ThreadPC]
      /\ acq \in [Clients -> AcqRpc]
      /\ srvWaitList \in Seq(Clients)
  BY DEF IInv, TypeOK
<1> USE <1>0
<1>1. ServerRecord'
  BY Frame DEF AcquireRetryNow, SendAcquire
<1>2. \A b \in Clients : Owns(b)' <=> Owns(b)
  BY SMTT(90) DEF AcquireRetryNow, SendAcquire, Owns
<1>3. NoRpcError'
  BY DEF AcquireRetryNow, SendAcquire, NoRpcError
<1>4. ActiveMatchesState'
  BY SMTT(90) DEF AcquireRetryNow, ActiveMatchesState, ActivePC, AcqPC, RelPC
<1>5. RpcMatchesState'
  BY SMTT(90) DEF AcquireRetryNow, SendAcquire, RpcMatchesState
<1>6. HolderAgreement'
  BY <1>2 DEF AcquireRetryNow, HolderAgreement
<1>7. \A v \in RevokePlace, b \in Clients : RevokeAt(v, b)' <=> RevokeAt(v, b)
  BY SMTT(90) DEF AcquireRetryNow, SendAcquire, RevokeAt
<1>8. RevokeReachesHolder'
  BY <1>7, RevokeKept DEF AcquireRetryNow, SendAcquire
<1>9. "toRetry" \in RetryPlace /\ RetryAt("toRetry", ClientOf[t])
  BY DEF AcquireRetryNow, RetryPlace, RetryAt
<1>10. srvState = "FREE" /\ srvWaitList # <<>> /\ RetryFor("toRetry", ClientOf[t]) = Head(srvWaitList)
  BY <1>9 DEF RetryReachesFront
<1>11. \A v \in RetryPlace, b \in Clients : RetryAt(v, b) => v = "toRetry" /\ b = ClientOf[t]
  BY <1>9 DEF RetryReachesFront
<1>12. ClientOf[t] \in Clients /\ RetryFor("reacquire", ClientOf[t])' = Head(srvWaitList')
  BY <1>10 DEF AcquireRetryNow, RetryFor
<1>13. RetryAt("reacquire", ClientOf[t])'
  BY <1>12 DEF AcquireRetryNow, SendAcquire, RetryAt, Reacquiring
<1>14. \A v \in RetryPlace, b \in Clients : RetryAt(v, b)' => v = "reacquire" /\ b = ClientOf[t]
  BY <1>11, <1>12 DEF AcquireRetryNow, SendAcquire, RetryAt, Reacquiring
<1>15. srvState' = "FREE" /\ srvWaitList' # <<>> /\ "reacquire" \in RetryPlace
  BY <1>10 DEF AcquireRetryNow, RetryPlace
<1>16. RetryReachesFront'
  BY <1>12, <1>13, <1>14, <1>15, RetryMoved
<1>17. QueueSound'
  BY <1>2, SMTT(90) DEF AcquireRetryNow, QueueSound
<1>18. QueuedOnce'
  BY SMTT(90) DEF AcquireRetryNow, SendAcquire, QueuedOnce, Reacquiring
<1>19. ReacquirePending'
  BY DEF AcquireRetryNow, SendAcquire, ReacquirePending
<1>20. QED
  BY <1>1, <1>3, <1>4, <1>5, <1>6, <1>8, <1>16, <1>17, <1>18, <1>19

\* The thread that sleeps for its retry stays the only active one.
LEMMA AcquireRetryLaterInvariant ==
  ASSUME RpcMayFail = FALSE, IInv, NEW t \in Threads, AcquireRetryLater(t)
  PROVE  Consistent'
<1> USE DEF Consistent, clientVars, serverVars, rpcVars
<1> Consistent
  BY DEF IInv
<1>0. /\ pc \in [Threads -> ThreadPC]
      /\ acq \in [Clients -> AcqRpc]
      /\ srvWaitList \in Seq(Clients)
  BY DEF IInv, TypeOK
<1> USE <1>0
<1>1. ServerRecord'
  BY Frame DEF AcquireRetryLater
<1>2. \A b \in Clients : Owns(b)' <=> Owns(b)
  BY SMTT(90) DEF AcquireRetryLater, Owns
<1>3. NoRpcError'
  BY DEF AcquireRetryLater, NoRpcError
<1>4. ActiveMatchesState'
  BY SMTT(90) DEF AcquireRetryLater, ActiveMatchesState, ActivePC, AcqPC, RelPC
<1>5. RpcMatchesState'
  BY SMTT(90) DEF AcquireRetryLater, RpcMatchesState
<1>6. HolderAgreement'
  BY <1>2 DEF AcquireRetryLater, HolderAgreement
<1>7. \A v \in RevokePlace, b \in Clients : RevokeAt(v, b)' <=> RevokeAt(v, b)
  BY SMTT(90) DEF AcquireRetryLater, RevokeAt
<1>8. RevokeReachesHolder'
  BY <1>7, RevokeKept DEF AcquireRetryLater
<1>9. \A v \in RetryPlace, b \in Clients : RetryAt(v, b)' <=> RetryAt(v, b)
  BY SMTT(90) DEF AcquireRetryLater, RetryAt, Reacquiring
<1>10. RetryReachesFront'
  BY <1>9, RetryKept DEF AcquireRetryLater
<1>11. QueueSound'
  BY <1>2, SMTT(90) DEF AcquireRetryLater, QueueSound
<1>12. QueuedOnce'
  BY SMTT(90) DEF AcquireRetryLater, QueuedOnce, Reacquiring
<1>13. ReacquirePending'
  BY DEF AcquireRetryLater, ReacquirePending
<1>14. QED
  BY <1>1, <1>3, <1>4, <1>5, <1>6, <1>8, <1>10, <1>11, <1>12, <1>13

\* The second call's OK turns the grant into the state LOCKED.
LEMMA ReacquireOKInvariant ==
  ASSUME RpcMayFail = FALSE, IInv, NEW t \in Threads, ReacquireOK(t)
  PROVE  Consistent'
<1> USE DEF Consistent, clientVars, serverVars, rpcVars
<1> Consistent
  BY DEF IInv
<1>0. /\ state \in [Clients -> ClientState]
      /\ pc \in [Threads -> ThreadPC]
      /\ acq \in [Clients -> AcqRpc]
      /\ srvWaitList \in Seq(Clients)
  BY DEF IInv, TypeOK
<1> USE <1>0
<1>1. ServerRecord'
  BY Frame DEF ReacquireOK
<1>2. \A b \in Clients : Owns(b)' <=> Owns(b)
  BY SMTT(90) DEF ReacquireOK, Owns
<1>3. NoRpcError'
  BY DEF ReacquireOK, NoRpcError
<1>4. ActiveMatchesState'
  BY SMTT(90) DEF ReacquireOK, ActiveMatchesState, ActivePC, AcqPC, RelPC
<1>5. RpcMatchesState'
  BY SMTT(90) DEF ReacquireOK, RpcMatchesState
<1>6. HolderAgreement'
  BY <1>2 DEF ReacquireOK, HolderAgreement
<1>7. \A v \in RevokePlace, b \in Clients : RevokeAt(v, b)' <=> RevokeAt(v, b)
  BY SMTT(90) DEF ReacquireOK, RevokeAt, RpcMatchesState
<1>8. RevokeReachesHolder'
  BY <1>7, RevokeKept DEF ReacquireOK
<1>9. \A v \in RetryPlace, b \in Clients : RetryAt(v, b)' <=> RetryAt(v, b)
  BY SMTT(90) DEF ReacquireOK, RetryAt, Reacquiring
<1>10. RetryReachesFront'
  BY <1>9, RetryKept DEF ReacquireOK
<1>11. QueueSound'
  BY <1>2, SMTT(90) DEF ReacquireOK, QueueSound, Owns
<1>12. QueuedOnce'
  BY SMTT(90) DEF ReacquireOK, QueuedOnce, Reacquiring
<1>13. ReacquirePending'
  BY DEF ReacquireOK, ReacquirePending, ActiveMatchesState, ActivePC, AcqPC
<1>14. QED
  BY <1>1, <1>3, <1>4, <1>5, <1>6, <1>8, <1>10, <1>11, <1>12, <1>13

\* Without RPC failures acquire never returns without the lock.
LEMMA AcquireFailureInvariant ==
  ASSUME RpcMayFail = FALSE, IInv, NEW t \in Threads, AcquireFailure(t)
  PROVE  Consistent'
<1> USE DEF IInv, Consistent, TypeOK, clientVars, serverVars, rpcVars
<1>1. FALSE
  BY DEF AcquireFailure, NoRpcError, ReacquirePending
<1>2. QED
  BY <1>1
=============================================================================
