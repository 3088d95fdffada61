----------------------- MODULE LockCacheReleaseProofs -----------------------
(***************************************************************************)
(* The release of the lock, at the client and at the server, and the retry *)
(* it makes preserve the inductive invariant of the lock service.          *)
(***************************************************************************)
EXTENDS LockCacheLemmas

USE ConstantsAssumption

-----------------------------------------------------------------------------
(* lock_client_cache::release *)

\* Handing the lock back uses up the noted revoke.
LEMMA ReleaseToServerInvariant ==
  ASSUME RpcMayFail = FALSE, IInv, NEW t \in Threads, ReleaseToServer(t)
  PROVE  Consistent'
<1> USE DEF Consistent, clientVars, serverVars, rpcVars
<1> Consistent
  BY DEF IInv
<1>0. /\ state \in [Clients -> ClientState]
      /\ toRevoke \in [Clients -> BOOLEAN]
      /\ pc \in [Threads -> ThreadPC]
      /\ srvWaitList \in Seq(Clients)
  BY DEF IInv, TypeOK
<1> USE <1>0
<1>1. NoRpcError' /\ ServerRecord'
  BY Frame DEF ReleaseToServer
<1>2. \A b \in Clients : Owns(b)' <=> Owns(b)
  BY DEF ReleaseToServer, Owns, ActiveMatchesState, RpcMatchesState
<1>3. ActiveMatchesState'
  BY DEF ReleaseToServer, ActiveMatchesState, ActivePC, AcqPC
<1>4. RpcMatchesState'
  BY DEF ReleaseToServer, ActiveMatchesState, RpcMatchesState
<1>5. HolderAgreement'
  BY <1>2 DEF ReleaseToServer, HolderAgreement
<1>6. "toRevoke" \in RevokePlace /\ RevokeAt("toRevoke", ClientOf[t])
  BY DEF ReleaseToServer, RevokePlace, RevokeAt
<1>7. srvState = "LOCKED" /\ srvWaitList # <<>> /\ RevokeFor("toRevoke", ClientOf[t]) = srvClient
  BY <1>6 DEF RevokeReachesHolder
<1>8. \A v \in RevokePlace, b \in Clients : RevokeAt(v, b) => v = "toRevoke" /\ b = ClientOf[t]
  BY <1>6 DEF RevokeReachesHolder
<1>9. ClientOf[t] \in Clients /\ RevokeFor("releasing", ClientOf[t])' = srvClient'
  BY <1>7 DEF ReleaseToServer, RevokeFor
<1>10. RevokeAt("releasing", ClientOf[t])'
  BY <1>9 DEF ReleaseToServer, RevokeAt, RpcMatchesState, ActiveMatchesState
<1>11. \A v \in RevokePlace, b \in Clients : RevokeAt(v, b)' => v = "releasing" /\ b = ClientOf[t]
  BY <1>8, <1>9 DEF ReleaseToServer, RevokeAt
<1>12. srvState' = "LOCKED" /\ srvWaitList' # <<>> /\ "releasing" \in RevokePlace
  BY <1>7 DEF ReleaseToServer, RevokePlace
<1>13. RevokeReachesHolder'
  BY <1>9, <1>10, <1>11, <1>12, RevokeMoved
<1>14. \A v \in RetryPlace, b \in Clients : RetryAt(v, b)' <=> RetryAt(v, b)
  BY DEF ReleaseToServer, RetryAt, Reacquiring
<1>15. RetryReachesFront'
  BY <1>14, RetryKept DEF ReleaseToServer
<1>16. QueueSound'
  BY <1>2 DEF ReleaseToServer, QueueSound, Owns, RpcMatchesState
<1>17. QueuedOnce'
  BY DEF ReleaseToServer, QueuedOnce, Reacquiring
<1>18. ReacquirePending'
  BY DEF ReleaseToServer, ReacquirePending
<1>19. QED
  BY <1>1, <1>3, <1>4, <1>5, <1>13, <1>15, <1>16, <1>17, <1>18

\* A client that keeps the lock cached still owns it.
LEMMA ReleaseToCacheInvariant ==
  ASSUME RpcMayFail = FALSE, IInv, NEW t \in Threads, ReleaseToCache(t)
  PROVE  Consistent'
<1> USE DEF Consistent, clientVars, serverVars, rpcVars
<1> Consistent
  BY DEF IInv
<1>0. /\ state \in [Clients -> ClientState]
      /\ pc \in [Threads -> ThreadPC]
      /\ srvWaitList \in Seq(Clients)
  BY DEF IInv, TypeOK
<1> USE <1>0
<1>1. NoRpcError' /\ ServerRecord'
  BY Frame DEF ReleaseToCache
<1>2. \A b \in Clients : Owns(b)' <=> Owns(b)
  BY DEF ReleaseToCache, Owns, ActiveMatchesState
<1>3. ActiveMatchesState'
  BY DEF ReleaseToCache, ActiveMatchesState, ActivePC, AcqPC, RelPC
<1>4. RpcMatchesState'
  BY DEF ReleaseToCache, ActiveMatchesState, RpcMatchesState
<1>5. HolderAgreement'
  BY <1>2 DEF ReleaseToCache, HolderAgreement
<1>6. \A v \in RevokePlace, b \in Clients : RevokeAt(v, b)' <=> RevokeAt(v, b)
  BY DEF ReleaseToCache, RevokeAt, ActiveMatchesState
<1>7. RevokeReachesHolder'
  BY <1>6, RevokeKept DEF ReleaseToCache
<1>8. \A v \in RetryPlace, b \in Clients : RetryAt(v, b)' <=> RetryAt(v, b)
  BY DEF ReleaseToCache, RetryAt, Reacquiring
<1>9. RetryReachesFront'
  BY <1>8, RetryKept DEF ReleaseToCache
<1>10. QueueSound'
  BY <1>2 DEF ReleaseToCache, QueueSound, Owns
<1>11. QueuedOnce'
  BY DEF ReleaseToCache, QueuedOnce, Reacquiring
<1>12. ReacquirePending'
  BY DEF ReleaseToCache, ReacquirePending
<1>13. QED
  BY <1>1, <1>3, <1>4, <1>5, <1>7, <1>9, <1>10, <1>11, <1>12

\* Waking the waiting threads leaves the client the owner and the revoke noted.
LEMMA ReleaseToWaitersInvariant ==
  ASSUME RpcMayFail = FALSE, IInv, NEW t \in Threads, ReleaseToWaiters(t)
  PROVE  Consistent'
<1> USE DEF Consistent, clientVars, serverVars, rpcVars
<1> Consistent
  BY DEF IInv
<1>0. /\ state \in [Clients -> ClientState]
      /\ pc \in [Threads -> ThreadPC]
      /\ srvWaitList \in Seq(Clients)
  BY DEF IInv, TypeOK
<1> USE <1>0
<1>1. /\ pc'[t] = "idle"
      /\ \A u \in Threads \ {t} : pc'[u] = pc[u] \/ (pc[u] = "sleepLock" /\ pc'[u] = "wokenLock")
  BY DEF ReleaseToWaiters, Broadcast, Sleepers
<1>2. /\ pc[t] = "holding"
      /\ state' = [state EXCEPT ![ClientOf[t]] = "FREE"]
      /\ UNCHANGED <<toRetry, toRevoke, serverVars, rpcVars>>
  BY DEF ReleaseToWaiters
<1>3. /\ \A u \in Threads : pc'[u] \in ActivePC => pc'[u] = pc[u] /\ ClientOf[u] # ClientOf[t]
      /\ \A u \in Threads : pc'[u] = "callReacq" <=> pc[u] = "callReacq"
  BY <1>2, <1>1 DEF ActiveMatchesState, ActivePC, AcqPC, RelPC
<1>4. NoRpcError' /\ ServerRecord'
  BY Frame DEF ReleaseToWaiters
<1>5. \A b \in Clients : Owns(b)' <=> Owns(b)
  BY <1>2, <1>3 DEF Owns, ActiveMatchesState
<1>6. ActiveMatchesState'
  BY <1>2, <1>3 DEF ActiveMatchesState, ActivePC
<1>7. RpcMatchesState'
  BY <1>2, <1>3 DEF ActiveMatchesState, RpcMatchesState, ActivePC, AcqPC, RelPC
<1>8. HolderAgreement'
  BY <1>2, <1>5 DEF HolderAgreement
<1>9. \A v \in RevokePlace, b \in Clients : RevokeAt(v, b)' <=> RevokeAt(v, b)
  BY <1>2, <1>3 DEF RevokeAt, ActiveMatchesState
<1>10. RevokeReachesHolder'
  BY <1>2, <1>9, RevokeKept
<1>11. \A v \in RetryPlace, b \in Clients : RetryAt(v, b)' <=> RetryAt(v, b)
  BY <1>2, <1>3 DEF RetryAt, Reacquiring
<1>12. RetryReachesFront'
  BY <1>2, <1>11, RetryKept
<1>13. QueueSound'
  BY <1>2, <1>5 DEF QueueSound, Owns
<1>14. QueuedOnce'
  BY <1>2, <1>3 DEF QueuedOnce, Reacquiring
<1>15. ReacquirePending'
  BY <1>2, <1>3 DEF ReacquirePending
<1>16. QED
  BY <1>4, <1>6, <1>7, <1>8, <1>10, <1>12, <1>13, <1>14, <1>15

\* The release RPC goes out once.
LEMMA DoReleaseInvariant ==
  ASSUME RpcMayFail = FALSE, IInv, NEW t \in Threads, DoRelease(t)
  PROVE  Consistent'
<1> USE DEF Consistent, clientVars, serverVars, rpcVars
<1> Consistent
  BY DEF IInv
<1>0. /\ pc \in [Threads -> ThreadPC]
      /\ rel \in [Clients -> RelRpc]
      /\ srvWaitList \in Seq(Clients)
  BY DEF IInv, TypeOK
<1> USE <1>0
<1>1. ServerRecord'
  BY Frame DEF DoRelease
<1>2. \A b \in Clients : Owns(b)' <=> Owns(b)
  BY DEF DoRelease, Owns, RpcMatchesState
<1>3. NoRpcError'
  BY DEF DoRelease, NoRpcError
<1>4. ActiveMatchesState'
  BY DEF DoRelease, ActiveMatchesState, ActivePC, AcqPC, RelPC
<1>5. RpcMatchesState'
  BY DEF DoRelease, ActiveMatchesState, RpcMatchesState, ActivePC, RelPC
<1>6. HolderAgreement'
  BY <1>2 DEF DoRelease, HolderAgreement
<1>7. \A v \in RevokePlace, b \in Clients : RevokeAt(v, b)' <=> RevokeAt(v, b)
  BY DEF DoRelease, RevokeAt, RpcMatchesState
<1>8. RevokeReachesHolder'
  BY <1>7, RevokeKept DEF DoRelease
<1>9. \A v \in RetryPlace, b \in Clients : RetryAt(v, b)' <=> RetryAt(v, b)
  BY DEF DoRelease, RetryAt, Reacquiring, RpcMatchesState
<1>10. RetryReachesFront'
  BY <1>9, RetryKept DEF DoRelease
<1>11. QueueSound'
  BY <1>2 DEF DoRelease, QueueSound
<1>12. QueuedOnce'
  BY DEF DoRelease, QueuedOnce, Reacquiring
<1>13. ReacquirePending'
  BY DEF DoRelease, ReacquirePending
<1>14. QED
  BY <1>1, <1>3, <1>4, <1>5, <1>6, <1>8, <1>10, <1>11, <1>12, <1>13

\* When the release has returned the client has neither the lock nor a revoke.
LEMMA ReleaseOKInvariant ==
  ASSUME RpcMayFail = FALSE, IInv, NEW t \in Threads, ReleaseOK(t)
  PROVE  Consistent'
<1> USE DEF Consistent, clientVars, serverVars, rpcVars
<1> Consistent
  BY DEF IInv
<1>0. /\ state \in [Clients -> ClientState]
      /\ pc \in [Threads -> ThreadPC]
      /\ rel \in [Clients -> RelRpc]
      /\ srvWaitList \in Seq(Clients)
  BY DEF IInv, TypeOK
<1> USE <1>0
<1>1. \A u \in Threads :
        IF u = t THEN pc'[u] = "idle"
        ELSE pc'[u] = pc[u] \/ (pc[u] = "sleepAcq" /\ pc'[u] = "wokenAcq")
  BY ReleaseOKEffect DEF IInv
<1>2. /\ pc[t] = "callRel" /\ rel[ClientOf[t]] = "OK"
      /\ rel' = [rel EXCEPT ![ClientOf[t]] = "none"]
      /\ state' = [state EXCEPT ![ClientOf[t]] = "NONE"]
      /\ UNCHANGED <<toRetry, toRevoke, serverVars, acq, rvk, rvkTo, rty, rtyTo>>
  BY DEF ReleaseOK, ReleaseReturns
<1>3. /\ \A u \in Threads : pc'[u] \in ActivePC => pc'[u] = pc[u] /\ ClientOf[u] # ClientOf[t]
      /\ \A u \in Threads : pc'[u] = "callReacq" <=> pc[u] = "callReacq"
  BY <1>2, <1>1 DEF ActiveMatchesState, ActivePC, AcqPC, RelPC
<1>4. ServerRecord'
  BY Frame DEF ReleaseOK, ReleaseReturns
<1>5. \A b \in Clients : Owns(b)' <=> Owns(b)
  BY <1>2, <1>3 DEF Owns, RpcMatchesState
<1>6. NoRpcError'
  BY <1>2, <1>3 DEF NoRpcError
<1>7. ActiveMatchesState'
  BY <1>2, <1>3 DEF ActiveMatchesState, ActivePC, RelPC
<1>8. RpcMatchesState'
  BY <1>2, <1>3 DEF ActiveMatchesState, RpcMatchesState, ActivePC, AcqPC, RelPC
<1>9. HolderAgreement'
  BY <1>2, <1>5 DEF HolderAgreement
<1>10. \A v \in RevokePlace, b \in Clients : RevokeAt(v, b)' <=> RevokeAt(v, b)
  BY <1>2, <1>3 DEF RevokeAt
<1>11. RevokeReachesHolder'
  BY <1>2, <1>10, RevokeKept
<1>12. \A v \in RetryPlace, b \in Clients : RetryAt(v, b)' <=> RetryAt(v, b)
  BY <1>2, <1>3 DEF RetryAt, Reacquiring
<1>13. RetryReachesFront'
  BY <1>2, <1>12, RetryKept
<1>14. QueueSound'
  BY <1>2, <1>5 DEF QueueSound, RpcMatchesState
<1>15. QueuedOnce'
  BY <1>2, <1>3 DEF QueuedOnce, Reacquiring
<1>16. ReacquirePending'
  BY <1>2, <1>3 DEF ReacquirePending
<1>17. QED
  BY <1>4, <1>6, <1>7, <1>8, <1>9, <1>11, <1>13, <1>14, <1>15, <1>16

\* Without RPC failures release is never given up.
LEMMA ReleaseFailureInvariant ==
  ASSUME RpcMayFail = FALSE, IInv, NEW t \in Threads, ReleaseFailure(t)
  PROVE  Consistent'
<1> USE DEF IInv, Consistent, TypeOK, clientVars, serverVars, rpcVars
<1>1. FALSE
  BY DEF ReleaseFailure, ReleaseGivesUp, NoRpcError
<1>2. QED
  BY <1>1

-----------------------------------------------------------------------------
(* lock_server_cache::release, retryCli and lock_client_cache::retry_handler *)

\* A release comes from the owner; it ends the revoke and starts the retry.
LEMMA ServerReleaseInvariant ==
  ASSUME RpcMayFail = FALSE, IInv, NEW c \in Clients, ServerRelease(c)
  PROVE  Consistent'
<1> USE DEF Consistent, clientVars, serverVars, rpcVars
<1> Consistent
  BY DEF IInv
<1>0. /\ rel \in [Clients -> RelRpc]
      /\ srvWaitList \in Seq(Clients)
      /\ rvkTo \in [Clients -> Clients \cup {NoClient}]
      /\ state \in [Clients -> ClientState]
  BY DEF IInv, TypeOK
<1> USE <1>0
<1>1. ActiveMatchesState' /\ QueuedOnce' /\ ReacquirePending'
  BY Frame, Zenon DEF ServerRelease
<1>2. state[c] = "RELEASING" /\ acq[c] = "none"
  <2>1. rel[c] = "request"
    BY Zenon DEF ServerRelease
  <2> QED
    BY <2>1 DEF RpcMatchesState
<1>3. RevokeAt("releasing", c) /\ Owns(c)
  BY <1>2 DEF ServerRelease, RevokeAt, Owns
<1>4. srvState = "LOCKED" /\ srvClient = c /\ srvWaitList # <<>>
  BY <1>3 DEF HolderAgreement, RevokeReachesHolder, RevokePlace
<1>5. \A v \in RevokePlace, b \in Clients : RevokeAt(v, b) => v = "releasing" /\ b = c
  BY <1>3 DEF RevokeReachesHolder, RevokePlace
<1>6. \A v \in RetryPlace, b \in Clients : ~RetryAt(v, b)
  BY <1>4 DEF RetryReachesFront
<1>7. \A b \in Clients : Owns(b)' <=> Owns(b) /\ b # c
  BY <1>2 DEF ServerRelease, Owns
<1>8. NoRpcError'
  BY DEF ServerRelease, NoRpcError
<1>9. RpcMatchesState'
  BY DEF ServerRelease, RpcMatchesState
<1>10. ServerRecord'
  BY DEF ServerRelease, ServerRecord
<1>11. HolderAgreement'
  BY <1>7, <1>4 DEF ServerRelease, HolderAgreement
<1>12. \A v \in RevokePlace, b \in Clients : ~RevokeAt(v, b)'
  BY <1>5 DEF ServerRelease, RevokeAt
<1>13. RevokeReachesHolder'
  BY <1>12, RevokeNone DEF ServerRelease
<1>14. \A v \in RetryPlace, b \in Clients : RetryAt(v, b)' => v = "readFront" /\ b = c
  BY <1>6 DEF ServerRelease, RetryAt, Reacquiring
<1>15. RetryAt("readFront", c)' /\ RetryFor("readFront", c)' = Head(srvWaitList')
  BY <1>4 DEF ServerRelease, RetryAt, RetryFor
<1>16. srvState' = "FREE" /\ srvWaitList' # <<>> /\ "readFront" \in RetryPlace
  BY <1>4 DEF ServerRelease, RetryPlace
<1>17. RetryReachesFront'
  BY <1>14, <1>15, <1>16, RetryMoved
<1>18. QueueSound'
  BY <1>7 DEF ServerRelease, QueueSound
<1>19. QED
  BY <1>1, <1>8, <1>9, <1>10, <1>11, <1>13, <1>17, <1>18

\* The front read after the unlock is still the front.
LEMMA ServerReadFrontInvariant ==
  ASSUME RpcMayFail = FALSE, IInv, NEW c \in Clients, ServerReadFront(c)
  PROVE  Consistent'
<1> USE DEF Consistent, clientVars, serverVars, rpcVars
<1> Consistent
  BY DEF IInv
<1>0. /\ rel \in [Clients -> RelRpc]
      /\ rty \in [Clients -> RtyRpc]
      /\ rtyTo \in [Clients -> Clients \cup {NoClient}]
      /\ srvWaitList \in Seq(Clients)
      /\ rvkTo \in [Clients -> Clients \cup {NoClient}]
  BY DEF IInv, TypeOK
<1> USE <1>0
<1>1. ActiveMatchesState' /\ ServerRecord' /\ QueuedOnce' /\ ReacquirePending'
  BY Frame DEF ServerReadFront
<1>2. \A b \in Clients : Owns(b)' <=> Owns(b)
  BY DEF ServerReadFront, Owns
<1>3. NoRpcError'
  BY DEF ServerReadFront, NoRpcError
<1>4. RpcMatchesState'
  BY DEF ServerReadFront, RpcMatchesState
<1>5. HolderAgreement'
  BY <1>2 DEF ServerReadFront, HolderAgreement
<1>6. \A v \in RevokePlace, b \in Clients : RevokeAt(v, b)' <=> RevokeAt(v, b)
  BY DEF ServerReadFront, RevokeAt
<1>7. RevokeReachesHolder'
  BY <1>6, RevokeKept DEF ServerReadFront
<1>8. "readFront" \in RetryPlace /\ RetryAt("readFront", c)
  BY DEF ServerReadFront, RetryPlace, RetryAt
<1>9. srvState = "FREE" /\ srvWaitList # <<>> /\ RetryFor("readFront", c) = Head(srvWaitList)
  BY <1>8 DEF RetryReachesFront
<1>10. \A v \in RetryPlace, b \in Clients : RetryAt(v, b) => v = "readFront" /\ b = c
  BY <1>8 DEF RetryReachesFront
<1>11. c \in Clients /\ RetryFor("request", c)' = Head(srvWaitList')
  BY <1>9 DEF ServerReadFront, RetryFor
<1>12. RetryAt("request", c)'
  BY <1>11 DEF ServerReadFront, RetryAt
<1>13. \A v \in RetryPlace, b \in Clients : RetryAt(v, b)' => v = "request" /\ b = c
  BY <1>10, <1>11 DEF ServerReadFront, RetryAt, Reacquiring
<1>14. srvState' = "FREE" /\ srvWaitList' # <<>> /\ "request" \in RetryPlace
  BY <1>9 DEF ServerReadFront, RetryPlace
<1>15. RetryReachesFront'
  BY <1>11, <1>12, <1>13, <1>14, RetryMoved
<1>16. QueueSound'
  BY <1>2 DEF ServerReadFront, QueueSound
<1>17. QED
  BY <1>1, <1>3, <1>4, <1>5, <1>7, <1>15, <1>16

\* The retry is noted at the front of the queue.
LEMMA RetryInvariant ==
  ASSUME RpcMayFail = FALSE, IInv, NEW c \in Clients, Retry(c)
  PROVE  Consistent'
<1> USE DEF Consistent, clientVars, serverVars, rpcVars
<1> Consistent
  BY DEF IInv
<1>0. /\ toRetry \in [Clients -> BOOLEAN]
      /\ pc \in [Threads -> ThreadPC]
      /\ rty \in [Clients -> RtyRpc]
      /\ srvWaitList \in Seq(Clients)
  BY DEF IInv, TypeOK
<1> USE <1>0
<1>1. \A u \in Threads : pc'[u] = pc[u] \/ (pc[u] = "sleepRetry" /\ pc'[u] = "wokenRetry")
  BY RetryEffect DEF IInv
<1>2. /\ rty[c] = "request" /\ rty' = [rty EXCEPT ![c] = "OK"]
      /\ toRetry' = [toRetry EXCEPT ![rtyTo[c]] = TRUE]
      /\ UNCHANGED <<state, toRevoke, serverVars, acq, rel, rvk, rvkTo, rtyTo>>
  BY Zenon DEF Retry
<1>3. NoRpcError' /\ ServerRecord' /\ HolderAgreement' /\ RevokeReachesHolder' /\ QueueSound'
  BY Frame, Zenon DEF Retry
<1>4. ActiveMatchesState'
  <2>1. \A u \in Threads : /\ (pc'[u] \in AcqPC) <=> (pc[u] \in AcqPC)
                           /\ (pc'[u] \in RelPC) <=> (pc[u] \in RelPC)
                           /\ (pc'[u] = "holding") <=> (pc[u] = "holding")
    BY <1>1 DEF AcqPC, RelPC
  <2>2. \A u \in Threads : (pc'[u] \in ActivePC) <=> (pc[u] \in ActivePC)
    BY <2>1, Zenon DEF ActivePC
  <2>3. state' = state /\ rvk' = rvk /\ rvkTo' = rvkTo
    BY <1>2
  <2> QED
    BY <2>1, <2>2, <2>3, Zenon DEF ActiveMatchesState
<1>5. RpcMatchesState'
  BY <1>2, <1>1 DEF RpcMatchesState
<1>6. "request" \in RetryPlace /\ RetryAt("request", c)
  BY <1>2 DEF RetryPlace, RetryAt
<1>7. srvState = "FREE" /\ srvWaitList # <<>> /\ RetryFor("request", c) = Head(srvWaitList)
  BY <1>6 DEF RetryReachesFront
<1>8. \A v \in RetryPlace, b \in Clients : RetryAt(v, b) => v = "request" /\ b = c
  BY <1>6 DEF RetryReachesFront
<1>9. PICK d \in Clients : d = rtyTo[c]
  BY <1>7 DEF RetryFor
<1>10. d \in Clients /\ RetryFor("toRetry", d)' = Head(srvWaitList')
  BY <1>2, <1>7, <1>9 DEF RetryFor
<1>11. RetryAt("toRetry", d)'
  BY <1>2, <1>10, <1>9 DEF RetryAt, Reacquiring
<1>12. \A v \in RetryPlace, b \in Clients : RetryAt(v, b)' => v = "toRetry" /\ b = d
  BY <1>2, <1>1, <1>8, <1>10, <1>9 DEF RetryAt, Reacquiring
<1>13. srvState' = "FREE" /\ srvWaitList' # <<>> /\ "toRetry" \in RetryPlace
  BY <1>2, <1>7 DEF RetryPlace
<1>14. RetryReachesFront'
  BY <1>10, <1>11, <1>12, <1>13, RetryMoved
<1>15. QueuedOnce'
  <2>1. \A u \in Threads : Reacquiring(u)' <=> Reacquiring(u)
    BY <1>1, <1>2 DEF Reacquiring
  <2>2. acq' = acq /\ srvWaitList' = srvWaitList
    BY <1>2
  <2> QED
    BY <2>1, <2>2, Zenon DEF QueuedOnce
<1>16. ReacquirePending'
  BY <1>2, <1>1 DEF ReacquirePending
<1>17. QED
  BY <1>3, <1>4, <1>5, <1>14, <1>15, <1>16

\* The answer to the retry, or its failure, ends the release.
LEMMA RetryReturnsInvariant ==
  ASSUME RpcMayFail = FALSE, IInv, NEW c \in Clients,
         rty[c] \in {"OK", "RPCERR"}, RetryReturns(c)
  PROVE  Consistent'
<1> USE DEF Consistent, clientVars, serverVars, rpcVars
<1> Consistent
  BY DEF IInv
<1>0. /\ rel \in [Clients -> RelRpc]
      /\ rty \in [Clients -> RtyRpc]
      /\ rtyTo \in [Clients -> Clients \cup {NoClient}]
      /\ srvWaitList \in Seq(Clients)
      /\ rvkTo \in [Clients -> Clients \cup {NoClient}]
  BY DEF IInv, TypeOK
<1> USE <1>0
<1>1. ActiveMatchesState' /\ ServerRecord' /\ QueuedOnce' /\ ReacquirePending'
  BY Frame, Zenon DEF RetryReturns
<1>2. rel[c] = "retrying"
  BY Zenon DEF RpcMatchesState
<1>r. /\ rel' = [rel EXCEPT ![c] = "OK"]
      /\ rty' = [rty EXCEPT ![c] = "none"]
      /\ rtyTo' = [rtyTo EXCEPT ![c] = NoClient]
  BY Zenon DEF RetryReturns
<1>u. /\ state' = state /\ toRetry' = toRetry /\ toRevoke' = toRevoke /\ pc' = pc
      /\ acq' = acq /\ rvk' = rvk /\ rvkTo' = rvkTo
  BY Zenon DEF RetryReturns
<1>s. srvState' = srvState /\ srvClient' = srvClient /\ srvWaitList' = srvWaitList
  BY Zenon DEF RetryReturns
<1>3. \A b \in Clients : Owns(b)' <=> Owns(b)
  BY <1>2, <1>r, <1>u DEF Owns
<1>4. NoRpcError'
  BY <1>r, <1>u DEF NoRpcError
<1>5. RpcMatchesState'
  BY <1>2, <1>r, <1>u DEF RpcMatchesState
<1>6. HolderAgreement'
  BY <1>3, <1>s, Zenon DEF HolderAgreement
<1>7. \A v \in RevokePlace, b \in Clients : RevokeAt(v, b)' <=> RevokeAt(v, b)
  BY <1>2, <1>r, <1>u, <1>s DEF RevokeAt
<1>8. RevokeReachesHolder'
  BY <1>7, <1>u, <1>s, RevokeKept, Zenon
<1>9. \A v \in RetryPlace, b \in Clients : RetryAt(v, b)' <=> RetryAt(v, b)
  <2>1. \A t \in Threads : Reacquiring(t)' <=> Reacquiring(t)
    BY <1>u, Zenon DEF Reacquiring
  <2>2. \A b \in Clients : (rel[b] = "readFront")' <=> rel[b] = "readFront"
    BY <1>2, <1>r
  <2>3. \A b \in Clients : (rty[b] = "request")' <=> rty[b] = "request"
    BY <1>r
  <2> QED
    BY <1>u, <2>1, <2>2, <2>3, Zenon DEF RetryAt
<1>10. RetryReachesFront'
  BY <1>9, <1>r, <1>s, RetryKept
<1>11. QueueSound'
  BY <1>3, <1>u, <1>s DEF QueueSound
<1>12. QED
  BY <1>1, <1>4, <1>5, <1>6, <1>8, <1>10, <1>11
=============================================================================
