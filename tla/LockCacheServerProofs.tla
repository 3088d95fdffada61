------------------------ MODULE LockCacheServerProofs -----------------------
(***************************************************************************)
(* lock_server_cache::acquire and the revoke it makes preserve the         *)
(* inductive invariant of the lock service.                                *)
(***************************************************************************)
EXTENDS LockCacheLemmas

USE ConstantsAssumption

-----------------------------------------------------------------------------
(* lock_server_cache::acquire *)

\* A lock nobody waits for is granted with no revoke and no retry under way.
LEMMA ServerAcquireFreeInvariant ==
  ASSUME RpcMayFail = FALSE, IInv, NEW c \in Clients, ServerAcquireFree(c)
  PROVE  Consistent'
<1> USE DEF Consistent, clientVars, serverVars, rpcVars
<1> Consistent
  BY DEF IInv
<1>0. /\ acq \in [Clients -> AcqRpc]
      /\ srvWaitList \in Seq(Clients)
  BY DEF IInv, TypeOK
<1> USE <1>0
<1>1. ActiveMatchesState'
  BY Frame DEF ServerAcquireFree, Grant
<1>2. srvState # "LOCKED" /\ srvWaitList = <<>>
  BY DEF ServerAcquireFree, ServerRecord
<1>3. \A v \in RevokePlace, b \in Clients : ~RevokeAt(v, b)
  BY <1>2 DEF RevokeReachesHolder
<1>4. \A v \in RetryPlace, b \in Clients : ~RetryAt(v, b)
  BY <1>2 DEF RetryReachesFront
<1>5. NoRpcError'
  BY <1>2 DEF ServerAcquireFree, NoRpcError
<1>6. RpcMatchesState'
  BY SMTT(90) DEF ServerAcquireFree, RpcMatchesState
<1>7. ServerRecord'
  BY DEF ServerAcquireFree, Grant, ServerRecord
<1>8. HolderAgreement'
  BY DEF ServerAcquireFree, Grant, HolderAgreement, Owns
<1>9. \A v \in RevokePlace, b \in Clients : ~RevokeAt(v, b)'
  BY <1>3 DEF ServerAcquireFree, RevokeAt
<1>10. srvWaitList' = <<>>
  BY <1>2 DEF ServerAcquireFree, Grant
<1>11. RevokeReachesHolder'
  BY <1>9, <1>10, RevokeNone
<1>12. \A v \in RetryPlace, b \in Clients : ~RetryAt(v, b)'
  BY <1>4 DEF ServerAcquireFree, RetryAt, Reacquiring
<1>13. RetryReachesFront'
  BY <1>12, RetryNone DEF ServerAcquireFree, Grant
<1>14. QueueSound'
  BY SMTT(90) DEF ServerAcquireFree, QueueSound, ServerRecord
<1>15. QueuedOnce'
  BY SMTT(90) DEF ServerAcquireFree, QueuedOnce, Reacquiring
<1>16. ReacquirePending'
  BY <1>2 DEF ServerAcquireFree, ReacquirePending
<1>17. QED
  BY <1>1, <1>5, <1>6, <1>7, <1>8, <1>11, <1>13, <1>14, <1>15, <1>16

\* The first client to queue behind a holder, and only the first, starts a revoke.
LEMMA ServerAcquireLockedInvariant ==
  ASSUME RpcMayFail = FALSE, IInv, NEW c \in Clients, ServerAcquireLocked(c)
  PROVE  Consistent'
<1> USE DEF Consistent, clientVars, serverVars, rpcVars
<1> Consistent
  BY DEF IInv
<1>0. /\ srvWaitList \in Seq(Clients)
      /\ acq \in [Clients -> AcqRpc]
  BY DEF IInv, TypeOK
<1> USE <1>0
<1>1. ActiveMatchesState'
  BY Frame DEF ServerAcquireLocked
<1>2. \A u \in Threads : ClientOf[u] = c => pc[u] # "callReacq"
  BY ReacquireFront DEF ServerAcquireLocked, Reacquiring
<1>3. acq[c] = "request"
  BY DEF ServerAcquireLocked
<1>4. \A i \in 1..Len(srvWaitList) : srvWaitList[i] # c
  BY <1>3, <1>2 DEF QueuedOnce, Reacquiring
<1>5. srvWaitList' # <<>> /\ (srvWaitList # <<>> => Head(srvWaitList') = Head(srvWaitList))
  BY DEF ServerAcquireLocked
<1>6. \A v \in RetryPlace, b \in Clients : ~RetryAt(v, b)
  BY DEF ServerAcquireLocked, RetryReachesFront
<1>7. \A b \in Clients : Owns(b)' <=> Owns(b)
  BY SMTT(90) DEF ServerAcquireLocked, Owns
<1>8. NoRpcError'
  BY DEF ServerAcquireLocked, NoRpcError
<1>9. RpcMatchesState'
  BY SMTT(90) DEF ServerAcquireLocked, RpcMatchesState
<1>10. ServerRecord'
  BY DEF ServerAcquireLocked, ServerRecord
<1>11. HolderAgreement'
  BY <1>7 DEF ServerAcquireLocked, HolderAgreement
<1>12. RevokeReachesHolder'
  <2>1. CASE srvWaitList = <<>>
    <3>1. \A v \in RevokePlace, b \in Clients : ~RevokeAt(v, b)
      BY <2>1 DEF RevokeReachesHolder
    <3>2. \A v \in RevokePlace, b \in Clients : RevokeAt(v, b)' => v = "readHolder" /\ b = c
  BY <2>1, <3>1 DEF ServerAcquireLocked, RevokeAt
    <3>3. RevokeAt("readHolder", c)' /\ RevokeFor("readHolder", c)' = srvClient'
  BY <2>1 DEF ServerAcquireLocked, RevokeAt, RevokeFor
    <3>4. srvState' = "LOCKED" /\ srvWaitList' # <<>> /\ "readHolder" \in RevokePlace
      BY DEF ServerAcquireLocked, RevokePlace
    <3>5. QED
      BY <3>2, <3>3, <3>4, RevokeMoved
  <2>2. CASE srvWaitList # <<>>
    <3>1. \A v \in RevokePlace, b \in Clients : RevokeAt(v, b)' <=> RevokeAt(v, b)
  BY <2>2 DEF ServerAcquireLocked, RevokeAt
    <3>2. srvWaitList' # <<>>
      BY DEF ServerAcquireLocked
    <3>3. QED
      BY <2>2, <3>1, <3>2, RevokeKept DEF ServerAcquireLocked
  <2>3. QED
    BY <2>1, <2>2
<1>13. \A v \in RetryPlace, b \in Clients : ~RetryAt(v, b)'
  BY <1>6 DEF ServerAcquireLocked, RetryAt, Reacquiring
<1>14. RetryReachesFront'
  BY <1>13, RetryNone DEF ServerAcquireLocked
<1>15. /\ Len(srvWaitList') = Len(srvWaitList) + 1
      /\ \A i \in 1..Len(srvWaitList') :
           srvWaitList'[i] = IF i <= Len(srvWaitList) THEN srvWaitList[i] ELSE c
  BY DEF ServerAcquireLocked
<1>16. state[c] = "ACQUIRING" /\ ~Owns(c)
  BY DEF ServerAcquireLocked, Owns, RpcMatchesState
<1>17. QueueSound'
  BY <1>7, <1>15, <1>16, <1>4, SMTT(90) DEF ServerAcquireLocked, QueueSound
<1>18. QueuedOnce'
  BY SMTT(90) DEF ServerAcquireLocked, QueuedOnce, Reacquiring
<1>19. ReacquirePending'
  BY <1>2 DEF ServerAcquireLocked, ReacquirePending
<1>20. QED
  BY <1>1, <1>8, <1>9, <1>10, <1>11, <1>12, <1>14, <1>17, <1>18, <1>19

\* A client that comes while the lock is reserved is not the one that was retried.
LEMMA ServerAcquireBehindInvariant ==
  ASSUME RpcMayFail = FALSE, IInv, NEW c \in Clients, ServerAcquireBehind(c)
  PROVE  Consistent'
<1> USE DEF Consistent, clientVars, serverVars, rpcVars
<1> Consistent
  BY DEF IInv
<1>0. /\ srvWaitList \in Seq(Clients)
      /\ acq \in [Clients -> AcqRpc]
  BY DEF IInv, TypeOK
<1> USE <1>0
<1>1. ActiveMatchesState'
  BY Frame DEF ServerAcquireBehind
<1>2. \A u \in Threads : ClientOf[u] = c => pc[u] # "callReacq"
  BY ReacquireFront DEF ServerAcquireBehind, Reacquiring
<1>3. acq[c] = "request"
  BY DEF ServerAcquireBehind
<1>4. \A i \in 1..Len(srvWaitList) : srvWaitList[i] # c
  BY <1>3, <1>2 DEF QueuedOnce, Reacquiring
<1>5. srvWaitList' # <<>> /\ (srvWaitList # <<>> => Head(srvWaitList') = Head(srvWaitList))
  BY DEF ServerAcquireBehind
<1>6. \A b \in Clients : Owns(b)' <=> Owns(b)
  BY SMTT(90) DEF ServerAcquireBehind, Owns
<1>7. NoRpcError'
  BY DEF ServerAcquireBehind, NoRpcError
<1>8. RpcMatchesState'
  BY SMTT(90) DEF ServerAcquireBehind, RpcMatchesState
<1>9. ServerRecord'
  BY DEF ServerAcquireBehind, ServerRecord
<1>10. HolderAgreement'
  BY <1>6 DEF ServerAcquireBehind, HolderAgreement
<1>11. \A v \in RevokePlace, b \in Clients : RevokeAt(v, b)' <=> RevokeAt(v, b)
  BY SMTT(90) DEF ServerAcquireBehind, RevokeAt
<1>12. RevokeReachesHolder'
  BY <1>11, <1>5, RevokeKept DEF ServerAcquireBehind
<1>13. \A v \in RetryPlace, b \in Clients : RetryAt(v, b)' <=> RetryAt(v, b)
  BY <1>2, SMTT(90) DEF ServerAcquireBehind, RetryAt, Reacquiring
<1>14. RetryReachesFront'
  BY <1>13, <1>5, RetryKept DEF ServerAcquireBehind
<1>15. /\ Len(srvWaitList') = Len(srvWaitList) + 1
      /\ \A i \in 1..Len(srvWaitList') :
           srvWaitList'[i] = IF i <= Len(srvWaitList) THEN srvWaitList[i] ELSE c
  BY DEF ServerAcquireBehind
<1>16. state[c] = "ACQUIRING" /\ ~Owns(c)
  BY DEF ServerAcquireBehind, Owns, RpcMatchesState
<1>17. QueueSound'
  BY <1>6, <1>15, <1>16, <1>4, SMTT(90) DEF ServerAcquireBehind, QueueSound
<1>18. QueuedOnce'
  BY SMTT(90) DEF ServerAcquireBehind, QueuedOnce, Reacquiring
<1>19. ReacquirePending'
  BY <1>2 DEF ServerAcquireBehind, ReacquirePending
<1>20. QED
  BY <1>1, <1>7, <1>8, <1>9, <1>10, <1>12, <1>14, <1>17, <1>18, <1>19

\* The grant to the front of the queue uses up the retry.
LEMMA ServerAcquireFrontInvariant ==
  ASSUME RpcMayFail = FALSE, IInv, NEW c \in Clients, ServerAcquireFront(c)
  PROVE  Consistent'
<1> USE DEF Consistent, clientVars, serverVars, rpcVars
<1> Consistent
  BY DEF IInv
<1>0. /\ srvWaitList \in Seq(Clients)
      /\ acq \in [Clients -> AcqRpc]
  BY DEF IInv, TypeOK
<1> USE <1>0
<1>1. ActiveMatchesState'
  BY Frame DEF ServerAcquireFront, Grant
<1>2. \A v \in RevokePlace, b \in Clients : ~RevokeAt(v, b)
  BY DEF ServerAcquireFront, RevokeReachesHolder
<1>3. srvWaitList[1] = c /\ 1 \in 1..Len(srvWaitList)
  BY DEF ServerAcquireFront, Grant
<1>4. \E u \in Threads : ClientOf[u] = c /\ Reacquiring(u)
  BY <1>3 DEF ServerAcquireFront, QueuedOnce
<1>5. \A v \in RetryPlace, b \in Clients : RetryAt(v, b) => v = "reacquire" /\ b = c
  BY <1>4, ReacquireFront
<1>6. NoRpcError'
  BY <1>3 DEF ServerAcquireFront, NoRpcError
<1>7. RpcMatchesState'
  BY SMTT(90) DEF ServerAcquireFront, RpcMatchesState
<1>8. ServerRecord'
  BY DEF ServerAcquireFront, Grant, ServerRecord
<1>9. HolderAgreement'
  BY DEF ServerAcquireFront, Grant, HolderAgreement, Owns
<1>10. \A v \in RevokePlace, b \in Clients : ~RevokeAt(v, b)'
  BY <1>2 DEF ServerAcquireFront, RevokeAt
<1>11. srvWaitList' = <<>>
  BY <1>3 DEF ServerAcquireFront, Grant
<1>12. RevokeReachesHolder'
  BY <1>10, <1>11, RevokeNone
<1>13. \A v \in RetryPlace, b \in Clients : ~RetryAt(v, b)'
  BY <1>5 DEF ServerAcquireFront, RetryAt, Reacquiring
<1>14. RetryReachesFront'
  BY <1>13, RetryNone DEF ServerAcquireFront, Grant
<1>15. QueueSound'
  BY SMTT(90) DEF ServerAcquireFront, QueueSound
<1>16. QueuedOnce'
  BY SMTT(90) DEF ServerAcquireFront, QueuedOnce
<1>17. ReacquirePending'
  BY <1>3 DEF ServerAcquireFront, ReacquirePending
<1>18. QED
  BY <1>1, <1>6, <1>7, <1>8, <1>9, <1>12, <1>14, <1>15, <1>16, <1>17

\* The grant to the front uses up the retry and starts the revoke of its tenure.
LEMMA ServerAcquireFrontRevokeInvariant ==
  ASSUME RpcMayFail = FALSE, IInv, NEW c \in Clients, ServerAcquireFrontRevoke(c)
  PROVE  Consistent'
<1> USE DEF Consistent, clientVars, serverVars, rpcVars
<1> Consistent
  BY DEF IInv
<1>0. /\ srvWaitList \in Seq(Clients)
      /\ acq \in [Clients -> AcqRpc]
      /\ rvk \in [Clients -> RvkRpc]
      /\ rvkTo \in [Clients -> Clients \cup {NoClient}]
  BY DEF IInv, TypeOK
<1> USE <1>0
<1>1. \A v \in RevokePlace, b \in Clients : ~RevokeAt(v, b)
  BY DEF ServerAcquireFrontRevoke, RevokeReachesHolder
<1>2. srvWaitList[1] = c /\ 1 \in 1..Len(srvWaitList)
  BY DEF ServerAcquireFrontRevoke, Grant
<1>3. \E u \in Threads : ClientOf[u] = c /\ Reacquiring(u)
  BY <1>2 DEF ServerAcquireFrontRevoke, QueuedOnce
<1>4. \A v \in RetryPlace, b \in Clients : RetryAt(v, b) => v = "reacquire" /\ b = c
  BY <1>3, ReacquireFront
<1>5. NoRpcError'
  BY <1>2 DEF ServerAcquireFrontRevoke, NoRpcError
<1>6. ActiveMatchesState'
  BY SMTT(90) DEF ServerAcquireFrontRevoke, ActiveMatchesState, RelPC
<1>7. RpcMatchesState'
  BY SMTT(90) DEF ServerAcquireFrontRevoke, RpcMatchesState
<1>8. ServerRecord'
  BY DEF ServerAcquireFrontRevoke, Grant, ServerRecord
<1>9. HolderAgreement'
  BY DEF ServerAcquireFrontRevoke, Grant, HolderAgreement, Owns
<1>10. \A v \in RevokePlace, b \in Clients : RevokeAt(v, b)' => v = "request" /\ b = c
  BY <1>1 DEF ServerAcquireFrontRevoke, RevokeAt
<1>11. RevokeAt("request", c)' /\ RevokeFor("request", c)' = srvClient'
  BY DEF ServerAcquireFrontRevoke, Grant, RevokeAt, RevokeFor
<1>12. Len(srvWaitList) > 1 /\ srvWaitList' = Tail(srvWaitList)
  BY DEF ServerAcquireFrontRevoke, Grant
<1>13. srvWaitList' # <<>>
  BY <1>12, TailNonEmpty
<1>14. srvState' = "LOCKED" /\ "request" \in RevokePlace
  BY DEF ServerAcquireFrontRevoke, Grant, RevokePlace
<1>15. RevokeReachesHolder'
  BY <1>10, <1>11, <1>13, <1>14, RevokeMoved
<1>16. \A v \in RetryPlace, b \in Clients : ~RetryAt(v, b)'
  BY <1>4 DEF ServerAcquireFrontRevoke, RetryAt, Reacquiring
<1>17. RetryReachesFront'
  BY <1>16, RetryNone DEF ServerAcquireFrontRevoke, Grant
<1>18. QueueSound'
  BY SMTT(90) DEF ServerAcquireFrontRevoke, QueueSound, Owns
<1>19. QueuedOnce'
  BY SMTT(90) DEF ServerAcquireFrontRevoke, QueuedOnce, Reacquiring
<1>20. ReacquirePending'
  BY <1>2 DEF ServerAcquireFrontRevoke, ReacquirePending
<1>21. QED
  BY <1>5, <1>6, <1>7, <1>8, <1>9, <1>15, <1>17, <1>18, <1>19, <1>20

-----------------------------------------------------------------------------
(* lock_server_cache::revokeLock and lock_client_cache::revoke_handler *)

\* The clientId read after the unlock is still the holder's.
LEMMA ServerReadHolderInvariant ==
  ASSUME RpcMayFail = FALSE, IInv, NEW c \in Clients, ServerReadHolder(c)
  PROVE  Consistent'
<1> USE DEF Consistent, clientVars, serverVars, rpcVars
<1> Consistent
  BY DEF IInv
<1>0. /\ acq \in [Clients -> AcqRpc]
      /\ rvk \in [Clients -> RvkRpc]
      /\ rvkTo \in [Clients -> Clients \cup {NoClient}]
      /\ srvWaitList \in Seq(Clients)
  BY DEF IInv, TypeOK
<1> USE <1>0
<1>1. ServerRecord'
  BY Frame DEF ServerReadHolder
<1>2. "readHolder" \in RevokePlace /\ RevokeAt("readHolder", c)
  BY Zenon DEF ServerReadHolder, RevokePlace, RevokeAt
<1>3. srvClient \in Clients /\ srvClient # NoClient
  BY <1>2 DEF RevokeReachesHolder, ServerRecord
<1>4. \A b \in Clients : Owns(b)' <=> Owns(b)
  BY SMTT(90) DEF ServerReadHolder, Owns
<1>5. NoRpcError'
  BY <1>3, <1>2 DEF ServerReadHolder, NoRpcError
<1>6. ActiveMatchesState'
  BY SMTT(90) DEF ServerReadHolder, ActiveMatchesState, RelPC
<1>7. RpcMatchesState'
  BY SMTT(90) DEF ServerReadHolder, RpcMatchesState
<1>8. HolderAgreement'
  BY <1>4 DEF ServerReadHolder, HolderAgreement
<1>9. "readHolder" \in RevokePlace /\ RevokeAt("readHolder", c)
  BY DEF ServerReadHolder, RevokePlace, RevokeAt
<1>10. srvState = "LOCKED" /\ srvWaitList # <<>> /\ RevokeFor("readHolder", c) = srvClient
  BY <1>9 DEF RevokeReachesHolder
<1>11. \A v \in RevokePlace, b \in Clients : RevokeAt(v, b) => v = "readHolder" /\ b = c
  BY <1>9 DEF RevokeReachesHolder
<1>12. c \in Clients /\ RevokeFor("request", c)' = srvClient'
  BY <1>10 DEF ServerReadHolder, RevokeFor
<1>13. RevokeAt("request", c)'
  BY <1>12, <1>3 DEF ServerReadHolder, RevokeAt
<1>14. \A v \in RevokePlace, b \in Clients : RevokeAt(v, b)' => v = "request" /\ b = c
  BY <1>11, <1>12 DEF ServerReadHolder, RevokeAt
<1>15. srvState' = "LOCKED" /\ srvWaitList' # <<>> /\ "request" \in RevokePlace
  BY <1>10 DEF ServerReadHolder, RevokePlace
<1>16. RevokeReachesHolder'
  BY <1>12, <1>13, <1>14, <1>15, RevokeMoved
<1>17. \A v \in RetryPlace, b \in Clients : RetryAt(v, b)' <=> RetryAt(v, b)
  BY SMTT(90) DEF ServerReadHolder, RetryAt, Reacquiring
<1>18. RetryReachesFront'
  BY <1>17, RetryKept DEF ServerReadHolder
<1>19. QueueSound'
  BY <1>4, SMTT(90) DEF ServerReadHolder, QueueSound
<1>20. QueuedOnce'
  BY SMTT(90) DEF ServerReadHolder, QueuedOnce, Reacquiring
<1>21. ReacquirePending'
  BY <1>2 DEF ServerReadHolder, ReacquirePending
<1>22. QED
  BY <1>1, <1>5, <1>6, <1>7, <1>8, <1>16, <1>18, <1>19, <1>20, <1>21

\* The handler whose revoke has returned answers OK or RETRY.
LEMMA ServerRevokeReplyInvariant ==
  ASSUME RpcMayFail = FALSE, IInv, NEW c \in Clients, ServerRevokeReply(c)
  PROVE  Consistent'
<1> USE DEF Consistent, clientVars, serverVars, rpcVars
<1> Consistent
  BY DEF IInv
<1>0. /\ acq \in [Clients -> AcqRpc]
      /\ rvk \in [Clients -> RvkRpc]
      /\ rvkTo \in [Clients -> Clients \cup {NoClient}]
      /\ srvWaitList \in Seq(Clients)
  BY DEF IInv, TypeOK
<1> USE <1>0
<1>1. ServerRecord'
  BY Frame DEF ServerRevokeReply
<1>2. acq[c] \in {"revokeForRetry", "revokeForGrant"}
  BY Zenon DEF ServerRevokeReply, RpcMatchesState
<1>3. /\ \A b \in Clients \ {c} : acq'[b] = acq[b]
      /\ acq'[c] = IF acq[c] = "revokeForGrant" THEN "OK" ELSE "RETRY"
  BY <1>2 DEF ServerRevokeReply, NoRpcError
<1>4. \A b \in Clients : Owns(b)' <=> Owns(b)
  BY <1>3, <1>2, SMTT(90) DEF ServerRevokeReply, Owns
<1>5. NoRpcError'
  BY <1>2, <1>3 DEF ServerRevokeReply, NoRpcError
<1>6. ActiveMatchesState'
  BY SMTT(90) DEF ServerRevokeReply, ActiveMatchesState, RelPC
<1>7. RpcMatchesState'
  BY <1>2, <1>3, SMTT(90) DEF ServerRevokeReply, RpcMatchesState
<1>8. HolderAgreement'
  BY <1>4 DEF ServerRevokeReply, HolderAgreement
<1>9. \A v \in RevokePlace, b \in Clients : RevokeAt(v, b)' <=> RevokeAt(v, b)
  BY <1>2, SMTT(90) DEF ServerRevokeReply, RevokeAt
<1>10. RevokeReachesHolder'
  BY <1>9, RevokeKept DEF ServerRevokeReply
<1>11. \A v \in RetryPlace, b \in Clients : RetryAt(v, b)' <=> RetryAt(v, b)
  BY <1>3, <1>2, SMTT(90) DEF ServerRevokeReply, RetryAt, Reacquiring
<1>12. RetryReachesFront'
  BY <1>11, RetryKept DEF ServerRevokeReply
<1>13. QueueSound'
  BY <1>4, SMTT(90) DEF ServerRevokeReply, QueueSound
<1>14. QueuedOnce'
  BY <1>2, <1>3, SMTT(90) DEF ServerRevokeReply, QueuedOnce, Reacquiring
<1>15. ReacquirePending'
  BY <1>2, <1>3 DEF ServerRevokeReply, ReacquirePending
<1>16. QED
  BY <1>1, <1>5, <1>6, <1>7, <1>8, <1>10, <1>12, <1>13, <1>14, <1>15

\* A revoke of a cached, unused lock starts the release.
LEMMA RevokeFreeInvariant ==
  ASSUME RpcMayFail = FALSE, IInv, NEW c \in Clients, RevokeFree(c)
  PROVE  Consistent'
<1> USE DEF Consistent, clientVars, serverVars, rpcVars
<1> Consistent
  BY DEF IInv
<1>0. /\ state \in [Clients -> ClientState]
      /\ toRevoke \in [Clients -> BOOLEAN]
      /\ rvk \in [Clients -> RvkRpc]
      /\ srvWaitList \in Seq(Clients)
      /\ rvkTo \in [Clients -> Clients \cup {NoClient}]
  BY DEF IInv, TypeOK
<1> USE <1>0
<1>e. /\ rvk[c] = "request" /\ state[rvkTo[c]] = "FREE"
      /\ rvk' = [rvk EXCEPT ![c] = "dorelease"]
      /\ state' = [state EXCEPT ![rvkTo[c]] = "RELEASING"]
      /\ toRevoke' = [toRevoke EXCEPT ![rvkTo[c]] = FALSE]
      /\ rel' = rel /\ toRetry' = toRetry
      /\ acq' = acq /\ rvkTo' = rvkTo /\ rty' = rty /\ rtyTo' = rtyTo /\ pc' = pc
      /\ srvState' = srvState /\ srvClient' = srvClient /\ srvWaitList' = srvWaitList
  BY Zenon DEF RevokeFree
<1>1. ServerRecord' /\ RetryReachesFront' /\ QueuedOnce' /\ ReacquirePending'
  BY Frame, Zenon DEF RevokeFree
<1>2. "request" \in RevokePlace /\ RevokeAt("request", c)
  BY <1>e, Zenon DEF RevokePlace, RevokeAt
<1>3. rvkTo[c] \in Clients
  BY <1>2 DEF RevokeReachesHolder, RevokeFor, ServerRecord
<1>4. \A b \in Clients : Owns(b)' <=> Owns(b)
  BY <1>e, <1>3, SMTT(90) DEF Owns, RpcMatchesState
<1>5. NoRpcError'
  BY <1>e, <1>3 DEF NoRpcError
<1>6. ActiveMatchesState'
  BY <1>e, <1>3, SMTT(90) DEF ActiveMatchesState
<1>7. RpcMatchesState'
  BY <1>e, <1>3, SMTT(90) DEF RpcMatchesState
<1>8. HolderAgreement'
  BY <1>e, <1>4 DEF HolderAgreement
<1>9. "request" \in RevokePlace /\ RevokeAt("request", c)
  BY <1>e DEF RevokePlace, RevokeAt
<1>10. srvState = "LOCKED" /\ srvWaitList # <<>> /\ RevokeFor("request", c) = srvClient
  BY <1>9 DEF RevokeReachesHolder
<1>11. \A v \in RevokePlace, b \in Clients : RevokeAt(v, b) => v = "request" /\ b = c
  BY <1>9 DEF RevokeReachesHolder
<1>12. PICK d \in Clients : d = rvkTo[c]
  BY <1>10 DEF RevokeFor, ServerRecord
<1>13. d \in Clients /\ RevokeFor("releasing", d)' = srvClient'
  BY <1>e, <1>10, <1>12 DEF RevokeFor
<1>14. RevokeAt("releasing", d)'
  BY <1>e, <1>13, <1>12 DEF RevokeAt, RpcMatchesState
<1>15. \A v \in RevokePlace, b \in Clients : RevokeAt(v, b)' => v = "releasing" /\ b = d
  BY <1>e, <1>11, <1>13, <1>12 DEF RevokeAt
<1>16. srvState' = "LOCKED" /\ srvWaitList' # <<>> /\ "releasing" \in RevokePlace
  BY <1>e, <1>10 DEF RevokePlace
<1>17. RevokeReachesHolder'
  BY <1>13, <1>14, <1>15, <1>16, RevokeMoved
<1>18. QueueSound'
  BY <1>e, <1>4, SMTT(90) DEF QueueSound
<1>19. QED
  BY <1>1, <1>5, <1>6, <1>7, <1>8, <1>17, <1>18

\* Otherwise it is noted, at the client that owns the lock.
LEMMA RevokeLaterInvariant ==
  ASSUME RpcMayFail = FALSE, IInv, NEW c \in Clients, RevokeLater(c)
  PROVE  Consistent'
<1> USE DEF Consistent, clientVars, serverVars, rpcVars
<1> Consistent
  BY DEF IInv
<1>0. /\ toRevoke \in [Clients -> BOOLEAN]
      /\ rvk \in [Clients -> RvkRpc]
  BY DEF IInv, TypeOK
<1> USE <1>0
<1>e. /\ rvk[c] = "request"
      /\ rvk' = [rvk EXCEPT ![c] = "OK"]
      /\ toRevoke' = [toRevoke EXCEPT ![rvkTo[c]] = TRUE]
      /\ state' = state /\ rel' = rel /\ toRetry' = toRetry
      /\ acq' = acq /\ rvkTo' = rvkTo /\ rty' = rty /\ rtyTo' = rtyTo /\ pc' = pc
      /\ srvState' = srvState /\ srvClient' = srvClient /\ srvWaitList' = srvWaitList
  BY Zenon DEF RevokeLater
<1>1. ServerRecord' /\ HolderAgreement' /\ RetryReachesFront' /\ QueueSound' /\ QueuedOnce' /\ ReacquirePending'
  BY Frame, Zenon DEF RevokeLater
<1>2. NoRpcError'
  BY <1>e, Zenon DEF NoRpcError
<1>3. ActiveMatchesState'
  BY <1>e, SMTT(90) DEF ActiveMatchesState, RelPC
<1>4. RpcMatchesState'
  BY <1>e, SMTT(90) DEF RpcMatchesState
<1>5. "request" \in RevokePlace /\ RevokeAt("request", c)
  BY <1>e DEF RevokePlace, RevokeAt
<1>6. srvState = "LOCKED" /\ srvWaitList # <<>> /\ RevokeFor("request", c) = srvClient
  BY <1>5 DEF RevokeReachesHolder
<1>7. \A v \in RevokePlace, b \in Clients : RevokeAt(v, b) => v = "request" /\ b = c
  BY <1>5 DEF RevokeReachesHolder
<1>8. PICK d \in Clients : d = rvkTo[c]
  BY <1>6 DEF RevokeFor, ServerRecord
<1>9. d \in Clients /\ RevokeFor("toRevoke", d)' = srvClient'
  BY <1>e, <1>6, <1>8 DEF RevokeFor
<1>10. RevokeAt("toRevoke", d)'
  BY <1>e, <1>9, <1>8 DEF RevokeAt
<1>11. \A v \in RevokePlace, b \in Clients : RevokeAt(v, b)' => v = "toRevoke" /\ b = d
  BY <1>e, <1>7, <1>9, <1>8, Zenon DEF RevokeAt
<1>12. srvState' = "LOCKED" /\ srvWaitList' # <<>> /\ "toRevoke" \in RevokePlace
  BY <1>e, <1>6 DEF RevokePlace
<1>13. RevokeReachesHolder'
  BY <1>9, <1>10, <1>11, <1>12, RevokeMoved
<1>14. QED
  BY <1>1, <1>2, <1>3, <1>4, <1>13

\* The revoke handler's release RPC goes out once.
LEMMA RevokeDoReleaseInvariant ==
  ASSUME RpcMayFail = FALSE, IInv, NEW c \in Clients, RevokeDoRelease(c)
  PROVE  Consistent'
<1> USE DEF Consistent, clientVars, serverVars, rpcVars
<1> Consistent
  BY DEF IInv
<1>0. /\ rel \in [Clients -> RelRpc]
      /\ rvk \in [Clients -> RvkRpc]
      /\ srvWaitList \in Seq(Clients)
      /\ rvkTo \in [Clients -> Clients \cup {NoClient}]
  BY DEF IInv, TypeOK
<1> USE <1>0
<1>e. /\ rvk[c] = "dorelease"
      /\ rvk' = [rvk EXCEPT ![c] = "callRel"]
      /\ rel' = [rel EXCEPT ![rvkTo[c]] = "request"]
      /\ state' = state /\ toRetry' = toRetry /\ toRevoke' = toRevoke
      /\ acq' = acq /\ rvkTo' = rvkTo /\ rty' = rty /\ rtyTo' = rtyTo /\ pc' = pc
      /\ srvState' = srvState /\ srvClient' = srvClient /\ srvWaitList' = srvWaitList
  BY Zenon DEF RevokeDoRelease
<1>1. ServerRecord' /\ QueuedOnce' /\ ReacquirePending'
  BY Frame, Zenon DEF RevokeDoRelease
<1>2. \A b \in Clients : Owns(b)' <=> Owns(b)
  BY <1>e, SMTT(90) DEF Owns, RpcMatchesState
<1>3. NoRpcError'
  BY <1>e DEF NoRpcError
<1>4. ActiveMatchesState'
  BY <1>e, SMTT(90) DEF ActiveMatchesState, RelPC
<1>5. RpcMatchesState'
  BY <1>e, SMTT(90) DEF ActiveMatchesState, RpcMatchesState, RelPC
<1>6. HolderAgreement'
  BY <1>e, <1>2 DEF HolderAgreement
<1>7. \A v \in RevokePlace, b \in Clients : RevokeAt(v, b)' <=> RevokeAt(v, b)
  BY <1>e, SMTT(90) DEF RevokeAt, RpcMatchesState
<1>8. RevokeReachesHolder'
  BY <1>e, <1>7, RevokeKept
<1>9. \A v \in RetryPlace, b \in Clients : RetryAt(v, b)' <=> RetryAt(v, b)
  BY <1>e, SMTT(90) DEF RetryAt, Reacquiring, RpcMatchesState
<1>10. RetryReachesFront'
  BY <1>e, <1>9, RetryKept, Zenon
<1>11. QueueSound'
  BY <1>e, <1>2, SMTT(90) DEF QueueSound
<1>12. QED
  BY <1>1, <1>3, <1>4, <1>5, <1>6, <1>8, <1>10, <1>11

\* When it has returned the client has neither the lock nor a revoke.
LEMMA RevokeReleaseOKInvariant ==
  ASSUME RpcMayFail = FALSE, IInv, NEW c \in Clients, RevokeReleaseOK(c)
  PROVE  Consistent'
<1> USE DEF Consistent, clientVars, serverVars, rpcVars
<1> Consistent
  BY DEF IInv
<1>0. /\ state \in [Clients -> ClientState]
      /\ pc \in [Threads -> ThreadPC]
      /\ rel \in [Clients -> RelRpc]
      /\ rvk \in [Clients -> RvkRpc]
      /\ srvWaitList \in Seq(Clients)
      /\ rvkTo \in [Clients -> Clients \cup {NoClient}]
  BY DEF IInv, TypeOK
<1> USE <1>0
<1>1. \A u \in Threads : pc'[u] = pc[u] \/ (pc[u] = "sleepAcq" /\ pc'[u] = "wokenAcq")
  BY ReleaseReturnsEffect DEF RevokeReleaseOK
<1>2. /\ rvk[c] = "callRel" /\ rvkTo[c] \in Clients /\ rel[rvkTo[c]] = "OK"
      /\ rel' = [rel EXCEPT ![rvkTo[c]] = "none"]
      /\ state' = [state EXCEPT ![rvkTo[c]] = "NONE"]
      /\ rvk' = [rvk EXCEPT ![c] = "OK"]
      /\ UNCHANGED <<toRetry, toRevoke, serverVars, acq, rvkTo, rty, rtyTo>>
  BY DEF RevokeReleaseOK, ReleaseReturns, ActiveMatchesState, RelPC
<1>3. ServerRecord'
  BY Frame DEF RevokeReleaseOK, ReleaseReturns
<1>4. \A b \in Clients : Owns(b)' <=> Owns(b)
  BY <1>2, <1>1, SMTT(90) DEF Owns, RpcMatchesState
<1>5. NoRpcError'
  BY <1>2, <1>1 DEF NoRpcError
<1>6. ActiveMatchesState'
  BY <1>2, <1>1, SMTT(90) DEF ActiveMatchesState, ActivePC, AcqPC, RelPC
<1>7. RpcMatchesState'
  BY <1>2, <1>1, SMTT(90) DEF RpcMatchesState
<1>8. HolderAgreement'
  BY <1>2, <1>4 DEF HolderAgreement
<1>9. \A v \in RevokePlace, b \in Clients : RevokeAt(v, b)' <=> RevokeAt(v, b)
  BY <1>2, <1>1, SMTT(90) DEF RevokeAt
<1>10. RevokeReachesHolder'
  BY <1>2, <1>9, RevokeKept
<1>11. \A v \in RetryPlace, b \in Clients : RetryAt(v, b)' <=> RetryAt(v, b)
  BY <1>2, <1>1, SMTT(90) DEF RetryAt, Reacquiring
<1>12. RetryReachesFront'
  BY <1>2, <1>11, RetryKept, Zenon
<1>13. QueueSound'
  BY <1>2, <1>4, SMTT(90) DEF QueueSound, RpcMatchesState
<1>14. QueuedOnce'
  BY <1>2, <1>1, SMTT(90) DEF QueuedOnce, Reacquiring
<1>15. ReacquirePending'
  BY <1>2, <1>1 DEF ReacquirePending
<1>16. QED
  BY <1>3, <1>5, <1>6, <1>7, <1>8, <1>10, <1>12, <1>13, <1>14, <1>15

\* Without RPC failures the revoke handler never gives up.
LEMMA RevokeReleaseFailureInvariant ==
  ASSUME RpcMayFail = FALSE, IInv, NEW c \in Clients, RevokeReleaseFailure(c)
  PROVE  Consistent'
<1> USE DEF IInv, Consistent, TypeOK, clientVars, serverVars, rpcVars
<1>1. FALSE
  BY Zenon DEF RevokeReleaseFailure, ReleaseGivesUp, NoRpcError, ActiveMatchesState, RelPC
<1>2. QED
  BY <1>1

-----------------------------------------------------------------------------
(* RPC failures *)
=============================================================================
