----------------------------- MODULE LockCache ------------------------------
(***************************************************************************)
(* The caching lock service: lock_client_cache (one per client process,    *)
(* with several application threads) and lock_server_cache.                *)
(*                                                                         *)
(* The model follows one lock id.  Every handler touches lockList[lid]     *)
(* only, and what is held under mutexLockList is one atomic step here; a   *)
(* handler is cut exactly where the code unlocks the mutex: at the RPCs it *)
(* makes, at the condition variables it waits on, and at the two places    *)
(* where the server reads lockList[lid] after the unlock.                  *)
(*                                                                         *)
(* RPCs are calls: the caller blocks until the handler has returned.  They *)
(* run on the retransmitting at-most-once layer of rpc/, so a call is      *)
(* executed once and answered or, when RpcMayFail, fails: safebind or the  *)
(* call gives up, whatever has become of the request.  It may be lost; it  *)
(* may be executed, or be delivered, after its caller has gone on.         *)
(***************************************************************************)
EXTENDS Naturals, Sequences

CONSTANTS
  Clients,      \* the client processes, by their id "host:port"
  Threads,      \* the application threads of all the clients
  ClientOf,     \* the client process each thread belongs to
  NoClient,     \* the empty clientId of a lock that is free at the server
  RpcMayFail,   \* whether an RPC can fail
  Abandoned     \* bound: one element for each call that can go on without its caller

ASSUME ConstantsAssumption ==
  /\ ClientOf \in [Threads -> Clients]
  /\ NoClient \notin Clients
  /\ RpcMayFail \in BOOLEAN

VARIABLES
  \* lock_client_cache::lockInfo, per client
  state, waitingToAcq, waitingToRetry, toRetry, toRevoke, waitList,
  \* where each application thread is
  pc,
  \* lock_server_cache::lockInfo
  srvState, srvClient, srvWaitList,
  \* the acquire and the release RPC of each client: the request, then the
  \* progress of its handler at the server, then the reply
  acq, rel,
  \* the revoke RPC made by the acquire handler that serves a client, and the
  \* retry RPC made by the release handler that serves a client
  rvk, rvkTo, rty, rtyTo,
  \* the calls whose caller has given up and that are not over
  late

clientVars == <<state, waitingToAcq, waitingToRetry, toRetry, toRevoke, waitList>>
serverVars == <<srvState, srvClient, srvWaitList>>
rpcVars    == <<acq, rel, rvk, rvkTo, rty, rtyTo>>
vars       == <<clientVars, pc, serverVars, rpcVars, late>>

-----------------------------------------------------------------------------
(* States *)

\* ABSENT: lockList has no entry for the lock.
ClientState == {"ABSENT", "NONE", "FREE", "LOCKED", "ACQUIRING", "RELEASING"}
ServerState == {"ABSENT", "FREE", "LOCKED"}

\* "sleep..." is blocked in pthread_cond_wait, "woken..." has been signalled and
\* is about to take the mutex and to test the loop condition again.
\* "holding": acquire has returned OK to the caller.
ThreadPC == {"idle", "sleepLock", "wokenLock", "sleepAcq", "wokenAcq",
             "callAcq", "sleepRetry", "wokenRetry", "callReacq",
             "holding", "dorelease", "callRel"}

\* "readHolder": unlocked, about to read lockList[lid].clientId for the revoke.
AcqRpc == {"none", "request", "readHolder", "revokeForRetry", "revokeForGrant",
           "OK", "RETRY", "RPCERR"}
\* "readFront": unlocked, about to read lockList[lid].waitList.front().
RelRpc == {"none", "request", "readFront", "retrying", "OK", "RPCERR"}
RvkRpc == {"none", "request", "dorelease", "callRel", "OK", "RPCERR"}
RtyRpc == {"none", "request", "OK", "RPCERR"}

\* What an abandoned call has come to, and the client it is about: an acquire or a release
\* of the client that is not yet delivered, or whose handler is about to read the holder
\* or the front; a revoke or a retry on its way to the client; a revoke handler at the
\* client, flushing or in its release call.
LateKind == {"over", "acquire", "readHolder", "revoke", "dorelease", "callRel",
             "release", "readFront", "retry"}
Late == LateKind \X (Clients \cup {NoClient})
Over == <<"over", NoClient>>

\* Every variable has the type its C++ declaration gives it.
TypeOK ==
  /\ state \in [Clients -> ClientState]
  /\ waitingToAcq \in [Clients -> BOOLEAN]
  /\ waitingToRetry \in [Clients -> BOOLEAN]
  /\ toRetry \in [Clients -> BOOLEAN]
  /\ toRevoke \in [Clients -> BOOLEAN]
  /\ waitList \in [Clients -> SUBSET Threads]
  /\ pc \in [Threads -> ThreadPC]
  /\ srvState \in ServerState
  /\ srvClient \in Clients \cup {NoClient}
  /\ srvWaitList \in Seq(Clients)
  /\ acq \in [Clients -> AcqRpc]
  /\ rel \in [Clients -> RelRpc]
  /\ rvk \in [Clients -> RvkRpc]
  /\ rvkTo \in [Clients -> Clients \cup {NoClient}]
  /\ rty \in [Clients -> RtyRpc]
  /\ rtyTo \in [Clients -> Clients \cup {NoClient}]
  /\ late \in [Abandoned -> Late]

Init ==
  /\ state = [c \in Clients |-> "ABSENT"]
  /\ waitingToAcq = [c \in Clients |-> FALSE]
  /\ waitingToRetry = [c \in Clients |-> FALSE]
  /\ toRetry = [c \in Clients |-> FALSE]
  /\ toRevoke = [c \in Clients |-> FALSE]
  /\ waitList = [c \in Clients |-> {}]
  /\ pc = [t \in Threads |-> "idle"]
  /\ srvState = "ABSENT"
  /\ srvClient = NoClient
  /\ srvWaitList = <<>>
  /\ acq = [c \in Clients |-> "none"]
  /\ rel = [c \in Clients |-> "none"]
  /\ rvk = [c \in Clients |-> "none"]
  /\ rvkTo = [c \in Clients |-> NoClient]
  /\ rty = [c \in Clients |-> "none"]
  /\ rtyTo = [c \in Clients |-> NoClient]
  /\ late = [a \in Abandoned |-> Over]

-----------------------------------------------------------------------------
(* Condition variables *)

Sleepers(p, c, sleep) == {u \in Threads : ClientOf[u] = c /\ p[u] = sleep}

\* pthread_cond_broadcast: every thread of c blocked at sleep goes to woken.
Broadcast(p, c, sleep, woken) ==
  [u \in Threads |-> IF u \in Sleepers(p, c, sleep) THEN woken ELSE p[u]]

\* pthread_cond_signal: one of them, if there is one.
Signal(p, c, sleep, woken) ==
  IF Sleepers(p, c, sleep) = {} THEN {p}
  ELSE {[p EXCEPT ![u] = woken] : u \in Sleepers(p, c, sleep)}

-----------------------------------------------------------------------------
(* lock_client_cache::acquire *)

\* acquireAndMaybeRetry's first call, or its second one at the retry.
SendAcquire(c) == acq' = [acq EXCEPT ![c] = "request"]

\* No entry: createLock, then the RPC.
AcquireCreate(t) ==
  LET c == ClientOf[t] IN
  /\ pc[t] = "idle"
  /\ state[c] = "ABSENT"
  /\ state' = [state EXCEPT ![c] = "ACQUIRING"]
  /\ waitingToAcq' = [waitingToAcq EXCEPT ![c] = FALSE]
  /\ waitingToRetry' = [waitingToRetry EXCEPT ![c] = FALSE]
  /\ toRetry' = [toRetry EXCEPT ![c] = FALSE]
  /\ toRevoke' = [toRevoke EXCEPT ![c] = FALSE]
  /\ pc' = [pc EXCEPT ![t] = "callAcq"]
  /\ SendAcquire(c)
  /\ UNCHANGED <<waitList, serverVars, rel, rvk, rvkTo, rty, rtyTo>>

\* The lock is at the server and no thread is about to fetch it.
AcquireNone(t) ==
  LET c == ClientOf[t] IN
  /\ pc[t] = "idle"
  /\ state[c] = "NONE"
  /\ ~waitingToAcq[c]
  /\ state' = [state EXCEPT ![c] = "ACQUIRING"]
  /\ pc' = [pc EXCEPT ![t] = "callAcq"]
  /\ SendAcquire(c)
  /\ UNCHANGED <<waitingToAcq, waitingToRetry, toRetry, toRevoke, waitList,
                 serverVars, rel, rvk, rvkTo, rty, rtyTo>>

\* mutant: the state stays FREE
AcquireFreeShared(t) ==
  /\ pc[t] = "idle"
  /\ state[ClientOf[t]] = "FREE"
  /\ pc' = [pc EXCEPT ![t] = "holding"]
  /\ UNCHANGED <<clientVars, serverVars, rpcVars>>

\* The lock is cached here and free.
AcquireFree(t) ==
  LET c == ClientOf[t] IN
  /\ pc[t] = "idle"
  /\ state[c] = "FREE"
  /\ state' = [state EXCEPT ![c] = "LOCKED"]
  /\ pc' = [pc EXCEPT ![t] = "holding"]
  /\ UNCHANGED <<waitingToAcq, waitingToRetry, toRetry, toRevoke, waitList,
                 serverVars, rpcVars>>

\* Another thread of this client has the lock or is fetching it.
AcquireWait(t) ==
  LET c == ClientOf[t] IN
  /\ pc[t] = "idle"
  /\ \/ state[c] \in {"ACQUIRING", "LOCKED"}
     \/ state[c] \in {"NONE", "RELEASING"} /\ waitingToAcq[c]
  /\ waitList' = [waitList EXCEPT ![c] = @ \cup {t}]
  /\ pc' = [pc EXCEPT ![t] = "sleepLock"]
  /\ UNCHANGED <<state, waitingToAcq, waitingToRetry, toRetry, toRevoke,
                 serverVars, rpcVars>>

\* mutant: waitingToAcq is not tested
AcquireReleasingAlways(t) ==
  LET c == ClientOf[t] IN
  /\ pc[t] = "idle"
  /\ state[c] = "RELEASING"
  /\ waitingToAcq' = [waitingToAcq EXCEPT ![c] = TRUE]
  /\ pc' = [pc EXCEPT ![t] = "sleepAcq"]
  /\ UNCHANGED <<state, waitingToRetry, toRetry, toRevoke, waitList,
                 serverVars, rpcVars>>

\* The lock is on its way back to the server: be the thread that fetches it again.
AcquireReleasing(t) ==
  LET c == ClientOf[t] IN
  /\ pc[t] = "idle"
  /\ state[c] = "RELEASING"
  /\ ~waitingToAcq[c]
  /\ waitingToAcq' = [waitingToAcq EXCEPT ![c] = TRUE]
  /\ pc' = [pc EXCEPT ![t] = "sleepAcq"]
  /\ UNCHANGED <<state, waitingToRetry, toRetry, toRevoke, waitList,
                 serverVars, rpcVars>>

\* mutant: if instead of while around the wait
WakeLockIf(t) ==
  LET c == ClientOf[t] IN
  /\ pc[t] = "wokenLock"
  /\ state' = [state EXCEPT ![c] = "LOCKED"]
  /\ waitList' = [waitList EXCEPT ![c] = @ \ {t}]
  /\ pc' = [pc EXCEPT ![t] = "holding"]
  /\ UNCHANGED <<waitingToAcq, waitingToRetry, toRetry, toRevoke, serverVars, rpcVars>>

\* while (state != FREE) pthread_cond_wait(&lockCondVar): the thread takes the lock ...
WakeLock(t) ==
  LET c == ClientOf[t] IN
  /\ pc[t] = "wokenLock"
  /\ state[c] = "FREE"
  /\ state' = [state EXCEPT ![c] = "LOCKED"]
  /\ waitList' = [waitList EXCEPT ![c] = @ \ {t}]
  /\ pc' = [pc EXCEPT ![t] = "holding"]
  /\ UNCHANGED <<waitingToAcq, waitingToRetry, toRetry, toRevoke, serverVars, rpcVars>>

\* ... or finds it taken again.
SleepLock(t) ==
  /\ pc[t] = "wokenLock"
  /\ state[ClientOf[t]] # "FREE"
  /\ pc' = [pc EXCEPT ![t] = "sleepLock"]
  /\ UNCHANGED <<clientVars, serverVars, rpcVars>>

\* while (state != NONE) pthread_cond_wait(&acquireCondVar), then the RPC.
WakeAcquire(t) ==
  LET c == ClientOf[t] IN
  /\ pc[t] = "wokenAcq"
  /\ state[c] = "NONE"
  /\ waitingToAcq' = [waitingToAcq EXCEPT ![c] = FALSE]
  /\ state' = [state EXCEPT ![c] = "ACQUIRING"]
  /\ pc' = [pc EXCEPT ![t] = "callAcq"]
  /\ SendAcquire(c)
  /\ UNCHANGED <<waitingToRetry, toRetry, toRevoke, waitList,
                 serverVars, rel, rvk, rvkTo, rty, rtyTo>>

SleepAcquire(t) ==
  /\ pc[t] = "wokenAcq"
  /\ state[ClientOf[t]] # "NONE"
  /\ pc' = [pc EXCEPT ![t] = "sleepAcq"]
  /\ UNCHANGED <<clientVars, serverVars, rpcVars>>

\* pthread_cond_wait may return without a signal.
SpuriousWakeup(t) ==
  /\ \/ pc[t] = "sleepLock"  /\ pc' = [pc EXCEPT ![t] = "wokenLock"]
     \/ pc[t] = "sleepAcq"   /\ pc' = [pc EXCEPT ![t] = "wokenAcq"]
     \/ pc[t] = "sleepRetry" /\ pc' = [pc EXCEPT ![t] = "wokenRetry"]
  /\ UNCHANGED <<clientVars, serverVars, rpcVars>>

-----------------------------------------------------------------------------
(* lock_client_cache::acquireAndMaybeRetry *)

\* The first acquire RPC answers OK.
AcquireOK(t) ==
  LET c == ClientOf[t] IN
  /\ pc[t] = "callAcq"
  /\ acq[c] = "OK"
  /\ acq' = [acq EXCEPT ![c] = "none"]
  /\ state' = [state EXCEPT ![c] = "LOCKED"]
  /\ pc' = [pc EXCEPT ![t] = "holding"]
  /\ UNCHANGED <<waitingToAcq, waitingToRetry, toRetry, toRevoke, waitList,
                 serverVars, rel, rvk, rvkTo, rty, rtyTo>>

\* mutant: toRetry is not reset
AcquireRetryNowKeepsRetry(t) ==
  /\ pc[t] = "callAcq"
  /\ acq[ClientOf[t]] = "RETRY"
  /\ toRetry[ClientOf[t]]
  /\ pc' = [pc EXCEPT ![t] = "callReacq"]
  /\ SendAcquire(ClientOf[t])
  /\ UNCHANGED <<clientVars, serverVars, rel, rvk, rvkTo, rty, rtyTo>>

\* It answers RETRY and the retry has already arrived: call again.
AcquireRetryNow(t) ==
  LET c == ClientOf[t] IN
  /\ pc[t] = "callAcq"
  /\ acq[c] = "RETRY"
  /\ toRetry[c]
  /\ toRetry' = [toRetry EXCEPT ![c] = FALSE]
  /\ pc' = [pc EXCEPT ![t] = "callReacq"]
  /\ SendAcquire(c)
  /\ UNCHANGED <<state, waitingToAcq, waitingToRetry, toRevoke, waitList,
                 serverVars, rel, rvk, rvkTo, rty, rtyTo>>

\* mutant: waitingToRetry is not set
AcquireRetryLaterUnseen(t) ==
  /\ pc[t] = "callAcq"
  /\ acq[ClientOf[t]] = "RETRY"
  /\ ~toRetry[ClientOf[t]]
  /\ acq' = [acq EXCEPT ![ClientOf[t]] = "none"]
  /\ pc' = [pc EXCEPT ![t] = "sleepRetry"]
  /\ UNCHANGED <<clientVars, serverVars, rel, rvk, rvkTo, rty, rtyTo>>

\* It answers RETRY: wait for the retry.
AcquireRetryLater(t) ==
  LET c == ClientOf[t] IN
  /\ pc[t] = "callAcq"
  /\ acq[c] = "RETRY"
  /\ ~toRetry[c]
  /\ acq' = [acq EXCEPT ![c] = "none"]
  /\ waitingToRetry' = [waitingToRetry EXCEPT ![c] = TRUE]
  /\ pc' = [pc EXCEPT ![t] = "sleepRetry"]
  /\ UNCHANGED <<state, waitingToAcq, toRetry, toRevoke, waitList,
                 serverVars, rel, rvk, rvkTo, rty, rtyTo>>

\* while (!toRetry) { waitingToRetry = true; pthread_cond_wait(&retryCondVar) }, then
\* the second call.
WakeRetry(t) ==
  LET c == ClientOf[t] IN
  /\ pc[t] = "wokenRetry"
  /\ toRetry[c]
  /\ toRetry' = [toRetry EXCEPT ![c] = FALSE]
  /\ waitingToRetry' = [waitingToRetry EXCEPT ![c] = FALSE]
  /\ pc' = [pc EXCEPT ![t] = "callReacq"]
  /\ SendAcquire(c)
  /\ UNCHANGED <<state, waitingToAcq, toRevoke, waitList,
                 serverVars, rel, rvk, rvkTo, rty, rtyTo>>

SleepRetry(t) ==
  LET c == ClientOf[t] IN
  /\ pc[t] = "wokenRetry"
  /\ ~toRetry[c]
  /\ waitingToRetry' = [waitingToRetry EXCEPT ![c] = TRUE]
  /\ pc' = [pc EXCEPT ![t] = "sleepRetry"]
  /\ UNCHANGED <<state, waitingToAcq, toRetry, toRevoke, waitList, serverVars, rpcVars>>

\* The second acquire RPC answers OK.
ReacquireOK(t) ==
  LET c == ClientOf[t] IN
  /\ pc[t] = "callReacq"
  /\ acq[c] = "OK"
  /\ acq' = [acq EXCEPT ![c] = "none"]
  /\ state' = [state EXCEPT ![c] = "LOCKED"]
  /\ pc' = [pc EXCEPT ![t] = "holding"]
  /\ UNCHANGED <<waitingToAcq, waitingToRetry, toRetry, toRevoke, waitList,
                 serverVars, rel, rvk, rvkTo, rty, rtyTo>>

\* mutant: a failed acquire gives the lock up and reports the failure, although the
\* server may have queued the client
AcquireFailureResets(t) ==
  LET c == ClientOf[t] IN
  /\ \/ pc[t] = "callAcq"   /\ acq[c] = "RPCERR"
     \/ pc[t] = "callReacq" /\ acq[c] \in {"RETRY", "RPCERR"}
  /\ acq' = [acq EXCEPT ![c] = "none"]
  /\ state' = [state EXCEPT ![c] = "NONE"]
  /\ pc' = [pc EXCEPT ![t] = "idle"]
  /\ UNCHANGED <<waitingToAcq, waitingToRetry, toRetry, toRevoke, waitList,
                 serverVars, rel, rvk, rvkTo, rty, rtyTo>>

\* Any other answer ("Failure on re-acquiring lock"): the state stays ACQUIRING
\* and acquire returns OK all the same.
AcquireFailure(t) ==
  LET c == ClientOf[t] IN
  /\ \/ pc[t] = "callAcq"   /\ acq[c] = "RPCERR"
     \/ pc[t] = "callReacq" /\ acq[c] \in {"RETRY", "RPCERR"}
  /\ acq' = [acq EXCEPT ![c] = "none"]
  /\ pc' = [pc EXCEPT ![t] = "holding"]
  /\ UNCHANGED <<clientVars, serverVars, rel, rvk, rvkTo, rty, rtyTo>>

-----------------------------------------------------------------------------
(* lock_client_cache::release *)

\* mutant: toRevoke is not reset
ReleaseToServerKeepsRevoke(t) ==
  LET c == ClientOf[t] IN
  /\ pc[t] = "holding"
  /\ waitList[c] = {}
  /\ toRevoke[c]
  /\ state' = [state EXCEPT ![c] = "RELEASING"]
  /\ pc' = [pc EXCEPT ![t] = "dorelease"]
  /\ UNCHANGED <<waitingToAcq, waitingToRetry, toRetry, toRevoke, waitList,
                 serverVars, rpcVars>>

\* Nobody else here waits and the server wants the lock: hand it back.
ReleaseToServer(t) ==
  LET c == ClientOf[t] IN
  /\ pc[t] = "holding"
  /\ waitList[c] = {}
  /\ toRevoke[c]
  /\ state' = [state EXCEPT ![c] = "RELEASING"]
  /\ toRevoke' = [toRevoke EXCEPT ![c] = FALSE]
  /\ pc' = [pc EXCEPT ![t] = "dorelease"]
  /\ UNCHANGED <<waitingToAcq, waitingToRetry, toRetry, waitList,
                 serverVars, rpcVars>>

\* Nobody wants it: keep it cached.
ReleaseToCache(t) ==
  LET c == ClientOf[t] IN
  /\ pc[t] = "holding"
  /\ waitList[c] = {}
  /\ ~toRevoke[c]
  /\ state' = [state EXCEPT ![c] = "FREE"]
  /\ pc' = [pc EXCEPT ![t] = "idle"]
  /\ UNCHANGED <<waitingToAcq, waitingToRetry, toRetry, toRevoke, waitList,
                 serverVars, rpcVars>>

\* Threads of this client wait: wake them, revoked or not.
ReleaseToWaiters(t) ==
  LET c == ClientOf[t] IN
  /\ pc[t] = "holding"
  /\ waitList[c] # {}
  /\ state' = [state EXCEPT ![c] = "FREE"]
  /\ pc' = Broadcast([pc EXCEPT ![t] = "idle"], c, "sleepLock", "wokenLock")
  /\ UNCHANGED <<waitingToAcq, waitingToRetry, toRetry, toRevoke, waitList,
                 serverVars, rpcVars>>

\* lu->dorelease has flushed the extent; the release RPC goes out.
DoRelease(t) ==
  LET c == ClientOf[t] IN
  /\ pc[t] = "dorelease"
  /\ pc' = [pc EXCEPT ![t] = "callRel"]
  /\ rel' = [rel EXCEPT ![c] = "request"]
  /\ UNCHANGED <<clientVars, serverVars, acq, rvk, rvkTo, rty, rtyTo>>

\* mutant: the thread waiting on acquireCondVar is not signalled
ReleaseReturnsSilently(c, p) ==
  /\ rel[c] = "OK"
  /\ rel' = [rel EXCEPT ![c] = "none"]
  /\ state' = [state EXCEPT ![c] = "NONE"]
  /\ pc' = p
  /\ UNCHANGED <<waitingToAcq, waitingToRetry, toRetry, toRevoke, waitList,
                 serverVars, acq, rty, rtyTo>>

\* What release and revoke_handler do with the answer to the release RPC: the state goes
\* to NONE and a waiting thread is told; if the RPC failed, nothing.  p is pc with the
\* calling thread's own change.
ReleaseReturns(c, p) ==
  /\ rel[c] = "OK"
  /\ rel' = [rel EXCEPT ![c] = "none"]
  /\ state' = [state EXCEPT ![c] = "NONE"]
  /\ pc' \in IF waitingToAcq[c] THEN Signal(p, c, "sleepAcq", "wokenAcq") ELSE {p}
  /\ UNCHANGED <<waitingToAcq, waitingToRetry, toRetry, toRevoke, waitList,
                 serverVars, acq, rty, rtyTo>>

ReleaseGivesUp(c, p) ==
  /\ rel[c] = "RPCERR"
  /\ rel' = [rel EXCEPT ![c] = "none"]
  /\ pc' = p
  /\ UNCHANGED <<clientVars, serverVars, acq, rty, rtyTo>>

ReleaseOK(t) ==
  /\ pc[t] = "callRel"
  /\ ReleaseReturns(ClientOf[t], [pc EXCEPT ![t] = "idle"])
  /\ UNCHANGED <<rvk, rvkTo>>

ReleaseFailure(t) ==
  /\ pc[t] = "callRel"
  /\ ReleaseGivesUp(ClientOf[t], [pc EXCEPT ![t] = "idle"])
  /\ UNCHANGED <<rvk, rvkTo>>

-----------------------------------------------------------------------------
(* lock_client_cache::revoke_handler and retry_handler.  A handler is named by *)
(* the client a whose acquire (release) the server was serving when it called. *)

\* The lock is cached and nobody here wants it: hand it back from within the handler.
RevokeFree(a) ==
  LET c == rvkTo[a] IN
  /\ rvk[a] = "request"
  /\ state[c] = "FREE" /\ waitList[c] = {}
  /\ state' = [state EXCEPT ![c] = "RELEASING"]
  /\ toRevoke' = [toRevoke EXCEPT ![c] = FALSE]
  /\ rvk' = [rvk EXCEPT ![a] = "dorelease"]
  /\ UNCHANGED <<waitingToAcq, waitingToRetry, toRetry, waitList, pc,
                 serverVars, acq, rel, rvkTo, rty, rtyTo>>

\* Otherwise leave it to the thread that uses the lock.
RevokeLater(a) ==
  LET c == rvkTo[a] IN
  /\ rvk[a] = "request"
  /\ state[c] # "FREE" \/ waitList[c] # {}
  /\ toRevoke' = [toRevoke EXCEPT ![c] = TRUE]
  /\ rvk' = [rvk EXCEPT ![a] = "OK"]
  /\ UNCHANGED <<state, waitingToAcq, waitingToRetry, toRetry, waitList, pc,
                 serverVars, acq, rel, rvkTo, rty, rtyTo>>

RevokeDoRelease(a) ==
  /\ rvk[a] = "dorelease"
  /\ rvk' = [rvk EXCEPT ![a] = "callRel"]
  /\ rel' = [rel EXCEPT ![rvkTo[a]] = "request"]
  /\ UNCHANGED <<clientVars, pc, serverVars, acq, rvkTo, rty, rtyTo>>

RevokeReleaseOK(a) ==
  /\ rvk[a] = "callRel"
  /\ ReleaseReturns(rvkTo[a], pc)
  /\ rvk' = [rvk EXCEPT ![a] = "OK"]
  /\ UNCHANGED rvkTo

RevokeReleaseFailure(a) ==
  /\ rvk[a] = "callRel"
  /\ ReleaseGivesUp(rvkTo[a], pc)
  /\ rvk' = [rvk EXCEPT ![a] = "OK"]
  /\ UNCHANGED rvkTo

Retry(a) ==
  LET c == rtyTo[a] IN
  /\ rty[a] = "request"
  /\ toRetry' = [toRetry EXCEPT ![c] = TRUE]
  /\ pc' \in IF waitingToRetry[c] THEN Signal(pc, c, "sleepRetry", "wokenRetry")
                                  ELSE {pc}
  /\ rty' = [rty EXCEPT ![a] = "OK"]
  /\ UNCHANGED <<state, waitingToAcq, waitingToRetry, toRevoke, waitList,
                 serverVars, acq, rel, rvk, rvkTo, rtyTo>>

-----------------------------------------------------------------------------
(* lock_server_cache::acquire *)

\* createLock, or updateLockState(lid, id, LOCKED)
Grant(c) ==
  /\ srvState' = "LOCKED"
  /\ srvClient' = c

\* mutant: the queue is not looked at
ServerAcquireFreeBarges(c) ==
  /\ acq[c] = "request"
  /\ srvState \in {"ABSENT", "FREE"}
  /\ Grant(c)
  /\ acq' = [acq EXCEPT ![c] = "OK"]
  /\ UNCHANGED <<clientVars, pc, srvWaitList, rel, rvk, rvkTo, rty, rtyTo>>

\* No entry, or free with nobody waiting.
ServerAcquireFree(c) ==
  /\ acq[c] = "request"
  /\ srvState = "ABSENT" \/ (srvState = "FREE" /\ srvWaitList = <<>>)
  /\ Grant(c)
  /\ acq' = [acq EXCEPT ![c] = "OK"]
  /\ UNCHANGED <<clientVars, pc, srvWaitList, rel, rvk, rvkTo, rty, rtyTo>>

\* Locked: queue the client; the first to queue has the lock revoked.
ServerAcquireLocked(c) ==
  /\ acq[c] = "request"
  /\ srvState = "LOCKED"
  /\ srvWaitList' = Append(srvWaitList, c)
  /\ acq' = [acq EXCEPT ![c] = IF srvWaitList = <<>> THEN "readHolder" ELSE "RETRY"]
  /\ UNCHANGED <<clientVars, pc, srvState, srvClient, rel, rvk, rvkTo, rty, rtyTo>>

\* mutant: the client stays in the queue
ServerAcquireFrontStays(c) ==
  /\ acq[c] = "request"
  /\ srvState = "FREE"
  /\ srvWaitList = <<c>>
  /\ Grant(c)
  /\ acq' = [acq EXCEPT ![c] = "OK"]
  /\ UNCHANGED <<clientVars, pc, srvWaitList, rel, rvk, rvkTo, rty, rtyTo>>

\* Free and the client is the first in the queue: it gets the lock ...
ServerAcquireFront(c) ==
  /\ acq[c] = "request"
  /\ srvState = "FREE"
  /\ srvWaitList = <<c>>
  /\ srvWaitList' = <<>>
  /\ Grant(c)
  /\ acq' = [acq EXCEPT ![c] = "OK"]
  /\ UNCHANGED <<clientVars, pc, rel, rvk, rvkTo, rty, rtyTo>>

\* mutant: no revoke when others wait behind
ServerAcquireFrontNoRevoke(c) ==
  /\ acq[c] = "request"
  /\ srvState = "FREE"
  /\ Len(srvWaitList) > 1 /\ Head(srvWaitList) = c
  /\ srvWaitList' = Tail(srvWaitList)
  /\ Grant(c)
  /\ acq' = [acq EXCEPT ![c] = "OK"]
  /\ UNCHANGED <<clientVars, pc, rel, rvk, rvkTo, rty, rtyTo>>

\* ... and if others wait behind it the lock is revoked before the grant is answered.
ServerAcquireFrontRevoke(c) ==
  /\ acq[c] = "request"
  /\ srvState = "FREE"
  /\ Len(srvWaitList) > 1 /\ Head(srvWaitList) = c
  /\ srvWaitList' = Tail(srvWaitList)
  /\ Grant(c)
  /\ acq' = [acq EXCEPT ![c] = "revokeForGrant"]
  /\ rvk' = [rvk EXCEPT ![c] = "request"]
  /\ rvkTo' = [rvkTo EXCEPT ![c] = c]
  /\ UNCHANGED <<clientVars, pc, rel, rty, rtyTo>>

\* mutant: ret stays OK
ServerAcquireBehindOK(c) ==
  /\ acq[c] = "request"
  /\ srvState = "FREE"
  /\ srvWaitList # <<>> /\ Head(srvWaitList) # c
  /\ srvWaitList' = Append(srvWaitList, c)
  /\ acq' = [acq EXCEPT ![c] = "OK"]
  /\ UNCHANGED <<clientVars, pc, srvState, srvClient, rel, rvk, rvkTo, rty, rtyTo>>

\* Free but reserved for the first in the queue: queue behind it.
ServerAcquireBehind(c) ==
  /\ acq[c] = "request"
  /\ srvState = "FREE"
  /\ srvWaitList # <<>> /\ Head(srvWaitList) # c
  /\ srvWaitList' = Append(srvWaitList, c)
  /\ acq' = [acq EXCEPT ![c] = "RETRY"]
  /\ UNCHANGED <<clientVars, pc, srvState, srvClient, rel, rvk, rvkTo, rty, rtyTo>>

\* revokeLock(lid, lockList[lid].clientId): the client id is read after the mutex
\* has been released.  No client answers at the empty id: safebind fails.
ServerReadHolder(c) ==
  /\ acq[c] = "readHolder"
  /\ rvkTo' = [rvkTo EXCEPT ![c] = srvClient]
  /\ rvk' = [rvk EXCEPT ![c] = IF srvClient = NoClient THEN "RPCERR" ELSE "request"]
  /\ acq' = [acq EXCEPT ![c] = "revokeForRetry"]
  /\ UNCHANGED <<clientVars, pc, serverVars, rel, rty, rtyTo>>

\* revokeLock returns.  A failed revoke turns RETRY into RPCERR; it leaves a grant OK.
ServerRevokeReply(c) ==
  /\ rvk[c] \in {"OK", "RPCERR"}
  /\ acq' = [acq EXCEPT ![c] = IF @ = "revokeForGrant" THEN "OK"
                               ELSE IF rvk[c] = "OK" THEN "RETRY" ELSE "RPCERR"]
  /\ rvk' = [rvk EXCEPT ![c] = "none"]
  /\ rvkTo' = [rvkTo EXCEPT ![c] = NoClient]
  /\ UNCHANGED <<clientVars, pc, serverVars, rel, rty, rtyTo>>

-----------------------------------------------------------------------------
(* lock_server_cache::release *)

\* The lock becomes free whoever the caller is.
ServerRelease(c) ==
  /\ rel[c] = "request"
  /\ srvState' = "FREE"
  /\ srvClient' = NoClient
  /\ rel' = [rel EXCEPT ![c] = IF srvWaitList = <<>> THEN "OK" ELSE "readFront"]
  /\ UNCHANGED <<clientVars, pc, srvWaitList, acq, rvk, rvkTo, rty, rtyTo>>

\* retryCli(lid, lockList[lid].waitList.front()): the front is read after the
\* mutex has been released.
ServerReadFront(c) ==
  /\ rel[c] = "readFront"
  /\ srvWaitList # <<>>
  /\ rty' = [rty EXCEPT ![c] = "request"]
  /\ rtyTo' = [rtyTo EXCEPT ![c] = Head(srvWaitList)]
  /\ rel' = [rel EXCEPT ![c] = "retrying"]
  /\ UNCHANGED <<clientVars, pc, serverVars, acq, rvk, rvkTo>>

\* retryCli returns, and release answers OK.
RetryReturns(c) ==
  /\ rel' = [rel EXCEPT ![c] = "OK"]
  /\ rty' = [rty EXCEPT ![c] = "none"]
  /\ rtyTo' = [rtyTo EXCEPT ![c] = NoClient]
  /\ UNCHANGED <<clientVars, pc, serverVars, acq, rvk, rvkTo>>

ServerRetryReply(c) == rty[c] = "OK" /\ RetryReturns(c)

\* A failed retry is only printed; the message reads waitList.front() once more, without
\* the mutex.
ServerRetryFailure(c) == rty[c] = "RPCERR" /\ RetryReturns(c)

-----------------------------------------------------------------------------
(* rpcc::call1 gives up at its deadline.  A request that was not delivered may be lost  *)
(* or arrive later, a handler that is running runs on, and a reply is thrown away.      *)

\* The caller leaves one of the calls in rest behind.
Abandons(rest) ==
  \E l \in rest : \/ l = Over /\ UNCHANGED late
                  \/ \E a \in Abandoned : late[a] = Over /\ late' = [late EXCEPT ![a] = l]

\* What is left of the revoke, and of the retry, that the handler serving c makes.
RevokeRest(c) ==
  IF rvk[c] = "request" THEN {Over, <<"revoke", rvkTo[c]>>}
  ELSE IF rvk[c] \in {"dorelease", "callRel"} THEN {<<rvk[c], rvkTo[c]>>} ELSE {Over}

RetryRest(c) == IF rty[c] = "request" THEN {Over, <<"retry", rtyTo[c]>>} ELSE {Over}

AcquireRest(c) ==
  IF acq[c] = "request" THEN {Over, <<"acquire", c>>}
  ELSE IF acq[c] = "readHolder" THEN {<<"readHolder", c>>} ELSE RevokeRest(c)

ReleaseRest(c) ==
  IF rel[c] = "request" THEN {Over, <<"release", c>>}
  ELSE IF rel[c] = "readFront" THEN {<<"readFront", c>>} ELSE RetryRest(c)

AcquireRpcFails(c) ==
  /\ RpcMayFail /\ acq[c] \notin {"none", "RPCERR"}
  /\ Abandons(AcquireRest(c))
  /\ acq' = [acq EXCEPT ![c] = "RPCERR"]
  /\ rvk' = [rvk EXCEPT ![c] = "none"]
  /\ rvkTo' = [rvkTo EXCEPT ![c] = NoClient]
  /\ UNCHANGED <<clientVars, pc, serverVars, rel, rty, rtyTo>>

ReleaseRpcFails(c) ==
  /\ RpcMayFail /\ rel[c] \notin {"none", "RPCERR"}
  /\ Abandons(ReleaseRest(c))
  /\ rel' = [rel EXCEPT ![c] = "RPCERR"]
  /\ rty' = [rty EXCEPT ![c] = "none"]
  /\ rtyTo' = [rtyTo EXCEPT ![c] = NoClient]
  /\ UNCHANGED <<clientVars, pc, serverVars, acq, rvk, rvkTo>>

RevokeRpcFails(c) ==
  /\ RpcMayFail /\ rvk[c] \notin {"none", "RPCERR"}
  /\ Abandons(RevokeRest(c))
  /\ rvk' = [rvk EXCEPT ![c] = "RPCERR"]
  /\ UNCHANGED <<clientVars, pc, serverVars, acq, rel, rvkTo, rty, rtyTo>>

RetryRpcFails(c) ==
  /\ RpcMayFail /\ rty[c] \notin {"none", "RPCERR"}
  /\ Abandons(RetryRest(c))
  /\ rty' = [rty EXCEPT ![c] = "RPCERR"]
  /\ UNCHANGED <<clientVars, pc, serverVars, acq, rel, rvk, rvkTo, rtyTo>>

-----------------------------------------------------------------------------
(* The steps of an abandoned call are those of the handlers, with nobody to answer. *)

LateMoves(a, l) == late' = [late EXCEPT ![a] = l]

LateAcquire(a, c) ==
  /\ late[a] = <<"acquire", c>>
  /\ IF srvState = "LOCKED" \/ (srvWaitList # <<>> /\ Head(srvWaitList) # c)
     THEN /\ srvWaitList' = Append(srvWaitList, c)
          /\ LateMoves(a, IF srvWaitList = <<>> THEN <<"readHolder", c>> ELSE Over)
          /\ UNCHANGED <<srvState, srvClient>>
     ELSE /\ srvWaitList' = IF srvWaitList = <<>> THEN <<>> ELSE Tail(srvWaitList)
          /\ Grant(c)
          /\ LateMoves(a, IF Len(srvWaitList) > 1 THEN <<"revoke", c>> ELSE Over)
  /\ UNCHANGED <<clientVars, pc, rpcVars>>

LateReadHolder(a, c) ==
  /\ late[a] = <<"readHolder", c>>
  /\ LateMoves(a, IF srvClient = NoClient THEN Over ELSE <<"revoke", srvClient>>)
  /\ UNCHANGED <<clientVars, pc, serverVars, rpcVars>>

LateRevoke(a, c) ==
  /\ late[a] = <<"revoke", c>>
  /\ LET free == state[c] = "FREE" /\ waitList[c] = {} IN
     /\ toRevoke' = [toRevoke EXCEPT ![c] = ~free]
     /\ state' = IF free THEN [state EXCEPT ![c] = "RELEASING"] ELSE state
     /\ LateMoves(a, IF free THEN <<"dorelease", c>> ELSE Over)
  /\ UNCHANGED <<waitingToAcq, waitingToRetry, toRetry, waitList, pc, serverVars, rpcVars>>

LateDoRelease(a, c) ==
  /\ late[a] = <<"dorelease", c>>
  /\ rel' = [rel EXCEPT ![c] = "request"]
  /\ LateMoves(a, <<"callRel", c>>)
  /\ UNCHANGED <<clientVars, pc, serverVars, acq, rvk, rvkTo, rty, rtyTo>>

LateReleaseReturns(a, c) ==
  /\ late[a] = <<"callRel", c>>
  /\ ReleaseReturns(c, pc) \/ ReleaseGivesUp(c, pc)
  /\ LateMoves(a, Over)
  /\ UNCHANGED <<rvk, rvkTo>>

LateRelease(a, c) ==
  /\ late[a] = <<"release", c>>
  /\ srvState' = "FREE"
  /\ srvClient' = NoClient
  /\ LateMoves(a, IF srvWaitList = <<>> THEN Over ELSE <<"readFront", c>>)
  /\ UNCHANGED <<clientVars, pc, srvWaitList, rpcVars>>

LateReadFront(a, c) ==
  /\ late[a] = <<"readFront", c>>
  /\ srvWaitList # <<>>
  /\ LateMoves(a, <<"retry", Head(srvWaitList)>>)
  /\ UNCHANGED <<clientVars, pc, serverVars, rpcVars>>

LateRetry(a, c) ==
  /\ late[a] = <<"retry", c>>
  /\ toRetry' = [toRetry EXCEPT ![c] = TRUE]
  /\ pc' \in IF waitingToRetry[c] THEN Signal(pc, c, "sleepRetry", "wokenRetry") ELSE {pc}
  /\ LateMoves(a, Over)
  /\ UNCHANGED <<state, waitingToAcq, waitingToRetry, toRevoke, waitList, serverVars, rpcVars>>

-----------------------------------------------------------------------------
\* A thread calls acquire.
Acquire(t) ==
  /\ AcquireCreate(t) \/ AcquireNone(t) \/ AcquireFree(t) \/ AcquireWait(t) \/ AcquireReleasing(t)
  /\ UNCHANGED late

\* A thread goes on with an acquire or a release it has called.
ThreadStep(t) ==
  /\ \/ WakeLock(t) \/ SleepLock(t) \/ WakeAcquire(t) \/ SleepAcquire(t)
     \/ WakeRetry(t) \/ SleepRetry(t)
     \/ AcquireOK(t) \/ AcquireRetryNow(t) \/ AcquireRetryLater(t)
     \/ ReacquireOK(t) \/ AcquireFailure(t)
     \/ DoRelease(t) \/ ReleaseOK(t) \/ ReleaseFailure(t)
  /\ UNCHANGED late

\* A thread calls release.
Release(t) ==
  /\ ReleaseToServer(t) \/ ReleaseToCache(t) \/ ReleaseToWaiters(t)
  /\ UNCHANGED late

Wakeup(t) == SpuriousWakeup(t) /\ UNCHANGED late

\* The acquire handler serving c, and the revoke handler it calls.
AcquireHandler(c) ==
  /\ \/ ServerAcquireFree(c) \/ ServerAcquireLocked(c) \/ ServerAcquireBehind(c)
     \/ ServerAcquireFront(c) \/ ServerAcquireFrontRevoke(c)
     \/ ServerReadHolder(c) \/ ServerRevokeReply(c)
     \/ RevokeFree(c) \/ RevokeLater(c) \/ RevokeDoRelease(c)
     \/ RevokeReleaseOK(c) \/ RevokeReleaseFailure(c)
  /\ UNCHANGED late

\* The release handler serving c, and the retry handler it calls.
ReleaseHandler(c) ==
  /\ \/ ServerRelease(c) \/ ServerReadFront(c)
     \/ ServerRetryReply(c) \/ ServerRetryFailure(c) \/ Retry(c)
  /\ UNCHANGED late

RpcFails(c) ==
  AcquireRpcFails(c) \/ ReleaseRpcFails(c) \/ RevokeRpcFails(c) \/ RetryRpcFails(c)

LateStep(a, c) ==
  \/ LateAcquire(a, c) \/ LateReadHolder(a, c)
  \/ LateRevoke(a, c) \/ LateDoRelease(a, c) \/ LateReleaseReturns(a, c)
  \/ LateRelease(a, c) \/ LateReadFront(a, c) \/ LateRetry(a, c)

Next ==
  \/ \E t \in Threads : Acquire(t) \/ ThreadStep(t) \/ Release(t) \/ Wakeup(t)
  \/ \E c \in Clients : AcquireHandler(c) \/ ReleaseHandler(c) \/ RpcFails(c)
  \/ \E a \in Abandoned, c \in Clients : LateStep(a, c)

Spec == Init /\ [][Next]_vars

\* The RPC layer delivers and dispatches every call, a runnable thread runs, and a
\* caller that holds the lock releases it.  Nothing makes a thread call acquire.
Fairness ==
  /\ \A t \in Threads : WF_vars(ThreadStep(t)) /\ WF_vars(Release(t))
  /\ \A c \in Clients : WF_vars(AcquireHandler(c)) /\ WF_vars(ReleaseHandler(c))

FairSpec == Spec /\ Fairness

-----------------------------------------------------------------------------
(* Safety *)

Holding == {t \in Threads : pc[t] = "holding"}

\* No two threads, of one client or of two, are between acquire and release: what
\* lock_tester's check_grant counts.
MutualExclusion == \A t, u \in Holding : t = u

\* Within one client process the lock is exclusive even when RPCs fail: the state
\* ACQUIRING or LOCKED keeps the other threads in waitList.
LocalMutualExclusion ==
  \A t, u \in Holding : ClientOf[t] = ClientOf[u] => t = u

\* A release handler that has found the queue not empty still finds it so when it calls
\* retryCli with waitList.front(), which it reads without the mutex, whatever the other
\* handlers did meanwhile, even when RPCs fail and even when its own caller has given up:
\* front() of an empty list is undefined.  It holds because a queued client asks again only
\* after its retry.  (The message of a failed retry reads the front a second time:
\* RetryFailureNamesClient.)
RetryHasTarget ==
  /\ \A c \in Clients : rel[c] = "readFront" => srvWaitList # <<>>
  /\ \A a \in Abandoned : late[a][1] = "readFront" => srvWaitList # <<>>

\* "Retry failure on lid: ... for client: ..." names the client whose retry failed: when
\* the message is put together that client is still the front of the queue.
RetryFailureNamesClient ==
  \A c \in Clients : rty[c] = "RPCERR" => srvWaitList # <<>> /\ Head(srvWaitList) = rtyTo[c]

\* c has the lock, from the moment the server grants it (the grant may still be
\* waiting for a revoke, or be in a reply) to the moment the server executes release.
Owns(c) ==
  \/ state[c] \in {"LOCKED", "FREE"}
  \/ acq[c] \in {"revokeForGrant", "OK"}
  \/ state[c] = "RELEASING" /\ rel[c] \in {"none", "request"}

\* The server's record and the clients' agree: a client that uses, caches, flushes
\* (dorelease) or hands back the lock is the one the server has as its holder, and the
\* holder on record really has it.  The server frees the lock at any release, from
\* whomever, so this is what keeps that harmless.
HolderAgreement ==
  \A c \in Clients : Owns(c) <=> srvState = "LOCKED" /\ srvClient = c

\* The acquire that follows a retry is always granted: the branch that prints
\* "Failure on re-acquiring lock" and returns OK without the lock is dead.
ReacquireGranted ==
  \A t \in Threads : pc[t] = "callReacq" => acq[ClientOf[t]] \notin {"RETRY", "RPCERR"}

\* Where the revoke of the current tenure can be: its target is about to be read by the
\* handler serving c; it is not yet delivered; c has noted it; c is handing back.
RevokePlace == {"readHolder", "request", "toRevoke", "releasing"}
RevokeAt(w, c) ==
  \/ w = "readHolder" /\ acq[c] = "readHolder"
  \/ w = "request" /\ rvk[c] = "request"
  \/ w = "toRevoke" /\ toRevoke[c]
  \/ w = "releasing" /\ state[c] = "RELEASING" /\ rel[c] \in {"none", "request"}
RevokeFor(w, c) ==
  IF w = "readHolder" THEN srvClient ELSE IF w = "request" THEN rvkTo[c] ELSE c

\* Clients queue behind a holder exactly while one revoke is on its way to it, noted
\* or obeyed.  It is never lost, duplicated, left over for a later tenure or sent to
\* another client, although the server reads clientId after unlocking the mutex.
RevokeReachesHolder ==
  /\ \A w \in RevokePlace, c \in Clients : RevokeAt(w, c) =>
       srvState = "LOCKED" /\ srvWaitList # <<>> /\ RevokeFor(w, c) = srvClient
  /\ \A w, x \in RevokePlace, c, d \in Clients :
       RevokeAt(w, c) /\ RevokeAt(x, d) => w = x /\ c = d
  /\ srvState = "LOCKED" /\ srvWaitList # <<>> =>
       \E w \in RevokePlace, c \in Clients : RevokeAt(w, c)

\* t's second acquire call is waiting at the server.
Reacquiring(t) == pc[t] = "callReacq" /\ acq[ClientOf[t]] = "request"

\* Where the right to the next grant can be: the front of the queue is about to be read
\* by the handler serving c; the retry is not yet delivered; c has noted it; c has
\* called again.
RetryPlace == {"readFront", "request", "toRetry", "reacquire"}
RetryAt(w, c) ==
  \/ w = "readFront" /\ rel[c] = "readFront"
  \/ w = "request" /\ rty[c] = "request"
  \/ w = "toRetry" /\ toRetry[c]
  \/ w = "reacquire" /\ \E t \in Threads : ClientOf[t] = c /\ Reacquiring(t)
RetryFor(w, c) ==
  IF w = "readFront" THEN Head(srvWaitList) ELSE IF w = "request" THEN rtyTo[c] ELSE c

\* A free lock is reserved for the front of the queue exactly while one retry is on its
\* way to that client, noted or acted upon.  It is never lost, duplicated or left stale
\* in toRetry, although the server reads the front after unlocking the mutex.
RetryReachesFront ==
  /\ \A w \in RetryPlace, c \in Clients : RetryAt(w, c) =>
       srvState = "FREE" /\ srvWaitList # <<>> /\ RetryFor(w, c) = Head(srvWaitList)
  /\ \A w, x \in RetryPlace, c, d \in Clients :
       RetryAt(w, c) /\ RetryAt(x, d) => w = x /\ c = d
  /\ srvState = "FREE" /\ srvWaitList # <<>> =>
       \E w \in RetryPlace, c \in Clients : RetryAt(w, c)

\* "At anytime there will be at most one thread waiting to revoke, retry or acquire
\* the lock from server" (lock_client_cache.h:50), and its flag is up while it sleeps,
\* so that the one bool and the one signal do not lose it.
OneServerWaiter ==
  /\ \A t, u \in Threads :
       /\ ClientOf[t] = ClientOf[u]
       /\ {pc[t], pc[u]} \subseteq {"sleepAcq", "wokenAcq", "sleepRetry", "wokenRetry"}
       => t = u
  /\ \A t \in Threads :
       /\ pc[t] = "sleepAcq" => waitingToAcq[ClientOf[t]]
       /\ pc[t] = "sleepRetry" => waitingToRetry[ClientOf[t]]

\* The server's queue holds a client at most once, only while its acquire is pending,
\* and never the holder.
QueueSound ==
  /\ \A i, j \in 1..Len(srvWaitList) : srvWaitList[i] = srvWaitList[j] => i = j
  /\ \A i \in 1..Len(srvWaitList) :
       state[srvWaitList[i]] = "ACQUIRING" /\ ~Owns(srvWaitList[i])

-----------------------------------------------------------------------------
(* The inductive invariant behind the safety properties (RpcMayFail = FALSE) *)

AcqPC == {"callAcq", "sleepRetry", "wokenRetry", "callReacq"}
RelPC == {"dorelease", "callRel"}
ActivePC == AcqPC \cup RelPC \cup {"holding"}

\* No call fails, and none is answered with an error.
NoRpcError ==
  \A c \in Clients : "RPCERR" \notin {acq[c], rel[c], rvk[c]}

\* A client's state says which thread or handler, and only that one, works for it.
ActiveMatchesState ==
  /\ \A t \in Threads :
       /\ pc[t] \in AcqPC => state[ClientOf[t]] = "ACQUIRING"
       /\ pc[t] \in RelPC => state[ClientOf[t]] = "RELEASING"
       /\ pc[t] = "holding" => state[ClientOf[t]] = "LOCKED"
  /\ \A t, u \in Threads :
       ClientOf[t] = ClientOf[u] /\ pc[t] \in ActivePC /\ pc[u] \in ActivePC => t = u
  /\ \A a \in Clients : rvk[a] \in RelPC =>
       /\ rvkTo[a] \in Clients
       /\ state[rvkTo[a]] = "RELEASING"
       /\ \A t \in Threads : pc[t] \in RelPC => ClientOf[t] # rvkTo[a]
       /\ \A b \in Clients : rvk[b] \in RelPC /\ rvkTo[a] = rvkTo[b] => a = b

\* An RPC is under way only for a client in the state that makes it.
RpcMatchesState ==
  /\ \A c \in Clients :
       /\ acq[c] # "none" => state[c] = "ACQUIRING"
       /\ rel[c] # "none" => state[c] = "RELEASING"
       /\ rvk[c] # "none" => acq[c] \in {"revokeForRetry", "revokeForGrant"}
       /\ rty[c] # "none" => rel[c] = "retrying"
       /\ rvk[c] = "dorelease" => rel[rvkTo[c]] = "none"
  /\ \A t \in Threads :
       /\ pc[t] \in {"sleepRetry", "wokenRetry"} => acq[ClientOf[t]] = "none"
       /\ pc[t] = "dorelease" => rel[ClientOf[t]] = "none"

\* A locked entry names its holder, and nobody queues before the entry is there.
ServerRecord ==
  /\ srvState = "LOCKED" <=> srvClient \in Clients
  /\ srvState = "ABSENT" => srvWaitList = <<>>

\* A queued client whose request is at the server is there for the second time.
QueuedOnce ==
  \A i \in 1..Len(srvWaitList) : acq[srvWaitList[i]] = "request" =>
    \E t \in Threads : ClientOf[t] = srvWaitList[i] /\ Reacquiring(t)

\* The second acquire call is pending, granted or about to be.
ReacquirePending ==
  \A t \in Threads : pc[t] = "callReacq" =>
    acq[ClientOf[t]] \in {"request", "revokeForGrant", "OK"}

\* The conjunction that every step preserves.
Consistent ==
  /\ NoRpcError
  /\ ActiveMatchesState
  /\ RpcMatchesState
  /\ ServerRecord
  /\ HolderAgreement
  /\ RevokeReachesHolder
  /\ RetryReachesFront
  /\ QueueSound
  /\ QueuedOnce
  /\ ReacquirePending

IInv == TypeOK /\ Consistent /\ late = [a \in Abandoned |-> Over]

-----------------------------------------------------------------------------
(* Liveness *)

Waiting == {t \in Threads : pc[t] \notin {"idle", "holding", "dorelease", "callRel"}}

\* With one thread per client every acquire returns: the queue is first come, first
\* served and no wakeup, revoke or retry is lost.
AcquireReturns == \A t \in Threads : t \in Waiting ~> t \in Holding

\* With several threads per client a thread can be overtaken for ever, but the lock
\* does not go idle: while a thread waits, somebody gets it.
LockNotLost == Waiting # {} /\ Holding = {} ~> Holding # {}

-----------------------------------------------------------------------------
(* The lock the threads see *)

L == INSTANCE Lock WITH holders <- Holding

\* The service implements the abstract lock of module Lock.
LockSpec == L!Spec
=============================================================================
