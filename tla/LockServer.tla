----------------------------- MODULE LockServer -----------------------------
(***************************************************************************)
(* The lock server without caching: lock_server, whose acquire handler     *)
(* blocks on a condition variable until the lock is free, and the thread   *)
(* pool of rpcs (ThrPool and its fifo) that runs the handlers.             *)
(*                                                                         *)
(* The model follows one lock id.  A caller is a client thread: it has one *)
(* RPC outstanding at a time.  A call that is not answered within its 120  *)
(* seconds aborts the caller's process, while the call it made stays in    *)
(* the queue or in its handler.  A handler is atomic between two waits on  *)
(* the condition variable, because it holds mutexLocks.                    *)
(***************************************************************************)
EXTENDS Naturals, Sequences, FiniteSets

CONSTANTS
  Callers,      \* the client threads
  ProcessOf,    \* the process each of them runs in
  NoCaller,     \* the empty clientId
  PoolSize      \* the size of dispatchpool_

ASSUME PoolAssumption ==
  /\ IsFiniteSet(Callers)
  /\ NoCaller \notin Callers
  /\ PoolSize \in Nat \ {0}

VARIABLES
  status, clientId, waitingCount,   \* lock_server::lockStatus
  jobq,                             \* ThrPool::jobq_: the calls no thread has taken
  at,                               \* where each caller and the handler serving it are
  gone                              \* the callers whose process has aborted

vars == <<status, clientId, waitingCount, jobq, at, gone>>

\* "sleep": its handler is blocked in pthread_cond_wait; "woken": it has been signalled.
\* Either way the handler occupies a thread of the pool.  "holding": it has granted the
\* lock, even if the caller is gone and will never know.
Where == {"idle", "acquire", "sleep", "woken", "holding", "release"}

\* Every variable has the type its C++ declaration gives it.  ABSENT: locks has no entry.
TypeOK ==
  /\ status \in {"ABSENT", "FREE", "LOCKED"}
  /\ clientId \in Callers \cup {NoCaller}
  /\ waitingCount \in Nat
  /\ jobq \in Seq(Callers)
  /\ at \in [Callers -> Where]
  /\ gone \in SUBSET Callers

Init ==
  /\ status = "ABSENT"
  /\ clientId = NoCaller
  /\ waitingCount = 0
  /\ jobq = <<>>
  /\ at = [k \in Callers |-> "idle"]
  /\ gone = {}

Blocked == {k \in Callers : at[k] \in {"sleep", "woken"}}

-----------------------------------------------------------------------------
(* lock_client *)

\* rpcs::got_pdu queues the call; with one call per caller the queue of 100 jobs per
\* thread is never full.
CallAcquire(k) ==
  /\ at[k] = "idle" /\ k \notin gone
  /\ at' = [at EXCEPT ![k] = "acquire"]
  /\ jobq' = Append(jobq, k)
  /\ UNCHANGED <<status, clientId, waitingCount, gone>>

CallRelease(k) ==
  /\ at[k] = "holding" /\ k \notin gone
  /\ at' = [at EXCEPT ![k] = "release"]
  /\ jobq' = Append(jobq, k)
  /\ UNCHANGED <<status, clientId, waitingCount, gone>>

\* rpcc::call1 gives up at its deadline, and VERIFY(ret == OK) aborts the process with
\* all its threads.  A call that the server has is not taken back; one that never reached
\* it leaves its caller idle or holding.
TimeOut(k) ==
  /\ k \notin gone
  /\ gone' = gone \cup {j \in Callers : ProcessOf[j] = ProcessOf[k]}
  /\ UNCHANGED <<status, clientId, waitingCount, jobq, at>>

-----------------------------------------------------------------------------
(* ThrPool and lock_server *)

\* mutant: the loop that creates the threads stops one short
nthreadsOneShort == PoolSize - 1

\* The threads that the constructor of ThrPool creates.
nthreads == PoolSize

\* do_worker: a thread that is not inside a handler takes the first job.
TakeJob(k) ==
  /\ Cardinality(Blocked) < nthreads
  /\ jobq # <<>>
  /\ Head(jobq) = k
  /\ jobq' = Tail(jobq)

\* The lock does not exist or is free: grant it.
AcquireFree(k) ==
  /\ at[k] = "acquire"
  /\ TakeJob(k)
  /\ status # "LOCKED"
  /\ status' = "LOCKED"
  /\ clientId' = k
  /\ at' = [at EXCEPT ![k] = "holding"]
  /\ UNCHANGED <<waitingCount, gone>>

\* It is locked: wait inside the handler.
AcquireWait(k) ==
  /\ at[k] = "acquire"
  /\ TakeJob(k)
  /\ status = "LOCKED"
  /\ waitingCount' = waitingCount + 1
  /\ at' = [at EXCEPT ![k] = "sleep"]
  /\ UNCHANGED <<status, clientId, gone>>

\* mutant: if instead of while around the wait
WakeGrantIf(k) ==
  /\ at[k] = "woken"
  /\ waitingCount' = waitingCount - 1
  /\ status' = "LOCKED"
  /\ clientId' = k
  /\ at' = [at EXCEPT ![k] = "holding"]
  /\ UNCHANGED <<jobq, gone>>

\* mutant: the count is taken back after the loop as well
WakeGrantCountsTwice(k) ==
  /\ at[k] = "woken"
  /\ status # "LOCKED"
  /\ waitingCount' = waitingCount - 2
  /\ status' = "LOCKED"
  /\ clientId' = k
  /\ at' = [at EXCEPT ![k] = "holding"]
  /\ UNCHANGED <<jobq, gone>>

\* mutant: the count is not taken back
WakeGrantCounts(k) ==
  /\ at[k] = "woken"
  /\ status # "LOCKED"
  /\ status' = "LOCKED"
  /\ clientId' = k
  /\ at' = [at EXCEPT ![k] = "holding"]
  /\ UNCHANGED <<waitingCount, jobq, gone>>

\* while (status == LOCKED): the woken handler takes the lock ...
WakeGrant(k) ==
  /\ at[k] = "woken"
  /\ status # "LOCKED"
  /\ waitingCount' = waitingCount - 1
  /\ status' = "LOCKED"
  /\ clientId' = k
  /\ at' = [at EXCEPT ![k] = "holding"]
  /\ UNCHANGED <<jobq, gone>>

\* ... or finds it taken again and waits on; waitingCount goes down and up.
WakeWait(k) ==
  /\ at[k] = "woken"
  /\ status = "LOCKED"
  /\ at' = [at EXCEPT ![k] = "sleep"]
  /\ UNCHANGED <<status, clientId, waitingCount, jobq, gone>>

\* pthread_cond_wait may return without a signal.
SpuriousWakeup(k) ==
  /\ at[k] = "sleep"
  /\ at' = [at EXCEPT ![k] = "woken"]
  /\ UNCHANGED <<status, clientId, waitingCount, jobq, gone>>

\* mutant: signalled only when more than one waits
ReleaseSignalsMany(k) ==
  /\ at[k] = "release"
  /\ TakeJob(k)
  /\ status' = "FREE"
  /\ clientId' = NoCaller
  /\ at' = [j \in Callers |-> IF j = k THEN "idle"
                              ELSE IF at[j] = "sleep" /\ waitingCount > 1 THEN "woken"
                              ELSE at[j]]
  /\ UNCHANGED <<waitingCount, gone>>

\* The lock becomes free whoever the caller is, and every waiting handler is woken.
Release(k) ==
  /\ at[k] = "release"
  /\ TakeJob(k)
  /\ status' = "FREE"
  /\ clientId' = NoCaller
  /\ at' = [j \in Callers |-> IF j = k THEN "idle"
                              ELSE IF at[j] = "sleep" /\ waitingCount > 0 THEN "woken"
                              ELSE at[j]]
  /\ UNCHANGED <<waitingCount, gone>>

-----------------------------------------------------------------------------
Serve(k) == AcquireFree(k) \/ AcquireWait(k) \/ Release(k)
Wake(k)  == WakeGrant(k) \/ WakeWait(k)

Next == \E k \in Callers :
  \/ CallAcquire(k) \/ CallRelease(k) \/ TimeOut(k)
  \/ Serve(k) \/ Wake(k) \/ SpuriousWakeup(k)

Spec == Init /\ [][Next]_vars

\* A worker thread takes a job when there is one, a woken handler runs, and a caller
\* that is not gone releases the lock it has.  Nothing makes a caller call acquire, or
\* a call time out.
Fairness ==
  /\ WF_vars(\E k \in Callers : Serve(k))
  /\ \A k \in Callers : WF_vars(Wake(k)) /\ WF_vars(CallRelease(k))

FairSpec == Spec /\ Fairness

-----------------------------------------------------------------------------
Holders == {k \in Callers : at[k] = "holding"}

\* The lock and its entry agree: the entry is LOCKED exactly while one caller has the
\* lock, and names it.  No two callers have it, and no release is sent for a lock that
\* is not held, though the server would accept it from anybody, and though it also
\* grants the lock to callers that are gone.
EntryAgrees ==
  /\ \A k \in Callers : at[k] \in {"holding", "release"} => clientId = k
  /\ status = "LOCKED" <=> \E k \in Callers : at[k] \in {"holding", "release"}

\* waitingCount is the number of handlers inside pthread_cond_wait: release broadcasts
\* only when it is positive.
CountExact == waitingCount = Cardinality(Blocked)

\* A call that waits for a thread gets one: a thread is free, or a woken handler finds
\* the lock free and will return.  Otherwise every thread of the pool sleeps until a
\* release that no thread is left to run, and the callers only leave by their deadline.
PoolNotExhausted ==
  jobq # <<>> => \/ Cardinality(Blocked) < nthreads
                 \/ status # "LOCKED" /\ \E k \in Callers : at[k] = "woken"

\* The queued calls are the ones that callers wait for, or have given up on, each queued
\* once.
QueueMatches ==
  /\ \A i \in 1..Len(jobq) : at[jobq[i]] \in {"acquire", "release"}
  /\ \A i, j \in 1..Len(jobq) : jobq[i] = jobq[j] => i = j

\* The inductive invariant.
IInv == TypeOK /\ EntryAgrees /\ QueueMatches /\ CountExact

\* While a call waits the lock does not stay idle.
LockNotLost ==
  (\E k \in Callers : at[k] \in {"acquire", "sleep", "woken"}) /\ Holders = {}
    ~> Holders # {}

L == INSTANCE Lock WITH Threads <- Callers, holders <- Holders

\* The server implements the abstract lock of module Lock.
LockSpec == L!Spec
=============================================================================
