# Verification of the YFS services

YFS is a distributed file system: FUSE clients (`fuse.cc`, `yfs_client.cc`) keep
directories and files as extents on an extent server and serialise their
operations with a lock service. All parts talk through an RPC library (`rpc/`),
and a replicated state machine on Paxos (`rsm.cc`, `config.cc`, `paxos.cc`,
`log.cc`) is being put under the lock server. This directory holds TLA+ models of
the parts on which the others rest, the TLC runs that check them and TLAPS proofs
of their main properties.

## Inventory

| Part | State | Operations | What makes it hard |
|---|---|---|---|
| caching lock client | `lockInfo` per lock: state, waiters, four flags | `acquire`, `release`, `revoke_handler`, `retry_handler` | RPCs made without the mutex; revoke and retry that overtake the answer they belong to; three condition variables |
| caching lock server | state, holder, queue per lock | `acquire`, `release` | calls back to clients from inside handlers; the record read after the unlock |
| blocking lock server | status, holder, `waitingCount`, condition variable | `acquire`, `release` | handlers that block threads of a fixed pool |
| RPC library | xids, `xid_rep_window_`, connection; `reply_window_`, `theForgottens`, `conns_` | `call1`, `got_pdu`, `dispatch`, `checkduplicate_and_update`, `add_reply` | broken connections, retransmission, timeouts, restarts, replies freed while in use |
| connection, PollMgr, ThrPool, fifo | buffers, callbacks, queue | `send`, `read_cb`, `write_cb`, `addJob`, `takeJob` | partial reads and writes, a full queue, reference counts |
| extent client and server | cached extents and attributes, dirty flag; the stored ones | `get`, `put`, `getattr`, `remove`, `flush` | coherence rests on the flush before the release |
| file system client | none of its own | `lookup`, `addDirent`, `unlink`, `readDir`, ... | several extent operations under two locks |
| Paxos, log | promises and accepts, log file | `run`, `prepare`, `accept`, `decide` and their handlers | late messages of earlier instances, crashes between log writes |
| config | views, heartbeats | `add`, `remove`, `paxos_commit`, `heartbeat` | upcalls with locks, commits out of order |
| rsm | view stamps, primary | `recovery`, `join`, `commit_change` | view changes during recovery; much of it is lab stubs |
| handle, marshalling, logging, testers | | | |

`PROJECT.json` lists every part with its status, and under `hazards` what can go
wrong in each at the line where it bites.

## Modules

| Module | Models |
|---|---|
| `Lock` | what both lock services promise: at most one holder, changed by acquire and release |
| `LockCache` | `lock_client_cache` and `lock_server_cache` together, for one lock |
| `LockServer` | `lock_server`, `lock_client` and the dispatch threads, for one lock |
| `Rpc` | one `rpcc`, its connections, and the `rpcs` it is bound to |
| `MC...` | instances for TLC: the threads of each client, symmetry |
| `LockCacheLemmas`, `LockCacheAcquireProofs`, `LockCacheReleaseProofs`, `LockCacheServerProofs`, `LockCacheProofs` | theorems about `LockCache` |
| `LockServerProofs`, `RpcProofs` | theorems about `LockServer` and `Rpc` |

Definitions named after no function and marked `mutant` in their comment are
altered forms of the definition that follows them. No specification uses them:
they show that a property notices such a change of the code.

### LockCache

The variables are the fields of the two `lockInfo`s, the place of each
application thread (`pc`) and the progress of each RPC: `acq` and `rel` for the
calls of a client, `rvk` and `rty` for the calls their handlers make. What the
code does under `mutexLockList` is one step. A handler is cut where it unlocks:
at RPCs, at condition waits, and where the server reads `clientId`
(`lock_server_cache.cc:42`) and `waitList.front()` (`:113`) after unlocking. Such
a read is a data race in the code; it is modelled as an atomic read at a later
moment, so a torn read of the string is outside the model. After a failed retry
`release` reads the front once more, for its message (`:119`):
`ServerRetryFailure`. Wakeups may be spurious.

With `RpcMayFail` a call may time out wherever it is, as `rpcc::call1` does at its
deadline. A request that was not delivered is lost or arrives later, a handler
that is running runs on, its own calls included, and its answer is thrown away.
Such an abandoned call occupies a slot of `late` until it is over, and the
`Late...` actions are the steps of the handlers with nobody to answer.
`Abandoned` bounds the calls that go on in this way at one time. With all slots
taken a call can still time out before its request is delivered or after its
handler has returned.

`lu->dorelease` (`lock_client_cache.cc:143`, `:187`) is one step that succeeds.
`lu` is taken to be set, as `yfs_client` does: its default is 0
(`lock_client_cache.h:68`), and `lock_tester.cc:186` passes none.

Different locks share only the mutex, so one lock is enough for these
properties. The thread pool, in which handlers of several locks compete, is not
in this module.

### LockServer

`at` is where each caller is, `jobq` the queue of calls that no thread has taken.
A handler asleep in `pthread_cond_wait` keeps its thread. A call that has waited
120 seconds, the default deadline, aborts its process through `VERIFY`
(`lock_client.cc:38`, `:47`): `TimeOut` moves all the callers of the process to
`gone`. Their calls stay in the queue or in their handlers, and may be granted the
lock later, which nobody then releases.

### Rpc

A connection is two ordered streams that can break at any moment. What was not
read is lost, and each side notices in its own time. `dispatch` is cut at its
mutexes: the duplicate check, the handler with `add_reply`, the choice of the
connection, the send. `call1` returns in two critical sections on `m_`, the
second one only under `lossytest_`. When the server notices a broken connection,
the requests it had read before, a prefix of the stream, stay in the queue of the
pool. A buffer that was freed before it is sent is read as a reply to any call of
the client, or as nothing that the client would take for a reply; `sentFreed`
records that this has happened. `Compressed` is a closed form of the
loop in `update_xid_rep`; `MCRpc` has the loop, and TLC compares the two on all
sorted lists of up to five xids (`CompressedIsLoop`).

Left out: `bind`, `cancel`, `set_reachable`, clients with nonce 0. The queue of
the pool is the read part of the connection's stream, a connect that fails is a transmission
that happens later, and the last connection allowed by the bound does not break.
After a restart all connections are broken and the client is still bound to the
first instance.
The nonce of an instance is `random()` in the code; the model takes the nonces of
two instances to differ.

## Runs

| Run | Instance | Shows |
|---|---|---|
| `lock_cache_mixed` | clients with 2, 2 and 1 threads, no failing call (156725 states) | one thread has the lock at a time; the service implements `Lock`; the one flag and the one signal for the thread that waits for the server lose nobody; the inductive invariant; while a thread waits, somebody gets the lock |
| `lock_cache_queue` | 3 clients with 1 thread (5315) | the server's record and its queue are right; exactly one revoke is under way while clients queue behind a holder, exactly one retry while the free lock is reserved; the second acquire is granted; every acquire returns |
| `lock_cache_failures` | 2 clients with 2 threads, calls may time out, 2 may go on abandoned (168226) | what is left with failures: exclusion within a client, one of its threads at a time waiting for the server, and no client to retry taken from an empty queue |
| `lock_cache_failed_grant` | the same | **violation**: two clients have the lock |
| `lock_cache_failed_retry` | the same | **violation**: the message about a failed retry reads the front of an empty queue |
| `lock_server_full_pool` | 4 callers in 2 processes, 4 threads (4720) | implements `Lock`; entry and count exact; a thread is left for the release; the lock does not stay idle |
| `lock_server_seven_callers` | 7 callers, 6 threads | **violation**: all threads blocked |
| `rpc_lossy` | 1 caller, 2 threads, 4 calls, 2 connections, `RPC_LOSSY` (2769350) | no handler runs twice, old requests sent on purpose included |
| `rpc_replies` | 2 callers, 2 threads, 3 calls, 2 connections (1403393) | the client's window, with gaps and repeated xids, never runs empty and never acknowledges a call that waits; until a freed buffer is sent every answer belongs to its call and its reply is kept |
| `rpc_restart` | 2 callers, 2 threads, 2 calls, 2 connections, 2 instances (36096) | at-most-once across a restart; the inductive invariant |
| `rpc_in_progress` | 1 caller, 2 threads, 1 call, 2 connections | **violation**: DONE without a reply |
| `rpc_freed_reply` | 1 caller, 2 threads, 2 calls, 2 connections | **violation**: a freed buffer is sent |

In the runs with failures the server's test `waitList.size() > 0` in `release` is
never false: a client releases only after a revoke, and a revoke is sent only when
somebody has queued. `RetryHasTarget`, which is about the read at line 113,
therefore does not rest on that test but on a queued client asking again only
after its retry; of the read at line 119 it is false.

A freed buffer that is sent can make the client take a stale or foreign reply for
an answer. `AnsweredByExecution` and `RepliesKept` are therefore stated for the
behaviours up to that point, and so is the second half of `XidRepSound`;
`AtMostOnce` and `OnceInv` hold whatever is sent.

Bounds. Two threads in a client are enough for one to hold or fetch the lock
while another waits behind it, and three clients for a holder, a front and a
second in the queue. Two abandoned calls allow a handler and the call it made to
go on at once, or the handlers of both clients. In `Rpc`, two connections allow a break with a
retransmission, two dispatch threads allow a request and its duplicate to be
dispatched at once, and three calls allow replies out of order with a gap in the
window. `lock_server_full_pool` has as many callers as threads, like `lock_tester`
with its six; `PoolSuffices` has the same for every number. The `Rpc` runs do not check for deadlock: the calls are bounded, and when
all are made the model stops. Those of `LockServer` do not either: it stops when
the processes of all callers have aborted.

Fairness (`FairSpec`, only in the liveness runs). Runnable threads and woken
handlers run, delivered calls are dispatched, and a thread that has the lock
releases it, as the callers in this repository do. Nobody has to call `acquire`.
In `LockCache` no call fails; in `LockServer` a call may time out, but need not,
and a caller that is gone releases nothing. All of it is weak fairness, one condition per thread or
handler; for the pool, one condition that some queued call is taken. With several
threads in a client a thread can be overtaken for ever (`release` prefers the
client's own waiters to a revoke), so there only `LockNotLost` is claimed, and
`AcquireReturns` only with one thread per client.

## Where code and documentation disagree

- `acquire` of the caching client returns `OK` after its RPC has failed
  (`lock_client_cache.cc:292`, `:120`), so two clients can have the lock;
  `lock_tester.cc:25` checks that this does not happen.
- `lock_tester.cc:18` speaks of a pool of 10 threads; it has 6 (`rpc/rpc.cc:430`).
  Six callers are fine. With seven the handlers wait for ever, and the callers abort
  when their calls reach the deadline of 120 seconds.
- After a failed retry `release` prints the client it was for, but reads
  `waitList.front()` again (`lock_server_cache.cc:119`). If only the answer was lost
  that client has left the queue: the message names another, or `front()` is called
  on an empty list.
- `DONE` is "duplicate of an RPC we already replied to (have reply)"
  (`rpc/rpc.h:271`), but `checkduplicate_and_update` also returns it, with a null
  buffer, while the handler is running, and never returns `INPROGRESS`. The
  send of nothing has the effect `INPROGRESS` would have.
- `dispatch` sends a reply (`rpc/rpc.cc:624`, `:633`) that another dispatch may have
  freed (`:715`) since the lookup, though `:632` says "we still have the response":
  `call1` also acknowledges calls that have timed out (`:293`), not only those whose
  reply "it has received" (`:651`).

## Proofs

The theorems hold for every value of the constants.

**LockCache.** `TypeCorrect` needs no assumption; the others assume that no call
fails (`RpcMayFail = FALSE`), without which `MutualExclusion` is false.
`MutualExclusion` is not inductive: that a grant is unique depends on the
server's record, which any release overwrites, hence on who may send a release,
hence on the revokes and retries under way. `IInv` therefore conjoins

- `ActiveMatchesState`, `RpcMatchesState`: which thread or handler works for a
  client, and which RPC is under way, given its state;
- `ServerRecord`, `HolderAgreement`: the server's record is the client that has
  the lock, from the grant at the server to the release at the server;
- `RevokeReachesHolder`, `RetryReachesFront`: exactly one revoke, exactly one
  retry, at the right client;
- `QueueSound`, `QueuedOnce`, `ReacquirePending`: who is in the queue, and that
  the second acquire comes from its front;
- no call is abandoned.

`LockCacheLemmas` has types and facts about the parts of `IInv`; three modules
prove its preservation by the steps of acquire, of release and revoke, and of the
server; `LockCacheProofs` combines them into `InvariantHolds`,
`MutualExclusionHolds`, `ReacquireGrantedHolds`, `RecordsAgree` and `Refinement`.

**LockServer.** `IInv` joins `EntryAgrees`, the exact count and a queue without
repetitions, whichever callers are gone. `PoolSuffices` assumes no more callers than threads. `Refinement`
needs no bound.

**Rpc.** `TypeCorrect` includes that the client's window is never empty. `OnceInv`:
a request that ran or is about to run is in the reply window or forgotten, and
one dispatch at a time is about to run it. The proof takes the `xid_rep` of a
request to be any number, so at-most-once does not depend on the client's
acknowledgements, nor on what a freed buffer holds. `AnsweredByExecution`, `XidRepSound` and `RepliesKept` are
only model-checked.

Out of the prover's reach and left to TLC: liveness, and what the loop of
`update_xid_rep` computes (`CompressedIsLoop`).

## Plan

1. Extent cache: client and server, composed with the abstract `Lock`; a reader
   sees the last write made under the lock; `flush` of an untouched extent.
2. Paxos with its log: agreement as abstract specification, lost and late
   messages, crash and restart from the log; agreement proved.
3. `config` on Paxos: views in order, heartbeats, the mutexes.
4. `rsm`: join, view change, choice of the primary, as far as the code goes.
5. The caching server's handlers of several locks in one pool.
6. `yfs_client` operations on the extent cache: no lost directory entry.
7. `connection`, `ThrPool`, `handle`: full queue, partial I/O, reference counts.
8. Proofs of `RepliesKept` and `XidRepSound`; a liveness statement for `Rpc`.

The models cover the lock services and the core of the RPC library; everything
from the extent cache upwards, and all of the replication, is still to come.
