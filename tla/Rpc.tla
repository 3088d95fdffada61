-------------------------------- MODULE Rpc ---------------------------------
(***************************************************************************)
(* The RPC library: one rpcc (the threads that call through it, its xids,  *)
(* its window of received replies, its connection) and the rpcs it is      *)
(* bound to (the dispatch threads, the reply window that makes a call      *)
(* at-most-once, the latest connection to the client).                     *)
(*                                                                         *)
(* A connection is a pair of byte streams that may break at any moment;    *)
(* what was not yet read is lost and each side finds out in its own time.  *)
(* dispatch is cut at its mutexes.  The arguments and results of a call    *)
(* are left out: a request is its header.                                  *)
(***************************************************************************)
EXTENDS Integers, Sequences, FiniteSetsExt

CONSTANTS
  Callers,      \* the threads that call through the rpcc
  Workers,      \* the threads of the server's dispatchpool_
  MaxXid,       \* bound: calls made
  MaxChan,      \* bound: connections opened
  MaxNonce,     \* bound: instances of the server
  lossytest     \* RPC_LOSSY is set

ASSUME RpcAssumption ==
  /\ MaxXid \in Nat /\ MaxChan \in Nat /\ MaxNonce \in Nat \ {0}
  /\ lossytest \in BOOLEAN

VARIABLES
  \* rpcc
  xid_, xid_rep_window_, chan_, dup_req_, xid_rep_done_,
  call,               \* calls_, and where each calling thread is in call1
  \* the connections, numbered in the order of their creation
  up,                 \* the connection still carries data
  cdead, sdead,       \* connection::dead_ at the client and at the server
  c2s, s2c,           \* sent and not yet read
  \* rpcs
  nonce_, reply_window_, theForgottens, conns_,
  replies,            \* the entries of reply_window_ whose buf is set
  freed,              \* the xids whose buf has been freed
  job,                \* what each dispatch thread is doing
  executed,           \* how often the handler has run for each xid
  sentFreed           \* a buffer has been sent after it was freed

rpccVars == <<xid_, xid_rep_window_, chan_, dup_req_, xid_rep_done_, call>>
connVars == <<up, cdead, sdead, c2s, s2c>>
replyVars == <<reply_window_, theForgottens, replies, freed>>
histVars == <<executed, sentFreed>>
rpcsVars == <<nonce_, replyVars, conns_, job, histVars>>
vars == <<rpccVars, connVars, rpcsVars>>

Xids  == 1..MaxXid
Chans == 1..MaxChan
NoChan == 0

\* A request carries the nonce of the server instance the rpcc is bound to, the first one.
Request == [xid : Xids, xid_rep : Nat]
Reply   == [xid : Xids, ret : {"OK", "oldsrv", "atmostonce"}]
Idle    == [st |-> "idle"]
Calling == [st : {"transmit", "wait", "done", "record"}, xid : Xids, xid_rep : Nat,
            ch : Chans \cup {NoChan}, ret : {"none", "OK", "oldsrv", "atmostonce"}]
Dispatch == [st : {"check", "run", "connect", "send", "sendDone", "sendForgotten"},
             xid : Xids, xid_rep : Nat, ch : Chans, buf : BOOLEAN]

\* Every variable has the type its C++ declaration gives it.
TypeOK ==
  /\ xid_ \in 1..MaxXid + 1
  /\ xid_rep_window_ \in Seq(Nat) /\ xid_rep_window_ # <<>>
  /\ chan_ \in Chans \cup {NoChan}
  /\ dup_req_ \in Seq(Request)
  /\ xid_rep_done_ \in Int
  /\ call \in [Callers -> {Idle} \cup Calling]
  /\ up \in [Chans -> BOOLEAN]
  /\ cdead \in [Chans -> BOOLEAN]
  /\ sdead \in [Chans -> BOOLEAN]
  /\ c2s \in [Chans -> Seq(Request)] /\ s2c \in [Chans -> Seq(Reply)]
  /\ nonce_ \in 1..MaxNonce
  /\ reply_window_ \subseteq Xids /\ theForgottens \subseteq Xids
  /\ replies \subseteq reply_window_ /\ freed \subseteq Xids
  /\ conns_ \in Chans \cup {NoChan}
  /\ job \in [Workers -> {Idle} \cup Dispatch]
  /\ executed \in [Xids -> Nat]
  /\ sentFreed \in BOOLEAN

Init ==
  /\ xid_ = 1
  /\ xid_rep_window_ = <<0>>
  /\ chan_ = NoChan
  /\ dup_req_ = <<>>
  /\ xid_rep_done_ = -1
  /\ call = [k \in Callers |-> Idle]
  /\ up = [ch \in Chans |-> FALSE]
  /\ cdead = [ch \in Chans |-> FALSE]
  /\ sdead = [ch \in Chans |-> FALSE]
  /\ c2s = [ch \in Chans |-> <<>>]
  /\ s2c = [ch \in Chans |-> <<>>]
  /\ nonce_ = 1
  /\ reply_window_ = {}
  /\ theForgottens = {}
  /\ conns_ = NoChan
  /\ replies = {}
  /\ freed = {}
  /\ job = [w \in Workers |-> Idle]
  /\ executed = [x \in Xids |-> 0]
  /\ sentFreed = FALSE

-----------------------------------------------------------------------------
(* connection *)

\* connection::send: what is sent on a broken connection is lost.
Sent(q, ch, m) == IF up[ch] THEN [q EXCEPT ![ch] = Append(@, m)] ELSE q

\* The connection breaks, as lossytest_ makes it do on purpose.  What was sent before may
\* still be read.  The last connection of the bound does not break.
Break(ch) ==
  /\ up[ch]
  /\ ch < MaxChan
  /\ up' = [up EXCEPT ![ch] = FALSE]
  /\ UNCHANGED <<rpccVars, cdead, sdead, c2s, s2c, rpcsVars>>

\* A read or a write fails: dead_ = true, and nothing more is read.
ClientNotices(ch) ==
  /\ ch <= chan_ /\ ~up[ch] /\ ~cdead[ch]
  /\ cdead' = [cdead EXCEPT ![ch] = TRUE]
  /\ s2c' = [s2c EXCEPT ![ch] = <<>>]
  /\ UNCHANGED <<rpccVars, up, sdead, c2s, rpcsVars>>

\* The requests that rpcs::got_pdu has put in the queue of dispatchpool_ by then stay there.
ServerNotices(ch) ==
  /\ ch <= chan_ /\ ~up[ch] /\ ~sdead[ch]
  /\ sdead' = [sdead EXCEPT ![ch] = TRUE]
  /\ \E n \in 0..Len(c2s[ch]) : c2s' = [c2s EXCEPT ![ch] = SubSeq(@, 1, n)]
  /\ UNCHANGED <<rpccVars, up, cdead, s2c, rpcsVars>>

-----------------------------------------------------------------------------
(* rpcc *)

\* update_xid_rep: the sorted list of the xids that are finished, without the prefix that
\* has no gaps; its front is the xid up to which all are.  The loop pops an element when
\* the next xid is found behind it (the loop itself is in MCRpc).
Inserted(w, x) ==
  LET later == {i \in 1..Len(w) : w[i] > x}
      i == IF later = {} THEN Len(w) + 1 ELSE Min(later)
  IN  SubSeq(w, 1, i - 1) \o <<x>> \o SubSeq(w, i, Len(w))

Compressed(w) ==
  SubSeq(w, Min({j \in 1..Len(w) : \A i \in j + 1..Len(w) : w[i] # w[j] + 1}), Len(w))

\* mutant: the loop pops one element too many
UpdatePopsOneMore(w, x) == IF x <= Head(w) THEN w ELSE Tail(Compressed(Inserted(w, x)))

\* mutant: the list is compressed without looking for gaps
UpdateOverGaps(w, x) ==
  IF x <= Head(w) THEN w ELSE LET v == Inserted(w, x) IN <<v[Len(v)]>>

update_xid_rep(w, x) == IF x <= Head(w) THEN w ELSE Compressed(Inserted(w, x))

\* call1 takes an xid and enters calls_.
StartCall(k) ==
  /\ call[k] = Idle
  /\ xid_ <= MaxXid
  /\ xid_' = xid_ + 1
  /\ call' = [call EXCEPT ![k] = [st |-> "transmit", xid |-> xid_, ch |-> NoChan,
                                  xid_rep |-> Head(xid_rep_window_), ret |-> "none"]]
  /\ UNCHANGED <<xid_rep_window_, chan_, dup_req_, xid_rep_done_, connVars, rpcsVars>>

\* get_refconn: the rpcc's connection, or a new one if it has none that is not dead.
get_refconn == IF chan_ = NoChan \/ cdead[chan_] THEN chan_ + 1 ELSE chan_

\* The request is sent, once on a given connection.  Under lossytest_ an old request is
\* sent again before it, once the server must have forgotten it.
Transmit(k) ==
  /\ call[k].st = "transmit"
  /\ get_refconn \in Chans
  /\ LET ch == get_refconn
         forgot == IF dup_req_ # <<>> /\ xid_rep_done_ > dup_req_[1].xid THEN dup_req_ ELSE <<>>
         req == [xid |-> call[k].xid, xid_rep |-> call[k].xid_rep]
     IN  /\ chan_' = ch
         /\ up' = IF ch = chan_ THEN up ELSE [up EXCEPT ![ch] = TRUE]
         /\ dup_req_' = IF forgot = <<>> THEN dup_req_ ELSE <<>>
         /\ c2s' = IF up'[ch] THEN [c2s EXCEPT ![ch] = @ \o forgot \o <<req>>] ELSE c2s
         /\ call' = [call EXCEPT ![k].st = "wait", ![k].ch = ch]
  /\ UNCHANGED <<xid_, xid_rep_window_, xid_rep_done_, cdead, sdead, s2c, rpcsVars>>

\* A timed wait ends without the reply, and the connection has died: transmit again.
Retransmit(k) ==
  /\ call[k].st = "wait"
  /\ cdead[call[k].ch]
  /\ call' = [call EXCEPT ![k].st = "transmit"]
  /\ UNCHANGED <<xid_, xid_rep_window_, chan_, dup_req_, xid_rep_done_, connVars, rpcsVars>>

\* mutant: the reply wakes whoever waits, without a look at its xid
GotReplyAnyone(ch) ==
  /\ s2c[ch] # <<>> /\ ~cdead[ch]
  /\ s2c' = [s2c EXCEPT ![ch] = Tail(@)]
  /\ xid_rep_window_' = update_xid_rep(xid_rep_window_, Head(s2c[ch]).xid)
  /\ call' = [k \in Callers |->
               IF call[k].st \in {"transmit", "wait"}
               THEN [call[k] EXCEPT !.st = "done", !.ret = Head(s2c[ch]).ret] ELSE call[k]]
  /\ UNCHANGED <<xid_, chan_, dup_req_, xid_rep_done_, up, cdead, sdead, c2s, rpcsVars>>

\* rpcc::got_pdu: a reply wakes the caller whose xid it has, if it is still there.
GotReply(ch) ==
  /\ s2c[ch] # <<>> /\ ~cdead[ch]
  /\ s2c' = [s2c EXCEPT ![ch] = Tail(@)]
  /\ LET m == Head(s2c[ch]) IN
     /\ xid_rep_window_' = update_xid_rep(xid_rep_window_, m.xid)
     /\ call' = [k \in Callers |->
                  IF call[k].st \in {"transmit", "wait"} /\ call[k].xid = m.xid
                  THEN [call[k] EXCEPT !.st = "done", !.ret = m.ret] ELSE call[k]]
  /\ UNCHANGED <<xid_, chan_, dup_req_, xid_rep_done_, up, cdead, sdead, c2s, rpcsVars>>

\* call1 has the reply: the call leaves calls_ and its xid counts as finished.
Return(k) ==
  /\ call[k].st = "done"
  /\ xid_rep_window_' = update_xid_rep(xid_rep_window_, call[k].xid)
  /\ call' = IF lossytest THEN [call EXCEPT ![k].st = "record"] ELSE [call EXCEPT ![k] = Idle]
  /\ UNCHANGED <<xid_, chan_, dup_req_, xid_rep_done_, connVars, rpcsVars>>

\* Under lossytest_, m_ is taken again and the request is kept for a duplicate.
Record(k) ==
  /\ call[k].st = "record"
  /\ dup_req_' = IF dup_req_ # <<>> THEN dup_req_
                 ELSE <<[xid |-> call[k].xid, xid_rep |-> call[k].xid_rep]>>
  /\ xid_rep_done_' = Max({xid_rep_done_, call[k].xid_rep})
  /\ call' = [call EXCEPT ![k] = Idle]
  /\ UNCHANGED <<xid_, xid_rep_window_, chan_, connVars, rpcsVars>>

\* The final deadline passes: timeout_failure, and the xid counts as finished.
Timeout(k) ==
  /\ call[k].st = "wait"
  /\ xid_rep_window_' = update_xid_rep(xid_rep_window_, call[k].xid)
  /\ call' = [call EXCEPT ![k] = Idle]
  /\ UNCHANGED <<xid_, chan_, dup_req_, xid_rep_done_, connVars, rpcsVars>>

-----------------------------------------------------------------------------
(* rpcs *)

\* A dispatch thread takes the next request.  One for an earlier instance of the server is
\* refused; otherwise its connection becomes the client's latest if it is newer.
TakeJob(w, ch) ==
  /\ job[w] = Idle
  /\ c2s[ch] # <<>>
  /\ c2s' = [c2s EXCEPT ![ch] = Tail(@)]
  /\ LET h == Head(c2s[ch]) IN
     IF nonce_ # 1
     THEN /\ s2c' = Sent(s2c, ch, [xid |-> h.xid, ret |-> "oldsrv"])
          /\ UNCHANGED <<conns_, job>>
     ELSE /\ conns_' = Max({conns_, ch})
          /\ job' = [job EXCEPT ![w] = [st |-> "check", xid |-> h.xid, xid_rep |-> h.xid_rep,
                                        ch |-> ch, buf |-> FALSE]]
          /\ UNCHANGED s2c
  /\ UNCHANGED <<rpccVars, up, cdead, sdead, nonce_, replyVars, histVars>>

\* mutant: theForgottens is not consulted
CheckUnforgetting(w) ==
  /\ job[w].st = "check"
  /\ LET x == job[w].xid
         new == x \notin reply_window_
         window == IF new THEN reply_window_ \cup {x} ELSE reply_window_
         trimmed == {y \in window : y <= job[w].xid_rep}
     IN  /\ reply_window_' = window \ trimmed
         /\ theForgottens' = theForgottens \cup trimmed
         /\ freed' = freed \cup (replies \cap trimmed)
         /\ replies' = replies \ trimmed
         /\ job' = [job EXCEPT ![w].st = IF x \in reply_window_ THEN "sendDone"
                                         ELSE IF new THEN "run" ELSE "sendForgotten",
                               ![w].buf = x \in replies]
  /\ UNCHANGED <<rpccVars, connVars, nonce_, conns_, histVars>>

\* mutant: the window is trimmed past xid_rep
CheckTrimsOneMore(w) ==
  /\ job[w].st = "check"
  /\ LET x == job[w].xid
         new == x \notin reply_window_ \cup theForgottens
         window == IF new THEN reply_window_ \cup {x} ELSE reply_window_
         trimmed == {y \in window : y <= job[w].xid_rep + 1}
     IN  /\ reply_window_' = window \ trimmed
         /\ theForgottens' = theForgottens \cup trimmed
         /\ freed' = freed \cup (replies \cap trimmed)
         /\ replies' = replies \ trimmed
         /\ job' = [job EXCEPT ![w].st = IF x \in reply_window_ THEN "sendDone"
                                         ELSE IF new THEN "run" ELSE "sendForgotten",
                               ![w].buf = x \in replies]
  /\ UNCHANGED <<rpccVars, connVars, nonce_, conns_, histVars>>

\* checkduplicate_and_update.  An xid of the window is DONE, whether or not its reply is
\* there yet; what the client has acknowledged leaves the window and its reply is freed.
checkduplicate_and_update(w) ==
  /\ job[w].st = "check"
  /\ LET x == job[w].xid
         new == x \notin reply_window_ \cup theForgottens
         window == IF new THEN reply_window_ \cup {x} ELSE reply_window_
         trimmed == {y \in window : y <= job[w].xid_rep}
     IN  /\ reply_window_' = window \ trimmed
         /\ theForgottens' = theForgottens \cup trimmed
         /\ freed' = freed \cup (replies \cap trimmed)
         /\ replies' = replies \ trimmed
         /\ job' = [job EXCEPT ![w].st = IF x \in reply_window_ THEN "sendDone"
                                         ELSE IF new THEN "run" ELSE "sendForgotten",
                               ![w].buf = x \in replies]
  /\ UNCHANGED <<rpccVars, connVars, nonce_, conns_, histVars>>

\* The handler runs, and add_reply keeps its reply if the xid is still in the window.
Run(w) ==
  /\ job[w].st = "run"
  /\ executed' = [executed EXCEPT ![job[w].xid] = @ + 1]
  /\ replies' = replies \cup ({job[w].xid} \cap reply_window_)
  /\ job' = [job EXCEPT ![w].st = "connect", ![w].buf = TRUE]
  /\ UNCHANGED <<rpccVars, connVars, nonce_, conns_, reply_window_, theForgottens, freed, sentFreed>>

\* The reply goes to the client's latest connection if the request's own is known dead.
LatestConnection(w) ==
  /\ job[w].st = "connect"
  /\ job' = [job EXCEPT ![w].st = "send", ![w].ch = IF sdead[@] THEN conns_ ELSE @]
  /\ UNCHANGED <<rpccVars, connVars, nonce_, replyVars, conns_, histVars>>

\* What send finds in the buffer of x: its reply; nothing, where the duplicate was of a
\* request still in progress (the buffer is NULL and the size 0); and after the free
\* whatever now has the memory, another client's reply or a request included: anything
\* that got_pdu takes for a reply, or nothing it recognises.
Contents(x, buf) ==
  IF ~buf THEN {<<>>}
  ELSE IF x \in freed THEN {<<>>} \cup {<<m>> : m \in Reply}
  ELSE {<<[xid |-> x, ret |-> "OK"]>>}

\* connection::send of a reply, after which the dispatch is over.
Send(w) ==
  /\ job[w].st \in {"send", "sendDone"}
  /\ \E m \in Contents(job[w].xid, job[w].buf) :
       s2c' = IF up[job[w].ch] THEN [s2c EXCEPT ![job[w].ch] = @ \o m] ELSE s2c
  /\ sentFreed' = (sentFreed \/ (job[w].buf /\ job[w].xid \in freed))
  /\ job' = [job EXCEPT ![w] = Idle]
  /\ UNCHANGED <<rpccVars, up, cdead, sdead, c2s, nonce_, replyVars, conns_, executed>>

SendForgotten(w) ==
  /\ job[w].st = "sendForgotten"
  /\ s2c' = Sent(s2c, job[w].ch, [xid |-> job[w].xid, ret |-> "atmostonce"])
  /\ job' = [job EXCEPT ![w] = Idle]
  /\ UNCHANGED <<rpccVars, up, cdead, sdead, c2s, nonce_, replyVars, conns_, histVars>>

\* mutant: the new instance has the nonce of the old one
RestartSameNonce ==
  /\ nonce_ < MaxNonce
  /\ chan_ \in 1..MaxChan - 1
  /\ nonce_' = nonce_
  /\ up' = [ch \in Chans |-> FALSE]
  /\ sdead' = [ch \in Chans |-> ch <= chan_]
  /\ c2s' = [ch \in Chans |-> <<>>]
  /\ reply_window_' = {} /\ theForgottens' = {} /\ replies' = {} /\ freed' = {}
  /\ conns_' = NoChan
  /\ job' = [w \in Workers |-> Idle]
  /\ UNCHANGED <<rpccVars, cdead, s2c, histVars>>

\* The server stops and another instance of it starts, with another nonce.
Restart ==
  /\ nonce_ < MaxNonce
  /\ chan_ \in 1..MaxChan - 1
  /\ nonce_' = nonce_ + 1
  /\ up' = [ch \in Chans |-> FALSE]
  /\ sdead' = [ch \in Chans |-> ch <= chan_]
  /\ c2s' = [ch \in Chans |-> <<>>]
  /\ reply_window_' = {} /\ theForgottens' = {} /\ replies' = {} /\ freed' = {}
  /\ conns_' = NoChan
  /\ job' = [w \in Workers |-> Idle]
  /\ UNCHANGED <<rpccVars, cdead, s2c, histVars>>

-----------------------------------------------------------------------------
Connection(ch) == Break(ch) \/ ClientNotices(ch) \/ ServerNotices(ch)

Client(k) == StartCall(k) \/ Transmit(k) \/ Retransmit(k) \/ Return(k) \/ Record(k) \/ Timeout(k)

DispatchStep(w) ==
  \/ \E ch \in Chans : TakeJob(w, ch)
  \/ checkduplicate_and_update(w) \/ Run(w) \/ LatestConnection(w)
  \/ Send(w) \/ SendForgotten(w)

Next ==
  \/ \E ch \in Chans : Connection(ch) \/ GotReply(ch)
  \/ \E k \in Callers : Client(k)
  \/ \E w \in Workers : DispatchStep(w)
  \/ Restart

Spec == Init /\ [][Next]_vars

-----------------------------------------------------------------------------
(* Properties *)

\* At-most-once: however often a request is transmitted, and whatever instance of the
\* server it reaches, its handler runs at most once.
AtMostOnce == \A x \in Xids : executed[x] <= 1

\* A call that is answered has been executed, unless the server is another instance: a
\* caller is never given another call's reply, nor a false atmostonce_failure, as long as
\* dispatch has sent no buffer that was freed under it.
AnsweredByExecution ==
  ~sentFreed => \A k \in Callers : call[k].st \in {"done", "record"} =>
    \/ call[k].ret = "OK" /\ executed[call[k].xid] = 1
    \/ call[k].ret = "oldsrv" /\ nonce_ > 1

\* update_xid_rep: the window is increasing, and its front never passes a call that is
\* still waiting, so that the server keeps the reply of every such call.  A freed buffer
\* may be taken for the reply of any call, and only then does the front pass one.
XidRepSound ==
  /\ \A i, j \in 1..Len(xid_rep_window_) : i < j => xid_rep_window_[i] <= xid_rep_window_[j]
  /\ ~sentFreed => \A k \in Callers :
       call[k].st \in {"transmit", "wait"} => Head(xid_rep_window_) < call[k].xid

\* The server keeps the reply of a call that is still waiting: only what the client has
\* finished with is forgotten, until a freed buffer is sent.
RepliesKept ==
  ~sentFreed => \A k \in Callers : call[k].st \in {"transmit", "wait"} =>
    call[k].xid \notin theForgottens \cup freed

\* What at-most-once rests on: while the first instance serves, a request whose handler
\* has run or is about to run is in the window or forgotten, so that no other dispatch
\* takes it for new; and one dispatch at a time is about to run it.
OnceInv ==
  /\ AtMostOnce
  /\ \A x \in Xids : nonce_ = 1 /\ executed[x] > 0 => x \in reply_window_ \cup theForgottens
  /\ \A w \in Workers : job[w].st = "run" =>
       /\ executed[job[w].xid] = 0
       /\ job[w].xid \in reply_window_ \cup theForgottens
       /\ \A v \in Workers : job[v].st = "run" /\ job[v].xid = job[w].xid => v = w
  /\ nonce_ > 1 => \A w \in Workers : job[w] = Idle

\* DONE is "duplicate of an RPC we already replied to (have reply)".
DoneHasReply == \A w \in Workers : job[w].st = "sendDone" => job[w].buf

\* checkduplicate_and_update frees a reply once "the client says it has received" it, and a
\* DONE is sent because "we still have the response": the buffer that dispatch is about to
\* send has not been freed.
SendsLiveBuffer ==
  \A w \in Workers : job[w].st \in {"send", "sendDone"} /\ job[w].buf => job[w].xid \notin freed
=============================================================================
