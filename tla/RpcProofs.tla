----------------------------- MODULE RpcProofs ------------------------------
(***************************************************************************)
(* At-most-once execution of the RPC library, for every number of callers, *)
(* of dispatch threads, of calls, of connections and of restarts.          *)
(*                                                                         *)
(* The argument is about the server.  Of the client it needs that every    *)
(* request under way carries an xid that was given out; the xid_rep a      *)
(* request carries is arbitrary, so at-most-once does not depend on        *)
(* rpcc::update_xid_rep.                                                   *)
(***************************************************************************)
EXTENDS Rpc, WellFoundedInduction, TLAPS

\* A set of naturals that is not empty has a least element.
LEMMA MinNat ==
  ASSUME NEW T, T \subseteq Nat, T # {}
  PROVE  Min(T) \in T /\ \A y \in T : Min(T) <= y
<1> DEFINE R == {ss \in Nat \X Nat : ss[1] < ss[2]}
<1>1. IsWellFoundedOn(R, Nat)
  BY NatLessThanWellFounded DEF OpToRel
<1>2. PICK x \in T : \A y \in T : <<y, x>> \notin R
  BY <1>1, WFMin, Zenon
<1>3. ASSUME NEW y \in T PROVE x <= y
  <2>1. x \in Nat /\ y \in Nat
    OBVIOUS
  <2>2. ~ (y < x)
    BY <1>2, <2>1, Zenon
  <2> QED
    BY <2>1, <2>2
<1> QED
  BY <1>3, Zenon DEF Min

LEMMA MaxPair ==
  ASSUME NEW a \in Int, NEW b \in Int
  PROVE  Max({a, b}) = IF a >= b THEN a ELSE b
  BY DEF Max

\* The window of the client's finished xids is a list of naturals that is never empty:
\* compressing it stops at its last element at the latest.
LEMMA WindowType ==
  ASSUME NEW w \in Seq(Nat), w # <<>>, NEW x \in Nat
  PROVE  update_xid_rep(w, x) \in Seq(Nat) /\ update_xid_rep(w, x) # <<>>
<1> DEFINE later == {i \in 1..Len(w) : w[i] > x}
           i == IF later = {} THEN Len(w) + 1 ELSE Min(later)
           v == SubSeq(w, 1, i - 1) \o <<x>> \o SubSeq(w, i, Len(w))
           keep == {j \in 1..Len(v) : \A h \in j + 1..Len(v) : v[h] # v[j] + 1}
<1>1. i \in 1..Len(w) + 1
  <2>1. CASE later = {}
    BY <2>1
  <2>2. CASE later # {}
    <3>1. later \subseteq Nat
      OBVIOUS
    <3>2. Min(later) \in later
      <4> HIDE DEF later
      <4> QED
        BY <2>2, <3>1, MinNat, Zenon
    <3> QED
      BY <2>2, <3>2
  <2> QED
    BY <2>1, <2>2
<1>2. v \in Seq(Nat) /\ Len(v) >= 1
  <2> HIDE DEF i
  <2>1. SubSeq(w, 1, i - 1) \in Seq(Nat) /\ SubSeq(w, i, Len(w)) \in Seq(Nat)
    BY <1>1
  <2> QED
    BY <2>1
<1>3. v = Inserted(w, x)
  BY DEF Inserted
<1> HIDE DEF v
<1>4. Len(v) \in keep
  BY <1>2
<1>4a. keep \subseteq Nat
  OBVIOUS
<1> HIDE DEF keep
<1>5. Min(keep) \in keep
  BY <1>4, <1>4a, MinNat, Zenon
<1>6. Min(keep) \in 1..Len(v)
  BY <1>5 DEF keep
<1>7. SubSeq(v, Min(keep), Len(v)) \in Seq(Nat) /\ SubSeq(v, Min(keep), Len(v)) # <<>>
  <2> DEFINE a == Min(keep)
  <2>1. a \in 1..Len(v)
    BY <1>6
  <2> HIDE DEF a
  <2>2. SubSeq(v, a, Len(v)) \in Seq(Nat)
    BY <1>2, <2>1
  <2>3. Len(SubSeq(v, a, Len(v))) = Len(v) - a + 1
    BY <1>2, <2>1
  <2>4. SubSeq(v, a, Len(v)) # <<>>
    <3> DEFINE u == SubSeq(v, a, Len(v))
    <3>1. Len(u) >= 1
      BY <1>2, <2>1, <2>3
    <3> HIDE DEF u
    <3>2. u # <<>>
      BY <3>1
    <3> QED
      BY <3>2 DEF u
  <2> QED
    BY <2>2, <2>4 DEF a
<1>8. Compressed(v) = SubSeq(v, Min(keep), Len(v))
  BY DEF Compressed, keep
<1> QED
  BY <1>3, <1>7, <1>8 DEF update_xid_rep

\* Beside the types: a dispatch that is under way has recorded a connection of the client.
TInv == TypeOK /\ \A w \in Workers : job[w] # Idle => conns_ \in Chans

LEMMA InitType ==
  ASSUME Init
  PROVE  TInv
<1>1. <<0>> \in Seq(Nat) /\ <<0>> # <<>>
  OBVIOUS
<1>2. <<>> \in Seq(Request) /\ <<>> \in Seq(Reply)
  OBVIOUS
<1>3. xid_ \in 1..MaxXid + 1 /\ nonce_ \in 1..MaxNonce
  BY RpcAssumption DEF Init
<1>4. sentFreed \in BOOLEAN
  BY Zenon DEF Init
<1> QED
  BY <1>1, <1>2, <1>3, <1>4 DEF Init, TInv, TypeOK

\* A step of a calling thread.
LEMMA ClientType ==
  ASSUME TInv, NEW k \in Callers, Client(k)
  PROVE  TInv'
<1>0. TypeOK /\ \A w \in Workers : job[w] # Idle => conns_ \in Chans
  BY DEF TInv
<1>1. CASE StartCall(k)
  <2>1. xid_ \in Xids /\ xid_' \in 1..MaxXid + 1
    BY <1>0, <1>1, RpcAssumption DEF StartCall, TypeOK, Xids
  <2>2. Head(xid_rep_window_) \in Nat
    BY <1>0 DEF TypeOK
  <2>3. call' \in [Callers -> {Idle} \cup Calling]
    BY <1>0, <1>1, <2>1, <2>2 DEF StartCall, TypeOK, Calling, NoChan
  <2> QED
    BY <1>0, <1>1, <2>1, <2>3, SMTT(30) DEF StartCall, TypeOK, TInv, connVars, rpcsVars, replyVars, histVars
<1>2. CASE Transmit(k)
  <2> DEFINE ch == get_refconn
             forgot == IF dup_req_ # <<>> /\ xid_rep_done_ > dup_req_[1].xid
                       THEN dup_req_ ELSE <<>>
             req == [xid |-> call[k].xid, xid_rep |-> call[k].xid_rep]
  <2>1. call[k] \in Calling /\ ch \in Chans
    BY <1>0, <1>2 DEF Transmit, TypeOK, Idle
  <2>2. req \in Request
    BY <2>1 DEF Calling, Request
  <2>3. forgot \in Seq(Request) /\ dup_req_' \in Seq(Request)
    BY <1>0, <1>2 DEF Transmit, TypeOK
  <2>4. c2s[ch] \o forgot \o <<req>> \in Seq(Request)
    <3>1. c2s[ch] \in Seq(Request)
      BY <1>0, <2>1 DEF TypeOK
    <3> HIDE DEF ch, forgot, req
    <3> QED
      BY <3>1, <2>2, <2>3
  <2>5. c2s' = c2s \/ c2s' = [c2s EXCEPT ![ch] = @ \o forgot \o <<req>>]
    BY <1>2 DEF Transmit
  <2>6. c2s' \in [Chans -> Seq(Request)]
    <3> HIDE DEF ch, forgot, req
    <3> QED
      BY <1>0, <2>1, <2>4, <2>5, Zenon DEF TypeOK
  <2>7. call' \in [Callers -> {Idle} \cup Calling]
    <3>1. call' = [call EXCEPT ![k].st = "wait", ![k].ch = ch]
      BY <1>2 DEF Transmit
    <3> HIDE DEF ch
    <3> QED
      BY <1>0, <2>1, <3>1, Zenon DEF TypeOK, Calling
  <2>8. chan_' \in Chans \cup {NoChan} /\ up' \in [Chans -> BOOLEAN]
    BY <1>0, <1>2, <2>1 DEF Transmit, TypeOK
  <2> QED
    BY <1>0, <1>2, <2>3, <2>6, <2>7, <2>8, Zenon DEF Transmit, TypeOK, TInv, rpcsVars, replyVars, histVars
<1>3. CASE Retransmit(k)
  <2>1. call[k] \in Calling
    BY <1>0, <1>3 DEF Retransmit, TypeOK, Idle
  <2>2. call' \in [Callers -> {Idle} \cup Calling]
    BY <1>0, <1>3, <2>1, Zenon DEF Retransmit, TypeOK, Calling
  <2> QED
    BY <1>0, <1>3, <2>2, SMTT(30) DEF Retransmit, TypeOK, TInv, connVars, rpcsVars, replyVars, histVars
<1>4. ASSUME call[k] \in Calling,
             xid_rep_window_' = update_xid_rep(xid_rep_window_, call[k].xid)
      PROVE  xid_rep_window_' \in Seq(Nat) /\ xid_rep_window_' # <<>>
  <2>1. call[k].xid \in Nat
    BY <1>4, RpcAssumption DEF Calling, Xids
  <2>2. xid_rep_window_ \in Seq(Nat) /\ xid_rep_window_ # <<>>
    BY <1>0 DEF TypeOK
  <2> QED
    BY <1>4, <2>1, <2>2, WindowType, Zenon
<1>5. CASE Return(k)
  <2>1. call[k] \in Calling
    BY <1>0, <1>5 DEF Return, TypeOK, Idle
  <2>2. call' \in [Callers -> {Idle} \cup Calling]
    <3>1. call' = [call EXCEPT ![k].st = "record"] \/ call' = [call EXCEPT ![k] = Idle]
      BY <1>5 DEF Return
    <3>2. [call[k] EXCEPT !.st = "record"] \in Calling
      BY <2>1 DEF Calling
    <3> QED
      BY <1>0, <3>1, <3>2, Zenon DEF TypeOK
  <2> QED
    BY <1>0, <1>4, <1>5, <2>1, <2>2, Zenon
       DEF Return, TypeOK, TInv, connVars, rpcsVars, replyVars, histVars
<1>6. CASE Record(k)
  <2>1. call[k] \in Calling
    BY <1>0, <1>6 DEF Record, TypeOK, Idle
  <2>2. [xid |-> call[k].xid, xid_rep |-> call[k].xid_rep] \in Request /\ call[k].xid_rep \in Nat
    BY <2>1 DEF Calling, Request
  <2>3. dup_req_' \in Seq(Request)
    <3> DEFINE r == [xid |-> call[k].xid, xid_rep |-> call[k].xid_rep]
    <3>1. dup_req_' = dup_req_ \/ dup_req_' = <<r>>
      BY <1>6 DEF Record
    <3>2. r \in Request
      BY <2>2
    <3> HIDE DEF r
    <3>3. <<r>> \in Seq(Request)
      BY <3>2
    <3> QED
      BY <1>0, <3>1, <3>3, Zenon DEF TypeOK
  <2>4. xid_rep_done_' \in Int
    <3>1. xid_rep_done_ \in Int /\ call[k].xid_rep \in Int
      BY <1>0, <2>2 DEF TypeOK
    <3>2. Max({xid_rep_done_, call[k].xid_rep}) \in Int
      BY <3>1, MaxPair
    <3> QED
      BY <1>6, <3>2 DEF Record
  <2>5. call' \in [Callers -> {Idle} \cup Calling]
    BY <1>0, <1>6 DEF Record, TypeOK
  <2> QED
    BY <1>0, <1>6, <2>3, <2>4, <2>5, Zenon
       DEF Record, TypeOK, TInv, connVars, rpcsVars, replyVars, histVars
<1>7. CASE Timeout(k)
  <2>1. call[k] \in Calling
    BY <1>0, <1>7 DEF Timeout, TypeOK, Idle
  <2>2. call' \in [Callers -> {Idle} \cup Calling]
    BY <1>0, <1>7 DEF Timeout, TypeOK
  <2> QED
    BY <1>0, <1>4, <1>7, <2>1, <2>2, Zenon
       DEF Timeout, TypeOK, TInv, connVars, rpcsVars, replyVars, histVars
<1> QED
  BY <1>1, <1>2, <1>3, <1>5, <1>6, <1>7 DEF Client

\* A connection breaks or is found broken, or a reply arrives.
LEMMA ConnectionType ==
  ASSUME TInv, NEW ch \in Chans, Connection(ch) \/ GotReply(ch)
  PROVE  TInv'
<1>0. TypeOK /\ \A w \in Workers : job[w] # Idle => conns_ \in Chans
  BY DEF TInv
<1>1. CASE Break(ch)
  BY <1>0, <1>1 DEF Break, TypeOK, TInv, rpccVars, rpcsVars, replyVars, histVars
<1>2. CASE ClientNotices(ch)
  BY <1>0, <1>2 DEF ClientNotices, TypeOK, TInv, rpccVars, rpcsVars, replyVars, histVars
<1>3. CASE ServerNotices(ch)
  <2>1. c2s[ch] \in Seq(Request)
    BY <1>0 DEF TypeOK
  <2>2. ASSUME NEW n \in 0..Len(c2s[ch]) PROVE SubSeq(c2s[ch], 1, n) \in Seq(Request)
    BY <2>1
  <2>3. c2s' \in [Chans -> Seq(Request)]
    BY <1>0, <1>3, <2>2, Zenon DEF ServerNotices, TypeOK
  <2>4. sdead' \in [Chans -> BOOLEAN]
    BY <1>0, <1>3, Zenon DEF ServerNotices, TypeOK
  <2> QED
    BY <1>0, <1>3, <2>3, <2>4, Zenon DEF ServerNotices, TypeOK, TInv, rpccVars, rpcsVars, replyVars, histVars
<1>4. CASE GotReply(ch)
  <2> DEFINE m == Head(s2c[ch])
  <2>1. s2c[ch] \in Seq(Reply) /\ s2c[ch] # <<>>
    BY <1>0, <1>4, Zenon DEF GotReply, TypeOK
  <2>2. m \in Reply /\ Tail(s2c[ch]) \in Seq(Reply)
    BY <2>1
  <2>3. s2c' \in [Chans -> Seq(Reply)]
    BY <1>0, <1>4, <2>2, Zenon DEF GotReply, TypeOK
  <2>4. call' = [k \in Callers |->
                  IF call[k].st \in {"transmit", "wait"} /\ call[k].xid = m.xid
                  THEN [call[k] EXCEPT !.st = "done", !.ret = m.ret] ELSE call[k]]
    BY <1>4, Zenon DEF GotReply
  <2>5. xid_rep_window_' = update_xid_rep(xid_rep_window_, m.xid)
    BY <1>4, Zenon DEF GotReply
  <2> HIDE DEF m
  <2>6. call' \in [Callers -> {Idle} \cup Calling]
    <3>1. ASSUME NEW k \in Callers PROVE call'[k] \in {Idle} \cup Calling
      <4>1. CASE call[k].st \in {"transmit", "wait"} /\ call[k].xid = m.xid
        <5>1. call[k] \in Calling
          BY <1>0, <4>1 DEF TypeOK, Idle
        <5> QED
          BY <2>2, <2>4, <4>1, <5>1, Zenon DEF Calling, Reply
      <4>2. CASE ~(call[k].st \in {"transmit", "wait"} /\ call[k].xid = m.xid)
        BY <1>0, <2>4, <4>2, Zenon DEF TypeOK
      <4> QED
        BY <4>1, <4>2
    <3> QED
      BY <2>4, <3>1, Zenon
  <2>7. xid_rep_window_' \in Seq(Nat) /\ xid_rep_window_' # <<>>
    <3>1. m.xid \in Nat
      BY <2>2, RpcAssumption DEF Reply, Xids
    <3> QED
      BY <1>0, <2>5, <3>1, WindowType, Zenon DEF TypeOK
  <2> QED
    BY <1>0, <1>4, <2>3, <2>6, <2>7, Zenon DEF GotReply, TypeOK, TInv, rpcsVars, replyVars, histVars
<1> QED
  BY <1>1, <1>2, <1>3, <1>4 DEF Connection

\* A step of a dispatch thread.
LEMMA DispatchType ==
  ASSUME TInv, NEW w \in Workers, DispatchStep(w)
  PROVE  TInv'
<1>0. TypeOK /\ \A v \in Workers : job[v] # Idle => conns_ \in Chans
  BY DEF TInv
<1>1. ASSUME NEW ch \in Chans, TakeJob(w, ch) PROVE TInv'
  <2> DEFINE h == Head(c2s[ch])
  <2>1. c2s[ch] \in Seq(Request) /\ c2s[ch] # <<>>
    BY <1>0, <1>1 DEF TakeJob, TypeOK
  <2>2. h \in Request /\ Tail(c2s[ch]) \in Seq(Request)
    BY <2>1
  <2>3. c2s' \in [Chans -> Seq(Request)]
    BY <1>0, <1>1, <2>2 DEF TakeJob, TypeOK
  <2>4. CASE nonce_ # 1
    <3> DEFINE r == [xid |-> h.xid, ret |-> "oldsrv"]
    <3>1. r \in Reply
      BY <2>2 DEF Request, Reply
    <3>2. s2c' = Sent(s2c, ch, r) /\ UNCHANGED <<conns_, job>>
      BY <1>1, <2>4 DEF TakeJob
    <3> HIDE DEF r, h
    <3>3. s2c' \in [Chans -> Seq(Reply)]
      BY <1>0, <3>1, <3>2 DEF Sent, TypeOK
    <3> QED
      BY <1>0, <1>1, <2>3, <3>2, <3>3, Zenon DEF TakeJob, TypeOK, TInv, rpccVars, replyVars, histVars
  <2>5. CASE nonce_ = 1
    <3>1. conns_ \in Int /\ ch \in Int
      BY <1>0, RpcAssumption DEF TypeOK, Chans, NoChan
    <3>2. conns_' \in Chans
      <4>1. conns_' = Max({conns_, ch})
        BY <1>1, <2>5 DEF TakeJob
      <4>2. conns_' = IF conns_ >= ch THEN conns_ ELSE ch
        BY <3>1, <4>1, MaxPair
      <4> QED
        BY <1>0, <3>1, <4>2 DEF TypeOK, Chans, NoChan
    <3>3. job' \in [Workers -> {Idle} \cup Dispatch]
      <4> DEFINE d == [st |-> "check", xid |-> h.xid, xid_rep |-> h.xid_rep,
                       ch |-> ch, buf |-> FALSE]
      <4>1. job' = [job EXCEPT ![w] = d]
        BY <1>1, <2>5 DEF TakeJob
      <4> HIDE DEF h
      <4>2. d \in Dispatch
        BY <2>2 DEF Dispatch, Request
      <4> QED
        BY <1>0, <4>1, <4>2 DEF TypeOK
    <3> QED
      BY <1>0, <1>1, <2>3, <2>5, <3>2, <3>3, Zenon DEF TakeJob, TypeOK, TInv, rpccVars, replyVars, histVars
  <2> QED
    BY <2>4, <2>5
<1>2. CASE checkduplicate_and_update(w)
  <2>1. job[w] \in Dispatch
    BY <1>0, <1>2 DEF checkduplicate_and_update, TypeOK, Idle
  <2>2. job' \in [Workers -> {Idle} \cup Dispatch]
    <3> DEFINE b == job[w].xid \in replies
    <3>1. b \in BOOLEAN
      OBVIOUS
    <3>2. PICK s \in {"sendDone", "run", "sendForgotten"} :
            job' = [job EXCEPT ![w].st = s, ![w].buf = b]
      BY <1>2, Zenon DEF checkduplicate_and_update
    <3> HIDE DEF b
    <3> QED
      BY <1>0, <2>1, <3>1, <3>2, Zenon DEF TypeOK, Dispatch
  <2>3. \A v \in Workers : job'[v] # Idle => job[v] # Idle
    BY <1>0, <1>2, <2>1 DEF checkduplicate_and_update, TypeOK, Idle
  <2>4. /\ reply_window_' \subseteq Xids /\ theForgottens' \subseteq Xids
        /\ replies' \subseteq reply_window_' /\ freed' \subseteq Xids
    BY <1>0, <1>2, <2>1 DEF checkduplicate_and_update, TypeOK, Dispatch
  <2> QED
    BY <1>0, <1>2, <2>2, <2>3, <2>4, Zenon
       DEF checkduplicate_and_update, TypeOK, TInv, rpccVars, connVars, histVars
<1>3. CASE Run(w)
  <2>1. job[w] \in Dispatch
    BY <1>0, <1>3 DEF Run, TypeOK, Idle
  <2>2. job' \in [Workers -> {Idle} \cup Dispatch]
    BY <1>0, <1>3, <2>1, Zenon DEF Run, TypeOK, Dispatch
  <2>3. \A v \in Workers : job'[v] # Idle => job[v] # Idle
    BY <1>0, <1>3 DEF Run, TypeOK, Idle
  <2>4. executed' \in [Xids -> Nat] /\ replies' \subseteq reply_window_'
    <3>1. job[w].xid \in Xids
      BY <2>1 DEF Dispatch
    <3>2. executed' = [executed EXCEPT ![job[w].xid] = @ + 1] /\ executed \in [Xids -> Nat]
      BY <1>0, <1>3 DEF Run, TypeOK
    <3>3. executed' \in [Xids -> Nat]
      BY <3>1, <3>2
    <3> QED
      BY <1>0, <1>3, <3>3 DEF Run, TypeOK
  <2> QED
    BY <1>0, <1>3, <2>2, <2>3, <2>4, Zenon DEF Run, TypeOK, TInv, rpccVars, connVars
<1>4. CASE LatestConnection(w)
  <2>1. job[w] \in Dispatch /\ conns_ \in Chans
    BY <1>0, <1>4 DEF LatestConnection, TypeOK, Idle
  <2>2. job' \in [Workers -> {Idle} \cup Dispatch]
    BY <1>0, <1>4, <2>1, Zenon DEF LatestConnection, TypeOK, Dispatch
  <2> QED
    BY <1>0, <1>4, <2>1, <2>2, Zenon DEF LatestConnection, TypeOK, TInv, rpccVars, connVars, replyVars, histVars
<1>5. CASE Send(w)
  <2>1. job[w] \in Dispatch
    BY <1>0, <1>5 DEF Send, TypeOK, Idle
  <2>2. job[w].xid \in Xids /\ job[w].ch \in Chans
    BY <2>1 DEF Dispatch
  <2>3. ASSUME NEW m \in Contents(job[w].xid, job[w].buf) PROVE m \in Seq(Reply)
    <3>1. [xid |-> job[w].xid, ret |-> "OK"] \in Reply
      BY <2>2 DEF Reply
    <3>2. m = <<>> \/ \E r \in Reply : m = <<r>>
      BY <2>3, <3>1, Zenon DEF Contents
    <3>3. <<>> \in Seq(Reply)
      OBVIOUS
    <3>4. \A r \in Reply : <<r>> \in Seq(Reply)
      OBVIOUS
    <3> QED
      BY <3>2, <3>3, <3>4, Zenon
  <2>4. PICK m \in Contents(job[w].xid, job[w].buf) :
          s2c' = IF up[job[w].ch] THEN [s2c EXCEPT ![job[w].ch] = @ \o m] ELSE s2c
    BY <1>5, Zenon DEF Send
  <2>5. s2c' \in [Chans -> Seq(Reply)]
    <3>1. m \in Seq(Reply)
      BY <2>3
    <3>2. s2c[job[w].ch] \o m \in Seq(Reply)
      BY <1>0, <2>2, <3>1 DEF TypeOK
    <3> QED
      BY <1>0, <2>2, <2>4, <3>2 DEF TypeOK
  <2>6. sentFreed' \in BOOLEAN
    BY <1>0, <1>5, Zenon DEF Send, TypeOK
  <2> QED
    BY <1>0, <1>5, <2>5, <2>6, SMTT(30) DEF Send, TypeOK, TInv, rpccVars, replyVars, histVars
<1>6. CASE SendForgotten(w)
  <2> DEFINE r == [xid |-> job[w].xid, ret |-> "atmostonce"]
  <2>1. job[w] \in Dispatch
    BY <1>0, <1>6 DEF SendForgotten, TypeOK, Idle
  <2>2. r \in Reply /\ job[w].ch \in Chans
    BY <2>1 DEF Dispatch, Reply
  <2>3. s2c' = Sent(s2c, job[w].ch, r)
    BY <1>6 DEF SendForgotten
  <2> HIDE DEF r
  <2>4. s2c' \in [Chans -> Seq(Reply)]
    BY <1>0, <2>2, <2>3 DEF Sent, TypeOK
  <2> QED
    BY <1>0, <1>6, <2>4, Zenon DEF SendForgotten, TypeOK, TInv, rpccVars, replyVars, histVars
<1> QED
  BY <1>1, <1>2, <1>3, <1>4, <1>5, <1>6 DEF DispatchStep

\* The server starts again.
LEMMA RestartType ==
  ASSUME TInv, Restart
  PROVE  TInv'
<1>1. TypeOK
  BY DEF TInv
<1>2. nonce_' \in 1..MaxNonce
  BY <1>1, RpcAssumption DEF Restart, TypeOK
<1>3. c2s' \in [Chans -> Seq(Request)]
  BY DEF Restart
<1>4. up' \in [Chans -> BOOLEAN] /\ sdead' \in [Chans -> BOOLEAN]
  BY DEF Restart
<1> QED
  BY <1>1, <1>2, <1>3, <1>4 DEF Restart, TypeOK, TInv, rpccVars, histVars

LEMMA StepType ==
  ASSUME TInv, [Next]_vars
  PROVE  TInv'
<1>1. CASE UNCHANGED vars
  BY <1>1 DEF vars, rpccVars, connVars, rpcsVars, replyVars, histVars, TInv, TypeOK
<1>2. CASE Next
  BY <1>2, ClientType, ConnectionType, DispatchType, RestartType DEF Next
<1> QED
  BY <1>1, <1>2

\* The rpcc and the rpcs keep every variable within its type; in particular the client's
\* window is never empty when call1 takes its front.
THEOREM TypeCorrect == Spec => []TypeOK
<1>1. Init => TInv
  BY InitType
<1>2. TInv /\ [Next]_vars => TInv'
  BY StepType
<1>3. TInv => TypeOK
  BY DEF TInv
<1> QED
  BY <1>1, <1>2, <1>3, PTL DEF Spec

-----------------------------------------------------------------------------
(* At most once *)

\* The steps that neither check a request nor run a handler.
LEMMA OtherInvariant ==
  ASSUME TInv, OnceInv, UNCHANGED <<nonce_, reply_window_, theForgottens, executed>>,
         \A w \in Workers : job'[w] = job[w] \/ (job'[w].st # "run" /\ nonce_ = 1)
                                             \/ job'[w] = Idle
  PROVE  OnceInv'
<1>1. \A w \in Workers : job'[w].st = "run" => job'[w] = job[w]
  BY DEF Idle
<1>2. nonce_ > 1 => \A w \in Workers : job'[w] = Idle
  BY DEF OnceInv
<1> QED
  BY <1>1, <1>2 DEF OnceInv, AtMostOnce

LEMMA CheckInvariant ==
  ASSUME TInv, OnceInv, NEW w \in Workers, checkduplicate_and_update(w)
  PROVE  OnceInv'
<1> DEFINE x == job[w].xid
<1>1. job[w] \in Dispatch /\ job \in [Workers -> {Idle} \cup Dispatch]
  BY DEF TInv, TypeOK, checkduplicate_and_update, Idle
<1>2. x \in Xids /\ executed \in [Xids -> Nat] /\ nonce_ \in Nat \ {0}
  <2>1. nonce_ \in 1..MaxNonce /\ executed \in [Xids -> Nat]
    BY DEF TInv, TypeOK
  <2>2. nonce_ \in Nat \ {0}
    BY <2>1, RpcAssumption
  <2>3. x \in Xids
    BY <1>1 DEF Dispatch
  <2> QED
    BY <2>1, <2>2, <2>3
<1>3. nonce_ = 1
  BY <1>2 DEF OnceInv, checkduplicate_and_update, Idle
<1>4. reply_window_ \cup theForgottens \subseteq reply_window_' \cup theForgottens'
  BY DEF checkduplicate_and_update
<1>5. UNCHANGED <<nonce_, executed>>
  BY DEF checkduplicate_and_update, histVars
<1>6. \A v \in Workers : v # w => job'[v] = job[v]
  BY <1>1 DEF checkduplicate_and_update
<1>7. job'[w].xid = x
  BY <1>1 DEF checkduplicate_and_update, Dispatch
<1>8. job'[w].st = "run" =>
        x \notin reply_window_ \cup theForgottens /\ x \in reply_window_' \cup theForgottens'
  BY <1>1 DEF checkduplicate_and_update, Dispatch
<1>9. job'[w].st = "run" => executed[x] = 0
  BY <1>2, <1>3, <1>8 DEF OnceInv
<1>10. ASSUME NEW v \in Workers, v # w, job[v].st = "run", job'[w].st = "run"
       PROVE  job[v].xid # x
  BY <1>8, <1>10 DEF OnceInv
<1>11. \A v \in Workers : job'[v].st = "run" =>
         /\ executed'[job'[v].xid] = 0
         /\ job'[v].xid \in reply_window_' \cup theForgottens'
  BY <1>4, <1>5, <1>6, <1>7, <1>8, <1>9 DEF OnceInv
<1>12. \A u, v \in Workers : job'[u].st = "run" /\ job'[v].st = "run"
                             /\ job'[u].xid = job'[v].xid => u = v
  BY <1>6, <1>7, <1>10 DEF OnceInv
<1>13. \A y \in Xids : executed'[y] > 0 => y \in reply_window_' \cup theForgottens'
  BY <1>3, <1>4, <1>5 DEF OnceInv
<1> QED
  BY <1>3, <1>5, <1>11, <1>12, <1>13 DEF OnceInv, AtMostOnce

LEMMA RunInvariant ==
  ASSUME TInv, OnceInv, NEW w \in Workers, Run(w)
  PROVE  OnceInv'
<1> DEFINE x == job[w].xid
<1>1. job[w] \in Dispatch /\ job \in [Workers -> {Idle} \cup Dispatch]
  BY DEF TInv, TypeOK, Run, Idle
<1>2. x \in Xids /\ executed \in [Xids -> Nat] /\ nonce_ \in Nat \ {0}
  <2>1. nonce_ \in 1..MaxNonce /\ executed \in [Xids -> Nat]
    BY DEF TInv, TypeOK
  <2>2. nonce_ \in Nat \ {0}
    BY <2>1, RpcAssumption
  <2>3. x \in Xids
    BY <1>1 DEF Dispatch
  <2> QED
    BY <2>1, <2>2, <2>3
<1>3. nonce_ = 1
  BY <1>2 DEF OnceInv, Run, Idle
<1>4. executed[x] = 0 /\ x \in reply_window_ \cup theForgottens
  BY DEF OnceInv, Run
<1>5. executed' = [executed EXCEPT ![x] = 1]
  BY <1>2, <1>4 DEF Run
<1>6. UNCHANGED <<nonce_, reply_window_, theForgottens>>
  BY DEF Run
<1>7. job'[w].st = "connect" /\ \A v \in Workers : v # w => job'[v] = job[v]
  BY <1>1 DEF Run, Dispatch
<1>8. \A v \in Workers : v # w /\ job[v].st = "run" => job[v].xid # x
  BY DEF OnceInv, Run
<1>9. AtMostOnce'
  BY <1>2, <1>5 DEF OnceInv, AtMostOnce
<1>10. \A y \in Xids : executed'[y] > 0 => y \in reply_window_' \cup theForgottens'
  BY <1>2, <1>3, <1>4, <1>5, <1>6 DEF OnceInv
<1>11. ASSUME NEW v \in Workers, job'[v].st = "run"
       PROVE  /\ executed'[job'[v].xid] = 0
              /\ job'[v].xid \in reply_window_' \cup theForgottens'
              /\ \A u \in Workers : job'[u].st = "run" /\ job'[u].xid = job'[v].xid => u = v
  <2>1. v # w /\ job'[v] = job[v] /\ job[v] # Idle
    BY <1>7, <1>11 DEF Idle
  <2>2. job[v].xid \in Xids
    BY <1>1, <2>1 DEF Dispatch
  <2> QED
    BY <1>2, <1>5, <1>6, <1>7, <1>8, <1>11, <2>1, <2>2 DEF OnceInv
<1> QED
  BY <1>3, <1>6, <1>9, <1>10, <1>11 DEF OnceInv

LEMMA StepInvariant ==
  ASSUME TInv, OnceInv, [Next]_vars
  PROVE  OnceInv'
<1>1. CASE UNCHANGED <<nonce_, reply_window_, theForgottens, executed, job>>
  BY <1>1, OtherInvariant
<1>2. ASSUME NEW k \in Callers, Client(k) PROVE OnceInv'
  BY <1>1, <1>2, Zenon DEF Client, StartCall, Transmit, Retransmit, Return, Record, Timeout, rpcsVars, replyVars, histVars
<1>3. ASSUME NEW ch \in Chans, Connection(ch) \/ GotReply(ch) PROVE OnceInv'
  BY <1>1, <1>3, Zenon DEF Connection, Break, ClientNotices, ServerNotices, GotReply, rpcsVars, replyVars, histVars
<1>4. ASSUME NEW w \in Workers, DispatchStep(w) PROVE OnceInv'
  <2>0. job \in [Workers -> {Idle} \cup Dispatch]
    BY DEF TInv, TypeOK
  <2>1. ASSUME NEW ch \in Chans, TakeJob(w, ch) PROVE OnceInv'
    BY <2>0, <2>1, OtherInvariant DEF TakeJob, replyVars, histVars
  <2>2. CASE LatestConnection(w)
    <3>1. job[w] \in Dispatch /\ job[w] # Idle
      BY <2>0, <2>2 DEF LatestConnection, Idle
    <3>2. nonce_ = 1
      BY <3>1, RpcAssumption DEF OnceInv, TInv, TypeOK
    <3>3. job'[w].st = "send" /\ \A v \in Workers : v # w => job'[v] = job[v]
      BY <2>0, <2>2, <3>1 DEF LatestConnection, Dispatch
    <3> QED
      BY <2>2, <3>2, <3>3, OtherInvariant, Zenon DEF LatestConnection, replyVars, histVars
  <2>3. CASE Send(w)
    BY <2>0, <2>3, OtherInvariant DEF Send, replyVars, histVars
  <2>4. CASE SendForgotten(w)
    BY <2>0, <2>4, OtherInvariant DEF SendForgotten, replyVars, histVars
  <2> QED
    BY <1>4, <2>1, <2>2, <2>3, <2>4, CheckInvariant, RunInvariant DEF DispatchStep
<1>5. CASE Restart
  <2>1. \A w \in Workers : job'[w] = Idle
    BY <1>5 DEF Restart
  <2>2. nonce_' # 1 /\ executed' = executed
    BY <1>5, RpcAssumption DEF Restart, TInv, TypeOK, histVars
  <2> QED
    BY <2>1, <2>2 DEF OnceInv, AtMostOnce, Idle
<1>6. CASE UNCHANGED vars
  BY <1>1, <1>6 DEF vars, rpcsVars, replyVars, histVars
<1> QED
  BY <1>2, <1>3, <1>4, <1>5, <1>6 DEF Next

\* What at-most-once rests on is an invariant: checkduplicate_and_update enters a request
\* before its handler runs, and never loses it while the instance serves.
THEOREM InvariantHolds == Spec => []OnceInv
<1>1. Init => TInv /\ OnceInv
  <2>1. Init => OnceInv
    BY DEF Init, OnceInv, AtMostOnce, Idle
  <2> QED
    BY <2>1, InitType
<1>2. TInv /\ OnceInv /\ [Next]_vars => (TInv /\ OnceInv)'
  BY StepType, StepInvariant
<1> QED
  BY <1>1, <1>2, PTL DEF Spec

\* At-most-once: whatever is lost, transmitted again or restarted, no handler runs twice
\* for one call.
THEOREM AtMostOnceHolds == Spec => []AtMostOnce
<1>1. OnceInv => AtMostOnce
  BY DEF OnceInv
<1> QED
  BY <1>1, InvariantHolds, PTL
=============================================================================
