---------------------- MODULE WebSocketTransportProofs ----------------------
(***************************************************************************)
(* WebSocketInvariant!IInv is an inductive invariant of WebSocketTransport *)
(* for any threads, calls, sockets and timeouts; the safety properties     *)
(* follow from it, and so does the refinement of AtMostOnceCalls.          *)
(***************************************************************************)
EXTENDS WebSocketInvariant, TLAPS

\* Sequences of at most one item are all the wires ever carry.
LEMMA OneItem ==
  \A k : /\ Append(<<>>, k) = <<k>>
         /\ Head(<<k>>) = k
         /\ Tail(<<k>>) = <<>>
         /\ <<k>> # <<>>
         /\ \A l : <<k>> = <<l>> => k = l
         /\ \A S : <<>> \in Seq(S)
  OBVIOUS

----------------------------------------------------------------------------
(* Each action preserves the invariant.                                    *)

USE NameAssumption, TimeoutAssumption, OneItem
DEF IInv, threadVars, socketVars, watchVars, wireVars, serverVars, netVars,
    envVars, resultVars, Pcs, Outcomes, Holding, Calling, Unsent

\* A new call has not run and is nobody else's.
LEMMA CallKeeps ==
  ASSUME IInv, NEW t \in Threads, NEW k \in Calls, Call(t, k)
  PROVE  IInv'
<1> USE DEF Call, Goto
<1>1. TypeOK' /\ LockInv' /\ CallInv' /\ SocketInv'
  BY DEF TypeOK, LockInv, CallInv, SocketInv
<1>2. WireInv'
  <2> SUFFICES ASSUME NEW d \in Conns
               PROVE  /\ up'[d] # <<>> => \E j \in Calls : RequestInv(d, j)'
                      /\ down'[d] # <<>> => \E u \in Threads : ReplyInv(d, u)'
    BY DEF WireInv
  <2>1. ASSUME up'[d] # <<>>
        PROVE  \E j \in Calls : RequestInv(d, j)'
    <3>1. PICK j \in Calls : RequestInv(d, j)
      BY <2>1 DEF WireInv
    <3>2. j # k
      BY <3>1 DEF RequestInv, CallInv
    <3>3. d = conn => \E u \in Threads : pc'[u] = "recv" /\ call'[u] = j
      BY <3>1 DEF TypeOK, RequestInv
    <3>4. d # conn => outcome'[j] = "interrupted"
      BY <3>1, <3>2 DEF TypeOK, RequestInv
    <3> QED
      BY <3>1, <3>3, <3>4 DEF RequestInv
  <2>2. ASSUME down'[d] # <<>>
        PROVE  \E u \in Threads : ReplyInv(d, u)'
    BY <2>2 DEF TypeOK, WireInv, ReplyInv
  <2> QED
    BY <2>1, <2>2
<1>3. RelayInv'
  BY DEF TypeOK, LockInv, SocketInv, RelayInv
<1>4. RanInv' /\ WatchInv'
  BY DEF TypeOK, LockInv, CallInv, SocketInv, RelayInv, WireInv, RequestInv,
         ReplyInv, RanInv, WatchInv
<1> QED
  BY <1>1, <1>2, <1>3, <1>4

LEMMA AcquireKeeps ==
  ASSUME IInv, NEW t \in Threads, Acquire(t)
  PROVE  IInv'
<1> USE DEF Acquire, Goto
<1>1. TypeOK' /\ LockInv' /\ CallInv' /\ SocketInv'
  BY DEF TypeOK, LockInv, CallInv, SocketInv
<1>2. RelayInv' /\ WireInv'
  BY DEF TypeOK, LockInv, SocketInv, RelayInv, CallInv, WireInv, RequestInv,
         ReplyInv, RanInv
<1>3. RanInv' /\ WatchInv'
  BY DEF TypeOK, LockInv, CallInv, SocketInv, RelayInv, WireInv, RequestInv,
         ReplyInv, RanInv, WatchInv
<1> QED
  BY <1>1, <1>2, <1>3

\* A fresh socket carries nothing and has a watcher that looks at once.
LEMMA ConnectOkKeeps ==
  ASSUME IInv, NEW t \in Threads, NEW c \in Conns, ConnectOk(t, c)
  PROVE  IInv'
<1> USE DEF ConnectOk, Goto
<1>1. TypeOK'
  <2>1. link' \in Conns \cup {None, Other}
    BY DEF TypeOK
  <2>2. lease' \in 0..(LinkTimeout + Latency)
    BY DEF TypeOK
  <2>3. srv' \in [Conns -> {"unused", "up", "busy", "down"}]
    <3>1. srv' = [srv EXCEPT ![c] = "up"] \/ srv' = [srv EXCEPT ![c] = "busy"]
      OBVIOUS
    <3>2. srv \in [Conns -> {"unused", "up", "busy", "down"}]
      BY DEF TypeOK
    <3> HIDE DEF ConnectOk, IInv
    <3> QED
      BY <3>1, <3>2
  <2>4. /\ pc' \in [Threads -> Pcs]
        /\ watch' \in [Conns -> {"none", "check", "wait", "done"}]
    BY DEF TypeOK
  <2>5. /\ conn' \in Conns \cup {None}
        /\ idle' \in 0..IdleTimeout
        /\ open' \subseteq Conns
    BY DEF TypeOK
  <2> QED
    BY <2>1, <2>2, <2>3, <2>4, <2>5 DEF TypeOK
<1>2. LockInv' /\ CallInv' /\ SocketInv'
  BY DEF TypeOK, LockInv, CallInv, SocketInv
<1>3. RelayInv' /\ WireInv'
  BY DEF TypeOK, LockInv, SocketInv, RelayInv, CallInv, WireInv, RequestInv,
         ReplyInv, RanInv
<1>4. RanInv' /\ WatchInv'
  BY DEF TypeOK, LockInv, CallInv, SocketInv, RelayInv, WireInv, RequestInv,
         ReplyInv, RanInv, WatchInv
<1> QED
  BY <1>1, <1>2, <1>3, <1>4

LEMMA ConnectFailsKeeps ==
  ASSUME IInv, NEW t \in Threads, ConnectFails(t)
  PROVE  IInv'
<1> USE DEF ConnectFails, Goto, Return
<1>1. TypeOK' /\ LockInv' /\ CallInv' /\ SocketInv'
  BY DEF TypeOK, LockInv, CallInv, SocketInv
<1>2. RelayInv' /\ WireInv'
  BY DEF TypeOK, LockInv, SocketInv, RelayInv, CallInv, WireInv, RequestInv,
         ReplyInv, RanInv
<1>3. RanInv' /\ WatchInv'
  BY DEF TypeOK, LockInv, CallInv, SocketInv, RelayInv, WireInv, RequestInv,
         ReplyInv, RanInv, WatchInv
<1> QED
  BY <1>1, <1>2, <1>3

\* The request goes out on a wire that carries nothing else.
LEMMA SendOkKeeps ==
  ASSUME IInv, NEW t \in Threads, SendOk(t)
  PROVE  IInv'
<1> USE DEF SendOk, Goto
<1>1. TypeOK'
  <2>1. call[t] \in Calls /\ conn \in Conns
    BY DEF CallInv, SocketInv
  <2>2. Append(up[conn], call[t]) \in Seq(Calls)
    BY <2>1 DEF TypeOK
  <2>3. CASE srv[conn] = "up"
    <3>1. up' = [up EXCEPT ![conn] = Append(up[conn], call[t])]
      BY <2>3
    <3>2. up' \in [Conns -> Seq(Calls)]
      BY <2>2, <3>1 DEF TypeOK
    <3>3. transit' = [transit EXCEPT ![conn] = 0]
      BY <2>3
    <3>4. transit' \in [Conns -> 0..Latency]
      BY <3>3 DEF TypeOK
    <3> QED
      BY <3>2, <3>4 DEF TypeOK
  <2>4. CASE srv[conn] # "up"
    BY <2>4 DEF TypeOK
  <2> QED
    BY <2>3, <2>4
<1>2. LockInv' /\ CallInv' /\ SocketInv'
  BY DEF TypeOK, LockInv, CallInv, SocketInv
<1>3. WireInv'
  <2> SUFFICES ASSUME NEW d \in Conns
               PROVE  /\ up'[d] # <<>> => \E j \in Calls : RequestInv(d, j)'
                      /\ down'[d] # <<>> => \E u \in Threads : ReplyInv(d, u)'
    BY DEF WireInv
  <2>0. /\ lock = t
        /\ call[t] \in Calls
        /\ outcome[call[t]] = "pending"
        /\ conn \in Conns
        /\ ran[call[t]] = 0
    BY DEF LockInv, CallInv, SocketInv, RanInv
  <2>1. up[conn] = <<>> /\ down[conn] = <<>>
    <3>1. \A u \in Threads : pc[u] # "recv"
      BY <2>0 DEF LockInv
    <3> QED
      BY <2>0, <3>1 DEF WireInv, RequestInv, ReplyInv
  <2>2. down[d] = <<>>
    BY <2>1 DEF RelayInv
  <2>3. CASE d = conn
    <3>1. up'[d] = <<>> \/ up'[d] = <<call[t]>>
      BY <2>0, <2>1, <2>3 DEF TypeOK
    <3>2. \A e \in Conns : e # d => up'[e] = up[e]
      BY <2>0, <2>3 DEF TypeOK
    <3>3. \A e \in Conns : e # d => up[e] # <<call[t]>>
      <4> SUFFICES ASSUME NEW e \in Conns, e # d, up[e] = <<call[t]>>
                   PROVE  FALSE
        OBVIOUS
      <4>1. PICK j \in Calls : RequestInv(e, j)
        BY DEF WireInv
      <4>2. j = call[t]
        BY <4>1 DEF RequestInv
      <4> QED
        BY <2>0, <2>3, <4>1, <4>2 DEF RequestInv
    <3>4. pc'[t] = "recv" /\ call'[t] = call[t]
      BY DEF TypeOK
    <3>5. up'[d] = <<call[t]>> => RequestInv(d, call[t])'
      BY <2>0, <2>2, <2>3, <3>2, <3>3, <3>4 DEF RequestInv
    <3> QED
      BY <2>0, <2>2, <3>1, <3>5
  <2>4. CASE d # conn
    <3>1. up'[d] = up[d]
      BY <2>4 DEF TypeOK
    <3>2. ASSUME up[d] # <<>>
          PROVE  \E j \in Calls : RequestInv(d, j)'
      <4>1. PICK j \in Calls : RequestInv(d, j)
        BY <3>2 DEF WireInv
      <4>2. j # call[t]
        BY <2>0, <2>4, <4>1 DEF RequestInv
      <4>3. up'[conn] = <<>> \/ up'[conn] = <<call[t]>>
        BY <2>0, <2>1 DEF TypeOK
      <4>4. \A e \in Conns : e # conn => up'[e] = up[e]
        BY <2>0 DEF TypeOK
      <4>5. \A e \in Conns : up'[e] = <<j>> => e = d
        BY <2>0, <4>1, <4>2, <4>3, <4>4 DEF RequestInv
      <4> QED
        BY <2>2, <2>4, <3>1, <4>1, <4>5 DEF RequestInv
    <3> QED
      BY <2>2, <3>1, <3>2
  <2> QED
    BY <2>3, <2>4
<1>4. RelayInv'
  BY DEF TypeOK, LockInv, SocketInv, RelayInv
<1>5. RanInv' /\ WatchInv'
  BY DEF TypeOK, LockInv, CallInv, SocketInv, RelayInv, WireInv, RequestInv,
         ReplyInv, RanInv, WatchInv
<1> QED
  BY <1>1, <1>2, <1>3, <1>4, <1>5

LEMMA SendRefusedKeeps ==
  ASSUME IInv, NEW t \in Threads, SendRefused(t)
  PROVE  IInv'
<1> USE DEF SendRefused, Goto, CloseLocked
<1>1. TypeOK' /\ LockInv' /\ CallInv' /\ SocketInv'
  BY DEF TypeOK, LockInv, CallInv, SocketInv
<1>2. RelayInv' /\ WireInv'
  BY DEF TypeOK, LockInv, SocketInv, RelayInv, CallInv, WireInv, RequestInv,
         ReplyInv, RanInv
<1>3. RanInv' /\ WatchInv'
  BY DEF TypeOK, LockInv, CallInv, SocketInv, RelayInv, WireInv, RequestInv,
         ReplyInv, RanInv, WatchInv
<1> QED
  BY <1>1, <1>2, <1>3

\* The reply is the one this call waits for.
LEMMA ReceiveKeeps ==
  ASSUME IInv, NEW t \in Threads, Receive(t)
  PROVE  IInv'
<1> USE DEF Receive, Goto, Return
<1>1. TypeOK'
  BY DEF TypeOK, LockInv, CallInv, SocketInv
<1>2. LockInv' /\ CallInv' /\ SocketInv'
  BY DEF TypeOK, LockInv, CallInv, SocketInv
<1>3. WireInv'
  <2> SUFFICES ASSUME NEW d \in Conns
               PROVE  /\ up'[d] # <<>> => \E j \in Calls : RequestInv(d, j)'
                      /\ down'[d] # <<>> => \E u \in Threads : ReplyInv(d, u)'
    BY DEF WireInv
  <2>1. /\ lock = t
        /\ conn \in Conns
        /\ \A u \in Threads : pc[u] = "recv" => u = t
    BY DEF LockInv, SocketInv
  <2>2. down[conn] = <<call[t]>>
    BY <2>1 DEF WireInv, ReplyInv
  <2>3. down'[d] = <<>>
    BY <2>1, <2>2 DEF TypeOK, RelayInv
  <2>4. up[conn] = <<>>
    BY <2>1 DEF WireInv, RequestInv
  <2>5. ASSUME up[d] # <<>>
        PROVE  \E j \in Calls : RequestInv(d, j)'
    <3>1. PICK j \in Calls : RequestInv(d, j)
      BY <2>5 DEF WireInv
    <3>2. d # conn /\ outcome[j] = "interrupted"
      BY <2>4, <2>5, <3>1 DEF RequestInv
    <3>3. outcome'[j] = "interrupted"
      BY <3>2 DEF TypeOK, CallInv
    <3> QED
      BY <2>3, <3>1, <3>2, <3>3 DEF RequestInv
  <2> QED
    BY <2>3, <2>5
<1>4. RelayInv'
  BY DEF TypeOK, LockInv, SocketInv, RelayInv
<1>5. RanInv' /\ WatchInv'
  BY DEF TypeOK, LockInv, CallInv, SocketInv, RelayInv, WireInv, RequestInv,
         ReplyInv, RanInv, WatchInv
<1> QED
  BY <1>1, <1>2, <1>3, <1>4, <1>5

LEMMA CallLostKeeps ==
  ASSUME IInv, NEW t \in Threads, CallLost(t)
  PROVE  IInv'
<1> USE DEF CallLost, Goto, Return, ClosedError, CloseLocked
<1>1. TypeOK'
  BY DEF TypeOK, LockInv, CallInv, SocketInv
<1>2. LockInv' /\ CallInv' /\ SocketInv'
  BY DEF TypeOK, LockInv, CallInv, SocketInv
<1>3. RelayInv' /\ WireInv'
  BY DEF TypeOK, LockInv, SocketInv, RelayInv, CallInv, WireInv, RequestInv,
         ReplyInv, RanInv
<1>4. RanInv' /\ WatchInv'
  BY DEF TypeOK, LockInv, CallInv, SocketInv, RelayInv, WireInv, RequestInv,
         ReplyInv, RanInv, WatchInv
<1> QED
  BY <1>1, <1>2, <1>3, <1>4

\* The request may still be on its way, on a socket no one uses any more.
LEMMA InterruptKeeps ==
  ASSUME IInv, Interrupt
  PROVE  IInv'
<1> USE DEF Interrupt, Goto, Return, CloseLocked
<1>1. TypeOK'
  BY DEF TypeOK, LockInv, CallInv, SocketInv
<1>2. LockInv' /\ CallInv' /\ SocketInv'
  BY DEF TypeOK, LockInv, CallInv, SocketInv
<1>3. WireInv'
  <2> SUFFICES ASSUME NEW d \in Conns
               PROVE  /\ up'[d] # <<>> => \E j \in Calls : RequestInv(d, j)'
                      /\ down'[d] # <<>> => \E u \in Threads : ReplyInv(d, u)'
    BY DEF WireInv
  <2>1. /\ lock = Main
        /\ call[Main] \in Calls
        /\ \A u \in Threads : pc[u] = "recv" => u = Main
    BY DEF LockInv, CallInv
  <2>2. down'[d] = <<>>
    BY DEF TypeOK, RelayInv
  <2>3. ASSUME up[d] # <<>>
        PROVE  \E j \in Calls : RequestInv(d, j)'
    <3>1. PICK j \in Calls : RequestInv(d, j)
      BY <2>3 DEF WireInv
    <3>2. d = conn => j = call[Main]
      BY <2>1, <3>1 DEF RequestInv
    <3>3. outcome'[j] = "interrupted"
      BY <2>1, <3>1, <3>2 DEF TypeOK, RequestInv
    <3>4. conn' = None /\ d # None
      OBVIOUS
    <3> QED
      BY <2>2, <3>1, <3>3, <3>4 DEF RequestInv
  <2> QED
    BY <2>2, <2>3
<1>4. RelayInv'
  BY DEF TypeOK, LockInv, SocketInv, RelayInv
<1>5. RanInv' /\ WatchInv'
  BY DEF TypeOK, LockInv, CallInv, SocketInv, RelayInv, WireInv, RequestInv,
         ReplyInv, RanInv, WatchInv
<1> QED
  BY <1>1, <1>2, <1>3, <1>4, <1>5

LEMMA InterruptWaitingKeeps ==
  ASSUME IInv, InterruptWaiting
  PROVE  IInv'
<1> USE DEF InterruptWaiting, Goto
<1>1. TypeOK' /\ LockInv' /\ CallInv' /\ SocketInv'
  BY DEF TypeOK, LockInv, CallInv, SocketInv
<1>2. WireInv'
  <2> SUFFICES ASSUME NEW d \in Conns
               PROVE  /\ up'[d] # <<>> => \E j \in Calls : RequestInv(d, j)'
                      /\ down'[d] # <<>> => \E u \in Threads : ReplyInv(d, u)'
    BY DEF WireInv
  <2>1. \A u \in Threads : pc[u] = "recv" => u # Main /\ pc'[u] = "recv"
                                             /\ call'[u] = call[u]
    BY DEF TypeOK
  <2>2. call[Main] \in Calls /\ outcome[call[Main]] = "pending"
    BY DEF CallInv
  <2>3. ASSUME up[d] # <<>>
        PROVE  \E j \in Calls : RequestInv(d, j)'
    <3>1. PICK j \in Calls : RequestInv(d, j)
      BY <2>3 DEF WireInv
    <3>2. d # conn => outcome'[j] = "interrupted"
      BY <2>2, <3>1 DEF TypeOK, RequestInv
    <3>3. d = conn => \E u \in Threads : pc'[u] = "recv" /\ call'[u] = j
      BY <2>1, <3>1 DEF RequestInv
    <3> QED
      BY <3>1, <3>2, <3>3 DEF RequestInv
  <2>4. ASSUME down[d] # <<>>
        PROVE  \E u \in Threads : ReplyInv(d, u)'
    BY <2>1, <2>4 DEF WireInv, ReplyInv
  <2> QED
    BY <2>3, <2>4
<1>3. RelayInv'
  BY DEF TypeOK, LockInv, SocketInv, RelayInv
<1>4. RanInv' /\ WatchInv'
  BY DEF TypeOK, LockInv, CallInv, SocketInv, RelayInv, WireInv, RequestInv,
         ReplyInv, RanInv, WatchInv
<1> QED
  BY <1>1, <1>2, <1>3, <1>4

LEMMA CallCloseKeeps ==
  ASSUME IInv, NEW t \in Threads, CallClose(t)
  PROVE  IInv'
<1> USE DEF CallClose, Goto
<1>1. TypeOK'
  BY DEF TypeOK
<1>2. LockInv'
  BY DEF TypeOK, LockInv
<1>3. CallInv'
  BY DEF TypeOK, LockInv, CallInv
<1>4. SocketInv'
  BY DEF TypeOK, LockInv, SocketInv
<1>5. RelayInv'
  BY DEF TypeOK, LockInv, SocketInv, RelayInv
<1>6. WireInv'
  BY DEF TypeOK, LockInv, CallInv, SocketInv, RelayInv, WireInv, RequestInv,
         ReplyInv, RanInv
<1>7. RanInv'
  BY DEF TypeOK, LockInv, CallInv, SocketInv, RelayInv, WireInv, RequestInv,
         ReplyInv, RanInv
<1>8. WatchInv'
  BY DEF TypeOK, LockInv, SocketInv, RelayInv, WatchInv
<1> QED
  BY <1>1, <1>2, <1>3, <1>4, <1>5, <1>6, <1>7, <1>8

LEMMA CloseKeeps ==
  ASSUME IInv, NEW t \in Threads, Close(t)
  PROVE  IInv'
<1> USE DEF Close, Goto, CloseLocked
<1>1. TypeOK' /\ LockInv' /\ CallInv' /\ SocketInv'
  BY DEF TypeOK, LockInv, CallInv, SocketInv
<1>2. RelayInv' /\ WireInv'
  BY DEF TypeOK, LockInv, SocketInv, RelayInv, CallInv, WireInv, RequestInv,
         ReplyInv, RanInv
<1>3. RanInv' /\ WatchInv'
  BY DEF TypeOK, LockInv, CallInv, SocketInv, RelayInv, WireInv, RequestInv,
         ReplyInv, RanInv, WatchInv
<1> QED
  BY <1>1, <1>2, <1>3

LEMMA JoinKeeps ==
  ASSUME IInv, NEW t \in Threads, Join(t)
  PROVE  IInv'
<1> USE DEF Join, Goto
<1>1. TypeOK' /\ LockInv' /\ CallInv' /\ SocketInv'
  BY DEF TypeOK, LockInv, CallInv, SocketInv
<1>2. WireInv'
  <2> SUFFICES ASSUME NEW d \in Conns
               PROVE  /\ up'[d] # <<>> => \E j \in Calls : RequestInv(d, j)'
                      /\ down'[d] # <<>> => \E u \in Threads : ReplyInv(d, u)'
    BY DEF WireInv
  <2>1. \A u \in Threads : pc[u] = "recv" => pc'[u] = "recv"
    BY DEF TypeOK
  <2> QED
    BY <2>1 DEF WireInv, RequestInv, ReplyInv
<1>3. RelayInv'
  BY DEF TypeOK, LockInv, SocketInv, RelayInv
<1>4. RanInv' /\ WatchInv'
  BY DEF TypeOK, LockInv, CallInv, SocketInv, RelayInv, WireInv, RequestInv,
         ReplyInv, RanInv, WatchInv
<1> QED
  BY <1>1, <1>2, <1>3, <1>4

LEMMA WatchReplacedKeeps ==
  ASSUME IInv, NEW c \in Conns, WatchReplaced(c)
  PROVE  IInv'
<1> USE DEF WatchReplaced
<1>1. TypeOK' /\ LockInv' /\ CallInv' /\ SocketInv'
  BY DEF TypeOK, LockInv, CallInv, SocketInv
<1>2. RelayInv' /\ WireInv'
  BY DEF TypeOK, LockInv, SocketInv, RelayInv, CallInv, WireInv, RequestInv,
         ReplyInv, RanInv
<1>3. RanInv' /\ WatchInv'
  BY DEF TypeOK, LockInv, CallInv, SocketInv, RelayInv, WireInv, RequestInv,
         ReplyInv, RanInv, WatchInv
<1> QED
  BY <1>1, <1>2, <1>3

LEMMA WatchCloseKeeps ==
  ASSUME IInv, NEW c \in Conns, WatchClose(c)
  PROVE  IInv'
<1> USE DEF WatchClose, CloseLocked
<1>1. TypeOK' /\ LockInv' /\ CallInv' /\ SocketInv'
  BY DEF TypeOK, LockInv, CallInv, SocketInv
<1>2. RelayInv' /\ WireInv'
  BY DEF TypeOK, LockInv, SocketInv, RelayInv, CallInv, WireInv, RequestInv,
         ReplyInv, RanInv
<1>3. RanInv' /\ WatchInv'
  BY DEF TypeOK, LockInv, CallInv, SocketInv, RelayInv, WireInv, RequestInv,
         ReplyInv, RanInv, WatchInv
<1> QED
  BY <1>1, <1>2, <1>3

LEMMA WatchSleepKeeps ==
  ASSUME IInv, NEW c \in Conns, WatchSleep(c)
  PROVE  IInv'
<1> USE DEF WatchSleep
<1>1. TypeOK' /\ LockInv' /\ CallInv' /\ SocketInv'
  BY DEF TypeOK, LockInv, CallInv, SocketInv
<1>2. RelayInv' /\ WireInv'
  BY DEF TypeOK, LockInv, SocketInv, RelayInv, CallInv, WireInv, RequestInv,
         ReplyInv, RanInv
<1>3. RanInv' /\ WatchInv'
  BY DEF TypeOK, LockInv, CallInv, SocketInv, RelayInv, WireInv, RequestInv,
         ReplyInv, RanInv, WatchInv
<1> QED
  BY <1>1, <1>2, <1>3

LEMMA WatchWakeKeeps ==
  ASSUME IInv, NEW c \in Conns, WatchWake(c)
  PROVE  IInv'
<1> USE DEF WatchWake
<1>1. TypeOK' /\ LockInv' /\ CallInv' /\ SocketInv'
  BY DEF TypeOK, LockInv, CallInv, SocketInv
<1>2. RelayInv' /\ WireInv'
  BY DEF TypeOK, LockInv, SocketInv, RelayInv, CallInv, WireInv, RequestInv,
         ReplyInv, RanInv
<1>3. RanInv' /\ WatchInv'
  BY DEF TypeOK, LockInv, CallInv, SocketInv, RelayInv, WireInv, RequestInv,
         ReplyInv, RanInv, WatchInv
<1> QED
  BY <1>1, <1>2, <1>3

\* The request that runs has not run before; its reply finds its caller.
LEMMA ForwardKeeps ==
  ASSUME IInv, NEW c \in Conns, Forward(c)
  PROVE  IInv'
<1> USE DEF Forward
<1>1. TypeOK'
  <2>1. PICK k \in Calls : RequestInv(c, k)
    BY DEF WireInv
  <2>2. ran' \in [Calls -> Nat]
    BY <2>1 DEF TypeOK, RequestInv
  <2>3. up' \in [Conns -> Seq(Calls)]
    BY <2>1 DEF TypeOK, RequestInv
  <2>4. down' \in [Conns -> Seq(Calls)]
    BY <2>1 DEF TypeOK, RequestInv
  <2>5. srv' \in [Conns -> {"unused", "up", "busy", "down"}]
    <3>1. CASE srv' = srv
      BY <3>1 DEF TypeOK
    <3>2. CASE srv' = [srv EXCEPT ![c] = "down"]
      BY <3>2 DEF TypeOK
    <3> QED
      BY <3>1, <3>2
  <2>6. lease' \in 0..(LinkTimeout + Latency)
    BY DEF TypeOK
  <2>7. transit' \in [Conns -> 0..Latency]
    BY DEF TypeOK
  <2> QED
    BY <2>2, <2>3, <2>4, <2>5, <2>6, <2>7 DEF TypeOK
<1>2. LockInv' /\ CallInv' /\ SocketInv'
  BY DEF TypeOK, LockInv, CallInv, SocketInv
<1>3. RelayInv'
  <2>1. PICK k \in Calls : RequestInv(c, k)
    BY DEF WireInv
  <2>2. up'[c] = <<>> /\ \A d \in Conns : d # c => up'[d] = up[d]
    BY <2>1 DEF TypeOK, RequestInv
  <2>3. \A d \in Conns : d # conn => down'[d] = down[d]
    BY DEF TypeOK
  <2>4. \A d \in Conns : d # c => srv'[d] = srv[d] /\ down'[d] = down[d]
    BY DEF TypeOK
  <2>5. srv'[c] \in {"up", "down"}
    BY DEF TypeOK
  <2> QED
    BY <2>2, <2>3, <2>4, <2>5 DEF TypeOK, RelayInv
<1>4. WireInv'
  <2> SUFFICES ASSUME NEW d \in Conns
               PROVE  /\ up'[d] # <<>> => \E j \in Calls : RequestInv(d, j)'
                      /\ down'[d] # <<>> => \E u \in Threads : ReplyInv(d, u)'
    BY DEF WireInv
  <2>1. PICK k \in Calls : RequestInv(c, k)
    BY DEF WireInv
  <2>2. /\ up'[c] = <<>>
        /\ \A e \in Conns : e # c => up'[e] = up[e]
        /\ \A e \in Conns : e # c => down'[e] = down[e]
        /\ down'[c] = IF c = conn THEN <<k>> ELSE <<>>
    BY <2>1 DEF TypeOK, RequestInv
  <2>3. ran'[k] = 1 /\ \A j \in Calls : j # k => ran'[j] = ran[j]
    BY <2>1 DEF TypeOK, RequestInv
  <2>4. ASSUME up'[d] # <<>>
        PROVE  \E j \in Calls : RequestInv(d, j)'
    <3>1. d # c /\ up'[d] = up[d] /\ down'[d] = down[d]
      BY <2>2, <2>4
    <3>2. PICK j \in Calls : RequestInv(d, j)
      BY <2>4, <3>1 DEF WireInv
    <3>3. j # k
      BY <2>1, <3>1, <3>2 DEF RequestInv
    <3>4. \A e \in Conns : up'[e] = <<j>> => e = d
      BY <2>2, <3>2 DEF RequestInv
    <3> QED
      BY <2>3, <3>1, <3>2, <3>3, <3>4 DEF RequestInv
  <2>5. ASSUME down'[d] # <<>>
        PROVE  \E u \in Threads : ReplyInv(d, u)'
    <3>1. CASE d = c
      <4>1. d = conn /\ down'[d] = <<k>>
        BY <2>2, <2>5, <3>1
      <4>2. PICK u \in Threads : pc[u] = "recv" /\ call[u] = k
        BY <2>1, <3>1, <4>1 DEF RequestInv
      <4> QED
        BY <2>3, <4>1, <4>2 DEF ReplyInv
    <3>2. CASE d # c
      <4>1. PICK u \in Threads : ReplyInv(d, u)
        BY <2>2, <2>5, <3>2 DEF WireInv
      <4>2. d = conn /\ c # conn
        BY <2>2, <2>5, <3>2 DEF RelayInv
      <4>3. call[u] # k
        BY <2>1, <4>1 DEF RequestInv, ReplyInv
      <4>4. call[u] \in Calls
        BY <4>1 DEF ReplyInv, CallInv
      <4> QED
        BY <2>2, <2>3, <3>2, <4>1, <4>3, <4>4 DEF ReplyInv
    <3> QED
      BY <3>1, <3>2
  <2> QED
    BY <2>4, <2>5
<1>5. RanInv' /\ WatchInv'
  BY DEF TypeOK, LockInv, CallInv, SocketInv, RelayInv, WireInv, RequestInv,
         ReplyInv, RanInv, WatchInv
<1> QED
  BY <1>1, <1>2, <1>3, <1>4, <1>5

\* What is lost with the relay can no longer run or be answered.
LEMMA DropKeeps ==
  ASSUME IInv, NEW c \in Conns, Drop(c)
  PROVE  IInv'
<1> USE DEF Drop
<1>1. TypeOK'
  <2>1. up' \in [Conns -> Seq(Calls)]
    BY DEF TypeOK
  <2>2. [down EXCEPT ![c] = <<>>] \in [Conns -> Seq(Calls)]
    BY DEF TypeOK
  <2>3. down' \in [Conns -> Seq(Calls)]
    BY <2>2 DEF TypeOK
  <2> QED
    BY <2>1, <2>3 DEF TypeOK
<1>2. LockInv' /\ CallInv' /\ SocketInv'
  BY DEF TypeOK, LockInv, CallInv, SocketInv
<1>3. WireInv'
  <2> SUFFICES ASSUME NEW d \in Conns
               PROVE  /\ up'[d] # <<>> => \E j \in Calls : RequestInv(d, j)'
                      /\ down'[d] # <<>> => \E u \in Threads : ReplyInv(d, u)'
    BY DEF WireInv
  <2>1. /\ up'[c] = <<>>
        /\ \A e \in Conns : e # c => up'[e] = up[e]
    BY DEF TypeOK
  <2>2. down'[d] = <<>> \/ down'[d] = down[d]
    BY DEF TypeOK
  <2>3. ASSUME up'[d] # <<>>
        PROVE  \E j \in Calls : RequestInv(d, j)'
    <3>1. PICK j \in Calls : RequestInv(d, j)
      BY <2>1, <2>3 DEF WireInv
    <3>2. \A e \in Conns : up'[e] = <<j>> => e = d
      BY <2>1, <3>1 DEF RequestInv
    <3>3. up'[d] = <<j>> /\ down'[d] = <<>>
      BY <2>1, <2>2, <2>3, <3>1 DEF RequestInv
    <3> QED
      BY <3>1, <3>2, <3>3 DEF RequestInv
  <2>4. ASSUME down'[d] # <<>>
        PROVE  \E u \in Threads : ReplyInv(d, u)'
    BY <2>2, <2>4 DEF WireInv, ReplyInv
  <2> QED
    BY <2>3, <2>4
<1>4. RelayInv'
  BY DEF TypeOK, LockInv, SocketInv, RelayInv
<1>5. RanInv' /\ WatchInv'
  BY DEF TypeOK, LockInv, CallInv, SocketInv, RelayInv, WireInv, RequestInv,
         ReplyInv, RanInv, WatchInv
<1> QED
  BY <1>1, <1>2, <1>3, <1>4, <1>5

LEMMA NoticeCloseKeeps ==
  ASSUME IInv, NEW c \in Conns, NoticeClose(c)
  PROVE  IInv'
<1> USE DEF NoticeClose
<1>1. TypeOK' /\ LockInv' /\ CallInv' /\ SocketInv'
  BY DEF TypeOK, LockInv, CallInv, SocketInv
<1>2. RelayInv' /\ WireInv'
  BY DEF TypeOK, LockInv, SocketInv, RelayInv, CallInv, WireInv, RequestInv,
         ReplyInv, RanInv
<1>3. RanInv' /\ WatchInv'
  BY DEF TypeOK, LockInv, CallInv, SocketInv, RelayInv, WireInv, RequestInv,
         ReplyInv, RanInv, WatchInv
<1> QED
  BY <1>1, <1>2, <1>3

LEMMA SeeCloseKeeps ==
  ASSUME IInv, NEW c \in Conns, SeeClose(c)
  PROVE  IInv'
<1> USE DEF SeeClose
<1>1. TypeOK' /\ LockInv' /\ CallInv' /\ SocketInv'
  BY DEF TypeOK, LockInv, CallInv, SocketInv
<1>2. RelayInv' /\ WireInv'
  BY DEF TypeOK, LockInv, SocketInv, RelayInv, CallInv, WireInv, RequestInv,
         ReplyInv, RanInv
<1>3. RanInv' /\ WatchInv'
  BY DEF TypeOK, LockInv, CallInv, SocketInv, RelayInv, WireInv, RequestInv,
         ReplyInv, RanInv, WatchInv
<1> QED
  BY <1>1, <1>2, <1>3

LEMMA OtherTakesKeeps ==
  ASSUME IInv, OtherTakes
  PROVE  IInv'
<1> USE DEF OtherTakes
<1>1. TypeOK' /\ LockInv' /\ CallInv' /\ SocketInv'
  BY DEF TypeOK, LockInv, CallInv, SocketInv
<1>2. RelayInv' /\ WireInv'
  BY DEF TypeOK, LockInv, SocketInv, RelayInv, CallInv, WireInv, RequestInv,
         ReplyInv, RanInv
<1>3. RanInv' /\ WatchInv'
  BY DEF TypeOK, LockInv, CallInv, SocketInv, RelayInv, WireInv, RequestInv,
         ReplyInv, RanInv, WatchInv
<1> QED
  BY <1>1, <1>2, <1>3

LEMMA OtherReleasesKeeps ==
  ASSUME IInv, OtherReleases
  PROVE  IInv'
<1> USE DEF OtherReleases
<1>1. TypeOK' /\ LockInv' /\ CallInv' /\ SocketInv'
  BY DEF TypeOK, LockInv, CallInv, SocketInv
<1>2. RelayInv' /\ WireInv'
  BY DEF TypeOK, LockInv, SocketInv, RelayInv, CallInv, WireInv, RequestInv,
         ReplyInv, RanInv
<1>3. RanInv' /\ WatchInv'
  BY DEF TypeOK, LockInv, CallInv, SocketInv, RelayInv, WireInv, RequestInv,
         ReplyInv, RanInv, WatchInv
<1> QED
  BY <1>1, <1>2, <1>3

\* The watcher's wait and the idle time run out together.
LEMMA TickKeeps ==
  ASSUME IInv, Tick
  PROVE  IInv'
<1> USE DEF Tick, InFlight, Blocked, Asleep
<1>1. TypeOK'
  <2>1. idle' \in 0..IdleTimeout
    BY DEF TypeOK
  <2>2. timer' \in [Conns -> 0..IdleTimeout]
    BY DEF TypeOK
  <2>3. transit' \in [Conns -> 0..Latency]
    <3>1. ASSUME NEW c \in Conns
          PROVE  (IF InFlight(c) THEN transit[c] + 1 ELSE 0) \in 0..Latency
      <4>1. InFlight(c) => transit[c] < Latency
        OBVIOUS
      <4>2. transit[c] \in 0..Latency
        BY DEF TypeOK
      <4> HIDE DEF InFlight
      <4> QED
        BY <4>1, <4>2
    <3> HIDE DEF InFlight
    <3> QED
      BY <3>1
  <2>4. /\ lease' \in 0..(LinkTimeout + Latency)
        /\ link' \in Conns \cup {None, Other}
    BY DEF TypeOK
  <2> HIDE DEF InFlight
  <2> QED
    BY <2>1, <2>2, <2>3, <2>4 DEF TypeOK
<1>2. LockInv' /\ CallInv' /\ SocketInv'
  BY DEF TypeOK, LockInv, CallInv, SocketInv
<1>3. RelayInv' /\ WireInv'
  BY DEF TypeOK, LockInv, SocketInv, RelayInv, CallInv, WireInv, RequestInv,
         ReplyInv, RanInv
<1>4. RanInv' /\ WatchInv'
  BY DEF TypeOK, LockInv, CallInv, SocketInv, RelayInv, WireInv, RequestInv,
         ReplyInv, RanInv, WatchInv
<1> QED
  BY <1>1, <1>2, <1>3, <1>4

HIDE DEF IInv, threadVars, socketVars, watchVars, wireVars, serverVars,
         netVars, envVars, resultVars, Pcs, Outcomes, Holding, Calling, Unsent

----------------------------------------------------------------------------

LEMMA InitEstablishes == Init => IInv
<1> SUFFICES ASSUME Init
             PROVE  IInv
  OBVIOUS
<1> USE NameAssumption, TimeoutAssumption, OneItem
    DEF Init, Pcs, Outcomes, Holding, Calling, Unsent
<1>1. TypeOK
  BY DEF TypeOK
<1>2. LockInv /\ CallInv /\ SocketInv
  BY DEF LockInv, CallInv, SocketInv
<1>3. RelayInv /\ WireInv
  BY DEF RelayInv, WireInv
<1>4. RanInv /\ WatchInv
  BY DEF RanInv, WatchInv
<1> QED
  BY <1>1, <1>2, <1>3, <1>4 DEF IInv

LEMMA NextPreserves == IInv /\ [Next]_vars => IInv'
<1> SUFFICES ASSUME IInv, [Next]_vars
             PROVE  IInv'
  OBVIOUS
<1>1. CASE \E t \in Threads : ThreadStep(t)
  BY <1>1, CallKeeps, AcquireKeeps, ConnectOkKeeps, ConnectFailsKeeps,
     SendOkKeeps, SendRefusedKeeps, ReceiveKeeps, CallLostKeeps,
     CallCloseKeeps, CloseKeeps, JoinKeeps
  DEF ThreadStep
<1>2. CASE Interrupt \/ InterruptWaiting
  BY <1>2, InterruptKeeps, InterruptWaitingKeeps
<1>3. CASE \E c \in Conns : WatcherStep(c)
  BY <1>3, WatchReplacedKeeps, WatchCloseKeeps, WatchSleepKeeps,
     WatchWakeKeeps
  DEF WatcherStep
<1>4. CASE \E c \in Conns : RelayStep(c)
  BY <1>4, ForwardKeeps, DropKeeps, NoticeCloseKeeps, SeeCloseKeeps
  DEF RelayStep
<1>5. CASE OtherTakes \/ OtherReleases \/ Tick
  BY <1>5, OtherTakesKeeps, OtherReleasesKeeps, TickKeeps
<1>6. CASE UNCHANGED vars
  BY <1>6 DEF vars, threadVars, socketVars, watchVars, wireVars, serverVars,
     netVars, envVars, resultVars, IInv, TypeOK, LockInv, CallInv, SocketInv,
     RelayInv, WireInv, RequestInv, ReplyInv, RanInv, WatchInv
<1> QED
  BY <1>1, <1>2, <1>3, <1>4, <1>5, <1>6 DEF Next

\* The invariant holds in every state, for any number of threads, calls and
\* sockets and any timeouts.
THEOREM Invariance == Spec => []IInv
  BY InitEstablishes, NextPreserves, PTL DEF Spec

\* Every variable keeps its type.
THEOREM TypeCorrect == Spec => []TypeOK
<1>1. IInv => TypeOK
  BY DEF IInv
<1> QED
  BY <1>1, Invariance, PTL

\* A call that returns an answer returns its own: no stale reply is ever
\* handed to the next call.
THEOREM PairingCorrect == Spec => []RepliesPaired
<1>1. IInv => RepliesPaired
  BY DEF IInv, RanInv, RepliesPaired
<1> QED
  BY <1>1, Invariance, PTL

\* No call runs twice on the FPGA.
THEOREM AtMostOnceCorrect == Spec => []RunsAtMostOnce
<1>1. IInv => RunsAtMostOnce
  BY DEF IInv, RanInv, RunsAtMostOnce
<1> QED
  BY <1>1, Invariance, PTL

\* A call refused with "couldn't open" or "in use" never ran.
THEOREM RefusalCorrect == Spec => []RefusedNeverRan
<1>1. IInv => RefusedNeverRan
  BY DEF IInv, RanInv, RefusedNeverRan
<1> QED
  BY <1>1, Invariance, PTL

\* The idle watcher never closes a socket under a waiting call.
THEOREM MidCallCorrect == Spec => []MidCallSocketKept
<1>1. IInv => MidCallSocketKept
  BY NameAssumption DEF IInv, SocketInv, WatchInv, MidCallSocketKept
<1> QED
  BY <1>1, Invariance, PTL

\* Every open socket is the current one and has a live watcher in time.
THEOREM WatchedCorrect == Spec => []OpenSocketWatched
<1>1. IInv => OpenSocketWatched
  BY DEF IInv, TypeOK, RelayInv, WatchInv, OpenSocketWatched
<1> QED
  BY <1>1, Invariance, PTL

----------------------------------------------------------------------------
(* The refinement: every step is one of the promise, or none of its        *)
(* concern.                                                                *)

LEMMA QuietStep ==
  ASSUME UNCHANGED resultVars
  PROVE  [Promise!Next]_(Promise!vars)
  BY DEF resultVars, Promise!vars

LEMMA CallPromised ==
  ASSUME IInv, NEW t \in Threads, NEW k \in Calls, Call(t, k)
  PROVE  Promise!Next
<1>1. Promise!Invoke(k)
  BY DEF Call, Promise!Invoke
<1> QED
  BY <1>1 DEF Promise!Next

\* A call that ends without an answer: refused before it ran, or given up.
LEMMA EndPromised ==
  ASSUME IInv, NEW t \in Threads, pc[t] \in Calling,
         NEW o \in {"noconn", "busy", "lost", "interrupted"},
         outcome' = [outcome EXCEPT ![call[t]] = o],
         UNCHANGED <<got, ran>>,
         o \in {"noconn", "busy"} => ran[call[t]] = 0
  PROVE  Promise!Next
<1>1. call[t] \in Calls /\ outcome[call[t]] = "pending"
  BY DEF IInv, CallInv
<1>2. CASE o \in {"noconn", "busy"}
  <2>1. Promise!Refuse(call[t], o)
    BY <1>1, <1>2 DEF Promise!Refuse
  <2> QED
    BY <1>1, <1>2, <2>1 DEF Promise!Next
<1>3. CASE o \in {"lost", "interrupted"}
  <2>1. Promise!GiveUp(call[t], o)
    BY <1>1 DEF Promise!GiveUp
  <2> QED
    BY <1>1, <1>3, <2>1 DEF Promise!Next
<1> QED
  BY <1>2, <1>3

LEMMA ReceivePromised ==
  ASSUME IInv, NEW t \in Threads, Receive(t)
  PROVE  Promise!Next
<1> DEFINE k == call[t]
<1>1. /\ k \in Calls
      /\ outcome[k] = "pending"
      /\ conn \in Conns
      /\ \A u \in Threads : pc[u] = "recv" => u = t
  BY DEF IInv, CallInv, SocketInv, LockInv, Calling, Holding, Receive
<1>2. down[conn] = <<k>> /\ ran[k] = 1
  BY <1>1 DEF IInv, WireInv, ReplyInv, Receive
<1>3. got' = [got EXCEPT ![k] = k]
  BY <1>2, OneItem DEF Receive
<1>4. PICK o \in {"ok", "failed"} : outcome' = [outcome EXCEPT ![k] = o]
  BY DEF Receive, Return
<1>5. Promise!Answer(k, o)
  BY <1>1, <1>2, <1>3, <1>4 DEF Receive, Promise!Answer
<1> QED
  BY <1>1, <1>5 DEF Promise!Next

LEMMA ForwardPromised ==
  ASSUME IInv, NEW c \in Conns, Forward(c)
  PROVE  Promise!Next
<1>1. PICK k \in Calls : RequestInv(c, k)
  BY DEF IInv, WireInv, Forward
<1>2. outcome[k] \in {"pending", "interrupted"}
  BY <1>1 DEF IInv, RequestInv, CallInv, Calling, Holding
<1>3. ran' = [ran EXCEPT ![k] = 1]
  BY <1>1, OneItem DEF Forward, RequestInv, IInv, TypeOK
<1>4. Promise!Run(k)
  BY <1>1, <1>2, <1>3 DEF Forward, RequestInv, Promise!Run
<1> QED
  BY <1>4 DEF Promise!Next

LEMMA StepPromised ==
  IInv /\ [Next]_vars => [Promise!Next]_(Promise!vars)
<1> SUFFICES ASSUME IInv, [Next]_vars
             PROVE  [Promise!Next]_(Promise!vars)
  OBVIOUS
<1> USE DEF Calling, Holding
<1>1. ASSUME NEW t \in Threads, ThreadStep(t)
      PROVE  [Promise!Next]_(Promise!vars)
  <2>1. CASE \E k \in Calls : Call(t, k)
    BY <2>1, CallPromised
  <2>2. CASE ConnectFails(t)
    <3>1. ran[call[t]] = 0
      BY <2>2 DEF ConnectFails, IInv, RanInv, Unsent
    <3> QED
      BY <2>2, <3>1, EndPromised DEF ConnectFails, Return
  <2>3. CASE CallLost(t)
    <3>1. srv[conn] = "busy" => ran[call[t]] = 0
      BY <2>3 DEF CallLost, IInv, RanInv, Unsent
    <3> QED
      BY <2>3, <3>1, EndPromised DEF CallLost, Return, ClosedError
  <2>4. CASE Receive(t)
    BY <2>4, ReceivePromised
  <2>5. CASE \/ Acquire(t) \/ SendOk(t) \/ SendRefused(t) \/ CallClose(t)
             \/ Close(t) \/ Join(t)
             \/ \E c \in Conns : ConnectOk(t, c)
    BY <2>5, QuietStep DEF Acquire, SendOk, SendRefused, CallClose, Close,
       Join, ConnectOk, resultVars
  <2> QED
    BY <1>1, <2>1, <2>2, <2>3, <2>4, <2>5 DEF ThreadStep
<1>2. CASE Interrupt
  BY <1>2, EndPromised, NameAssumption DEF Interrupt, Return
<1>3. CASE InterruptWaiting
  BY <1>3, EndPromised, NameAssumption DEF InterruptWaiting
<1>4. ASSUME NEW c \in Conns, WatcherStep(c)
      PROVE  [Promise!Next]_(Promise!vars)
  BY <1>4, QuietStep DEF WatcherStep, WatchReplaced, WatchClose, WatchSleep,
     WatchWake, resultVars
<1>5. ASSUME NEW c \in Conns, RelayStep(c)
      PROVE  [Promise!Next]_(Promise!vars)
  BY <1>5, ForwardPromised, QuietStep DEF RelayStep, Drop, NoticeClose,
     SeeClose, resultVars
<1>6. CASE OtherTakes \/ OtherReleases \/ Tick
  BY <1>6, QuietStep DEF OtherTakes, OtherReleases, Tick, resultVars
<1>7. CASE UNCHANGED vars
  BY <1>7, QuietStep DEF vars
<1> QED
  BY <1>1, <1>2, <1>3, <1>4, <1>5, <1>6, <1>7 DEF Next

\* The transport implements AtMostOnceCalls: a call runs at most once, an
\* answer is its own, and a refusal is final.
THEOREM Implements == Spec => AtMostOnce
<1>1. Init => Promise!Init
  BY DEF Init, Promise!Init
<1> QED
  BY <1>1, Invariance, StepPromised, PTL DEF Spec, AtMostOnce, Promise!Spec
----------------------------------------------------------------------------
(* The lease: each action keeps it younger than what travels allows.       *)

\* Only the lock holder is inside the exchange, and before it sends nothing
\* travels on the current socket.
LEMMA Exchange ==
  ASSUME IInv, NEW t \in Threads, pc[t] \in Holding
  PROVE  /\ lock = t
         /\ \A u \in Threads : pc[u] \in Holding => u = t
         /\ pc[t] # "recv" /\ conn \in Conns => up[conn] = <<>> /\ down[conn] = <<>>
<1>1. lock = t /\ \A u \in Threads : pc[u] \in Holding => u = t
  BY DEF IInv, LockInv
<1>2. ASSUME pc[t] # "recv", conn \in Conns
      PROVE  up[conn] = <<>> /\ down[conn] = <<>>
  <2>1. \A u \in Threads : pc[u] # "recv"
    BY <1>1, <1>2 DEF Holding
  <2> QED
    BY <1>2, <2>1 DEF IInv, WireInv, RequestInv, ReplyInv
<1> QED
  BY <1>1, <1>2

\* Only the reply to the call it waits for ends a thread's wait without the
\* socket being given up.
LEMMA WaitStep ==
  IInv /\ WaitInv /\ [Next]_vars => WaitInv'
<1> SUFFICES ASSUME IInv, WaitInv, [Next]_vars,
                    NEW u \in Threads, pc'[u] = "recv", srv'[conn'] = "up"
             PROVE  up'[conn'] # <<>> \/ down'[conn'] # <<>>
  BY DEF WaitInv
<1> USE DEF WaitInv, Goto, threadVars, socketVars, watchVars, wireVars,
            serverVars, netVars, envVars, resultVars, Pcs, Holding
<1>0. /\ pc \in [Threads -> Pcs]
      /\ pc[u] = "recv" => lock = u /\ conn \in Conns
      /\ \A t \in Threads : pc[t] \in Holding <=> lock = t
      /\ up \in [Conns -> Seq(Calls)]
      /\ down \in [Conns -> Seq(Calls)]
      /\ srv \in [Conns -> {"unused", "up", "busy", "down"}]
  BY DEF IInv, TypeOK, LockInv, SocketInv
<1>1. ASSUME NEW t \in Threads, ThreadStep(t)
      PROVE  up'[conn'] # <<>> \/ down'[conn'] # <<>>
  <2>1. CASE \E k \in Calls : Call(t, k)
    BY <1>0, <2>1 DEF Call
  <2>2. CASE Acquire(t)
    BY <1>0, <2>2 DEF Acquire
  <2>3. CASE \E c \in Conns : ConnectOk(t, c)
    BY <1>0, <2>3 DEF ConnectOk
  <2>4. CASE ConnectFails(t)
    BY <1>0, <2>4 DEF ConnectFails, Return
  <2>5. CASE SendOk(t)
    <3>1. t = u /\ conn' = conn /\ srv' = srv
      BY <1>0, <2>5 DEF SendOk
    <3>2. conn \in Conns /\ call[t] \in Calls
      BY <2>5 DEF SendOk, IInv, SocketInv, CallInv, Calling
    <3>3. up'[conn] = Append(up[conn], call[t])
      BY <1>0, <2>5, <3>1, <3>2 DEF SendOk
    <3>4. up[conn] = <<>>
      BY <2>5, <3>2, Exchange DEF SendOk
    <3> QED
      BY <3>1, <3>3, <3>4, OneItem
  <2>6. CASE SendRefused(t)
    BY <1>0, <2>6 DEF SendRefused, CloseLocked
  <2>7. CASE Receive(t) \/ CallLost(t)
    BY <1>0, <2>7 DEF Receive, CallLost, Return
  <2>8. CASE CallClose(t)
    BY <1>0, <2>8 DEF CallClose
  <2>9. CASE Close(t)
    <3>1. lock = None /\ pc[u] = "recv"
      BY <1>0, <2>9 DEF Close
    <3> QED
      BY <1>0, <3>1, NameAssumption
  <2>10. CASE Join(t)
    BY <1>0, <2>10 DEF Join
  <2> QED
    BY <1>1, <2>1, <2>2, <2>3, <2>4, <2>5, <2>6, <2>7, <2>8, <2>9, <2>10
    DEF ThreadStep
<1>2. CASE Interrupt \/ InterruptWaiting
  BY <1>0, <1>2, NameAssumption DEF Interrupt, InterruptWaiting, Return
<1>3. ASSUME NEW c \in Conns, WatcherStep(c)
      PROVE  up'[conn'] # <<>> \/ down'[conn'] # <<>>
  <2>1. CASE WatchClose(c)
    <3>1. lock = None /\ pc[u] = "recv"
      BY <1>0, <2>1 DEF WatchClose
    <3> QED
      BY <1>0, <3>1, NameAssumption
  <2>2. CASE WatchReplaced(c) \/ WatchSleep(c) \/ WatchWake(c)
    BY <1>0, <2>2 DEF WatchReplaced, WatchSleep, WatchWake
  <2> QED
    BY <1>3, <2>1, <2>2 DEF WatcherStep
<1>4. ASSUME NEW c \in Conns, RelayStep(c)
      PROVE  up'[conn'] # <<>> \/ down'[conn'] # <<>>
  <2>0. pc[u] = "recv" /\ conn' = conn /\ conn \in Conns
    BY <1>0, <1>4 DEF RelayStep, Forward, Drop, NoticeClose, SeeClose
  <2>1. CASE Forward(c)
    <3>1. PICK k \in Calls : up[c] = <<k>> /\ down[c] = <<>>
      BY <2>1 DEF Forward, IInv, WireInv, RequestInv
    <3>2. CASE c = conn
      <4>1. down'[c] = <<k>>
        BY <1>0, <2>1, <3>1, <3>2, OneItem DEF Forward
      <4> QED
        BY <2>0, <3>2, <4>1, OneItem
    <3>3. CASE c # conn
      <4>1. srv'[conn] = srv[conn] /\ up'[conn] = up[conn] /\ down'[conn] = down[conn]
        BY <1>0, <2>0, <2>1, <3>3 DEF Forward
      <4> QED
        BY <2>0, <4>1
    <3> QED
      BY <3>2, <3>3
  <2>2. CASE Drop(c)
    <3>1. c # conn
      BY <1>0, <2>0, <2>2 DEF Drop
    <3>2. srv'[conn] = srv[conn] /\ up'[conn] = up[conn] /\ down'[conn] = down[conn]
      BY <1>0, <2>0, <2>2, <3>1 DEF Drop
    <3> QED
      BY <2>0, <3>2
  <2>3. CASE NoticeClose(c) \/ SeeClose(c)
    <3>1. srv[conn] = "up" /\ up' = up /\ down' = down
      BY <1>0, <2>0, <2>3 DEF NoticeClose, SeeClose
    <3> QED
      BY <2>0, <3>1
  <2> QED
    BY <1>4, <2>1, <2>2, <2>3 DEF RelayStep
<1>5. CASE OtherTakes \/ OtherReleases \/ Tick
  BY <1>0, <1>5 DEF OtherTakes, OtherReleases, Tick
<1>6. CASE UNCHANGED vars
  BY <1>6 DEF vars
<1> QED
  BY <1>1, <1>2, <1>3, <1>4, <1>5, <1>6 DEF Next

\* What the clocks and the wires of a socket are made of.
LEMMA Clocks ==
  ASSUME IInv
  PROVE  /\ pc \in [Threads -> Pcs]
         /\ idle \in Nat /\ idle <= IdleTimeout
         /\ lease \in Nat
         /\ transit \in [Conns -> 0..Latency]
         /\ up \in [Conns -> Seq(Calls)]
         /\ down \in [Conns -> Seq(Calls)]
         /\ srv \in [Conns -> {"unused", "up", "busy", "down"}]
         /\ Latency \in Nat /\ IdleTimeout \in Nat /\ LinkTimeout \in Nat
         /\ \A c \in Conns : up[c] # <<>> => \E k \in Calls : up[c] = <<k>> /\ down[c] = <<>>
         /\ \A c \in Conns : down[c] # <<>> => \E k \in Calls : down[c] = <<k>>
         /\ \A c \in Conns : down[c] # <<>> => c = conn
         /\ \A c \in Conns : c = conn /\ c \notin open => srv[c] # "up"
<1>1. \A c \in Conns : down[c] # <<>> => \E k \in Calls : down[c] = <<k>>
  BY DEF IInv, WireInv, ReplyInv, CallInv, Calling, Holding
<1>2. \A c \in Conns : up[c] # <<>> => \E k \in Calls : up[c] = <<k>> /\ down[c] = <<>>
  BY DEF IInv, WireInv, RequestInv
<1> QED
  BY <1>1, <1>2, TimeoutAssumption DEF IInv, TypeOK, RelayInv

\* Steps that leave the clocks, the wires and the relays alone.
LEMMA LeaseUntouched ==
  ASSUME LeaseInv, UNCHANGED <<up, down, transit, srv, link, lease, idle, conn>>
  PROVE  LeaseInv'
  BY DEF LeaseInv

\* Forgetting the socket leaves at most a request of an interrupted call on it.
LEMMA LeaseClosed ==
  ASSUME IInv, LeaseInv, CloseLocked, UNCHANGED <<up, srv, link, lease, idle>>
  PROVE  LeaseInv'
<1> SUFFICES ASSUME NEW c \in Conns, srv[c] = "up", up[c] # <<>>
             PROVE  link = c /\ lease <= IdleTimeout + Latency + transit'[c]
                      /\ down'[c] = <<>>
  <2>1. \A c \in Conns : down'[c] = <<>>
    BY Clocks DEF CloseLocked
  <2>2. \A c \in Conns : c # conn'
    BY NameAssumption DEF CloseLocked
  <2> QED
    BY <2>1, <2>2 DEF LeaseInv
<1>1. transit'[c] = transit[c]
  BY DEF CloseLocked
<1>2. down'[c] = <<>>
  BY Clocks DEF CloseLocked
<1> QED
  BY <1>1, <1>2 DEF LeaseInv

\* The relay renews the lease when it runs a request, and not before.
LEMMA LeaseForward ==
  ASSUME IInv, LeaseInv, NEW c \in Conns, Forward(c)
  PROVE  LeaseInv'
<1>0. PICK k \in Calls : up[c] = <<k>> /\ down[c] = <<>>
  BY Clocks DEF Forward
<1>1. link = c
  BY DEF Forward, LeaseInv
<1>2. lease' = 0 /\ srv' = srv /\ link' = link /\ conn' = conn /\ idle' = idle
  BY <1>1 DEF Forward, socketVars
<1>3. /\ transit'[c] = 0
      /\ up'[c] = <<>>
      /\ \A d \in Conns : d # c => /\ up'[d] = up[d]
                                   /\ down'[d] = down[d]
                                   /\ transit'[d] = transit[d]
  BY <1>0, Clocks, OneItem DEF Forward
<1>4. \A d \in Conns : transit'[d] \in Nat
  <2>1. \A d \in Conns : transit[d] \in Nat
    BY Clocks
  <2> QED
    BY <1>3, <2>1
<1> SUFFICES ASSUME NEW d \in Conns, srv[d] = "up"
             PROVE  /\ d = conn \/ up'[d] # <<>> => link = d
                    /\ 0 <= IdleTimeout + Latency + transit'[d]
                    /\ 0 <= transit'[d]
                    /\ 0 <= idle + Latency
  BY <1>2 DEF LeaseInv
<1>5. d = conn \/ up'[d] # <<>> => link = d
  BY <1>1, <1>3 DEF LeaseInv
<1> QED
  BY <1>4, <1>5, Clocks

\* While time passes, the current socket has something in flight or has not
\* been idle for IdleTimeout yet: its watcher would not be asleep.
LEMMA TickNotIdle ==
  ASSUME IInv, WaitInv, Tick, conn \in Conns, srv[conn] = "up",
         up[conn] = <<>>, down[conn] = <<>>
  PROVE  idle < IdleTimeout
<1>1. lock = None
  <2> SUFFICES ASSUME lock # None
               PROVE  FALSE
    OBVIOUS
  <2>1. lock \in Threads /\ pc[lock] \in Holding
    BY DEF IInv, TypeOK, LockInv
  <2>2. pc[lock] \in {"connect", "reconnect", "recv"}
    BY <2>1 DEF Tick, Blocked, Holding
  <2>3. pc[lock] = "recv"
    BY <2>1, <2>2, NameAssumption DEF IInv, SocketInv
  <2> QED
    BY <2>1, <2>3 DEF WaitInv
<1>2. watch[conn] = "wait" /\ timer[conn] > 0 /\ timer[conn] + idle <= IdleTimeout
  BY <1>1 DEF IInv, WatchInv, Tick, Asleep
<1>3. timer[conn] \in Nat /\ idle \in Nat
  BY DEF IInv, TypeOK
<1> QED
  BY <1>2, <1>3, Clocks

\* Time: the lease is too young to run out on a socket that needs it, and what
\* travels or the idle time grows as old as the lease does.
LEMMA LeaseTick ==
  ASSUME IInv, WaitInv, LeaseInv, Slack, Tick
  PROVE  LeaseInv'
<1> DEFINE Need(c) == srv[c] = "up" /\ (c = conn \/ up[c] # <<>>)
<1>0. /\ up' = up /\ down' = down /\ srv' = srv /\ conn' = conn
      /\ idle' = IF conn # None /\ idle < IdleTimeout THEN idle + 1 ELSE idle
      /\ transit' = [c \in Conns |-> IF InFlight(c) THEN transit[c] + 1 ELSE 0]
      /\ \A c \in Conns : InFlight(c) => transit[c] < Latency
  BY DEF Tick
<1>1. ASSUME NEW c \in Conns, Need(c)
      PROVE  /\ link = c
             /\ lease + 1 < LinkTimeout
             /\ up[c] # <<>> => lease + 1 <= IdleTimeout + Latency + transit'[c]
             /\ down[c] # <<>> => lease + 1 <= transit'[c]
             /\ c = conn /\ up[c] = <<>> /\ down[c] = <<>> => lease + 1 <= idle' + Latency
  <2>1. link = c
    BY <1>1 DEF LeaseInv
  <2>2. /\ transit[c] \in Nat /\ lease \in Nat /\ idle \in Nat
        /\ Latency \in Nat /\ IdleTimeout \in Nat /\ LinkTimeout \in Nat
        /\ IdleTimeout + 2 * Latency < LinkTimeout
    BY Clocks DEF Slack
  <2>3. CASE up[c] # <<>>
    <3>1. down[c] = <<>>
      BY <2>3, Clocks
    <3>2. InFlight(c)
      BY <1>1, <2>3 DEF InFlight
    <3>3. transit[c] < Latency /\ transit'[c] = transit[c] + 1
      BY <1>0, <3>2
    <3>4. lease <= IdleTimeout + Latency + transit[c]
      BY <1>1, <2>3 DEF LeaseInv
    <3>5. lease + 1 < LinkTimeout /\ lease + 1 <= IdleTimeout + Latency + (transit[c] + 1)
      BY <2>2, <3>3, <3>4
    <3> QED
      BY <2>1, <2>3, <3>1, <3>3, <3>5
  <2>4. CASE up[c] = <<>> /\ down[c] # <<>>
    <3>1. InFlight(c)
      BY <2>4 DEF InFlight
    <3>2. transit[c] < Latency /\ transit'[c] = transit[c] + 1
      BY <1>0, <3>1
    <3>3. lease <= transit[c]
      BY <1>1, <2>4 DEF LeaseInv
    <3>4. lease + 1 < LinkTimeout /\ lease + 1 <= transit[c] + 1
      BY <2>2, <3>2, <3>3
    <3> QED
      BY <2>1, <2>4, <3>2, <3>4
  <2>5. CASE up[c] = <<>> /\ down[c] = <<>>
    <3>1. c = conn
      BY <1>1, <2>5
    <3>2. idle < IdleTimeout
      BY <1>1, <2>5, <3>1, TickNotIdle
    <3>3. idle' = idle + 1
      BY <1>0, <3>1, <3>2, NameAssumption
    <3>4. lease <= idle + Latency
      BY <1>1, <2>5, <3>1 DEF LeaseInv
    <3>5. lease + 1 < LinkTimeout /\ lease + 1 <= (idle + 1) + Latency
      BY <2>2, <3>2, <3>4
    <3> QED
      BY <2>1, <2>5, <3>3, <3>5
  <2> QED
    BY <2>3, <2>4, <2>5
<1>2. ASSUME NEW c \in Conns, Need(c)
      PROVE  link' = c /\ lease' = lease + 1
  BY <1>1, <1>2, Clocks DEF Tick
<1> SUFFICES ASSUME NEW c \in Conns, srv[c] = "up"
             PROVE  /\ c = conn \/ up[c] # <<>> => link' = c
                    /\ up[c] # <<>> => lease' <= IdleTimeout + Latency + transit'[c]
                    /\ down[c] # <<>> => lease' <= transit'[c]
                    /\ c = conn /\ up[c] = <<>> /\ down[c] = <<>> => lease' <= idle' + Latency
  BY <1>0 DEF LeaseInv
<1>3. down[c] # <<>> => c = conn
  BY Clocks
<1> HIDE DEF Need
<1>4. c = conn \/ up[c] # <<>> => Need(c)
  BY DEF Need
<1> QED
  BY <1>1, <1>2, <1>3, <1>4

LEMMA LeaseStep ==
  IInv /\ WaitInv /\ LeaseInv /\ Slack /\ [Next]_vars => LeaseInv'
<1> SUFFICES ASSUME IInv, WaitInv, LeaseInv, Slack, [Next]_vars
             PROVE  LeaseInv'
  OBVIOUS
<1> USE DEF threadVars, socketVars, watchVars, wireVars, serverVars, netVars,
            envVars, resultVars
<1>1. ASSUME NEW t \in Threads, ThreadStep(t)
      PROVE  LeaseInv'
  <2>1. CASE \/ \E k \in Calls : Call(t, k)
             \/ Acquire(t) \/ ConnectFails(t) \/ CallClose(t) \/ Join(t)
    BY <2>1, LeaseUntouched DEF Call, Acquire, ConnectFails, CallClose, Join
  <2>2. CASE SendRefused(t) \/ CallLost(t) \/ Close(t)
    BY <2>2, LeaseClosed DEF SendRefused, CallLost, Close
  <2>3. ASSUME NEW c \in Conns, ConnectOk(t, c)
        PROVE  LeaseInv'
    <3>1. /\ conn' = c /\ idle' = 0
          /\ up' = up /\ down' = down /\ transit' = transit
          /\ \A d \in Conns : d # c => srv'[d] = srv[d]
          /\ up[c] = <<>> /\ down[c] = <<>>
      BY <2>3, Clocks DEF ConnectOk, IInv, RelayInv
    <3>2. \A d \in Conns : down[d] = <<>>
      <4>1. conn = None
        BY <2>3 DEF ConnectOk, IInv, SocketInv
      <4> QED
        BY <4>1, Clocks, NameAssumption
    <3>3. CASE link = None
      <4>1. link' = c /\ lease' \in 0..Latency
        BY <2>3, <3>3 DEF ConnectOk
      <4>2. \A d \in Conns : srv[d] = "up" => up[d] = <<>>
        BY <3>3, NameAssumption DEF LeaseInv
      <4>3. lease' <= 0 + Latency
        BY <4>1, Clocks
      <4> QED
        BY <3>1, <3>2, <4>1, <4>2, <4>3 DEF LeaseInv
    <3>4. CASE link # None
      <4>1. srv'[c] = "busy" /\ link' = link /\ lease' = lease
        BY <2>3, <3>4, Clocks DEF ConnectOk
      <4> QED
        BY <3>1, <3>2, <4>1 DEF LeaseInv
    <3> QED
      BY <3>3, <3>4
  <2>4. CASE SendOk(t)
    <3>1. /\ conn \in Conns /\ up[conn] = <<>> /\ down[conn] = <<>>
          /\ conn' = conn /\ idle' = idle /\ srv' = srv /\ link' = link /\ lease' = lease
          /\ down' = down
      BY <2>4, Exchange DEF SendOk, IInv, SocketInv, Holding
    <3>2. CASE srv[conn] = "up"
      <4>1. /\ \A d \in Conns : d # conn => up'[d] = up[d] /\ transit'[d] = transit[d]
            /\ transit'[conn] = 0
        BY <2>4, <3>1, <3>2, Clocks DEF SendOk
      <4>2. link = conn /\ lease <= idle + Latency
        BY <3>1, <3>2 DEF LeaseInv
      <4>3. lease <= IdleTimeout + Latency + 0
        BY <4>2, Clocks
      <4> QED
        BY <3>1, <4>1, <4>2, <4>3 DEF LeaseInv
    <3>3. CASE srv[conn] # "up"
      BY <2>4, <3>1, <3>3 DEF SendOk, LeaseInv
    <3> QED
      BY <3>2, <3>3
  <2>5. CASE Receive(t)
    <3>1. /\ conn \in Conns
          /\ conn' = conn /\ idle' = 0 /\ up' = up /\ transit' = transit
          /\ srv' = srv /\ link' = link /\ lease' = lease
      BY <2>5 DEF Receive, IInv, SocketInv
    <3>2. PICK k \in Calls : down[conn] = <<k>>
      BY <2>5, <3>1, Clocks DEF Receive
    <3>3. \A d \in Conns : down'[d] = <<>>
      BY <2>5, <3>1, <3>2, Clocks, OneItem DEF Receive
    <3>4. srv[conn] = "up" => lease <= transit[conn]
      BY <3>1, <3>2, OneItem DEF LeaseInv
    <3>5. srv[conn] = "up" => lease <= 0 + Latency
      BY <3>1, <3>4, Clocks
    <3> QED
      BY <3>1, <3>3, <3>5 DEF LeaseInv
  <2> QED
    BY <1>1, <2>1, <2>2, <2>3, <2>4, <2>5 DEF ThreadStep
<1>2. CASE Interrupt \/ InterruptWaiting
  BY <1>2, LeaseClosed, LeaseUntouched DEF Interrupt, InterruptWaiting
<1>3. ASSUME NEW c \in Conns, WatcherStep(c)
      PROVE  LeaseInv'
  BY <1>3, LeaseClosed, LeaseUntouched DEF WatcherStep, WatchReplaced, WatchClose,
     WatchSleep, WatchWake
<1>4. ASSUME NEW c \in Conns, RelayStep(c)
      PROVE  LeaseInv'
  <2>1. CASE Drop(c)
    <3>1. /\ srv'[c] = "down"
          /\ \A d \in Conns : d # c => /\ srv'[d] = srv[d]
                                       /\ up'[d] = up[d] /\ down'[d] = down[d]
                                       /\ link = d => link' = d
          /\ UNCHANGED <<conn, idle, transit, lease>>
      BY <2>1, Clocks DEF Drop
    <3> QED
      BY <3>1 DEF LeaseInv
  <2>2. CASE SeeClose(c)
    <3>1. /\ srv'[c] = "down"
          /\ \A d \in Conns : d # c => srv'[d] = srv[d] /\ (link = d => link' = d)
          /\ UNCHANGED <<conn, idle, up, down, transit, lease>>
      BY <2>2, Clocks DEF SeeClose
    <3> QED
      BY <3>1 DEF LeaseInv
  <2>3. CASE NoticeClose(c)
    BY <2>3, LeaseUntouched DEF NoticeClose
  <2> QED
    BY <1>4, <2>1, <2>2, <2>3, LeaseForward DEF RelayStep
<1>5. CASE OtherTakes \/ OtherReleases
  <2>1. \A d \in Conns : link # d
    BY <1>5, NameAssumption DEF OtherTakes, OtherReleases
  <2> QED
    BY <1>5, <2>1 DEF OtherTakes, OtherReleases, LeaseInv
<1>6. CASE Tick
  BY <1>6, LeaseTick
<1>7. CASE UNCHANGED vars
  BY <1>7, LeaseUntouched DEF vars
<1> QED
  BY <1>1, <1>2, <1>3, <1>4, <1>5, <1>6, <1>7 DEF Next

\* The invariant with the lease holds in every state: when the timeouts leave
\* the slack, the age of the lease is bounded by what travels on its socket.
THEOREM LeasedInvariance == Spec => []LeasedInv
<1>1. Init => WaitInv /\ LeaseInv
  BY DEF Init, WaitInv, LeaseInv
<1>2. IInv /\ WaitInv /\ (Slack => LeaseInv) /\ [Next]_vars
        => WaitInv' /\ (Slack => LeaseInv)'
  BY WaitStep, LeaseStep DEF Slack
<1>3. Init => LeasedInv
  BY <1>1, InitEstablishes DEF LeasedInv
<1>4. LeasedInv /\ [Next]_vars => LeasedInv'
  BY <1>2, NextPreserves DEF LeasedInv
<1> QED
  BY <1>3, <1>4, PTL DEF Spec

\* With that slack the relay never runs a request on a board whose link lock
\* it has lost, however the idle watcher, the network and other clients
\* interleave.
THEOREM LeaseCorrect ==
  ASSUME Slack
  PROVE  Spec => ForwardsUnderLock
<1>1. LeasedInv /\ [Next]_vars => [\A c \in Conns : Forward(c) => link = c]_vars
  BY Slack DEF LeasedInv, LeaseInv, Forward
<1> QED
  BY <1>1, LeasedInvariance, PTL DEF Spec, ForwardsUnderLock
=============================================================================
