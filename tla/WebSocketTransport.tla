------------------------ MODULE WebSocketTransport ------------------------
(***************************************************************************)
(* WebSocketTransport of _transport.py: one socket to a board, opened on   *)
(* first use, shared by the threads of a script under one lock, and closed *)
(* by a watcher thread once it has been idle for IdleTimeout.              *)
(*                                                                         *)
(* A call is identified by a member of Calls, a socket by a member of      *)
(* Conns.  Each socket carries requests up to the relay and replies down,  *)
(* in order and untagged: a reply is modelled by the request it answers,   *)
(* which the client cannot see (got only records it).  The relay is        *)
(* external; it is modelled from what the client code says it relies on.   *)
(***************************************************************************)
EXTENDS Naturals, Sequences

CONSTANTS
  Threads,      \* threads sharing the transport
  Main,         \* the one that receives KeyboardInterrupt
  Calls,        \* reads and writes made in a behaviour
  Conns,        \* sockets that can be opened in a behaviour (a bound)
  None, Other,  \* no one; another client of the same board
  IdleTimeout,  \* _WS_IDLE_TIMEOUT
  LinkTimeout,  \* the server's lease on the board's link lock
  Latency,      \* longest one-way delay, the board's own time included
  MaxCloses     \* how often close() is called (a bound)

ASSUME TimeoutAssumption ==
  /\ IdleTimeout \in Nat \ {0}
  /\ LinkTimeout \in Nat \ {0}
  /\ Latency \in Nat
  /\ MaxCloses \in Nat

ASSUME NameAssumption ==
  /\ Main \in Threads
  /\ None \notin Threads \cup Calls \cup Conns
  /\ Other \notin Conns \cup {None}

VARIABLES
  lock,     \* holder of self._lock
  pc, call, \* where each thread is, and the call it is making
  joining,  \* the watcher a closing thread waits for
  closes,   \* close() calls so far
  conn,     \* self._conn
  idle,     \* time since self._last_used, up to IdleTimeout
  open,     \* sockets the websockets library still considers open
  stopped,  \* sockets whose stop event is set
  watch,    \* where the watcher of each socket is
  timer,    \* what is left of the watcher's stop.wait(remaining)
  up, down, \* requests and replies in flight, per socket
  transit,  \* how long they have been
  srv,      \* the relay's side of each socket
  link,     \* who holds the board's link lock
  lease,    \* time since the relay last renewed it
  outcome,  \* what each call told its caller
  got,      \* the request whose reply it returned
  ran       \* how often the FPGA executed it

threadVars == <<lock, pc, call, joining, closes>>
socketVars == <<conn, idle, open, stopped>>
watchVars  == <<watch, timer>>
wireVars   == <<up, down, transit>>
serverVars == <<srv, link, lease>>
resultVars == <<outcome, got, ran>>
netVars == <<wireVars, serverVars>>
envVars == <<watchVars, netVars>>
vars == <<threadVars, socketVars, envVars, resultVars>>

Holding == {"connect", "send", "reconnect", "resend", "recv"}

Init ==
  /\ lock = None
  /\ pc = [t \in Threads |-> "idle"]
  /\ call = [t \in Threads |-> None]
  /\ joining = [t \in Threads |-> None]
  /\ closes = 0
  /\ conn = None
  /\ idle = 0
  /\ open = {}
  /\ stopped = {}
  /\ watch = [c \in Conns |-> "none"]
  /\ timer = [c \in Conns |-> 0]
  /\ up = [c \in Conns |-> <<>>]
  /\ down = [c \in Conns |-> <<>>]
  /\ transit = [c \in Conns |-> 0]
  /\ srv = [c \in Conns |-> "unused"]
  /\ link = None
  /\ lease = 0
  /\ outcome = [k \in Calls |-> "none"]
  /\ got = [k \in Calls |-> None]
  /\ ran = [k \in Calls |-> 0]

----------------------------------------------------------------------------
(* The calling threads.                                                    *)

Goto(t, l) == pc' = [pc EXCEPT ![t] = l]

\* The call ends: the lock is released and the caller gets o.
Return(t, o) ==
  /\ outcome' = [outcome EXCEPT ![call[t]] = o]
  /\ call' = [call EXCEPT ![t] = None]
  /\ lock' = None
  /\ Goto(t, "idle")

\* Mutant: conn.close() is forgotten.
CloseLockedLeavesOpen ==
  /\ conn' = None
  /\ stopped' = stopped \cup ({conn} \ {None})
  /\ UNCHANGED <<open, down, transit>>

\* _close_locked: wake the watcher, forget the socket, close it.  Replies
\* still buffered on a closed socket are never read.
CloseLocked ==
  /\ conn' = None
  /\ stopped' = stopped \cup ({conn} \ {None})
  /\ open' = open \ {conn}
  /\ down' = [c \in Conns |-> IF c = conn THEN <<>> ELSE down[c]]
  /\ transit' = [c \in Conns |->
                   IF c = conn /\ up[c] = <<>> THEN 0 ELSE transit[c]]

\* What _closed_error reports about a socket that closed under the call.
ClosedError(c) == IF srv[c] = "busy" THEN "busy" ELSE "lost"

Call(t, k) ==
  /\ pc[t] = "idle"
  /\ outcome[k] = "none"
  /\ outcome' = [outcome EXCEPT ![k] = "pending"]
  /\ call' = [call EXCEPT ![t] = k]
  /\ Goto(t, "acquire")
  /\ UNCHANGED <<lock, joining, closes, socketVars, envVars, got, ran>>

Acquire(t) ==
  /\ pc[t] = "acquire"
  /\ lock = None
  /\ lock' = t
  /\ Goto(t, IF conn = None THEN "connect" ELSE "send")
  /\ UNCHANGED <<call, joining, closes, socketVars, envVars, resultVars>>

\* The handshake succeeds and a watcher is started.  A relay that cannot have
\* the link lock accepts too, and then closes with 4409.  Otherwise it took
\* the lock up to Latency before the client learns of it.
ConnectOk(t, c) ==
  /\ pc[t] \in {"connect", "reconnect"}
  /\ srv[c] = "unused"
  /\ conn' = c
  /\ idle' = 0
  /\ open' = open \cup {c}
  /\ watch' = [watch EXCEPT ![c] = "check"]
  /\ \/ /\ link = None
        /\ link' = c
        /\ lease' \in 0..Latency
        /\ srv' = [srv EXCEPT ![c] = "up"]
     \/ /\ link # None
        /\ srv' = [srv EXCEPT ![c] = "busy"]
        /\ UNCHANGED <<link, lease>>
  /\ Goto(t, IF pc[t] = "connect" THEN "send" ELSE "resend")
  /\ UNCHANGED <<lock, call, joining, closes, stopped, timer, wireVars,
                 resultVars>>

\* Mutant: the lock is not released on this path.
ConnectFailsKeepsLock(t) ==
  /\ pc[t] \in {"connect", "reconnect"}
  /\ outcome' = [outcome EXCEPT ![call[t]] = "noconn"]
  /\ call' = [call EXCEPT ![t] = None]
  /\ Goto(t, "idle")
  /\ UNCHANGED <<lock, joining, closes, socketVars, envVars, got, ran>>

\* DNS, refused, timed out, or an HTTP status instead of an upgrade.
ConnectFails(t) ==
  /\ pc[t] \in {"connect", "reconnect"}
  /\ Return(t, "noconn")
  /\ UNCHANGED <<joining, closes, socketVars, envVars, got, ran>>

\* A frame given to an open socket whose relay is gone reaches nobody.
SendOk(t) ==
  /\ pc[t] \in {"send", "resend"}
  /\ conn \in open
  /\ IF srv[conn] = "up"
       THEN /\ up' = [up EXCEPT ![conn] = Append(@, call[t])]
            /\ transit' = [transit EXCEPT ![conn] = 0]
       ELSE UNCHANGED <<up, transit>>
  /\ Goto(t, "recv")
  /\ UNCHANGED <<lock, call, joining, closes, socketVars, watchVars, down,
                 serverVars, resultVars>>

\* The socket closed while idle: send raises and a fresh one is tried, once.
SendRefused(t) ==
  /\ pc[t] = "send"
  /\ conn \notin open
  /\ CloseLocked
  /\ Goto(t, "reconnect")
  /\ UNCHANGED <<lock, call, joining, closes, idle, watchVars, up,
                 serverVars, resultVars>>

\* recv returns the oldest reply, buffered ones even after the socket closed.
Receive(t) ==
  /\ pc[t] = "recv"
  /\ down[conn] # <<>>
  /\ got' = [got EXCEPT ![call[t]] = Head(down[conn])]
  /\ down' = [down EXCEPT ![conn] = Tail(@)]
  /\ idle' = 0
  /\ \E o \in {"ok", "failed"} : Return(t, o)
  /\ UNCHANGED <<joining, closes, conn, open, stopped, watchVars, up,
                 transit, serverVars, ran>>

\* Mutant: a socket lost while waiting for the reply is retried as well.
CallLostRetries(t) ==
  /\ pc[t] = "recv" /\ down[conn] = <<>>
  /\ conn \notin open
  /\ CloseLocked
  /\ Goto(t, "reconnect")
  /\ UNCHANGED <<lock, call, joining, closes, idle, watchVars, up, serverVars,
                 resultVars>>

\* The second send is refused, or the socket closes before the reply.
CallLost(t) ==
  /\ \/ pc[t] = "resend"
     \/ pc[t] = "recv" /\ down[conn] = <<>>
  /\ conn \notin open
  /\ Return(t, ClosedError(conn))
  /\ CloseLocked
  /\ UNCHANGED <<joining, closes, idle, watchVars, up, serverVars, got, ran>>

\* Mutant: the socket is kept for the next call.
InterruptKeepsSocket ==
  /\ pc[Main] \in Holding
  /\ Return(Main, "interrupted")
  /\ UNCHANGED <<joining, closes, socketVars, envVars, got, ran>>

\* KeyboardInterrupt while the main thread is inside the locked exchange.
Interrupt ==
  /\ pc[Main] \in Holding
  /\ Return(Main, "interrupted")
  /\ CloseLocked
  /\ UNCHANGED <<joining, closes, idle, watchVars, up, serverVars, got, ran>>

\* KeyboardInterrupt while it still waits for the lock: nothing to undo.
InterruptWaiting ==
  /\ pc[Main] = "acquire"
  /\ outcome' = [outcome EXCEPT ![call[Main]] = "interrupted"]
  /\ call' = [call EXCEPT ![Main] = None]
  /\ Goto(Main, "idle")
  /\ UNCHANGED <<lock, joining, closes, socketVars, envVars, got, ran>>

\* close(): the caller queues for the lock ...
CallClose(t) ==
  /\ pc[t] = "idle"
  /\ closes < MaxCloses
  /\ closes' = closes + 1
  /\ Goto(t, "close")
  /\ UNCHANGED <<lock, call, joining, socketVars, envVars, resultVars>>

\* Mutant: the watcher is joined inside the lock.
CloseJoinsInside(t) ==
  /\ pc[t] = "close"
  /\ lock = None
  /\ lock' = IF conn = None THEN None ELSE t
  /\ joining' = [joining EXCEPT ![t] = conn]
  /\ Goto(t, IF conn = None THEN "idle" ELSE "join")
  /\ CloseLocked
  /\ UNCHANGED <<call, closes, idle, watchVars, up, serverVars, resultVars>>

\* ... closes the socket under it, and joins the watcher outside it.
Close(t) ==
  /\ pc[t] = "close"
  /\ lock = None
  /\ joining' = [joining EXCEPT ![t] = conn]
  /\ Goto(t, IF conn = None THEN "idle" ELSE "join")
  /\ CloseLocked
  /\ UNCHANGED <<lock, call, closes, idle, watchVars, up, serverVars,
                 resultVars>>

\* join(timeout=1) returns once the watcher ended, or the second is over.
Join(t) ==
  /\ pc[t] = "join"
  /\ joining' = [joining EXCEPT ![t] = None]
  /\ Goto(t, "idle")
  /\ UNCHANGED <<lock, call, closes, socketVars, envVars, resultVars>>

----------------------------------------------------------------------------
(* The idle watcher, one per socket.                                       *)

\* Under the lock it ends when the socket was closed or replaced, ...
WatchReplaced(c) ==
  /\ watch[c] = "check"
  /\ lock = None
  /\ conn # c
  /\ watch' = [watch EXCEPT ![c] = "done"]
  /\ UNCHANGED <<threadVars, socketVars, timer, netVars, resultVars>>

\* Mutant: the watcher does not take the lock.
WatchCloseUnlocked(c) ==
  /\ watch[c] = "check"
  /\ conn = c
  /\ idle >= IdleTimeout
  /\ CloseLocked
  /\ watch' = [watch EXCEPT ![c] = "done"]
  /\ UNCHANGED <<threadVars, idle, timer, up, serverVars, resultVars>>

\* ... closes a socket that has been idle for long enough, ...
WatchClose(c) ==
  /\ watch[c] = "check"
  /\ lock = None
  /\ conn = c
  /\ idle >= IdleTimeout
  /\ CloseLocked
  /\ watch' = [watch EXCEPT ![c] = "done"]
  /\ UNCHANGED <<threadVars, idle, timer, up, serverVars, resultVars>>

\* Mutant: the sleep is always the whole timeout.
WatchSleepWhole(c) ==
  /\ watch[c] = "check"
  /\ lock = None
  /\ conn = c
  /\ idle < IdleTimeout
  /\ watch' = [watch EXCEPT ![c] = "wait"]
  /\ timer' = [timer EXCEPT ![c] = IdleTimeout]
  /\ UNCHANGED <<threadVars, socketVars, netVars, resultVars>>

\* ... and otherwise sleeps until the deadline as it stands now.
WatchSleep(c) ==
  /\ watch[c] = "check"
  /\ lock = None
  /\ conn = c
  /\ idle < IdleTimeout
  /\ watch' = [watch EXCEPT ![c] = "wait"]
  /\ timer' = [timer EXCEPT ![c] = IdleTimeout - idle]
  /\ UNCHANGED <<threadVars, socketVars, netVars, resultVars>>

\* Mutant: the watcher looks at the deadline only once.
WatchWakeEnds(c) ==
  /\ watch[c] = "wait"
  /\ c \in stopped \/ timer[c] = 0
  /\ watch' = [watch EXCEPT ![c] = "done"]
  /\ timer' = [timer EXCEPT ![c] = 0]
  /\ UNCHANGED <<threadVars, socketVars, netVars, resultVars>>

\* stop.wait(remaining): woken by the stop event, or at the deadline.
WatchWake(c) ==
  /\ watch[c] = "wait"
  /\ c \in stopped \/ timer[c] = 0
  /\ watch' = [watch EXCEPT ![c] = IF c \in stopped THEN "done" ELSE "check"]
  /\ timer' = [timer EXCEPT ![c] = 0]
  /\ UNCHANGED <<threadVars, socketVars, netVars, resultVars>>

----------------------------------------------------------------------------
(* The relay, the library and the network (external).                      *)

\* The relay runs the next request on the FPGA and renews its lease.  If the
\* lease had run out the request runs all the same, without the lock, and the
\* relay then drops the socket.
Forward(c) ==
  /\ srv[c] = "up"
  /\ up[c] # <<>>
  /\ ran' = [ran EXCEPT ![Head(up[c])] = @ + 1]
  /\ up' = [up EXCEPT ![c] = Tail(@)]
  /\ down' = [down EXCEPT ![c] =
                IF c = conn THEN Append(@, Head(up[c])) ELSE @]
  /\ transit' = [transit EXCEPT ![c] = 0]
  /\ IF link = c THEN lease' = 0 /\ UNCHANGED srv
                 ELSE srv' = [srv EXCEPT ![c] = "down"] /\ UNCHANGED lease
  /\ UNCHANGED <<threadVars, socketVars, watchVars, link, outcome, got>>

\* Server restart or network failure: the relay's end is gone, and what was
\* in flight with it, unless a reply had already reached the client.  The link
\* lock is given back, or left to its lease.
Drop(c) ==
  /\ c \in open
  /\ srv[c] \in {"up", "busy"}
  /\ srv' = [srv EXCEPT ![c] = "down"]
  /\ up' = [up EXCEPT ![c] = <<>>]
  /\ down' \in {down, [down EXCEPT ![c] = <<>>]}
  /\ link' \in {link, IF link = c THEN None ELSE link}
  /\ UNCHANGED <<threadVars, socketVars, watchVars, transit, lease,
                 resultVars>>

\* The client's library learns that the socket is closed.
NoticeClose(c) ==
  /\ c \in open
  /\ srv[c] \in {"busy", "down"}
  /\ open' = open \ {c}
  /\ UNCHANGED <<threadVars, conn, idle, stopped, envVars, resultVars>>

\* The relay sees the client's close, behind everything sent before it.
SeeClose(c) ==
  /\ c \notin open
  /\ srv[c] = "up"
  /\ up[c] = <<>>
  /\ srv' = [srv EXCEPT ![c] = "down"]
  /\ link' = IF link = c THEN None ELSE link
  /\ UNCHANGED <<threadVars, socketVars, watchVars, wireVars, lease,
                 resultVars>>

OtherTakes ==
  /\ link = None
  /\ link' = Other
  /\ UNCHANGED <<threadVars, socketVars, watchVars, wireVars, srv, lease,
                 resultVars>>

OtherReleases ==
  /\ link = Other
  /\ link' = None
  /\ UNCHANGED <<threadVars, socketVars, watchVars, wireVars, srv, lease,
                 resultVars>>

InFlight(c) ==
  \/ srv[c] = "up" /\ (up[c] # <<>> \/ c \notin open)
  \/ down[c] # <<>>

\* Time passes only when every thread waits for something and nothing in
\* flight is due: local steps take no time compared with the timeouts.
Blocked(t) ==
  \/ pc[t] \in {"idle", "connect", "reconnect"}
  \/ pc[t] \in {"acquire", "close"} /\ lock # None
  \/ pc[t] = "recv" /\ (down[conn] # <<>> \/ conn \in open)
  \/ pc[t] = "join" /\ watch[joining[t]] # "done"

Asleep(c) ==
  \/ watch[c] \in {"none", "done"}
  \/ watch[c] = "check" /\ lock # None
  \/ watch[c] = "wait" /\ c \notin stopped /\ timer[c] > 0

Tick ==
  /\ \A t \in Threads : Blocked(t)
  /\ \A c \in Conns : Asleep(c) /\ (InFlight(c) => transit[c] < Latency)
  /\ idle' = IF conn # None /\ idle < IdleTimeout THEN idle + 1 ELSE idle
  /\ timer' = [c \in Conns |-> IF timer[c] > 0 THEN timer[c] - 1 ELSE 0]
  /\ transit' = [c \in Conns |-> IF InFlight(c) THEN transit[c] + 1 ELSE 0]
  /\ \/ /\ link \in Conns /\ lease + 1 < LinkTimeout
        /\ lease' = lease + 1
        /\ UNCHANGED link
     \/ /\ link \in Conns /\ lease + 1 >= LinkTimeout
        /\ link' = None
        /\ lease' = 0
     \/ link \notin Conns /\ UNCHANGED <<link, lease>>
  /\ UNCHANGED <<threadVars, conn, open, stopped, watch, up, down, srv,
                 resultVars>>

----------------------------------------------------------------------------

ThreadStep(t) ==
  \/ \E k \in Calls : Call(t, k)
  \/ Acquire(t)
  \/ \E c \in Conns : ConnectOk(t, c)
  \/ ConnectFails(t)
  \/ SendOk(t)
  \/ SendRefused(t)
  \/ Receive(t)
  \/ CallLost(t)
  \/ CallClose(t)
  \/ Close(t)
  \/ Join(t)

WatcherStep(c) ==
  \/ WatchReplaced(c)
  \/ WatchClose(c)
  \/ WatchSleep(c)
  \/ WatchWake(c)

RelayStep(c) ==
  \/ Forward(c)
  \/ Drop(c)
  \/ NoticeClose(c)
  \/ SeeClose(c)

Next ==
  \/ \E t \in Threads : ThreadStep(t)
  \/ Interrupt
  \/ InterruptWaiting
  \/ \E c \in Conns : WatcherStep(c) \/ RelayStep(c)
  \/ OtherTakes
  \/ OtherReleases
  \/ Tick

Spec == Init /\ [][Next]_vars

\* Threads and watchers are scheduled, a handshake ends one way or the other
\* (open_timeout), the relay serves or closes a socket, keep-alive pings find
\* a dead one, and time passes.  No one has to make or interrupt a call, and
\* nothing relies on join(timeout=1) giving up.
Fairness ==
  /\ \A t \in Threads :
       /\ WF_vars(Acquire(t))
       /\ WF_vars(ConnectFails(t) \/ \E c \in Conns : ConnectOk(t, c))
       /\ WF_vars(SendOk(t) \/ SendRefused(t) \/ Receive(t) \/ CallLost(t))
       /\ WF_vars(Close(t))
       /\ WF_vars(Join(t) /\ watch[joining[t]] = "done")
  /\ \A c \in Conns :
       /\ WF_vars(WatcherStep(c))
       /\ WF_vars(Forward(c) \/ SeeClose(c))
       /\ WF_vars(NoticeClose(c))
  /\ WF_vars(Tick)

FairSpec == Spec /\ Fairness

----------------------------------------------------------------------------
(* Properties.                                                             *)

Pcs == {"idle", "acquire", "close", "join"} \cup Holding
Outcomes == {"none", "pending", "ok", "failed", "noconn", "busy", "lost",
             "interrupted"}

\* Every variable has its type.
TypeOK ==
  /\ lock \in Threads \cup {None}
  /\ pc \in [Threads -> Pcs]
  /\ call \in [Threads -> Calls \cup {None}]
  /\ joining \in [Threads -> Conns \cup {None}]
  /\ closes \in 0..MaxCloses
  /\ conn \in Conns \cup {None}
  /\ idle \in 0..IdleTimeout
  /\ open \subseteq Conns
  /\ stopped \subseteq Conns
  /\ watch \in [Conns -> {"none", "check", "wait", "done"}]
  /\ timer \in [Conns -> 0..IdleTimeout]
  /\ up \in [Conns -> Seq(Calls)]
  /\ down \in [Conns -> Seq(Calls)]
  /\ transit \in [Conns -> 0..Latency]
  /\ srv \in [Conns -> {"unused", "up", "busy", "down"}]
  /\ link \in Conns \cup {None, Other}
  /\ lease \in 0..(LinkTimeout + Latency)
  /\ outcome \in [Calls -> Outcomes]
  /\ got \in [Calls -> Calls \cup {None}]
  /\ ran \in [Calls -> Nat]

\* A call that returns an answer returns the answer to itself, although the
\* relay pairs replies with requests purely by order: no lost, interrupted or
\* concurrent call leaves a reply behind for the next one (_transact).
RepliesPaired ==
  \A k \in Calls : outcome[k] \in {"ok", "failed"} => got[k] = k

\* However often sockets are dropped, refused or replaced, _send_locked's one
\* retry included, no read or write is executed twice on the FPGA.
RunsAtMostOnce == \A k \in Calls : ran[k] <= 1

\* A call told "couldn't open a WebSocket" or "in use by another connection"
\* never reached the FPGA, so the caller may simply make it again
\* (_closed_error: "the server never forwarded this call").
RefusedNeverRan ==
  \A k \in Calls : outcome[k] \in {"noconn", "busy"} => ran[k] = 0

\* The idle watcher never closes the socket under a call that waits for its
\* reply, however long the reply takes (the class docstring).
MidCallSocketKept ==
  \A t \in Threads : pc[t] = "recv" => conn # None /\ conn \notin stopped

\* A socket the client holds open is the current one, and a live watcher that
\* nobody has stopped will close it by the deadline: no socket is left behind
\* to keep the board's link lock (_open_locked, _close_locked, _watch_idle).
OpenSocketWatched ==
  \A c \in open :
    /\ c = conn
    /\ c \notin stopped
    /\ \/ watch[c] = "check"
       \/ watch[c] = "wait" /\ timer[c] + idle <= IdleTimeout

\* The relay never runs a request on a board whose link lock it has lost: the
\* idle timeout leaves the lease enough slack for the reply that renewed it to
\* come back and for the last request or the close to arrive
\* (_WS_IDLE_TIMEOUT).  Holds when IdleTimeout + 2 * Latency < LinkTimeout.
ForwardsUnderLock ==
  [][\A c \in Conns : Forward(c) => link = c]_vars

\* Every call returns or raises, provided the relay serves or drops sockets
\* and dead ones are noticed: no thread waits for a lock nobody gives back.
CallsReturn ==
  \A k \in Calls : outcome[k] = "pending" ~> outcome[k] # "pending"

\* close() returns without its join running into the one second limit: it
\* waits outside the lock the watcher needs to end.
CloseReturns == \A t \in Threads : pc[t] = "join" ~> pc[t] # "join"

\* Every socket is eventually closed by the client, idle scripts included.
SocketsClose == \A c \in Conns : conn = c ~> conn # c

\* The transport implements AtMostOnceCalls.
Promise == INSTANCE AtMostOnceCalls WITH
             outcome <- outcome, got <- got, ran <- ran, Calls <- Calls, None <- None
AtMostOnce == Promise!Spec
=============================================================================
