------------------------ MODULE WebSocketInvariant ------------------------
(***************************************************************************)
(* The inductive invariant of WebSocketTransport: why replies are paired   *)
(* and calls run at most once.  Whoever holds the lock owns the socket;    *)
(* the current socket carries at most the one request, or its reply, that  *)
(* the lock holder waits for; and a socket that is no longer current can   *)
(* still deliver a request only if its caller was interrupted.             *)
(***************************************************************************)
EXTENDS WebSocketTransport

Calling == {"acquire"} \cup Holding
Unsent == {"acquire", "connect", "send", "reconnect", "resend"}

\* The lock is held exactly by the thread that is inside the exchange.
LockInv == \A t \in Threads : pc[t] \in Holding <=> lock = t

\* A calling thread makes a pending call of its own.
CallInv ==
  /\ \A t \in Threads : pc[t] \in Calling =>
       /\ call[t] \in Calls
       /\ outcome[call[t]] = "pending"
  /\ \A t, u \in Threads :
       pc[t] \in Calling /\ pc[u] \in Calling /\ call[t] = call[u] => t = u

\* The lock holder sees the socket it needs.
SocketInv ==
  \A t \in Threads :
    /\ pc[t] \in {"connect", "reconnect"} => conn = None
    /\ pc[t] \in {"send", "resend", "recv"} => conn \in Conns

\* Only the current socket is open; one the library knows to be closed has no
\* relay left; nothing travels on a socket without a relay.
RelayInv ==
  /\ open \subseteq {conn}
  /\ \A c \in Conns :
       /\ srv[c] = "unused" => c # conn /\ c \notin stopped
       /\ c = conn /\ c \notin open => srv[c] # "up"
       /\ srv[c] # "up" => up[c] = <<>>
       /\ srv[c] = "busy" \/ c # conn => down[c] = <<>>

\* A request in flight has not run, is in flight nowhere else, and belongs to
\* the thread that waits on the current socket or to an interrupted call.
RequestInv(c, k) ==
  /\ up[c] = <<k>>
  /\ down[c] = <<>>
  /\ ran[k] = 0
  /\ \A d \in Conns : up[d] = <<k>> => d = c
  /\ c # conn => outcome[k] = "interrupted"
  /\ c = conn => \E t \in Threads : pc[t] = "recv" /\ call[t] = k

\* A reply in flight answers the thread that waits for it.
ReplyInv(c, t) ==
  /\ pc[t] = "recv"
  /\ down[c] = <<call[t]>>
  /\ ran[call[t]] = 1

WireInv ==
  \A c \in Conns :
    /\ up[c] # <<>> => \E k \in Calls : RequestInv(c, k)
    /\ down[c] # <<>> => \E t \in Threads : ReplyInv(c, t)

\* How often a call ran, by what became of it.
RanInv ==
  /\ \A k \in Calls :
       /\ ran[k] \in {0, 1}
       /\ outcome[k] \in {"none", "noconn", "busy"} => ran[k] = 0
       /\ outcome[k] \in {"ok", "failed"} => got[k] = k
  /\ \A t \in Threads :
       /\ pc[t] \in Unsent => ran[call[t]] = 0
       /\ pc[t] = "recv" /\ srv[conn] = "busy" => ran[call[t]] = 0

\* The current socket has a live watcher that will look at it in time.
WatchInv ==
  conn \in Conns =>
    /\ conn \notin stopped
    /\ \/ watch[conn] = "check"
       \/ watch[conn] = "wait" /\ timer[conn] + idle <= IdleTimeout

\* The invariant that is proved inductive.
IInv == TypeOK /\ LockInv /\ CallInv /\ SocketInv /\ RelayInv /\ WireInv
          /\ RanInv /\ WatchInv

\* The idle timeout leaves the lease slack for two trips over the network: the
\* reply that renewed it back, and the last request or the close there.
Slack == IdleTimeout + 2 * Latency < LinkTimeout

\* A thread waits for a reply only while its request or the reply travels, as
\* long as the relay is there.
WaitInv ==
  \A t \in Threads :
    pc[t] = "recv" /\ srv[conn] = "up" => up[conn] # <<>> \/ down[conn] # <<>>

\* How old the lease of a socket can be, by what travels on it: a reply set out
\* when the lease was renewed, an idle socket has been so since a reply came
\* in, and a request was sent from a socket that was not idle for too long.
LeaseInv ==
  \A c \in Conns : srv[c] = "up" =>
    /\ c = conn \/ up[c] # <<>> => link = c
    /\ up[c] # <<>> => lease <= IdleTimeout + Latency + transit[c]
    /\ down[c] # <<>> => lease <= transit[c]
    /\ c = conn /\ up[c] = <<>> /\ down[c] = <<>> => lease <= idle + Latency

\* The invariant with the lease, for timeouts that leave the slack.
LeasedInv == IInv /\ WaitInv /\ (Slack => LeaseInv)
=============================================================================
