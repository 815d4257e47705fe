------------------------------ MODULE WishboneLink ------------------------------
(***************************************************************************)
(* The path of one request from a client to a user design: the frame on    *)
(* the socket, the firmware bridge that turns it into Wishbone cycles, the *)
(* bus, and the response read back in whatever pieces recv returns.        *)
(*                                                                         *)
(* The bridge is not in this repository: it serves the words of a request  *)
(* in order, one bus cycle each, and is free to hold the strobe between    *)
(* words or to idle as long as it likes.  cyc and stb are only ever used   *)
(* together, and are one signal here.  Addresses count words (a byte       *)
(* address is four times that) and a frame is a sequence of fields.        *)
(***************************************************************************)
EXTENDS Integers, Sequences

CONSTANTS None,        \* no request, no answer
          LengthSpan   \* the values of the three length bytes

ASSUME LengthAssumption == LengthSpan \in Nat \ {0}

VARIABLES request,  \* the request the bridge serves, or None
          served,   \* how many of its words were acknowledged
          out,      \* the words read so far
          deaf,     \* the client hung up: the response goes nowhere
          socket,   \* response fields the client has not read
          buf,      \* response fields it has read
          answer,   \* the response the client decoded, or None
          bus,      \* the master's signals: stb, we, adr, dat_w
          ack       \* the design's registered acknowledge

linkVars == <<request, served, out, deaf, socket, buf, answer, bus, ack>>

Write(adr, words) ==
    [op |-> "write", fixed |-> FALSE, adr |-> adr, data |-> words]
FixedWrite(adr, words) ==
    [op |-> "write", fixed |-> TRUE, adr |-> adr, data |-> words]
Read(adr, count) ==
    [op |-> "read", fixed |-> FALSE, adr |-> adr, data |-> <<count>>]

\* Opcode with its flag, length, address, words; a read's word is its count.
to_bytes(r) ==
    <<[op |-> r.op, fixed |-> r.fixed], Len(r.data) % LengthSpan, r.adr>> \o r.data

\* What the bridge makes of a frame.
Parsed(f) ==
    LET words == SubSeq(f, 4, 3 + f[2]) IN
    [op |-> f[1].op, fixed |-> f[1].fixed, adr |-> f[3], words |-> words,
     size |-> IF f[1].op = "write" THEN f[2] ELSE words[1]]

LinkIdle == request = None /\ socket = <<>> /\ answer = None

transact(r) ==
    /\ LinkIdle
    /\ request' = Parsed(to_bytes(r))
    /\ served' = 0 /\ out' = <<>> /\ deaf' = FALSE
    /\ UNCHANGED <<socket, buf, answer, bus, ack>>

Quiet == [stb |-> FALSE, we |-> FALSE, adr |-> 0, dat |-> 0]
Drive(i) ==
    [stb |-> TRUE, we |-> request.op = "write",
     adr |-> request.adr + (IF request.fixed THEN 0 ELSE i),
     dat |-> IF request.op = "write" THEN request.words[i + 1] ELSE 0]

\* A word is accepted in the cycle before its acknowledge.
Active == bus.stb /\ ~ack

\* The registered half of every design: ack one cycle after the strobe, then low.
AckEdge == ack' = Active

\* The bridge's half of a clock edge; datR is what the design drives on dat_r.
MasterEdge(datR) ==
    /\ \/ /\ bus.stb /\ ack
          /\ served' = served + 1
          /\ out' = IF bus.we THEN out ELSE Append(out, datR)
          /\ bus' \in {Quiet} \cup IF served + 1 < request.size
                                     THEN {Drive(served + 1)} ELSE {}
       \/ Active /\ UNCHANGED <<served, out, bus>>
       \/ /\ ~bus.stb /\ UNCHANGED <<served, out>>
          /\ bus' \in {bus} \cup IF request # None /\ served < request.size
                                   THEN {Drive(served)} ELSE {}
    /\ UNCHANGED <<request, deaf, socket, buf, answer>>

Respond(fields) ==
    /\ request # None /\ ~bus.stb
    /\ request' = None
    /\ socket' = IF deaf THEN <<>> ELSE fields
    /\ UNCHANGED <<served, out, deaf, buf, answer, bus, ack>>

BridgeResponds ==
    /\ request # None /\ served = request.size
    /\ Respond(<<"ok", Len(out)>> \o out)
BridgeRejects == served = 0 /\ Respond(<<"error", 0>>)

\* The bytes of a response still to come once these have arrived.
recv_exact(b) == IF Len(b) < 2 THEN 2 - Len(b) ELSE 2 + b[2] - Len(b)

from_bytes(b) == [ok |-> b[1] = "ok", data |-> SubSeq(b, 3, 2 + b[2])]

Receive(n) ==
    /\ n <= Len(socket) /\ n <= recv_exact(buf)
    /\ LET b == buf \o SubSeq(socket, 1, n) IN
         IF Len(b) >= 2 /\ recv_exact(b) = 0
           THEN buf' = <<>> /\ answer' = from_bytes(b)
           ELSE buf' = b /\ UNCHANGED answer
    /\ socket' = SubSeq(socket, n + 1, Len(socket))
    /\ UNCHANGED <<request, served, out, deaf, bus, ack>>

\* The client goes away; the bridge finishes the request it had begun.
HangUp ==
    /\ socket' = <<>> /\ buf' = <<>> /\ answer' = None
    /\ deaf' = (request # None)
    /\ UNCHANGED <<request, served, out, bus, ack>>

LinkInit ==
    /\ request = None /\ served = 0 /\ out = <<>> /\ deaf = FALSE
    /\ socket = <<>> /\ buf = <<>> /\ answer = None
    /\ bus = Quiet /\ ack = FALSE

\* How far the request has got on the design's side of the bus: a word whose
\* acknowledge is up took effect although the bridge has not counted it yet.
Landed == served + (IF bus.stb /\ ack THEN 1 ELSE 0)
LandedOut(datR) == IF bus.stb /\ ack /\ ~bus.we THEN Append(out, datR) ELSE out
=================================================================================
