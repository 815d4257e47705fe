----------------------------------- MODULE Boards -----------------------------------
(***************************************************************************)
(* One board programmed with one of the example designs, and the programs  *)
(* that drive it one after the other.  Only the flashed design's registers *)
(* move.                                                                   *)
(***************************************************************************)
EXTENDS EchoBoard, MacBoard, SatBoard, FfnBoard

CONSTANTS Designs,     \* the designs a board may be programmed with
          EchoCalls,   \* the requests a client sends to the echo memory
          MacCalls     \* the request lists a client sends to the accumulator

\* What a request asks of the design, and the requests of some programs.
Asks(r) == Parsed(to_bytes(r))
Requests(programs) == UNION {{p[i] : i \in DOMAIN p} : p \in programs}

\* A program sends at least one request; those to the echo memory stay inside it, and
\* those to the accumulator write numbers.
ASSUME CallAssumption ==
    /\ EchoCalls \subseteq Seq(Requests(EchoCalls)) \ {<<>>}
    /\ MacCalls \subseteq Seq(Requests(MacCalls)) \ {<<>>}
    /\ \A r \in Requests(EchoCalls) :
          /\ Asks(r) # None /\ Asks(r).size \in Nat
          /\ \A i \in 0 .. Asks(r).size - 1 :
                Asks(r).adr + (IF Asks(r).fixed THEN 0 ELSE i) \in Addresses
    /\ \A r \in Requests(MacCalls) :
          /\ Asks(r) # None /\ Asks(r).size \in Nat
          /\ Asks(r).op = "write" =>
                \A i \in 0 .. Asks(r).size - 1 : Asks(r).words[i + 1] \in Nat

VARIABLE flashed  \* the design on the board

vars == <<flashed, linkVars, clientVars, echoVars, mac, satVars, ffn, slave>>

Init ==
    /\ flashed \in Designs
    /\ LinkInit /\ ClientInit /\ EchoInit /\ MacInit /\ SatInit /\ FfnInit

Others(design) ==
    /\ UNCHANGED flashed
    /\ design = "echo" \/ UNCHANGED echoVars
    /\ design = "mac" \/ UNCHANGED mac
    /\ design = "sat" \/ UNCHANGED satVars
    /\ design = "ffn" \/ UNCHANGED <<ffn, slave>>

Clock ==
    /\ UNCHANGED clientVars /\ Others(flashed)
    /\ \/ flashed = "echo" /\ EchoClock
       \/ flashed = "mac" /\ MacClock
       \/ flashed = "sat" /\ SatClock
       \/ flashed = "ffn" /\ FfnClock

\* Programs that send their requests and look at what comes back.
Call ==
    \/ flashed = "echo" /\ \E r \in EchoCalls : Begin("call", r)
    \/ flashed = "mac" /\ \E r \in MacCalls : Begin("call", r)

Program ==
    \/ Call
    \/ Send
    \/ Failed
    \/ Disconnect
    \/ flashed \in {"echo", "mac"} /\ Loaded("idle")
    \/ flashed = "sat" /\ (SatBegin \/ SdkBegin \/ SdkNext \/ Loaded("poll")
                             \/ SatPolled \/ SatFetched)
    \/ flashed = "ffn" /\ (FfnBegin \/ Loaded("poll") \/ FfnPolled \/ FfnFetched)

Bridge ==
    /\ \/ BridgeResponds
       \/ BridgeRejects
       \/ \E n \in 1 .. Len(socket) : Receive(n)
    /\ UNCHANGED clientVars

Next ==
    \/ Clock
    \/ Program /\ Others("none")
    \/ Bridge /\ Others("none")

\* The board's clock runs, whatever the bridge and the client do.
Spec == Init /\ [][Next]_vars /\ WF_<<start, core, ffn>>(Clock)

---------------------------------------------------------------------------------------
\* The two echo designs have identical timing (design.v:3): on the same bus they
\* acknowledge in the same cycles, and return the same word once it was written.
SameTiming ==
    flashed = "echo" =>
        /\ twin.ack = ack
        /\ bus.stb /\ ack /\ ~bus.we /\ bus.adr \in known => twin.dat_r = echo.dat_r

\* Each word a client sends takes effect in order and exactly once, and a read returns
\* what the registers held at its turn, however the bridge paces the strobe.  The map
\* counts a word as served from its acknowledge on.
On(design, value, otherwise) == IF flashed = design THEN value ELSE otherwise
Echoes == INSTANCE RegisterDevice WITH
    request <- On("echo", request, None), served <- On("echo", Landed, 0),
    out <- On("echo", LandedOut(echo.dat_r), <<>>), regs <- echo.mem,
    Effect <- EchoEffect, Value <- EchoValue
Accumulates == INSTANCE RegisterDevice WITH
    request <- On("mac", request, None), served <- On("mac", Landed, 0),
    out <- On("mac", LandedOut(MacRead(mac, bus.adr)), <<>>), regs <- mac,
    Effect <- MacEffect, Value <- MacValue
EchoesInOrder == Echoes!Spec
AccumulatesOnce == Accumulates!Spec

\* A search or a feed-forward pass that has begun comes to its end by itself, though
\* the registers may be rewritten, or a start pulsed again, while it runs.
ComputeEnds ==
    /\ (core.running \/ start) ~> core.done
    /\ (ffn.st # "IDLE") ~> (ffn.st = "IDLE")
======================================================================================
