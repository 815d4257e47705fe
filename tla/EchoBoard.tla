-------------------------------- MODULE EchoBoard --------------------------------
(***************************************************************************)
(* The echo memory of hello_wishbone, in Amaranth (echo), and its Verilog  *)
(* port from verilog_hello on the same bus (twin), in lock step.  The      *)
(* Verilog memory has no initial contents.                                 *)
(***************************************************************************)
EXTENDS BoardClient

CONSTANTS Depth,  \* words of memory
          Words   \* the values of a word, 0 among them

ASSUME EchoAssumption == Depth \in Nat \ {0} /\ 0 \in Words

VARIABLES echo,   \* EchoSlave: mem and the read port's register
          twin,   \* echo_slave: mem, dat_r_reg and wb_ack
          known   \* history: the addresses written since the board was programmed

echoVars == <<echo, twin, known>>
Addresses == 0 .. Depth - 1

EchoInit ==
    /\ echo = [mem |-> [a \in Addresses |-> 0], dat_r |-> 0]
    /\ twin \in [mem : [Addresses -> Words], dat_r : {0}, ack : {FALSE}]
    /\ known = {}

EchoEdgeReadsOnAck ==
    echo' = [mem   |-> IF Active /\ bus.we THEN [echo.mem EXCEPT ![bus.adr] = bus.dat]
                                           ELSE echo.mem,
             dat_r |-> IF ack THEN echo.mem[bus.adr] ELSE echo.dat_r]

EchoEdge ==
    echo' = [mem   |-> IF Active /\ bus.we THEN [echo.mem EXCEPT ![bus.adr] = bus.dat]
                                           ELSE echo.mem,
             dat_r |-> echo.mem[bus.adr]]

TwinEdgeRepeatsAck ==
    LET wr_en == bus.stb /\ bus.we /\ ~twin.ack IN
    twin' = [mem   |-> IF wr_en THEN [twin.mem EXCEPT ![bus.adr] = bus.dat]
                                ELSE twin.mem,
             dat_r |-> twin.mem[bus.adr], ack |-> bus.stb]

TwinEdge ==
    LET wr_en == bus.stb /\ bus.we /\ ~twin.ack IN
    twin' = [mem   |-> IF wr_en THEN [twin.mem EXCEPT ![bus.adr] = bus.dat]
                                ELSE twin.mem,
             dat_r |-> twin.mem[bus.adr],
             ack   |-> bus.stb /\ ~twin.ack]

EchoClock ==
    /\ EchoEdge /\ TwinEdge /\ AckEdge /\ MasterEdge(echo.dat_r)
    /\ known' = known \cup IF Active /\ bus.we THEN {bus.adr} ELSE {}

\* hello_wishbone/client.py writes a pattern, reads it back and compares.
HelloRequests(pattern) == <<Write(0, pattern), Read(0, Len(pattern))>>

----------------------------------------------------------------------------------
\* What a client sees of the Amaranth memory is a memory served one word at a time.
EchoEffect(m, a, w) == [m EXCEPT ![a] = w]
EchoValue(m, a) == m[a]
=================================================================================
