--------------------------------- MODULE MacBoard ---------------------------------
(***************************************************************************)
(* The bus-driven multiply-accumulate of examples/design.py: each write of *)
(* the accumulate register must count exactly once, however long the       *)
(* strobe is held.  Registers keep their width: operands modulo Operand    *)
(* (2^18), the accumulator modulo AccSpan (2^48), a read modulo WordSpan   *)
(* (2^32).                                                                 *)
(***************************************************************************)
EXTENDS BoardClient

CONSTANTS Operand, AccSpan, WordSpan

ASSUME MacAssumption == {Operand, AccSpan, WordSpan} \subseteq Nat \ {0}

VARIABLE mac  \* MacAccumulator: a and acc

MacInit == mac = [a |-> 0, acc |-> 0]

MacWrite(m, adr, dat) ==
    CASE adr = 0 -> [m EXCEPT !.a = dat % Operand]
      [] adr = 1 -> [m EXCEPT !.acc = (@ + m.a * (dat % Operand)) % AccSpan]
      [] adr = 3 -> [m EXCEPT !.acc = 0]
      [] OTHER   -> m

MacRead(m, adr) == m.acc % WordSpan

MacClockUnguarded ==
    /\ mac' = IF bus.stb /\ bus.we THEN MacWrite(mac, bus.adr, bus.dat) ELSE mac
    /\ AckEdge /\ MasterEdge(MacRead(mac, bus.adr))

MacClock ==
    /\ mac' = IF Active /\ bus.we THEN MacWrite(mac, bus.adr, bus.dat) ELSE mac
    /\ AckEdge /\ MasterEdge(MacRead(mac, bus.adr))

\* examples/app.py: reset, set the operand, accumulate twice, read the sum.
AppRequests(a, x, y) ==
    <<Write(3, <<0>>), Write(0, <<a>>), Write(1, <<x>>), Write(1, <<y>>), Read(2, 1)>>

-----------------------------------------------------------------------------------
\* The reference, written on the sum itself: what the client asked to accumulate.
MacEffect(m, adr, dat) ==
    [a   |-> IF adr = 0 THEN dat % Operand ELSE m.a,
     acc |-> IF adr = 3 THEN 0
             ELSE (m.acc + (IF adr = 1 THEN m.a * (dat % Operand) ELSE 0)) % AccSpan]
MacValue(m, adr) == m.acc % WordSpan
===================================================================================
