-------------------------------- MODULE MatMulEngine --------------------------------
(***************************************************************************)
(* The tiled integer matrix engine of examples/ffn_accel/design.py as the  *)
(* function of one clock edge on the record of its registers and memories. *)
(* A packed word is its TILE lanes, each an unsigned code of Codes = 2^8   *)
(* values; memory depths are powers of two and addresses wrap.  The 32-bit *)
(* accumulator holds every sum of the baked-in shape and is left unbounded.*)
(***************************************************************************)
EXTENDS Integers

CONSTANTS TILE,    \* lanes of a word, and the side of the MAC grid
          Codes    \* 2^IN_W

ASSUME EngineAssumption == TILE \in Nat \ {0} /\ Codes \in Nat \ {0, 1}

INT8_MAX == Codes \div 2 - 1
Lanes == 0 .. TILE - 1
Word == [Lanes -> 0 .. Codes - 1]
Signed(code) == IF code > INT8_MAX THEN code - Codes ELSE code
Code(n) == n % Codes
ZeroWord == [i \in Lanes |-> 0]
Memory(depth, zero) == [i \in 0 .. depth - 1 |-> zero]

\* The shape [m, k, n] of an engine fixes its tiles and its memories.
Tiles(n) == n \div TILE
a_depth(d) == Tiles(d.m) * d.k
b_depth(d) == d.k * Tiles(d.n)
c_depth(d) == Tiles(d.m) * d.n

Engine(d) ==
    [amem |-> Memory(a_depth(d), ZeroWord), bmem |-> Memory(b_depth(d), ZeroWord),
     cmem |-> Memory(c_depth(d), ZeroWord),
     a_q |-> ZeroWord, b_q |-> ZeroWord, c_q |-> ZeroWord,
     acc |-> Memory(TILE * TILE, 0), clear |-> FALSE, en_d |-> FALSE,
     rq_valid |-> FALSE, rq_out |-> 0,
     st |-> "IDLE", mi |-> 0, nj |-> 0, req_k |-> 0, fi |-> 0, fj |-> 0,
     fdone |-> FALSE, done_cnt |-> 0, oi |-> 0, oj |-> 0,
     word |-> ZeroWord, c_we |-> FALSE, c_waddr |-> 0]

\* Every enabled cycle one A column and one B row fan across the grid.
MacArray(e) ==
    [x \in DOMAIN e.acc |->
        IF e.clear THEN 0
        ELSE IF e.en_d
          THEN e.acc[x] + Signed(e.a_q[x \div TILE]) * Signed(e.b_q[x % TILE])
        ELSE e.acc[x]]

Clamp(n) == IF n > INT8_MAX THEN INT8_MAX ELSE IF n < -INT8_MAX THEN -INT8_MAX ELSE n

\* 1 << n.
Shl[n \in Nat] == IF n = 0 THEN 1 ELSE 2 * Shl[n - 1]

\* The shift of a signed value is arithmetic: it rounds down.
Requant(acc, mult, shift) ==
    Clamp((acc * mult + Shl[shift] \div 2) \div Shl[shift])

\* The walk over the tiles: what a state assigns to the registers of the FSM.
Idle(e, begin) ==
    IF begin THEN [e EXCEPT !.mi = 0, !.nj = 0, !.st = "CLEAR"] ELSE e
ClearTileKeepingSums(e) == [e EXCEPT !.req_k = 0, !.st = "ACC"]

ClearTile(e) == [e EXCEPT !.clear = TRUE, !.req_k = 0, !.st = "ACC"]

Accumulate(e, d) ==
    IF e.req_k < d.k THEN [e EXCEPT !.en_d = TRUE, !.req_k = @ + 1]
    ELSE [e EXCEPT !.fi = 0, !.fj = 0, !.fdone = FALSE, !.done_cnt = 0,
                   !.oi = 0, !.oj = 0, !.st = "EVAC"]
NextTile(e, d) ==
    IF e.nj < Tiles(d.n) - 1 THEN [e EXCEPT !.nj = @ + 1, !.st = "CLEAR"]
    ELSE IF e.mi < Tiles(d.m) - 1
      THEN [e EXCEPT !.nj = 0, !.mi = @ + 1, !.st = "CLEAR"]
    ELSE [e EXCEPT !.nj = 0, !.st = "IDLE"]

\* EVAC issues one accumulator to the requantizer each cycle, down the columns,
\* and collects the results one cycle later into a word of a column's lanes.
Issue(e) ==
    IF e.fdone THEN e
    ELSE IF e.fi < TILE - 1 THEN [e EXCEPT !.fi = @ + 1]
    ELSE IF e.fj < TILE - 1 THEN [e EXCEPT !.fi = 0, !.fj = @ + 1]
    ELSE [e EXCEPT !.fi = 0, !.fdone = TRUE]
Collect(e, d) ==
    IF ~e.rq_valid THEN e
    ELSE LET w == [e EXCEPT !.word = [@ EXCEPT ![e.oi] = Code(e.rq_out)],
                            !.done_cnt = @ + 1]
         IN IF e.oi < TILE - 1 THEN [w EXCEPT !.oi = @ + 1]
            ELSE [w EXCEPT !.c_we = TRUE, !.oi = 0, !.oj = (@ + 1) % TILE,
                           !.c_waddr = e.mi * d.n + e.nj * TILE + e.oj]
Evacuate(e, d) ==
    LET c == Collect(Issue(e), d) IN
    IF e.done_cnt = TILE * TILE THEN [c EXCEPT !.st = "NEXT"] ELSE c

Control(e, d, begin) ==
    LET low == [e EXCEPT !.clear = FALSE, !.en_d = FALSE, !.c_we = FALSE] IN
    CASE e.st = "IDLE"  -> Idle(low, begin)
      [] e.st = "CLEAR" -> ClearTile(low)
      [] e.st = "ACC"   -> IF e.req_k >= d.k /\ e.en_d THEN low ELSE Accumulate(low, d)
      [] e.st = "EVAC"  -> Evacuate(low, d)
      [] e.st = "NEXT"  -> NextTile(low, d)

At(mem, depth, i) == mem[i % depth]
Put(mem, depth, en, i, w) == IF en THEN [mem EXCEPT ![i % depth] = w] ELSE mem

\* One clock edge: p has the ports (a_we, a_waddr, a_wdata, b_..., mult, shift, start,
\* c_raddr).  Read ports return what the memory held before the edge.
EngineEdge(e, d, p) ==
    [Control(e, d, p.start) EXCEPT
       !.acc = MacArray(e),
       !.rq_valid = e.st = "EVAC" /\ ~e.fdone,
       !.rq_out = Requant(e.acc[e.fi * TILE + e.fj], p.mult, p.shift),
       !.amem = Put(e.amem, a_depth(d), p.a_we, p.a_waddr, p.a_wdata),
       !.bmem = Put(e.bmem, b_depth(d), p.b_we, p.b_waddr, p.b_wdata),
       !.cmem = Put(e.cmem, c_depth(d), e.c_we, e.c_waddr, e.word),
       !.a_q = At(e.amem, a_depth(d), e.mi * d.k + e.req_k),
       !.b_q = At(e.bmem, b_depth(d), e.req_k * Tiles(d.n) + e.nj),
       !.c_q = At(e.cmem, c_depth(d), p.c_raddr)]
======================================================================================
