---------------------------------- MODULE FfnBoard ----------------------------------
(***************************************************************************)
(* The feed-forward accelerator of examples/ffn_accel: two matrix engines  *)
(* and a GELU table between them (FFN), the windowed register file around  *)
(* them (FFNSlave), the driver that loads a plan, starts it and reads the  *)
(* result (accel.run_plan), and the integer golden model it must match.    *)
(* A plan's integers are given: the float calibration that chooses them is *)
(* not modelled.                                                           *)
(***************************************************************************)
EXTENDS BoardClient, MatMulEngine

CONSTANTS M, K1, K2, N,  \* the baked-in shape
          Plans          \* the plans run_plan is called with

\* The widths of the pointer and of the shifts; a multiplier takes a whole word.
PTR_SPAN == 65536
SHIFT_SPAN == 64

\* A plan is made of int8 values, two multipliers and two shifts of at least one bit.
Int8 == -INT8_MAX .. INT8_MAX
Cells(rows, cols) == (0 .. rows - 1) \X (0 .. cols - 1)
Matrices(rows, cols) == [Cells(rows, cols) -> Int8]
ASSUME PlanAssumption ==
    \A p \in Plans :
        /\ p.x \in Matrices(M, K1) /\ p.W1 \in Matrices(K1, K2) /\ p.W2 \in Matrices(K2, N)
        /\ p.lut \in [0 .. Codes - 1 -> Int8]
        /\ {p.mult1, p.mult2} \subseteq Nat
        /\ {p.shift1, p.shift2} \subseteq 1 .. SHIFT_SPAN - 1

\* No answer is not an answer that carries words.
ASSUME WordAssumption == None \notin [ok : BOOLEAN, data : Seq(Int \cup Word)]

VARIABLES ffn,    \* the FFN: engines, GELU stage, state, counters
          slave   \* target, ptr, start and the requantization registers

Dim1 == [m |-> M, k |-> K1, n |-> K2]
Dim2 == [m |-> M, k |-> K2, n |-> N]
Hidden == c_depth(Dim1)

\* The tiles cover the shape (design.py:171), and a burst fits its length bytes
\* and lies where the pointer reaches.
ASSUME ShapeAssumption ==
    /\ {M, K1, K2, N} \subseteq Nat \ {0}
    /\ \A n \in {M, K2, N} : n % TILE = 0
    /\ {a_depth(Dim1), b_depth(Dim1), b_depth(Dim2), Codes, c_depth(Dim2)}
          \subseteq (0 .. LengthSpan - 1) \cap (0 .. PTR_SPAN)

DATA_WORD == 16
Targets == [x |-> 0, W1 |-> 1, W2 |-> 2, lut |-> 3]

FfnInit ==
    /\ ffn = [eng1 |-> Engine(Dim1), eng2 |-> Engine(Dim2), lut |-> Memory(Codes, 0),
              g_q |-> ZeroWord, g_valid |-> FALSE, st |-> "IDLE", rcnt |-> 0, wcnt |-> 0,
              s1_valid |-> FALSE, s1_addr |-> 0, s2_valid |-> FALSE, s2_addr |-> 0]
    /\ slave = [target |-> 0, ptr |-> 0, start |-> FALSE,
                mult1 |-> 0, shift1 |-> 0, mult2 |-> 0, shift2 |-> 0]

\* Two registers deep, the copy through the GELU tables writes each hidden word of
\* the first engine to the same address of the second.
GeluWritesWhileReading(f) == f.s2_valid /\ f.g_valid /\ f.rcnt < Hidden

GeluWrites(f) == f.s2_valid /\ f.g_valid

GeluStage(f) ==
    LET reading == f.rcnt < Hidden
        copy == [f EXCEPT !.rcnt = IF reading THEN @ + 1 ELSE @,
                          !.s1_valid = reading, !.s1_addr = f.rcnt % Hidden,
                          !.s2_valid = f.s1_valid, !.s2_addr = f.s1_addr,
                          !.wcnt = IF GeluWrites(f) THEN @ + 1 ELSE @]
    IN IF f.wcnt = Hidden THEN [copy EXCEPT !.st = "RUN2"] ELSE copy

FfnControl(f, begin) ==
    CASE f.st = "IDLE"  -> IF begin THEN [f EXCEPT !.st = "RUN1"] ELSE f
      [] f.st = "RUN1"  -> [f EXCEPT !.st = "WAIT1"]
      [] f.st = "WAIT1" -> IF f.eng1.st # "IDLE" THEN f
                           ELSE [f EXCEPT !.rcnt = 0, !.wcnt = 0, !.s1_valid = FALSE,
                                          !.s2_valid = FALSE, !.st = "GELU"]
      [] f.st = "GELU"  -> GeluStage(f)
      [] f.st = "RUN2"  -> [f EXCEPT !.st = "WAIT2"]
      [] f.st = "WAIT2" -> IF f.eng2.st = "IDLE" THEN [f EXCEPT !.st = "IDLE"] ELSE f

Writing == Active /\ bus.we
InData == bus.adr >= DATA_WORD
BufAddr == (slave.ptr + bus.adr - DATA_WORD) % PTR_SPAN
Loads(target) == Writing /\ InData /\ slave.target = target
Lane0 == IF InData /\ Writing THEN bus.dat[0] ELSE 0

FfnEdge ==
    LET eng1 == [a_we |-> Loads(Targets.x), a_waddr |-> BufAddr, a_wdata |-> bus.dat,
                 b_we |-> Loads(Targets.W1), b_waddr |-> BufAddr, b_wdata |-> bus.dat,
                 mult |-> slave.mult1, shift |-> slave.shift1,
                 start |-> ffn.st = "RUN1",
                 c_raddr |-> IF ffn.st = "GELU" THEN ffn.rcnt ELSE 0]
        eng2 == [a_we |-> GeluWrites(ffn), a_waddr |-> ffn.s2_addr,
                 a_wdata |-> ffn.g_q,
                 b_we |-> Loads(Targets.W2), b_waddr |-> BufAddr, b_wdata |-> bus.dat,
                 mult |-> slave.mult2, shift |-> slave.shift2,
                 start |-> ffn.st = "RUN2",
                 c_raddr |-> IF InData THEN BufAddr ELSE 0]
    IN ffn' = [FfnControl(ffn, slave.start) EXCEPT
                 !.eng1 = EngineEdge(ffn.eng1, Dim1, eng1),
                 !.eng2 = EngineEdge(ffn.eng2, Dim2, eng2),
                 !.lut = Put(ffn.lut, Codes, Loads(Targets.lut), BufAddr, Lane0),
                 !.g_q = [i \in Lanes |-> ffn.lut[ffn.eng1.c_q[i]]],
                 !.g_valid = ffn.s1_valid]

\* The part of a word that a register is wide enough for.
Fits(adr, dat) ==
    CASE adr = 1 -> dat % 4
      [] adr = 2 -> dat % PTR_SPAN
      [] adr \in {4, 6} -> dat % SHIFT_SPAN
      [] OTHER -> dat

SlaveEdge ==
    LET low == [slave EXCEPT !.start = FALSE]
        dat == Fits(bus.adr, bus.dat)
    IN slave' = IF ~Writing \/ InData THEN low
                ELSE CASE bus.adr = 0 -> [slave EXCEPT !.start = bus.dat % 2 = 1]
                       [] bus.adr = 1 -> [low EXCEPT !.target = dat]
                       [] bus.adr = 2 -> [low EXCEPT !.ptr = dat]
                       [] bus.adr = 3 -> [low EXCEPT !.mult1 = dat]
                       [] bus.adr = 4 -> [low EXCEPT !.shift1 = dat]
                       [] bus.adr = 5 -> [low EXCEPT !.mult2 = dat]
                       [] bus.adr = 6 -> [low EXCEPT !.shift2 = dat]
                       [] OTHER -> low

FfnRead(adr) ==
    CASE adr = 0 -> IF ffn.st = "IDLE" THEN 1 ELSE 2
      [] adr = 1 -> slave.target [] adr = 2 -> slave.ptr
      [] adr = 7 -> M [] adr = 8 -> K1 [] adr = 9 -> K2 [] adr = 10 -> N
      [] adr = 11 -> TILE
      [] OTHER -> ffn.eng2.c_q

FfnClock == FfnEdge /\ SlaveEdge /\ AckEdge /\ MasterEdge(FfnRead(bus.adr))

--------------------------------------------------------------------------------------
(* The driver.  Matrices are functions of 0-based <<row, column>>. *)
pack_rows(mat, rows, cols) ==
    [x \in 1 .. Tiles(rows) * cols |->
        [i \in Lanes |-> Code(mat[<<((x - 1) \div cols) * TILE + i, (x - 1) % cols>>])]]
pack_cols(mat, rows, cols) ==
    [x \in 1 .. rows * Tiles(cols) |->
        [j \in Lanes |-> Code(mat[<<(x - 1) \div Tiles(cols),
                                    ((x - 1) % Tiles(cols)) * TILE + j>>])]]
LutWords(lut) ==
    [x \in 1 .. Codes |-> [i \in Lanes |-> IF i = 0 THEN Code(lut[x - 1]) ELSE 0]]

load(target, words) ==
    <<Write(1, <<target>>), Write(2, <<0>>), Write(DATA_WORD, words)>>

run_plan(p) ==
    load(Targets.x, pack_rows(p.x, M, K1)) \o load(Targets.W1, pack_cols(p.W1, K1, K2))
      \o load(Targets.W2, pack_cols(p.W2, K2, N)) \o load(Targets.lut, LutWords(p.lut))
      \o <<Write(3, <<p.mult1>>), Write(4, <<p.shift1>>), Write(5, <<p.mult2>>),
           Write(6, <<p.shift2>>), Write(0, <<1>>)>>
result_requests == <<Write(2, <<0>>), Read(DATA_WORD, Tiles(M) * N)>>

unpacked(words) ==
    [x \in Cells(M, N) |->
        Signed(words[(x[1] \div TILE) * N + x[2] + 1][x[1] % TILE])]

\* A bound: a program begins only when the accelerator is at rest.  A start that comes
\* while it computes is dropped, and the driver cannot tell.
FfnBegin ==
    /\ ffn.st = "IDLE" /\ ~slave.start
    /\ \E p \in Plans : Begin(p, run_plan(p))
FfnPolled == Polled(FALSE, "fetch", result_requests, "none", None)
FfnFetched == Fetched("result", unpacked(answer.data))

--------------------------------------------------------------------------------------
(* golden.py *)
Total(t, n) == LET s[k \in Nat] == IF k = 0 THEN 0 ELSE s[k - 1] + t[k - 1] IN s[n]
int_matmul(a, b, rows, depth, cols) ==
    [x \in Cells(rows, cols) |->
        Total([k \in 0 .. depth - 1 |-> a[<<x[1], k>>] * b[<<k, x[2]>>]], depth)]
requant(acc, mult, shift) ==
    [x \in DOMAIN acc |-> Clamp((acc[x] * mult + Shl[shift - 1]) \div Shl[shift])]
y_q(p) ==
    LET h == requant(int_matmul(p.x, p.W1, M, K1, K2), p.mult1, p.shift1)
        g == [x \in DOMAIN h |-> p.lut[Code(h[x])]]
    IN requant(int_matmul(g, p.W2, M, K2, N), p.mult2, p.shift2)

\* The result read from the board is the golden model's, bit for bit, whatever the
\* board computed before and however the bus paced the loads and the polls.
FfnExact ==
    client.pc = "idle" /\ client.outcome = "result" =>
        client.data = y_q(client.job)
======================================================================================
