----------------------------- MODULE FfnProofs -----------------------------
(***************************************************************************)
(* The accelerator gives the golden model's result, for any shape that its *)
(* tiles divide, any plans, whatever the board computed before and however *)
(* the bus paced the program.  The invariant FfnInv has three layers.      *)
(* EngineRuns: in each state of an engine that computes, the words it has  *)
(* finished are exact, and each pipeline stage holds a known part of the   *)
(* tile at hand (Adding, Collecting).  Pipe: in each state of a pass,      *)
(* which engine runs and what is exact already: the hidden matrix (Hid),   *)
(* the copy through the GELU table (Copied, Copying), the result           *)
(* (Outcome). Position: how far a program has come; its requests are laid  *)
(* on the board word by word (Laid), the board is Ready once the start is  *)
(* answered, and polling and fetching leave it so.  MatrixProduct and      *)
(* PassExact relate exact words to the golden model, whose sums are those  *)
(* of the engine by TotalLaw; UnpackedExact does so for what the client    *)
(* makes of them.                                                          *)
(***************************************************************************)
EXTENDS BoardsProofs

-----------------------------------------------------------------------------
(* Sums and shifts.                                                         *)

\* The sums of the first terms, one after the other.
Sums(t, n, g) ==
  /\ g = [i \in 0 .. n |-> g[i]]
  /\ g[0] = 0 /\ \A i \in 1 .. n : g[i] = g[i - 1] + t[i - 1]

\* Every number of terms has a sum.
LEMMA SumsSome == ASSUME NEW t, NEW n \in Nat PROVE \E g : Sums(t, n, g)
<1> DEFINE T == {m \in Nat : ~\E g : Sums(t, m, g)}
<1> SUFFICES ASSUME T # {} PROVE FALSE
  OBVIOUS
<1>0. T \subseteq Nat
  OBVIOUS
<1>1. PICK m \in T : \A k \in T : m <= k
  BY <1>0, LeastNumber
<1>2. CASE m = 0
  <2>1. PICK h : h = [i \in 0 .. 0 |-> 0]
    OBVIOUS
  <2>2. Sums(t, 0, h)
    BY <2>1 DEF Sums
  <2> QED
    BY <1>1, <1>2, <2>2
<1>3. CASE m # 0
  <2>1. m \in Nat /\ m - 1 \in Nat /\ m - 1 \notin T
    BY <1>1, <1>3
  <2>2. PICK g : Sums(t, m - 1, g)
    BY <2>1
  <2>3. PICK h : h = [i \in 0 .. m |-> IF i = m THEN g[m - 1] + t[m - 1] ELSE g[i]]
    OBVIOUS
  <2>4. g[0] = 0 /\ \A i \in 1 .. m - 1 : g[i] = g[i - 1] + t[i - 1]
    BY <2>2 DEF Sums
  <2>5. h = [i \in 0 .. m |-> h[i]]
    BY <2>3
  <2>6. h[0] = 0 /\ \A i \in 1 .. m : h[i] = h[i - 1] + t[i - 1]
    BY <1>3, <2>1, <2>3, <2>4
  <2>7. Sums(t, m, h)
    BY <2>5, <2>6 DEF Sums
  <2> QED
    BY <1>1, <2>7
<1> QED
  BY <1>2, <1>3

\* And no more than one.
LEMMA SumsOnce ==
  ASSUME NEW t, NEW n \in Nat, NEW m \in Nat, n <= m,
         NEW g, NEW h, Sums(t, n, g), Sums(t, m, h)
  PROVE  g[n] = h[n]
<1> DEFINE T == {i \in 0 .. n : g[i] # h[i]}
<1> SUFFICES ASSUME T # {} PROVE FALSE
  OBVIOUS
<1>0. T \subseteq Nat
  OBVIOUS
<1>1. PICK i \in T : \A k \in T : i <= k
  BY <1>0, LeastNumber
<1>2. CASE i = 0
  BY <1>1, <1>2 DEF Sums
<1>3. CASE i # 0
  <2>1. i \in 1 .. n /\ i \in 1 .. m /\ i - 1 \in 0 .. n /\ i - 1 \notin T
    BY <1>1, <1>3
  <2> QED
    BY <1>1, <2>1 DEF Sums
<1> QED
  BY <1>2, <1>3

\* A sum grows by its next term: the recursive definition, as an equation.
LEMMA TotalLaw ==
  ASSUME NEW t
  PROVE  Total(t, 0) = 0 /\ \A n \in Nat : Total(t, n + 1) = Total(t, n) + t[n]
<1> DEFINE W == [n \in Nat |-> (CHOOSE g : Sums(t, n, g))[n]]
           Built(s) == s = [k \in Nat |-> IF k = 0 THEN 0 ELSE s[k - 1] + t[k - 1]]
<1>1. ASSUME NEW n \in Nat, NEW g, Sums(t, n, g)
      PROVE  W[n] = g[n]
  <2>1. Sums(t, n, CHOOSE h : Sums(t, n, h))
    BY <1>1
  <2> QED
    BY <1>1, <2>1, SumsOnce
<1>2. W[0] = 0
  <2>1. PICK g : Sums(t, 0, g)
    BY SumsSome
  <2>2. W[0] = g[0]
    BY <1>1, <2>1
  <2> QED
    BY <2>1, <2>2 DEF Sums
<1>3. ASSUME NEW n \in Nat
      PROVE  W[n + 1] = W[n] + t[n]
  <2>1. PICK g : Sums(t, n + 1, g)
    BY SumsSome
  <2>2. W[n + 1] = g[n + 1]
    BY <1>1, <2>1
  <2>3. W[n] = g[n]
    <3>1. PICK h : Sums(t, n, h)
      BY SumsSome
    <3>2. W[n] = h[n]
      BY <1>1, <3>1
    <3> QED
      BY <2>1, <3>1, <3>2, SumsOnce
  <2>4. n + 1 \in 1 .. n + 1 /\ (n + 1) - 1 = n
    OBVIOUS
  <2> QED
    BY <2>1, <2>2, <2>3, <2>4 DEF Sums
<1>4. Built(W)
  <2>1. W = [n \in Nat |-> W[n]]
    OBVIOUS
  <2>2. ASSUME NEW n \in Nat, n # 0 PROVE W[n] = W[n - 1] + t[n - 1]
    <3>1. n - 1 \in Nat /\ (n - 1) + 1 = n
      BY <2>2
    <3> HIDE DEF W
    <3> QED
      BY <1>3, <3>1
  <2> HIDE DEF W
  <2> QED
    BY <1>2, <2>1, <2>2
<1>5. Built(CHOOSE s : Built(s))
  BY <1>4
<1>6. PICK S : S = CHOOSE s : Built(s)
  OBVIOUS
<1>7. Built(S)
  BY <1>5, <1>6
<1>8. \A n : Total(t, n) = S[n]
  BY <1>6 DEF Total
<1>9. S[0] = 0
  BY <1>7
<1>10. ASSUME NEW n \in Nat PROVE S[n + 1] = S[n] + t[n]
  <2>1. n + 1 \in Nat /\ n + 1 # 0 /\ (n + 1) - 1 = n
    OBVIOUS
  <2>2. S[n + 1] = S[(n + 1) - 1] + t[(n + 1) - 1]
    BY <1>7, <2>1
  <2> QED
    BY <2>1, <2>2
<1> QED
  BY <1>8, <1>9, <1>10

\* Integers add up to an integer.
LEMMA TotalInt ==
  ASSUME NEW n \in Nat, NEW t, \A k \in 0 .. n - 1 : t[k] \in Int
  PROVE  Total(t, n) \in Int
<1> DEFINE T == {i \in 0 .. n : Total(t, i) \notin Int}
<1> SUFFICES ASSUME T # {} PROVE FALSE
  OBVIOUS
<1>0. T \subseteq Nat
  OBVIOUS
<1>1. PICK i \in T : \A k \in T : i <= k
  BY <1>0, LeastNumber
<1>2. CASE i = 0
  BY <1>1, <1>2, TotalLaw
<1>3. CASE i # 0
  <2>1. i - 1 \in Nat /\ i - 1 \in 0 .. n - 1 /\ i - 1 \in 0 .. n /\ i - 1 \notin T
        /\ (i - 1) + 1 = i
    BY <1>1, <1>3
  <2>2. Total(t, (i - 1) + 1) = Total(t, i - 1) + t[i - 1]
    BY <2>1, TotalLaw
  <2>3. Total(t, i - 1) \in Int
    BY <2>1
  <2> QED
    BY <1>1, <2>1, <2>2, <2>3
<1> QED
  BY <1>2, <1>3

\* Terms that are equal add up to the same.
LEMMA TotalSame ==
  ASSUME NEW n \in Nat, NEW t, NEW u, \A k \in 0 .. n - 1 : t[k] = u[k]
  PROVE  Total(t, n) = Total(u, n)
<1> DEFINE T == {i \in 0 .. n : Total(t, i) # Total(u, i)}
<1> SUFFICES ASSUME T # {} PROVE FALSE
  OBVIOUS
<1>0. T \subseteq Nat
  OBVIOUS
<1>1. PICK i \in T : \A k \in T : i <= k
  BY <1>0, LeastNumber
<1>2. CASE i = 0
  BY <1>1, <1>2, TotalLaw
<1>3. CASE i # 0
  <2>1. i - 1 \in Nat /\ i - 1 \in 0 .. n - 1 /\ i - 1 \in 0 .. n /\ i - 1 \notin T
        /\ (i - 1) + 1 = i
    BY <1>1, <1>3
  <2>2. /\ Total(t, (i - 1) + 1) = Total(t, i - 1) + t[i - 1]
        /\ Total(u, (i - 1) + 1) = Total(u, i - 1) + u[i - 1]
    BY <2>1, TotalLaw
  <2> QED
    BY <1>1, <2>1, <2>2
<1> QED
  BY <1>2, <1>3

\* Shifts double.
LEMMA ShlLaw ==
  /\ Shl[0] = 1
  /\ \A n \in Nat \ {0} : /\ Shl[n] \in Nat \ {0} /\ Shl[n - 1] \in Nat
                          /\ Shl[n] \div 2 = Shl[n - 1]
<1>1. Shl = Weight
  BY Zenon DEF Shl, Weight
<1>2. ASSUME NEW n \in Nat \ {0}
      PROVE  /\ Shl[n] \in Nat \ {0} /\ Shl[n - 1] \in Nat /\ Shl[n] \div 2 = Shl[n - 1]
  <2>1. n - 1 \in Nat /\ (n - 1) + 1 = n
    OBVIOUS
  <2>2. Weight[n - 1] \in Nat \ {0} /\ Weight[n] = 2 * Weight[n - 1] /\ Weight[n] \in Nat \ {0}
    BY <2>1, WeightLaw
  <2>3. PICK w \in Nat : w = Weight[n - 1]
    BY <2>2
  <2>4. (2 * w) \div 2 = w
    OBVIOUS
  <2> QED
    BY <1>1, <2>2, <2>3, <2>4
<1> QED
  BY <1>1, <1>2, WeightLaw

-----------------------------------------------------------------------------
(* One clock edge of an engine, field by field.                             *)

\* An engine with these registers and memories, of whatever contents.
IsEngine(e) ==
  e \in [amem : {e.amem}, bmem : {e.bmem}, cmem : {e.cmem},
         a_q : {e.a_q}, b_q : {e.b_q}, c_q : {e.c_q},
         acc : {e.acc}, clear : {e.clear}, en_d : {e.en_d},
         rq_valid : {e.rq_valid}, rq_out : {e.rq_out},
         st : {e.st}, mi : {e.mi}, nj : {e.nj}, req_k : {e.req_k}, fi : {e.fi}, fj : {e.fj},
         fdone : {e.fdone}, done_cnt : {e.done_cnt}, oi : {e.oi}, oj : {e.oj},
         word : {e.word}, c_we : {e.c_we}, c_waddr : {e.c_waddr}]

\* The pipeline's registers follow the control's.
LEMMA EdgeFields ==
  ASSUME NEW e, NEW d, NEW p, NEW c, IsEngine(c), c = Control(e, d, p.start),
         NEW f, f = EngineEdge(e, d, p)
  PROVE  /\ IsEngine(f)
         /\ f.acc = MacArray(e) /\ f.rq_valid = (e.st = "EVAC" /\ ~e.fdone)
         /\ f.rq_out = Requant(e.acc[e.fi * TILE + e.fj], p.mult, p.shift)
         /\ f.amem = Put(e.amem, a_depth(d), p.a_we, p.a_waddr, p.a_wdata)
         /\ f.bmem = Put(e.bmem, b_depth(d), p.b_we, p.b_waddr, p.b_wdata)
         /\ f.cmem = Put(e.cmem, c_depth(d), e.c_we, e.c_waddr, e.word)
         /\ f.a_q = At(e.amem, a_depth(d), e.mi * d.k + e.req_k)
         /\ f.b_q = At(e.bmem, b_depth(d), e.req_k * Tiles(d.n) + e.nj)
         /\ f.c_q = At(e.cmem, c_depth(d), p.c_raddr)
         /\ f.clear = c.clear /\ f.en_d = c.en_d /\ f.st = c.st /\ f.mi = c.mi /\ f.nj = c.nj
         /\ f.req_k = c.req_k /\ f.fi = c.fi /\ f.fj = c.fj /\ f.fdone = c.fdone
         /\ f.done_cnt = c.done_cnt /\ f.oi = c.oi /\ f.oj = c.oj /\ f.word = c.word
         /\ f.c_we = c.c_we /\ f.c_waddr = c.c_waddr
<1>1. PICK acc, rq_valid, rq_out, amem, bmem, cmem, a_q, b_q, c_q :
        /\ acc = MacArray(e) /\ rq_valid = (e.st = "EVAC" /\ ~e.fdone)
        /\ rq_out = Requant(e.acc[e.fi * TILE + e.fj], p.mult, p.shift)
        /\ amem = Put(e.amem, a_depth(d), p.a_we, p.a_waddr, p.a_wdata)
        /\ bmem = Put(e.bmem, b_depth(d), p.b_we, p.b_waddr, p.b_wdata)
        /\ cmem = Put(e.cmem, c_depth(d), e.c_we, e.c_waddr, e.word)
        /\ a_q = At(e.amem, a_depth(d), e.mi * d.k + e.req_k)
        /\ b_q = At(e.bmem, b_depth(d), e.req_k * Tiles(d.n) + e.nj)
        /\ c_q = At(e.cmem, c_depth(d), p.c_raddr)
  OBVIOUS
<1>2. f = [c EXCEPT !.acc = acc, !.rq_valid = rq_valid, !.rq_out = rq_out, !.amem = amem,
                    !.bmem = bmem, !.cmem = cmem, !.a_q = a_q, !.b_q = b_q, !.c_q = c_q]
  BY <1>1 DEF EngineEdge
<1>3. IsEngine(f)
  BY <1>2 DEF IsEngine
<1>4. /\ f.acc = acc /\ f.rq_valid = rq_valid /\ f.rq_out = rq_out /\ f.amem = amem
      /\ f.bmem = bmem /\ f.cmem = cmem /\ f.a_q = a_q /\ f.b_q = b_q /\ f.c_q = c_q
      /\ f.clear = c.clear /\ f.en_d = c.en_d /\ f.st = c.st /\ f.mi = c.mi /\ f.nj = c.nj
      /\ f.req_k = c.req_k /\ f.fi = c.fi /\ f.fj = c.fj /\ f.fdone = c.fdone
      /\ f.done_cnt = c.done_cnt /\ f.oi = c.oi /\ f.oj = c.oj /\ f.word = c.word
      /\ f.c_we = c.c_we /\ f.c_waddr = c.c_waddr
  BY <1>2 DEF IsEngine
<1> QED
  BY <1>1, <1>3, <1>4

\* The registers that only the evacuation of a tile uses.
SameWalk(e, c) ==
  /\ c.fi = e.fi /\ c.fj = e.fj /\ c.fdone = e.fdone /\ c.done_cnt = e.done_cnt
  /\ c.oi = e.oi /\ c.oj = e.oj /\ c.word = e.word /\ c.c_waddr = e.c_waddr

\* What the control sets while the engine rests, begins a tile, or leaves one.
LEMMA ControlFields ==
  ASSUME NEW e, IsEngine(e), NEW d, NEW begin, NEW c, c = Control(e, d, begin)
  PROVE  /\ e.st = "IDLE" =>
              /\ IsEngine(c) /\ ~c.clear /\ ~c.en_d /\ ~c.c_we /\ SameWalk(e, c)
              /\ c.st = (IF begin THEN "CLEAR" ELSE "IDLE") /\ c.req_k = e.req_k
              /\ c.mi = (IF begin THEN 0 ELSE e.mi) /\ c.nj = IF begin THEN 0 ELSE e.nj
         /\ e.st = "CLEAR" =>
              /\ IsEngine(c) /\ c.clear /\ ~c.en_d /\ ~c.c_we /\ SameWalk(e, c)
              /\ c.st = "ACC" /\ c.req_k = 0 /\ c.mi = e.mi /\ c.nj = e.nj
         /\ e.st = "NEXT" =>
              /\ IsEngine(c) /\ ~c.clear /\ ~c.en_d /\ ~c.c_we /\ SameWalk(e, c)
              /\ c.req_k = e.req_k
              /\ c.nj = IF e.nj < Tiles(d.n) - 1 THEN e.nj + 1 ELSE 0
              /\ c.mi = IF ~(e.nj < Tiles(d.n) - 1) /\ e.mi < Tiles(d.m) - 1
                          THEN e.mi + 1 ELSE e.mi
              /\ c.st = IF e.nj < Tiles(d.n) - 1 \/ e.mi < Tiles(d.m) - 1
                          THEN "CLEAR" ELSE "IDLE"
<1>1. CASE e.st = "IDLE"
  BY <1>1 DEF Control, Idle, IsEngine, SameWalk
<1>2. CASE e.st = "CLEAR"
  BY <1>2 DEF Control, ClearTile, IsEngine, SameWalk
<1>3. CASE e.st = "NEXT"
  <2>1. PICK low : low = [e EXCEPT !.clear = FALSE, !.en_d = FALSE, !.c_we = FALSE]
    OBVIOUS
  <2>2. c = NextTile(low, d)
    BY <1>3, <2>1 DEF Control
  <2>3. /\ IsEngine(low) /\ ~low.clear /\ ~low.en_d /\ ~low.c_we /\ SameWalk(e, low)
        /\ low.req_k = e.req_k /\ low.nj = e.nj /\ low.mi = e.mi
    BY <2>1 DEF IsEngine, SameWalk
  <2>4. /\ low.fi = e.fi /\ low.fj = e.fj /\ low.fdone = e.fdone /\ low.done_cnt = e.done_cnt
        /\ low.oi = e.oi /\ low.oj = e.oj /\ low.word = e.word /\ low.c_waddr = e.c_waddr
    BY <2>3 DEF SameWalk
  <2>5. CASE e.nj < Tiles(d.n) - 1
    <3>1. c = [low EXCEPT !.nj = e.nj + 1, !.st = "CLEAR"]
      BY <2>2, <2>3, <2>5 DEF NextTile
    <3>2. /\ IsEngine(c) /\ ~c.clear /\ ~c.en_d /\ ~c.c_we /\ SameWalk(e, c)
          /\ c.req_k = e.req_k /\ c.nj = e.nj + 1 /\ c.mi = e.mi /\ c.st = "CLEAR"
      BY <2>3, <2>4, <3>1 DEF IsEngine, SameWalk
    <3> QED
      BY <1>3, <2>5, <3>2
  <2>6. CASE ~(e.nj < Tiles(d.n) - 1) /\ e.mi < Tiles(d.m) - 1
    <3>1. c = [low EXCEPT !.nj = 0, !.mi = e.mi + 1, !.st = "CLEAR"]
      BY <2>2, <2>3, <2>6 DEF NextTile
    <3>2. /\ IsEngine(c) /\ ~c.clear /\ ~c.en_d /\ ~c.c_we /\ SameWalk(e, c)
          /\ c.req_k = e.req_k /\ c.nj = 0 /\ c.mi = e.mi + 1 /\ c.st = "CLEAR"
      BY <2>3, <2>4, <3>1 DEF IsEngine, SameWalk
    <3> QED
      BY <1>3, <2>6, <3>2
  <2>7. CASE ~(e.nj < Tiles(d.n) - 1) /\ ~(e.mi < Tiles(d.m) - 1)
    <3>1. c = [low EXCEPT !.nj = 0, !.st = "IDLE"]
      BY <2>2, <2>3, <2>7 DEF NextTile
    <3>2. /\ IsEngine(c) /\ ~c.clear /\ ~c.en_d /\ ~c.c_we /\ SameWalk(e, c)
          /\ c.req_k = e.req_k /\ c.nj = 0 /\ c.mi = e.mi /\ c.st = "IDLE"
      BY <2>3, <2>4, <3>1 DEF IsEngine, SameWalk
    <3> QED
      BY <1>3, <2>7, <3>2
  <2> QED
    BY <2>5, <2>6, <2>7
<1> QED
  BY <1>1, <1>2, <1>3

\* And while it adds up the products of a tile.
LEMMA ControlAdds ==
  ASSUME NEW e, IsEngine(e), NEW d, NEW begin, NEW c, c = Control(e, d, begin), e.st = "ACC",
         e.req_k \in Int, d.k \in Int
  PROVE  /\ IsEngine(c) /\ ~c.clear /\ ~c.c_we /\ c.mi = e.mi /\ c.nj = e.nj
         /\ e.req_k < d.k =>
              c.en_d /\ c.req_k = e.req_k + 1 /\ c.st = "ACC" /\ SameWalk(e, c)
         /\ ~(e.req_k < d.k) /\ (e.req_k >= d.k /\ e.en_d) =>
              ~c.en_d /\ c.req_k = e.req_k /\ c.st = "ACC" /\ SameWalk(e, c)
         /\ ~(e.req_k < d.k) /\ ~(e.req_k >= d.k /\ e.en_d) =>
              /\ ~c.en_d /\ c.req_k = e.req_k /\ c.st = "EVAC"
              /\ c.fi = 0 /\ c.fj = 0 /\ ~c.fdone /\ c.done_cnt = 0 /\ c.oi = 0 /\ c.oj = 0
              /\ c.word = e.word /\ c.c_waddr = e.c_waddr
<1>1. PICK low : low = [e EXCEPT !.clear = FALSE, !.en_d = FALSE, !.c_we = FALSE]
  OBVIOUS
<1>2. c = IF e.req_k >= d.k /\ e.en_d THEN low ELSE Accumulate(low, d)
  BY <1>1 DEF Control
<1>3. /\ IsEngine(low) /\ ~low.clear /\ ~low.en_d /\ ~low.c_we
      /\ low.req_k = e.req_k /\ low.nj = e.nj /\ low.mi = e.mi /\ low.st = e.st
      /\ low.fi = e.fi /\ low.fj = e.fj /\ low.fdone = e.fdone /\ low.done_cnt = e.done_cnt
      /\ low.oi = e.oi /\ low.oj = e.oj /\ low.word = e.word /\ low.c_waddr = e.c_waddr
  BY <1>1 DEF IsEngine
<1>4. CASE e.req_k < d.k /\ ~(e.req_k >= d.k /\ e.en_d)
  <2>1. c = [low EXCEPT !.en_d = TRUE, !.req_k = e.req_k + 1]
    BY <1>2, <1>3, <1>4 DEF Accumulate
  <2>2. /\ IsEngine(c) /\ ~c.clear /\ ~c.c_we /\ c.mi = e.mi /\ c.nj = e.nj
        /\ c.en_d /\ c.req_k = e.req_k + 1 /\ c.st = "ACC" /\ SameWalk(e, c)
    BY <1>3, <2>1 DEF IsEngine, SameWalk
  <2> QED
    BY <1>4, <2>2
<1>5. CASE ~(e.req_k < d.k) /\ (e.req_k >= d.k /\ e.en_d)
  <2>1. c = low
    BY <1>2, <1>5
  <2>2. SameWalk(e, c)
    BY <1>3, <2>1 DEF SameWalk
  <2> QED
    BY <1>3, <1>5, <2>1, <2>2
<1>6. CASE ~(e.req_k < d.k) /\ ~(e.req_k >= d.k /\ e.en_d)
  <2>1. c = [low EXCEPT !.fi = 0, !.fj = 0, !.fdone = FALSE, !.done_cnt = 0,
                        !.oi = 0, !.oj = 0, !.st = "EVAC"]
    BY <1>2, <1>3, <1>6 DEF Accumulate
  <2>2. IsEngine(c)
    BY <1>3, <2>1 DEF IsEngine
  <2>3. /\ ~c.clear /\ ~c.c_we /\ c.mi = e.mi /\ c.nj = e.nj
        /\ ~c.en_d /\ c.req_k = e.req_k /\ c.word = e.word /\ c.c_waddr = e.c_waddr
    BY <1>3, <2>1 DEF IsEngine
  <2>4. /\ c.fi = 0 /\ c.fj = 0 /\ ~c.fdone /\ c.done_cnt = 0 /\ c.oi = 0 /\ c.oj = 0
        /\ c.st = "EVAC"
    BY <1>3, <2>1 DEF IsEngine
  <2> QED
    BY <1>6, <2>2, <2>3, <2>4
<1>7. ~(e.req_k < d.k /\ (e.req_k >= d.k /\ e.en_d))
  OBVIOUS
<1> QED
  BY <1>4, <1>5, <1>6, <1>7

\* What the control sets while it collects the results of a tile.
Collects(e, d, c) ==
  /\ IsEngine(c) /\ ~c.clear /\ ~c.en_d /\ c.mi = e.mi /\ c.nj = e.nj
  /\ c.req_k = e.req_k
  /\ c.st = IF e.done_cnt = TILE * TILE THEN "NEXT" ELSE "EVAC"
  /\ e.fdone => c.fdone /\ c.fi = e.fi /\ c.fj = e.fj
  /\ ~e.fdone /\ e.fi < TILE - 1 => ~c.fdone /\ c.fi = e.fi + 1 /\ c.fj = e.fj
  /\ ~e.fdone /\ ~(e.fi < TILE - 1) /\ e.fj < TILE - 1 =>
       ~c.fdone /\ c.fi = 0 /\ c.fj = e.fj + 1
  /\ ~e.fdone /\ ~(e.fi < TILE - 1) /\ ~(e.fj < TILE - 1) =>
       c.fdone /\ c.fi = 0 /\ c.fj = e.fj
  /\ ~e.rq_valid => /\ ~c.c_we /\ c.done_cnt = e.done_cnt /\ c.oi = e.oi /\ c.oj = e.oj
                    /\ c.word = e.word /\ c.c_waddr = e.c_waddr
  /\ e.rq_valid => /\ c.done_cnt = e.done_cnt + 1
                   /\ c.word = [e.word EXCEPT ![e.oi] = Code(e.rq_out)]
  /\ e.rq_valid /\ e.oi < TILE - 1 =>
       ~c.c_we /\ c.oi = e.oi + 1 /\ c.oj = e.oj /\ c.c_waddr = e.c_waddr
  /\ e.rq_valid /\ ~(e.oi < TILE - 1) =>
       /\ c.c_we /\ c.oi = 0 /\ c.oj = (e.oj + 1) % TILE
       /\ c.c_waddr = e.mi * d.n + e.nj * TILE + e.oj

LEMMA ControlCollects ==
  ASSUME NEW e, IsEngine(e), NEW d, NEW begin, NEW c, c = Control(e, d, begin), e.st = "EVAC"
  PROVE  Collects(e, d, c)
<1>1. PICK low : low = [e EXCEPT !.clear = FALSE, !.en_d = FALSE, !.c_we = FALSE]
  OBVIOUS
<1>2. /\ IsEngine(low) /\ low.clear = FALSE /\ low.en_d = FALSE /\ low.c_we = FALSE
      /\ SameWalk(e, low)
      /\ low.req_k = e.req_k /\ low.nj = e.nj /\ low.mi = e.mi /\ low.st = e.st
      /\ low.rq_valid = e.rq_valid /\ low.rq_out = e.rq_out
  BY <1>1 DEF IsEngine, SameWalk
<1>3. PICK g : g = Issue(low)
  OBVIOUS
<1>4. /\ IsEngine(g) /\ g.clear = FALSE /\ g.en_d = FALSE /\ g.c_we = FALSE
      /\ g.req_k = e.req_k /\ g.nj = e.nj /\ g.mi = e.mi /\ g.st = e.st
      /\ g.rq_valid = e.rq_valid /\ g.rq_out = e.rq_out
      /\ g.done_cnt = e.done_cnt /\ g.oi = e.oi /\ g.oj = e.oj /\ g.word = e.word
      /\ g.c_waddr = e.c_waddr
  BY <1>2, <1>3 DEF Issue, IsEngine, SameWalk
<1>5. /\ e.fdone => g.fdone /\ g.fi = e.fi /\ g.fj = e.fj
      /\ ~e.fdone /\ e.fi < TILE - 1 => ~g.fdone /\ g.fi = e.fi + 1 /\ g.fj = e.fj
      /\ ~e.fdone /\ ~(e.fi < TILE - 1) /\ e.fj < TILE - 1 =>
           ~g.fdone /\ g.fi = 0 /\ g.fj = e.fj + 1
      /\ ~e.fdone /\ ~(e.fi < TILE - 1) /\ ~(e.fj < TILE - 1) =>
           g.fdone /\ g.fi = 0 /\ g.fj = e.fj
  <2>1. low.fi = e.fi /\ low.fj = e.fj /\ low.fdone = e.fdone
    BY <1>2 DEF SameWalk
  <2>2. CASE e.fdone
    BY <1>3, <2>1, <2>2 DEF Issue
  <2>3. CASE ~e.fdone /\ e.fi < TILE - 1
    <3>1. g = [low EXCEPT !.fi = low.fi + 1]
      BY <1>3, <2>1, <2>3 DEF Issue
    <3> QED
      BY <1>2, <2>1, <2>3, <3>1 DEF IsEngine
  <2>4. CASE ~e.fdone /\ ~(e.fi < TILE - 1) /\ e.fj < TILE - 1
    <3>1. g = [low EXCEPT !.fi = 0, !.fj = low.fj + 1]
      BY <1>3, <2>1, <2>4 DEF Issue
    <3> QED
      BY <1>2, <2>1, <2>4, <3>1 DEF IsEngine
  <2>5. CASE ~e.fdone /\ ~(e.fi < TILE - 1) /\ ~(e.fj < TILE - 1)
    <3>1. g = [low EXCEPT !.fi = 0, !.fdone = TRUE]
      BY <1>3, <2>1, <2>5 DEF Issue
    <3> QED
      BY <1>2, <2>1, <2>5, <3>1 DEF IsEngine
  <2> QED
    BY <2>2, <2>3, <2>4, <2>5
<1>6. PICK h : h = Collect(g, d)
  OBVIOUS
<1>7. /\ IsEngine(h) /\ h.clear = FALSE /\ h.en_d = FALSE
      /\ h.req_k = e.req_k /\ h.nj = e.nj /\ h.mi = e.mi /\ h.st = e.st
      /\ h.fdone = g.fdone /\ h.fi = g.fi /\ h.fj = g.fj
  BY <1>4, <1>6 DEF Collect, IsEngine
<1>8. ~e.rq_valid => /\ h.c_we = FALSE /\ h.done_cnt = e.done_cnt /\ h.oi = e.oi /\ h.oj = e.oj
                     /\ h.word = e.word /\ h.c_waddr = e.c_waddr
  BY <1>4, <1>6 DEF Collect
<1>9. e.rq_valid => /\ h.done_cnt = e.done_cnt + 1
                    /\ h.word = [e.word EXCEPT ![e.oi] = Code(e.rq_out)]
  BY <1>4, <1>6 DEF Collect, IsEngine
<1>10. /\ e.rq_valid /\ e.oi < TILE - 1 =>
            h.c_we = FALSE /\ h.oi = e.oi + 1 /\ h.oj = e.oj /\ h.c_waddr = e.c_waddr
       /\ e.rq_valid /\ ~(e.oi < TILE - 1) =>
            /\ h.c_we /\ h.oi = 0 /\ h.oj = (e.oj + 1) % TILE
            /\ h.c_waddr = e.mi * d.n + e.nj * TILE + e.oj
  BY <1>4, <1>6 DEF Collect, IsEngine
<1>11. c = IF low.done_cnt = TILE * TILE THEN [h EXCEPT !.st = "NEXT"] ELSE h
  BY <1>1, <1>3, <1>6 DEF Control, Evacuate
<1>12. low.done_cnt = e.done_cnt
  BY <1>2 DEF SameWalk
<1>13. /\ IsEngine(c) /\ c.st = IF e.done_cnt = TILE * TILE THEN "NEXT" ELSE "EVAC"
       /\ c.clear = h.clear /\ c.en_d = h.en_d /\ c.mi = h.mi /\ c.nj = h.nj
       /\ c.req_k = h.req_k /\ c.fdone = h.fdone /\ c.fi = h.fi /\ c.fj = h.fj
       /\ c.done_cnt = h.done_cnt /\ c.oi = h.oi /\ c.oj = h.oj /\ c.word = h.word
       /\ c.c_we = h.c_we /\ c.c_waddr = h.c_waddr
  BY <1>7, <1>11, <1>12 DEF IsEngine
<1> QED
  BY <1>5, <1>7, <1>8, <1>9, <1>10, <1>13 DEF Collects

-----------------------------------------------------------------------------
(* Codes, words and places.                                                 *)

\* The quotient of a place fixes its remainder.
LEMMA Remains ==
  ASSUME NEW x \in Nat, NEW b \in Nat \ {0}, NEW q \in Nat, NEW r \in 0 .. b - 1,
         x = b * q + r
  PROVE  x \div b = q /\ x % b = r
<1>1. x \div b = q
  BY Divided
<1>2. x - b * (x \div b) = x % b
  OBVIOUS
<1> QED
  BY <1>1, <1>2

\* The range of a value is within that of a code.
LEMMA Halves == INT8_MAX \in Nat /\ 2 * INT8_MAX + 2 <= Codes /\ Codes \in Nat
  BY EngineAssumption DEF INT8_MAX

\* A value keeps its sign through its code.
LEMMA CodeSigned ==
  ASSUME NEW v \in Int8
  PROVE  Code(v) \in 0 .. Codes - 1 /\ Signed(Code(v)) = v
<1>1. PICK c, h : c = Codes /\ h = INT8_MAX
  OBVIOUS
<1>2. c \in Nat \ {0, 1} /\ h \in Nat /\ 2 * h + 2 <= c /\ v \in -h .. h
  BY <1>1, Halves, EngineAssumption DEF Int8
<1>3. CASE v >= 0
  <2>1. v \in Nat /\ v < c /\ v = c * 0 + v /\ v \in 0 .. c - 1
    BY <1>2, <1>3
  <2>2. v % c = v
    BY <1>2, <2>1, Remains
  <2> QED
    BY <1>1, <1>2, <2>1, <2>2 DEF Code, Signed
<1>4. CASE ~(v >= 0)
  <2>1. v % c = v + c
    BY <1>2, <1>4
  <2>2. v + c \in 0 .. c - 1 /\ v + c > h /\ v + c - c = v
    BY <1>2, <1>4
  <2>3. Code(v) = v + c
    BY <1>1, <2>1 DEF Code
  <2>4. Signed(v + c) = v
    BY <1>1, <1>2, <2>2 DEF Signed
  <2> QED
    BY <1>1, <2>2, <2>3, <2>4
<1> QED
  BY <1>3, <1>4

\* A code is an integer's.
LEMMA SignedInt == ASSUME NEW c \in 0 .. Codes - 1 PROVE Signed(c) \in Int
  BY EngineAssumption DEF Signed

\* The requantizer stays in range.
LEMMA RequantRange ==
  ASSUME NEW acc \in Int, NEW mult \in Nat, NEW shift \in Nat
  PROVE  Requant(acc, mult, shift) \in Int8
<1>1. PICK s : s = Shl[shift]
  OBVIOUS
<1>2. s \in Nat \ {0}
  <2>1. CASE shift = 0
    BY <1>1, <2>1, ShlLaw
  <2>2. CASE shift # 0
    BY <1>1, <2>2, ShlLaw
  <2> QED
    BY <2>1, <2>2
<1>3. PICK n : n = (acc * mult + s \div 2) \div s
  OBVIOUS
<1>4. s \div 2 \in Int
  BY <1>2
<1>5. PICK num \in Int : num = acc * mult + s \div 2
  BY <1>4
<1>6. n \in Int
  BY <1>2, <1>3, <1>5
<1>7. Clamp(n) \in Int8
  BY <1>6, Halves DEF Clamp, Int8
<1> QED
  BY <1>1, <1>3, <1>7 DEF Requant

\* A shape that its tiles cover.
Shape(d) ==
  /\ d.m \in Nat \ {0} /\ d.k \in Nat \ {0} /\ d.n \in Nat \ {0}
  /\ d.m % TILE = 0 /\ d.n % TILE = 0

\* The tiles cover a side.
LEMMA TilesCover ==
  ASSUME NEW n \in Nat \ {0}, n % TILE = 0
  PROVE  Tiles(n) \in Nat \ {0} /\ Tiles(n) * TILE = n
<1>1. PICK t \in Nat \ {0} : t = TILE
  BY EngineAssumption
<1>2. PICK q : q = n \div t
  OBVIOUS
<1>3. q \in Nat /\ n - t * q = n % t
  BY <1>1, <1>2
<1>4. n = t * q
  BY <1>1, <1>3
<1>5. q # 0
  BY <1>1, <1>4
<1> QED
  BY <1>1, <1>2, <1>3, <1>4, <1>5 DEF Tiles

\* One of the rows of a block is within the block.
LEMMA Within ==
  ASSUME NEW q \in Nat, NEW b \in Nat, NEW i \in 0 .. q - 1, NEW r \in 0 .. b - 1
  PROVE  /\ i * b + r \in 0 .. q * b - 1 /\ (i + 1) * b <= q * b
         /\ i * b \in Nat /\ q * b \in Nat /\ (i + 1) * b = i * b + b
<1>1. PICK k \in Nat : q = i + 1 + k
  <2>1. q - i - 1 \in Nat /\ q = i + 1 + (q - i - 1)
    OBVIOUS
  <2> QED
    BY <2>1
<1>2. i \in Nat /\ r \in Nat /\ i * b \in Nat /\ k * b \in Nat
  BY <1>1
<1>3. q * b = i * b + b + k * b /\ (i + 1) * b = i * b + b
  BY <1>1, <1>2
<1> QED
  BY <1>2, <1>3

\* The word that a place in a tile has in the result, and the place that a word has.
LEMMA Places ==
  ASSUME NEW d, Shape(d), NEW mi \in 0 .. Tiles(d.m) - 1, NEW nj \in 0 .. Tiles(d.n) - 1,
         NEW j \in Lanes, NEW w, w = mi * d.n + nj * TILE + j
  PROVE  /\ w \in 0 .. c_depth(d) - 1 /\ w \div d.n = mi
         /\ (w % d.n) \div TILE = nj /\ (w % d.n) % TILE = j
<1>0. PICK t \in Nat \ {0}, n \in Nat \ {0} : t = TILE /\ n = d.n
  BY EngineAssumption DEF Shape
<1>1. PICK q, tn, tm :
        t = TILE /\ n = d.n /\ q = nj * t + j /\ tn = Tiles(n) /\ tm = Tiles(d.m)
  BY <1>0
<1>2. tn \in Nat /\ tn * t = n /\ tm \in Nat
  BY <1>1, TilesCover DEF Shape
<1>3. nj \in 0 .. tn - 1 /\ mi \in 0 .. tm - 1 /\ j \in 0 .. t - 1
  BY <1>1 DEF Lanes
<1>4. q \in 0 .. n - 1
  BY <1>1, <1>2, <1>3, Within
<1>5. mi * n + q \in 0 .. tm * n - 1 /\ mi * n \in Nat /\ nj * t \in Nat
  BY <1>1, <1>2, <1>3, <1>4, Within
<1>6. w = mi * n + q /\ w \in Nat
  BY <1>1, <1>3, <1>5
<1>7. w = n * mi + q /\ mi \in Nat
  BY <1>3, <1>6
<1>8. w \div n = mi /\ w % n = q
  BY <1>4, <1>6, <1>7, Remains
<1>9. q \in Nat /\ q = t * nj + j /\ nj \in Nat
  BY <1>1, <1>3, <1>4
<1>10. q \div t = nj /\ q % t = j
  BY <1>3, <1>9, Remains
<1> QED
  BY <1>1, <1>5, <1>6, <1>8, <1>10 DEF c_depth

\* Addresses wrap, so a read port returns a word and a write keeps the memory one.
LEMMA PortPlace ==
  ASSUME NEW n \in Nat \ {0}, NEW i \in Nat
  PROVE  i % n \in 0 .. n - 1 /\ (i < n => i % n = i)
BY Remains

LEMMA PortRead ==
  ASSUME NEW n \in Nat \ {0}, NEW S, NEW mem \in [0 .. n - 1 -> S], NEW i \in Nat
  PROVE  At(mem, n, i) \in S
BY PortPlace DEF At

LEMMA PortWrite ==
  ASSUME NEW n \in Nat \ {0}, NEW S, NEW mem \in [0 .. n - 1 -> S], NEW i,
         NEW en, NEW w, en => w \in S /\ i \in Nat
  PROVE  Put(mem, n, en, i, w) \in [0 .. n - 1 -> S]
<1>1. i \in Nat => i % n \in 0 .. n - 1
  BY PortPlace
<1> QED
  BY <1>1 DEF Put

\* A shape has memories.
LEMMA Depths ==
  ASSUME NEW d, Shape(d)
  PROVE  /\ a_depth(d) \in Nat \ {0} /\ b_depth(d) \in Nat \ {0} /\ c_depth(d) \in Nat \ {0}
         /\ Tiles(d.m) \in Nat \ {0} /\ Tiles(d.n) \in Nat \ {0}
<1>1. PICK tm \in Nat \ {0}, tn \in Nat \ {0} : tm = Tiles(d.m) /\ tn = Tiles(d.n)
  BY TilesCover DEF Shape
<1>2. PICK k \in Nat \ {0}, n \in Nat \ {0} : k = d.k /\ n = d.n
  BY DEF Shape
<1>3. tm * k \in Nat \ {0} /\ k * tn \in Nat \ {0} /\ tm * n \in Nat \ {0}
  BY <1>1, <1>2
<1> QED
  BY <1>1, <1>2, <1>3 DEF a_depth, b_depth, c_depth

\* The engine's registers and memories have their widths, and what drives them
\* is off in the states that do not.
EngineTyped(e, d) ==
  /\ IsEngine(e)
  /\ e.amem \in [0 .. a_depth(d) - 1 -> Word] /\ e.bmem \in [0 .. b_depth(d) - 1 -> Word]
  /\ e.cmem \in [0 .. c_depth(d) - 1 -> Word]
  /\ e.a_q \in Word /\ e.b_q \in Word /\ e.c_q \in Word /\ e.word \in Word
  /\ e.acc \in [0 .. TILE * TILE - 1 -> Int] /\ e.rq_out \in Int8
  /\ e.mi \in 0 .. Tiles(d.m) - 1 /\ e.nj \in 0 .. Tiles(d.n) - 1 /\ e.req_k \in 0 .. d.k
  /\ e.fi \in Lanes /\ e.fj \in Lanes /\ e.oi \in Lanes /\ e.oj \in Lanes
  /\ e.done_cnt \in Nat /\ e.c_waddr \in Nat
  /\ e.st \in {"IDLE", "CLEAR", "ACC", "EVAC", "NEXT"}
  /\ e.st # "ACC" => ~e.clear /\ ~e.en_d
  /\ e.st \notin {"EVAC", "NEXT"} => ~e.c_we /\ ~e.rq_valid

\* What the ports of an engine carry.
PortsTyped(p) ==
  /\ p.a_we => p.a_wdata \in Word /\ p.a_waddr \in Nat
  /\ p.b_we => p.b_wdata \in Word /\ p.b_waddr \in Nat
  /\ p.mult \in Nat /\ p.shift \in Nat /\ p.c_raddr \in Nat

\* One accumulator of the grid after an edge.
LEMMA MacLaw ==
  ASSUME NEW e, NEW d, EngineTyped(e, d)
  PROVE  /\ MacArray(e) \in [0 .. TILE * TILE - 1 -> Int]
         /\ \A i, j \in Lanes :
              /\ i * TILE + j \in 0 .. TILE * TILE - 1
              /\ MacArray(e)[i * TILE + j] =
                   IF e.clear THEN 0
                   ELSE IF e.en_d
                     THEN e.acc[i * TILE + j] + Signed(e.a_q[i]) * Signed(e.b_q[j])
                   ELSE e.acc[i * TILE + j]
<1>1. PICK t \in Nat \ {0} : t = TILE
  BY EngineAssumption
<1>2. PICK u : u = t * t
  OBVIOUS
<1>3. u \in Nat
  BY <1>2
<1>4. e.acc \in [0 .. u - 1 -> Int]
  BY <1>1, <1>2 DEF EngineTyped
<1>5. ASSUME NEW x \in 0 .. u - 1
      PROVE  x \div t \in 0 .. t - 1 /\ x % t \in 0 .. t - 1
  <2>1. x \in Nat /\ x % t \in 0 .. t - 1
    BY <1>1, <1>3
  <2>2. PICK q, r : q = x \div t /\ r = x % t
    OBVIOUS
  <2>3. q \in Nat /\ r \in 0 .. t - 1
    BY <2>1, <2>2
  <2>4. x - t * q = r
    BY <2>1, <2>2
  <2>5. q < t
    <3>1. SUFFICES ASSUME q >= t PROVE FALSE
      BY <2>3
    <3>2. PICK k \in Nat : q = t + k
      <4>1. q - t \in Nat /\ q = t + (q - t)
        BY <2>3, <3>1
      <4> QED
        BY <4>1
    <3>3. t * q = u + t * k /\ t * k \in Nat
      BY <1>2, <3>2
    <3>4. t * q \in Nat /\ x < u /\ t * q <= x
      BY <1>3, <2>1, <2>3, <2>4
    <3> QED
      BY <1>3, <3>3, <3>4
  <2> QED
    BY <2>1, <2>2, <2>3, <2>5
<1>6. ASSUME NEW x \in 0 .. u - 1
      PROVE  Signed(e.a_q[x \div t]) * Signed(e.b_q[x % t]) \in Int
  <2>1. e.a_q[x \div t] \in 0 .. Codes - 1 /\ e.b_q[x % t] \in 0 .. Codes - 1
    BY <1>1, <1>5 DEF EngineTyped, Word, Lanes
  <2>2. Signed(e.a_q[x \div t]) \in Int /\ Signed(e.b_q[x % t]) \in Int
    BY <2>1, SignedInt
  <2> QED
    BY <2>2
<1>7. PICK m : m = MacArray(e)
  OBVIOUS
<1>8. m = [x \in 0 .. u - 1 |->
             IF e.clear THEN 0
             ELSE IF e.en_d
               THEN e.acc[x] + Signed(e.a_q[x \div t]) * Signed(e.b_q[x % t])
             ELSE e.acc[x]]
  BY <1>1, <1>4, <1>7 DEF MacArray
<1>9. ASSUME NEW x \in 0 .. u - 1 PROVE m[x] \in Int
  <2>1. PICK v \in Int : v = Signed(e.a_q[x \div t]) * Signed(e.b_q[x % t])
    BY <1>6
  <2>2. PICK w \in Int : w = e.acc[x]
    BY <1>4
  <2>3. m[x] = IF e.clear THEN 0 ELSE IF e.en_d THEN w + v ELSE w
    BY <1>8, <2>1, <2>2
  <2> QED
    BY <2>3
<1>10. m \in [0 .. u - 1 -> Int]
  BY <1>8, <1>9
<1>11. ASSUME NEW i \in Lanes, NEW j \in Lanes
       PROVE  /\ i * t + j \in 0 .. u - 1
              /\ m[i * t + j] =
                   IF e.clear THEN 0
                   ELSE IF e.en_d
                     THEN e.acc[i * t + j] + Signed(e.a_q[i]) * Signed(e.b_q[j])
                   ELSE e.acc[i * t + j]
  <2>1. i \in 0 .. t - 1 /\ j \in 0 .. t - 1 /\ i \in Nat
    BY <1>1 DEF Lanes
  <2>2. i * t + j \in 0 .. u - 1
    BY <1>2, <2>1, Within
  <2>3. PICK x : x = i * t + j
    OBVIOUS
  <2>4. x \in Nat /\ x = t * i + j
    BY <1>3, <2>1, <2>2, <2>3
  <2>5. x \div t = i /\ x % t = j
    BY <2>1, <2>4, Remains
  <2> QED
    BY <1>8, <2>2, <2>3, <2>5
<1> QED
  BY <1>1, <1>2, <1>7, <1>10, <1>11

\* The places of the walk are places: the column after the last is the first.
LEMMA LanesStep ==
  /\ TILE \in Nat \ {0} /\ Lanes = 0 .. TILE - 1 /\ 0 \in Lanes
  /\ \A i \in Lanes : i \in Nat /\ i <= TILE - 1 /\ (i < TILE - 1 => i + 1 \in Lanes)
                      /\ (i + 1) % TILE \in Lanes
                      /\ (i + 1) % TILE = IF i < TILE - 1 THEN i + 1 ELSE 0
<1>1. PICK t \in Nat \ {0} : t = TILE
  BY EngineAssumption
<1>2. Lanes = 0 .. t - 1
  BY <1>1 DEF Lanes
<1>3. ASSUME NEW i \in 0 .. t - 1
      PROVE  (i + 1) % t \in 0 .. t - 1 /\ (i + 1) % t = IF i < t - 1 THEN i + 1 ELSE 0
  <2>1. CASE i < t - 1
    <3>1. i + 1 \in Nat /\ i + 1 \in 0 .. t - 1 /\ i + 1 = t * 0 + (i + 1)
      BY <2>1
    <3>2. (i + 1) % t = i + 1
      BY <3>1, Remains
    <3> QED
      BY <2>1, <3>1, <3>2
  <2>2. CASE ~(i < t - 1)
    <3>1. i + 1 \in Nat /\ 0 \in 0 .. t - 1 /\ i + 1 = t * 1 + 0
      BY <2>2
    <3>2. (i + 1) % t = 0
      BY <3>1, Remains
    <3> QED
      BY <2>2, <3>1, <3>2
  <2> QED
    BY <2>1, <2>2
<1> QED
  BY <1>1, <1>2, <1>3

\* What the control sets keeps its range.
LEMMA ControlTyped ==
  ASSUME NEW d, Shape(d), NEW e, EngineTyped(e, d), NEW begin, NEW c, c = Control(e, d, begin)
  PROVE  /\ IsEngine(c) /\ c.word \in Word
         /\ c.mi \in 0 .. Tiles(d.m) - 1 /\ c.nj \in 0 .. Tiles(d.n) - 1 /\ c.req_k \in 0 .. d.k
         /\ c.fi \in Lanes /\ c.fj \in Lanes /\ c.oi \in Lanes /\ c.oj \in Lanes
         /\ c.done_cnt \in Nat /\ c.c_waddr \in Nat
         /\ c.st \in {"IDLE", "CLEAR", "ACC", "EVAC", "NEXT"}
         /\ c.st # "ACC" => ~c.clear /\ ~c.en_d
         /\ c.st \notin {"EVAC", "NEXT"} => ~c.c_we
<1>1. /\ IsEngine(e) /\ e.word \in Word
      /\ e.mi \in 0 .. Tiles(d.m) - 1 /\ e.nj \in 0 .. Tiles(d.n) - 1 /\ e.req_k \in 0 .. d.k
      /\ e.fi \in Lanes /\ e.fj \in Lanes /\ e.oi \in Lanes /\ e.oj \in Lanes
      /\ e.done_cnt \in Nat /\ e.c_waddr \in Nat
      /\ e.st \in {"IDLE", "CLEAR", "ACC", "EVAC", "NEXT"} /\ e.rq_out \in Int8
  BY DEF EngineTyped
<1>2. Tiles(d.m) \in Nat \ {0} /\ Tiles(d.n) \in Nat \ {0} /\ d.k \in Nat \ {0}
  BY Depths DEF Shape
<1>3. CASE e.st \in {"IDLE", "CLEAR", "NEXT"}
  <2>1. IsEngine(c) /\ SameWalk(e, c) /\ ~c.en_d /\ ~c.c_we
    BY <1>1, <1>3, ControlFields
  <2>2. /\ c.word \in Word
        /\ c.fi \in Lanes /\ c.fj \in Lanes /\ c.oi \in Lanes /\ c.oj \in Lanes
        /\ c.done_cnt \in Nat /\ c.c_waddr \in Nat
    BY <1>1, <2>1 DEF SameWalk
  <2>3. CASE e.st = "IDLE"
    BY <1>1, <1>2, <2>1, <2>2, <2>3, ControlFields
  <2>4. CASE e.st = "CLEAR"
    BY <1>1, <1>2, <2>1, <2>2, <2>4, ControlFields
  <2>5. CASE e.st = "NEXT"
    BY <1>1, <1>2, <2>1, <2>2, <2>5, ControlFields
  <2> QED
    BY <1>3, <2>3, <2>4, <2>5
<1>4. CASE e.st = "ACC"
  <2>1. /\ IsEngine(c) /\ ~c.clear /\ ~c.c_we /\ c.mi = e.mi /\ c.nj = e.nj
        /\ e.req_k < d.k =>
             c.en_d /\ c.req_k = e.req_k + 1 /\ c.st = "ACC" /\ SameWalk(e, c)
        /\ ~(e.req_k < d.k) /\ (e.req_k >= d.k /\ e.en_d) =>
             ~c.en_d /\ c.req_k = e.req_k /\ c.st = "ACC" /\ SameWalk(e, c)
        /\ ~(e.req_k < d.k) /\ ~(e.req_k >= d.k /\ e.en_d) =>
             /\ ~c.en_d /\ c.req_k = e.req_k /\ c.st = "EVAC"
             /\ c.fi = 0 /\ c.fj = 0 /\ ~c.fdone /\ c.done_cnt = 0 /\ c.oi = 0 /\ c.oj = 0
             /\ c.word = e.word /\ c.c_waddr = e.c_waddr
    <3>1. e.req_k \in Int /\ d.k \in Int
      BY <1>1, <1>2
    <3> QED
      BY <1>1, <1>4, <3>1, ControlAdds
  <2>2. c.req_k \in 0 .. d.k
    BY <1>1, <1>2, <2>1
  <2>3. /\ c.word \in Word
        /\ c.fi \in Lanes /\ c.fj \in Lanes /\ c.oi \in Lanes /\ c.oj \in Lanes
        /\ c.done_cnt \in Nat /\ c.c_waddr \in Nat
    BY <1>1, <2>1, LanesStep DEF SameWalk
  <2>4. c.st \in {"ACC", "EVAC"} /\ (c.st # "ACC" => ~c.en_d)
    BY <2>1
  <2> QED
    BY <1>1, <1>4, <2>1, <2>2, <2>3, <2>4
<1>5. CASE e.st = "EVAC"
  <2>0. Collects(e, d, c)
    BY <1>1, <1>5, ControlCollects
  <2>1. /\ IsEngine(c) /\ ~c.clear /\ ~c.en_d /\ c.mi = e.mi /\ c.nj = e.nj
        /\ c.req_k = e.req_k
        /\ c.st = IF e.done_cnt = TILE * TILE THEN "NEXT" ELSE "EVAC"
    BY <2>0 DEF Collects
  <2>2. c.fi \in Lanes /\ c.fj \in Lanes
    <3>1. /\ e.fdone => c.fi = e.fi /\ c.fj = e.fj
          /\ ~e.fdone /\ e.fi < TILE - 1 => c.fi = e.fi + 1 /\ c.fj = e.fj
          /\ ~e.fdone /\ ~(e.fi < TILE - 1) /\ e.fj < TILE - 1 => c.fi = 0 /\ c.fj = e.fj + 1
          /\ ~e.fdone /\ ~(e.fi < TILE - 1) /\ ~(e.fj < TILE - 1) => c.fi = 0 /\ c.fj = e.fj
      BY <2>0 DEF Collects
    <3> QED
      BY <1>1, <3>1, LanesStep
  <2>3. CASE ~e.rq_valid
    <3>1. /\ c.done_cnt = e.done_cnt /\ c.oi = e.oi /\ c.oj = e.oj
          /\ c.word = e.word /\ c.c_waddr = e.c_waddr
      BY <2>0, <2>3 DEF Collects
    <3> QED
      BY <1>1, <1>5, <2>1, <2>2, <3>1
  <2>4. CASE e.rq_valid
    <3>1. /\ c.done_cnt = e.done_cnt + 1
          /\ c.word = [e.word EXCEPT ![e.oi] = Code(e.rq_out)]
          /\ e.oi < TILE - 1 => c.oi = e.oi + 1 /\ c.oj = e.oj /\ c.c_waddr = e.c_waddr
          /\ ~(e.oi < TILE - 1) => /\ c.oi = 0 /\ c.oj = (e.oj + 1) % TILE
                                   /\ c.c_waddr = e.mi * d.n + e.nj * TILE + e.oj
      BY <2>0, <2>4 DEF Collects
    <3>2. c.word \in Word
      <4>1. Code(e.rq_out) \in 0 .. Codes - 1
        BY <1>1, CodeSigned
      <4> QED
        BY <1>1, <3>1, <4>1 DEF Word
    <3>3. e.mi * d.n + e.nj * TILE + e.oj \in Nat
      <4>1. e.mi \in Nat /\ d.n \in Nat /\ e.nj \in Nat /\ TILE \in Nat /\ e.oj \in Nat
        BY <1>1, <1>2, LanesStep DEF Shape
      <4>2. e.mi * d.n \in Nat /\ e.nj * TILE \in Nat
        BY <4>1
      <4> QED
        BY <4>1, <4>2
    <3>4. c.oi \in Lanes /\ c.oj \in Lanes
      BY <1>1, <3>1, LanesStep
    <3>5. c.c_waddr \in Nat
      BY <1>1, <3>1, <3>3
    <3>6. c.done_cnt \in Nat
      BY <1>1, <3>1
    <3> QED
      BY <1>1, <1>5, <2>1, <2>2, <3>2, <3>4, <3>5, <3>6
  <2> QED
    BY <2>3, <2>4
<1> QED
  BY <1>1, <1>3, <1>4, <1>5

\* An edge keeps the engine's types, whatever its ports carry.
LEMMA EngineKeepsType ==
  ASSUME NEW d, Shape(d), NEW e, EngineTyped(e, d), NEW p, PortsTyped(p),
         NEW f, f = EngineEdge(e, d, p)
  PROVE  EngineTyped(f, d)
<1>1. PICK c : c = Control(e, d, p.start)
  OBVIOUS
<1>2. /\ IsEngine(c) /\ c.word \in Word
      /\ c.mi \in 0 .. Tiles(d.m) - 1 /\ c.nj \in 0 .. Tiles(d.n) - 1 /\ c.req_k \in 0 .. d.k
      /\ c.fi \in Lanes /\ c.fj \in Lanes /\ c.oi \in Lanes /\ c.oj \in Lanes
      /\ c.done_cnt \in Nat /\ c.c_waddr \in Nat
      /\ c.st \in {"IDLE", "CLEAR", "ACC", "EVAC", "NEXT"}
      /\ c.st # "ACC" => ~c.clear /\ ~c.en_d
      /\ c.st \notin {"EVAC", "NEXT"} => ~c.c_we
  BY <1>1, ControlTyped
<1>3. /\ IsEngine(e) /\ e.amem \in [0 .. a_depth(d) - 1 -> Word]
      /\ e.bmem \in [0 .. b_depth(d) - 1 -> Word] /\ e.cmem \in [0 .. c_depth(d) - 1 -> Word]
      /\ e.word \in Word /\ e.acc \in [0 .. TILE * TILE - 1 -> Int]
      /\ e.mi \in 0 .. Tiles(d.m) - 1 /\ e.nj \in 0 .. Tiles(d.n) - 1 /\ e.req_k \in 0 .. d.k
      /\ e.fi \in Lanes /\ e.fj \in Lanes /\ e.c_waddr \in Nat
      /\ e.st \in {"IDLE", "CLEAR", "ACC", "EVAC", "NEXT"}
  BY DEF EngineTyped
<1>4. /\ p.a_we => p.a_wdata \in Word /\ p.a_waddr \in Nat
      /\ p.b_we => p.b_wdata \in Word /\ p.b_waddr \in Nat
      /\ p.mult \in Nat /\ p.shift \in Nat /\ p.c_raddr \in Nat
  BY DEF PortsTyped
<1>5. /\ a_depth(d) \in Nat \ {0} /\ b_depth(d) \in Nat \ {0} /\ c_depth(d) \in Nat \ {0}
      /\ Tiles(d.m) \in Nat \ {0} /\ Tiles(d.n) \in Nat \ {0} /\ d.k \in Nat
  BY Depths DEF Shape
<1>6. /\ IsEngine(f)
      /\ f.acc = MacArray(e) /\ f.rq_valid = (e.st = "EVAC" /\ ~e.fdone)
      /\ f.rq_out = Requant(e.acc[e.fi * TILE + e.fj], p.mult, p.shift)
      /\ f.amem = Put(e.amem, a_depth(d), p.a_we, p.a_waddr, p.a_wdata)
      /\ f.bmem = Put(e.bmem, b_depth(d), p.b_we, p.b_waddr, p.b_wdata)
      /\ f.cmem = Put(e.cmem, c_depth(d), e.c_we, e.c_waddr, e.word)
      /\ f.a_q = At(e.amem, a_depth(d), e.mi * d.k + e.req_k)
      /\ f.b_q = At(e.bmem, b_depth(d), e.req_k * Tiles(d.n) + e.nj)
      /\ f.c_q = At(e.cmem, c_depth(d), p.c_raddr)
  BY <1>1, <1>2, EdgeFields
<1>7. /\ f.clear = c.clear /\ f.en_d = c.en_d /\ f.st = c.st /\ f.mi = c.mi /\ f.nj = c.nj
      /\ f.req_k = c.req_k /\ f.fi = c.fi /\ f.fj = c.fj
      /\ f.done_cnt = c.done_cnt /\ f.oi = c.oi /\ f.oj = c.oj /\ f.word = c.word
      /\ f.c_we = c.c_we /\ f.c_waddr = c.c_waddr
  BY <1>1, <1>2, EdgeFields
<1>8. /\ f.amem \in [0 .. a_depth(d) - 1 -> Word] /\ f.bmem \in [0 .. b_depth(d) - 1 -> Word]
      /\ f.cmem \in [0 .. c_depth(d) - 1 -> Word]
  <2>1. f.amem \in [0 .. a_depth(d) - 1 -> Word]
    <3>1. Put(e.amem, a_depth(d), p.a_we, p.a_waddr, p.a_wdata) \in [0 .. a_depth(d) - 1 -> Word]
      BY <1>3, <1>4, <1>5, PortWrite
    <3> QED
      BY <1>6, <3>1
  <2>2. f.bmem \in [0 .. b_depth(d) - 1 -> Word]
    <3>1. Put(e.bmem, b_depth(d), p.b_we, p.b_waddr, p.b_wdata) \in [0 .. b_depth(d) - 1 -> Word]
      BY <1>3, <1>4, <1>5, PortWrite
    <3> QED
      BY <1>6, <3>1
  <2>3. f.cmem \in [0 .. c_depth(d) - 1 -> Word]
    <3>1. Put(e.cmem, c_depth(d), e.c_we, e.c_waddr, e.word) \in [0 .. c_depth(d) - 1 -> Word]
      BY <1>3, <1>5, PortWrite
    <3> QED
      BY <1>6, <3>1
  <2> QED
    BY <2>1, <2>2, <2>3
<1>9. f.a_q \in Word /\ f.b_q \in Word /\ f.c_q \in Word
  <2>1. PICK x, y : x = e.mi * d.k + e.req_k /\ y = e.req_k * Tiles(d.n) + e.nj
    OBVIOUS
  <2>2. x \in Nat /\ y \in Nat
    <3>1. e.mi \in Nat /\ e.nj \in Nat /\ e.req_k \in Nat /\ Tiles(d.n) \in Nat
      BY <1>3, <1>5
    <3>2. e.mi * d.k \in Nat /\ e.req_k * Tiles(d.n) \in Nat
      BY <1>5, <3>1
    <3> QED
      BY <2>1, <3>1, <3>2
  <2>3. f.a_q \in Word
    <3>1. At(e.amem, a_depth(d), x) \in Word
      BY <1>3, <1>5, <2>2, PortRead
    <3> QED
      BY <1>6, <2>1, <3>1
  <2>4. f.b_q \in Word
    <3>1. At(e.bmem, b_depth(d), y) \in Word
      BY <1>3, <1>5, <2>2, PortRead
    <3> QED
      BY <1>6, <2>1, <3>1
  <2>5. f.c_q \in Word
    <3>1. At(e.cmem, c_depth(d), p.c_raddr) \in Word
      BY <1>3, <1>4, <1>5, PortRead
    <3> QED
      BY <1>6, <3>1
  <2> QED
    BY <2>3, <2>4, <2>5
<1>10. f.acc \in [0 .. TILE * TILE - 1 -> Int]
  BY <1>6, MacLaw
<1>11. f.rq_out \in Int8
  <2>1. e.fi * TILE + e.fj \in 0 .. TILE * TILE - 1
    BY <1>3, MacLaw
  <2>2. e.acc[e.fi * TILE + e.fj] \in Int
    BY <1>3, <2>1
  <2> QED
    BY <1>4, <1>6, <2>2, RequantRange
<1>12. f.st \notin {"EVAC", "NEXT"} => ~f.c_we /\ ~f.rq_valid
  <2>1. e.st = "EVAC" => c.st \in {"EVAC", "NEXT"}
    <3>1. e.st = "EVAC" => Collects(e, d, c)
      BY <1>1, <1>3, ControlCollects
    <3> QED
      BY <3>1 DEF Collects
  <2> QED
    BY <1>2, <1>6, <1>7, <2>1
<1> QED
  BY <1>2, <1>6, <1>7, <1>8, <1>9, <1>10, <1>11, <1>12 DEF EngineTyped

-----------------------------------------------------------------------------
(* What an engine computes.                                                 *)

\* The products that the lanes i and j of a tile add up.
Products(a, b, d, mi, nj, i, j) ==
  [k \in 0 .. d.k - 1 |-> Signed(a[mi * d.k + k][i]) * Signed(b[k * Tiles(d.n) + nj][j])]

\* The result that lane i of word w is to have.
Result(a, b, d, mult, shift, w, i) ==
  Code(Requant(Total(Products(a, b, d, w \div d.n, (w % d.n) \div TILE, i, (w % d.n) % TILE),
                     d.k), mult, shift))

\* Word w of the engine's result has been computed.
Exact(e, d, mult, shift, w) ==
  \A i \in Lanes : e.cmem[w][i] = Result(e.amem, e.bmem, d, mult, shift, w, i)

\* The word of the result that a tile begins at.
Base(d, mi, nj) == mi * d.n + nj * TILE

\* The grid holds the first n products of its tile.
Accumulated(e, d, n) ==
  \A i, j \in Lanes :
    e.acc[i * TILE + j] = Total(Products(e.amem, e.bmem, d, e.mi, e.nj, i, j), n)

\* The words asked of the memories are one product ahead of the grid.
Adding(e, d) ==
  /\ e.clear => ~e.en_d /\ e.req_k = 0
  /\ ~e.clear /\ e.en_d =>
       /\ e.req_k >= 1 /\ Accumulated(e, d, e.req_k - 1)
       /\ e.a_q = e.amem[e.mi * d.k + (e.req_k - 1)]
       /\ e.b_q = e.bmem[(e.req_k - 1) * Tiles(d.n) + e.nj]
  /\ ~e.clear /\ ~e.en_d => e.req_k = d.k /\ Accumulated(e, d, d.k)

\* The columns of a tile that have been collected.
Cols(e) == IF e.done_cnt = TILE * TILE THEN TILE ELSE e.oj

\* Results are issued one ahead of the one collected, and words are written one after.
Collecting(e, d, mult, shift) ==
  /\ Accumulated(e, d, d.k)
  /\ e.rq_valid =>
       /\ e.done_cnt = e.oj * TILE + e.oi
       /\ Code(e.rq_out) =
            Result(e.amem, e.bmem, d, mult, shift, Base(d, e.mi, e.nj) + e.oj, e.oi)
       /\ e.oi < TILE - 1 => e.fi = e.oi + 1 /\ e.fj = e.oj /\ ~e.fdone
       /\ ~(e.oi < TILE - 1) /\ e.oj < TILE - 1 => e.fi = 0 /\ e.fj = e.oj + 1 /\ ~e.fdone
       /\ ~(e.oi < TILE - 1) /\ ~(e.oj < TILE - 1) => e.fdone
  /\ ~e.rq_valid =>
       /\ e.oi = 0
       /\ e.fdone => e.done_cnt = TILE * TILE
       /\ ~e.fdone => e.fi = 0 /\ e.fj = 0 /\ e.oj = 0 /\ e.done_cnt = 0
  /\ \A i \in 0 .. e.oi - 1 :
       e.word[i] = Result(e.amem, e.bmem, d, mult, shift, Base(d, e.mi, e.nj) + e.oj, i)
  /\ e.c_we =>
       /\ e.oi = 0 /\ Cols(e) >= 1 /\ e.c_waddr = Base(d, e.mi, e.nj) + Cols(e) - 1
       /\ \A i \in Lanes :
            e.word[i] = Result(e.amem, e.bmem, d, mult, shift, e.c_waddr, i)
  /\ \A w \in 0 .. Base(d, e.mi, e.nj) + Cols(e) - 1 :
       Exact(e, d, mult, shift, w) \/ (e.c_we /\ w = e.c_waddr)

\* The words before the tile at hand are computed; at rest, all of them.
EngineRuns(e, d, mult, shift) ==
  /\ e.st = "IDLE" => \A w \in 0 .. c_depth(d) - 1 : Exact(e, d, mult, shift, w)
  /\ e.st \in {"CLEAR", "ACC"} =>
       \A w \in 0 .. Base(d, e.mi, e.nj) - 1 : Exact(e, d, mult, shift, w)
  /\ e.st = "ACC" => Adding(e, d)
  /\ e.st = "EVAC" => Collecting(e, d, mult, shift)
  /\ e.st = "NEXT" =>
       /\ ~e.c_we /\ ~e.rq_valid
       /\ \A w \in 0 .. Base(d, e.mi, e.nj) + TILE - 1 : Exact(e, d, mult, shift, w)

\* The tiles follow one another, and the last ends the result.
LEMMA TilesFollow ==
  ASSUME NEW d, Shape(d), NEW mi \in 0 .. Tiles(d.m) - 1, NEW nj \in 0 .. Tiles(d.n) - 1
  PROVE  /\ Base(d, mi, nj) \in Nat /\ Base(d, mi, nj) + TILE <= c_depth(d)
         /\ c_depth(d) \in Nat /\ TILE \in Nat \ {0} /\ Base(d, 0, 0) = 0
         /\ nj < Tiles(d.n) - 1 => Base(d, mi, nj + 1) = Base(d, mi, nj) + TILE
         /\ ~(nj < Tiles(d.n) - 1) /\ mi < Tiles(d.m) - 1 =>
              Base(d, mi + 1, 0) = Base(d, mi, nj) + TILE
         /\ ~(nj < Tiles(d.n) - 1) /\ ~(mi < Tiles(d.m) - 1) =>
              c_depth(d) = Base(d, mi, nj) + TILE
<1>0. PICK t \in Nat \ {0}, n \in Nat \ {0} : t = TILE /\ n = d.n
  BY EngineAssumption DEF Shape
<1>1. PICK tn, tm, b :
        t = TILE /\ n = d.n /\ tn = Tiles(n) /\ tm = Tiles(d.m) /\ b = mi * n + nj * t
  BY <1>0
<1>2. tn \in Nat \ {0} /\ tm \in Nat \ {0} /\ tn * t = n
  BY <1>1, TilesCover DEF Shape
<1>3. mi \in 0 .. tm - 1 /\ nj \in 0 .. tn - 1 /\ mi \in Nat /\ nj \in Nat
  BY <1>1, <1>2
<1>4. nj * t \in Nat /\ (nj + 1) * t <= n /\ (nj + 1) * t = nj * t + t
  <2>1. 0 \in 0 .. t - 1
    BY <1>1
  <2> QED
    BY <1>2, <1>3, <2>1, Within
<1>5. mi * n \in Nat /\ (mi + 1) * n <= tm * n /\ (mi + 1) * n = mi * n + n /\ tm * n \in Nat
  <2>1. 0 \in 0 .. n - 1
    BY <1>1
  <2> QED
    BY <1>1, <1>2, <1>3, <2>1, Within
<1>6. b \in Nat /\ b + t <= tm * n
  BY <1>1, <1>4, <1>5
<1>7. 0 * n + 0 * t = 0
  BY <1>1
<1>8. nj < tn - 1 => mi * n + (nj + 1) * t = b + t
  BY <1>1, <1>4, <1>5
<1>9. ~(nj < tn - 1) => nj * t + t = n
  <2>1. SUFFICES ASSUME ~(nj < tn - 1) PROVE nj * t + t = n
    OBVIOUS
  <2>2. nj + 1 = tn
    BY <1>2, <1>3, <2>1
  <2> QED
    BY <1>2, <1>4, <2>2
<1>10. ~(nj < tn - 1) => (mi + 1) * n + 0 * t = b + t
  <2>1. 0 * t = 0
    BY <1>1
  <2> QED
    BY <1>1, <1>4, <1>5, <1>9, <2>1
<1>11. ~(nj < tn - 1) /\ ~(mi < tm - 1) => tm * n = b + t
  <2>1. SUFFICES ASSUME ~(nj < tn - 1), ~(mi < tm - 1) PROVE tm * n = b + t
    OBVIOUS
  <2>2. mi + 1 = tm
    BY <1>2, <1>3, <2>1
  <2> QED
    BY <1>1, <1>4, <1>5, <1>9, <2>1, <2>2
<1> QED
  BY <1>1, <1>5, <1>6, <1>7, <1>8, <1>10, <1>11 DEF Base, c_depth

\* The results of a tile are the results of its words.
LEMMA ResultAt ==
  ASSUME NEW d, Shape(d), NEW mi \in 0 .. Tiles(d.m) - 1, NEW nj \in 0 .. Tiles(d.n) - 1,
         NEW i, NEW j \in Lanes, NEW a, NEW b, NEW mult, NEW shift
  PROVE  /\ Base(d, mi, nj) + j \in 0 .. c_depth(d) - 1
         /\ Result(a, b, d, mult, shift, Base(d, mi, nj) + j, i) =
              Code(Requant(Total(Products(a, b, d, mi, nj, i, j), d.k), mult, shift))
<1>1. PICK w : w = Base(d, mi, nj) + j
  OBVIOUS
<1>2. w = mi * d.n + nj * TILE + j
  BY <1>1 DEF Base
<1>3. /\ w \in 0 .. c_depth(d) - 1 /\ w \div d.n = mi
      /\ (w % d.n) \div TILE = nj /\ (w % d.n) % TILE = j
  BY <1>2, Places
<1> QED
  BY <1>1, <1>3 DEF Result

\* What an edge does to the result while the operands stay.
LEMMA ExactKept ==
  ASSUME NEW d, Shape(d), NEW e, EngineTyped(e, d), NEW f, NEW mult, NEW shift,
         f.amem = e.amem, f.bmem = e.bmem,
         f.cmem = Put(e.cmem, c_depth(d), e.c_we, e.c_waddr, e.word),
         e.c_we => e.c_waddr \in 0 .. c_depth(d) - 1, NEW w \in 0 .. c_depth(d) - 1
  PROVE  /\ Exact(e, d, mult, shift, w) /\ ~(e.c_we /\ w = e.c_waddr) =>
              Exact(f, d, mult, shift, w)
         /\ e.c_we /\ w = e.c_waddr
              /\ (\A i \in Lanes :
                    e.word[i] = Result(e.amem, e.bmem, d, mult, shift, e.c_waddr, i)) =>
              Exact(f, d, mult, shift, w)
<1>1. PICK n \in Nat \ {0} : n = c_depth(d)
  BY Depths
<1>2. e.cmem \in [0 .. n - 1 -> Word] /\ e.c_waddr \in Nat /\ w \in 0 .. n - 1
  BY <1>1 DEF EngineTyped
<1>3. CASE e.c_we /\ e.c_waddr = w
  <2>1. w \in Nat /\ w < n
    BY <1>1, <1>2
  <2>3. w % n = w
    BY <2>1, PortPlace
  <2>2. f.cmem[w] = e.word
    BY <1>1, <1>2, <1>3, <2>3 DEF Put
  <2> QED
    BY <1>3, <2>2 DEF Exact
<1>4. CASE ~e.c_we
  <2>1. f.cmem = e.cmem
    BY <1>4 DEF Put
  <2> QED
    BY <1>4, <2>1 DEF Exact
<1>5. CASE e.c_we /\ e.c_waddr # w
  <2>1. PICK v : v = e.c_waddr
    OBVIOUS
  <2>2. v \in Nat /\ v < n
    BY <1>1, <1>5, <2>1
  <2>3. v % n = v
    BY <2>2, PortPlace
  <2>4. f.cmem = [e.cmem EXCEPT ![v] = e.word]
    BY <1>1, <1>5, <2>1, <2>3 DEF Put
  <2>5. f.cmem[w] = e.cmem[w]
    BY <1>2, <1>5, <2>1, <2>4
  <2> QED
    BY <1>5, <2>5 DEF Exact
<1> QED
  BY <1>3, <1>4, <1>5

\* The edge of an engine whose operands stay.
Steps(d, e, p, f) ==
  /\ Shape(d) /\ EngineTyped(e, d) /\ PortsTyped(p) /\ ~p.a_we /\ ~p.b_we
  /\ f = EngineEdge(e, d, p)

\* What such an edge leaves alone, and the pipeline's registers after it.
LEMMA StepFields ==
  ASSUME NEW d, NEW e, NEW p, NEW f, Steps(d, e, p, f), NEW c, c = Control(e, d, p.start)
  PROVE  /\ Shape(d) /\ EngineTyped(e, d) /\ EngineTyped(f, d) /\ IsEngine(e)
         /\ f.amem = e.amem /\ f.bmem = e.bmem
         /\ f.cmem = Put(e.cmem, c_depth(d), e.c_we, e.c_waddr, e.word)
         /\ f.acc = MacArray(e) /\ f.rq_valid = (e.st = "EVAC" /\ ~e.fdone)
         /\ f.rq_out = Requant(e.acc[e.fi * TILE + e.fj], p.mult, p.shift)
         /\ f.a_q = At(e.amem, a_depth(d), e.mi * d.k + e.req_k)
         /\ f.b_q = At(e.bmem, b_depth(d), e.req_k * Tiles(d.n) + e.nj)
         /\ f.c_q = At(e.cmem, c_depth(d), p.c_raddr)
         /\ f.clear = c.clear /\ f.en_d = c.en_d /\ f.st = c.st /\ f.mi = c.mi /\ f.nj = c.nj
         /\ f.req_k = c.req_k /\ f.fi = c.fi /\ f.fj = c.fj /\ f.fdone = c.fdone
         /\ f.done_cnt = c.done_cnt /\ f.oi = c.oi /\ f.oj = c.oj /\ f.word = c.word
         /\ f.c_we = c.c_we /\ f.c_waddr = c.c_waddr
<1>1. /\ Shape(d) /\ EngineTyped(e, d) /\ PortsTyped(p) /\ ~p.a_we /\ ~p.b_we
      /\ f = EngineEdge(e, d, p)
  BY DEF Steps
<1>2. EngineTyped(f, d) /\ IsEngine(e)
  BY <1>1, EngineKeepsType DEF EngineTyped
<1>3. IsEngine(c)
  BY <1>1, ControlTyped
<1>4. /\ f.acc = MacArray(e) /\ f.rq_valid = (e.st = "EVAC" /\ ~e.fdone)
      /\ f.rq_out = Requant(e.acc[e.fi * TILE + e.fj], p.mult, p.shift)
      /\ f.amem = Put(e.amem, a_depth(d), p.a_we, p.a_waddr, p.a_wdata)
      /\ f.bmem = Put(e.bmem, b_depth(d), p.b_we, p.b_waddr, p.b_wdata)
      /\ f.cmem = Put(e.cmem, c_depth(d), e.c_we, e.c_waddr, e.word)
      /\ f.a_q = At(e.amem, a_depth(d), e.mi * d.k + e.req_k)
      /\ f.b_q = At(e.bmem, b_depth(d), e.req_k * Tiles(d.n) + e.nj)
      /\ f.c_q = At(e.cmem, c_depth(d), p.c_raddr)
  BY <1>1, <1>3, EdgeFields
<1>5. /\ f.clear = c.clear /\ f.en_d = c.en_d /\ f.st = c.st /\ f.mi = c.mi /\ f.nj = c.nj
      /\ f.req_k = c.req_k /\ f.fi = c.fi /\ f.fj = c.fj /\ f.fdone = c.fdone
      /\ f.done_cnt = c.done_cnt /\ f.oi = c.oi /\ f.oj = c.oj /\ f.word = c.word
      /\ f.c_we = c.c_we /\ f.c_waddr = c.c_waddr
  BY <1>1, <1>3, EdgeFields
<1>6. f.amem = e.amem /\ f.bmem = e.bmem
  BY <1>1, <1>4 DEF Put
<1> QED
  BY <1>1, <1>2, <1>4, <1>5, <1>6

\* An engine that is not started rests.
LEMMA EngineRests ==
  ASSUME NEW d, NEW e, NEW p, NEW f, f = EngineEdge(e, d, p),
         EngineTyped(e, d), e.st = "IDLE", ~p.start
  PROVE  f.st = "IDLE" /\ f.cmem = e.cmem
<1>1. PICK c : c = Control(e, d, p.start)
  OBVIOUS
<1>2. IsEngine(e) /\ ~e.c_we
  BY DEF EngineTyped
<1>3. IsEngine(c) /\ c.st = "IDLE"
  BY <1>1, <1>2, ControlFields
<1>4. f.st = c.st /\ f.cmem = Put(e.cmem, c_depth(d), e.c_we, e.c_waddr, e.word)
  BY <1>1, <1>3, EdgeFields
<1> QED
  BY <1>2, <1>3, <1>4 DEF Put

\* A start begins at the first tile, with nothing computed.
LEMMA EngineStarts ==
  ASSUME NEW d, NEW e, NEW p, NEW f, Steps(d, e, p, f), e.st = "IDLE"
  PROVE  p.start => EngineRuns(f, d, p.mult, p.shift) /\ f.st = "CLEAR"
<1>1. PICK c : c = Control(e, d, p.start)
  OBVIOUS
<1>2. IsEngine(e) /\ Shape(d) /\ EngineTyped(f, d) /\ f.st = c.st /\ f.mi = c.mi /\ f.nj = c.nj
  BY <1>1, StepFields
<1>3. p.start => c.st = "CLEAR" /\ c.mi = 0 /\ c.nj = 0
  <2>1. PICK begin : begin = p.start
    OBVIOUS
  <2>2. c = Control(e, d, begin)
    BY <1>1, <2>1
  <2>3. /\ c.st = (IF begin THEN "CLEAR" ELSE "IDLE")
        /\ c.mi = (IF begin THEN 0 ELSE e.mi) /\ c.nj = IF begin THEN 0 ELSE e.nj
    BY <1>2, <2>2, ControlFields
  <2> QED
    BY <2>1, <2>3
<1>4. p.start => Base(d, f.mi, f.nj) = 0
  <2>1. 0 \in 0 .. Tiles(d.m) - 1 /\ 0 \in 0 .. Tiles(d.n) - 1
    BY <1>2, Depths
  <2> QED
    BY <1>2, <1>3, <2>1, TilesFollow
<1>5. p.start => \A w \in 0 .. Base(d, f.mi, f.nj) - 1 : Exact(f, d, p.mult, p.shift, w)
  BY <1>4
<1> QED
  BY <1>2, <1>3, <1>5 DEF EngineRuns

\* The tile that begins is cleared.
LEMMA EngineClears ==
  ASSUME NEW d, NEW e, NEW p, NEW f, Steps(d, e, p, f), e.st = "CLEAR",
         EngineRuns(e, d, p.mult, p.shift)
  PROVE  EngineRuns(f, d, p.mult, p.shift)
<1>1. PICK c : c = Control(e, d, p.start)
  OBVIOUS
<1>2. /\ IsEngine(e) /\ Shape(d) /\ EngineTyped(e, d) /\ f.st = c.st /\ f.mi = c.mi
      /\ f.nj = c.nj /\ f.clear = c.clear /\ f.en_d = c.en_d /\ f.req_k = c.req_k
      /\ f.amem = e.amem /\ f.bmem = e.bmem
      /\ f.cmem = Put(e.cmem, c_depth(d), e.c_we, e.c_waddr, e.word)
  BY <1>1, StepFields
<1>3. c.st = "ACC" /\ c.mi = e.mi /\ c.nj = e.nj /\ c.clear /\ ~c.en_d /\ c.req_k = 0
  BY <1>1, <1>2, ControlFields
<1>4. ~e.c_we /\ e.mi \in 0 .. Tiles(d.m) - 1 /\ e.nj \in 0 .. Tiles(d.n) - 1
  BY <1>2 DEF EngineTyped
<1>5. ASSUME NEW w \in 0 .. Base(d, e.mi, e.nj) - 1
      PROVE  Exact(f, d, p.mult, p.shift, w)
  <2>1. w \in 0 .. c_depth(d) - 1
    BY <1>2, <1>4, TilesFollow
  <2>2. Exact(e, d, p.mult, p.shift, w)
    BY DEF EngineRuns
  <2> QED
    BY <1>2, <1>4, <2>1, <2>2, ExactKept
<1>6. Adding(f, d)
  BY <1>2, <1>3 DEF Adding
<1> QED
  BY <1>2, <1>3, <1>5, <1>6 DEF EngineRuns

\* A tile that is written gives way to the next.
LEMMA EngineMovesOn ==
  ASSUME NEW d, NEW e, NEW p, NEW f, Steps(d, e, p, f), e.st = "NEXT",
         EngineRuns(e, d, p.mult, p.shift)
  PROVE  EngineRuns(f, d, p.mult, p.shift)
<1>1. PICK c : c = Control(e, d, p.start)
  OBVIOUS
<1>2. /\ IsEngine(e) /\ Shape(d) /\ EngineTyped(e, d) /\ f.st = c.st /\ f.mi = c.mi
      /\ f.nj = c.nj /\ f.amem = e.amem /\ f.bmem = e.bmem
      /\ f.cmem = Put(e.cmem, c_depth(d), e.c_we, e.c_waddr, e.word)
  BY <1>1, StepFields
<1>3. /\ c.nj = IF e.nj < Tiles(d.n) - 1 THEN e.nj + 1 ELSE 0
      /\ c.mi = IF ~(e.nj < Tiles(d.n) - 1) /\ e.mi < Tiles(d.m) - 1 THEN e.mi + 1 ELSE e.mi
      /\ c.st = IF e.nj < Tiles(d.n) - 1 \/ e.mi < Tiles(d.m) - 1 THEN "CLEAR" ELSE "IDLE"
  BY <1>1, <1>2, ControlFields
<1>4. ~e.c_we /\ e.mi \in 0 .. Tiles(d.m) - 1 /\ e.nj \in 0 .. Tiles(d.n) - 1
  BY <1>2 DEF EngineTyped, EngineRuns
<1>5. PICK b : b = Base(d, e.mi, e.nj) + TILE
  OBVIOUS
<1>6. b <= c_depth(d) /\ b \in Nat /\ c_depth(d) \in Nat
  BY <1>2, <1>4, <1>5, TilesFollow
<1>7. ASSUME NEW w \in 0 .. b - 1
      PROVE  Exact(f, d, p.mult, p.shift, w)
  <2>1. w \in 0 .. c_depth(d) - 1
    BY <1>6
  <2>2. Exact(e, d, p.mult, p.shift, w)
    <3>1. \A v \in 0 .. Base(d, e.mi, e.nj) + TILE - 1 : Exact(e, d, p.mult, p.shift, v)
      BY DEF EngineRuns
    <3>2. w \in 0 .. Base(d, e.mi, e.nj) + TILE - 1
      <4>1. Base(d, e.mi, e.nj) \in Nat /\ TILE \in Nat
        BY <1>2, <1>4, TilesFollow
      <4> QED
        BY <1>5, <4>1
    <3> QED
      BY <3>1, <3>2
  <2> QED
    BY <1>2, <1>4, <2>1, <2>2, ExactKept
<1>8. CASE e.nj < Tiles(d.n) - 1
  <2>1. f.st = "CLEAR" /\ f.mi = e.mi /\ f.nj = e.nj + 1
    BY <1>2, <1>3, <1>8
  <2>2. Base(d, f.mi, f.nj) = b
    BY <1>2, <1>4, <1>5, <1>8, <2>1, TilesFollow
  <2> QED
    BY <1>7, <2>1, <2>2 DEF EngineRuns
<1>9. CASE ~(e.nj < Tiles(d.n) - 1) /\ e.mi < Tiles(d.m) - 1
  <2>1. f.st = "CLEAR" /\ f.mi = e.mi + 1 /\ f.nj = 0
    BY <1>2, <1>3, <1>9
  <2>2. Base(d, f.mi, f.nj) = b
    BY <1>2, <1>4, <1>5, <1>9, <2>1, TilesFollow
  <2> QED
    BY <1>7, <2>1, <2>2 DEF EngineRuns
<1>10. CASE ~(e.nj < Tiles(d.n) - 1) /\ ~(e.mi < Tiles(d.m) - 1)
  <2>1. f.st = "IDLE"
    BY <1>2, <1>3, <1>10
  <2>2. c_depth(d) = b
    BY <1>2, <1>4, <1>5, <1>10, TilesFollow
  <2> QED
    BY <1>7, <2>1, <2>2 DEF EngineRuns
<1> QED
  BY <1>8, <1>9, <1>10

\* The operands of a product are within the memories.
LEMMA OperandsWithin ==
  ASSUME NEW d, Shape(d), NEW mi \in 0 .. Tiles(d.m) - 1, NEW nj \in 0 .. Tiles(d.n) - 1,
         NEW k \in 0 .. d.k - 1
  PROVE  mi * d.k + k \in 0 .. a_depth(d) - 1 /\ k * Tiles(d.n) + nj \in 0 .. b_depth(d) - 1
<1>1. Tiles(d.m) \in Nat /\ Tiles(d.n) \in Nat /\ d.k \in Nat
  BY Depths DEF Shape
<1>2. mi * d.k + k \in 0 .. Tiles(d.m) * d.k - 1
  BY <1>1, Within
<1>3. k * Tiles(d.n) + nj \in 0 .. d.k * Tiles(d.n) - 1
  BY <1>1, Within
<1> QED
  BY <1>2, <1>3 DEF a_depth, b_depth

\* The words read for a product are its operands.
LEMMA OperandsRead ==
  ASSUME NEW d, Shape(d), NEW e, EngineTyped(e, d), e.req_k < d.k
  PROVE  /\ At(e.amem, a_depth(d), e.mi * d.k + e.req_k) = e.amem[e.mi * d.k + e.req_k]
         /\ At(e.bmem, b_depth(d), e.req_k * Tiles(d.n) + e.nj) =
              e.bmem[e.req_k * Tiles(d.n) + e.nj]
<1>1. /\ e.mi \in 0 .. Tiles(d.m) - 1 /\ e.nj \in 0 .. Tiles(d.n) - 1
      /\ e.req_k \in 0 .. d.k - 1
  BY DEF EngineTyped, Shape
<1>2. PICK x, y, m, n : /\ x = e.mi * d.k + e.req_k /\ y = e.req_k * Tiles(d.n) + e.nj
                        /\ m = a_depth(d) /\ n = b_depth(d)
  OBVIOUS
<1>3. x \in 0 .. m - 1 /\ y \in 0 .. n - 1
  BY <1>1, <1>2, OperandsWithin
<1>4. m \in Nat \ {0} /\ n \in Nat \ {0}
  BY <1>2, Depths
<1>5. x % m = x /\ y % n = y
  <2>1. x \in Nat /\ x < m /\ y \in Nat /\ y < n
    BY <1>3, <1>4
  <2> QED
    BY <1>4, <2>1, PortPlace
<1> QED
  BY <1>2, <1>5 DEF At

\* A product that reaches the grid is added to the sums of its tile.
LEMMA SumsGrow ==
  ASSUME NEW d, Shape(d), NEW e, EngineTyped(e, d), NEW r \in 1 .. d.k,
         ~e.clear, e.en_d, Accumulated(e, d, r - 1),
         e.a_q = e.amem[e.mi * d.k + (r - 1)], e.b_q = e.bmem[(r - 1) * Tiles(d.n) + e.nj],
         NEW i \in Lanes, NEW j \in Lanes
  PROVE  MacArray(e)[i * TILE + j] =
           Total(Products(e.amem, e.bmem, d, e.mi, e.nj, i, j), r)
<1>1. PICK t, k : t = Products(e.amem, e.bmem, d, e.mi, e.nj, i, j) /\ k = r - 1
  OBVIOUS
<1>2. k \in Nat /\ k \in 0 .. d.k - 1 /\ k + 1 = r
  BY <1>1 DEF Shape
<1>3. t[k] = Signed(e.a_q[i]) * Signed(e.b_q[j])
  BY <1>1, <1>2 DEF Products
<1>4. Total(t, k + 1) = Total(t, k) + t[k]
  BY <1>2, TotalLaw
<1>5. e.acc[i * TILE + j] = Total(t, k)
  BY <1>1 DEF Accumulated
<1>6. MacArray(e)[i * TILE + j] =
        IF e.clear THEN 0
        ELSE IF e.en_d
          THEN e.acc[i * TILE + j] + Signed(e.a_q[i]) * Signed(e.b_q[j])
        ELSE e.acc[i * TILE + j]
  BY MacLaw
<1> QED
  BY <1>1, <1>2, <1>3, <1>4, <1>5, <1>6

\* The sums of a tile are those of its operands, product by product.
LEMMA EngineAdds ==
  ASSUME NEW d, NEW e, NEW p, NEW f, Steps(d, e, p, f), e.st = "ACC",
         EngineRuns(e, d, p.mult, p.shift)
  PROVE  EngineRuns(f, d, p.mult, p.shift)
<1>1. PICK c : c = Control(e, d, p.start)
  OBVIOUS
<1>2. /\ IsEngine(e) /\ Shape(d) /\ EngineTyped(e, d) /\ f.st = c.st /\ f.mi = c.mi
      /\ f.nj = c.nj /\ f.amem = e.amem /\ f.bmem = e.bmem
      /\ f.cmem = Put(e.cmem, c_depth(d), e.c_we, e.c_waddr, e.word)
      /\ f.acc = MacArray(e) /\ f.rq_valid = (e.st = "EVAC" /\ ~e.fdone)
      /\ f.a_q = At(e.amem, a_depth(d), e.mi * d.k + e.req_k)
      /\ f.b_q = At(e.bmem, b_depth(d), e.req_k * Tiles(d.n) + e.nj)
      /\ f.clear = c.clear /\ f.en_d = c.en_d /\ f.req_k = c.req_k /\ f.fi = c.fi /\ f.fj = c.fj
      /\ f.fdone = c.fdone /\ f.done_cnt = c.done_cnt /\ f.oi = c.oi /\ f.oj = c.oj
      /\ f.c_we = c.c_we
  BY <1>1, StepFields
<1>3. /\ ~e.c_we /\ e.mi \in 0 .. Tiles(d.m) - 1 /\ e.nj \in 0 .. Tiles(d.n) - 1
      /\ e.req_k \in 0 .. d.k /\ d.k \in Nat \ {0} /\ TILE \in Nat \ {0}
  BY <1>2, EngineAssumption DEF EngineTyped, Shape
<1>4. /\ IsEngine(c) /\ ~c.clear /\ ~c.c_we /\ c.mi = e.mi /\ c.nj = e.nj
      /\ e.req_k < d.k =>
           c.en_d /\ c.req_k = e.req_k + 1 /\ c.st = "ACC" /\ SameWalk(e, c)
      /\ ~(e.req_k < d.k) /\ (e.req_k >= d.k /\ e.en_d) =>
           ~c.en_d /\ c.req_k = e.req_k /\ c.st = "ACC" /\ SameWalk(e, c)
      /\ ~(e.req_k < d.k) /\ ~(e.req_k >= d.k /\ e.en_d) =>
           /\ ~c.en_d /\ c.req_k = e.req_k /\ c.st = "EVAC"
           /\ c.fi = 0 /\ c.fj = 0 /\ ~c.fdone /\ c.done_cnt = 0 /\ c.oi = 0 /\ c.oj = 0
           /\ c.word = e.word /\ c.c_waddr = e.c_waddr
  <2>1. e.req_k \in Int /\ d.k \in Int
    BY <1>3
  <2> QED
    BY <1>1, <1>2, <2>1, ControlAdds
<1>5. ASSUME NEW w \in 0 .. Base(d, e.mi, e.nj) - 1
      PROVE  Exact(f, d, p.mult, p.shift, w)
  <2>1. w \in 0 .. c_depth(d) - 1
    BY <1>2, <1>3, TilesFollow
  <2>2. Exact(e, d, p.mult, p.shift, w)
    BY DEF EngineRuns
  <2> QED
    BY <1>2, <1>3, <2>1, <2>2, ExactKept
<1>6. Adding(e, d)
  BY DEF EngineRuns
<1>7. \A i, j \in Lanes :
        /\ e.clear => f.acc[i * TILE + j] = 0
        /\ ~e.clear /\ ~e.en_d => f.acc[i * TILE + j] = e.acc[i * TILE + j]
  BY <1>2, MacLaw
<1>8. CASE e.clear
  <2>1. ~e.en_d /\ e.req_k = 0 /\ e.req_k < d.k
    BY <1>3, <1>6, <1>8 DEF Adding
  <2>2. f.st = "ACC" /\ ~f.clear /\ f.en_d /\ f.req_k = 1
    BY <1>2, <1>4, <2>1
  <2>3. f.a_q = e.amem[e.mi * d.k + 0] /\ f.b_q = e.bmem[0 * Tiles(d.n) + e.nj]
    BY <1>2, <2>1, OperandsRead
  <2>4. Accumulated(f, d, 0)
    BY <1>7, <1>8, TotalLaw DEF Accumulated
  <2>5. Adding(f, d)
    <3>1. f.mi = e.mi /\ f.nj = e.nj /\ f.req_k - 1 = 0 /\ f.req_k >= 1
      BY <1>2, <1>4, <2>2
    <3> QED
      BY <1>2, <2>2, <2>3, <2>4, <3>1 DEF Adding
  <2> QED
    BY <1>2, <1>4, <1>5, <2>2, <2>5 DEF EngineRuns
<1>9. CASE ~e.clear /\ e.en_d
  <2>1. /\ e.req_k >= 1 /\ Accumulated(e, d, e.req_k - 1)
        /\ e.a_q = e.amem[e.mi * d.k + (e.req_k - 1)]
        /\ e.b_q = e.bmem[(e.req_k - 1) * Tiles(d.n) + e.nj]
    BY <1>6, <1>9 DEF Adding
  <2>2. e.req_k \in 1 .. d.k
    BY <1>3, <2>1
  <2>3. \A i, j \in Lanes :
          f.acc[i * TILE + j] = Total(Products(e.amem, e.bmem, d, e.mi, e.nj, i, j), e.req_k)
    BY <1>2, <1>9, <2>1, <2>2, SumsGrow
  <2>4. Accumulated(f, d, e.req_k)
    BY <1>2, <1>4, <2>3 DEF Accumulated
  <2>5. CASE e.req_k < d.k
    <3>1. f.st = "ACC" /\ ~f.clear /\ f.en_d /\ f.req_k = e.req_k + 1
      BY <1>2, <1>4, <2>5
    <3>2. f.req_k - 1 = e.req_k /\ f.req_k >= 1 /\ f.mi = e.mi /\ f.nj = e.nj
      BY <1>2, <1>4, <2>2, <3>1
    <3>3. /\ f.a_q = e.amem[e.mi * d.k + e.req_k]
          /\ f.b_q = e.bmem[e.req_k * Tiles(d.n) + e.nj]
      BY <1>2, <2>5, OperandsRead
    <3>4. Adding(f, d)
      BY <1>2, <2>4, <3>1, <3>2, <3>3 DEF Adding
    <3> QED
      BY <1>2, <1>4, <1>5, <3>1, <3>4 DEF EngineRuns
  <2>6. CASE ~(e.req_k < d.k)
    <3>1. e.req_k >= d.k /\ e.req_k = d.k
      BY <1>3, <2>6
    <3>2. f.st = "ACC" /\ ~f.clear /\ ~f.en_d /\ f.req_k = d.k
      BY <1>2, <1>4, <1>9, <2>6, <3>1
    <3>3. Adding(f, d)
      BY <2>4, <3>1, <3>2 DEF Adding
    <3> QED
      BY <1>2, <1>4, <1>5, <3>2, <3>3 DEF EngineRuns
  <2> QED
    BY <2>5, <2>6
<1>10. CASE ~e.clear /\ ~e.en_d
  <2>1. e.req_k = d.k /\ Accumulated(e, d, d.k) /\ ~(e.req_k < d.k)
    BY <1>3, <1>6, <1>10 DEF Adding
  <2>2. /\ f.st = "EVAC" /\ f.fi = 0 /\ f.fj = 0 /\ ~f.fdone /\ f.done_cnt = 0
        /\ f.oi = 0 /\ f.oj = 0 /\ ~f.c_we /\ ~f.rq_valid /\ f.mi = e.mi /\ f.nj = e.nj
    BY <1>2, <1>4, <1>10, <2>1
  <2>3. Accumulated(f, d, d.k)
    BY <1>2, <1>7, <1>10, <2>1, <2>2 DEF Accumulated
  <2>4. Cols(f) = 0
    <3>1. TILE * TILE # 0
      BY <1>3
    <3> QED
      BY <2>2, <3>1 DEF Cols
  <2>5. \A w \in 0 .. Base(d, f.mi, f.nj) + Cols(f) - 1 : Exact(f, d, p.mult, p.shift, w)
    <3>1. Base(d, e.mi, e.nj) \in Nat
      BY <1>2, <1>3, TilesFollow
    <3>2. Base(d, f.mi, f.nj) + Cols(f) - 1 = Base(d, e.mi, e.nj) - 1
      BY <2>2, <2>4, <3>1
    <3> QED
      BY <1>5, <3>2
  <2>6. Collecting(f, d, p.mult, p.shift)
    BY <2>2, <2>3, <2>5 DEF Collecting
  <2> QED
    BY <2>2, <2>6 DEF EngineRuns
<1> QED
  BY <1>8, <1>9, <1>10

\* The places of a tile, in the order of the walk.
LEMMA WalkOrder ==
  ASSUME NEW i \in Lanes, NEW j \in Lanes
  PROVE  /\ TILE * TILE \in Nat \ {0} /\ j * TILE \in Nat
         /\ j * TILE + i \in 0 .. TILE * TILE - 1
         /\ (j + 1) * TILE + 0 = j * TILE + TILE
         /\ ~(j < TILE - 1) => j * TILE + TILE = TILE * TILE
<1>1. PICK t \in Nat \ {0} : t = TILE
  BY EngineAssumption
<1>2. i \in 0 .. t - 1 /\ j \in 0 .. t - 1
  BY <1>1 DEF Lanes
<1>3. /\ j * t + i \in 0 .. t * t - 1 /\ j * t \in Nat /\ t * t \in Nat
      /\ (j + 1) * t = j * t + t
  BY <1>1, <1>2, Within
<1>4. t * t \in Nat \ {0}
  BY <1>1
<1>5. ~(j < t - 1) => j * t + t = t * t
  <2>1. SUFFICES ASSUME ~(j < t - 1) PROVE j * t + t = t * t
    OBVIOUS
  <2>2. j + 1 = t
    BY <1>2, <2>1
  <2> QED
    BY <1>3, <2>2
<1>6. (j + 1) * t + 0 = j * t + t
  BY <1>3
<1> QED
  BY <1>1, <1>3, <1>4, <1>5, <1>6

\* A word that waits to be written is written by the next edge.
LEMMA ColumnsWritten ==
  ASSUME NEW d, NEW e, NEW p, NEW f, Steps(d, e, p, f), e.st = "EVAC",
         Collecting(e, d, p.mult, p.shift)
  PROVE  \A w \in 0 .. Base(d, e.mi, e.nj) + Cols(e) - 1 : Exact(f, d, p.mult, p.shift, w)
<1>1. PICK c : c = Control(e, d, p.start)
  OBVIOUS
<1>2. /\ Shape(d) /\ EngineTyped(e, d) /\ f.amem = e.amem /\ f.bmem = e.bmem
      /\ f.cmem = Put(e.cmem, c_depth(d), e.c_we, e.c_waddr, e.word)
  BY <1>1, StepFields
<1>3. /\ e.mi \in 0 .. Tiles(d.m) - 1 /\ e.nj \in 0 .. Tiles(d.n) - 1 /\ e.oj \in Lanes
      /\ e.c_waddr \in Nat
  BY <1>2 DEF EngineTyped
<1>4. PICK b, n, cols : b = Base(d, e.mi, e.nj) /\ n = c_depth(d) /\ cols = Cols(e)
  OBVIOUS
<1>5. cols \in Nat /\ cols <= TILE /\ TILE \in Nat
  BY <1>3, <1>4, LanesStep DEF Cols
<1>6. b \in Nat /\ n \in Nat /\ b + TILE <= n
  BY <1>2, <1>3, <1>4, TilesFollow
<1>7. e.c_we => /\ e.c_waddr = b + cols - 1 /\ cols >= 1
                /\ \A i \in Lanes :
                     e.word[i] = Result(e.amem, e.bmem, d, p.mult, p.shift, e.c_waddr, i)
  BY <1>4 DEF Collecting
<1>8. e.c_we => e.c_waddr \in 0 .. n - 1
  BY <1>5, <1>6, <1>7
<1>9. \A w \in 0 .. b + cols - 1 :
        Exact(e, d, p.mult, p.shift, w) \/ (e.c_we /\ w = e.c_waddr)
  BY <1>4 DEF Collecting
<1>10. ASSUME NEW w \in 0 .. b + cols - 1
       PROVE  Exact(f, d, p.mult, p.shift, w)
  <2>1. w \in 0 .. n - 1
    BY <1>5, <1>6
  <2>2. Exact(e, d, p.mult, p.shift, w) \/ (e.c_we /\ w = e.c_waddr)
    BY <1>9
  <2>3. /\ Exact(e, d, p.mult, p.shift, w) /\ ~(e.c_we /\ w = e.c_waddr) =>
             Exact(f, d, p.mult, p.shift, w)
        /\ e.c_we /\ w = e.c_waddr
             /\ (\A i \in Lanes :
                   e.word[i] = Result(e.amem, e.bmem, d, p.mult, p.shift, e.c_waddr, i)) =>
             Exact(f, d, p.mult, p.shift, w)
    BY <1>2, <1>4, <1>8, <2>1, ExactKept
  <2> QED
    BY <1>7, <2>2, <2>3
<1> QED
  BY <1>4, <1>10

\* What is issued is the result of the tile's place the walk is at.
LEMMA Issued ==
  ASSUME NEW d, NEW e, NEW p, NEW f, Steps(d, e, p, f), e.st = "EVAC",
         Collecting(e, d, p.mult, p.shift)
  PROVE  Code(f.rq_out) =
           Result(e.amem, e.bmem, d, p.mult, p.shift, Base(d, e.mi, e.nj) + e.fj, e.fi)
<1>1. PICK c : c = Control(e, d, p.start)
  OBVIOUS
<1>2. /\ Shape(d) /\ EngineTyped(e, d)
      /\ f.rq_out = Requant(e.acc[e.fi * TILE + e.fj], p.mult, p.shift)
  BY <1>1, StepFields
<1>3. /\ e.mi \in 0 .. Tiles(d.m) - 1 /\ e.nj \in 0 .. Tiles(d.n) - 1
      /\ e.fi \in Lanes /\ e.fj \in Lanes
  BY <1>2 DEF EngineTyped
<1>4. e.acc[e.fi * TILE + e.fj] =
        Total(Products(e.amem, e.bmem, d, e.mi, e.nj, e.fi, e.fj), d.k)
  BY <1>3 DEF Collecting, Accumulated
<1>5. Result(e.amem, e.bmem, d, p.mult, p.shift, Base(d, e.mi, e.nj) + e.fj, e.fi) =
        Code(Requant(Total(Products(e.amem, e.bmem, d, e.mi, e.nj, e.fi, e.fj), d.k),
                     p.mult, p.shift))
  BY <1>2, <1>3, ResultAt
<1> QED
  BY <1>2, <1>4, <1>5

\* The results of a tile are collected, each in its place.
LEMMA EngineCollects ==
  ASSUME NEW d, NEW e, NEW p, NEW f, Steps(d, e, p, f), e.st = "EVAC",
         EngineRuns(e, d, p.mult, p.shift)
  PROVE  EngineRuns(f, d, p.mult, p.shift)
<1>1. PICK c : c = Control(e, d, p.start)
  OBVIOUS
<1>2. /\ IsEngine(e) /\ Shape(d) /\ EngineTyped(e, d) /\ f.st = c.st /\ f.mi = c.mi
      /\ f.nj = c.nj /\ f.amem = e.amem /\ f.bmem = e.bmem
      /\ f.acc = MacArray(e) /\ f.rq_valid = (e.st = "EVAC" /\ ~e.fdone)
      /\ f.fi = c.fi /\ f.fj = c.fj /\ f.fdone = c.fdone /\ f.done_cnt = c.done_cnt
      /\ f.oi = c.oi /\ f.oj = c.oj /\ f.word = c.word
      /\ f.c_we = c.c_we /\ f.c_waddr = c.c_waddr
  BY <1>1, StepFields
<1>3. /\ e.mi \in 0 .. Tiles(d.m) - 1 /\ e.nj \in 0 .. Tiles(d.n) - 1
      /\ e.fi \in Lanes /\ e.fj \in Lanes /\ e.oi \in Lanes /\ e.oj \in Lanes
      /\ e.word \in Word /\ e.done_cnt \in Nat /\ ~e.clear /\ ~e.en_d
  BY <1>2 DEF EngineTyped
<1>4. Collecting(e, d, p.mult, p.shift)
  BY DEF EngineRuns
<1>5. PICK b : b = Base(d, e.mi, e.nj)
  OBVIOUS
<1>6. b \in Nat /\ TILE \in Nat \ {0}
  BY <1>2, <1>3, <1>5, TilesFollow
<1> DEFINE R(w, i) == Result(e.amem, e.bmem, d, p.mult, p.shift, w, i)
<1>7. /\ e.rq_valid =>
           /\ e.done_cnt = e.oj * TILE + e.oi
           /\ Code(e.rq_out) = R(b + e.oj, e.oi)
           /\ e.oi < TILE - 1 => e.fi = e.oi + 1 /\ e.fj = e.oj /\ ~e.fdone
           /\ ~(e.oi < TILE - 1) /\ e.oj < TILE - 1 => e.fi = 0 /\ e.fj = e.oj + 1 /\ ~e.fdone
           /\ ~(e.oi < TILE - 1) /\ ~(e.oj < TILE - 1) => e.fdone
      /\ ~e.rq_valid =>
           /\ e.oi = 0
           /\ e.fdone => e.done_cnt = TILE * TILE
           /\ ~e.fdone => e.fi = 0 /\ e.fj = 0 /\ e.oj = 0 /\ e.done_cnt = 0
      /\ \A i \in 0 .. e.oi - 1 : e.word[i] = R(b + e.oj, i)
  BY <1>4, <1>5 DEF Collecting
<1>8. Collects(e, d, c)
  BY <1>1, <1>2, ControlCollects
<1>9. /\ f.mi = e.mi /\ f.nj = e.nj
      /\ f.st = IF e.done_cnt = TILE * TILE THEN "NEXT" ELSE "EVAC"
      /\ e.fdone => f.fdone /\ f.fi = e.fi /\ f.fj = e.fj
      /\ ~e.fdone /\ e.fi < TILE - 1 => ~f.fdone /\ f.fi = e.fi + 1 /\ f.fj = e.fj
      /\ ~e.fdone /\ ~(e.fi < TILE - 1) /\ e.fj < TILE - 1 =>
           ~f.fdone /\ f.fi = 0 /\ f.fj = e.fj + 1
      /\ ~e.fdone /\ ~(e.fi < TILE - 1) /\ ~(e.fj < TILE - 1) =>
           f.fdone /\ f.fi = 0 /\ f.fj = e.fj
  BY <1>2, <1>8 DEF Collects
<1>10. /\ ~e.rq_valid => /\ ~f.c_we /\ f.done_cnt = e.done_cnt /\ f.oi = e.oi /\ f.oj = e.oj
       /\ e.rq_valid => /\ f.done_cnt = e.done_cnt + 1
                        /\ f.word = [e.word EXCEPT ![e.oi] = Code(e.rq_out)]
       /\ e.rq_valid /\ e.oi < TILE - 1 => ~f.c_we /\ f.oi = e.oi + 1 /\ f.oj = e.oj
       /\ e.rq_valid /\ ~(e.oi < TILE - 1) =>
            /\ f.c_we /\ f.oi = 0 /\ f.oj = (e.oj + 1) % TILE
            /\ f.c_waddr = e.mi * d.n + e.nj * TILE + e.oj
  BY <1>2, <1>8 DEF Collects
<1>11. \A w \in 0 .. b + Cols(e) - 1 : Exact(f, d, p.mult, p.shift, w)
  BY <1>4, <1>5, ColumnsWritten
<1>12. Code(f.rq_out) = R(b + e.fj, e.fi)
  BY <1>4, <1>5, Issued
<1>13. Accumulated(f, d, d.k)
  <2>1. ASSUME NEW i \in Lanes, NEW j \in Lanes
        PROVE  f.acc[i * TILE + j] = e.acc[i * TILE + j]
    <3>1. MacArray(e)[i * TILE + j] =
            IF e.clear THEN 0
            ELSE IF e.en_d
              THEN e.acc[i * TILE + j] + Signed(e.a_q[i]) * Signed(e.b_q[j])
            ELSE e.acc[i * TILE + j]
      BY <1>2, MacLaw
    <3> QED
      BY <1>2, <1>3, <3>1
  <2>2. Accumulated(e, d, d.k)
    BY <1>4 DEF Collecting
  <2> QED
    BY <1>2, <1>9, <2>1, <2>2 DEF Accumulated
<1>14. f.rq_valid = ~e.fdone
  BY <1>2
<1>15. /\ TILE * TILE \in Nat \ {0} /\ e.oj * TILE \in Nat
       /\ e.oj * TILE + e.oi \in 0 .. TILE * TILE - 1
       /\ ~(e.oj < TILE - 1) => e.oj * TILE + TILE = TILE * TILE
  BY <1>3, WalkOrder
<1>16. CASE e.done_cnt = TILE * TILE
  <2>1. ~e.rq_valid /\ e.fdone
    BY <1>7, <1>15, <1>16
  <2>2. f.st = "NEXT" /\ ~f.c_we /\ ~f.rq_valid
    BY <1>9, <1>10, <1>14, <1>16, <2>1
  <2>3. Cols(e) = TILE
    BY <1>16 DEF Cols
  <2> QED
    BY <1>5, <1>9, <1>11, <2>2, <2>3 DEF EngineRuns
<1>17. CASE e.done_cnt # TILE * TILE
  <2>1. f.st = "EVAC" /\ Cols(e) = e.oj
    BY <1>9, <1>17 DEF Cols
  <2> SUFFICES Collecting(f, d, p.mult, p.shift)
    BY <2>1 DEF EngineRuns
  <2>2. \A i : \A w : Result(f.amem, f.bmem, d, p.mult, p.shift, w, i) = R(w, i)
    BY <1>2
  <2>3. Base(d, f.mi, f.nj) = b
    BY <1>5, <1>9
  <2>4. \A w \in 0 .. b + e.oj - 1 : Exact(f, d, p.mult, p.shift, w)
    BY <1>11, <2>1
  <2> HIDE DEF R
  <2>5. CASE ~e.rq_valid
    <3>1. /\ ~e.fdone /\ e.fi = 0 /\ e.fj = 0 /\ e.oj = 0 /\ e.done_cnt = 0 /\ e.oi = 0
      BY <1>7, <1>17, <2>5
    <3>2. f.rq_valid /\ ~f.c_we /\ f.done_cnt = 0 /\ f.oi = 0 /\ f.oj = 0
      BY <1>10, <1>14, <2>5, <3>1
    <3>3. 0 * TILE + 0 = 0 /\ f.done_cnt = f.oj * TILE + f.oi
      BY <1>6, <3>2
    <3>4. Code(f.rq_out) = R(b + f.oj, f.oi)
      BY <1>12, <3>1, <3>2
    <3>5. /\ f.oi < TILE - 1 => f.fi = f.oi + 1 /\ f.fj = f.oj /\ ~f.fdone
          /\ ~(f.oi < TILE - 1) /\ f.oj < TILE - 1 => f.fi = 0 /\ f.fj = f.oj + 1 /\ ~f.fdone
          /\ ~(f.oi < TILE - 1) /\ ~(f.oj < TILE - 1) => f.fdone
      BY <1>9, <3>1, <3>2
    <3>6. Cols(f) = 0
      BY <1>15, <3>2 DEF Cols
    <3>7. \A w \in 0 .. b + Cols(f) - 1 : Exact(f, d, p.mult, p.shift, w)
      BY <2>4, <3>1, <3>6
    <3>8. \A i \in 0 .. f.oi - 1 : f.word[i] = R(b + f.oj, i)
      BY <3>2
    <3> QED
      BY <1>13, <2>2, <2>3, <3>2, <3>3, <3>4, <3>5, <3>7, <3>8 DEF Collecting
  <2>6. CASE e.rq_valid /\ e.oi < TILE - 1
    <3>1. ~e.fdone /\ e.fi = e.oi + 1 /\ e.fj = e.oj /\ e.done_cnt = e.oj * TILE + e.oi
      BY <1>7, <2>6
    <3>2. f.rq_valid /\ ~f.c_we /\ f.done_cnt = e.done_cnt + 1 /\ f.oi = e.oi + 1 /\ f.oj = e.oj
      BY <1>10, <1>14, <2>6, <3>1
    <3>3. f.oi \in Lanes /\ e.oi \in Nat
      BY <1>3, <2>6, <3>2, LanesStep
    <3>4. f.done_cnt = f.oj * TILE + f.oi /\ f.done_cnt \in 0 .. TILE * TILE - 1
      <4>1. f.oj * TILE + f.oi \in 0 .. TILE * TILE - 1
        BY <1>3, <3>2, <3>3, WalkOrder
      <4>2. f.done_cnt = f.oj * TILE + f.oi
        BY <1>15, <3>1, <3>2, <3>3
      <4> QED
        BY <4>1, <4>2
    <3>5. Code(f.rq_out) = R(b + f.oj, f.oi)
      BY <1>12, <3>1, <3>2
    <3>6. /\ f.oi < TILE - 1 => f.fi = f.oi + 1 /\ f.fj = f.oj /\ ~f.fdone
          /\ ~(f.oi < TILE - 1) /\ f.oj < TILE - 1 => f.fi = 0 /\ f.fj = f.oj + 1 /\ ~f.fdone
          /\ ~(f.oi < TILE - 1) /\ ~(f.oj < TILE - 1) => f.fdone
      BY <1>9, <3>1, <3>2
    <3>7. Cols(f) = e.oj
      BY <1>15, <3>2, <3>4 DEF Cols
    <3>8. \A w \in 0 .. b + Cols(f) - 1 : Exact(f, d, p.mult, p.shift, w)
      BY <2>4, <3>7
    <3>9. ASSUME NEW i \in 0 .. f.oi - 1 PROVE f.word[i] = R(b + f.oj, i)
      <4>1. f.word = [e.word EXCEPT ![e.oi] = R(b + e.oj, e.oi)]
        BY <1>7, <1>10, <2>6
      <4>0. Lanes = 0 .. TILE - 1 /\ TILE \in Nat /\ e.oi < TILE - 1
        BY <2>6, LanesStep
      <4>2. i \in Lanes /\ (i = e.oi \/ i \in 0 .. e.oi - 1)
        BY <3>2, <3>3, <4>0
      <4>3. CASE i = e.oi
        BY <1>3, <3>2, <4>1, <4>2, <4>3 DEF Word
      <4>4. CASE i \in 0 .. e.oi - 1 /\ i # e.oi
        BY <1>3, <1>7, <3>2, <4>1, <4>2, <4>4 DEF Word
      <4> QED
        BY <4>2, <4>3, <4>4
    <3> QED
      BY <1>13, <2>2, <2>3, <3>2, <3>4, <3>5, <3>6, <3>8, <3>9 DEF Collecting
  <2>7. CASE e.rq_valid /\ ~(e.oi < TILE - 1)
    <3>1. /\ f.c_we /\ f.oi = 0 /\ f.oj = (e.oj + 1) % TILE /\ f.done_cnt = e.done_cnt + 1
          /\ f.c_waddr = e.mi * d.n + e.nj * TILE + e.oj
          /\ f.word = [e.word EXCEPT ![e.oi] = R(b + e.oj, e.oi)]
      BY <1>7, <1>10, <2>7
    <3>2. e.oi + 1 = TILE /\ e.done_cnt = e.oj * TILE + e.oi
      BY <1>3, <1>6, <1>7, <2>7, LanesStep
    <3>3. f.done_cnt = e.oj * TILE + TILE
      BY <1>3, <1>15, <3>1, <3>2, LanesStep
    <3>4. f.c_waddr = b + e.oj /\ e.oj \in Nat
      BY <1>3, <1>5, <3>1, LanesStep DEF Base
    <3>5. ASSUME NEW i \in Lanes PROVE f.word[i] = R(f.c_waddr, i)
      <4>1. i = e.oi \/ (i \in 0 .. e.oi - 1 /\ i # e.oi)
        BY <1>3, <1>6, <3>2, LanesStep
      <4>2. CASE i = e.oi
        BY <1>3, <3>1, <3>4, <4>2 DEF Word
      <4>3. CASE i \in 0 .. e.oi - 1 /\ i # e.oi
        BY <1>3, <1>7, <3>1, <3>4, <4>3 DEF Word
      <4> QED
        BY <4>1, <4>2, <4>3
    <3>6. Cols(f) = e.oj + 1 =>
            /\ f.c_waddr = b + Cols(f) - 1 /\ Cols(f) >= 1
            /\ \A w \in 0 .. b + Cols(f) - 1 :
                 Exact(f, d, p.mult, p.shift, w) \/ (f.c_we /\ w = f.c_waddr)
      <4>1. SUFFICES ASSUME Cols(f) = e.oj + 1
                     PROVE  /\ f.c_waddr = b + Cols(f) - 1 /\ Cols(f) >= 1
                            /\ \A w \in 0 .. b + Cols(f) - 1 :
                                 Exact(f, d, p.mult, p.shift, w) \/ (f.c_we /\ w = f.c_waddr)
        OBVIOUS
      <4>2. \A w \in 0 .. b + Cols(f) - 1 : w \in 0 .. b + e.oj - 1 \/ w = f.c_waddr
        BY <1>6, <3>4, <4>1
      <4> QED
        BY <1>6, <2>4, <3>1, <3>4, <4>1, <4>2
    <3>7. \A i \in 0 .. f.oi - 1 : f.word[i] = R(b + f.oj, i)
      BY <3>1
    <3>8. CASE e.oj < TILE - 1
      <4>1. ~e.fdone /\ e.fi = 0 /\ e.fj = e.oj + 1
        BY <1>7, <2>7, <3>8
      <4>2. f.rq_valid /\ f.oj = e.oj + 1 /\ e.oj + 1 \in Lanes
        BY <1>3, <1>14, <3>1, <3>8, <4>1, LanesStep
      <4>3. Code(f.rq_out) = R(b + f.oj, f.oi)
        BY <1>12, <3>1, <4>1, <4>2
      <4>4. /\ f.oi < TILE - 1 => f.fi = f.oi + 1 /\ f.fj = f.oj /\ ~f.fdone
            /\ ~(f.oi < TILE - 1) /\ f.oj < TILE - 1 => f.fi = 0 /\ f.fj = f.oj + 1 /\ ~f.fdone
            /\ ~(f.oi < TILE - 1) /\ ~(f.oj < TILE - 1) => f.fdone
        BY <1>9, <3>1, <4>1, <4>2
      <4>5. f.done_cnt = f.oj * TILE + f.oi /\ f.done_cnt \in 0 .. TILE * TILE - 1
        <5>1. (e.oj + 1) * TILE + 0 = e.oj * TILE + TILE
          BY <1>3, WalkOrder
        <5>2. (e.oj + 1) * TILE + 0 \in 0 .. TILE * TILE - 1
          BY <4>2, LanesStep, WalkOrder
        <5> QED
          BY <3>1, <3>3, <4>2, <5>1, <5>2
      <4>6. Cols(f) = e.oj + 1
        BY <1>15, <4>2, <4>5 DEF Cols
      <4> QED
        BY <1>13, <2>2, <2>3, <3>1, <3>5, <3>6, <3>7, <4>2, <4>3, <4>4, <4>5, <4>6 DEF Collecting
    <3>9. CASE ~(e.oj < TILE - 1)
      <4>1. e.fdone /\ f.fdone /\ ~f.rq_valid
        BY <1>7, <1>9, <1>14, <2>7, <3>9
      <4>2. f.done_cnt = TILE * TILE
        BY <1>15, <3>3, <3>9
      <4>3. Cols(f) = e.oj + 1
        BY <1>3, <1>6, <3>9, <4>2, LanesStep DEF Cols
      <4> QED
        BY <1>13, <2>2, <2>3, <3>1, <3>5, <3>6, <3>7, <4>1, <4>2, <4>3 DEF Collecting
    <3> QED
      BY <3>8, <3>9
  <2> QED
    BY <2>5, <2>6, <2>7
<1> QED
  BY <1>16, <1>17

\* A start is computed to its end.
LEMMA EngineAdvances ==
  ASSUME NEW d, NEW e, NEW p, NEW f, Steps(d, e, p, f), e.st # "IDLE",
         EngineRuns(e, d, p.mult, p.shift)
  PROVE  EngineRuns(f, d, p.mult, p.shift)
<1>1. e.st \in {"IDLE", "CLEAR", "ACC", "EVAC", "NEXT"}
  BY DEF Steps, EngineTyped
<1> QED
  BY <1>1, EngineClears, EngineAdds, EngineCollects, EngineMovesOn

-----------------------------------------------------------------------------
(* The accelerator: two engines and the copy through the GELU tables.       *)

\* An accelerator with these parts, of whatever contents.
IsFfn(f) ==
  f \in [eng1 : {f.eng1}, eng2 : {f.eng2}, lut : {f.lut}, g_q : {f.g_q}, g_valid : {f.g_valid},
         st : {f.st}, rcnt : {f.rcnt}, wcnt : {f.wcnt}, s1_valid : {f.s1_valid},
         s1_addr : {f.s1_addr}, s2_valid : {f.s2_valid}, s2_addr : {f.s2_addr}]

\* How many of the hidden words a stage of the copy holds.
Ones(b) == IF b THEN 1 ELSE 0

\* The copy is at rest outside its state, and inside it every word that was read was written
\* or is in one of the two stages.
Counts(f) ==
  /\ f.rcnt \in Nat /\ f.wcnt \in Nat /\ f.s1_addr \in Nat /\ f.s2_addr \in Nat
  /\ f.s1_valid \in BOOLEAN /\ f.s2_valid \in BOOLEAN /\ f.g_valid = f.s2_valid
  /\ f.st # "GELU" => ~f.s1_valid /\ ~f.s2_valid
  /\ f.st = "GELU" => f.rcnt <= Hidden /\ f.rcnt = f.wcnt + Ones(f.s1_valid) + Ones(f.s2_valid)

States == {"IDLE", "RUN1", "WAIT1", "GELU", "RUN2", "WAIT2"}

\* The accelerator's registers and memories have their widths, and an engine works only
\* while it is waited for.
FfnTyped(f) ==
  /\ IsFfn(f) /\ EngineTyped(f.eng1, Dim1) /\ EngineTyped(f.eng2, Dim2)
  /\ f.lut \in [0 .. Codes - 1 -> 0 .. Codes - 1] /\ f.g_q \in Word /\ f.st \in States
  /\ f.eng1.st # "IDLE" => f.st = "WAIT1"
  /\ f.eng2.st # "IDLE" => f.st = "WAIT2"
  /\ Counts(f)

SlaveTyped(s) ==
  s \in [target : Nat, ptr : Nat, start : BOOLEAN,
         mult1 : Nat, shift1 : Nat, mult2 : Nat, shift2 : Nat]

\* What the ports of the engines carry on an edge.
Port1 ==
  [a_we |-> Loads(Targets.x), a_waddr |-> BufAddr, a_wdata |-> bus.dat,
   b_we |-> Loads(Targets.W1), b_waddr |-> BufAddr, b_wdata |-> bus.dat,
   mult |-> slave.mult1, shift |-> slave.shift1, start |-> ffn.st = "RUN1",
   c_raddr |-> IF ffn.st = "GELU" THEN ffn.rcnt ELSE 0]
Port2 ==
  [a_we |-> GeluWrites(ffn), a_waddr |-> ffn.s2_addr, a_wdata |-> ffn.g_q,
   b_we |-> Loads(Targets.W2), b_waddr |-> BufAddr, b_wdata |-> bus.dat,
   mult |-> slave.mult2, shift |-> slave.shift2, start |-> ffn.st = "RUN2",
   c_raddr |-> IF InData THEN BufAddr ELSE 0]

\* A word on the bus is one of a matrix where there is one, and a number elsewhere.
BusTyped ==
  /\ bus.adr \in Nat
  /\ Writing => IF InData THEN bus.dat \in Word ELSE bus.dat \in Nat

\* Both shapes are covered by their tiles, and the second reads what the first wrote.
LEMMA Shapes ==
  /\ Shape(Dim1) /\ Shape(Dim2) /\ a_depth(Dim2) = Hidden /\ Hidden \in Nat \ {0}
  /\ Codes \in Nat \ {0}
<1>1. Shape(Dim1) /\ Shape(Dim2)
  BY ShapeAssumption DEF Shape, Dim1, Dim2
<1>2. a_depth(Dim2) = c_depth(Dim1)
  BY DEF a_depth, c_depth, Dim1, Dim2
<1> QED
  BY <1>1, <1>2, Depths, EngineAssumption DEF Hidden

\* What the control of the accelerator sets.
LEMMA FfnControlFields ==
  ASSUME NEW f, IsFfn(f), f.st \in States, NEW begin, NEW c, c = FfnControl(f, begin)
  PROVE  /\ IsFfn(c)
         /\ f.st = "IDLE" => c.st = IF begin THEN "RUN1" ELSE "IDLE"
         /\ f.st = "RUN1" => c.st = "WAIT1"
         /\ f.st = "WAIT1" => c.st = IF f.eng1.st # "IDLE" THEN "WAIT1" ELSE "GELU"
         /\ f.st = "RUN2" => c.st = "WAIT2"
         /\ f.st = "WAIT2" => c.st = IF f.eng2.st = "IDLE" THEN "IDLE" ELSE "WAIT2"
         /\ f.st = "GELU" =>
              /\ c.st = IF f.wcnt = Hidden THEN "RUN2" ELSE "GELU"
              /\ c.rcnt = IF f.rcnt < Hidden THEN f.rcnt + 1 ELSE f.rcnt
              /\ c.wcnt = IF GeluWrites(f) THEN f.wcnt + 1 ELSE f.wcnt
              /\ c.s1_valid = (f.rcnt < Hidden) /\ c.s1_addr = f.rcnt % Hidden
              /\ c.s2_valid = f.s1_valid /\ c.s2_addr = f.s1_addr
         /\ f.st = "WAIT1" /\ f.eng1.st = "IDLE" =>
              c.rcnt = 0 /\ c.wcnt = 0 /\ ~c.s1_valid /\ ~c.s2_valid
              /\ c.s1_addr = f.s1_addr /\ c.s2_addr = f.s2_addr
         /\ f.st # "GELU" /\ ~(f.st = "WAIT1" /\ f.eng1.st = "IDLE") =>
              /\ c.rcnt = f.rcnt /\ c.wcnt = f.wcnt
              /\ c.s1_valid = f.s1_valid /\ c.s1_addr = f.s1_addr
              /\ c.s2_valid = f.s2_valid /\ c.s2_addr = f.s2_addr
<1>1. CASE f.st = "IDLE"
  BY <1>1 DEF FfnControl, IsFfn
<1>2. CASE f.st = "RUN1"
  BY <1>2 DEF FfnControl, IsFfn
<1>3. CASE f.st = "WAIT1"
  BY <1>3 DEF FfnControl, IsFfn
<1>4. CASE f.st = "RUN2"
  BY <1>4 DEF FfnControl, IsFfn
<1>5. CASE f.st = "WAIT2"
  BY <1>5 DEF FfnControl, IsFfn
<1>6. CASE f.st = "GELU"
  <2>1. PICK reading, rcnt, wcnt, a1 :
          /\ reading = (f.rcnt < Hidden) /\ rcnt = (IF reading THEN f.rcnt + 1 ELSE f.rcnt)
          /\ wcnt = (IF GeluWrites(f) THEN f.wcnt + 1 ELSE f.wcnt) /\ a1 = f.rcnt % Hidden
    OBVIOUS
  <2>2. PICK copy : copy = [f EXCEPT !.rcnt = rcnt, !.s1_valid = reading, !.s1_addr = a1,
                                     !.s2_valid = f.s1_valid, !.s2_addr = f.s1_addr,
                                     !.wcnt = wcnt]
    OBVIOUS
  <2>3. c = IF f.wcnt = Hidden THEN [copy EXCEPT !.st = "RUN2"] ELSE copy
    BY <1>6, <2>1, <2>2 DEF FfnControl, GeluStage
  <2>4. /\ IsFfn(copy) /\ copy.st = "GELU" /\ copy.rcnt = rcnt /\ copy.wcnt = wcnt
        /\ copy.s1_valid = reading /\ copy.s1_addr = a1 /\ copy.s2_valid = f.s1_valid
        /\ copy.s2_addr = f.s1_addr
    BY <1>6, <2>2 DEF IsFfn
  <2>5. CASE f.wcnt = Hidden
    <3>1. c = [copy EXCEPT !.st = "RUN2"]
      BY <2>3, <2>5
    <3>2. /\ IsFfn(c) /\ c.st = "RUN2" /\ c.rcnt = rcnt /\ c.wcnt = wcnt
          /\ c.s1_valid = reading /\ c.s1_addr = a1 /\ c.s2_valid = f.s1_valid
          /\ c.s2_addr = f.s1_addr
      BY <2>4, <3>1 DEF IsFfn
    <3> QED
      BY <1>6, <2>1, <2>5, <3>2
  <2>6. CASE f.wcnt # Hidden
    BY <1>6, <2>1, <2>3, <2>4, <2>6
  <2> QED
    BY <2>5, <2>6
<1> QED
  BY <1>1, <1>2, <1>3, <1>4, <1>5, <1>6 DEF States

\* One edge of the accelerator, field by field.
LEMMA FfnFields ==
  ASSUME FfnEdge, FfnTyped(ffn), NEW c, c = FfnControl(ffn, slave.start)
  PROVE  /\ IsFfn(ffn') /\ ffn'.eng1 = EngineEdge(ffn.eng1, Dim1, Port1)
         /\ ffn'.eng2 = EngineEdge(ffn.eng2, Dim2, Port2)
         /\ ffn'.lut = Put(ffn.lut, Codes, Loads(Targets.lut), BufAddr, Lane0)
         /\ ffn'.g_q = [i \in Lanes |-> ffn.lut[ffn.eng1.c_q[i]]]
         /\ ffn'.g_valid = ffn.s1_valid
         /\ ffn'.st = c.st /\ ffn'.rcnt = c.rcnt /\ ffn'.wcnt = c.wcnt
         /\ ffn'.s1_valid = c.s1_valid /\ ffn'.s1_addr = c.s1_addr
         /\ ffn'.s2_valid = c.s2_valid /\ ffn'.s2_addr = c.s2_addr
<1>1. PICK eng1, eng2, lut, g_q, g_valid :
        /\ eng1 = EngineEdge(ffn.eng1, Dim1, Port1) /\ eng2 = EngineEdge(ffn.eng2, Dim2, Port2)
        /\ lut = Put(ffn.lut, Codes, Loads(Targets.lut), BufAddr, Lane0)
        /\ g_q = [i \in Lanes |-> ffn.lut[ffn.eng1.c_q[i]]] /\ g_valid = ffn.s1_valid
  OBVIOUS
<1>2. ffn' = [c EXCEPT !.eng1 = eng1, !.eng2 = eng2, !.lut = lut, !.g_q = g_q,
                       !.g_valid = g_valid]
  BY <1>1 DEF FfnEdge, Port1, Port2
<1>3. IsFfn(c)
  BY FfnControlFields DEF FfnTyped
<1>4. IsFfn(ffn')
  BY <1>2, <1>3 DEF IsFfn
<1>5. /\ ffn'.eng1 = eng1 /\ ffn'.eng2 = eng2 /\ ffn'.lut = lut /\ ffn'.g_q = g_q
      /\ ffn'.g_valid = g_valid /\ ffn'.st = c.st /\ ffn'.rcnt = c.rcnt /\ ffn'.wcnt = c.wcnt
      /\ ffn'.s1_valid = c.s1_valid /\ ffn'.s1_addr = c.s1_addr
      /\ ffn'.s2_valid = c.s2_valid /\ ffn'.s2_addr = c.s2_addr
  BY <1>2, <1>3 DEF IsFfn
<1> QED
  BY <1>1, <1>4, <1>5

\* The fields of the ports.
LEMMA PortFields ==
  /\ Port1.a_we = Loads(Targets.x) /\ Port1.a_waddr = BufAddr /\ Port1.a_wdata = bus.dat
  /\ Port1.b_we = Loads(Targets.W1) /\ Port1.b_waddr = BufAddr /\ Port1.b_wdata = bus.dat
  /\ Port1.mult = slave.mult1 /\ Port1.shift = slave.shift1
  /\ Port1.start = (ffn.st = "RUN1")
  /\ Port1.c_raddr = (IF ffn.st = "GELU" THEN ffn.rcnt ELSE 0)
  /\ Port2.a_we = GeluWrites(ffn) /\ Port2.a_waddr = ffn.s2_addr /\ Port2.a_wdata = ffn.g_q
  /\ Port2.b_we = Loads(Targets.W2) /\ Port2.b_waddr = BufAddr /\ Port2.b_wdata = bus.dat
  /\ Port2.mult = slave.mult2 /\ Port2.shift = slave.shift2
  /\ Port2.start = (ffn.st = "RUN2")
  /\ Port2.c_raddr = (IF InData THEN BufAddr ELSE 0)
BY DEF Port1, Port2

\* The buffers are addressed from the pointer on.
LEMMA BufNat ==
  ASSUME SlaveTyped(slave), BusTyped, InData
  PROVE  BufAddr \in Nat
<1>1. slave.ptr \in Nat /\ bus.adr \in Nat /\ bus.adr >= 16
  BY DEF SlaveTyped, BusTyped, InData, DATA_WORD
<1>2. slave.ptr + bus.adr - DATA_WORD \in Nat
  BY <1>1 DEF DATA_WORD
<1> QED
  BY <1>2 DEF BufAddr, PTR_SPAN

LEMMA PortsKeepType ==
  ASSUME FfnTyped(ffn), SlaveTyped(slave), BusTyped
  PROVE  PortsTyped(Port1) /\ PortsTyped(Port2)
<1>1. /\ ffn.rcnt \in Nat /\ ffn.s2_addr \in Nat /\ ffn.g_q \in Word
      /\ slave.mult1 \in Nat /\ slave.shift1 \in Nat /\ slave.mult2 \in Nat
      /\ slave.shift2 \in Nat
  BY DEF FfnTyped, Counts, SlaveTyped
<1>2. InData => BufAddr \in Nat
  BY BufNat
<1>3. \A target : Loads(target) => bus.dat \in Word /\ BufAddr \in Nat
  BY <1>2 DEF Loads, BusTyped
<1>4. PICK p : p = Port1
  OBVIOUS
<1>5. PICK q : q = Port2
  OBVIOUS
<1>6. PortsTyped(p)
  <2>1. /\ p.a_we = Loads(Targets.x) /\ p.a_waddr = BufAddr /\ p.a_wdata = bus.dat
        /\ p.b_we = Loads(Targets.W1) /\ p.b_waddr = BufAddr /\ p.b_wdata = bus.dat
        /\ p.mult = slave.mult1 /\ p.shift = slave.shift1
        /\ p.c_raddr = (IF ffn.st = "GELU" THEN ffn.rcnt ELSE 0)
    BY <1>4, PortFields
  <2> QED
    BY <1>1, <1>3, <2>1 DEF PortsTyped
<1>7. PortsTyped(q)
  <2>1. /\ q.a_we = GeluWrites(ffn) /\ q.a_waddr = ffn.s2_addr /\ q.a_wdata = ffn.g_q
        /\ q.b_we = Loads(Targets.W2) /\ q.b_waddr = BufAddr /\ q.b_wdata = bus.dat
        /\ q.mult = slave.mult2 /\ q.shift = slave.shift2
        /\ q.c_raddr = (IF InData THEN BufAddr ELSE 0)
    BY <1>5, PortFields
  <2> QED
    BY <1>1, <1>2, <1>3, <2>1 DEF PortsTyped
<1> QED
  BY <1>4, <1>5, <1>6, <1>7

\* The copy's counters stay in step.
LEMMA CountsKeep ==
  ASSUME FfnEdge, FfnTyped(ffn)
  PROVE  Counts(ffn')
<1>1. PICK c : c = FfnControl(ffn, slave.start)
  OBVIOUS
<1>2. PICK f : f = ffn
  OBVIOUS
<1>3. IsFfn(f) /\ f.st \in States /\ Counts(f) /\ c = FfnControl(f, slave.start)
  BY <1>1, <1>2 DEF FfnTyped
<1>4. /\ ffn'.g_valid = f.s1_valid
      /\ ffn'.st = c.st /\ ffn'.rcnt = c.rcnt /\ ffn'.wcnt = c.wcnt
      /\ ffn'.s1_valid = c.s1_valid /\ ffn'.s1_addr = c.s1_addr
      /\ ffn'.s2_valid = c.s2_valid /\ ffn'.s2_addr = c.s2_addr
  BY <1>1, <1>2, FfnFields
<1>5. PICK h \in Nat \ {0} : h = Hidden
  BY Shapes
<1>6. CASE f.st = "GELU"
  <2>1. /\ f.rcnt \in Nat /\ f.wcnt \in Nat /\ f.rcnt <= h
        /\ f.rcnt = f.wcnt + Ones(f.s1_valid) + Ones(f.s2_valid)
        /\ f.s1_valid \in BOOLEAN /\ f.s2_valid \in BOOLEAN /\ f.g_valid = f.s2_valid
        /\ f.s1_addr \in Nat
    BY <1>3, <1>5, <1>6 DEF Counts
  <2>2. /\ c.st = (IF f.wcnt = h THEN "RUN2" ELSE "GELU")
        /\ c.rcnt = (IF f.rcnt < h THEN f.rcnt + 1 ELSE f.rcnt)
        /\ c.wcnt = (IF f.s2_valid THEN f.wcnt + 1 ELSE f.wcnt)
        /\ c.s1_valid = (f.rcnt < h) /\ c.s1_addr = f.rcnt % h
        /\ c.s2_valid = f.s1_valid /\ c.s2_addr = f.s1_addr
    BY <1>3, <1>5, <1>6, <2>1, FfnControlFields DEF GeluWrites
  <2>3. f.rcnt % h \in Nat
    BY <1>5, <2>1
  <2>4. f.wcnt = h => f.rcnt = h /\ ~f.s1_valid /\ ~f.s2_valid
    BY <1>5, <2>1 DEF Ones
  <2>5. c.rcnt \in Nat /\ c.wcnt \in Nat /\ c.rcnt <= h
    BY <1>5, <2>1, <2>2
  <2>6. c.rcnt = c.wcnt + Ones(c.s1_valid) + Ones(c.s2_valid)
    <3>1. Ones(c.s2_valid) = Ones(f.s1_valid) /\ Ones(f.s1_valid) \in {0, 1}
      BY <2>2 DEF Ones
    <3>2. c.wcnt = f.wcnt + Ones(f.s2_valid) /\ Ones(f.s2_valid) \in {0, 1}
      BY <2>1, <2>2 DEF Ones
    <3>3. c.rcnt = f.rcnt + Ones(c.s1_valid) /\ Ones(c.s1_valid) \in {0, 1}
      <4>0. PICK reading : reading = (f.rcnt < h)
        OBVIOUS
      <4>1. c.s1_valid = reading /\ c.rcnt = IF reading THEN f.rcnt + 1 ELSE f.rcnt
        BY <2>2, <4>0
      <4>2. CASE reading
        <5>1. Ones(c.s1_valid) = 1
          BY <4>1, <4>2, Zenon DEF Ones
        <5> QED
          BY <4>1, <4>2, <5>1
      <4>3. CASE ~reading
        <5>1. Ones(c.s1_valid) = 0
          BY <4>1, <4>3, Zenon DEF Ones
        <5> QED
          BY <2>1, <4>1, <4>3, <5>1
      <4> QED
        BY <4>2, <4>3
    <3> QED
      BY <2>1, <3>1, <3>2, <3>3
  <2> QED
    BY <1>4, <1>5, <2>1, <2>2, <2>3, <2>4, <2>5, <2>6 DEF Counts
<1>7. CASE f.st # "GELU"
  <2>1. /\ f.rcnt \in Nat /\ f.wcnt \in Nat /\ f.s1_addr \in Nat /\ f.s2_addr \in Nat
        /\ f.s1_valid = FALSE /\ f.s2_valid = FALSE
    BY <1>3, <1>7 DEF Counts
  <2>2. CASE f.st = "WAIT1" /\ f.eng1.st = "IDLE"
    <3>1. /\ c.rcnt = 0 /\ c.wcnt = 0 /\ ~c.s1_valid /\ ~c.s2_valid
          /\ c.s1_addr = f.s1_addr /\ c.s2_addr = f.s2_addr
      BY <1>3, <2>2, FfnControlFields
    <3>2. /\ ffn'.rcnt = 0 /\ ffn'.wcnt = 0 /\ ffn'.s1_addr \in Nat /\ ffn'.s2_addr \in Nat
          /\ ~ffn'.g_valid
      BY <1>4, <2>1, <3>1
    <3>3. c.s1_valid \in BOOLEAN /\ c.s2_valid \in BOOLEAN
      BY <1>1, <1>2, <1>3, <2>2 DEF FfnControl, IsFfn
    <3>4. ffn'.s1_valid = FALSE /\ ffn'.s2_valid = FALSE /\ ffn'.g_valid = FALSE
      BY <1>4, <2>1, <3>1, <3>3
    <3>5. Ones(ffn'.s1_valid) = 0 /\ Ones(ffn'.s2_valid) = 0
      BY <3>4 DEF Ones
    <3>6. 0 <= Hidden /\ 0 \in Nat
      BY <1>5
    <3>7. ffn'.rcnt = ffn'.wcnt + Ones(ffn'.s1_valid) + Ones(ffn'.s2_valid)
      BY <3>2, <3>5
    <3>8. /\ ffn'.rcnt \in Nat /\ ffn'.wcnt \in Nat /\ ffn'.rcnt <= Hidden
      BY <3>2, <3>6, Zenon
    <3>9. /\ ffn'.s1_valid \in BOOLEAN /\ ffn'.s2_valid \in BOOLEAN
          /\ ~ffn'.s1_valid /\ ~ffn'.s2_valid /\ ffn'.g_valid = ffn'.s2_valid
      BY <3>4, Zenon
    <3> QED
      BY <3>2, <3>7, <3>8, <3>9, Zenon DEF Counts
  <2>3. CASE ~(f.st = "WAIT1" /\ f.eng1.st = "IDLE")
    <3>1. /\ c.rcnt = f.rcnt /\ c.wcnt = f.wcnt
          /\ c.s1_valid = f.s1_valid /\ c.s1_addr = f.s1_addr
          /\ c.s2_valid = f.s2_valid /\ c.s2_addr = f.s2_addr
      BY <1>3, <1>7, <2>3, FfnControlFields
    <3>2. c.st # "GELU"
      BY <1>3, <1>7, <2>3, FfnControlFields DEF States
    <3> QED
      BY <1>4, <2>1, <3>1, <3>2 DEF Counts
  <2> QED
    BY <2>2, <2>3
<1> QED
  BY <1>6, <1>7

\* A table read a lane at a time.
LEMMA TableWord ==
  ASSUME NEW lut \in [0 .. Codes - 1 -> 0 .. Codes - 1], NEW w \in Word
  PROVE  [i \in Lanes |-> lut[w[i]]] \in Word
  BY DEF Word

\* An engine works only while it is waited for.
LEMMA WaitedFor ==
  ASSUME FfnEdge, FfnTyped(ffn)
  PROVE  /\ ffn'.eng1.st # "IDLE" => ffn'.st = "WAIT1"
         /\ ffn'.eng2.st # "IDLE" => ffn'.st = "WAIT2"
<1>1. PICK c : c = FfnControl(ffn, slave.start)
  OBVIOUS
<1>2. PICK f : f = ffn
  OBVIOUS
<1>3. /\ IsFfn(f) /\ f.st \in States /\ EngineTyped(f.eng1, Dim1) /\ EngineTyped(f.eng2, Dim2)
      /\ f.eng1.st # "IDLE" => f.st = "WAIT1"
      /\ f.eng2.st # "IDLE" => f.st = "WAIT2"
  BY <1>2 DEF FfnTyped
<1>4. /\ ffn'.eng1 = EngineEdge(f.eng1, Dim1, Port1) /\ ffn'.eng2 = EngineEdge(f.eng2, Dim2, Port2)
      /\ ffn'.st = c.st
  BY <1>1, <1>2, FfnFields
<1>5. Port1.start = (f.st = "RUN1") /\ Port2.start = (f.st = "RUN2")
  BY <1>2, PortFields
<1>6. f.eng1.st = "IDLE" /\ f.st # "RUN1" => ffn'.eng1.st = "IDLE"
  BY <1>3, <1>4, <1>5, EngineRests
<1>7. f.eng2.st = "IDLE" /\ f.st # "RUN2" => ffn'.eng2.st = "IDLE"
  BY <1>3, <1>4, <1>5, EngineRests
<1>8. /\ f.st = "RUN1" => c.st = "WAIT1"
      /\ f.st = "WAIT1" => c.st = IF f.eng1.st # "IDLE" THEN "WAIT1" ELSE "GELU"
      /\ f.st = "RUN2" => c.st = "WAIT2"
      /\ f.st = "WAIT2" => c.st = IF f.eng2.st = "IDLE" THEN "IDLE" ELSE "WAIT2"
  BY <1>1, <1>2, <1>3, FfnControlFields
<1> QED
  BY <1>3, <1>4, <1>6, <1>7, <1>8

\* An edge keeps the accelerator's types, whatever the bus writes to it.
LEMMA FfnKeepsType ==
  ASSUME FfnEdge, FfnTyped(ffn), SlaveTyped(slave), BusTyped
  PROVE  FfnTyped(ffn')
<1>1. PICK c : c = FfnControl(ffn, slave.start)
  OBVIOUS
<1>2. PICK f : f = ffn
  OBVIOUS
<1>3. /\ IsFfn(f) /\ f.st \in States /\ EngineTyped(f.eng1, Dim1) /\ EngineTyped(f.eng2, Dim2)
      /\ f.lut \in [0 .. Codes - 1 -> 0 .. Codes - 1] /\ f.g_q \in Word
  BY <1>2 DEF FfnTyped
<1>4. /\ IsFfn(ffn')
      /\ ffn'.eng1 = EngineEdge(f.eng1, Dim1, Port1) /\ ffn'.eng2 = EngineEdge(f.eng2, Dim2, Port2)
      /\ ffn'.lut = Put(f.lut, Codes, Loads(Targets.lut), BufAddr, Lane0)
      /\ ffn'.g_q = [i \in Lanes |-> f.lut[f.eng1.c_q[i]]]
      /\ ffn'.st = c.st
  BY <1>1, <1>2, FfnFields
<1>5. PortsTyped(Port1) /\ PortsTyped(Port2)
  BY PortsKeepType
<1>6. EngineTyped(ffn'.eng1, Dim1) /\ EngineTyped(ffn'.eng2, Dim2)
  BY <1>3, <1>4, <1>5, Shapes, EngineKeepsType
<1>7. ffn'.lut \in [0 .. Codes - 1 -> 0 .. Codes - 1]
  <2>1. Loads(Targets.lut) => Lane0 \in 0 .. Codes - 1 /\ BufAddr \in Nat
    <3> SUFFICES ASSUME Loads(Targets.lut)
                 PROVE  Lane0 \in 0 .. Codes - 1 /\ BufAddr \in Nat
      OBVIOUS
    <3>1. Writing /\ InData /\ bus.dat \in Word
      BY DEF Loads, BusTyped
    <3>2. 0 \in Lanes
      BY EngineAssumption DEF Lanes
    <3> QED
      BY <3>1, <3>2, BufNat DEF Lane0, Word
  <2>2. PICK n \in Nat \ {0} : n = Codes
    BY Shapes
  <2>3. Put(f.lut, n, Loads(Targets.lut), BufAddr, Lane0) \in [0 .. n - 1 -> 0 .. Codes - 1]
    BY <1>3, <2>1, <2>2, PortWrite
  <2> QED
    BY <1>4, <2>2, <2>3
<1>8. ffn'.g_q \in Word
  BY <1>3, <1>4, TableWord DEF EngineTyped
<1>9. ffn'.st \in States
  BY <1>1, <1>2, <1>3, <1>4, FfnControlFields DEF States
<1> QED
  BY <1>4, <1>6, <1>7, <1>8, <1>9, CountsKeep, WaitedFor DEF FfnTyped

\* A register takes a number, and all of it when its width allows.
LEMMA Fitted ==
  ASSUME NEW a \in Nat, NEW d \in Nat
  PROVE  /\ Fits(a, d) \in Nat
         /\ a = 1 /\ d < 4 => Fits(a, d) = d
         /\ a = 2 /\ d < PTR_SPAN => Fits(a, d) = d
         /\ a \in {4, 6} /\ d < SHIFT_SPAN => Fits(a, d) = d
         /\ a \in {3, 5} => Fits(a, d) = d
<1>1. d % 4 \in Nat /\ d % PTR_SPAN \in Nat /\ d % SHIFT_SPAN \in Nat
  BY DEF PTR_SPAN, SHIFT_SPAN
<1>2. /\ d < 4 => d % 4 = d
      /\ d < PTR_SPAN => d % PTR_SPAN = d
      /\ d < SHIFT_SPAN => d % SHIFT_SPAN = d
  BY DEF PTR_SPAN, SHIFT_SPAN
<1>3. /\ a = 1 => Fits(a, d) = d % 4
      /\ a = 2 => Fits(a, d) = d % PTR_SPAN
      /\ a \in {4, 6} => Fits(a, d) = d % SHIFT_SPAN
      /\ a \notin {1, 2, 4, 6} => Fits(a, d) = d
  BY DEF Fits
<1> QED
  BY <1>1, <1>2, <1>3

\* And so does the register file.
LEMMA SlaveKeepsType ==
  ASSUME SlaveEdge, SlaveTyped(slave), BusTyped
  PROVE  SlaveTyped(slave')
<1>1. PICK s, low : s = slave /\ low = [s EXCEPT !.start = FALSE]
  OBVIOUS
<1>2. SlaveTyped(s) /\ SlaveTyped(low)
  BY <1>1 DEF SlaveTyped
<1>3. CASE ~Writing \/ InData
  BY <1>1, <1>2, <1>3 DEF SlaveEdge
<1>4. CASE Writing /\ ~InData
  <2>1. PICK dat \in Nat, go \in BOOLEAN : dat = Fits(bus.adr, bus.dat) /\ go = (bus.dat % 2 = 1)
    <3>1. bus.adr \in Nat /\ bus.dat \in Nat
      BY <1>4 DEF BusTyped
    <3> QED
      BY <3>1, Fitted
  <2>2. slave' = CASE bus.adr = 0 -> [s EXCEPT !.start = go]
                    [] bus.adr = 1 -> [low EXCEPT !.target = dat]
                    [] bus.adr = 2 -> [low EXCEPT !.ptr = dat]
                    [] bus.adr = 3 -> [low EXCEPT !.mult1 = dat]
                    [] bus.adr = 4 -> [low EXCEPT !.shift1 = dat]
                    [] bus.adr = 5 -> [low EXCEPT !.mult2 = dat]
                    [] bus.adr = 6 -> [low EXCEPT !.shift2 = dat]
                    [] OTHER -> low
    BY <1>1, <1>4, <2>1 DEF SlaveEdge
  <2> QED
    BY <1>2, <2>1, <2>2 DEF SlaveTyped
<1> QED
  BY <1>3, <1>4

\* The hidden word that the tables make of a word of the first engine.
Gelu(f, w) == [i \in Lanes |-> f.lut[f.eng1.cmem[w][i]]]
Copied(f, n) == \A w \in 0 .. n - 1 : f.eng2.amem[w] = Gelu(f, w)

\* A word is read, looked up and written, each on an edge of its own.
Copying(f) ==
  /\ Copied(f, f.wcnt)
  /\ f.s1_valid => f.s1_addr = f.rcnt - 1 /\ f.eng1.c_q = f.eng1.cmem[f.rcnt - 1]
  /\ f.s2_valid => f.s2_addr = f.wcnt /\ f.g_q = Gelu(f, f.wcnt)

\* What has been computed, of the operands in the memories, in each state.
Hid(f, s) == \A w \in 0 .. Hidden - 1 : Exact(f.eng1, Dim1, s.mult1, s.shift1, w)
Outcome(f, s) == \A w \in 0 .. c_depth(Dim2) - 1 : Exact(f.eng2, Dim2, s.mult2, s.shift2, w)
Pipe(f, s) ==
  /\ f.st = "WAIT1" => EngineRuns(f.eng1, Dim1, s.mult1, s.shift1)
  /\ f.st \in {"GELU", "RUN2", "WAIT2", "IDLE"} => Hid(f, s)
  /\ f.st = "GELU" => Copying(f)
  /\ f.st \in {"RUN2", "WAIT2", "IDLE"} => Copied(f, Hidden)
  /\ f.st = "WAIT2" => EngineRuns(f.eng2, Dim2, s.mult2, s.shift2)
  /\ f.st = "IDLE" => Outcome(f, s)

\* An edge that loads nothing into the memories.
Spared == ~(Writing /\ InData)

\* On such an edge the operands and the table stay, and each engine takes a step of its own.
LEMMA SparedEdge ==
  ASSUME FfnEdge, FfnTyped(ffn), SlaveTyped(slave), BusTyped, Spared
  PROVE  /\ Steps(Dim1, ffn.eng1, Port1, ffn'.eng1)
         /\ ffn.st # "GELU" => Steps(Dim2, ffn.eng2, Port2, ffn'.eng2)
         /\ ffn'.lut = ffn.lut /\ ffn'.eng1.amem = ffn.eng1.amem
         /\ ffn'.eng1.bmem = ffn.eng1.bmem /\ ffn'.eng2.bmem = ffn.eng2.bmem
         /\ ffn.st # "GELU" => ffn'.eng2.amem = ffn.eng2.amem
<1>1. PICK c, d : c = FfnControl(ffn, slave.start) /\ d = Control(ffn.eng2, Dim2, Port2.start)
  OBVIOUS
<1>2. /\ ffn'.eng1 = EngineEdge(ffn.eng1, Dim1, Port1) /\ ffn'.eng2 = EngineEdge(ffn.eng2, Dim2, Port2)
      /\ ffn'.lut = Put(ffn.lut, Codes, Loads(Targets.lut), BufAddr, Lane0)
  BY <1>1, FfnFields
<1>3. /\ EngineTyped(ffn.eng1, Dim1) /\ EngineTyped(ffn.eng2, Dim2) /\ Counts(ffn)
      /\ PortsTyped(Port1) /\ PortsTyped(Port2)
  BY PortsKeepType DEF FfnTyped
<1>4. \A target : ~Loads(target)
  BY DEF Loads, Spared
<1>5. ~Port1.a_we /\ ~Port1.b_we /\ ~Port2.b_we
  BY <1>4, PortFields
<1>6. ffn.st # "GELU" => ~Port2.a_we
  BY <1>3, PortFields DEF Counts, GeluWrites
<1>7. Steps(Dim1, ffn.eng1, Port1, ffn'.eng1)
  BY <1>2, <1>3, <1>5, Shapes DEF Steps
<1>8. ffn.st # "GELU" => Steps(Dim2, ffn.eng2, Port2, ffn'.eng2)
  BY <1>2, <1>3, <1>5, <1>6, Shapes DEF Steps
<1>9. ffn'.lut = ffn.lut
  BY <1>2, <1>4 DEF Put
<1>10. ffn'.eng1.amem = ffn.eng1.amem /\ ffn'.eng1.bmem = ffn.eng1.bmem
  BY <1>7, StepFields
<1>11. ffn.st # "GELU" => ffn'.eng2.amem = ffn.eng2.amem
  BY <1>8, StepFields
<1>12. ffn'.eng2.bmem = ffn.eng2.bmem
  <2>1. IsEngine(d)
    BY <1>1, <1>3, Shapes, ControlTyped
  <2>2. ffn'.eng2.bmem = Put(ffn.eng2.bmem, b_depth(Dim2), Port2.b_we, Port2.b_waddr, Port2.b_wdata)
    BY <1>1, <1>2, <2>1, EdgeFields
  <2> QED
    BY <1>5, <2>2 DEF Put
<1> QED
  BY <1>7, <1>8, <1>9, <1>10, <1>11, <1>12

\* An engine that is neither working nor started keeps its result.
LEMMA BothRest ==
  ASSUME FfnEdge, FfnTyped(ffn), SlaveTyped(slave), BusTyped, Spared
  PROVE  /\ ffn.eng1.st = "IDLE" /\ ffn.st # "RUN1" => ffn'.eng1.cmem = ffn.eng1.cmem
         /\ ffn.eng2.st = "IDLE" /\ ffn.st # "RUN2" => ffn'.eng2.cmem = ffn.eng2.cmem
<1>1. PICK c : c = FfnControl(ffn, slave.start)
  OBVIOUS
<1>2. /\ ffn'.eng1 = EngineEdge(ffn.eng1, Dim1, Port1) /\ ffn'.eng2 = EngineEdge(ffn.eng2, Dim2, Port2)
  BY <1>1, FfnFields
<1>3. EngineTyped(ffn.eng1, Dim1) /\ EngineTyped(ffn.eng2, Dim2)
  BY DEF FfnTyped
<1>4. Port1.start = (ffn.st = "RUN1") /\ Port2.start = (ffn.st = "RUN2")
  BY PortFields
<1>5. ASSUME ffn.eng1.st = "IDLE", ffn.st # "RUN1" PROVE ffn'.eng1.cmem = ffn.eng1.cmem
  <2>1. ~Port1.start
    BY <1>4, <1>5
  <2> QED
    BY <1>2, <1>3, <1>5, <2>1, EngineRests
<1>6. ASSUME ffn.eng2.st = "IDLE", ffn.st # "RUN2" PROVE ffn'.eng2.cmem = ffn.eng2.cmem
  <2>1. ~Port2.start
    BY <1>4, <1>6
  <2> QED
    BY <1>2, <1>3, <1>6, <2>1, EngineRests
<1> QED
  BY <1>5, <1>6

\* Hence what the first engine computed stays, and so does the copy, and the second's result.
LEMMA HidStays ==
  ASSUME NEW f, NEW g, NEW s, g.eng1.amem = f.eng1.amem, g.eng1.bmem = f.eng1.bmem,
         g.eng1.cmem = f.eng1.cmem
  PROVE  Hid(f, s) => Hid(g, s)
BY DEF Hid, Exact

LEMMA CopiedStays ==
  ASSUME NEW f, NEW g, NEW n, g.lut = f.lut, g.eng1.cmem = f.eng1.cmem,
         g.eng2.amem = f.eng2.amem
  PROVE  Copied(f, n) => Copied(g, n)
BY DEF Copied, Gelu

LEMMA OutcomeStays ==
  ASSUME NEW f, NEW g, NEW s, g.eng2.amem = f.eng2.amem, g.eng2.bmem = f.eng2.bmem,
         g.eng2.cmem = f.eng2.cmem
  PROVE  Outcome(f, s) => Outcome(g, s)
BY DEF Outcome, Exact

\* The copy goes on, each word to its own place, until all of them are there.
LEMMA CopyingKeeps ==
  ASSUME FfnEdge, FfnTyped(ffn), SlaveTyped(slave), BusTyped, Spared, ffn.st = "GELU",
         Copying(ffn)
  PROVE  /\ ffn'.st = "GELU" => Copying(ffn')
         /\ ffn'.st = "RUN2" => Copied(ffn', Hidden)
<1>1. PICK c, d, e : /\ c = FfnControl(ffn, slave.start) /\ d = Control(ffn.eng2, Dim2, Port2.start)
                     /\ e = Control(ffn.eng1, Dim1, Port1.start)
  OBVIOUS
<1>2. PICK f, g : f = ffn /\ g = ffn'
  OBVIOUS
<1>3. PICK h \in Nat \ {0} : h = Hidden
  BY Shapes
<1>4. /\ IsFfn(f) /\ f.st = "GELU" /\ f.st \in States /\ Counts(f) /\ Copying(f)
      /\ EngineTyped(f.eng1, Dim1) /\ EngineTyped(f.eng2, Dim2) /\ f.eng1.st = "IDLE"
      /\ f.eng1.st = "IDLE"
  BY <1>2 DEF FfnTyped
<1>5. /\ f.rcnt \in Nat /\ f.wcnt \in Nat /\ f.rcnt <= h
      /\ f.rcnt = f.wcnt + Ones(f.s1_valid) + Ones(f.s2_valid)
      /\ f.s1_valid \in BOOLEAN /\ f.s2_valid \in BOOLEAN /\ f.g_valid = f.s2_valid
  BY <1>3, <1>4 DEF Counts
<1>6. /\ c.st = (IF f.wcnt = h THEN "RUN2" ELSE "GELU")
      /\ c.rcnt = (IF f.rcnt < h THEN f.rcnt + 1 ELSE f.rcnt)
      /\ c.wcnt = (IF f.s2_valid THEN f.wcnt + 1 ELSE f.wcnt)
      /\ c.s1_valid = (f.rcnt < h) /\ c.s1_addr = f.rcnt % h
      /\ c.s2_valid = f.s1_valid /\ c.s2_addr = f.s1_addr
  BY <1>1, <1>2, <1>3, <1>4, <1>5, FfnControlFields DEF GeluWrites
<1>7. /\ g.eng1 = EngineEdge(f.eng1, Dim1, Port1) /\ g.eng2 = EngineEdge(f.eng2, Dim2, Port2)
      /\ g.g_q = [i \in Lanes |-> f.lut[f.eng1.c_q[i]]]
      /\ g.st = c.st /\ g.rcnt = c.rcnt /\ g.wcnt = c.wcnt
      /\ g.s1_valid = c.s1_valid /\ g.s1_addr = c.s1_addr
      /\ g.s2_valid = c.s2_valid /\ g.s2_addr = c.s2_addr
  BY <1>1, <1>2, FfnFields
<1>8. g.lut = f.lut /\ g.eng1.cmem = f.eng1.cmem
  BY <1>2, <1>4, SparedEdge, BothRest
<1>9. \A w : Gelu(g, w) = Gelu(f, w)
  BY <1>8 DEF Gelu
<1>10. g.eng1.c_q = f.eng1.cmem[f.rcnt % h]
  <2>1. Steps(Dim1, f.eng1, Port1, g.eng1)
    BY <1>2, SparedEdge
  <2>2. g.eng1.c_q = At(f.eng1.cmem, c_depth(Dim1), Port1.c_raddr)
    BY <1>1, <1>2, <2>1, StepFields
  <2>3. Port1.c_raddr = f.rcnt
    BY <1>2, <1>4, PortFields
  <2> QED
    BY <1>3, <2>2, <2>3 DEF At, Hidden
<1>11. g.eng2.amem = IF f.s2_valid THEN [f.eng2.amem EXCEPT ![f.s2_addr % h] = f.g_q]
                     ELSE f.eng2.amem
  <2>1. IsEngine(d)
    BY <1>1, <1>2, <1>4, Shapes, ControlTyped
  <2>2. g.eng2.amem = Put(f.eng2.amem, a_depth(Dim2), Port2.a_we, Port2.a_waddr, Port2.a_wdata)
    BY <1>1, <1>2, <1>7, <2>1, EdgeFields
  <2>3. Port2.a_we = GeluWrites(f) /\ Port2.a_waddr = f.s2_addr /\ Port2.a_wdata = f.g_q
    BY <1>2, PortFields
  <2>4. GeluWrites(f) = f.s2_valid
    BY <1>5 DEF GeluWrites
  <2>5. a_depth(Dim2) = h
    BY <1>3, Shapes
  <2>6. Port2.a_we = f.s2_valid
    BY <2>3, <2>4
  <2> QED
    BY <2>2, <2>3, <2>5, <2>6 DEF Put
<1>12. f.eng2.amem \in [0 .. h - 1 -> Word]
  BY <1>3, <1>4, Shapes DEF EngineTyped
<1>13. /\ \A w \in 0 .. f.wcnt - 1 : f.eng2.amem[w] = Gelu(f, w)
       /\ f.s1_valid => f.s1_addr = f.rcnt - 1 /\ f.eng1.c_q = f.eng1.cmem[f.rcnt - 1]
       /\ f.s2_valid => f.s2_addr = f.wcnt /\ f.g_q = Gelu(f, f.wcnt)
  BY <1>4 DEF Copying, Copied
<1>14. PICK one \in {0, 1} : one = Ones(f.s1_valid) /\ (f.s1_valid => one = 1)
  BY DEF Ones
<1>15. /\ ~f.s2_valid => f.rcnt = f.wcnt + one
       /\ f.s2_valid => f.wcnt < h /\ f.rcnt = f.wcnt + 1 + one
  BY <1>3, <1>5, <1>14 DEF Ones
<1>19. \/ c.wcnt = f.wcnt /\ f.rcnt = f.wcnt + one
       \/ c.wcnt = f.wcnt + 1 /\ f.rcnt = f.wcnt + 1 + one
  <2>1. c.wcnt = IF f.s2_valid THEN f.wcnt + 1 ELSE f.wcnt
    BY <1>6
  <2> QED
    BY <1>15, <2>1
<1>16. Copied(g, c.wcnt)
  <2> SUFFICES ASSUME NEW w \in 0 .. c.wcnt - 1 PROVE g.eng2.amem[w] = Gelu(f, w)
    BY <1>9 DEF Copied
  <2>1. CASE ~f.s2_valid
    BY <1>6, <1>11, <1>13, <2>1
  <2>2. CASE f.s2_valid
    <3>1. c.wcnt = f.wcnt + 1 /\ f.s2_addr = f.wcnt /\ f.wcnt < h
      BY <1>6, <1>13, <1>15, <2>2
    <3>2. f.wcnt % h = f.wcnt
      BY <1>3, <1>5, <3>1, PortPlace
    <3>3. g.eng2.amem = [f.eng2.amem EXCEPT ![f.wcnt] = f.g_q]
      BY <1>11, <2>2, <3>1, <3>2
    <3>4. w \in 0 .. h - 1 /\ (w = f.wcnt \/ w \in 0 .. f.wcnt - 1)
      BY <1>3, <1>5, <3>1
    <3>5. CASE w = f.wcnt
      BY <1>12, <1>13, <2>2, <3>3, <3>4, <3>5
    <3>6. CASE w # f.wcnt
      BY <1>12, <1>13, <3>3, <3>4, <3>6
    <3> QED
      BY <3>5, <3>6
  <2> QED
    BY <2>1, <2>2
<1>17. CASE f.wcnt = h
  <2>1. g.st = "RUN2"
    BY <1>6, <1>7, <1>17
  <2>2. ~f.s2_valid /\ c.wcnt = h
    BY <1>6, <1>15, <1>17
  <2> QED
    BY <1>2, <1>3, <1>16, <2>1, <2>2
<1>18. CASE f.wcnt # h
  <2>1. g.st = "GELU"
    BY <1>6, <1>7, <1>18
  <2>2. Copied(g, g.wcnt)
    BY <1>7, <1>16
  <2>3. PICK reading : reading = (f.rcnt < h)
    OBVIOUS
  <2>4. g.s1_valid = reading
    BY <1>6, <1>7, <2>3
  <2>5. reading => g.s1_addr = g.rcnt - 1 /\ g.eng1.c_q = g.eng1.cmem[g.rcnt - 1]
    <3> SUFFICES ASSUME f.rcnt < h
                 PROVE  g.s1_addr = g.rcnt - 1 /\ g.eng1.c_q = g.eng1.cmem[g.rcnt - 1]
      BY <2>3
    <3>1. f.rcnt % h = f.rcnt /\ g.rcnt = f.rcnt + 1 /\ (f.rcnt + 1) - 1 = f.rcnt
      BY <1>3, <1>5, <1>6, <1>7, PortPlace
    <3> QED
      BY <1>6, <1>7, <1>8, <1>10, <3>1
  <2>6. g.s2_valid = f.s1_valid /\ g.s2_addr = f.s1_addr
    BY <1>6, <1>7
  <2>7. f.s1_valid => g.s2_addr = g.wcnt /\ g.g_q = Gelu(g, g.wcnt)
    <3> SUFFICES ASSUME f.s1_valid PROVE g.s2_addr = g.wcnt /\ g.g_q = Gelu(g, g.wcnt)
      OBVIOUS
    <3>1. one = 1
      BY <1>14
    <3>2. f.rcnt - 1 = c.wcnt
      <4>1. f.wcnt \in Nat
        BY <1>5
      <4> QED
        BY <1>19, <3>1, <4>1
    <3>3. f.eng1.c_q = f.eng1.cmem[c.wcnt] /\ f.s1_addr = c.wcnt
      BY <1>13, <3>2
    <3>4. g.g_q = Gelu(f, c.wcnt)
      BY <1>7, <3>3 DEF Gelu
    <3> QED
      BY <1>7, <1>9, <2>6, <3>3, <3>4
  <2>8. Copying(g)
    BY <2>2, <2>4, <2>5, <2>6, <2>7 DEF Copying
  <2> QED
    BY <1>2, <2>1, <2>8
<1> QED
  BY <1>17, <1>18

\* The scalars of a plan.
SameScalars(s, t) ==
  t.mult1 = s.mult1 /\ t.shift1 = s.shift1 /\ t.mult2 = s.mult2 /\ t.shift2 = s.shift2

LEMMA PipeScalars ==
  ASSUME NEW f, NEW s, NEW t, SameScalars(s, t)
  PROVE  Pipe(f, s) => Pipe(f, t)
BY DEF Pipe, Hid, Outcome, SameScalars

\* Nothing starts a pass at rest, and one that has started goes on to its end, while nothing
\* is loaded.
LEMMA PipeKeeps ==
  ASSUME FfnEdge, FfnTyped(ffn), SlaveTyped(slave), BusTyped, Spared,
         ffn.st = "IDLE" => ~slave.start, Pipe(ffn, slave)
  PROVE  Pipe(ffn', slave) /\ (ffn.st = "IDLE" => ffn'.st = "IDLE")
<1>1. PICK c : c = FfnControl(ffn, slave.start)
  OBVIOUS
<1>2. PICK f, g, s : f = ffn /\ g = ffn' /\ s = slave
  OBVIOUS
<1>3. /\ IsFfn(f) /\ f.st \in States
      /\ EngineTyped(f.eng1, Dim1) /\ EngineTyped(f.eng2, Dim2)
      /\ f.eng1.st # "IDLE" => f.st = "WAIT1"
      /\ f.eng2.st # "IDLE" => f.st = "WAIT2"
  BY <1>2 DEF FfnTyped
<1>4. g.st = c.st
  BY <1>1, <1>2, FfnFields
<1>5. /\ Steps(Dim1, f.eng1, Port1, g.eng1)
      /\ f.st # "GELU" => Steps(Dim2, f.eng2, Port2, g.eng2) /\ g.eng2.amem = f.eng2.amem
      /\ g.lut = f.lut /\ g.eng1.amem = f.eng1.amem
      /\ g.eng1.bmem = f.eng1.bmem /\ g.eng2.bmem = f.eng2.bmem
  BY <1>2, SparedEdge
<1>6. /\ f.eng1.st = "IDLE" /\ f.st # "RUN1" => g.eng1.cmem = f.eng1.cmem
      /\ f.eng2.st = "IDLE" /\ f.st # "RUN2" => g.eng2.cmem = f.eng2.cmem
  BY <1>2, BothRest
<1>7. /\ Port1.mult = s.mult1 /\ Port1.shift = s.shift1 /\ Port2.mult = s.mult2
      /\ Port2.shift = s.shift2
      /\ Port1.start = (f.st = "RUN1") /\ Port2.start = (f.st = "RUN2")
  BY <1>2, PortFields
<1>8. Pipe(f, s)
  BY <1>2
<1>9. /\ f.st = "IDLE" => c.st = "IDLE"
      /\ f.st = "RUN1" => c.st = "WAIT1"
      /\ f.st = "WAIT1" => c.st = IF f.eng1.st # "IDLE" THEN "WAIT1" ELSE "GELU"
      /\ f.st = "RUN2" => c.st = "WAIT2"
      /\ f.st = "WAIT2" => c.st = IF f.eng2.st = "IDLE" THEN "IDLE" ELSE "WAIT2"
      /\ f.st = "GELU" => c.st = IF f.wcnt = Hidden THEN "RUN2" ELSE "GELU"
  <2>1. PICK begin : begin = s.start /\ (f.st = "IDLE" => ~begin)
    BY <1>2
  <2>2. c = FfnControl(f, begin)
    BY <1>1, <1>2, <2>1
  <2> QED
    BY <1>3, <2>1, <2>2, FfnControlFields
<1>10. f.st \in {"GELU", "RUN2", "WAIT2", "IDLE"} => Hid(g, s)
  BY <1>3, <1>5, <1>6, <1>8, HidStays DEF Pipe
<1>11. f.st \in {"RUN2", "WAIT2", "IDLE"} => Copied(g, Hidden)
  <2> SUFFICES ASSUME f.st \in {"RUN2", "WAIT2", "IDLE"} PROVE Copied(g, Hidden)
    OBVIOUS
  <2>1. g.lut = f.lut /\ g.eng1.cmem = f.eng1.cmem /\ g.eng2.amem = f.eng2.amem
    BY <1>3, <1>5, <1>6
  <2>2. Copied(f, Hidden)
    BY <1>8 DEF Pipe
  <2> QED
    BY <2>1, <2>2, CopiedStays
<1>12. CASE f.st = "IDLE"
  <2>1. Outcome(g, s)
    <3>1. Outcome(f, s)
      BY <1>8, <1>12 DEF Pipe
    <3>2. g.eng2.amem = f.eng2.amem /\ g.eng2.bmem = f.eng2.bmem /\ g.eng2.cmem = f.eng2.cmem
      BY <1>3, <1>5, <1>6, <1>12
    <3> QED
      BY <3>1, <3>2, OutcomeStays
  <2> QED
    BY <1>2, <1>4, <1>9, <1>10, <1>11, <1>12, <2>1 DEF Pipe
<1>13. CASE f.st = "RUN1"
  <2>1. PICK p : p = Port1
    OBVIOUS
  <2>2. /\ p.start = (f.st = "RUN1") /\ p.mult = s.mult1 /\ p.shift = s.shift1
        /\ Steps(Dim1, f.eng1, p, g.eng1) /\ f.eng1.st = "IDLE"
    BY <1>3, <1>5, <1>7, <1>13, <2>1
  <2>3. p.start => EngineRuns(g.eng1, Dim1, p.mult, p.shift)
    BY <2>2, EngineStarts
  <2>4. EngineRuns(g.eng1, Dim1, s.mult1, s.shift1)
    BY <1>13, <2>2, <2>3
  <2> QED
    BY <1>2, <1>4, <1>9, <1>13, <2>4 DEF Pipe
<1>14. CASE f.st = "WAIT1" /\ f.eng1.st # "IDLE"
  <2>1. EngineRuns(f.eng1, Dim1, Port1.mult, Port1.shift)
    BY <1>7, <1>8, <1>14 DEF Pipe
  <2>2. EngineRuns(g.eng1, Dim1, Port1.mult, Port1.shift)
    BY <1>5, <1>14, <2>1, EngineAdvances
  <2> QED
    BY <1>2, <1>4, <1>7, <1>9, <1>14, <2>2 DEF Pipe
<1>15. CASE f.st = "WAIT1" /\ f.eng1.st = "IDLE"
  <2>1. EngineRuns(f.eng1, Dim1, s.mult1, s.shift1)
    BY <1>8, <1>15 DEF Pipe
  <2>2. Hid(f, s)
    BY <1>15, <2>1 DEF EngineRuns, Hid, Hidden
  <2>3. Hid(g, s)
    BY <1>5, <1>6, <1>15, <2>2, HidStays
  <2>4. /\ c.rcnt = 0 /\ c.wcnt = 0 /\ ~c.s1_valid /\ ~c.s2_valid
    BY <1>1, <1>2, <1>3, <1>15, FfnControlFields
  <2>5. g.wcnt = 0 /\ ~g.s1_valid /\ ~g.s2_valid
    BY <1>1, <1>2, <2>4, FfnFields
  <2>6. Copying(g)
    BY <2>5 DEF Copying, Copied
  <2> QED
    BY <1>2, <1>4, <1>9, <1>15, <2>3, <2>6 DEF Pipe
<1>16. CASE f.st = "GELU"
  <2>1. Copying(f)
    BY <1>8, <1>16 DEF Pipe
  <2>2. (g.st = "GELU" => Copying(g)) /\ (g.st = "RUN2" => Copied(g, Hidden))
    BY <1>2, <1>16, <2>1, CopyingKeeps
  <2> QED
    BY <1>2, <1>4, <1>9, <1>10, <1>16, <2>2 DEF Pipe
<1>17. CASE f.st = "RUN2"
  <2>1. PICK p : p = Port2
    OBVIOUS
  <2>2. /\ p.start = (f.st = "RUN2") /\ p.mult = s.mult2 /\ p.shift = s.shift2
        /\ Steps(Dim2, f.eng2, p, g.eng2) /\ f.eng2.st = "IDLE"
    BY <1>3, <1>5, <1>7, <1>17, <2>1
  <2>3. p.start => EngineRuns(g.eng2, Dim2, p.mult, p.shift)
    BY <2>2, EngineStarts
  <2>4. EngineRuns(g.eng2, Dim2, s.mult2, s.shift2)
    BY <1>17, <2>2, <2>3
  <2> QED
    BY <1>2, <1>4, <1>9, <1>10, <1>11, <1>17, <2>4 DEF Pipe
<1>18. CASE f.st = "WAIT2" /\ f.eng2.st # "IDLE"
  <2>1. EngineRuns(f.eng2, Dim2, Port2.mult, Port2.shift)
    BY <1>7, <1>8, <1>18 DEF Pipe
  <2>2. EngineRuns(g.eng2, Dim2, Port2.mult, Port2.shift)
    BY <1>5, <1>18, <2>1, EngineAdvances
  <2> QED
    BY <1>2, <1>4, <1>7, <1>9, <1>10, <1>11, <1>18, <2>2 DEF Pipe
<1>19. CASE f.st = "WAIT2" /\ f.eng2.st = "IDLE"
  <2>1. EngineRuns(f.eng2, Dim2, s.mult2, s.shift2)
    BY <1>8, <1>19 DEF Pipe
  <2>2. Outcome(f, s)
    BY <1>19, <2>1 DEF EngineRuns, Outcome
  <2>3. Outcome(g, s)
    BY <1>5, <1>6, <1>19, <2>2, OutcomeStays
  <2> QED
    BY <1>2, <1>4, <1>9, <1>10, <1>11, <1>19, <2>3 DEF Pipe
<1> QED
  BY <1>3, <1>12, <1>13, <1>14, <1>15, <1>16, <1>17, <1>18, <1>19 DEF States

\* A start begins a pass: nothing of it is computed yet.
LEMMA PipeStarts ==
  ASSUME FfnEdge, FfnTyped(ffn), ffn.st = "IDLE"
  PROVE  /\ slave.start => ffn'.st = "RUN1" /\ \A s : Pipe(ffn', s)
         /\ ~slave.start => ffn'.st = "IDLE"
<1>1. PICK begin, c : begin = slave.start /\ c = FfnControl(ffn, begin)
  OBVIOUS
<1>2. ffn'.st = c.st
  BY <1>1, FfnFields
<1>3. c.st = IF begin THEN "RUN1" ELSE "IDLE"
  BY <1>1, FfnControlFields DEF FfnTyped
<1>4. ffn'.st = "RUN1" => \A s : Pipe(ffn', s)
  BY DEF Pipe
<1> QED
  BY <1>1, <1>2, <1>3, <1>4

-----------------------------------------------------------------------------
(* What the accelerator has computed is what the golden model computes.      *)

\* A matrix in a memory by its tiles of rows, or of columns.
RowsPacked(mem, a, rows, cols) ==
  \A w \in 0 .. Tiles(rows) * cols - 1 : \A i \in Lanes :
    mem[w][i] = Code(a[<<(w \div cols) * TILE + i, w % cols>>])
ColsPacked(mem, a, rows, cols) ==
  \A w \in 0 .. rows * Tiles(cols) - 1 : \A j \in Lanes :
    mem[w][j] = Code(a[<<w \div Tiles(cols), (w % Tiles(cols)) * TILE + j>>])

\* The golden model's product of a and b, requantized.
Golden(a, b, d, mult, shift) == requant(int_matmul(a, b, d.m, d.k, d.n), mult, shift)

\* One element of a matrix.
LEMMA Element ==
  ASSUME NEW rows \in Nat, NEW cols \in Nat, NEW r \in 0 .. rows - 1, NEW c \in 0 .. cols - 1
  PROVE  <<r, c>> \in Cells(rows, cols) /\ \A a \in Matrices(rows, cols) : a[<<r, c>>] \in Int8
BY DEF Cells, Matrices

\* The row and the column of a lane of a word of the result.
LEMMA LanePlace ==
  ASSUME NEW d, Shape(d), NEW w \in 0 .. c_depth(d) - 1, NEW i \in Lanes
  PROVE  /\ w \div d.n \in 0 .. Tiles(d.m) - 1 /\ w % d.n \in 0 .. d.n - 1
         /\ (w % d.n) \div TILE \in 0 .. Tiles(d.n) - 1 /\ (w % d.n) % TILE \in Lanes
         /\ (((w % d.n) \div TILE) * TILE) + ((w % d.n) % TILE) = w % d.n
         /\ (w \div d.n) * TILE + i \in 0 .. d.m - 1
<1>0. PICK t \in Nat \ {0}, n \in Nat \ {0} : t = TILE /\ n = d.n
  BY EngineAssumption DEF Shape
<1>1. PICK tn, tm : t = TILE /\ n = d.n /\ tn = Tiles(n) /\ tm = Tiles(d.m)
  BY <1>0
<1>2. tn \in Nat /\ tn * t = n /\ tm \in Nat /\ tm * t = d.m
  BY <1>1, TilesCover DEF Shape
<1>3. PICK q, c : q = w \div n /\ c = w % n
  OBVIOUS
<1>4. w \in Nat /\ w <= tm * n - 1 /\ tm * n \in Nat
  BY <1>1, <1>2 DEF c_depth
<1>5. q \in Nat /\ c \in 0 .. n - 1 /\ w - n * q = c
  BY <1>1, <1>3, <1>4
<1>6. q < tm
  <2> SUFFICES ASSUME ~(q < tm) PROVE FALSE
    OBVIOUS
  <2>1. PICK k \in Nat : q = tm + k
    <3>1. q - tm \in Nat /\ q = tm + (q - tm)
      BY <1>2, <1>5
    <3> QED
      BY <3>1
  <2>2. n * q = tm * n + n * k /\ n * k \in Nat
    BY <1>1, <1>2, <2>1
  <2> QED
    BY <1>4, <1>5, <2>2
<1>7. PICK x, y : x = c \div t /\ y = c % t
  OBVIOUS
<1>8. x \in Nat /\ y \in 0 .. t - 1 /\ c - t * x = y
  BY <1>1, <1>5, <1>7
<1>9. x < tn
  <2> SUFFICES ASSUME ~(x < tn) PROVE FALSE
    OBVIOUS
  <2>1. PICK k \in Nat : x = tn + k
    <3>1. x - tn \in Nat /\ x = tn + (x - tn)
      BY <1>2, <1>8
    <3> QED
      BY <3>1
  <2>2. t * x = tn * t + t * k /\ t * k \in Nat /\ tn * t \in Nat
    BY <1>1, <1>2, <2>1
  <2> QED
    BY <1>2, <1>5, <1>8, <2>2
<1>10. x * t = t * x
  BY <1>1, <1>8
<1>11. x * t + y = c
  BY <1>1, <1>5, <1>8, <1>10
<1>12. q * t + i \in 0 .. tm * t - 1
  BY <1>1, <1>2, <1>5, <1>6, Within DEF Lanes
<1>13. /\ q \in 0 .. tm - 1 /\ c \in 0 .. n - 1 /\ x \in 0 .. tn - 1 /\ y \in 0 .. t - 1
       /\ x * t + y = c /\ q * t + i \in 0 .. d.m - 1
  BY <1>2, <1>5, <1>6, <1>8, <1>9, <1>11, <1>12
<1>14. /\ q = w \div d.n /\ c = w % d.n /\ x = (w % d.n) \div TILE /\ y = (w % d.n) % TILE
       /\ tm = Tiles(d.m) /\ tn = Tiles(d.n) /\ n = d.n /\ t = TILE /\ Lanes = 0 .. t - 1
  BY <1>1, <1>3, <1>7 DEF Lanes
<1>15. q \in 0 .. Tiles(d.m) - 1 /\ x \in 0 .. Tiles(d.n) - 1 /\ c \in 0 .. d.n - 1
  BY <1>13, <1>14
<1>16. y \in Lanes /\ x * TILE + y = c /\ q * TILE + i \in 0 .. d.m - 1
  BY <1>13, <1>14
<1> QED
  BY <1>14, <1>15, <1>16, Zenon

\* A result of the engine, of matrices packed in its memories, is the golden model's.
LEMMA MatrixProduct ==
  ASSUME NEW d, Shape(d), NEW a \in Matrices(d.m, d.k), NEW b \in Matrices(d.k, d.n),
         NEW amem, NEW bmem, RowsPacked(amem, a, d.m, d.k), ColsPacked(bmem, b, d.k, d.n),
         NEW mult \in Nat, NEW shift \in Nat \ {0},
         NEW w \in 0 .. c_depth(d) - 1, NEW i \in Lanes
  PROVE  Result(amem, bmem, d, mult, shift, w, i) =
           Code(Golden(a, b, d, mult, shift)[<<(w \div d.n) * TILE + i, w % d.n>>])
<1>1. PICK mi, nj, j, r, c :
        /\ mi = w \div d.n /\ c = w % d.n /\ nj = c \div TILE /\ j = c % TILE
        /\ r = mi * TILE + i
  OBVIOUS
<1>2. /\ mi \in 0 .. Tiles(d.m) - 1 /\ c \in 0 .. d.n - 1 /\ nj \in 0 .. Tiles(d.n) - 1
      /\ j \in Lanes /\ nj * TILE + j = c /\ r \in 0 .. d.m - 1
  BY <1>1, LanePlace
<1>3. PICK t : t = Products(amem, bmem, d, mi, nj, i, j)
  OBVIOUS
<1>4. PICK u : u = [k \in 0 .. d.k - 1 |-> a[<<r, k>>] * b[<<k, c>>]]
  OBVIOUS
<1>5. d.k \in Nat /\ d.m \in Nat /\ d.n \in Nat
  BY DEF Shape
<1>6. ASSUME NEW k \in 0 .. d.k - 1
      PROVE  /\ a[<<r, k>>] \in Int8 /\ b[<<k, c>>] \in Int8
             /\ Signed(amem[mi * d.k + k][i]) = a[<<r, k>>]
             /\ Signed(bmem[k * Tiles(d.n) + nj][j]) = b[<<k, c>>]
  <2>1. a[<<r, k>>] \in Int8 /\ b[<<k, c>>] \in Int8
    BY <1>2, <1>5, Element
  <2>2. PICK x : x = mi * d.k + k
    OBVIOUS
  <2>3. PICK dk \in Nat \ {0}, tm \in Nat, tn \in Nat \ {0} :
          dk = d.k /\ tm = Tiles(d.m) /\ tn = Tiles(d.n)
    BY Depths DEF Shape
  <2>4. mi * dk + k \in 0 .. tm * dk - 1 /\ mi * dk = dk * mi /\ mi \in Nat /\ k \in 0 .. dk - 1
    BY <1>2, <2>3, Within
  <2>5. x = dk * mi + k /\ x \in Nat
    BY <2>2, <2>3, <2>4
  <2>6. x \div dk = mi /\ x % dk = k
    BY <2>3, <2>4, <2>5, Remains
  <2>7. x \in 0 .. Tiles(d.m) * d.k - 1
    BY <2>2, <2>3, <2>4
  <2>8. amem[x][i] = Code(a[<<(x \div d.k) * TILE + i, x % d.k>>])
    BY <2>7 DEF RowsPacked
  <2>9. amem[x][i] = Code(a[<<r, k>>])
    BY <1>1, <2>3, <2>6, <2>8
  <2>10. PICK y : y = k * Tiles(d.n) + nj
    OBVIOUS
  <2>11. k * tn + nj \in 0 .. dk * tn - 1 /\ k * tn = tn * k /\ k \in Nat /\ nj \in 0 .. tn - 1
    BY <1>2, <2>3, Within
  <2>12. y = tn * k + nj /\ y \in Nat
    BY <2>10, <2>3, <2>11
  <2>13. y \div tn = k /\ y % tn = nj
    BY <2>3, <2>11, <2>12, Remains
  <2>14. y \in 0 .. d.k * Tiles(d.n) - 1
    BY <2>10, <2>3, <2>11
  <2>15. bmem[y][j] = Code(b[<<y \div Tiles(d.n), (y % Tiles(d.n)) * TILE + j>>])
    BY <1>2, <2>14 DEF ColsPacked
  <2>16. bmem[y][j] = Code(b[<<k, c>>])
    BY <1>2, <2>3, <2>13, <2>15
  <2> QED
    BY <2>1, <2>2, <2>9, <2>10, <2>16, CodeSigned
<1>7. \A k \in 0 .. d.k - 1 : t[k] = u[k]
  BY <1>3, <1>4, <1>6 DEF Products
<1>8. Total(t, d.k) = Total(u, d.k)
  BY <1>5, <1>7, TotalSame
<1>9. PICK acc : acc = int_matmul(a, b, d.m, d.k, d.n)
  OBVIOUS
<1>10. <<r, c>> \in Cells(d.m, d.n)
  BY <1>2, <1>5, Element
<1>11. DOMAIN acc = Cells(d.m, d.n) /\ acc[<<r, c>>] = Total(u, d.k)
  <2>1. acc[<<r, c>>] = Total([k \in 0 .. d.k - 1 |-> a[<<<<r, c>>[1], k>>] * b[<<k, <<r, c>>[2]>>]], d.k)
    BY <1>9, <1>10 DEF int_matmul
  <2>2. <<r, c>>[1] = r /\ <<r, c>>[2] = c
    OBVIOUS
  <2> QED
    BY <1>4, <1>9, <2>1, <2>2 DEF int_matmul
<1>12. requant(acc, mult, shift)[<<r, c>>] = Clamp((acc[<<r, c>>] * mult + Shl[shift - 1]) \div Shl[shift])
  BY <1>10, <1>11 DEF requant
<1>13. Shl[shift] \div 2 = Shl[shift - 1]
  BY ShlLaw
<1>14. Golden(a, b, d, mult, shift)[<<r, c>>] = Requant(Total(t, d.k), mult, shift)
  BY <1>8, <1>9, <1>11, <1>12, <1>13 DEF Golden, Requant
<1> QED
  BY <1>1, <1>3, <1>14 DEF Result

\* The golden model's matrices are of int8 values.
LEMMA GoldenElement ==
  ASSUME NEW d, Shape(d), NEW a \in Matrices(d.m, d.k), NEW b \in Matrices(d.k, d.n),
         NEW mult \in Nat, NEW shift \in Nat \ {0},
         NEW r \in 0 .. d.m - 1, NEW c \in 0 .. d.n - 1
  PROVE  Golden(a, b, d, mult, shift)[<<r, c>>] \in Int8
<1>1. d.k \in Nat /\ d.m \in Nat /\ d.n \in Nat
  BY DEF Shape
<1>2. PICK acc, u : /\ acc = int_matmul(a, b, d.m, d.k, d.n)
                    /\ u = [k \in 0 .. d.k - 1 |-> a[<<r, k>>] * b[<<k, c>>]]
  OBVIOUS
<1>3. <<r, c>> \in Cells(d.m, d.n)
  BY <1>1, Element
<1>4. DOMAIN acc = Cells(d.m, d.n) /\ acc[<<r, c>>] = Total(u, d.k)
  <2>1. acc[<<r, c>>] = Total([k \in 0 .. d.k - 1 |-> a[<<<<r, c>>[1], k>>] * b[<<k, <<r, c>>[2]>>]], d.k)
    BY <1>2, <1>3 DEF int_matmul
  <2>2. <<r, c>>[1] = r /\ <<r, c>>[2] = c
    OBVIOUS
  <2> QED
    BY <1>2, <2>1, <2>2 DEF int_matmul
<1>5. requant(acc, mult, shift)[<<r, c>>] = Clamp((acc[<<r, c>>] * mult + Shl[shift - 1]) \div Shl[shift])
  BY <1>3, <1>4 DEF requant
<1>6. Shl[shift] \div 2 = Shl[shift - 1]
  BY ShlLaw
<1>7. ASSUME NEW k \in 0 .. d.k - 1 PROVE u[k] \in Int
  <2>1. a[<<r, k>>] \in Int8 /\ b[<<k, c>>] \in Int8
    BY <1>1, Element
  <2>2. PICK x \in Int, y \in Int : x = a[<<r, k>>] /\ y = b[<<k, c>>]
    BY <2>1, Halves DEF Int8
  <2>3. x * y \in Int
    BY <2>2
  <2> QED
    BY <1>2, <2>2, <2>3
<1>8. Total(u, d.k) \in Int
  BY <1>1, <1>7, TotalInt
<1>9. Requant(Total(u, d.k), mult, shift) \in Int8
  BY <1>8, RequantRange
<1> QED
  BY <1>2, <1>4, <1>5, <1>6, <1>9 DEF Golden, Requant

LEMMA GoldenMatrix ==
  ASSUME NEW d, Shape(d), NEW a \in Matrices(d.m, d.k), NEW b \in Matrices(d.k, d.n),
         NEW mult \in Nat, NEW shift \in Nat \ {0}
  PROVE  Golden(a, b, d, mult, shift) \in Matrices(d.m, d.n)
<1>1. PICK g : g = Golden(a, b, d, mult, shift)
  OBVIOUS
<1>2. g = [x \in Cells(d.m, d.n) |-> g[x]]
  BY <1>1 DEF Golden, requant, int_matmul
<1>3. ASSUME NEW x \in Cells(d.m, d.n) PROVE g[x] \in Int8
  <2>1. PICK r \in 0 .. d.m - 1, c \in 0 .. d.n - 1 : x = <<r, c>>
    BY DEF Cells
  <2> QED
    BY <1>1, <2>1, GoldenElement
<1> QED
  BY <1>1, <1>2, <1>3 DEF Matrices

\* The scalars of plan p, and its operands in the memories.
Scalars(s, p) ==
  s.mult1 = p.mult1 /\ s.shift1 = p.shift1 /\ s.mult2 = p.mult2 /\ s.shift2 = p.shift2
Packed(f, p) ==
  /\ RowsPacked(f.eng1.amem, p.x, M, K1) /\ ColsPacked(f.eng1.bmem, p.W1, K1, K2)
  /\ ColsPacked(f.eng2.bmem, p.W2, K2, N)
  /\ \A n \in 0 .. Codes - 1 : f.lut[n] = Code(p.lut[n])

\* The matrices of a plan.
hidden(p) == Golden(p.x, p.W1, Dim1, p.mult1, p.shift1)
activated(p) == [x \in DOMAIN hidden(p) |-> p.lut[Code(hidden(p)[x])]]

LEMMA PlanFields ==
  ASSUME NEW p \in Plans
  PROVE  /\ p.x \in Matrices(Dim1.m, Dim1.k) /\ p.W1 \in Matrices(Dim1.k, Dim1.n)
         /\ p.W2 \in Matrices(Dim2.k, Dim2.n) /\ p.lut \in [0 .. Codes - 1 -> Int8]
         /\ p.mult1 \in Nat /\ p.mult2 \in Nat /\ p.shift1 \in Nat \ {0} /\ p.shift2 \in Nat \ {0}
         /\ p.shift1 < SHIFT_SPAN /\ p.shift2 < SHIFT_SPAN
         /\ Dim1.m = M /\ Dim1.k = K1 /\ Dim1.n = K2 /\ Dim2.m = M /\ Dim2.k = K2 /\ Dim2.n = N
<1>1. /\ p.x \in Matrices(M, K1) /\ p.W1 \in Matrices(K1, K2) /\ p.W2 \in Matrices(K2, N)
      /\ p.lut \in [0 .. Codes - 1 -> Int8] /\ p.mult1 \in Nat /\ p.mult2 \in Nat
  BY PlanAssumption
<1>2. p.shift1 \in 1 .. SHIFT_SPAN - 1 /\ p.shift2 \in 1 .. SHIFT_SPAN - 1
  BY PlanAssumption
<1>3. /\ p.shift1 \in Nat \ {0} /\ p.shift2 \in Nat \ {0}
      /\ p.shift1 < SHIFT_SPAN /\ p.shift2 < SHIFT_SPAN
  BY <1>2 DEF SHIFT_SPAN
<1> QED
  BY <1>1, <1>3 DEF Dim1, Dim2

LEMMA Activated ==
  ASSUME NEW p \in Plans
  PROVE  /\ activated(p) \in Matrices(M, K2)
         /\ \A r \in 0 .. M - 1, c \in 0 .. K2 - 1 :
              activated(p)[<<r, c>>] = p.lut[Code(hidden(p)[<<r, c>>])]
<1>1. hidden(p) \in Matrices(M, K2)
  BY PlanFields, Shapes, GoldenMatrix DEF hidden
<1>2. DOMAIN hidden(p) = Cells(M, K2)
  BY <1>1 DEF Matrices
<1>3. ASSUME NEW x \in Cells(M, K2)
      PROVE  p.lut[Code(hidden(p)[x])] \in Int8
  <2>1. hidden(p)[x] \in Int8
    BY <1>1 DEF Matrices
  <2>2. Code(hidden(p)[x]) \in 0 .. Codes - 1
    BY <2>1, CodeSigned
  <2> QED
    BY <2>2, PlanFields
<1>4. activated(p) \in Matrices(M, K2)
  BY <1>2, <1>3 DEF activated, Matrices
<1>5. ASSUME NEW r \in 0 .. M - 1, NEW c \in 0 .. K2 - 1
      PROVE  activated(p)[<<r, c>>] = p.lut[Code(hidden(p)[<<r, c>>])]
  <2>1. <<r, c>> \in Cells(M, K2)
    BY Element, ShapeAssumption
  <2> QED
    BY <1>2, <2>1 DEF activated
<1> QED
  BY <1>4, <1>5

\* A pass computes the golden model's result.
LEMMA PassExact ==
  ASSUME NEW p \in Plans, NEW f, NEW s, Packed(f, p), Scalars(s, p), Hid(f, s),
         Copied(f, Hidden), Outcome(f, s),
         NEW w \in 0 .. c_depth(Dim2) - 1, NEW i \in Lanes
  PROVE  f.eng2.cmem[w][i] = Code(y_q(p)[<<(w \div N) * TILE + i, w % N>>])
<1>1. y_q(p) = Golden(activated(p), p.W2, Dim2, p.mult2, p.shift2)
  BY PlanFields DEF y_q, hidden, activated, Golden
<1>2. ASSUME NEW v \in 0 .. Hidden - 1, NEW j \in Lanes
      PROVE  f.eng2.amem[v][j] = Code(activated(p)[<<(v \div K2) * TILE + j, v % K2>>])
  <2>1. f.eng1.cmem[v][j] = Result(f.eng1.amem, f.eng1.bmem, Dim1, s.mult1, s.shift1, v, j)
    BY <1>2 DEF Hid, Exact
  <2>2. v \in 0 .. c_depth(Dim1) - 1
    BY <1>2 DEF Hidden
  <2>3. /\ RowsPacked(f.eng1.amem, p.x, Dim1.m, Dim1.k)
        /\ ColsPacked(f.eng1.bmem, p.W1, Dim1.k, Dim1.n)
    BY PlanFields DEF Packed
  <2>4. PICK r, c : r = (v \div K2) * TILE + j /\ c = v % K2
    OBVIOUS
  <2>5. r \in 0 .. M - 1 /\ c \in 0 .. K2 - 1
    BY <1>2, <2>2, <2>4, LanePlace, Shapes, PlanFields
  <2>6. s.mult1 = p.mult1 /\ s.shift1 = p.shift1
    BY DEF Scalars
  <2>7. Result(f.eng1.amem, f.eng1.bmem, Dim1, p.mult1, p.shift1, v, j)
          = Code(hidden(p)[<<(v \div Dim1.n) * TILE + j, v % Dim1.n>>])
    <3>1. PICK d, a, b, mult, shift, am, bm :
            /\ d = Dim1 /\ a = p.x /\ b = p.W1 /\ mult = p.mult1 /\ shift = p.shift1
            /\ am = f.eng1.amem /\ bm = f.eng1.bmem
      OBVIOUS
    <3>2. /\ Shape(d) /\ a \in Matrices(d.m, d.k) /\ b \in Matrices(d.k, d.n)
          /\ RowsPacked(am, a, d.m, d.k) /\ ColsPacked(bm, b, d.k, d.n)
          /\ mult \in Nat /\ shift \in Nat \ {0} /\ v \in 0 .. c_depth(d) - 1 /\ j \in Lanes
      BY <1>2, <2>2, <2>3, <3>1, PlanFields, Shapes
    <3>3. Result(am, bm, d, mult, shift, v, j)
            = Code(Golden(a, b, d, mult, shift)[<<(v \div d.n) * TILE + j, v % d.n>>])
      BY <3>2, MatrixProduct
    <3>4. hidden(p) = Golden(a, b, d, mult, shift)
      BY <3>1 DEF hidden
    <3> QED
      BY <3>1, <3>3, <3>4
  <2>8. f.eng1.cmem[v][j] = Code(hidden(p)[<<r, c>>])
    BY <2>1, <2>4, <2>6, <2>7, PlanFields
  <2>9. hidden(p)[<<r, c>>] \in Int8
    BY <2>5, PlanFields, Shapes, GoldenElement DEF hidden
  <2>10. Code(hidden(p)[<<r, c>>]) \in 0 .. Codes - 1
    BY <2>9, CodeSigned
  <2>11. f.lut[Code(hidden(p)[<<r, c>>])] = Code(p.lut[Code(hidden(p)[<<r, c>>])])
    BY <2>10 DEF Packed
  <2>12. f.eng2.amem[v][j] = f.lut[f.eng1.cmem[v][j]]
    <3>1. f.eng2.amem[v] = Gelu(f, v)
      BY <1>2 DEF Copied
    <3>2. Gelu(f, v)[j] = f.lut[f.eng1.cmem[v][j]]
      BY <1>2 DEF Gelu
    <3> QED
      BY <3>1, <3>2
  <2>13. activated(p)[<<r, c>>] = p.lut[Code(hidden(p)[<<r, c>>])]
    BY <2>5, Activated
  <2>14. f.eng2.amem[v][j] = Code(activated(p)[<<r, c>>])
    BY <2>8, <2>11, <2>12, <2>13
  <2> QED
    BY <2>4, <2>14
<1>3. RowsPacked(f.eng2.amem, activated(p), Dim2.m, Dim2.k)
  BY <1>2, PlanFields DEF RowsPacked, Hidden, c_depth
<1>4. ColsPacked(f.eng2.bmem, p.W2, Dim2.k, Dim2.n)
  BY PlanFields DEF Packed
<1>5. activated(p) \in Matrices(Dim2.m, Dim2.k)
  BY Activated, PlanFields
<1>6. Result(f.eng2.amem, f.eng2.bmem, Dim2, p.mult2, p.shift2, w, i)
        = Code(y_q(p)[<<(w \div Dim2.n) * TILE + i, w % Dim2.n>>])
  <2>1. PICK d, a, b, mult, shift, am, bm :
          /\ d = Dim2 /\ a = activated(p) /\ b = p.W2 /\ mult = p.mult2 /\ shift = p.shift2
          /\ am = f.eng2.amem /\ bm = f.eng2.bmem
    OBVIOUS
  <2>2. /\ Shape(d) /\ a \in Matrices(d.m, d.k) /\ b \in Matrices(d.k, d.n)
        /\ RowsPacked(am, a, d.m, d.k) /\ ColsPacked(bm, b, d.k, d.n)
        /\ mult \in Nat /\ shift \in Nat \ {0} /\ w \in 0 .. c_depth(d) - 1
    BY <1>3, <1>4, <1>5, <2>1, PlanFields, Shapes
  <2>3. Result(am, bm, d, mult, shift, w, i)
          = Code(Golden(a, b, d, mult, shift)[<<(w \div d.n) * TILE + i, w % d.n>>])
    BY <2>2, MatrixProduct
  <2>4. y_q(p) = Golden(a, b, d, mult, shift)
    BY <1>1, <2>1
  <2> QED
    BY <2>1, <2>3, <2>4
<1>7. f.eng2.cmem[w][i] = Result(f.eng2.amem, f.eng2.bmem, Dim2, s.mult2, s.shift2, w, i)
  BY DEF Outcome, Exact
<1> QED
  BY <1>6, <1>7, PlanFields DEF Scalars

\* The host unpacks the words of the result to the golden model's matrix.
LEMMA UnpackedExact ==
  ASSUME NEW p \in Plans, NEW f, NEW s, Packed(f, p), Scalars(s, p), Hid(f, s),
         Copied(f, Hidden), Outcome(f, s),
         NEW words, \A w \in 0 .. c_depth(Dim2) - 1 : words[w + 1] = f.eng2.cmem[w]
  PROVE  unpacked(words) = y_q(p)
<1>1. y_q(p) \in Matrices(M, N)
  <2>1. y_q(p) = Golden(activated(p), p.W2, Dim2, p.mult2, p.shift2)
    BY PlanFields DEF y_q, hidden, activated, Golden
  <2>2. PICK d, a, b, mult, shift :
          d = Dim2 /\ a = activated(p) /\ b = p.W2 /\ mult = p.mult2 /\ shift = p.shift2
    OBVIOUS
  <2>3. /\ Shape(d) /\ a \in Matrices(d.m, d.k) /\ b \in Matrices(d.k, d.n)
        /\ mult \in Nat /\ shift \in Nat \ {0}
    BY <2>2, PlanFields, Shapes, Activated
  <2>4. Golden(a, b, d, mult, shift) \in Matrices(d.m, d.n)
    BY <2>3, GoldenMatrix
  <2> QED
    BY <2>1, <2>2, <2>4, PlanFields
<1>2. ASSUME NEW x \in Cells(M, N)
      PROVE  Signed(words[(x[1] \div TILE) * N + x[2] + 1][x[1] % TILE]) = y_q(p)[x]
  <2>1. PICK r \in 0 .. M - 1, c \in 0 .. N - 1 : x = <<r, c>>
    BY DEF Cells
  <2>2. PICK t \in Nat \ {0}, n \in Nat \ {0}, tm \in Nat \ {0}, m \in Nat \ {0} :
          t = TILE /\ n = N /\ tm = Tiles(M) /\ m = M /\ tm * t = m
    BY EngineAssumption, ShapeAssumption, TilesCover
  <2>3. PICK q, i : q = r \div t /\ i = r % t
    OBVIOUS
  <2>4. r \in Nat /\ r <= tm * t - 1 /\ c \in 0 .. n - 1
    BY <2>2
  <2>5. q \in Nat /\ i \in 0 .. t - 1 /\ r - t * q = i
    BY <2>2, <2>3, <2>4
  <2>6. q < tm
    <3> SUFFICES ASSUME ~(q < tm) PROVE FALSE
      OBVIOUS
    <3>1. PICK k \in Nat : q = tm + k
      <4>1. q - tm \in Nat /\ q = tm + (q - tm)
        BY <2>2, <2>5
      <4> QED
        BY <4>1
    <3>2. t * q = tm * t + t * k /\ t * k \in Nat /\ tm * t \in Nat
      BY <2>2, <3>1
    <3> QED
      BY <2>2, <2>4, <2>5, <3>2
  <2>7. PICK w : w = q * n + c
    OBVIOUS
  <2>8. w \in 0 .. tm * n - 1 /\ q * n = n * q /\ q * t = t * q /\ q * n \in Nat
    BY <2>2, <2>4, <2>5, <2>6, <2>7, Within
  <2>9. w = n * q + c /\ w \in Nat
    BY <2>2, <2>4, <2>7, <2>8
  <2>10. w \div n = q /\ w % n = c
    BY <2>2, <2>4, <2>5, <2>9, Remains
  <2>11. w \in 0 .. c_depth(Dim2) - 1 /\ i \in Lanes
    BY <2>2, <2>5, <2>8, PlanFields DEF c_depth, Lanes
  <2>12. f.eng2.cmem[w][i] = Code(y_q(p)[<<(w \div N) * TILE + i, w % N>>])
    BY <2>11, PassExact
  <2>13. q * t + i = r
    BY <2>2, <2>5, <2>8
  <2>14. f.eng2.cmem[w][i] = Code(y_q(p)[x])
    BY <2>1, <2>2, <2>10, <2>12, <2>13
  <2>15. words[w + 1] = f.eng2.cmem[w]
    BY <2>11
  <2>16. y_q(p)[x] \in Int8
    BY <1>1 DEF Matrices
  <2>17. x[1] = r /\ x[2] = c
    BY <2>1
  <2>18. words[(x[1] \div TILE) * N + x[2] + 1][x[1] % TILE] = words[w + 1][i]
    BY <2>2, <2>3, <2>7, <2>17
  <2> QED
    BY <2>14, <2>15, <2>16, <2>18, CodeSigned
<1>3. y_q(p) = [x \in Cells(M, N) |-> y_q(p)[x]]
  BY <1>1 DEF Matrices
<1> QED
  BY <1>2, <1>3 DEF unpacked

-----------------------------------------------------------------------------
(* The requests of a plan, and what they leave on the board.                 *)

\* The four buffers, numbered as the target register numbers them.
Part(p, g) ==
  CASE g = 0 -> pack_rows(p.x, M, K1) [] g = 1 -> pack_cols(p.W1, K1, K2)
    [] g = 2 -> pack_cols(p.W2, K2, N) [] OTHER -> LutWords(p.lut)
Span(g) ==
  CASE g = 0 -> a_depth(Dim1) [] g = 1 -> b_depth(Dim1) [] g = 2 -> b_depth(Dim2)
    [] OTHER -> Codes
Buffer(f, g) ==
  CASE g = 0 -> f.eng1.amem [] g = 1 -> f.eng1.bmem [] g = 2 -> f.eng2.bmem [] OTHER -> f.lut

\* The table has one lane of the word.
Cell(g, word) == IF g = 3 THEN word[0] ELSE word
Kept(f, p, g, i) == Buffer(f, g)[i] = Cell(g, Part(p, g)[i + 1])
AllKept(f, p) == \A g \in 0 .. 3 : \A i \in 0 .. Span(g) - 1 : Kept(f, p, g, i)

\* The registers by their addresses, and the scalars of a plan by those of theirs.
Register(s, n) ==
  CASE n = 1 -> s.target [] n = 2 -> s.ptr
    [] n = 3 -> s.mult1 [] n = 4 -> s.shift1 [] n = 5 -> s.mult2 [] OTHER -> s.shift2
Scalar(p, n) ==
  CASE n = 3 -> p.mult1 [] n = 4 -> p.shift1 [] n = 5 -> p.mult2 [] OTHER -> p.shift2

\* A quotient and a remainder are within their bounds.
LEMMA QuotientBound ==
  ASSUME NEW q \in Nat, NEW b \in Nat \ {0}, NEW w \in 0 .. q * b - 1
  PROVE  w \div b \in 0 .. q - 1 /\ w % b \in 0 .. b - 1
<1>1. PICK x, y : x = w \div b /\ y = w % b
  OBVIOUS
<1>2. q * b \in Nat
  OBVIOUS
<1>3. w \in Nat /\ w < q * b
  BY <1>2
<1>4. x \in Nat /\ y \in 0 .. b - 1 /\ w - b * x = y
  BY <1>1, <1>3
<1>5. x < q
  <2> SUFFICES ASSUME ~(x < q) PROVE FALSE
    OBVIOUS
  <2>1. PICK k \in Nat : x = q + k
    <3>1. x - q \in Nat /\ x = q + (x - q)
      BY <1>4
    <3> QED
      BY <3>1
  <2>2. b * x = q * b + b * k /\ b * k \in Nat
    BY <2>1
  <2> QED
    BY <1>2, <1>3, <1>4, <2>2
<1> QED
  BY <1>1, <1>4, <1>5

\* Every word of a packed matrix is one of the engine's.
LEMMA PackedRows ==
  ASSUME NEW rows \in Nat \ {0}, rows % TILE = 0, NEW cols \in Nat \ {0},
         NEW a \in Matrices(rows, cols)
  PROVE  pack_rows(a, rows, cols) \in [1 .. Tiles(rows) * cols -> Word]
<1>1. ASSUME NEW x \in 1 .. Tiles(rows) * cols, NEW i \in Lanes
      PROVE  Code(a[<<((x - 1) \div cols) * TILE + i, (x - 1) % cols>>]) \in 0 .. Codes - 1
  <2>0. PICK t \in Nat \ {0}, q \in Nat : t = TILE /\ q = Tiles(rows) /\ q * t = rows
    BY TilesCover, EngineAssumption
  <2>1. PICK w : t = TILE /\ q = Tiles(rows) /\ w = x - 1 /\ q * t = rows
    BY <2>0
  <2>2. q * cols \in Nat
    BY <2>1
  <2>3. w \in 0 .. q * cols - 1
    BY <2>1, <2>2
  <2>4. w \div cols \in 0 .. q - 1 /\ w % cols \in 0 .. cols - 1
    BY <2>1, <2>3, QuotientBound
  <2>5. (w \div cols) * t + i \in 0 .. q * t - 1
    BY <2>1, <2>4, Within DEF Lanes
  <2>6. a[<<(w \div cols) * t + i, w % cols>>] \in Int8
    BY <2>1, <2>4, <2>5, Element
  <2> QED
    BY <2>1, <2>6, CodeSigned
<1> QED
  BY <1>1 DEF pack_rows, Word

LEMMA PackedCols ==
  ASSUME NEW rows \in Nat \ {0}, NEW cols \in Nat \ {0}, cols % TILE = 0,
         NEW a \in Matrices(rows, cols)
  PROVE  pack_cols(a, rows, cols) \in [1 .. rows * Tiles(cols) -> Word]
<1>1. ASSUME NEW x \in 1 .. rows * Tiles(cols), NEW j \in Lanes
      PROVE  Code(a[<<(x - 1) \div Tiles(cols), ((x - 1) % Tiles(cols)) * TILE + j>>]) \in 0 .. Codes - 1
  <2>0. PICK t \in Nat \ {0}, q \in Nat \ {0} : t = TILE /\ q = Tiles(cols) /\ q * t = cols
    BY TilesCover, EngineAssumption
  <2>1. PICK w : t = TILE /\ q = Tiles(cols) /\ w = x - 1 /\ q * t = cols
    BY <2>0
  <2>2. rows * q \in Nat
    BY <2>1
  <2>3. w \in 0 .. rows * q - 1
    BY <2>1, <2>2
  <2>4. w \div q \in 0 .. rows - 1 /\ w % q \in 0 .. q - 1
    BY <2>1, <2>3, QuotientBound
  <2>5. (w % q) * t + j \in 0 .. q * t - 1
    BY <2>1, <2>4, Within DEF Lanes
  <2>6. a[<<w \div q, (w % q) * t + j>>] \in Int8
    BY <2>1, <2>4, <2>5, Element
  <2> QED
    BY <2>1, <2>6, CodeSigned
<1> QED
  BY <1>1 DEF pack_cols, Word

\* Each part of a plan fills its buffer, and one request carries it.
LEMMA SpanFits ==
  ASSUME NEW g \in 0 .. 3
  PROVE  Span(g) \in Nat \ {0} /\ Span(g) < LengthSpan /\ Span(g) <= PTR_SPAN
<1>1. /\ a_depth(Dim1) \in Nat \ {0} /\ b_depth(Dim1) \in Nat \ {0} /\ b_depth(Dim2) \in Nat \ {0}
      /\ Codes \in Nat \ {0}
  BY Shapes, Depths
<1>2. Span(g) \in {a_depth(Dim1), b_depth(Dim1), b_depth(Dim2), Codes}
  BY DEF Span
<1>3. Span(g) \in 0 .. LengthSpan - 1 /\ Span(g) \in 0 .. PTR_SPAN
  BY <1>2, ShapeAssumption
<1>4. PICK n : n = Span(g)
  OBVIOUS
<1>5. n \in Nat \ {0}
  BY <1>1, <1>2, <1>4
<1>6. n < LengthSpan
  BY <1>3, <1>4, LengthAssumption
<1>7. n <= PTR_SPAN
  <2>1. PICK q \in Nat : q = PTR_SPAN
    BY DEF PTR_SPAN
  <2>2. n \in 0 .. q
    BY <1>3, <1>4, <2>1, Zenon
  <2> QED
    BY <2>1, <2>2
<1> QED
  BY <1>4, <1>5, <1>6, <1>7

LEMMA PartWords ==
  ASSUME NEW p \in Plans, NEW g \in 0 .. 3
  PROVE  Part(p, g) \in [1 .. Span(g) -> Word]
<1>1. CASE g = 0
  <2>1. pack_rows(p.x, M, K1) \in [1 .. Tiles(M) * K1 -> Word]
    BY PackedRows, PlanFields, ShapeAssumption
  <2> QED
    BY <1>1, <2>1, PlanFields DEF Part, Span, a_depth
<1>2. CASE g = 1
  <2>1. pack_cols(p.W1, K1, K2) \in [1 .. K1 * Tiles(K2) -> Word]
    BY PackedCols, PlanFields, ShapeAssumption
  <2> QED
    BY <1>2, <2>1, PlanFields DEF Part, Span, b_depth
<1>3. CASE g = 2
  <2>1. pack_cols(p.W2, K2, N) \in [1 .. K2 * Tiles(N) -> Word]
    BY PackedCols, PlanFields, ShapeAssumption
  <2> QED
    BY <1>3, <2>1, PlanFields DEF Part, Span, b_depth
<1>4. CASE g = 3
  <2>1. LutWords(p.lut) \in [1 .. Codes -> Word]
    <3>1. ASSUME NEW x \in 1 .. Codes, NEW i \in Lanes
          PROVE  (IF i = 0 THEN Code(p.lut[x - 1]) ELSE 0) \in 0 .. Codes - 1
      <4>1. x - 1 \in 0 .. Codes - 1 /\ 0 \in 0 .. Codes - 1
        BY Halves
      <4>2. p.lut[x - 1] \in Int8
        BY <4>1, PlanFields
      <4> QED
        BY <4>1, <4>2, CodeSigned
    <3> QED
      BY <3>1 DEF LutWords, Word
  <2> QED
    BY <1>4, <2>1 DEF Part, Span
<1> QED
  BY <1>1, <1>2, <1>3, <1>4

LEMMA PartSeq ==
  ASSUME NEW p \in Plans, NEW g \in 0 .. 3
  PROVE  Part(p, g) \in Seq(Word) /\ Len(Part(p, g)) = Span(g)
<1>1. PICK q, n : q = Part(p, g) /\ n = Span(g)
  OBVIOUS
<1>2. q \in [1 .. n -> Word] /\ n \in Nat
  BY <1>1, PartWords, SpanFits
<1>3. q \in Seq(Word) /\ Len(q) = n
  BY <1>2
<1> QED
  BY <1>1, <1>3

\* The parts are the packed matrices of the plan.
LEMMA KeptPacked ==
  ASSUME NEW p \in Plans, NEW f, AllKept(f, p)
  PROVE  Packed(f, p)
<1>1. ASSUME NEW w \in 0 .. Tiles(M) * K1 - 1, NEW i \in Lanes
      PROVE  f.eng1.amem[w][i] = Code(p.x[<<(w \div K1) * TILE + i, w % K1>>])
  <2>1. 0 \in 0 .. 3 /\ w \in 0 .. Span(0) - 1
    BY <1>1, PlanFields DEF Span, a_depth
  <2>2. Kept(f, p, 0, w)
    BY <2>1 DEF AllKept
  <2>3. f.eng1.amem[w] = pack_rows(p.x, M, K1)[w + 1]
    BY <2>2 DEF Kept, Buffer, Cell, Part
  <2>4. w + 1 \in 1 .. Tiles(M) * K1 /\ (w + 1) - 1 = w
    <3>1. PICK n \in Nat : n = Tiles(M) * K1
      BY <2>1, SpanFits, PlanFields DEF Span, a_depth
    <3> QED
      BY <1>1, <3>1
  <2>5. pack_rows(p.x, M, K1)[w + 1]
          = [j \in Lanes |-> Code(p.x[<<((w + 1 - 1) \div K1) * TILE + j, (w + 1 - 1) % K1>>])]
    BY <2>4 DEF pack_rows
  <2> QED
    BY <1>1, <2>3, <2>4, <2>5
<1>2. ASSUME NEW w \in 0 .. K1 * Tiles(K2) - 1, NEW j \in Lanes
      PROVE  f.eng1.bmem[w][j] = Code(p.W1[<<w \div Tiles(K2), (w % Tiles(K2)) * TILE + j>>])
  <2>1. 1 \in 0 .. 3 /\ w \in 0 .. Span(1) - 1
    BY <1>2, PlanFields DEF Span, b_depth
  <2>2. Kept(f, p, 1, w)
    BY <2>1 DEF AllKept
  <2>3. f.eng1.bmem[w] = pack_cols(p.W1, K1, K2)[w + 1]
    BY <2>2 DEF Kept, Buffer, Cell, Part
  <2>4. w + 1 \in 1 .. K1 * Tiles(K2) /\ (w + 1) - 1 = w
    <3>1. PICK n \in Nat : n = K1 * Tiles(K2)
      BY <2>1, SpanFits, PlanFields DEF Span, b_depth
    <3> QED
      BY <1>2, <3>1
  <2>5. pack_cols(p.W1, K1, K2)[w + 1]
          = [i \in Lanes |-> Code(p.W1[<<(w + 1 - 1) \div Tiles(K2), ((w + 1 - 1) % Tiles(K2)) * TILE + i>>])]
    BY <2>4 DEF pack_cols
  <2> QED
    BY <1>2, <2>3, <2>4, <2>5
<1>3. ASSUME NEW w \in 0 .. K2 * Tiles(N) - 1, NEW j \in Lanes
      PROVE  f.eng2.bmem[w][j] = Code(p.W2[<<w \div Tiles(N), (w % Tiles(N)) * TILE + j>>])
  <2>1. 2 \in 0 .. 3 /\ w \in 0 .. Span(2) - 1
    BY <1>3, PlanFields DEF Span, b_depth
  <2>2. Kept(f, p, 2, w)
    BY <2>1 DEF AllKept
  <2>3. f.eng2.bmem[w] = pack_cols(p.W2, K2, N)[w + 1]
    BY <2>2 DEF Kept, Buffer, Cell, Part
  <2>4. w + 1 \in 1 .. K2 * Tiles(N) /\ (w + 1) - 1 = w
    <3>1. PICK n \in Nat : n = K2 * Tiles(N)
      BY <2>1, SpanFits, PlanFields DEF Span, b_depth
    <3> QED
      BY <1>3, <3>1
  <2>5. pack_cols(p.W2, K2, N)[w + 1]
          = [i \in Lanes |-> Code(p.W2[<<(w + 1 - 1) \div Tiles(N), ((w + 1 - 1) % Tiles(N)) * TILE + i>>])]
    BY <2>4 DEF pack_cols
  <2> QED
    BY <1>3, <2>3, <2>4, <2>5
<1>4. ASSUME NEW n \in 0 .. Codes - 1 PROVE f.lut[n] = Code(p.lut[n])
  <2>1. 3 \in 0 .. 3 /\ n \in 0 .. Span(3) - 1 /\ 0 \in Lanes
    BY <1>4, EngineAssumption DEF Span, Lanes
  <2>2. Kept(f, p, 3, n)
    BY <2>1 DEF AllKept
  <2>3. f.lut[n] = LutWords(p.lut)[n + 1][0]
    BY <2>2 DEF Kept, Buffer, Cell, Part
  <2>4. n + 1 \in 1 .. Codes /\ (n + 1) - 1 = n
    BY <1>4, Halves
  <2>5. LutWords(p.lut)[n + 1] = [i \in Lanes |-> IF i = 0 THEN Code(p.lut[n + 1 - 1]) ELSE 0]
    BY <2>4 DEF LutWords
  <2> QED
    BY <2>1, <2>3, <2>4, <2>5
<1> QED
  BY <1>1, <1>2, <1>3, <1>4 DEF Packed, RowsPacked, ColsPacked

\* The requests of a plan.
Sends(p) ==
  {Write(1, <<g>>) : g \in 0 .. 3} \cup {Write(2, <<0>>)} \cup {Write(16, Part(p, g)) : g \in 0 .. 3}
    \cup {Write(n, <<Scalar(p, n)>>) : n \in 3 .. 6} \cup {Write(0, <<1>>)}

\* The requests of a plan, one by one.
Planned(p, todo) ==
  /\ todo \in Seq(Sends(p)) /\ Len(todo) = 17
  /\ \A g \in 0 .. 3 : /\ todo[3 * g + 1] = Write(1, <<g>>) /\ todo[3 * g + 2] = Write(2, <<0>>)
                       /\ todo[3 * g + 3] = Write(16, Part(p, g))
  /\ \A n \in 3 .. 6 : todo[n + 10] = Write(n, <<Scalar(p, n)>>)
  /\ todo[17] = Write(0, <<1>>)

LEMMA PlanRequests == ASSUME NEW p PROVE Planned(p, run_plan(p))
<1>1. PICK S : S = Sends(p)
  OBVIOUS
<1>2. PICK a0, a1, a2, a3, z, w0, w1, w2, w3, m1, s1, m2, s2, go :
        /\ a0 = Write(1, <<0>>) /\ a1 = Write(1, <<1>>) /\ a2 = Write(1, <<2>>)
        /\ a3 = Write(1, <<3>>) /\ z = Write(2, <<0>>)
        /\ w0 = Write(16, Part(p, 0)) /\ w1 = Write(16, Part(p, 1))
        /\ w2 = Write(16, Part(p, 2)) /\ w3 = Write(16, Part(p, 3))
        /\ m1 = Write(3, <<p.mult1>>) /\ s1 = Write(4, <<p.shift1>>)
        /\ m2 = Write(5, <<p.mult2>>) /\ s2 = Write(6, <<p.shift2>>) /\ go = Write(0, <<1>>)
  OBVIOUS
<1>3. a0 \in S /\ a1 \in S /\ a2 \in S /\ a3 \in S /\ z \in S /\ w0 \in S /\ w1 \in S /\ w2 \in S
      /\ w3 \in S /\ go \in S
  <2>1. 0 \in 0 .. 3 /\ 1 \in 0 .. 3 /\ 2 \in 0 .. 3 /\ 3 \in 0 .. 3
    OBVIOUS
  <2> QED
    BY <1>1, <1>2, <2>1, Zenon DEF Sends
<1>4. m1 \in S /\ s1 \in S /\ m2 \in S /\ s2 \in S
  <2>1. /\ m1 = Write(3, <<Scalar(p, 3)>>) /\ s1 = Write(4, <<Scalar(p, 4)>>)
        /\ m2 = Write(5, <<Scalar(p, 5)>>) /\ s2 = Write(6, <<Scalar(p, 6)>>)
    BY <1>2 DEF Scalar
  <2>2. 3 \in 3 .. 6 /\ 4 \in 3 .. 6 /\ 5 \in 3 .. 6 /\ 6 \in 3 .. 6
    OBVIOUS
  <2> QED
    BY <1>1, <2>1, <2>2, Zenon DEF Sends
<1>5. PICK h0, t1, h1, t2, h2, t3, h3, e, todo :
        /\ h0 = <<a0, z, w0>> /\ t1 = <<a1, z, w1>> /\ t2 = <<a2, z, w2>> /\ t3 = <<a3, z, w3>>
        /\ h1 = h0 \o t1 /\ h2 = h1 \o t2 /\ h3 = h2 \o t3 /\ e = <<m1, s1, m2, s2, go>> /\ todo = h3 \o e
  OBVIOUS
<1>6. todo = run_plan(p)
  <2>1. /\ load(Targets.x, pack_rows(p.x, M, K1)) = <<a0, z, w0>>
        /\ load(Targets.W1, pack_cols(p.W1, K1, K2)) = <<a1, z, w1>>
        /\ load(Targets.W2, pack_cols(p.W2, K2, N)) = <<a2, z, w2>>
        /\ load(Targets.lut, LutWords(p.lut)) = <<a3, z, w3>>
    BY <1>2 DEF load, Targets, DATA_WORD, Part
  <2> QED
    BY <1>2, <1>5, <2>1 DEF run_plan
<1>7. h0 \in Seq(S) /\ Len(h0) = 3 /\ h0[1] = a0 /\ h0[2] = z /\ h0[3] = w0
      /\ t1 \in Seq(S) /\ Len(t1) = 3 /\ t1[1] = a1 /\ t1[2] = z /\ t1[3] = w1
      /\ t2 \in Seq(S) /\ Len(t2) = 3 /\ t2[1] = a2 /\ t2[2] = z /\ t2[3] = w2
      /\ t3 \in Seq(S) /\ Len(t3) = 3 /\ t3[1] = a3 /\ t3[2] = z /\ t3[3] = w3
  BY <1>3, <1>5
<1>8. /\ h1 \in Seq(S) /\ Len(h1) = 6 /\ \A i \in 1 .. 3 : h1[i] = h0[i]
      /\ \A i \in 1 .. 3 : h1[i + 3] = t1[i]
  BY <1>5, <1>7, Joined
<1>10. /\ h2 \in Seq(S) /\ Len(h2) = 9 /\ \A i \in 1 .. 6 : h2[i] = h1[i]
       /\ \A i \in 1 .. 3 : h2[i + 6] = t2[i]
  BY <1>5, <1>7, <1>8, Joined
<1>11. /\ h3 \in Seq(S) /\ Len(h3) = 12 /\ \A i \in 1 .. 9 : h3[i] = h2[i]
       /\ \A i \in 1 .. 3 : h3[i + 9] = t3[i]
  BY <1>5, <1>7, <1>10, Joined
<1>12. e \in Seq(S) /\ Len(e) = 5 /\ e[1] = m1 /\ e[2] = s1 /\ e[3] = m2 /\ e[4] = s2 /\ e[5] = go
  BY <1>3, <1>4, <1>5
<1>13. /\ todo \in Seq(S) /\ Len(todo) = 17 /\ \A i \in 1 .. 12 : todo[i] = h3[i]
       /\ \A i \in 1 .. 5 : todo[i + 12] = e[i]
  <2>1. Len(h3) = 12
    BY <1>11
  <2> QED
    BY <1>5, <1>11, <1>12, <2>1, Joined
<1>14. /\ todo[1] = a0 /\ todo[2] = z /\ todo[3] = w0 /\ todo[4] = a1 /\ todo[5] = z /\ todo[6] = w1
       /\ todo[7] = a2 /\ todo[8] = z /\ todo[9] = w2 /\ todo[10] = a3 /\ todo[11] = z /\ todo[12] = w3
  BY <1>7, <1>8, <1>10, <1>11, <1>13
<1>15. /\ todo[1 + 12] = m1 /\ todo[2 + 12] = s1 /\ todo[3 + 12] = m2 /\ todo[4 + 12] = s2
       /\ todo[5 + 12] = go
  BY <1>12, <1>13
<1>16. ASSUME NEW g \in 0 .. 3
       PROVE  /\ todo[3 * g + 1] = Write(1, <<g>>) /\ todo[3 * g + 2] = Write(2, <<0>>)
              /\ todo[3 * g + 3] = Write(16, Part(p, g))
  <2>1. g = 0 \/ g = 1 \/ g = 2 \/ g = 3
    OBVIOUS
  <2> QED
    BY <1>2, <1>14, <2>1
<1>17. ASSUME NEW n \in 3 .. 6 PROVE todo[n + 10] = Write(n, <<Scalar(p, n)>>)
  <2>1. n = 3 \/ n = 4 \/ n = 5 \/ n = 6
    OBVIOUS
  <2> QED
    BY <1>2, <1>15, <2>1 DEF Scalar
<1>18. todo[17] = Write(0, <<1>>)
  BY <1>2, <1>15
<1> QED
  BY <1>1, <1>6, <1>13, <1>16, <1>17, <1>18 DEF Planned

\* What a write of one word asks, and what a write of a part does.
LEMMA WordAsks ==
  ASSUME NEW adr, NEW v
  PROVE  /\ Asks(Write(adr, <<v>>)).op = "write" /\ ~Asks(Write(adr, <<v>>)).fixed
         /\ Asks(Write(adr, <<v>>)).adr = adr /\ Asks(Write(adr, <<v>>)).size = 1
         /\ Asks(Write(adr, <<v>>)).words[1] = v
<1>1. PICK words : words = <<v>>
  OBVIOUS
<1>2. words \in Seq({v}) /\ Len(words) = 1 /\ words[1] = v
  BY <1>1
<1>3. 1 < LengthSpan
  BY BlockSize, LengthAssumption
<1>4. Len(words) < LengthSpan
  BY <1>2, <1>3
<1>5. PICK a, r : a = adr /\ r = Write(a, words)
  OBVIOUS
<1>6. /\ Asks(r).op = "write" /\ ~Asks(r).fixed /\ Asks(r).adr = a
      /\ Asks(r).size = Len(words)
      /\ \A i \in 1 .. Len(words) : Asks(r).words[i] = words[i]
  <2>1. words \in Seq({v})
    BY <1>2
  <2> QED
    BY <1>4, <1>5, <2>1, WriteAsks
<1>7. 1 \in 1 .. Len(words)
  BY <1>2
<1> QED
  BY <1>1, <1>2, <1>5, <1>6, <1>7

LEMMA PartAsks ==
  ASSUME NEW p \in Plans, NEW g \in 0 .. 3
  PROVE  /\ Asks(Write(16, Part(p, g))).op = "write" /\ ~Asks(Write(16, Part(p, g))).fixed
         /\ Asks(Write(16, Part(p, g))).adr = 16 /\ Asks(Write(16, Part(p, g))).size = Span(g)
         /\ \A i \in 0 .. Span(g) - 1 : /\ Asks(Write(16, Part(p, g))).words[i + 1] = Part(p, g)[i + 1]
                                        /\ Part(p, g)[i + 1] \in Word
<1>1. PICK words, r, n, adr : words = Part(p, g) /\ adr = 16 /\ r = Write(adr, words) /\ n = Span(g)
  OBVIOUS
<1>2. words \in Seq(Word) /\ Len(words) = n /\ n \in Nat /\ n < LengthSpan
  BY <1>1, PartSeq, SpanFits
<1>3. Len(words) < LengthSpan
  BY <1>2
<1>4. /\ Asks(r).op = "write" /\ ~Asks(r).fixed /\ Asks(r).adr = adr
      /\ Asks(r).size = Len(words)
      /\ \A i \in 1 .. Len(words) : Asks(r).words[i] = words[i]
  <2>1. words \in Seq(Word)
    BY <1>2
  <2> QED
    BY <1>1, <1>3, <2>1, WriteAsks
<1>5. ASSUME NEW i \in 0 .. n - 1
      PROVE  Asks(r).words[i + 1] = words[i + 1] /\ words[i + 1] \in Word
  <2>1. i + 1 \in 1 .. Len(words)
    BY <1>2
  <2> QED
    BY <1>2, <1>4, <2>1
<1> QED
  BY <1>1, <1>2, <1>4, <1>5

\* A request is the target, the pointer or the words of a buffer, or a scalar, or the start.
LEMMA WhichRequest ==
  ASSUME NEW j \in 1 .. 17
  PROVE  \/ \E g \in 0 .. 3 : j = 3 * g + 1 \/ j = 3 * g + 2 \/ j = 3 * g + 3
         \/ \E n \in 3 .. 6 : j = n + 10
         \/ j = 17
<1>1. CASE j <= 12
  <2>1. PICK g : g = (j - 1) \div 3
    OBVIOUS
  <2>2. g \in 0 .. 3 /\ (j = 3 * g + 1 \/ j = 3 * g + 2 \/ j = 3 * g + 3)
    BY <1>1, <2>1
  <2> QED
    BY <2>2
<1>2. CASE j > 12 /\ j # 17
  <2>1. j - 10 \in 3 .. 6 /\ j = (j - 10) + 10
    BY <1>2
  <2> QED
    BY <2>1
<1> QED
  BY <1>1, <1>2

\* What a program may have asked of the board: words of matrices where there are buffers,
\* numbers where there are registers.
Suited(r) ==
  /\ ~r.fixed /\ r.adr \in Nat /\ r.size \in Nat \ {0}
  /\ r.op = "write" =>
       \A i \in 0 .. r.size - 1 :
         IF r.adr + i >= DATA_WORD THEN r.words[i + 1] \in Word ELSE r.words[i + 1] \in Nat

LEMMA WordSuited ==
  ASSUME NEW adr \in 0 .. 15, NEW v \in Nat
  PROVE  Suited(Asks(Write(adr, <<v>>)))
<1>1. PICK r : r = Asks(Write(adr, <<v>>))
  OBVIOUS
<1>2. r.op = "write" /\ ~r.fixed /\ r.adr = adr /\ r.size = 1 /\ r.words[1] = v
  BY <1>1, WordAsks
<1>3. ASSUME NEW i \in 0 .. r.size - 1
      PROVE  IF r.adr + i >= DATA_WORD THEN r.words[i + 1] \in Word ELSE r.words[i + 1] \in Nat
  <2>1. i = 0
    BY <1>2
  <2>2. r.words[i + 1] = v /\ ~(r.adr + i >= 16)
    BY <1>2, <2>1
  <2> QED
    BY <2>2 DEF DATA_WORD
<1> QED
  BY <1>1, <1>2, <1>3 DEF Suited

LEMMA PartSuited ==
  ASSUME NEW p \in Plans, NEW g \in 0 .. 3
  PROVE  Suited(Asks(Write(16, Part(p, g))))
<1>1. PICK r, n, q : r = Asks(Write(16, Part(p, g))) /\ n = Span(g) /\ q = Part(p, g)
  OBVIOUS
<1>2. /\ ~r.fixed /\ r.adr = 16 /\ r.size = n /\ n \in Nat \ {0}
      /\ \A i \in 0 .. n - 1 : r.words[i + 1] = q[i + 1] /\ q[i + 1] \in Word
  BY <1>1, PartAsks, SpanFits
<1>3. ASSUME NEW i \in 0 .. r.size - 1
      PROVE  IF r.adr + i >= DATA_WORD THEN r.words[i + 1] \in Word ELSE r.words[i + 1] \in Nat
  <2>1. r.adr + i >= 16 /\ r.words[i + 1] \in Word
    BY <1>2
  <2> QED
    BY <2>1 DEF DATA_WORD
<1> QED
  BY <1>1, <1>2, <1>3 DEF Suited

LEMMA PlanSuited ==
  ASSUME NEW p \in Plans, NEW j \in 1 .. 17, NEW r, r = run_plan(p)[j]
  PROVE  Suited(Asks(r))
<1>1. Planned(p, run_plan(p))
  BY PlanRequests
<1>2. ASSUME NEW g \in 0 .. 3, j = 3 * g + 1 \/ j = 3 * g + 2 \/ j = 3 * g + 3
      PROVE  Suited(Asks(r))
  <2>1. \/ r = Write(1, <<g>>) \/ r = Write(2, <<0>>) \/ r = Write(16, Part(p, g))
    BY <1>1, <1>2 DEF Planned
  <2>2. 1 \in 0 .. 15 /\ 2 \in 0 .. 15 /\ g \in Nat /\ 0 \in Nat
    OBVIOUS
  <2> QED
    BY <2>1, <2>2, WordSuited, PartSuited
<1>3. ASSUME NEW n \in 3 .. 6, j = n + 10 PROVE Suited(Asks(r))
  <2>1. r = Write(n, <<Scalar(p, n)>>)
    BY <1>1, <1>3 DEF Planned
  <2>2. Scalar(p, n) \in Nat /\ n \in 0 .. 15
    BY PlanFields DEF Scalar
  <2> QED
    BY <2>1, <2>2, WordSuited
<1>4. CASE j = 17
  <2>1. r = Write(0, <<1>>) /\ 0 \in 0 .. 15 /\ 1 \in Nat
    BY <1>1, <1>4 DEF Planned
  <2> QED
    BY <2>1, WordSuited
<1> QED
  BY <1>2, <1>3, <1>4, WhichRequest

-----------------------------------------------------------------------------
(* What a clock edge does to what the requests leave.                        *)

\* A word loaded goes into the buffer it is meant for, where the pointer and its address say.
LEMMA BufferEdge ==
  ASSUME FfnEdge, FfnTyped(ffn), NEW h \in 0 .. 3
  PROVE  Buffer(ffn', h) = Put(Buffer(ffn, h), Span(h), Loads(h), BufAddr, Cell(h, bus.dat))
<1>1. PICK c, d, e : /\ c = FfnControl(ffn, slave.start) /\ d = Control(ffn.eng1, Dim1, Port1.start)
                     /\ e = Control(ffn.eng2, Dim2, Port2.start)
  OBVIOUS
<1>2. /\ ffn'.eng1 = EngineEdge(ffn.eng1, Dim1, Port1) /\ ffn'.eng2 = EngineEdge(ffn.eng2, Dim2, Port2)
      /\ ffn'.lut = Put(ffn.lut, Codes, Loads(Targets.lut), BufAddr, Lane0)
  BY <1>1, FfnFields
<1>3. EngineTyped(ffn.eng1, Dim1) /\ EngineTyped(ffn.eng2, Dim2)
  BY DEF FfnTyped
<1>4. IsEngine(d) /\ IsEngine(e)
  BY <1>1, <1>3, Shapes, ControlTyped
<1>5. /\ ffn'.eng1.amem = Put(ffn.eng1.amem, a_depth(Dim1), Port1.a_we, Port1.a_waddr, Port1.a_wdata)
      /\ ffn'.eng1.bmem = Put(ffn.eng1.bmem, b_depth(Dim1), Port1.b_we, Port1.b_waddr, Port1.b_wdata)
      /\ ffn'.eng2.bmem = Put(ffn.eng2.bmem, b_depth(Dim2), Port2.b_we, Port2.b_waddr, Port2.b_wdata)
  BY <1>1, <1>2, <1>4, EdgeFields
<1>6. Targets.x = 0 /\ Targets.W1 = 1 /\ Targets.W2 = 2 /\ Targets.lut = 3
  BY DEF Targets
<1>7. CASE h = 0
  <2>1. ffn'.eng1.amem = Put(ffn.eng1.amem, a_depth(Dim1), Loads(0), BufAddr, bus.dat)
    BY <1>5, <1>6, PortFields
  <2> QED
    BY <1>7, <2>1 DEF Buffer, Span, Cell
<1>8. CASE h = 1
  <2>1. ffn'.eng1.bmem = Put(ffn.eng1.bmem, b_depth(Dim1), Loads(1), BufAddr, bus.dat)
    BY <1>5, <1>6, PortFields
  <2> QED
    BY <1>8, <2>1 DEF Buffer, Span, Cell
<1>9. CASE h = 2
  <2>1. ffn'.eng2.bmem = Put(ffn.eng2.bmem, b_depth(Dim2), Loads(2), BufAddr, bus.dat)
    BY <1>5, <1>6, PortFields
  <2> QED
    BY <1>9, <2>1 DEF Buffer, Span, Cell
<1>10. CASE h = 3
  <2>1. Loads(3) => Lane0 = bus.dat[0]
    BY DEF Loads, Lane0
  <2>2. Put(ffn.lut, Codes, Loads(3), BufAddr, Lane0)
          = Put(ffn.lut, Codes, Loads(3), BufAddr, bus.dat[0])
    BY <2>1 DEF Put
  <2>3. ffn'.lut = Put(ffn.lut, Codes, Loads(3), BufAddr, bus.dat[0])
    BY <1>2, <1>6, <2>2
  <2> QED
    BY <1>10, <2>3 DEF Buffer, Span, Cell
<1> QED
  BY <1>7, <1>8, <1>9, <1>10

\* A register takes what fits of the number that is written to it, and a start lasts for one cycle.
LEMMA RegisterEdge ==
  ASSUME SlaveEdge, SlaveTyped(slave), BusTyped
  PROVE  /\ \A n \in 1 .. 6 : Register(slave', n) =
              IF Writing /\ bus.adr = n THEN Fits(n, bus.dat) ELSE Register(slave, n)
         /\ slave'.start = (Writing /\ bus.adr = 0 /\ bus.dat % 2 = 1)
<1>1. PICK s, t, low, go :
        /\ s = slave /\ t = slave' /\ low = [s EXCEPT !.start = FALSE]
        /\ go = (bus.dat % 2 = 1)
  OBVIOUS
<1>2. SlaveTyped(s) /\ go \in BOOLEAN
  BY <1>1
<1>3. /\ low.start = FALSE /\ low.target = s.target /\ low.ptr = s.ptr /\ low.mult1 = s.mult1
      /\ low.shift1 = s.shift1 /\ low.mult2 = s.mult2 /\ low.shift2 = s.shift2
      /\ SlaveTyped(low)
  BY <1>1, <1>2 DEF SlaveTyped
<1>4. CASE ~Writing \/ InData
  <2>1. t = low
    BY <1>1, <1>4 DEF SlaveEdge
  <2>2. ASSUME NEW n \in 0 .. 6 PROVE ~(Writing /\ bus.adr = n)
    BY <1>4 DEF InData, DATA_WORD
  <2>3. \A n \in 1 .. 6 : Register(t, n) = Register(s, n)
    BY <1>3, <2>1 DEF Register
  <2>4. t.start = (Writing /\ bus.adr = 0 /\ go)
    <3>1. ~(Writing /\ bus.adr = 0)
      BY <2>2
    <3> QED
      BY <1>3, <2>1, <3>1, Zenon
  <2>5. ASSUME NEW n \in 1 .. 6
        PROVE  Register(t, n) = IF Writing /\ bus.adr = n THEN Fits(n, bus.dat)
                               ELSE Register(s, n)
    <3>1. ~(Writing /\ bus.adr = n) /\ Register(t, n) = Register(s, n)
      BY <2>2, <2>3
    <3> QED
      BY <3>1, Zenon
  <2> QED
    BY <1>1, <2>4, <2>5, Zenon
<1>5. CASE Writing /\ ~InData
  <2>1. PICK dat \in Nat, a \in Nat : dat = Fits(a, bus.dat) /\ a = bus.adr
    <3>1. bus.adr \in Nat /\ bus.dat \in Nat
      BY <1>5 DEF BusTyped
    <3> QED
      BY <3>1, Fitted
  <2>2. t = CASE a = 0 -> [s EXCEPT !.start = go]
              [] a = 1 -> [low EXCEPT !.target = dat]
              [] a = 2 -> [low EXCEPT !.ptr = dat]
              [] a = 3 -> [low EXCEPT !.mult1 = dat]
              [] a = 4 -> [low EXCEPT !.shift1 = dat]
              [] a = 5 -> [low EXCEPT !.mult2 = dat]
              [] a = 6 -> [low EXCEPT !.shift2 = dat]
              [] OTHER -> low
    BY <1>1, <1>5, <2>1 DEF SlaveEdge
  <2>3. t.start = (a = 0 /\ go) /\ \A n \in 1 .. 6 : Register(t, n) = IF a = n THEN dat ELSE Register(s, n)
    <3>1. CASE a = 0
      <4>1. t = [s EXCEPT !.start = go]
        BY <2>2, <3>1
      <4>2. /\ t.start = go /\ t.target = s.target /\ t.ptr = s.ptr /\ t.mult1 = s.mult1
            /\ t.shift1 = s.shift1 /\ t.mult2 = s.mult2 /\ t.shift2 = s.shift2
        BY <1>2, <4>1 DEF SlaveTyped
      <4>3. \A n \in 1 .. 6 : Register(t, n) = Register(s, n) /\ a # n
        BY <3>1, <4>2 DEF Register
      <4>4. (a = 0 /\ go) = go
        BY <1>2, <3>1
      <4>5. t.start = (a = 0 /\ go)
        BY <4>2, <4>4, Zenon
      <4> QED
        BY <4>3, <4>5, Zenon
    <3>2. CASE a \in 1 .. 6
      <4>1. /\ a = 1 => t = [low EXCEPT !.target = dat]
            /\ a = 2 => t = [low EXCEPT !.ptr = dat]
            /\ a = 3 => t = [low EXCEPT !.mult1 = dat]
            /\ a = 4 => t = [low EXCEPT !.shift1 = dat]
            /\ a = 5 => t = [low EXCEPT !.mult2 = dat]
            /\ a = 6 => t = [low EXCEPT !.shift2 = dat]
        BY <2>2
      <4>2. /\ t.target = (IF a = 1 THEN dat ELSE low.target)
            /\ t.ptr = (IF a = 2 THEN dat ELSE low.ptr)
            /\ t.mult1 = (IF a = 3 THEN dat ELSE low.mult1)
            /\ t.shift1 = (IF a = 4 THEN dat ELSE low.shift1)
            /\ t.mult2 = (IF a = 5 THEN dat ELSE low.mult2)
            /\ t.shift2 = (IF a = 6 THEN dat ELSE low.shift2)
            /\ t.start = FALSE
        BY <1>3, <3>2, <4>1 DEF SlaveTyped
      <4>3. \A n \in 1 .. 6 : Register(t, n) = IF a = n THEN dat ELSE Register(s, n)
        BY <1>3, <4>2 DEF Register
      <4>4. ~(a = 0)
        BY <3>2
      <4>5. (a = 0 /\ go) = FALSE
        BY <4>4, Zenon
      <4>6. t.start = (a = 0 /\ go)
        BY <4>2, <4>5, Zenon
      <4> QED
        BY <4>3, <4>6, Zenon
    <3>3. CASE a > 6
      <4>1. t = low
        BY <2>2, <3>3
      <4>2. \A n \in 1 .. 6 : Register(t, n) = Register(s, n) /\ a # n
        BY <1>3, <3>3, <4>1 DEF Register
      <4>3. a # 0
        BY <3>3
      <4> QED
        BY <1>3, <4>1, <4>2, <4>3
    <3> QED
      BY <2>1, <3>1, <3>2, <3>3
  <2>4. ASSUME NEW n \in 1 .. 6
        PROVE  Register(t, n) = IF Writing /\ bus.adr = n THEN Fits(n, bus.dat)
                               ELSE Register(s, n)
    BY <1>5, <2>1, <2>3, Zenon
  <2> QED
    BY <1>1, <1>5, <2>1, <2>3, <2>4, Zenon
<1> QED
  BY <1>4, <1>5

-----------------------------------------------------------------------------
(* What the requests of a plan have left on the board, one after the other.  *)

\* With j - 1 requests of plan p answered, land words of the next one on the board and k of
\* them counted: the words that were written are in their places, the target and the pointer
\* are those of the buffer that is loaded, and nothing runs before the start.
Laid(f, s, p, j, land, k) ==
  /\ \A g \in 0 .. 3 :
       /\ \A i \in 0 .. Span(g) - 1 : j > 3 * g + 3 \/ (j = 3 * g + 3 /\ i < land) => Kept(f, p, g, i)
       /\ j = 3 * g + 2 \/ j = 3 * g + 3 \/ (j = 3 * g + 1 /\ land > 0) => Register(s, 1) = g
       /\ j = 3 * g + 3 \/ (j = 3 * g + 2 /\ land > 0) => Register(s, 2) = 0
  /\ \A n \in 3 .. 6 : j > n + 10 \/ (j = n + 10 /\ land > 0) => Register(s, n) = Scalar(p, n)
  /\ ~(j = 17 /\ land > 0) => f.st = "IDLE" /\ ~s.start
  /\ j = 17 /\ land > 0 => IF k = 0 THEN f.st = "IDLE" /\ s.start ELSE ~s.start /\ Pipe(f, s)

\* All of a plan is on the board, and a pass over it runs or is done.
Ready(f, s, p) == AllKept(f, p) /\ Scalars(s, p) /\ ~s.start /\ Pipe(f, s)

\* The types that every edge keeps.
Typed == FfnTyped(ffn) /\ SlaveTyped(slave) /\ BusTyped

\* An edge that loads nothing into the buffers leaves them.
LEMMA BuffersStay ==
  ASSUME FfnEdge, Typed, Spared
  PROVE  \A g \in 0 .. 3 : Buffer(ffn', g) = Buffer(ffn, g)
<1>1. ASSUME NEW g \in 0 .. 3 PROVE Buffer(ffn', g) = Buffer(ffn, g)
  <2>1. ~Loads(g)
    BY DEF Loads, Spared
  <2>2. Buffer(ffn', g) = Put(Buffer(ffn, g), Span(g), Loads(g), BufAddr, Cell(g, bus.dat))
    BY BufferEdge DEF Typed
  <2> QED
    BY <2>1, <2>2, Zenon DEF Put
<1> QED
  BY <1>1

\* The scalars are registers.
LEMMA ScalarRegisters ==
  ASSUME NEW s, NEW p
  PROVE  Scalars(s, p) <=> \A n \in 3 .. 6 : Register(s, n) = Scalar(p, n)
<1>1. /\ Register(s, 3) = s.mult1 /\ Register(s, 4) = s.shift1 /\ Register(s, 5) = s.mult2
      /\ Register(s, 6) = s.shift2
      /\ Scalar(p, 3) = p.mult1 /\ Scalar(p, 4) = p.shift1 /\ Scalar(p, 5) = p.mult2
      /\ Scalar(p, 6) = p.shift2
  BY DEF Register, Scalar
<1>2. ASSUME NEW n \in 3 .. 6 PROVE n = 3 \/ n = 4 \/ n = 5 \/ n = 6
  OBVIOUS
<1>3. 3 \in 3 .. 6 /\ 4 \in 3 .. 6 /\ 5 \in 3 .. 6 /\ 6 \in 3 .. 6
  OBVIOUS
<1> QED
  BY <1>1, <1>2, <1>3 DEF Scalars

\* Registers that stay keep the scalars the pass uses.
LEMMA ScalarsStay ==
  ASSUME NEW s, NEW t, \A n \in 3 .. 6 : Register(t, n) = Register(s, n)
  PROVE  SameScalars(s, t)
<1>1. /\ Register(s, 3) = s.mult1 /\ Register(s, 4) = s.shift1 /\ Register(s, 5) = s.mult2
      /\ Register(s, 6) = s.shift2
      /\ Register(t, 3) = t.mult1 /\ Register(t, 4) = t.shift1 /\ Register(t, 5) = t.mult2
      /\ Register(t, 6) = t.shift2
  BY DEF Register
<1>2. 3 \in 3 .. 6 /\ 4 \in 3 .. 6 /\ 5 \in 3 .. 6 /\ 6 \in 3 .. 6
  OBVIOUS
<1> QED
  BY <1>1, <1>2 DEF SameScalars

\* An edge on which no scalar is written carries a pass on, or leaves the accelerator at rest
\* with its result; one on which it is at rest does not disturb it.
LEMMA PassGoesOn ==
  ASSUME FfnClock, Typed, Spared, ~slave.start,
         \A n \in 3 .. 6 : ~(Writing /\ bus.adr = n)
  PROVE  /\ Pipe(ffn, slave) => Pipe(ffn', slave')
         /\ ffn.st = "IDLE" => ffn'.st = "IDLE" /\ ffn'.eng2.cmem = ffn.eng2.cmem
<1>1. FfnEdge /\ SlaveEdge /\ FfnTyped(ffn) /\ SlaveTyped(slave) /\ BusTyped
  BY DEF FfnClock, Typed
<1>2. \A n \in 3 .. 6 : Register(slave', n) = Register(slave, n)
  BY <1>1, RegisterEdge
<1>3. SameScalars(slave, slave')
  BY <1>2, ScalarsStay
<1>4. Pipe(ffn, slave) => Pipe(ffn', slave')
  BY <1>1, <1>3, PipeKeeps, PipeScalars
<1>5. ASSUME ffn.st = "IDLE"
      PROVE  ffn'.st = "IDLE" /\ ffn'.eng2.cmem = ffn.eng2.cmem
  <2>1. ffn'.st = "IDLE"
    BY <1>1, <1>5, PipeStarts
  <2>2. ffn.eng2.st = "IDLE" /\ ffn.st # "RUN2"
    BY <1>1, <1>5 DEF FfnTyped
  <2> QED
    BY <1>1, <2>1, <2>2, BothRest
<1> QED
  BY <1>4, <1>5

\* What a plan needs stays on the board while nothing is loaded.
LEMMA ReadyEdge ==
  ASSUME FfnClock, Typed, Spared, NEW p, Ready(ffn, slave, p),
         Writing => bus.adr = 2
  PROVE  /\ Ready(ffn', slave', p)
         /\ ffn.st = "IDLE" => ffn'.st = "IDLE" /\ ffn'.eng2.cmem = ffn.eng2.cmem
<1>1. FfnEdge /\ SlaveEdge /\ FfnTyped(ffn) /\ SlaveTyped(slave) /\ BusTyped
  BY DEF FfnClock, Typed
<1>2. /\ AllKept(ffn, p) /\ Scalars(slave, p) /\ ~slave.start /\ Pipe(ffn, slave)
  BY DEF Ready
<1>3. ASSUME NEW n \in 3 .. 6 PROVE ~(Writing /\ bus.adr = n) /\ n \in 1 .. 6
  OBVIOUS
<1>4. \A n \in 3 .. 6 : Register(slave', n) = Register(slave, n)
  BY <1>1, <1>3, RegisterEdge
<1>5. Scalars(slave', p)
  BY <1>2, <1>4, ScalarRegisters
<1>6. ~slave'.start
  <2>1. ~(Writing /\ bus.adr = 0)
    OBVIOUS
  <2>2. slave'.start = (Writing /\ bus.adr = 0 /\ bus.dat % 2 = 1)
    BY <1>1, RegisterEdge
  <2> QED
    BY <2>1, <2>2, Zenon
<1>7. AllKept(ffn', p)
  BY <1>2, BuffersStay DEF AllKept, Kept, FfnClock
<1>8. /\ Pipe(ffn', slave')
      /\ ffn.st = "IDLE" => ffn'.st = "IDLE" /\ ffn'.eng2.cmem = ffn.eng2.cmem
  BY <1>2, <1>3, PassGoesOn
<1> QED
  BY <1>5, <1>6, <1>7, <1>8 DEF Ready

\* What is laid stays when nothing is written; a start that was, has begun the pass.
LEMMA LaidQuiet ==
  ASSUME FfnClock, Typed, ~Writing, NEW p, NEW j \in 1 .. 17, NEW land, NEW k, NEW m,
         Laid(ffn, slave, p, j, land, k), j = 17 /\ land > 0 => m # 0
  PROVE  Laid(ffn', slave', p, j, land, m)
<1>1. FfnEdge /\ SlaveEdge /\ FfnTyped(ffn) /\ SlaveTyped(slave) /\ BusTyped /\ Spared
  BY DEF FfnClock, Typed, Spared
<1>2. \A n \in 1 .. 6 : Register(slave', n) = Register(slave, n)
  BY <1>1, RegisterEdge
<1>3. ~slave'.start
  <2>1. slave'.start = (Writing /\ bus.adr = 0 /\ bus.dat % 2 = 1)
    BY <1>1, RegisterEdge
  <2> QED
    BY <2>1, Zenon
<1>4. \A g \in 0 .. 3 : Buffer(ffn', g) = Buffer(ffn, g)
  BY <1>1, BuffersStay
<1>5. \A n \in 3 .. 6 : Register(slave', n) = Register(slave, n)
  BY <1>2
<1>6. ASSUME ~(j = 17 /\ land > 0) PROVE ffn'.st = "IDLE"
  <2>1. ffn.st = "IDLE" /\ ~slave.start
    BY <1>6 DEF Laid
  <2> QED
    BY <1>1, <2>1, PipeStarts
<1>7. ASSUME j = 17 /\ land > 0 PROVE Pipe(ffn', slave')
  <2>1. CASE k = 0
    <3>1. ffn.st = "IDLE" /\ slave.start
      BY <1>7, <2>1 DEF Laid
    <3> QED
      BY <1>1, <3>1, PipeStarts
  <2>2. CASE k # 0
    <3>1. ~slave.start /\ Pipe(ffn, slave)
      BY <1>7, <2>2 DEF Laid
    <3> QED
      BY <1>1, <3>1, PassGoesOn
  <2> QED
    BY <2>1, <2>2
<1>8. /\ \A g \in 0 .. 3 :
           /\ \A i \in 0 .. Span(g) - 1 : j > 3 * g + 3 \/ (j = 3 * g + 3 /\ i < land) => Kept(ffn', p, g, i)
           /\ j = 3 * g + 2 \/ j = 3 * g + 3 \/ (j = 3 * g + 1 /\ land > 0) => Register(slave', 1) = g
           /\ j = 3 * g + 3 \/ (j = 3 * g + 2 /\ land > 0) => Register(slave', 2) = 0
  <2>1. Register(slave', 1) = Register(slave, 1) /\ Register(slave', 2) = Register(slave, 2)
    BY <1>2
  <2>2. \A g \in 0 .. 3 : \A i : Kept(ffn', p, g, i) <=> Kept(ffn, p, g, i)
    BY <1>4, Zenon DEF Kept
  <2> QED
    BY <2>1, <2>2 DEF Laid
<1>9. \A n \in 3 .. 6 : j > n + 10 \/ (j = n + 10 /\ land > 0) => Register(slave', n) = Scalar(p, n)
  BY <1>5 DEF Laid
<1>10. m = 0 => ~(j = 17 /\ land > 0)
  OBVIOUS
<1> QED
  BY <1>3, <1>6, <1>7, <1>8, <1>9, <1>10 DEF Laid

\* A word to a register does nothing else.
LEMMA RegisterWord ==
  ASSUME FfnClock, Typed, Writing, NEW a \in 0 .. 15, a = bus.adr,
         ffn.st = "IDLE", ~slave.start
  PROVE  /\ \A n \in 1 .. 6 :
              Register(slave', n) = IF a = n THEN Fits(n, bus.dat) ELSE Register(slave, n)
         /\ slave'.start = (a = 0 /\ bus.dat % 2 = 1)
         /\ \A g \in 0 .. 3 : Buffer(ffn', g) = Buffer(ffn, g)
         /\ ffn'.st = "IDLE"
<1>1. FfnEdge /\ SlaveEdge /\ FfnTyped(ffn) /\ SlaveTyped(slave) /\ BusTyped
  BY DEF FfnClock, Typed
<1>2. ~InData
  BY DEF InData, DATA_WORD
<1>3. Spared
  BY <1>2 DEF Spared
<1>4. /\ \A n \in 1 .. 6 : Register(slave', n) =
            IF Writing /\ bus.adr = n THEN Fits(n, bus.dat) ELSE Register(slave, n)
      /\ slave'.start = (Writing /\ bus.adr = 0 /\ bus.dat % 2 = 1)
  BY <1>1, RegisterEdge
<1>5. (Writing /\ bus.adr = 0 /\ bus.dat % 2 = 1) = (a = 0 /\ bus.dat % 2 = 1)
  BY Zenon
<1>6. ffn'.st = "IDLE"
  BY <1>1, PipeStarts
<1> QED
  BY <1>1, <1>3, <1>4, <1>5, <1>6, BuffersStay

\* A word of a part goes into its place, and does nothing else.
LEMMA PartWord ==
  ASSUME FfnClock, Typed, Writing, NEW g \in 0 .. 3, NEW i \in 0 .. Span(g) - 1,
         bus.adr = 16 + i, Register(slave, 1) = g, Register(slave, 2) = 0,
         ffn.st = "IDLE", ~slave.start
  PROVE  /\ \A n \in 1 .. 6 : Register(slave', n) = Register(slave, n)
         /\ ~slave'.start /\ ffn'.st = "IDLE"
         /\ \A h \in 0 .. 3 : h # g => Buffer(ffn', h) = Buffer(ffn, h)
         /\ Buffer(ffn', g)[i] = Cell(g, bus.dat)
         /\ \A l \in 0 .. Span(g) - 1 : l # i => Buffer(ffn', g)[l] = Buffer(ffn, g)[l]
<1>1. FfnEdge /\ SlaveEdge /\ FfnTyped(ffn) /\ SlaveTyped(slave) /\ BusTyped
  BY DEF FfnClock, Typed
<1>2. InData /\ \A n \in 0 .. 6 : bus.adr # n
  BY SpanFits DEF InData, DATA_WORD
<1>3. \A n \in 1 .. 6 : Register(slave', n) = Register(slave, n)
  BY <1>1, <1>2, RegisterEdge
<1>4. ~slave'.start
  <2>1. slave'.start = (Writing /\ bus.adr = 0 /\ bus.dat % 2 = 1)
    BY <1>1, RegisterEdge
  <2>2. bus.adr # 0
    BY <1>2
  <2> QED
    BY <2>1, <2>2, Zenon
<1>5. slave.target = g /\ slave.ptr = 0
  BY DEF Register
<1>6. \A h \in 0 .. 3 : Loads(h) <=> h = g
  BY <1>2, <1>5 DEF Loads
<1>7. PICK n \in Nat \ {0} : n = Span(g)
  BY SpanFits
<1>8. BufAddr = i /\ i % n = i
  <2>1. i \in Nat /\ i < n
    BY <1>7
  <2>2. i < PTR_SPAN /\ slave.ptr + bus.adr - DATA_WORD = i
    BY <1>5, <1>7, <2>1, SpanFits DEF DATA_WORD, PTR_SPAN
  <2>3. i % PTR_SPAN = i
    BY <2>1, <2>2 DEF PTR_SPAN
  <2>4. BufAddr = i
    BY <2>2, <2>3 DEF BufAddr
  <2> QED
    BY <2>1, <2>4, PortPlace
<1>9. ASSUME NEW h \in 0 .. 3, h # g PROVE Buffer(ffn', h) = Buffer(ffn, h)
  <2>1. ~Loads(h)
    BY <1>6, <1>9
  <2>2. Buffer(ffn', h) = Put(Buffer(ffn, h), Span(h), Loads(h), BufAddr, Cell(h, bus.dat))
    BY <1>1, BufferEdge
  <2> QED
    BY <2>1, <2>2, Zenon DEF Put
<1>10. Buffer(ffn', g) = [Buffer(ffn, g) EXCEPT ![i] = Cell(g, bus.dat)]
  <2>1. Loads(g)
    BY <1>6
  <2>2. Buffer(ffn', g) = Put(Buffer(ffn, g), Span(g), Loads(g), BufAddr, Cell(g, bus.dat))
    BY <1>1, BufferEdge
  <2> QED
    BY <1>7, <1>8, <2>1, <2>2, Zenon DEF Put
<1>11. DOMAIN Buffer(ffn, g) = 0 .. Span(g) - 1
  <2>1. g = 0 \/ g = 1 \/ g = 2 \/ g = 3
    OBVIOUS
  <2> QED
    BY <1>1, <2>1 DEF FfnTyped, EngineTyped, Buffer, Span
<1>12. ffn'.st = "IDLE"
  BY <1>1, PipeStarts
<1> QED
  BY <1>3, <1>4, <1>9, <1>10, <1>11, <1>12

\* The word of a request on the bus, by the place of the request in the plan.
LEMMA LaidTarget ==
  ASSUME FfnClock, Typed, Writing, NEW p, NEW g \in 0 .. 3, NEW j, j = 3 * g + 1,
         Laid(ffn, slave, p, j, 0, 0), bus.adr = 1, bus.dat = g
  PROVE  Laid(ffn', slave', p, j, 1, 0)
<1>1. j \in 1 .. 16 /\ ffn.st = "IDLE" /\ ~slave.start
  <2>1. j \in 1 .. 16
    OBVIOUS
  <2> QED
    BY <2>1 DEF Laid
<1>2. PICK a : a = 1
  OBVIOUS
<1>3. a \in 0 .. 15 /\ a = bus.adr
  BY <1>2
<1>4. /\ \A n \in 1 .. 6 : Register(slave', n) = IF a = n THEN Fits(n, bus.dat) ELSE Register(slave, n)
      /\ slave'.start = (a = 0 /\ bus.dat % 2 = 1)
      /\ \A h \in 0 .. 3 : Buffer(ffn', h) = Buffer(ffn, h)
      /\ ffn'.st = "IDLE"
  BY <1>1, <1>3, RegisterWord
<1>5. ~slave'.start
  <2>1. a # 0
    BY <1>2
  <2> QED
    BY <1>4, <2>1, Zenon
<1>6. Register(slave', 1) = g /\ \A n \in 3 .. 6 : Register(slave', n) = Register(slave, n)
  <2>1. Fits(1, g) = g
    BY Fitted
  <2> QED
    BY <1>2, <1>4, <2>1
<1>7. \A h \in 0 .. 3 : \A i : Kept(ffn', p, h, i) <=> Kept(ffn, p, h, i)
  BY <1>4, Zenon DEF Kept
<1>8. ASSUME NEW h \in 0 .. 3
      PROVE  /\ \A i \in 0 .. Span(h) - 1 : j > 3 * h + 3 \/ (j = 3 * h + 3 /\ i < 1) => Kept(ffn', p, h, i)
             /\ j = 3 * h + 2 \/ j = 3 * h + 3 \/ (j = 3 * h + 1 /\ 1 > 0) => Register(slave', 1) = h
             /\ j = 3 * h + 3 \/ (j = 3 * h + 2 /\ 1 > 0) => Register(slave', 2) = 0
  <2>1. j # 3 * h + 3 /\ j # 3 * h + 2 /\ (j = 3 * h + 1 => h = g)
    OBVIOUS
  <2> QED
    BY <1>6, <1>7, <2>1 DEF Laid
<1>9. \A n \in 3 .. 6 : j > n + 10 \/ (j = n + 10 /\ 1 > 0) => Register(slave', n) = Scalar(p, n)
  <2>1. \A n \in 3 .. 6 : ~(j = n + 10) /\ ~(j > n + 10)
    OBVIOUS
  <2> QED
    BY <2>1
<1>10. j # 17
  BY <1>1
<1> QED
  BY <1>4, <1>5, <1>8, <1>9, <1>10 DEF Laid

LEMMA LaidPointer ==
  ASSUME FfnClock, Typed, Writing, NEW p, NEW g \in 0 .. 3, NEW j, j = 3 * g + 2,
         Laid(ffn, slave, p, j, 0, 0), bus.adr = 2, bus.dat = 0
  PROVE  Laid(ffn', slave', p, j, 1, 0)
<1>1. j \in 1 .. 16 /\ ffn.st = "IDLE" /\ ~slave.start
  <2>1. j \in 1 .. 16
    OBVIOUS
  <2> QED
    BY <2>1 DEF Laid
<1>2. PICK a : a = 2
  OBVIOUS
<1>3. a \in 0 .. 15 /\ a = bus.adr
  BY <1>2
<1>4. /\ \A n \in 1 .. 6 : Register(slave', n) = IF a = n THEN Fits(n, bus.dat) ELSE Register(slave, n)
      /\ slave'.start = (a = 0 /\ bus.dat % 2 = 1)
      /\ \A h \in 0 .. 3 : Buffer(ffn', h) = Buffer(ffn, h)
      /\ ffn'.st = "IDLE"
  BY <1>1, <1>3, RegisterWord
<1>5. ~slave'.start
  <2>1. a # 0
    BY <1>2
  <2> QED
    BY <1>4, <2>1, Zenon
<1>6. Register(slave', 1) = Register(slave, 1) /\ Register(slave', 2) = 0
  <2>1. Fits(2, 0) = 0
    BY Fitted DEF PTR_SPAN
  <2> QED
    BY <1>2, <1>4, <2>1
<1>7. \A h \in 0 .. 3 : \A i : Kept(ffn', p, h, i) <=> Kept(ffn, p, h, i)
  BY <1>4, Zenon DEF Kept
<1>8. ASSUME NEW h \in 0 .. 3
      PROVE  /\ \A i \in 0 .. Span(h) - 1 : j > 3 * h + 3 \/ (j = 3 * h + 3 /\ i < 1) => Kept(ffn', p, h, i)
             /\ j = 3 * h + 2 \/ j = 3 * h + 3 \/ (j = 3 * h + 1 /\ 1 > 0) => Register(slave', 1) = h
             /\ j = 3 * h + 3 \/ (j = 3 * h + 2 /\ 1 > 0) => Register(slave', 2) = 0
  <2>1. j # 3 * h + 3 /\ j # 3 * h + 1
    OBVIOUS
  <2> QED
    BY <1>6, <1>7, <2>1 DEF Laid
<1>9. \A n \in 3 .. 6 : j > n + 10 \/ (j = n + 10 /\ 1 > 0) => Register(slave', n) = Scalar(p, n)
  <2>1. \A n \in 3 .. 6 : ~(j = n + 10) /\ ~(j > n + 10)
    OBVIOUS
  <2> QED
    BY <2>1
<1>10. j # 17
  BY <1>1
<1> QED
  BY <1>4, <1>5, <1>8, <1>9, <1>10 DEF Laid

LEMMA LaidPart ==
  ASSUME FfnClock, Typed, Writing, NEW p, NEW g \in 0 .. 3, NEW j, j = 3 * g + 3,
         NEW k \in 0 .. Span(g) - 1, Laid(ffn, slave, p, j, k, k),
         bus.adr = 16 + k, bus.dat = Part(p, g)[k + 1]
  PROVE  Laid(ffn', slave', p, j, k + 1, k)
<1>1. j \in 1 .. 16 /\ ffn.st = "IDLE" /\ ~slave.start
  <2>1. j \in 1 .. 16
    OBVIOUS
  <2> QED
    BY <2>1 DEF Laid
<1>2. Register(slave, 1) = g /\ Register(slave, 2) = 0
  BY DEF Laid
<1>3. /\ \A n \in 1 .. 6 : Register(slave', n) = Register(slave, n)
      /\ ~slave'.start /\ ffn'.st = "IDLE"
      /\ \A h \in 0 .. 3 : h # g => Buffer(ffn', h) = Buffer(ffn, h)
      /\ Buffer(ffn', g)[k] = Cell(g, bus.dat)
      /\ \A l \in 0 .. Span(g) - 1 : l # k => Buffer(ffn', g)[l] = Buffer(ffn, g)[l]
  BY <1>1, <1>2, PartWord
<1>4. Register(slave', 1) = g /\ Register(slave', 2) = 0
  BY <1>2, <1>3
<1>5. ASSUME NEW h \in 0 .. 3
      PROVE  /\ \A i \in 0 .. Span(h) - 1 : j > 3 * h + 3 \/ (j = 3 * h + 3 /\ i < k + 1) => Kept(ffn', p, h, i)
             /\ j = 3 * h + 2 \/ j = 3 * h + 3 \/ (j = 3 * h + 1 /\ k + 1 > 0) => Register(slave', 1) = h
             /\ j = 3 * h + 3 \/ (j = 3 * h + 2 /\ k + 1 > 0) => Register(slave', 2) = 0
  <2>1. j # 3 * h + 2 /\ j # 3 * h + 1 /\ (j = 3 * h + 3 => h = g) /\ (j > 3 * h + 3 => h # g)
    OBVIOUS
  <2>2. ASSUME NEW i \in 0 .. Span(h) - 1, j > 3 * h + 3 \/ (j = 3 * h + 3 /\ i < k + 1)
        PROVE  Kept(ffn', p, h, i)
    <3>1. CASE j > 3 * h + 3
      <4>1. Kept(ffn, p, h, i) /\ h # g
        BY <2>1, <3>1 DEF Laid
      <4> QED
        BY <1>3, <4>1 DEF Kept
    <3>2. CASE h = g /\ i = k
      BY <1>3, <3>2 DEF Kept
    <3>3. CASE h = g /\ i < k
      <4>1. Kept(ffn, p, g, i) /\ i # k
        BY <3>3 DEF Laid
      <4> QED
        BY <1>3, <3>3, <4>1 DEF Kept
    <3>4. i = k \/ i < k \/ ~(i < k + 1)
      <4>1. PICK n \in Nat : n = Span(h)
        BY SpanFits
      <4>2. PICK m \in Nat : m = Span(g)
        BY SpanFits
      <4> QED
        BY <4>1, <4>2
    <3> QED
      BY <2>1, <2>2, <3>1, <3>2, <3>3, <3>4
  <2> QED
    BY <1>4, <2>1, <2>2
<1>6. \A n \in 3 .. 6 : j > n + 10 \/ (j = n + 10 /\ k + 1 > 0) => Register(slave', n) = Scalar(p, n)
  <2>1. \A n \in 3 .. 6 : ~(j = n + 10) /\ ~(j > n + 10)
    OBVIOUS
  <2> QED
    BY <2>1
<1>7. j # 17
  BY <1>1
<1> QED
  BY <1>3, <1>5, <1>6, <1>7 DEF Laid

\* The numbers of a plan fit their registers.
LEMMA ScalarFits ==
  ASSUME NEW p \in Plans, NEW m \in 3 .. 6
  PROVE  Fits(m, Scalar(p, m)) = Scalar(p, m)
<1>1. PICK v : v = Scalar(p, m)
  OBVIOUS
<1>2. v \in Nat
  BY <1>1, PlanFields DEF Scalar
<1>3. m = 4 \/ m = 6 => v < SHIFT_SPAN
  BY <1>1, PlanFields DEF Scalar
<1>4. m \in Nat /\ (m \in {4, 6} \/ m \in {3, 5})
  OBVIOUS
<1>5. Fits(m, v) = v
  BY <1>2, <1>3, <1>4, Fitted
<1> QED
  BY <1>1, <1>5

LEMMA LaidScalar ==
  ASSUME FfnClock, Typed, Writing, NEW p \in Plans, NEW m \in 3 .. 6, NEW j, j = m + 10,
         Laid(ffn, slave, p, j, 0, 0), bus.adr = m, bus.dat = Scalar(p, m)
  PROVE  Laid(ffn', slave', p, j, 1, 0)
<1>1. j \in 13 .. 16 /\ ffn.st = "IDLE" /\ ~slave.start
  <2>1. j \in 13 .. 16
    OBVIOUS
  <2> QED
    BY <2>1 DEF Laid
<1>2. m \in 0 .. 15
  OBVIOUS
<1>3. /\ \A n \in 1 .. 6 : Register(slave', n) = IF m = n THEN Fits(n, bus.dat) ELSE Register(slave, n)
      /\ slave'.start = (m = 0 /\ bus.dat % 2 = 1)
      /\ \A h \in 0 .. 3 : Buffer(ffn', h) = Buffer(ffn, h)
      /\ ffn'.st = "IDLE"
  BY <1>1, <1>2, RegisterWord
<1>4. ~slave'.start
  <2>1. m # 0
    OBVIOUS
  <2> QED
    BY <1>3, <2>1, Zenon
<1>5. \A h \in 0 .. 3 : \A i : Kept(ffn', p, h, i) <=> Kept(ffn, p, h, i)
  BY <1>3, Zenon DEF Kept
<1>6. ASSUME NEW h \in 0 .. 3
      PROVE  /\ \A i \in 0 .. Span(h) - 1 : j > 3 * h + 3 \/ (j = 3 * h + 3 /\ i < 1) => Kept(ffn', p, h, i)
             /\ j = 3 * h + 2 \/ j = 3 * h + 3 \/ (j = 3 * h + 1 /\ 1 > 0) => Register(slave', 1) = h
             /\ j = 3 * h + 3 \/ (j = 3 * h + 2 /\ 1 > 0) => Register(slave', 2) = 0
  <2>1. j # 3 * h + 3 /\ j # 3 * h + 2 /\ j # 3 * h + 1
    OBVIOUS
  <2> QED
    BY <1>5, <2>1 DEF Laid
<1>7. ASSUME NEW n \in 3 .. 6, j > n + 10 \/ (j = n + 10 /\ 1 > 0)
      PROVE  Register(slave', n) = Scalar(p, n)
  <2>1. CASE n = m
    <3>1. Fits(m, bus.dat) = bus.dat
      BY ScalarFits
    <3> QED
      BY <1>3, <2>1, <3>1
  <2>2. CASE n # m
    <3>1. j > n + 10
      BY <1>7, <2>2
    <3>2. Register(slave, n) = Scalar(p, n)
      BY <3>1 DEF Laid
    <3> QED
      BY <1>3, <2>2, <3>2
  <2> QED
    BY <2>1, <2>2
<1>8. j # 17
  BY <1>1
<1> QED
  BY <1>3, <1>4, <1>6, <1>7, <1>8 DEF Laid

LEMMA LaidStart ==
  ASSUME FfnClock, Typed, Writing, NEW p, Laid(ffn, slave, p, 17, 0, 0),
         bus.adr = 0, bus.dat = 1
  PROVE  Laid(ffn', slave', p, 17, 1, 0)
<1>1. ffn.st = "IDLE" /\ ~slave.start
  BY DEF Laid
<1>2. PICK a, j : a = 0 /\ j = 17
  OBVIOUS
<1>3. a \in 0 .. 15 /\ a = bus.adr
  BY <1>2
<1>4. /\ \A n \in 1 .. 6 : Register(slave', n) = IF a = n THEN Fits(n, bus.dat) ELSE Register(slave, n)
      /\ slave'.start = (a = 0 /\ bus.dat % 2 = 1)
      /\ \A h \in 0 .. 3 : Buffer(ffn', h) = Buffer(ffn, h)
      /\ ffn'.st = "IDLE"
  BY <1>1, <1>3, RegisterWord
<1>5. slave'.start
  <2>1. a = 0 /\ bus.dat % 2 = 1
    BY <1>2
  <2> QED
    BY <1>4, <2>1, Zenon
<1>6. \A h \in 0 .. 3 : \A i : Kept(ffn', p, h, i) <=> Kept(ffn, p, h, i)
  BY <1>4, Zenon DEF Kept
<1>7. \A n \in 1 .. 6 : Register(slave', n) = Register(slave, n)
  BY <1>2, <1>4
<1>8. ASSUME NEW h \in 0 .. 3
      PROVE  /\ \A i \in 0 .. Span(h) - 1 : j > 3 * h + 3 \/ (j = 3 * h + 3 /\ i < 1) => Kept(ffn', p, h, i)
             /\ j = 3 * h + 2 \/ j = 3 * h + 3 \/ (j = 3 * h + 1 /\ 1 > 0) => Register(slave', 1) = h
             /\ j = 3 * h + 3 \/ (j = 3 * h + 2 /\ 1 > 0) => Register(slave', 2) = 0
  <2>1. j # 3 * h + 3 /\ j # 3 * h + 2 /\ j # 3 * h + 1
    BY <1>2
  <2> QED
    BY <1>2, <1>6, <2>1 DEF Laid
<1>9. ASSUME NEW n \in 3 .. 6 PROVE Register(slave', n) = Scalar(p, n)
  <2>1. Register(slave, n) = Scalar(p, n)
    BY DEF Laid
  <2> QED
    BY <1>7, <2>1
<1> QED
  BY <1>2, <1>4, <1>5, <1>8, <1>9 DEF Laid

\* Whatever request of the plan it is, its word has its effect.
LEMMA LaidWord ==
  ASSUME FfnClock, Typed, Writing, NEW p \in Plans, NEW j \in 1 .. 17,
         NEW r, r = Asks(run_plan(p)[j]), NEW k \in 0 .. r.size - 1,
         bus.adr = r.adr + k, bus.dat = r.words[k + 1], Laid(ffn, slave, p, j, k, k)
  PROVE  Laid(ffn', slave', p, j, k + 1, k)
<1>1. Planned(p, run_plan(p))
  BY PlanRequests
<1>2. ASSUME NEW adr \in Nat, NEW v, run_plan(p)[j] = Write(adr, <<v>>)
      PROVE  k = 0 /\ k + 1 = 1 /\ bus.adr = adr /\ bus.dat = v
  <2>1. r.size = 1 /\ r.adr = adr /\ r.words[1] = v
    BY <1>2, WordAsks
  <2>2. k = 0
    BY <2>1
  <2> QED
    BY <2>1, <2>2
<1>3. ASSUME NEW g \in 0 .. 3, j = 3 * g + 1
      PROVE  Laid(ffn', slave', p, j, k + 1, k)
  <2>1. run_plan(p)[j] = Write(1, <<g>>) /\ 1 \in Nat
    BY <1>1, <1>3 DEF Planned
  <2>2. k = 0 /\ k + 1 = 1 /\ bus.adr = 1 /\ bus.dat = g
    BY <1>2, <2>1
  <2> QED
    BY <1>3, <2>2, LaidTarget
<1>4. ASSUME NEW g \in 0 .. 3, j = 3 * g + 2
      PROVE  Laid(ffn', slave', p, j, k + 1, k)
  <2>1. run_plan(p)[j] = Write(2, <<0>>) /\ 2 \in Nat
    BY <1>1, <1>4 DEF Planned
  <2>2. k = 0 /\ k + 1 = 1 /\ bus.adr = 2 /\ bus.dat = 0
    BY <1>2, <2>1
  <2> QED
    BY <1>4, <2>2, LaidPointer
<1>5. ASSUME NEW g \in 0 .. 3, j = 3 * g + 3
      PROVE  Laid(ffn', slave', p, j, k + 1, k)
  <2>1. run_plan(p)[j] = Write(16, Part(p, g))
    BY <1>1, <1>5 DEF Planned
  <2>2. /\ r.adr = 16 /\ r.size = Span(g)
        /\ \A i \in 0 .. Span(g) - 1 : r.words[i + 1] = Part(p, g)[i + 1]
    BY <2>1, PartAsks
  <2>3. k \in 0 .. Span(g) - 1 /\ bus.adr = 16 + k /\ bus.dat = Part(p, g)[k + 1]
    BY <2>2
  <2> QED
    BY <1>5, <2>3, LaidPart
<1>6. ASSUME NEW n \in 3 .. 6, j = n + 10
      PROVE  Laid(ffn', slave', p, j, k + 1, k)
  <2>3. run_plan(p)[n + 10] = Write(n, <<Scalar(p, n)>>)
    BY <1>1 DEF Planned
  <2>4. run_plan(p)[j] = Write(n, <<Scalar(p, n)>>)
    BY <1>6, <2>3, Zenon
  <2>1. run_plan(p)[j] = Write(n, <<Scalar(p, n)>>) /\ n \in Nat
    BY <2>4
  <2>2. k = 0 /\ k + 1 = 1 /\ bus.adr = n /\ bus.dat = Scalar(p, n)
    BY <1>2, <2>1
  <2> QED
    BY <1>6, <2>2, LaidScalar
<1>7. CASE j = 17
  <2>1. run_plan(p)[j] = Write(0, <<1>>) /\ 0 \in Nat
    BY <1>1, <1>7 DEF Planned
  <2>2. k = 0 /\ k + 1 = 1 /\ bus.adr = 0 /\ bus.dat = 1
    BY <1>2, <2>1
  <2>3. Laid(ffn, slave, p, 17, 0, 0)
    BY <1>7, <2>2
  <2>4. Laid(ffn', slave', p, 17, 1, 0)
    BY <2>2, <2>3, LaidStart
  <2> QED
    BY <1>7, <2>2, <2>4
<1> QED
  BY <1>3, <1>4, <1>5, <1>6, <1>7, WhichRequest

\* A request of the plan that is answered has left all that it should.
LEMMA LaidNext ==
  ASSUME NEW p \in Plans, NEW j \in 1 .. 16, NEW f, NEW s,
         NEW n, n = Asks(run_plan(p)[j]).size, Laid(f, s, p, j, n, n)
  PROVE  Laid(f, s, p, j + 1, 0, 0)
<1>1. Planned(p, run_plan(p))
  BY PlanRequests
<1>2. Suited(Asks(run_plan(p)[j]))
  BY PlanSuited
<1>3. n \in Nat \ {0}
  BY <1>2 DEF Suited
<1>4. ASSUME NEW g \in 0 .. 3, j = 3 * g + 3 PROVE n = Span(g)
  <2>1. run_plan(p)[j] = Write(16, Part(p, g))
    BY <1>1, <1>4 DEF Planned
  <2> QED
    BY <2>1, PartAsks
<1>5. ASSUME NEW g \in 0 .. 3
      PROVE  /\ \A i \in 0 .. Span(g) - 1 : j + 1 > 3 * g + 3 \/ (j + 1 = 3 * g + 3 /\ i < 0) => Kept(f, p, g, i)
             /\ j + 1 = 3 * g + 2 \/ j + 1 = 3 * g + 3 \/ (j + 1 = 3 * g + 1 /\ 0 > 0) => Register(s, 1) = g
             /\ j + 1 = 3 * g + 3 \/ (j + 1 = 3 * g + 2 /\ 0 > 0) => Register(s, 2) = 0
  <2>1. ASSUME NEW i \in 0 .. Span(g) - 1, j + 1 > 3 * g + 3 \/ (j + 1 = 3 * g + 3 /\ i < 0)
        PROVE  Kept(f, p, g, i)
    <3>1. PICK m \in Nat : m = Span(g)
      BY SpanFits
    <3>2. j > 3 * g + 3 \/ (j = 3 * g + 3 /\ i < m)
      BY <2>1, <3>1
    <3>3. j > 3 * g + 3 \/ (j = 3 * g + 3 /\ i < n)
      BY <1>4, <3>1, <3>2
    <3> QED
      BY <3>3 DEF Laid
  <2>2. j + 1 = 3 * g + 2 \/ j + 1 = 3 * g + 3 => Register(s, 1) = g
    <3> SUFFICES ASSUME j + 1 = 3 * g + 2 \/ j + 1 = 3 * g + 3 PROVE Register(s, 1) = g
      OBVIOUS
    <3>1. j = 3 * g + 2 \/ j = 3 * g + 3 \/ (j = 3 * g + 1 /\ n > 0)
      BY <1>3
    <3> QED
      BY <3>1 DEF Laid
  <2>3. j + 1 = 3 * g + 3 => Register(s, 2) = 0
    <3> SUFFICES ASSUME j + 1 = 3 * g + 3 PROVE Register(s, 2) = 0
      OBVIOUS
    <3>1. j = 3 * g + 2 /\ n > 0
      BY <1>3
    <3> QED
      BY <3>1 DEF Laid
  <2> QED
    BY <2>1, <2>2, <2>3
<1>6. ASSUME NEW m \in 3 .. 6, j + 1 > m + 10 \/ (j + 1 = m + 10 /\ 0 > 0)
      PROVE  Register(s, m) = Scalar(p, m)
  <2>1. j > m + 10 \/ (j = m + 10 /\ n > 0)
    BY <1>3, <1>6
  <2> QED
    BY <2>1 DEF Laid
<1>7. f.st = "IDLE" /\ ~s.start
  BY DEF Laid
<1> QED
  BY <1>5, <1>6, <1>7 DEF Laid

\* With the start answered, everything is there and the pass runs.
LEMMA LaidReady ==
  ASSUME NEW p \in Plans, NEW f, NEW s, NEW n, n = Asks(run_plan(p)[17]).size,
         Laid(f, s, p, 17, n, n)
  PROVE  Ready(f, s, p)
<1>1. run_plan(p)[17] = Write(0, <<1>>)
  BY PlanRequests DEF Planned
<1>2. n = 1
  BY <1>1, WordAsks
<1>3. PICK j : j = 17
  OBVIOUS
<1>4. Laid(f, s, p, j, n, n)
  BY <1>3
<1>5. ASSUME NEW g \in 0 .. 3, NEW i \in 0 .. Span(g) - 1 PROVE Kept(f, p, g, i)
  <2>1. j > 3 * g + 3
    BY <1>3
  <2> QED
    BY <1>4, <2>1 DEF Laid
<1>6. ASSUME NEW m \in 3 .. 6 PROVE Register(s, m) = Scalar(p, m)
  <2>1. j > m + 10
    BY <1>3
  <2> QED
    BY <1>4, <2>1 DEF Laid
<1>7. ~s.start /\ Pipe(f, s)
  BY <1>2, <1>3, <1>4 DEF Laid
<1> QED
  BY <1>5, <1>6, <1>7, ScalarRegisters DEF Ready, AllKept

-----------------------------------------------------------------------------
(* Where a program is.                                                       *)

\* The requests of plan p from the j-th on.
Ahead(todo, p, j) ==
  /\ todo \in Seq(Sends(p)) /\ Len(todo) = 18 - j
  /\ \A i \in 1 .. 18 - j : todo[i] = run_plan(p)[j + i - 1]

\* In its straight-line part a program has laid what the requests it sent ask for.
Laying(c, f, s, land, k) ==
  \E j \in 1 .. 17 : Ahead(c.todo, c.job, j) /\ Laid(f, s, c.job, j, land, k)

\* A poll that reads a done accelerator reads the truth.
Polling(c, o, f, s, k) ==
  Ready(f, s, c.job) /\ (k > 0 /\ o[1] % 2 = 1 => f.st = "IDLE")

\* The result is read from its start, and a word that was acknowledged is in the register
\* the next one of the response comes from.
Final == Read(DATA_WORD, Tiles(M) * N)
Gathered(o, f, land, k) ==
  /\ k > 0 => Len(o) = k /\ \A i \in 0 .. k - 1 : o[i + 1] = f.eng2.cmem[i]
  /\ land > k => f.eng2.c_q = f.eng2.cmem[k]
Gathering(c, o, f, s, land, k) ==
  /\ Ready(f, s, c.job) /\ f.st = "IDLE"
  /\ \/ c.todo = result_requests /\ (land > 0 => Register(s, 2) = 0)
     \/ c.todo = <<Final>> /\ Register(s, 2) = 0 /\ Gathered(o, f, land, k)

\* With land words of its request on the board and k of them counted.
Position(c, o, f, s, land, k) ==
  /\ c.pc = "load" => Laying(c, f, s, land, k)
  /\ c.pc = "poll" => Polling(c, o, f, s, k)
  /\ c.pc = "fetch" => Gathering(c, o, f, s, land, k)

\* The word at the pointer is in the register that is read, one edge later.
LEMMA WordRead ==
  ASSUME FfnClock, Typed, NEW k \in 0 .. c_depth(Dim2) - 1, bus.adr = 16 + k,
         Register(slave, 2) = 0
  PROVE  ffn'.eng2.c_q = ffn.eng2.cmem[k]
<1>1. FfnEdge /\ FfnTyped(ffn)
  BY DEF FfnClock, Typed
<1>2. PICK c, e : c = FfnControl(ffn, slave.start) /\ e = Control(ffn.eng2, Dim2, Port2.start)
  OBVIOUS
<1>3. ffn'.eng2 = EngineEdge(ffn.eng2, Dim2, Port2)
  BY <1>1, <1>2, FfnFields
<1>4. IsEngine(e)
  <2>1. EngineTyped(ffn.eng2, Dim2)
    BY <1>1 DEF FfnTyped
  <2> QED
    BY <1>2, <2>1, Shapes, ControlTyped
<1>5. ffn'.eng2.c_q = At(ffn.eng2.cmem, c_depth(Dim2), Port2.c_raddr)
  BY <1>2, <1>3, <1>4, EdgeFields
<1>6. slave.ptr = 0 /\ InData
  BY DEF Register, InData, DATA_WORD
<1>7. BufAddr = k
  <2>1. c_depth(Dim2) \in 0 .. PTR_SPAN
    BY ShapeAssumption
  <2>2. slave.ptr + bus.adr - DATA_WORD = k
    BY <1>6 DEF DATA_WORD
  <2>3. PICK q \in Nat : q = PTR_SPAN
    BY DEF PTR_SPAN
  <2>4. PICK n : n = c_depth(Dim2)
    OBVIOUS
  <2>5. n \in 0 .. q /\ k \in 0 .. n - 1
    BY <2>1, <2>3, <2>4, Zenon
  <2>6. k % q = k
    BY <2>3, <2>5
  <2> QED
    BY <2>2, <2>3, <2>6 DEF BufAddr
<1>8. Port2.c_raddr = k
  BY <1>6, <1>7, PortFields
<1>9. PICK n \in Nat \ {0} : n = c_depth(Dim2)
  BY Shapes, Depths
<1>10. k % n = k
  BY <1>9
<1> QED
  BY <1>5, <1>8, <1>9, <1>10 DEF At

\* What the control word of the accelerator reads.
LEMMA StatusRead ==
  /\ FfnRead(0) = IF ffn.st = "IDLE" THEN 1 ELSE 2
  /\ FfnRead(0) % 2 = 1 => ffn.st = "IDLE"
<1>1. FfnRead(0) = IF ffn.st = "IDLE" THEN 1 ELSE 2
  BY DEF FfnRead
<1> QED
  BY <1>1

\* A word of the data window reads the result register, and every word is of the design's.
LEMMA WordsRead ==
  ASSUME Typed
  PROVE  /\ \A k \in Nat : FfnRead(16 + k) = ffn.eng2.c_q
         /\ FfnRead(bus.adr) \in Int \cup Word
<1>1. ffn.eng2.c_q \in Word /\ slave.target \in Nat /\ slave.ptr \in Nat /\ bus.adr \in Nat
  BY DEF Typed, FfnTyped, EngineTyped, SlaveTyped, BusTyped
<1>2. M \in Nat /\ K1 \in Nat /\ K2 \in Nat /\ N \in Nat /\ TILE \in Nat
  BY ShapeAssumption, EngineAssumption
<1>3. \A k \in Nat : FfnRead(16 + k) = ffn.eng2.c_q
  BY DEF FfnRead
<1>4. FfnRead(bus.adr) \in {1, 2, slave.target, slave.ptr, M, K1, K2, N, TILE, ffn.eng2.c_q}
  BY DEF FfnRead
<1> QED
  BY <1>1, <1>2, <1>3, <1>4

\* An edge accepts a word, counts one, or finds the strobe low.
LEMMA PaceClock ==
  ASSUME LinkInv, FfnClock
  PROVE  /\ UNCHANGED <<request, deaf, socket, buf, answer>> /\ served \in Nat
         /\ Active => /\ Landed = served /\ Landed' = served + 1 /\ served' = served
                      /\ out' = out /\ bus.stb
         /\ bus.stb /\ ack => /\ Landed = served + 1 /\ Landed' = served + 1
                              /\ served' = served + 1
                              /\ out' = IF bus.we THEN out ELSE Append(out, FfnRead(bus.adr))
                              /\ ~Active
         /\ ~bus.stb => /\ Landed = served /\ Landed' = served /\ served' = served
                        /\ out' = out /\ ~Active
         /\ Active \/ (bus.stb /\ ack) \/ ~bus.stb
<1>1. AckEdge /\ MasterEdge(FfnRead(bus.adr)) /\ served \in Nat
  BY DEF FfnClock, LinkInv
<1>2. /\ Active => /\ Landed = served /\ Landed' = served + 1 /\ UNCHANGED <<served, out, bus>>
      /\ ~Active => Landed' = Landed
  BY <1>1, LandedClock
<1>3. Active \/ (bus.stb /\ ack) \/ ~bus.stb
  BY DEF Active
<1>4. UNCHANGED <<request, deaf, socket, buf, answer>>
  BY <1>1 DEF MasterEdge
<1>5. ASSUME bus.stb, ack
      PROVE  /\ Landed = served + 1 /\ Landed' = served + 1 /\ served' = served + 1
             /\ out' = IF bus.we THEN out ELSE Append(out, FfnRead(bus.adr))
             /\ ~Active
  BY <1>1, <1>2, <1>5 DEF MasterEdge, Active, Landed
<1>6. ASSUME ~bus.stb
      PROVE  /\ Landed = served /\ Landed' = served /\ served' = served /\ out' = out /\ ~Active
  BY <1>1, <1>2, <1>6 DEF MasterEdge, Active, Landed
<1>7. Active => bus.stb
  BY DEF Active
<1> QED
  BY <1>1, <1>2, <1>3, <1>4, <1>5, <1>6, <1>7

\* Every request of a plan is a write.
LEMMA PlanWrites ==
  ASSUME NEW p \in Plans, NEW j \in 1 .. 17, NEW r, r = run_plan(p)[j]
  PROVE  Asks(r).op = "write"
<1>1. Planned(p, run_plan(p))
  BY PlanRequests
<1>2. ASSUME NEW g \in 0 .. 3, j = 3 * g + 1 \/ j = 3 * g + 2 \/ j = 3 * g + 3
      PROVE  Asks(r).op = "write"
  <2>1. \/ r = Write(1, <<g>>) \/ r = Write(2, <<0>>) \/ r = Write(16, Part(p, g))
    BY <1>1, <1>2 DEF Planned
  <2> QED
    BY <2>1, WordAsks, PartAsks
<1>3. ASSUME NEW n \in 3 .. 6, j = n + 10 PROVE Asks(r).op = "write"
  <2>1. r = Write(n, <<Scalar(p, n)>>)
    BY <1>1, <1>3 DEF Planned
  <2> QED
    BY <2>1, WordAsks
<1>4. CASE j = 17
  <2>1. r = Write(0, <<1>>)
    BY <1>1, <1>4 DEF Planned
  <2> QED
    BY <2>1, WordAsks
<1> QED
  BY <1>2, <1>3, <1>4, WhichRequest

\* What a program in its straight-line part asks.
LEMMA LayCur ==
  ASSUME NEW p \in Plans, NEW j \in 1 .. 17, client.pc = "load", Ahead(client.todo, p, j)
  PROVE  /\ Cur = run_plan(p)[j] /\ Suited(Asks(Cur)) /\ Asks(Cur).op = "write"
         /\ ~Asks(Cur).fixed
<1>1. PICK todo, S, q : todo = client.todo /\ S = Sends(p) /\ q = run_plan(p)[j]
  OBVIOUS
<1>2. todo \in Seq(S) /\ Len(todo) = 18 - j
  BY <1>1 DEF Ahead
<1>3. todo[1] = q
  <2>1. 1 \in 1 .. 18 - j /\ j + 1 - 1 = j
    OBVIOUS
  <2> QED
    BY <1>1, <2>1 DEF Ahead
<1>4. Cur = Head(todo)
  BY <1>1 DEF Cur
<1>5. Head(todo) = todo[1]
  BY <1>2
<1>6. Cur = q
  BY <1>3, <1>4, <1>5
<1>7. Suited(Asks(q)) /\ Asks(q).op = "write"
  BY <1>1, PlanSuited, PlanWrites
<1>8. ~Asks(q).fixed
  BY <1>7 DEF Suited
<1> QED
  BY <1>1, <1>6, <1>7, <1>8

\* What it asks afterwards.
LEMMA PollCur ==
  ASSUME client.pc = "poll"
  PROVE  /\ Asks(Cur).op = "read" /\ Asks(Cur).adr = 0 /\ Asks(Cur).size = 1 /\ ~Asks(Cur).fixed
         /\ Suited(Asks(Cur))
<1>1. PICK r : r = Asks(Cur)
  OBVIOUS
<1>2. r.op = "read" /\ r.adr = 0 /\ r.size = 1 /\ ~r.fixed
  BY <1>1, ReadAsks DEF Cur
<1> QED
  BY <1>1, <1>2 DEF Suited

LEMMA FetchCur ==
  ASSUME client.pc = "fetch"
  PROVE  /\ client.todo = result_requests =>
              /\ Asks(Cur).op = "write" /\ ~Asks(Cur).fixed /\ Asks(Cur).adr = 2
              /\ Asks(Cur).size = 1 /\ Asks(Cur).words[1] = 0 /\ Suited(Asks(Cur))
         /\ client.todo = <<Final>> =>
              /\ Asks(Cur).op = "read" /\ ~Asks(Cur).fixed /\ Asks(Cur).adr = 16
              /\ Asks(Cur).size = c_depth(Dim2) /\ Suited(Asks(Cur))
<1>1. ASSUME client.todo = result_requests
      PROVE  /\ Asks(Cur).op = "write" /\ ~Asks(Cur).fixed /\ Asks(Cur).adr = 2
             /\ Asks(Cur).size = 1 /\ Asks(Cur).words[1] = 0 /\ Suited(Asks(Cur))
  <2>1. Cur = Write(2, <<0>>)
    BY <1>1 DEF Cur, result_requests
  <2>2. 2 \in 0 .. 15 /\ 0 \in Nat
    OBVIOUS
  <2>3. Suited(Asks(Write(2, <<0>>)))
    BY <2>2, WordSuited
  <2> QED
    BY <2>1, <2>3, WordAsks
<1>2. ASSUME client.todo = <<Final>>
      PROVE  /\ Asks(Cur).op = "read" /\ ~Asks(Cur).fixed /\ Asks(Cur).adr = 16
             /\ Asks(Cur).size = c_depth(Dim2) /\ Suited(Asks(Cur))
  <2>1. PICK n \in Nat \ {0} : n = c_depth(Dim2)
    BY Shapes, Depths
  <2>2. n = Tiles(M) * N
    BY <2>1 DEF c_depth, Dim2
  <2>3. Cur = Read(16, n)
    BY <1>2, <2>2 DEF Cur, Final, DATA_WORD
  <2>4. PICK r : r = Asks(Cur)
    OBVIOUS
  <2>5. r.op = "read" /\ r.adr = 16 /\ r.size = n /\ ~r.fixed
    BY <2>3, <2>4, ReadAsks
  <2>6. Suited(r)
    BY <2>5 DEF Suited
  <2> QED
    BY <2>1, <2>4, <2>5, <2>6
<1> QED
  BY <1>1, <1>2

\* A word of the request that is served is the one that is counted next.
LEMMA ServedWord ==
  ASSUME LinkInv, bus.stb, NEW r, request = r, ~r.fixed
  PROVE  /\ served < r.size /\ served \in Nat /\ (bus.we <=> r.op = "write")
         /\ bus.adr = r.adr + served /\ (bus.we => bus.dat = r.words[served + 1])
<1>1. /\ served < request.size /\ (bus.we <=> request.op = "write")
      /\ bus.adr = request.adr + (IF request.fixed THEN 0 ELSE served)
      /\ bus.we => bus.dat = request.words[served + 1]
  BY Driven
<1>2. bus.adr = r.adr + served
  BY <1>1, Zenon
<1> QED
  BY <1>1, <1>2 DEF LinkInv

\* A clock edge in the straight-line part of a program.
LEMMA LayingClock ==
  ASSUME LinkInv, FfnClock, Typed, client.pc = "load", client.job \in Plans,
         request = Asks(Cur), Laying(client, ffn, slave, Landed, served)
  PROVE  Laying(client, ffn', slave', Landed', served')
<1>1. PICK p \in Plans : p = client.job
  OBVIOUS
<1>2. PICK j \in 1 .. 17 : Ahead(client.todo, p, j) /\ Laid(ffn, slave, p, j, Landed, served)
  BY <1>1 DEF Laying
<1>3. PICK r : r = Asks(run_plan(p)[j])
  OBVIOUS
<1>4. request = r /\ ~r.fixed /\ r.op = "write" /\ Suited(r)
  BY <1>2, <1>3, LayCur
<1>5. PICK k \in Nat : k = served
  BY PaceClock
<1> SUFFICES Laid(ffn', slave', p, j, Landed', served')
  BY <1>1, <1>2 DEF Laying
<1>6. CASE Active
  <2>1. Landed = k /\ Landed' = k + 1 /\ served' = k /\ bus.stb
    BY <1>5, <1>6, PaceClock
  <2>2. k < r.size /\ bus.we /\ bus.adr = r.adr + k /\ bus.dat = r.words[k + 1]
    BY <1>4, <1>5, <2>1, ServedWord
  <2>3. r.size \in Nat
    BY <1>4 DEF Suited
  <2>4. k \in 0 .. r.size - 1
    BY <2>2, <2>3
  <2>5. Writing
    BY <1>6, <2>2 DEF Writing
  <2>6. Laid(ffn, slave, p, j, k, k)
    BY <1>2, <1>5, <2>1
  <2>7. Laid(ffn', slave', p, j, k + 1, k)
    BY <1>3, <2>2, <2>4, <2>5, <2>6, LaidWord
  <2> QED
    BY <2>1, <2>7
<1>7. CASE ~Active
  <2>1. ~Writing
    BY <1>7 DEF Writing
  <2>2. PICK land, m : land = Landed /\ m = served'
    OBVIOUS
  <2>3. Landed' = land /\ (land > 0 => m # 0)
    BY <1>5, <1>7, <2>2, PaceClock
  <2>4. Laid(ffn, slave, p, j, land, k)
    BY <1>2, <1>5, <2>2
  <2>5. Laid(ffn', slave', p, j, land, m)
    BY <2>1, <2>3, <2>4, LaidQuiet
  <2> QED
    BY <2>2, <2>3, <2>5
<1> QED
  BY <1>6, <1>7

\* One that polls.
LEMMA PollingClock ==
  ASSUME LinkInv, FfnClock, Typed, OutInv, client.pc = "poll",
         request = Asks(Cur), served = 0 => out = <<>>, Polling(client, out, ffn, slave, served)
  PROVE  Polling(client, out', ffn', slave', served')
<1>1. PICK r : r = Asks(Cur)
  OBVIOUS
<1>2. r.op = "read" /\ r.adr = 0 /\ r.size = 1 /\ ~r.fixed /\ request = r
  BY <1>1, PollCur
<1>3. bus.stb => served = 0 /\ ~bus.we /\ bus.adr = 0
  <2>1. bus.stb => served < 1 /\ served \in Nat /\ ~bus.we /\ bus.adr = 0 + served
    BY <1>2, ServedWord
  <2> QED
    BY <2>1
<1>4. ~Writing /\ Spared
  BY <1>3, PaceClock DEF Writing, Spared
<1>5. /\ Ready(ffn', slave', client.job)
      /\ ffn.st = "IDLE" => ffn'.st = "IDLE"
  BY <1>4, ReadyEdge DEF Polling
<1>6. CASE bus.stb /\ ack
  <2>1. PICK v : v = FfnRead(0)
    OBVIOUS
  <2>2. out' = Append(<<>>, v)
    BY <1>3, <1>6, <2>1, PaceClock
  <2>3. out'[1] = v
    BY <2>2
  <2>4. out'[1] % 2 = 1 => ffn.st = "IDLE"
    BY <2>1, <2>3, StatusRead
  <2> QED
    BY <1>5, <2>4 DEF Polling
<1>7. CASE ~(bus.stb /\ ack)
  <2>1. served' = served /\ out' = out
    BY <1>7, PaceClock
  <2> QED
    BY <1>5, <2>1 DEF Polling
<1> QED
  BY <1>6, <1>7

\* One that writes the pointer before it reads.
LEMMA PointerClock ==
  ASSUME LinkInv, FfnClock, Typed, client.pc = "fetch", request = Asks(Cur),
         client.todo = result_requests, Ready(ffn, slave, client.job), ffn.st = "IDLE",
         Landed > 0 => Register(slave, 2) = 0
  PROVE  Gathering(client, out', ffn', slave', Landed', served')
<1>1. PICK r : r = Asks(Cur)
  OBVIOUS
<1>2. /\ r.op = "write" /\ ~r.fixed /\ r.adr = 2 /\ r.size = 1 /\ r.words[1] = 0 /\ request = r
  BY <1>1, FetchCur
<1>3. Active => bus.we /\ bus.adr = 2 /\ bus.dat = 0
  <2> SUFFICES ASSUME Active PROVE bus.we /\ bus.adr = 2 /\ bus.dat = 0
    OBVIOUS
  <2>1. bus.stb
    BY PaceClock
  <2>2. served < 1 /\ served \in Nat /\ bus.we /\ bus.adr = 2 + served
        /\ bus.dat = r.words[served + 1]
    BY <1>2, <2>1, ServedWord
  <2>3. served = 0
    BY <2>2
  <2> QED
    BY <1>2, <2>2, <2>3
<1>4. Writing => bus.adr = 2 /\ bus.dat = 0
  BY <1>3 DEF Writing
<1>5. Spared
  BY <1>4 DEF Spared, InData, DATA_WORD
<1>6. Ready(ffn', slave', client.job) /\ ffn'.st = "IDLE"
  BY <1>4, <1>5, ReadyEdge
<1>7. Register(slave', 2) = IF Writing /\ bus.adr = 2 THEN Fits(2, bus.dat)
                            ELSE Register(slave, 2)
  <2>1. 2 \in 1 .. 6
    OBVIOUS
  <2> QED
    BY <2>1, RegisterEdge DEF FfnClock, Typed
<1>8. Landed' > 0 => Register(slave', 2) = 0
  <2>1. CASE Active
    <3>1. Writing
      BY <1>3, <2>1 DEF Writing
    <3>2. Fits(2, 0) = 0
      BY Fitted DEF PTR_SPAN
    <3> QED
      BY <1>4, <1>7, <3>1, <3>2
  <2>2. CASE ~Active
    <3>1. Landed' = Landed /\ ~Writing
      BY <2>2, PaceClock DEF Writing
    <3> QED
      BY <1>7, <3>1
  <2> QED
    BY <2>1, <2>2
<1> QED
  BY <1>6, <1>8 DEF Gathering

\* One that reads the result.
LEMMA FinalClock ==
  ASSUME LinkInv, FfnClock, Typed, OutInv, client.pc = "fetch", request = Asks(Cur),
         served = 0 => out = <<>>,
         client.todo = <<Final>>, Ready(ffn, slave, client.job), ffn.st = "IDLE",
         Register(slave, 2) = 0, Gathered(out, ffn, Landed, served)
  PROVE  Gathering(client, out', ffn', slave', Landed', served')
<1>1. PICK r, n : r = Asks(Cur) /\ n = c_depth(Dim2)
  OBVIOUS
<1>2. r.op = "read" /\ ~r.fixed /\ r.adr = 16 /\ r.size = n /\ request = r
  BY <1>1, FetchCur
<1>3. PICK k \in Nat : k = served
  BY PaceClock
<1>4. bus.stb => k \in 0 .. n - 1 /\ ~bus.we /\ bus.adr = 16 + k
  <2>1. bus.stb => k < n /\ ~bus.we /\ bus.adr = 16 + k
    BY <1>2, <1>3, ServedWord
  <2>2. n \in Nat
    BY <1>1, Shapes, Depths
  <2> QED
    BY <2>1, <2>2
<1>5. ~Writing /\ Spared
  BY <1>4, PaceClock DEF Writing, Spared
<1>6. /\ Ready(ffn', slave', client.job) /\ ffn'.st = "IDLE"
      /\ ffn'.eng2.cmem = ffn.eng2.cmem
  BY <1>5, ReadyEdge
<1>7. Register(slave', 2) = 0
  <2>1. 2 \in 1 .. 6
    OBVIOUS
  <2> QED
    BY <1>5, <2>1, RegisterEdge DEF FfnClock, Typed
<1>8. PICK mem : mem = ffn.eng2.cmem
  OBVIOUS
<1>9. k > 0 => Len(out) = k /\ \A i \in 0 .. k - 1 : out[i + 1] = mem[i]
  BY <1>3, <1>8 DEF Gathered
<1>10. CASE Active
  <2>1. served' = k /\ out' = out /\ Landed' = k + 1 /\ bus.stb
    BY <1>3, <1>10, PaceClock
  <2>2. ffn'.eng2.c_q = mem[k]
    BY <1>1, <1>4, <1>8, <2>1, WordRead
  <2>3. Gathered(out', ffn', k + 1, k)
    BY <1>6, <1>8, <1>9, <2>1, <2>2 DEF Gathered
  <2> QED
    BY <1>6, <1>7, <2>1, <2>3 DEF Gathering
<1>11. CASE bus.stb /\ ack
  <2>1. PICK v, m, o : v = FfnRead(bus.adr) /\ m = k + 1 /\ o = out'
    OBVIOUS
  <2>2. served' = m /\ Landed = m /\ Landed' = m /\ o = Append(out, v)
    BY <1>3, <1>4, <1>11, <2>1, PaceClock
  <2>3. v = ffn.eng2.c_q
    BY <1>3, <1>4, <1>11, <2>1, WordsRead
  <2>4. v = mem[k]
    BY <1>3, <1>8, <2>1, <2>2, <2>3 DEF Gathered
  <2>5. out \in Seq(Int \cup Word) /\ Len(out) = k
    <3>1. CASE k = 0
      BY <1>3, <3>1 DEF OutInv
    <3>2. CASE k > 0
      BY <1>9, <3>2 DEF OutInv
    <3> QED
      BY <3>1, <3>2
  <2>6. Len(o) = m /\ o[k + 1] = v /\ \A i \in 1 .. k : o[i] = out[i]
    <3>1. PICK S : S = Int \cup Word
      OBVIOUS
    <3>2. out \in Seq(S)
      BY <2>5, <3>1
    <3> QED
      BY <2>1, <2>2, <2>5, <3>2
  <2>7. ASSUME NEW i \in 0 .. m - 1 PROVE o[i + 1] = mem[i]
    <3>1. CASE i = k
      BY <2>4, <2>6, <3>1
    <3>2. CASE i # k
      <4>1. i \in 0 .. k - 1 /\ i + 1 \in 1 .. k /\ k > 0
        BY <2>1, <3>2
      <4> QED
        BY <1>9, <2>6, <4>1
    <3> QED
      BY <3>1, <3>2
  <2>8. Gathered(o, ffn', m, m)
    BY <1>6, <1>8, <2>1, <2>6, <2>7 DEF Gathered
  <2> QED
    BY <1>6, <1>7, <2>1, <2>2, <2>8 DEF Gathering
<1>12. CASE ~bus.stb
  <2>1. Landed = k /\ Landed' = k /\ served' = k /\ out' = out
    BY <1>3, <1>12, PaceClock
  <2>2. Gathered(out, ffn', k, k)
    BY <1>6, <1>8, <1>9 DEF Gathered
  <2> QED
    BY <1>6, <1>7, <2>1, <2>2 DEF Gathering
<1> QED
  BY <1>10, <1>11, <1>12, PaceClock

\* The bus rests: every program keeps its place.
LEMMA PositionQuiet ==
  ASSUME FfnClock, Typed, ~Writing, NEW k \in Nat, Position(client, out, ffn, slave, k, k)
  PROVE  Position(client, out, ffn', slave', k, k)
<1>1. Spared /\ FfnEdge /\ SlaveEdge
  BY DEF Spared, FfnClock
<1>2. CASE client.pc = "load"
  <2>1. PICK j \in 1 .. 17 : /\ Ahead(client.todo, client.job, j)
                             /\ Laid(ffn, slave, client.job, j, k, k)
    BY <1>2 DEF Position, Laying
  <2>3. j = 17 /\ k > 0 => k # 0
    OBVIOUS
  <2>2. Laid(ffn', slave', client.job, j, k, k)
    BY <2>1, <2>3, LaidQuiet
  <2> QED
    BY <1>2, <2>1, <2>2 DEF Position, Laying
<1>3. CASE client.pc = "poll"
  <2>1. Ready(ffn, slave, client.job) /\ (k > 0 /\ out[1] % 2 = 1 => ffn.st = "IDLE")
    BY <1>3 DEF Position, Polling
  <2>2. Ready(ffn', slave', client.job) /\ (ffn.st = "IDLE" => ffn'.st = "IDLE")
    BY <1>1, <2>1, ReadyEdge
  <2> QED
    BY <1>3, <2>1, <2>2 DEF Position, Polling
<1>4. CASE client.pc = "fetch"
  <2>1. Gathering(client, out, ffn, slave, k, k)
    BY <1>4 DEF Position
  <2>2. /\ Ready(ffn', slave', client.job) /\ ffn'.st = "IDLE"
        /\ ffn'.eng2.cmem = ffn.eng2.cmem
    BY <1>1, <2>1, ReadyEdge DEF Gathering
  <2>3. Register(slave', 2) = Register(slave, 2)
    <3>1. 2 \in 1 .. 6
      OBVIOUS
    <3> QED
      BY <1>1, <3>1, RegisterEdge DEF Typed
  <2>4. Gathered(out, ffn, k, k) => Gathered(out, ffn', k, k)
    BY <2>2 DEF Gathered
  <2>5. Gathering(client, out, ffn', slave', k, k)
    BY <2>1, <2>2, <2>3, <2>4 DEF Gathering
  <2> QED
    BY <1>4, <2>5 DEF Position
<1>5. CASE client.pc \notin {"load", "poll", "fetch"}
  BY <1>5 DEF Position
<1> QED
  BY <1>2, <1>3, <1>4, <1>5

\* Where a program is: at rest, about to ask, waiting for words, or with an answer on its way.
PlanStill == Empty /\ (request # None => deaf)
PlanWaiting == Empty /\ request = None /\ Position(client, out, ffn, slave, 0, 0)
PlanInFlight ==
  /\ Empty /\ request # None /\ ~deaf /\ request = Asks(Cur)
  /\ (served = 0 => out = <<>>) /\ Position(client, out, ffn, slave, Landed, served)
PlanAnswered ==
  Answered(TRUE) /\ Position(client, out, ffn, slave, Asks(Cur).size, Asks(Cur).size)
PlanProgress ==
  IF client.pc = "idle" THEN PlanStill
  ELSE PlanWaiting \/ PlanInFlight \/ PlanAnswered \/ Answered(FALSE)

\* Every program has a plan, and what was asked of the board suits it, whoever asked.
PlanJob ==
  client.pc \in {"idle", "load", "poll", "fetch"} /\ (client.pc # "idle" => client.job \in Plans)
PlanRequest == request # None => Suited(request)
PlanInv == PlanJob /\ PlanRequest /\ OutInv /\ PlanProgress

\* What the result rests on.
Unread == client.outcome # "result"
FfnInv ==
  /\ FfnTyped(ffn) /\ SlaveTyped(slave)
  /\ flashed # "ffn" => Unread
  /\ flashed = "ffn" => PlanInv /\ FfnExact

\* What is asked of the board decides what is on the bus.
LEMMA RequestTypes ==
  ASSUME LinkInv, FfnTyped(ffn), SlaveTyped(slave), PlanRequest
  PROVE  Typed
<1>1. CASE ~bus.stb
  <2>1. bus = Quiet
    <3>1. bus = Quiet \/ bus = Drive(served)
      BY DEF LinkInv
    <3>2. Drive(served).stb = TRUE
      BY DEF Drive
    <3>3. bus # Drive(served)
      BY <1>1, <3>2
    <3> QED
      BY <3>1, <3>3
  <2> QED
    BY <1>1, <2>1 DEF Typed, BusTyped, Writing, Active, Quiet
<1>2. CASE bus.stb
  <2>1. PICK r, k : r = request /\ k = served
    OBVIOUS
  <2>2. r # None /\ Suited(r)
    BY <1>2, <2>1, Driven DEF PlanRequest
  <2>3. /\ k < r.size /\ k \in Nat /\ (bus.we <=> r.op = "write")
        /\ bus.adr = r.adr + k /\ (bus.we => bus.dat = r.words[k + 1])
    BY <1>2, <2>1, <2>2, ServedWord DEF Suited
  <2>4. r.adr \in Nat /\ k \in 0 .. r.size - 1
    BY <2>2, <2>3 DEF Suited
  <2>5. bus.we => IF r.adr + k >= DATA_WORD THEN r.words[k + 1] \in Word ELSE r.words[k + 1] \in Nat
    BY <2>2, <2>3, <2>4 DEF Suited
  <2>6. bus.adr \in Nat
    BY <2>3, <2>4
  <2> QED
    BY <2>3, <2>5, <2>6 DEF Typed, BusTyped, Writing, InData
<1> QED
  BY <1>1, <1>2

\* The request a program sends from its place has words of the right kind.
LEMMA PlaceSize ==
  ASSUME PlanJob, client.pc # "idle", NEW o, NEW f, NEW s, NEW land, NEW k,
         Position(client, o, f, s, land, k)
  PROVE  Suited(Asks(Cur)) /\ Asks(Cur).size \in Nat \ {0}
<1>1. client.job \in Plans /\ client.pc \in {"load", "poll", "fetch"}
  BY DEF PlanJob
<1>2. CASE client.pc = "load"
  <2>1. PICK j \in 1 .. 17 : Ahead(client.todo, client.job, j)
    BY <1>2 DEF Position, Laying
  <2> QED
    BY <1>1, <1>2, <2>1, LayCur DEF Suited
<1>3. CASE client.pc = "poll"
  BY <1>3, PollCur DEF Suited
<1>4. CASE client.pc = "fetch"
  BY <1>4, FetchCur DEF Position, Gathering, Suited
<1> QED
  BY <1>1, <1>2, <1>3, <1>4

\* A clock edge while a request is served.
LEMMA PlanRequestClock ==
  ASSUME LinkInv, FfnClock, Typed, PlanJob, OutInv, client.pc # "idle", PlanInFlight,
         UNCHANGED clientVars
  PROVE  PlanInFlight'
<1>1. /\ client' = client /\ client.job \in Plans /\ client.pc \in {"load", "poll", "fetch"}
      /\ UNCHANGED <<request, deaf, socket, buf, answer>> /\ served \in Nat
  BY PaceClock DEF clientVars, PlanJob
<1>2. /\ Cur' = Cur /\ Asks(Cur)' = Asks(Cur)
  BY <1>1 DEF Cur, Asks
<1>3. /\ Empty' /\ request' # None /\ ~deaf' /\ request' = Asks(Cur)'
  BY <1>1, <1>2 DEF PlanInFlight, Empty
<1>4. served' = 0 => out' = <<>>
  <2>1. served' = 0 => served' = served /\ out' = out
    BY <1>1, PaceClock
  <2> QED
    BY <2>1 DEF PlanInFlight
<1>5. CASE client.pc = "load"
  <2>1. Laying(client, ffn', slave', Landed', served')
    BY <1>1, <1>5, LayingClock DEF PlanInFlight, Position
  <2>2. Position(client, out', ffn', slave', Landed', served')
    BY <1>5, <2>1 DEF Position
  <2> QED
    BY <1>1, <1>3, <1>4, <2>2 DEF PlanInFlight
<1>6. CASE client.pc = "poll"
  <2>1. Polling(client, out', ffn', slave', served')
    BY <1>6, PollingClock DEF PlanInFlight, Position
  <2>2. Position(client, out', ffn', slave', Landed', served')
    BY <1>6, <2>1 DEF Position
  <2> QED
    BY <1>1, <1>3, <1>4, <2>2 DEF PlanInFlight
<1>7. CASE client.pc = "fetch"
  <2>1. Gathering(client, out, ffn, slave, Landed, served)
    BY <1>7 DEF PlanInFlight, Position
  <2>2. Gathering(client, out', ffn', slave', Landed', served')
    BY <1>7, <2>1, PointerClock, FinalClock DEF PlanInFlight, Gathering
  <2>3. Position(client, out', ffn', slave', Landed', served')
    BY <1>7, <2>2 DEF Position
  <2> QED
    BY <1>1, <1>3, <1>4, <2>3 DEF PlanInFlight
<1> QED
  BY <1>1, <1>5, <1>6, <1>7

\* The registers and the memories keep their types on the clock.
LEMMA FfnClockTypes ==
  ASSUME FfnClock, Typed
  PROVE  FfnTyped(ffn') /\ SlaveTyped(slave')
<1>1. FfnEdge /\ SlaveEdge /\ FfnTyped(ffn) /\ SlaveTyped(slave) /\ BusTyped
  BY DEF FfnClock, Typed
<1> QED
  BY <1>1, FfnKeepsType, SlaveKeepsType

\* What the bridge reads is a number or a word.
LEMMA OutClock ==
  ASSUME LinkInv, FfnClock, Typed, OutInv
  PROVE  OutInv'
<1>1. PICK v, S, o : v = FfnRead(bus.adr) /\ S = Int \cup Word /\ o = out
  OBVIOUS
<1>2. o \in Seq(S) /\ v \in S
  BY <1>1, WordsRead DEF OutInv
<1>3. out' = o \/ out' = Append(o, v)
  BY <1>1, PaceClock
<1>4. out' \in Seq(S)
  BY <1>2, <1>3
<1> QED
  BY <1>1, <1>4 DEF OutInv

\* The clock keeps a program's place.
LEMMA PlanClockKeeps ==
  ASSUME LinkInv, FfnClock, Typed, PlanInv, UNCHANGED clientVars
  PROVE  PlanInv'
<1>1. /\ client' = client /\ OutInv /\ PlanProgress /\ PlanJob
      /\ UNCHANGED <<request, deaf, socket, buf, answer>>
  BY PaceClock DEF clientVars, PlanInv
<1>2. OutInv' /\ PlanJob' /\ PlanRequest'
  BY <1>1, OutClock DEF PlanInv, PlanJob, PlanRequest
<1>3. CASE client.pc = "idle"
  <2>1. PlanProgress'
    BY <1>1, <1>3 DEF PlanProgress, PlanStill, Empty
  <2> QED
    BY <1>2, <2>1 DEF PlanInv
<1>4. CASE client.pc # "idle" /\ PlanInFlight
  <2>1. PlanProgress'
    BY <1>1, <1>4, PlanRequestClock DEF PlanProgress
  <2> QED
    BY <1>2, <2>1 DEF PlanInv
<1>5. CASE client.pc # "idle" /\ request = None
  <2>1. ~bus.stb
    BY <1>5, Driven
  <2>2. ~Writing /\ out' = out
    BY <2>1, PaceClock DEF Writing
  <2>3. CASE PlanWaiting
    <3>1. PICK k \in Nat : k = 0
      OBVIOUS
    <3>2. Position(client, out, ffn, slave, k, k)
      BY <2>3, <3>1 DEF PlanWaiting
    <3>3. Position(client, out, ffn', slave', k, k)
      BY <2>2, <3>2, PositionQuiet
    <3>4. PlanWaiting'
      BY <1>1, <1>5, <2>2, <2>3, <3>1, <3>3 DEF PlanWaiting, Empty
    <3>5. PlanProgress'
      BY <1>1, <1>5, <3>4 DEF PlanProgress
    <3> QED
      BY <1>2, <3>5 DEF PlanInv
  <2>4. \A ok : Answered(ok)' <=> Answered(ok)
    BY <1>1, <2>2, Zenon DEF Answered, Arrived, Arriving, Reply
  <2>5. CASE PlanAnswered
    <3>1. PICK k : k = Asks(Cur).size
      OBVIOUS
    <3>2. Position(client, out, ffn, slave, k, k)
      BY <2>5, <3>1 DEF PlanAnswered
    <3>3. k \in Nat
      BY <1>1, <1>5, <3>1, <3>2, PlaceSize
    <3>4. Position(client, out, ffn', slave', k, k)
      BY <2>2, <3>2, <3>3, PositionQuiet
    <3>5. Asks(Cur)'.size = k
      BY <1>1, <3>1 DEF Cur, Asks
    <3>6. PlanAnswered'
      BY <1>1, <2>2, <2>4, <2>5, <3>4, <3>5 DEF PlanAnswered
    <3>7. PlanProgress'
      BY <1>1, <1>5, <3>6 DEF PlanProgress
    <3> QED
      BY <1>2, <3>7 DEF PlanInv
  <2>6. CASE Answered(FALSE)
    <3>1. PlanProgress'
      BY <1>1, <1>5, <2>4, <2>6 DEF PlanProgress
    <3> QED
      BY <1>2, <3>1 DEF PlanInv
  <2> QED
    BY <1>1, <1>5, <2>3, <2>5, <2>6 DEF PlanProgress, PlanInFlight
<1> QED
  BY <1>1, <1>3, <1>4, <1>5 DEF PlanProgress, PlanWaiting, PlanAnswered, Answered

\* A response is that of the request, and what arrives of it is a piece.
LEMMA PlanBridgeKeeps ==
  ASSUME LinkInv, PlanInv, Bridge, UNCHANGED <<ffn, slave>>
  PROVE  PlanInv'
<1>1. /\ client' = client /\ OutInv /\ PlanProgress /\ PlanJob
      /\ UNCHANGED <<served, out, bus, ack, deaf>>
      /\ request' = request \/ request' = None
  BY DEF Bridge, clientVars, PlanInv, BridgeResponds, BridgeRejects, Respond, Receive
<1>2. OutInv' /\ PlanJob' /\ PlanRequest'
  BY <1>1 DEF OutInv, PlanInv, PlanJob, PlanRequest
<1>3. UNCHANGED <<ffn, slave>>
  OBVIOUS
<1>4. PICK k : k = Asks(Cur).size
  OBVIOUS
<1>5. Asks(Cur)'.size = k
  BY <1>1, <1>4 DEF Cur, Asks
<1>6. Position(client, out, ffn, slave, k, k) => Position(client', out', ffn', slave', k, k)
  BY <1>1, <1>3
<1>7. ASSUME NEW ok \in BOOLEAN, Respond(Reply(ok)), ok => served = request.size,
             client.pc # "idle"
      PROVE  PlanProgress'
  <2>1. PlanInFlight /\ request' = None /\ ~bus.stb /\ socket' = Reply(ok)
        /\ UNCHANGED <<buf, answer>>
    BY <1>1, <1>7 DEF PlanProgress, PlanWaiting, PlanAnswered, Answered, Respond, PlanInFlight
  <2>2. Answered(ok)'
    BY <1>1, <2>1, ReplySent DEF PlanInFlight, Empty
  <2>3. CASE ok
    <3>1. Landed = served
      BY <2>1 DEF Landed, LinkInv
    <3>2. Position(client, out, ffn, slave, k, k)
      BY <1>4, <1>7, <2>1, <2>3, <3>1 DEF PlanInFlight
    <3>3. PlanAnswered'
      BY <1>5, <1>6, <2>2, <2>3, <3>2 DEF PlanAnswered
    <3> QED
      BY <1>1, <1>7, <3>3 DEF PlanProgress
  <2>4. CASE ~ok
    BY <1>1, <1>7, <2>2, <2>4 DEF PlanProgress
  <2> QED
    BY <2>3, <2>4
<1>8. CASE client.pc = "idle"
  <2>1. PlanStill
    BY <1>1, <1>8 DEF PlanProgress
  <2>2. PlanStill'
    <3>1. CASE BridgeResponds \/ BridgeRejects
      BY <1>1, <2>1, <3>1 DEF PlanStill, Empty, BridgeResponds, BridgeRejects, Respond
    <3>2. ASSUME NEW n \in 1 .. Len(socket) PROVE FALSE
      BY <2>1, <3>2 DEF PlanStill, Empty
    <3> QED
      BY <3>1, <3>2 DEF Bridge
  <2> QED
    BY <1>1, <1>2, <1>8, <2>2 DEF PlanProgress, PlanInv
<1>9. CASE client.pc # "idle" /\ BridgeResponds
  <2>1. Respond(Reply(TRUE)) /\ served = request.size
    BY <1>9 DEF BridgeResponds, Reply
  <2> QED
    BY <1>2, <1>7, <1>9, <2>1 DEF PlanInv
<1>10. CASE client.pc # "idle" /\ BridgeRejects
  <2>1. Respond(Reply(FALSE))
    BY <1>10 DEF BridgeRejects, Reply
  <2> QED
    BY <1>2, <1>7, <1>10, <2>1 DEF PlanInv
<1>11. ASSUME client.pc # "idle", NEW n \in 1 .. Len(socket), Receive(n)
       PROVE  PlanInv'
  <2>1. socket # <<>>
    BY <1>11
  <2>2. CASE PlanAnswered
    <3>1. Answered(TRUE)'
      BY <1>1, <1>11, <2>2, ReceiveKeeps DEF PlanAnswered
    <3>2. PlanAnswered'
      BY <1>4, <1>5, <1>6, <2>2, <3>1 DEF PlanAnswered
    <3> QED
      BY <1>1, <1>2, <1>11, <3>2 DEF PlanProgress, PlanInv
  <2>3. CASE Answered(FALSE)
    <3>1. Answered(FALSE)'
      BY <1>1, <1>11, <2>3, ReceiveKeeps
    <3> QED
      BY <1>1, <1>2, <1>11, <3>1 DEF PlanProgress, PlanInv
  <2> QED
    BY <1>1, <1>11, <2>1, <2>2, <2>3 DEF PlanProgress, PlanWaiting, PlanInFlight, Empty
<1> QED
  BY <1>8, <1>9, <1>10, <1>11 DEF Bridge

\* Where a program is when its answer is there.
LEMMA PlanAnswerThere ==
  ASSUME PlanInv, answer # None
  PROVE  /\ client.pc # "idle" /\ client.job \in Plans
         /\ request = None /\ socket = <<>> /\ buf = <<>>
         /\ answer.ok => answer.data = out
                          /\ Position(client, out, ffn, slave, Asks(Cur).size, Asks(Cur).size)
<1>1. PlanProgress /\ OutInv /\ PlanJob
  BY DEF PlanInv
<1>2. client.pc # "idle"
  BY <1>1 DEF PlanProgress, PlanStill, Empty
<1>3. client.job \in Plans
  BY <1>1, <1>2 DEF PlanJob
<1>4. CASE PlanAnswered
  <2>1. request = None /\ Arrived(TRUE) /\ answer.data = out
    BY <1>1, <1>4, AnswerThere DEF PlanAnswered, Answered
  <2> QED
    BY <1>2, <1>3, <1>4, <2>1 DEF Arrived, PlanAnswered
<1>5. CASE Answered(FALSE)
  <2>1. request = None /\ Arrived(FALSE) /\ answer.ok = FALSE
    BY <1>1, <1>5, AnswerThere DEF Answered
  <2> QED
    BY <1>2, <1>3, <2>1 DEF Arrived
<1> QED
  BY <1>1, <1>2, <1>4, <1>5 DEF PlanProgress, PlanWaiting, PlanInFlight, Empty

\* A program sends its next request.
LEMMA PlanSendKeeps ==
  ASSUME LinkInv, PlanInv, UNCHANGED <<ffn, slave>>, Send
  PROVE  PlanInv'
<1>1. /\ PlanProgress /\ OutInv /\ PlanJob /\ client.pc # "idle" /\ LinkIdle
      /\ client' = client
  BY DEF PlanInv, Send, transact, clientVars
<1>2. PlanWaiting
  <2>1. \A ok \in BOOLEAN : ~Answered(ok)
    BY <1>1, AnswerThere DEF LinkIdle
  <2> QED
    BY <1>1, <2>1 DEF PlanProgress, PlanInFlight, PlanAnswered, LinkIdle
<1>3. /\ request' = Asks(Cur) /\ served' = 0 /\ out' = <<>> /\ deaf' = FALSE
      /\ UNCHANGED <<socket, buf, answer, bus, ack>>
  BY DEF Send, transact, Cur, Asks
<1>4. Landed' = 0
  <2>1. bus = Quiet /\ ~bus.stb
    BY <1>2 DEF PlanWaiting, LinkInv, Quiet
  <2> QED
    BY <1>3, <2>1 DEF Landed
<1>5. PICK k : k = 0
  OBVIOUS
<1>6. Position(client, out, ffn, slave, k, k)
  BY <1>2, <1>5 DEF PlanWaiting
<1>7. Position(client', out', ffn', slave', k, k)
  <2>1. ffn' = ffn /\ slave' = slave /\ client' = client
    BY <1>1
  <2>2. ~(k > 0)
    BY <1>5
  <2> QED
    BY <1>6, <2>1, <2>2 DEF Position, Polling, Gathering, Gathered, Laying
<1>8. Asks(Cur)' = Asks(Cur)
  BY <1>1 DEF Cur, Asks
<1>9. Suited(Asks(Cur))
  BY <1>1, <1>6, PlaceSize
<1>10. PlanRequest'
  BY <1>3, <1>9 DEF PlanRequest
<1>11. PlanProgress'
  <2>1. CASE request' = None
    BY <1>1, <1>2, <1>3, <1>5, <1>7, <2>1 DEF PlanProgress, PlanWaiting, Empty
  <2>2. CASE request' # None
    <3>1. PlanInFlight'
      BY <1>2, <1>3, <1>4, <1>5, <1>7, <1>8, <2>2 DEF PlanInFlight, PlanWaiting, Empty
    <3> QED
      BY <1>1, <3>1 DEF PlanProgress
  <2> QED
    BY <2>1, <2>2
<1>12. PlanJob' /\ OutInv'
  BY <1>1, <1>3 DEF PlanJob, OutInv
<1> QED
  BY <1>10, <1>11, <1>12 DEF PlanInv

\* A program that has ended, and one that goes on with its plan.
LEMMA PlanEnds ==
  ASSUME PlanInv, UNCHANGED <<request, out>>, client'.pc = "idle", PlanStill'
  PROVE  PlanInv'
<1>1. PlanJob' /\ PlanRequest' /\ OutInv'
  BY DEF PlanInv, PlanJob, PlanRequest, OutInv
<1>2. PlanProgress'
  BY DEF PlanProgress
<1> QED
  BY <1>1, <1>2 DEF PlanInv

LEMMA PlanGoesOn ==
  ASSUME PlanInv, UNCHANGED <<request, out, ffn, slave>>, request = None, Empty',
         client'.pc \in {"load", "poll", "fetch"}, client'.job \in Plans,
         Position(client', out, ffn, slave, 0, 0)
  PROVE  PlanInv' /\ FfnExact'
<1>1. PlanJob' /\ PlanRequest' /\ OutInv'
  BY DEF PlanInv, PlanJob, PlanRequest, OutInv
<1>2. PICK k : k = 0
  OBVIOUS
<1>3. Position(client', out', ffn', slave', k, k)
  <2>1. out' = out /\ ffn' = ffn /\ slave' = slave
    OBVIOUS
  <2> QED
    BY <1>2, <2>1
<1>4. PlanWaiting'
  BY <1>2, <1>3 DEF PlanWaiting
<1>5. client'.pc # "idle"
  OBVIOUS
<1>6. PlanProgress' /\ FfnExact'
  BY <1>4, <1>5 DEF PlanProgress, FfnExact
<1> QED
  BY <1>1, <1>6 DEF PlanInv

\* A program begins on an accelerator at rest: nothing of its plan is laid.
LEMMA PlanBegins ==
  ASSUME PlanInv, UNCHANGED <<ffn, slave>>, FfnBegin
  PROVE  PlanInv' /\ FfnExact'
<1>1. PICK p \in Plans : Begin(p, run_plan(p))
  BY DEF FfnBegin
<1>2. PICK todo : todo = run_plan(p)
  OBVIOUS
<1>3. /\ client.pc = "idle" /\ LinkIdle /\ client'.pc = "load" /\ client'.job = p
      /\ client'.todo = todo /\ UNCHANGED linkVars
  BY <1>1, <1>2 DEF Begin
<1>4. Empty' /\ request = None /\ UNCHANGED <<request, out>>
  BY <1>3 DEF PlanInv, PlanProgress, PlanStill, Empty, LinkIdle, linkVars
<1>5. PICK j \in 1 .. 17 : j = 1
  OBVIOUS
<1>6. Ahead(todo, p, j)
  <2>1. Planned(p, run_plan(p))
    BY PlanRequests
  <2>2. todo \in Seq(Sends(p)) /\ Len(todo) = 18 - j
    BY <1>2, <1>5, <2>1 DEF Planned
  <2>3. \A i \in 1 .. 18 - j : j + i - 1 = i
    BY <1>5
  <2> QED
    BY <1>2, <2>2, <2>3 DEF Ahead
<1>7. Laid(ffn, slave, p, j, 0, 0)
  <2>1. ffn.st = "IDLE" /\ ~slave.start
    BY DEF FfnBegin
  <2>2. ~(0 > 0)
    OBVIOUS
  <2>3. ASSUME NEW g \in 0 .. 3
        PROVE ~(j > 3 * g + 3) /\ j # 3 * g + 3 /\ j # 3 * g + 2
    BY <1>5
  <2>4. \A n \in 3 .. 6 : ~(j > n + 10) /\ j # n + 10
    BY <1>5
  <2>5. j # 17
    BY <1>5
  <2> QED
    BY <2>1, <2>2, <2>3, <2>4, <2>5 DEF Laid
<1>8. Position(client', out, ffn, slave, 0, 0)
  BY <1>3, <1>6, <1>7 DEF Position, Laying
<1> QED
  BY <1>3, <1>4, <1>8, PlanGoesOn

\* Programs that end early say nothing.
LEMMA PlanEndsEarly ==
  ASSUME ClientInv, PlanInv, Failed \/ Disconnect
  PROVE  PlanInv' /\ FfnExact'
<1>1. CASE Failed
  <2>1. /\ answer # None /\ client' = Ended("failed", None) /\ answer' = None
        /\ UNCHANGED <<request, out, deaf, socket, buf>>
    BY <1>1 DEF Failed, Consume
  <2>2. request = None /\ socket = <<>> /\ buf = <<>>
    BY <2>1, PlanAnswerThere
  <2>3. client'.pc = "idle" /\ client'.outcome = "failed"
    BY <2>1 DEF Ended, ClientInv
  <2>4. PlanStill' /\ FfnExact'
    BY <2>1, <2>2, <2>3 DEF PlanStill, Empty, FfnExact
  <2> QED
    BY <2>1, <2>3, <2>4, PlanEnds
<1>2. CASE Disconnect
  <2>1. /\ client' = Ended("lost", None) /\ answer' = None
        /\ socket' = <<>> /\ buf' = <<>> /\ deaf' = (request # None)
        /\ UNCHANGED <<request, out>>
    BY <1>2 DEF Disconnect, HangUp
  <2>2. client'.pc = "idle" /\ client'.outcome = "lost"
    BY <2>1 DEF Ended, ClientInv
  <2>3. PlanStill' /\ FfnExact'
    BY <2>1, <2>2 DEF PlanStill, Empty, FfnExact
  <2> QED
    BY <2>1, <2>2, <2>3, PlanEnds
<1> QED
  BY <1>1, <1>2

\* A request of the plan is answered: on to the next, or to the polling.
LEMMA PlanLoaded ==
  ASSUME ClientInv, PlanInv, UNCHANGED <<ffn, slave>>, Loaded("poll")
  PROVE  PlanInv' /\ FfnExact'
<1>1. /\ client.pc = "load" /\ answer # None /\ answer.ok /\ answer' = None
      /\ UNCHANGED <<request, out, deaf, socket, buf>>
  BY DEF Loaded, Consume
<1>2. PICK k : k = Asks(Cur).size
  OBVIOUS
<1>3. /\ client.job \in Plans /\ request = None /\ Empty'
      /\ Position(client, out, ffn, slave, k, k)
  BY <1>1, <1>2, PlanAnswerThere DEF Empty
<1>4. PICK p, todo : p \in Plans /\ p = client.job /\ todo = client.todo
  BY <1>3
<1>5. PICK j \in 1 .. 17 : Ahead(todo, p, j) /\ Laid(ffn, slave, p, j, k, k)
  BY <1>1, <1>3, <1>4 DEF Position, Laying
<1>6. k = Asks(run_plan(p)[j]).size
  BY <1>1, <1>2, <1>4, <1>5, LayCur
<1>7. PICK S : S = Sends(p)
  OBVIOUS
<1>8. /\ todo \in Seq(S) /\ Len(todo) = 18 - j
      /\ \A i \in 1 .. 18 - j : todo[i] = run_plan(p)[j + i - 1]
  BY <1>5, <1>7 DEF Ahead
<1>9. CASE Len(client.todo) > 1
  <2>1. PICK rest : rest = Tail(todo)
    OBVIOUS
  <2>2. client' = [client EXCEPT !.todo = rest]
    BY <1>4, <1>9, <2>1 DEF Loaded
  <2>3. client'.pc = "load" /\ client'.job = p /\ client'.todo = rest
    BY <1>1, <1>4, <2>2 DEF ClientInv
  <2>4. j \in 1 .. 16
    BY <1>4, <1>8, <1>9
  <2>5. PICK m \in 1 .. 17 : m = j + 1
    BY <2>4
  <2>6. /\ rest \in Seq(S) /\ Len(rest) = 18 - m
        /\ \A i \in 1 .. 18 - m : rest[i] = todo[i + 1]
    BY <1>8, <2>1, <2>4, <2>5
  <2>7. ASSUME NEW i \in 1 .. 18 - m PROVE rest[i] = run_plan(p)[m + i - 1]
    <3>1. i + 1 \in 1 .. 18 - j /\ j + (i + 1) - 1 = m + i - 1
      BY <2>5
    <3> QED
      BY <1>8, <2>6, <3>1
  <2>8. Ahead(rest, p, m)
    BY <1>7, <2>6, <2>7 DEF Ahead
  <2>9. Laid(ffn, slave, p, m, 0, 0)
    BY <1>4, <1>5, <1>6, <2>4, <2>5, LaidNext
  <2>10. Position(client', out, ffn, slave, 0, 0)
    BY <2>3, <2>8, <2>9 DEF Position, Laying
  <2> QED
    BY <1>1, <1>3, <1>4, <2>3, <2>10, PlanGoesOn
<1>10. CASE ~(Len(client.todo) > 1)
  <2>1. client' = [client EXCEPT !.pc = "poll", !.todo = <<>>]
    BY <1>10 DEF Loaded, Onward
  <2>2. client'.pc = "poll" /\ client'.job = p
    BY <1>4, <2>1 DEF ClientInv
  <2>3. j = 17
    BY <1>4, <1>8, <1>10
  <2>4. Ready(ffn, slave, p)
    BY <1>4, <1>5, <1>6, <2>3, LaidReady
  <2>5. ~(0 > 0)
    OBVIOUS
  <2>6. Position(client', out, ffn, slave, 0, 0)
    BY <2>2, <2>4, <2>5 DEF Position, Polling
  <2> QED
    BY <1>1, <1>3, <1>4, <2>2, <2>6, PlanGoesOn
<1> QED
  BY <1>9, <1>10

\* The control word was read: a pass that is done is fetched.
LEMMA PlanPolled ==
  ASSUME ClientInv, PlanInv, UNCHANGED <<ffn, slave>>, FfnPolled
  PROVE  PlanInv' /\ FfnExact'
<1>1. PICK requests : requests = result_requests
  OBVIOUS
<1>2. Polled(FALSE, "fetch", requests, "none", None)
  BY <1>1 DEF FfnPolled
<1>3. /\ client.pc = "poll" /\ answer # None /\ answer.ok /\ answer' = None
      /\ UNCHANGED <<request, out, deaf, socket, buf>>
  BY <1>2 DEF Polled, Consume
<1>4. Asks(Cur).size = 1
  BY <1>3, PollCur
<1>5. PICK k : k = 1
  OBVIOUS
<1>6. /\ client.job \in Plans /\ request = None /\ Empty' /\ answer.data = out
      /\ Position(client, out, ffn, slave, k, k)
  BY <1>3, <1>4, <1>5, PlanAnswerThere DEF Empty
<1>7. Ready(ffn, slave, client.job) /\ (out[1] % 2 = 1 => ffn.st = "IDLE")
  <2>1. k > 0
    BY <1>5
  <2> QED
    BY <1>3, <1>6, <2>1 DEF Position, Polling
<1>8. ~(0 > 0)
  OBVIOUS
<1>9. CASE answer.data[1] % 2 = 1
  <2>1. client' = [client EXCEPT !.pc = "fetch", !.todo = requests]
    BY <1>2, <1>9 DEF Polled, Onward
  <2>2. client'.pc = "fetch" /\ client'.job = client.job /\ client'.todo = result_requests
    BY <1>1, <2>1 DEF ClientInv
  <2>3. ffn.st = "IDLE"
    BY <1>6, <1>7, <1>9
  <2>4. Position(client', out, ffn, slave, 0, 0)
    BY <1>7, <1>8, <2>2, <2>3 DEF Position, Gathering
  <2> QED
    BY <1>3, <1>6, <2>2, <2>4, PlanGoesOn
<1>10. CASE ~(answer.data[1] % 2 = 1)
  <2>1. client' = [client EXCEPT !.polls = client.polls]
    BY <1>2, <1>10 DEF Polled
  <2>2. client'.pc = "poll" /\ client'.job = client.job
    BY <1>3, <2>1 DEF ClientInv
  <2>3. Position(client', out, ffn, slave, 0, 0)
    BY <1>7, <1>8, <2>2 DEF Position, Polling
  <2> QED
    BY <1>3, <1>6, <2>2, <2>3, PlanGoesOn
<1> QED
  BY <1>9, <1>10

\* The words that were read are the golden model's matrix.
LEMMA GatheredExact ==
  ASSUME NEW p \in Plans, NEW f, NEW s, Ready(f, s, p), f.st = "IDLE",
         NEW o, NEW k, k = c_depth(Dim2), Gathered(o, f, k, k)
  PROVE  unpacked(o) = y_q(p)
<1>1. k \in Nat \ {0}
  BY Shapes, Depths
<1>2. k > 0
  BY <1>1
<1>3. \A w \in 0 .. c_depth(Dim2) - 1 : o[w + 1] = f.eng2.cmem[w]
  BY <1>2 DEF Gathered
<1>4. Packed(f, p)
  BY KeptPacked DEF Ready
<1>5. Scalars(s, p) /\ Hid(f, s) /\ Copied(f, Hidden) /\ Outcome(f, s)
  BY DEF Ready, Pipe
<1> QED
  BY <1>3, <1>4, <1>5, UnpackedExact

\* The pointer was written, or the result read.
LEMMA PlanFetched ==
  ASSUME ClientInv, PlanInv, UNCHANGED <<ffn, slave>>, FfnFetched
  PROVE  PlanInv' /\ FfnExact'
<1>1. PICK data : data = unpacked(answer.data)
  OBVIOUS
<1>2. Fetched("result", data)
  BY <1>1 DEF FfnFetched
<1>3. /\ client.pc = "fetch" /\ answer # None /\ answer.ok /\ answer' = None
      /\ UNCHANGED <<request, out, deaf, socket, buf>>
  BY <1>2 DEF Fetched, Consume
<1>4. PICK k : k = Asks(Cur).size
  OBVIOUS
<1>5. /\ client.job \in Plans /\ request = None /\ Empty' /\ answer.data = out
      /\ Position(client, out, ffn, slave, k, k) /\ socket = <<>> /\ buf = <<>>
  BY <1>3, <1>4, PlanAnswerThere DEF Empty
<1>6. PICK p, todo : p \in Plans /\ p = client.job /\ todo = client.todo
  BY <1>5
<1>7. /\ Ready(ffn, slave, p) /\ ffn.st = "IDLE"
      /\ \/ todo = result_requests /\ (k > 0 => Register(slave, 2) = 0)
         \/ todo = <<Final>> /\ Register(slave, 2) = 0 /\ Gathered(out, ffn, k, k)
  BY <1>3, <1>5, <1>6 DEF Position, Gathering
<1>8. CASE todo = result_requests
  <2>1. k = 1
    BY <1>3, <1>4, <1>6, <1>8, FetchCur
  <2>2. PICK a, b : a = Write(2, <<0>>) /\ b = Final
    OBVIOUS
  <2>3. todo = <<a, b>>
    BY <1>8, <2>2 DEF result_requests, Final
  <2>4. Len(todo) > 1 /\ Tail(todo) = <<b>>
    BY <2>3
  <2>5. client' = [client EXCEPT !.todo = <<b>>]
    BY <1>2, <1>6, <2>4 DEF Fetched
  <2>6. client'.pc = "fetch" /\ client'.job = p /\ client'.todo = <<Final>>
    BY <1>3, <1>6, <2>2, <2>5 DEF ClientInv
  <2>7. Register(slave, 2) = 0
    <3>1. ASSUME todo = <<Final>> PROVE FALSE
      BY <2>3, <3>1
    <3>2. k > 0
      BY <2>1
    <3> QED
      BY <1>7, <3>2
  <2>8. Gathered(out, ffn, 0, 0)
    BY DEF Gathered
  <2>9. Position(client', out, ffn, slave, 0, 0)
    BY <1>7, <2>6, <2>7, <2>8 DEF Position, Gathering
  <2> QED
    BY <1>3, <1>5, <1>6, <2>6, <2>9, PlanGoesOn
<1>9. CASE todo # result_requests
  <2>1. todo = <<Final>> /\ Gathered(out, ffn, k, k)
    BY <1>7, <1>9
  <2>2. k = c_depth(Dim2)
    BY <1>3, <1>4, <1>6, <2>1, FetchCur
  <2>3. ~(Len(client.todo) > 1)
    BY <1>6, <2>1
  <2>4. client' = Ended("result", data)
    BY <1>2, <2>3 DEF Fetched
  <2>5. client'.pc = "idle" /\ client'.job = p /\ client'.data = data
    BY <1>6, <2>4 DEF Ended, ClientInv
  <2>6. data = y_q(p)
    BY <1>1, <1>5, <1>6, <1>7, <2>1, <2>2, GatheredExact
  <2>7. FfnExact'
    BY <2>5, <2>6 DEF FfnExact
  <2>8. PlanStill'
    BY <1>3, <1>5 DEF PlanStill, Empty
  <2> QED
    BY <1>3, <2>5, <2>7, <2>8, PlanEnds
<1> QED
  BY <1>8, <1>9

-----------------------------------------------------------------------------
(* Every step of the board.                                                  *)

\* An engine as it comes out of reset.
LEMMA EngineStart ==
  ASSUME NEW d, Shape(d)
  PROVE  EngineTyped(Engine(d), d) /\ Engine(d).st = "IDLE"
<1>1. PICK e, am, bm, cm, acc, z :
        /\ e = Engine(d) /\ am = Memory(a_depth(d), ZeroWord) /\ bm = Memory(b_depth(d), ZeroWord)
        /\ cm = Memory(c_depth(d), ZeroWord) /\ acc = Memory(TILE * TILE, 0) /\ z = ZeroWord
  OBVIOUS
<1>2. e = [amem |-> am, bmem |-> bm, cmem |-> cm,
           a_q |-> z, b_q |-> z, c_q |-> z,
           acc |-> acc, clear |-> FALSE, en_d |-> FALSE,
           rq_valid |-> FALSE, rq_out |-> 0,
           st |-> "IDLE", mi |-> 0, nj |-> 0, req_k |-> 0, fi |-> 0, fj |-> 0,
           fdone |-> FALSE, done_cnt |-> 0, oi |-> 0, oj |-> 0,
           word |-> z, c_we |-> FALSE, c_waddr |-> 0]
  BY <1>1 DEF Engine
<1>3. /\ e.amem = am /\ e.bmem = bm /\ e.cmem = cm /\ e.a_q = z /\ e.b_q = z /\ e.c_q = z
      /\ e.acc = acc /\ e.clear = FALSE /\ e.en_d = FALSE /\ e.rq_valid = FALSE /\ e.rq_out = 0
      /\ e.st = "IDLE" /\ e.mi = 0 /\ e.nj = 0 /\ e.req_k = 0 /\ e.fi = 0 /\ e.fj = 0
      /\ e.fdone = FALSE /\ e.done_cnt = 0 /\ e.oi = 0 /\ e.oj = 0 /\ e.word = z
      /\ e.c_we = FALSE /\ e.c_waddr = 0
  BY <1>2
<1>4. IsEngine(e)
  BY <1>2, <1>3 DEF IsEngine
<1>5. z \in Word
  BY <1>1, EngineAssumption DEF ZeroWord, Word
<1>6. /\ am \in [0 .. a_depth(d) - 1 -> Word] /\ bm \in [0 .. b_depth(d) - 1 -> Word]
      /\ cm \in [0 .. c_depth(d) - 1 -> Word] /\ acc \in [0 .. TILE * TILE - 1 -> Int]
  <2>1. \A depth : Memory(depth, z) \in [0 .. depth - 1 -> Word]
    BY <1>5 DEF Memory
  <2>2. acc \in [0 .. TILE * TILE - 1 -> Int]
    BY <1>1 DEF Memory
  <2> QED
    BY <1>1, <2>1, <2>2
<1>7. 0 \in Int8 /\ 0 \in Lanes /\ 0 \in 0 .. d.k
  BY Halves, EngineAssumption DEF Int8, Lanes, Shape
<1>8. 0 \in 0 .. Tiles(d.m) - 1 /\ 0 \in 0 .. Tiles(d.n) - 1
  <2>1. PICK tm \in Nat \ {0}, tn \in Nat \ {0} : tm = Tiles(d.m) /\ tn = Tiles(d.n)
    BY TilesCover DEF Shape
  <2> QED
    BY <2>1
<1>9. EngineTyped(e, d)
  BY <1>3, <1>4, <1>5, <1>6, <1>7, <1>8 DEF EngineTyped
<1> QED
  BY <1>1, <1>3, <1>9

\* The accelerator as it comes out of reset.
LEMMA FfnStart ==
  ASSUME FfnInit
  PROVE  FfnTyped(ffn) /\ SlaveTyped(slave)
<1>1. PICK f, s, e1, e2, lut, z :
        /\ f = ffn /\ s = slave /\ e1 = Engine(Dim1) /\ e2 = Engine(Dim2)
        /\ lut = Memory(Codes, 0) /\ z = ZeroWord
  OBVIOUS
<1>2. /\ f = [eng1 |-> e1, eng2 |-> e2, lut |-> lut,
              g_q |-> z, g_valid |-> FALSE, st |-> "IDLE", rcnt |-> 0, wcnt |-> 0,
              s1_valid |-> FALSE, s1_addr |-> 0, s2_valid |-> FALSE, s2_addr |-> 0]
      /\ s = [target |-> 0, ptr |-> 0, start |-> FALSE,
              mult1 |-> 0, shift1 |-> 0, mult2 |-> 0, shift2 |-> 0]
  BY <1>1 DEF FfnInit
<1>3. /\ f.eng1 = e1 /\ f.eng2 = e2 /\ f.lut = lut /\ f.g_q = z /\ f.g_valid = FALSE
      /\ f.st = "IDLE" /\ f.rcnt = 0 /\ f.wcnt = 0 /\ f.s1_valid = FALSE /\ f.s1_addr = 0
      /\ f.s2_valid = FALSE /\ f.s2_addr = 0
  BY <1>2
<1>4. IsFfn(f)
  BY <1>2, <1>3 DEF IsFfn
<1>5. /\ EngineTyped(e1, Dim1) /\ EngineTyped(e2, Dim2) /\ e1.st = "IDLE" /\ e2.st = "IDLE"
  BY <1>1, Shapes, EngineStart
<1>6. lut \in [0 .. Codes - 1 -> 0 .. Codes - 1] /\ z \in Word
  BY <1>1, EngineAssumption DEF Memory, ZeroWord, Word
<1>7. Counts(f)
  <2>1. f.g_valid = f.s2_valid
    BY <1>3, Zenon
  <2>2. f.rcnt \in Nat /\ f.wcnt \in Nat /\ f.s1_addr \in Nat /\ f.s2_addr \in Nat
    BY <1>3
  <2>3. f.st # "GELU"
    BY <1>3
  <2>4. f.s1_valid \in BOOLEAN /\ f.s2_valid \in BOOLEAN /\ ~f.s1_valid /\ ~f.s2_valid
    BY <1>3, Zenon
  <2> QED
    BY <2>1, <2>2, <2>3, <2>4, Zenon DEF Counts
<1>8. FfnTyped(f)
  BY <1>3, <1>4, <1>5, <1>6, <1>7 DEF FfnTyped, States
<1>9. SlaveTyped(s)
  BY <1>2 DEF SlaveTyped
<1> QED
  BY <1>1, <1>8, <1>9

\* A board just programmed.
LEMMA FfnBoardStart == Init => FfnInv
<1> SUFFICES ASSUME Init PROVE FfnInv
  OBVIOUS
<1>1. FfnTyped(ffn) /\ SlaveTyped(slave)
  BY FfnStart DEF Init
<1>2. /\ client.pc = "idle" /\ client.outcome = "none"
      /\ request = None /\ out = <<>> /\ socket = <<>> /\ buf = <<>> /\ answer = None
  BY DEF Init, ClientInit, LinkInit
<1>3. PlanJob /\ PlanRequest /\ OutInv /\ PlanProgress
  BY <1>2 DEF PlanJob, PlanRequest, OutInv, PlanProgress, PlanStill, Empty
<1>4. FfnExact /\ Unread
  BY <1>2 DEF FfnExact, Unread
<1> QED
  BY <1>1, <1>3, <1>4 DEF FfnInv, PlanInv

\* A board with another design never says that a result was read.
LEMMA UnreadKeeps ==
  ASSUME ClientInv, Unread, flashed # "ffn", [Next]_vars
  PROVE  Unread'
<1>0. client.outcome # "result"
  BY DEF Unread
<1>1. CASE ~Program
  BY <1>0, <1>1, Frame DEF Unread
<1>2. CASE Call \/ SatBegin \/ SdkBegin \/ SdkNext
  BY <1>2 DEF Call, SatBegin, SdkBegin, SdkNext, Begin, Unread
<1>3. CASE Send
  BY <1>0, <1>3 DEF Send, clientVars, Unread
<1>4. CASE Failed \/ Disconnect
  <2>1. client' = Ended("failed", None) \/ client' = Ended("lost", None)
    BY <1>4 DEF Failed, Disconnect
  <2>2. client'.outcome \in {"failed", "lost"}
    BY <2>1 DEF Ended, ClientInv
  <2> QED
    BY <2>2 DEF Unread
<1>5. CASE Loaded("idle") \/ Loaded("poll")
  <2>1. \/ client' = [client EXCEPT !.todo = Tail(client.todo)]
        \/ client' = Ended("ok", answer.data)
        \/ client' = [client EXCEPT !.pc = "poll", !.todo = <<>>]
    BY <1>5 DEF Loaded, Onward
  <2>2. client'.outcome \in {client.outcome, "ok"}
    BY <2>1 DEF Ended, ClientInv
  <2> QED
    BY <1>0, <2>2 DEF Unread
<1>6. CASE SatPolled
  <2>1. PICK limited, next, requests :
          Polled(limited, next, requests, "unsat", None)
    BY <1>6 DEF SatPolled
  <2>2. \/ client' = Ended("unsat", None) \/ client' = Ended("timeout", None)
        \/ client' = [client EXCEPT !.pc = next, !.todo = requests]
        \/ \E polls : client' = [client EXCEPT !.polls = polls]
    BY <2>1 DEF Polled, Onward
  <2>3. client'.outcome \in {client.outcome, "unsat", "timeout"}
    BY <2>2 DEF Ended, ClientInv
  <2> QED
    BY <1>0, <2>3 DEF Unread
<1>7. CASE SatFetched
  <2>1. \/ client' = [client EXCEPT !.todo = Tail(client.todo)]
        \/ client' = Ended("sat", answer.data[1])
    BY <1>7 DEF SatFetched, Fetched
  <2>2. client'.outcome \in {client.outcome, "sat"}
    BY <2>1 DEF Ended, ClientInv
  <2> QED
    BY <1>0, <2>2 DEF Unread
<1> QED
  BY <1>1, <1>2, <1>3, <1>4, <1>5, <1>6, <1>7 DEF Program

\* The accelerator's board: a clock edge.
LEMMA FfnClockStep ==
  ASSUME LinkInv, FfnInv, flashed = "ffn", Clock
  PROVE  FfnTyped(ffn') /\ SlaveTyped(slave') /\ PlanInv' /\ FfnExact'
<1>1. FfnClock /\ UNCHANGED clientVars
  BY DEF Clock
<1>2. Typed /\ PlanInv
  BY RequestTypes DEF FfnInv, PlanInv
<1>3. FfnTyped(ffn') /\ SlaveTyped(slave')
  BY <1>1, <1>2, FfnClockTypes
<1>4. PlanInv'
  BY <1>1, <1>2, PlanClockKeeps
<1>5. FfnExact'
  <2>1. client' = client
    BY <1>1 DEF clientVars
  <2> QED
    BY <2>1 DEF FfnInv, FfnExact
<1> QED
  BY <1>3, <1>4, <1>5

\* A step that leaves the accelerator.
LEMMA FfnProgramStep ==
  ASSUME LinkInv, ClientInv, FfnInv, flashed = "ffn", Program, Others("none")
  PROVE  UNCHANGED <<ffn, slave>> /\ PlanInv' /\ FfnExact'
<1>1. UNCHANGED <<ffn, slave>> /\ PlanInv /\ FfnExact
  BY DEF Others, FfnInv
<1>2. CASE Send
  <2>1. client' = client
    BY <1>2 DEF Send, clientVars
  <2>2. FfnExact'
    BY <1>1, <2>1 DEF FfnExact
  <2> QED
    BY <1>1, <1>2, <2>2, PlanSendKeeps
<1>3. CASE Failed \/ Disconnect
  BY <1>1, <1>3, PlanEndsEarly
<1>4. CASE FfnBegin
  BY <1>1, <1>4, PlanBegins
<1>5. CASE Loaded("poll")
  BY <1>1, <1>5, PlanLoaded
<1>6. CASE FfnPolled
  BY <1>1, <1>6, PlanPolled
<1>7. CASE FfnFetched
  BY <1>1, <1>7, PlanFetched
<1>8. Send \/ Failed \/ Disconnect \/ FfnBegin \/ Loaded("poll") \/ FfnPolled \/ FfnFetched
  BY DEF Program, Call
<1> QED
  BY <1>2, <1>3, <1>4, <1>5, <1>6, <1>7, <1>8

LEMMA FfnBridgeStep ==
  ASSUME LinkInv, FfnInv, flashed = "ffn", Bridge, Others("none")
  PROVE  UNCHANGED <<ffn, slave>> /\ PlanInv' /\ FfnExact'
<1>1. UNCHANGED <<ffn, slave>> /\ PlanInv /\ FfnExact /\ client' = client
  BY DEF Others, FfnInv, Bridge, clientVars
<1>2. FfnExact'
  BY <1>1 DEF FfnExact
<1> QED
  BY <1>1, <1>2, PlanBridgeKeeps

\* Nothing happens.
LEMMA FfnRestStep ==
  ASSUME FfnInv, flashed = "ffn", UNCHANGED vars
  PROVE  UNCHANGED <<ffn, slave>> /\ PlanInv' /\ FfnExact'
<1>1. /\ ffn' = ffn /\ slave' = slave /\ client' = client
      /\ UNCHANGED <<request, served, out, deaf, socket, buf, answer, bus, ack>>
  BY DEF vars, linkVars, clientVars
<1>2. FfnExact' /\ PlanJob' /\ PlanRequest' /\ OutInv'
  BY <1>1 DEF FfnInv, PlanInv, FfnExact, PlanJob, PlanRequest, OutInv
<1>3. (Empty' <=> Empty) /\ Cur' = Cur /\ Landed' = Landed /\ Asks(Cur)' = Asks(Cur)
  BY <1>1 DEF Empty, Cur, Landed, Asks
<1>4. \A ok : Answered(ok)' <=> Answered(ok)
  BY <1>1 DEF Answered, Arrived, Arriving, Reply
<1>5. \A land, k : Position(client, out, ffn, slave, land, k)
                     <=> Position(client', out', ffn', slave', land, k)
  BY <1>1
<1>6. (PlanStill' <=> PlanStill) /\ (PlanWaiting' <=> PlanWaiting)
      /\ (PlanInFlight' <=> PlanInFlight) /\ (PlanAnswered' <=> PlanAnswered)
  BY <1>1, <1>3, <1>4, <1>5 DEF PlanStill, PlanWaiting, PlanInFlight, PlanAnswered
<1>7. PlanProgress'
  BY <1>1, <1>4, <1>6 DEF FfnInv, PlanInv, PlanProgress
<1> QED
  BY <1>1, <1>2, <1>7 DEF PlanInv

\* No step of the board breaks what the result rests on.
LEMMA FfnBoardStep == LinkInv /\ ClientInv /\ FfnInv /\ [Next]_vars => FfnInv'
<1> SUFFICES ASSUME LinkInv, ClientInv, FfnInv, [Next]_vars
             PROVE  FfnInv'
  OBVIOUS
<1>1. flashed' = flashed
  BY Frame
<1>2. CASE flashed = "ffn"
  <2>1. Clock \/ (Program /\ Others("none")) \/ (Bridge /\ Others("none")) \/ UNCHANGED vars
    BY DEF Next
  <2>2. ASSUME UNCHANGED <<ffn, slave>> PROVE FfnTyped(ffn') /\ SlaveTyped(slave')
    BY <2>2 DEF FfnInv
  <2>3. FfnTyped(ffn') /\ SlaveTyped(slave') /\ PlanInv' /\ FfnExact'
    BY <1>2, <2>1, <2>2, FfnClockStep, FfnProgramStep, FfnBridgeStep, FfnRestStep
  <2> QED
    BY <1>1, <1>2, <2>3 DEF FfnInv
<1>3. CASE flashed # "ffn"
  <2>1. ffn' = ffn /\ slave' = slave
    BY <1>3 DEF Next, Clock, Others, vars
  <2>2. FfnTyped(ffn') /\ SlaveTyped(slave')
    BY <2>1 DEF FfnInv
  <2>3. Unread'
    BY <1>3, UnreadKeeps DEF FfnInv
  <2> QED
    BY <1>1, <1>3, <2>2, <2>3 DEF FfnInv
<1> QED
  BY <1>2, <1>3

-----------------------------------------------------------------------------
(* What holds of the accelerator on its board, with any client.              *)

\* What the result rests on holds in every reachable state of the board.
THEOREM FfnInvariance == Spec => [](BoardInv /\ FfnInv)
<1>1. Init => BoardInv /\ FfnInv
  BY BoardStart, FfnBoardStart
<1>2. BoardInv /\ FfnInv /\ [Next]_vars => BoardInv' /\ FfnInv'
  BY BoardStep, FfnBoardStep DEF BoardInv
<1> QED
  BY <1>1, <1>2, PTL DEF Spec

\* The registers and the memories of the accelerator keep their widths, and an engine works
\* only while the control waits for it, whatever plan is loaded and wherever a client is cut
\* off (design.py).
THEOREM FfnTypeCorrect == Spec => [](FfnTyped(ffn) /\ SlaveTyped(slave))
<1>1. BoardInv /\ FfnInv => FfnTyped(ffn) /\ SlaveTyped(slave)
  BY DEF FfnInv
<1> QED
  BY <1>1, FfnInvariance, PTL

\* The matrix a program reads back is the golden model's, bit for bit (golden.py).
THEOREM FfnCorrect == Spec => []FfnExact
<1>1. BoardInv /\ FfnInv => FfnExact
  BY DEF FfnInv, FfnExact, Unread
<1> QED
  BY <1>1, FfnInvariance, PTL
=============================================================================
