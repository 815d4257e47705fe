---------------------------------- MODULE SatBoard ----------------------------------
(***************************************************************************)
(* The solver behind its register file (SATSlave) and the two programs     *)
(* that drive it: client.py, which rewrites every literal slot in one      *)
(* burst, and client_sdk.py, which writes only the slots its formula uses. *)
(* Either may be cut off at any point and another one find the core still  *)
(* searching.  A formula is a sequence of clauses, a clause a sequence of  *)
(* signed variables.                                                       *)
(***************************************************************************)
EXTENDS BoardClient, SatCore

CONSTANTS Problems,   \* the [n, clauses] that solve is called with
          SdkProblems \* the two formulas of client_sdk.py, in order

LIT_BASE == 8

Abs(n) == IF n < 0 THEN -n ELSE n

\* solve refuses a formula that does not fit the registers, and the formulas of the SDK
\* program fit them; a formula speaks of its own variables.
ASSUME ProblemAssumption ==
    /\ SdkProblems # <<>> /\ SdkProblems \in Seq({SdkProblems[i] : i \in DOMAIN SdkProblems})
    /\ \A p \in Problems \cup {SdkProblems[i] : i \in DOMAIN SdkProblems} :
          /\ p.n \in 1 .. MAX_VARS
          /\ p.clauses \in Seq(Seq(Int)) /\ Len(p.clauses) \in 1 .. MAX_CLAUSES
          /\ \A c \in DOMAIN p.clauses :
                /\ Len(p.clauses[c]) <= CLAUSE_LEN
                /\ \A s \in DOMAIN p.clauses[c] : Abs(p.clauses[c][s]) \in 1 .. p.n

\* One request carries the literal block, or both counts.
ASSUME BlockAssumption == {2, MAX_CLAUSES * CLAUSE_LEN} \subseteq 0 .. LengthSpan - 1

\* What word dat does to the registers on this edge; other addresses are ignored.
SatWrite(adr, dat) ==
    CASE adr = 0 -> WriteStart(dat % 2 = 1)
      [] adr = 1 -> WriteVars(dat % VarSpan)
      [] adr = 2 -> WriteClauses(dat % ClauseSpan)
      [] adr - LIT_BASE \in Slots -> WriteLiteral(adr - LIT_BASE, dat)
      [] OTHER -> NoWrite

SatRead(adr) ==
    CASE adr = 0 -> (IF core.done THEN 1 ELSE 0) + (IF core.sat THEN 2 ELSE 0)
      [] adr = 3 -> core.model
      [] adr = 4 -> core.cycles
      [] OTHER -> 0

SatClock ==
    /\ IF Active /\ bus.we THEN SatWrite(bus.adr, bus.dat) ELSE NoWrite
    /\ AckEdge /\ MasterEdge(SatRead(bus.adr))

encode_lit(lit) == [used |-> TRUE, neg |-> lit < 0, var |-> Abs(lit) - 1]

encode_literals(clauses) ==
    [i \in 1 .. MAX_CLAUSES * CLAUSE_LEN |->
        LET c == (i - 1) \div CLAUSE_LEN + 1
            s == ((i - 1) % CLAUSE_LEN) + 1
        IN IF c <= Len(clauses) /\ s <= Len(clauses[c])
             THEN encode_lit(clauses[c][s]) ELSE NoLiteral]

\* What the formulas of the SDK program may have left in a slot.
Leftover(s) ==
    {NoLiteral} \cup {encode_literals(SdkProblems[i].clauses)[s + 1] : i \in DOMAIN SdkProblems}

\* In a slot that the next formula does not use it changes nothing: no clause is
\* satisfied by it that the formula's own literals do not satisfy.
ASSUME LeftoverAssumption ==
    \A i \in DOMAIN SdkProblems :
        LET p == SdkProblems[i]
            block == [s \in Slots |-> encode_literals(p.clauses)[s + 1]]
        IN \A s \in Slots : \A l \in Leftover(s) : \A a \in 0 .. Weight[p.n] - 1 :
              /\ ~block[s].used /\ s \div CLAUSE_LEN < Len(p.clauses)
              /\ l.used /\ (Value(a, l.var) # l.neg)
              => clause_sat(block, s \div CLAUSE_LEN, a)

\* client_sdk.py: the counts, the used slots one at a time, then start.
sdk_literals(clauses) ==
    LET block == encode_literals(clauses)
        writes[i \in 0 .. MAX_CLAUSES * CLAUSE_LEN] ==
            IF i = 0 THEN <<>>
            ELSE IF block[i].used
                   THEN Append(writes[i - 1], Write(LIT_BASE + i - 1, <<block[i]>>))
                   ELSE writes[i - 1]
    IN writes[MAX_CLAUSES * CLAUSE_LEN]
solveLeavingOldLiterals(p) ==
    sdk_literals(p.clauses) \o <<Write(1, <<p.n, Len(p.clauses)>>), Write(0, <<1>>)>>

sdk_solve(p) == <<Write(1, <<p.n>>), Write(2, <<Len(p.clauses)>>)>>
                  \o sdk_literals(p.clauses) \o <<Write(0, <<1>>)>>

\* client.py: all literal slots, then both counts, then start.
solve(p) == <<Write(LIT_BASE, encode_literals(p.clauses)),
              Write(1, <<p.n, Len(p.clauses)>>), Write(0, <<1>>)>>

SatBegin ==
    \E p \in Problems : Begin([kind |-> "solve", problem |-> p, next |-> <<>>], solve(p))

\* The SDK program runs on a board just programmed.
SdkBegin ==
    /\ runs = 0
    /\ Begin([kind |-> "sdk", problem |-> Head(SdkProblems), next |-> Tail(SdkProblems)],
             sdk_solve(Head(SdkProblems)))

\* Done: the model is read when the sat bit is set.
SatPolled ==
    LET sat == answer.data[1] >= 2 IN
    Polled(client.job.kind = "solve", IF sat THEN "fetch" ELSE "idle",
           <<Read(3, 1)>>, "unsat", None)
SatFetched == Fetched("sat", answer.data[1])

\* The SDK program's second formula follows the first on the same connection.
SdkNext ==
    /\ client.pc = "idle" /\ client.outcome \in {"sat", "unsat"}
    /\ client.job.next # <<>>
    /\ LET p == Head(client.job.next) IN
         client' = [pc |-> "load", polls |-> 0, outcome |-> "none", data |-> None, todo |-> sdk_solve(p),
                    job |-> [kind |-> "sdk", problem |-> p,
                             next |-> Tail(client.job.next)]]
    /\ UNCHANGED <<linkVars, runs>>

-------------------------------------------------------------------------------------
\* The reference: a formula read as its clauses, on Booleans.
Holds(p, v) == \A c \in DOMAIN p.clauses : \E s \in DOMAIN p.clauses[c] :
                  v[Abs(p.clauses[c][s])] = (p.clauses[c][s] > 0)
Valuations(p) == [1 .. p.n -> BOOLEAN]

\* Both programs end with the truth about the formula they were given, though the
\* board still holds the literals, the counts and the verdict of the one before, and
\* may still have been searching when the new formula was written.  The SDK program,
\* which leaves old literals in place, is right on the formulas it ships with.
VerdictRight ==
    client.pc = "idle" /\ client.outcome \in {"sat", "unsat"} =>
        LET p == client.job.problem IN
        IF client.outcome = "unsat" THEN \A v \in Valuations(p) : ~Holds(p, v)
        ELSE Holds(p, [i \in 1 .. p.n |-> (client.data \div Weight[i - 1]) % 2 = 1])
=====================================================================================
