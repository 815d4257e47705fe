---------------------------------- MODULE SatCore ----------------------------------
(***************************************************************************)
(* The brute-force solver core of examples/sat_solver/design.py: every     *)
(* clock cycle all clauses are evaluated against the candidate assignment, *)
(* a binary counter sweeps the space, and registers written at any time    *)
(* feed the evaluation directly.  An assignment is a number, bit v the     *)
(* value of variable v.                                                    *)
(***************************************************************************)
EXTENDS Integers

CONSTANTS MAX_VARS, MAX_CLAUSES, CLAUSE_LEN,
          AssignSpan, \* the values of an assignment register of MAX_VARS bits
          VarSpan,    \* the values of a variable field and of n_vars (2^4)
          ClauseSpan, \* the values of n_clauses (2^5)
          CycleSpan   \* the values of the cycle counter (2^20)

\* What bit v of a number counts.
Weight[v \in Nat] == IF v = 0 THEN 1 ELSE 2 * Weight[v - 1]

\* Every variable and the numbers of variables and clauses fit their registers.
ASSUME SatAssumption ==
    /\ {MAX_VARS, MAX_CLAUSES, CLAUSE_LEN, VarSpan, ClauseSpan, CycleSpan, AssignSpan}
         \subseteq Nat \ {0}
    /\ AssignSpan = Weight[MAX_VARS]
    /\ MAX_VARS < VarSpan /\ MAX_CLAUSES < ClauseSpan

VARIABLES lits,      \* literal registers, by slot
          n_vars,    \* as written, up to the register's width
          n_clauses,
          start,     \* start_r, high for one cycle
          core,      \* assignment, running, done, sat, model, cycles
          intact     \* history: the formula is the one the last start found

satVars == <<lits, n_vars, n_clauses, start, core, intact>>

Slots == 0 .. MAX_CLAUSES * CLAUSE_LEN - 1
Literals == [used : BOOLEAN, neg : BOOLEAN, var : 0 .. VarSpan - 1]
Assignments == 0 .. AssignSpan - 1
NoLiteral == [used |-> FALSE, neg |-> FALSE, var |-> 0]

\* word_select past the top of the assignment reads zero.
Value(a, v) == v < MAX_VARS /\ (a \div Weight[v]) % 2 = 1

clause_sat(f, c, a) ==
    \E s \in 0 .. CLAUSE_LEN - 1 :
        LET l == f[c * CLAUSE_LEN + s] IN l.used /\ (Value(a, l.var) # l.neg)

all_sat(f, n, a) == \A c \in 0 .. MAX_CLAUSES - 1 : c >= n \/ clause_sat(f, c, a)

max_assign(n) == (Weight[n] - 1) % AssignSpan

Reset0 == [assignment |-> 0, running |-> FALSE, done |-> FALSE, sat |-> FALSE,
           model |-> 0, cycles |-> 0]

SatInit ==
    /\ lits = [s \in Slots |-> NoLiteral]
    /\ n_vars = 0 /\ n_clauses = 0 /\ start = FALSE
    /\ core = Reset0 /\ intact = FALSE

RestartKeepingCounter == [core EXCEPT !.running = TRUE, !.done = FALSE, !.sat = FALSE]

Restart == [assignment |-> 0, running |-> TRUE, done |-> FALSE, sat |-> FALSE,
            model |-> 0, cycles |-> 0]

CyclesUnbounded == core.cycles + 1

Cycles == (core.cycles + 1) % CycleSpan

Verdict(s, m) == [assignment |-> core.assignment, running |-> FALSE, done |-> TRUE,
                  sat |-> s, model |-> m, cycles |-> Cycles]

Counting == [assignment |-> (core.assignment + 1) % AssignSpan, running |-> TRUE,
             done |-> core.done, sat |-> core.sat, model |-> core.model, cycles |-> Cycles]

CoreEdge ==
    core' =
      IF start THEN Restart
      ELSE IF ~core.running THEN core
      ELSE IF all_sat(lits, n_clauses, core.assignment) THEN Verdict(TRUE, core.assignment)
      ELSE IF core.assignment = max_assign(n_vars) THEN Verdict(FALSE, core.model)
      ELSE Counting

\* The clock edge of the core with the register write that happens on it, if any:
\* the word written to CTRL overrides the automatic clearing of start.
NoWrite ==
    /\ CoreEdge /\ start' = FALSE /\ intact' = (start \/ intact)
    /\ UNCHANGED <<lits, n_vars, n_clauses>>
WriteStart(b) ==
    /\ CoreEdge /\ start' = b /\ intact' = (start \/ intact)
    /\ UNCHANGED <<lits, n_vars, n_clauses>>
WriteVars(n) ==
    /\ CoreEdge /\ start' = FALSE /\ n_vars' = n /\ intact' = start
    /\ UNCHANGED <<lits, n_clauses>>
WriteClauses(n) ==
    /\ CoreEdge /\ start' = FALSE /\ n_clauses' = n /\ intact' = start
    /\ UNCHANGED <<lits, n_vars>>
WriteLiteral(s, l) ==
    /\ CoreEdge /\ start' = FALSE /\ lits' = [lits EXCEPT ![s] = l] /\ intact' = start
    /\ UNCHANGED <<n_vars, n_clauses>>

SatNext ==
    \/ NoWrite
    \/ \E b \in BOOLEAN : WriteStart(b)
    \/ \E n \in 0 .. VarSpan - 1 : WriteVars(n)
    \/ \E n \in 0 .. ClauseSpan - 1 : WriteClauses(n)
    \/ \E s \in Slots, l \in Literals : WriteLiteral(s, l)
SatSpec == SatInit /\ [][SatNext]_satVars

-------------------------------------------------------------------------------------
Satisfies(a) == all_sat(lits, n_clauses, a)
Space == 0 .. max_assign(n_vars)

CoreTypeOK ==
    /\ lits \in [Slots -> Literals]
    /\ n_vars \in 0 .. VarSpan - 1 /\ n_clauses \in 0 .. ClauseSpan - 1
    /\ start \in BOOLEAN /\ intact \in BOOLEAN
    /\ core \in [assignment : Assignments, running : BOOLEAN, done : BOOLEAN,
                 sat : BOOLEAN, model : Assignments, cycles : 0 .. CycleSpan - 1]

\* The verdict of a search that no register write disturbed, from its start until
\* the verdict is read, is the truth about the formula in the registers: SAT with
\* a model in the space, or UNSAT and nothing in the space satisfies it.  A sweep
\* that stops early or starts late, or a verdict of the search before, breaks it.
CoreRight ==
    core.done /\ intact =>
        IF core.sat THEN core.model \in Space /\ Satisfies(core.model)
                    ELSE \A a \in Space : ~Satisfies(a)

\* Nothing below the counter satisfies the formula, and the counter has not run past
\* the space.
SweptClean ==
    core.running /\ intact =>
        /\ core.assignment \in Space /\ ~core.done
        /\ \A a \in 0 .. core.assignment - 1 : ~Satisfies(a)
=====================================================================================
