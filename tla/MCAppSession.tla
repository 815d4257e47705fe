--------------------------- MODULE MCAppSession ---------------------------
(***************************************************************************)
(* Instances of AppSession for TLC: one or two Apps, each driven by one    *)
(* thread.                                                                 *)
(***************************************************************************)
EXTENDS AppSession, TLC

CONSTANTS A, B, m, w, j1, j2, j3, b1, b2, x1, x2, x3

OneApp == {A}
TwoApps == {A, B}
OneThread == {m}
TwoThreads == {m, w}
Alone == [t \in {m} |-> A]
Apart == m :> A @@ w :> B
NoMains == {}
NoneGiven == {}
TwoJobs == {j1, j2}
ThreeJobs == {j1, j2, j3}
OneBoard == {b1}
TwoBoards == {b1, b2}
TwoTransports == {x1, x2}
ThreeTransports == {x1, x2, x3}

Symmetry == Permutations(Jobs) \cup Permutations(Boards)
              \cup Permutations(Transports)
=============================================================================
