----------------------- MODULE MCWebSocketTransport -----------------------
(***************************************************************************)
(* Instances of WebSocketTransport for TLC.  The cfg files give the sets   *)
(* and the timeouts; Symmetry is used by the safety runs only.             *)
(***************************************************************************)
EXTENDS WebSocketInvariant, TLC

CONSTANTS m, w, a, b, d, c1, c2, c3

OneThread == {m}
TwoThreads == {m, w}
TwoCalls == {a, b}
ThreeCalls == {a, b, d}
TwoConns == {c1, c2}
ThreeConns == {c1, c2, c3}

Symmetry == Permutations(Calls) \cup Permutations(Conns)
=============================================================================
