---------------------------------- MODULE MCBoards ----------------------------------
(* A small instance of Boards. *)
EXTENDS Boards

MCEchoCalls ==
    {HelloRequests(<<1, 2>>), <<FixedWrite(1, <<1, 2>>), Read(1, 1)>>,
     <<Write(0, <<2>>), Read(0, 2)>>}
MCMacCalls ==
    {AppRequests(3, 2, 3), <<FixedWrite(1, <<3, 1>>), Read(2, 1)>>,
     <<Write(0, <<7>>), Write(1, <<5>>), Read(2, 1)>>}

MCProblems ==
    {[n |-> 1, clauses |-> <<<<1>>, <<-1>>>>],
     [n |-> 2, clauses |-> <<<<1, 2>>, <<-1>>>>],
     [n |-> 2, clauses |-> <<<<2>>, <<1>>>>],
     [n |-> 3, clauses |-> <<<<3>>>>]}
MCSdkProblems ==
    <<[n |-> 3, clauses |-> <<<<1, 2>>, <<-1, 3>>>>],
      [n |-> 1, clauses |-> <<<<1>>, <<-1>>>>]>>

Matrix(rows, cols, f(_, _)) == [r \in 0 .. rows - 1, c \in 0 .. cols - 1 |-> f(r, c)]
Plan1 ==
    [x  |-> Matrix(M, K1, LAMBDA r, c : r - 2 * c),
     W1 |-> Matrix(K1, K2, LAMBDA r, c : c - r - 1),
     W2 |-> Matrix(K2, N, LAMBDA r, c : 2 - r + c),
     lut |-> [x \in 0 .. Codes - 1 |-> IF x < 4 THEN x ELSE 0],
     mult1 |-> 3, shift1 |-> 2, mult2 |-> 5, shift2 |-> 4]
Plan2 ==
    [x  |-> Matrix(M, K1, LAMBDA r, c : c - 2 * r + 1),
     W1 |-> Matrix(K1, K2, LAMBDA r, c : 2 * r - c),
     W2 |-> Matrix(K2, N, LAMBDA r, c : r - 2 * c),
     lut |-> [x \in 0 .. Codes - 1 |-> IF x < 4 THEN 3 - x ELSE x - 7],
     mult1 |-> 1, shift1 |-> 1, mult2 |-> 3, shift2 |-> 3]
MCPlans == {Plan1, Plan2}
======================================================================================
