---------------------------- MODULE BoardsProofs ----------------------------
(***************************************************************************)
(* The safety of Boards, for any requests, sizes and pacing of the bridge. *)
(* The master drives the word it has not counted yet and nothing else      *)
(* (LinkInv), so that the one cycle in which a design acknowledges is the  *)
(* one in which that word takes effect.  First the echo designs and the    *)
(* MAC accumulator (BoardInv), then the SAT solver: its core under any     *)
(* writes (IInv), and on its board, where the formula it searches has to   *)
(* be the one its program was given (SolverInv).                           *)
(***************************************************************************)
EXTENDS Boards, TLAPS, WellFoundedInduction

\* The master drives the next word of a request, or nothing, and an acknowledge
\* answers a strobe.
LinkInv ==
  /\ served \in Nat /\ ack \in BOOLEAN
  /\ \/ bus = Quiet
     \/ request # None /\ served < request.size /\ bus = Drive(served)
  /\ ack => bus.stb

\* The client is a record of its fields.
ClientInv ==
  client = [pc |-> client.pc, job |-> client.job, todo |-> client.todo,
            polls |-> client.polls, outcome |-> client.outcome, data |-> client.data]

\* What the programs that only call send, and that nothing else is asked.
Sent == Requests(IF flashed = "echo" THEN EchoCalls ELSE MacCalls)
CallsInv ==
  flashed \in {"echo", "mac"} =>
    /\ client.pc \in {"idle", "load"}
    /\ client.pc = "load" => client.todo \in Seq(Sent) \ {<<>>}
    /\ request # None => \E r \in Sent : request = Asks(r)

----------------------------------------------------------------------------
(* The bus.                                                                *)

\* A quiet bus strobes nothing, a driven one names the word.
LEMMA BusShape ==
  /\ Quiet.stb = FALSE
  /\ \A i : Drive(i).stb = TRUE /\ Drive(i).we = (request.op = "write")
              /\ Drive(i).adr = request.adr + (IF request.fixed THEN 0 ELSE i)
              /\ request.op = "write" => Drive(i).dat = request.words[i + 1]
  BY DEF Quiet, Drive

\* The bus is driven only for a request that has words left.
LEMMA Driven ==
  ASSUME LinkInv, bus.stb
  PROVE  /\ request # None /\ served < request.size
         /\ bus.we <=> request.op = "write"
         /\ bus.adr = request.adr + (IF request.fixed THEN 0 ELSE served)
         /\ bus.we => bus.dat = request.words[served + 1]
<1>1. request # None /\ served < request.size /\ bus = Drive(served)
  BY DEF LinkInv, Quiet
<1>2. bus.we <=> request.op = "write"
  BY <1>1 DEF Drive
<1>3. bus.adr = request.adr + (IF request.fixed THEN 0 ELSE served)
  BY <1>1 DEF Drive
<1>4. request.op = "write" => bus.dat = request.words[served + 1]
  BY <1>1 DEF Drive
<1> QED
  BY <1>1, <1>2, <1>3, <1>4

\* Both halves of a clock edge keep the handshake.
LEMMA LinkClock ==
  ASSUME LinkInv, NEW datR, AckEdge, MasterEdge(datR)
  PROVE  LinkInv'
<1>0. request' = request /\ ack' = (bus.stb /\ ~ack) /\ \A i : Drive(i)' = Drive(i)
  BY DEF MasterEdge, AckEdge, Active, Drive
<1>1. CASE bus.stb /\ ack
  <2>1. served' = served + 1 /\ ~ack'
    BY <1>0, <1>1 DEF MasterEdge, Active
  <2>2. \/ bus' = Quiet
        \/ served + 1 < request.size /\ bus' = Drive(served + 1)
    BY <1>1 DEF MasterEdge, Active
  <2>3. request # None
    BY <1>1, Driven
  <2>4. Quiet' = Quiet
    BY DEF Quiet
  <2> QED
    BY <1>0, <2>1, <2>2, <2>3, <2>4 DEF LinkInv
<1>2. CASE bus.stb /\ ~ack
  <2>1. served' = served /\ bus' = bus
    BY <1>2 DEF MasterEdge, Active
  <2> QED
    BY <1>0, <1>2, <2>1 DEF LinkInv
<1>3. CASE ~bus.stb
  <2>1. served' = served /\ ~ack'
    BY <1>0, <1>3 DEF MasterEdge, Active
  <2>2. \/ bus' = bus
        \/ request # None /\ served < request.size /\ bus' = Drive(served)
    BY <1>3 DEF MasterEdge, Active
  <2> QED
    BY <1>0, <1>3, <2>1, <2>2 DEF LinkInv
<1> QED
  BY <1>1, <1>2, <1>3

\* What a program does to the link: it sends a request, or leaves the design's
\* side alone.
LEMMA ProgramLink ==
  ASSUME Program
  PROVE  \/ UNCHANGED <<request, served, out, bus, ack>>
         \/ Send
<1> USE DEF linkVars, Begin, Consume
<1>1. CASE Call
  BY <1>1 DEF Call
<1>2. CASE Failed \/ Disconnect
  BY <1>2 DEF Failed, Disconnect, HangUp
<1>3. CASE Loaded("idle") \/ Loaded("poll")
  BY <1>3 DEF Loaded
<1>4. CASE SatBegin \/ SdkBegin \/ SdkNext \/ SatPolled \/ SatFetched
  BY <1>4 DEF SatBegin, SdkBegin, SdkNext, SatPolled, Polled, SatFetched, Fetched
<1>5. CASE FfnBegin \/ FfnPolled \/ FfnFetched
  BY <1>5 DEF FfnBegin, FfnPolled, Polled, FfnFetched, Fetched
<1> QED
  BY <1>1, <1>2, <1>3, <1>4, <1>5 DEF Program

\* And what the bridge does off the bus.
LEMMA BridgeLink ==
  ASSUME Bridge
  PROVE  /\ UNCHANGED <<served, out, bus, ack>>
         /\ \/ UNCHANGED request
            \/ request # None /\ request' = None /\ ~bus.stb
                 /\ served \in {0, request.size}
  BY DEF Bridge, BridgeResponds, BridgeRejects, Respond, Receive

\* So does every step.
LEMMA LinkStep == LinkInv /\ [Next]_vars => LinkInv'
<1> SUFFICES ASSUME LinkInv, [Next]_vars
             PROVE  LinkInv'
  OBVIOUS
<1>1. CASE Clock
  BY <1>1, LinkClock DEF Clock, EchoClock, MacClock, SatClock, FfnClock
<1>2. CASE UNCHANGED <<request, served, out, bus, ack>>
  BY <1>2 DEF LinkInv, Drive, Quiet
<1>3. CASE Send
  <2>1. request = None /\ served' = 0 /\ bus' = bus /\ ack' = ack
    BY <1>3 DEF Send, transact, LinkIdle
  <2>2. bus = Quiet
    BY <2>1 DEF LinkInv
  <2> QED
    BY <2>1, <2>2 DEF LinkInv, Quiet
<1>4. CASE Bridge
  <2>1. ~bus.stb \/ request' = request
    BY <1>4, BridgeLink
  <2> QED
    BY <1>4, <2>1, BridgeLink, BusShape DEF LinkInv, Drive, Quiet
<1>5. CASE UNCHANGED vars
  BY <1>2, <1>5 DEF vars, linkVars
<1> QED
  BY <1>1, <1>2, <1>3, <1>4, <1>5, ProgramLink DEF Next

----------------------------------------------------------------------------
(* The programs that only call.                                            *)

\* The first request of a program, and what remains of it.
LEMMA ShorterProgram ==
  ASSUME NEW S, NEW todo \in Seq(S) \ {<<>>}
  PROVE  Head(todo) \in S /\ (Len(todo) > 1 => Tail(todo) \in Seq(S) \ {<<>>})
<1>1. Len(todo) \in Nat /\ Len(todo) # 0
  OBVIOUS
<1>2. Head(todo) \in S
  BY <1>1
<1>3. ASSUME Len(todo) > 1
      PROVE  Tail(todo) \in Seq(S) \ {<<>>}
  <2>1. Tail(todo) \in Seq(S) /\ Len(Tail(todo)) = Len(todo) - 1
    BY <1>1
  <2>2. Len(todo) - 1 # 0
    BY <1>1, <1>3
  <2>3. ASSUME Tail(todo) = <<>>
        PROVE  FALSE
    BY <2>1, <2>2, <2>3
  <2> QED
    BY <2>1, <2>3
<1> QED
  BY <1>2, <1>3

\* Every step leaves the design on the board, and the client is moved by its
\* program alone.
LEMMA Frame ==
  ASSUME [Next]_vars
  PROVE  /\ flashed' = flashed
         /\ ~Program => client' = client
         /\ ~Program => request' = request \/ request' = None
<1>1. CASE Clock
  BY <1>1 DEF Clock, Others, clientVars, EchoClock, MacClock, SatClock, FfnClock, MasterEdge
<1>2. CASE Program /\ Others("none")
  BY <1>2 DEF Others
<1>3. CASE Bridge /\ Others("none")
  BY <1>3, BridgeLink DEF Bridge, Others, clientVars
<1>4. CASE UNCHANGED vars
  BY <1>4 DEF vars, linkVars, clientVars
<1> QED
  BY <1>1, <1>2, <1>3, <1>4 DEF Next

\* The client stays a record of its fields.
LEMMA ClientStep == ClientInv /\ [Next]_vars => ClientInv'
<1> SUFFICES ASSUME ClientInv, [Next]_vars
             PROVE  ClientInv'
  OBVIOUS
<1> USE DEF ClientInv, Begin, Ended, Onward
<1>1. CASE ~Program
  BY <1>1, Frame
<1>2. CASE Call \/ SatBegin \/ SdkBegin \/ FfnBegin \/ SdkNext
  BY <1>2 DEF Call, SatBegin, SdkBegin, FfnBegin, SdkNext
<1>3. CASE Send
  BY <1>3 DEF Send, clientVars
<1>4. CASE Failed \/ Disconnect
  BY <1>4 DEF Failed, Disconnect
<1>5. CASE Loaded("idle") \/ Loaded("poll")
  BY <1>5 DEF Loaded
<1>6. ASSUME NEW limited, NEW next, NEW requests, NEW outcome, NEW data,
             Polled(limited, next, requests, outcome, data)
      PROVE  ClientInv'
  BY <1>6 DEF Polled
<1>7. CASE SatPolled \/ FfnPolled
  BY <1>6, <1>7 DEF SatPolled, FfnPolled
<1>8. CASE SatFetched \/ FfnFetched
  BY <1>8 DEF SatFetched, FfnFetched, Fetched
<1> QED
  BY <1>1, <1>2, <1>3, <1>4, <1>5, <1>7, <1>8 DEF Program

\* A program that only calls goes on with its own requests.
LEMMA CallsStep == ClientInv /\ CallsInv /\ [Next]_vars => CallsInv'
<1> SUFFICES ASSUME ClientInv, CallsInv, [Next]_vars, flashed \in {"echo", "mac"}
             PROVE  /\ client'.pc \in {"idle", "load"}
                    /\ client'.pc = "load" => client'.todo \in Seq(Sent) \ {<<>>}
                    /\ request' # None => \E r \in Sent : request' = Asks(r)
  BY Frame DEF CallsInv, Sent
<1>0. /\ client.pc \in {"idle", "load"}
      /\ client.pc = "load" => client.todo \in Seq(Sent) \ {<<>>}
      /\ request # None => \E r \in Sent : request = Asks(r)
  BY DEF CallsInv
<1>1. CASE ~Program
  BY <1>0, <1>1, Frame
<1>2. CASE Call
  <2>1. PICK r \in (IF flashed = "echo" THEN EchoCalls ELSE MacCalls) : Begin("call", r)
    BY <1>2 DEF Call
  <2>2. r \in Seq(Sent) \ {<<>>}
    BY CallAssumption DEF Sent
  <2> QED
    BY <1>0, <2>1, <2>2 DEF Begin, linkVars
<1>3. CASE Send
  <2>1. client.pc = "load" /\ request' = Asks(Head(client.todo)) /\ client' = client
    BY <1>0, <1>3 DEF Send, transact, Asks, clientVars
  <2>2. Head(client.todo) \in Sent
    BY <1>0, <2>1, ShorterProgram
  <2> QED
    BY <1>0, <2>1, <2>2
<1>4. CASE Failed \/ Disconnect
  BY <1>0, <1>4 DEF ClientInv, Failed, Disconnect, Ended, Consume, HangUp
<1>5. CASE Loaded("idle")
  <2>1. client.pc = "load" /\ request' = request
    BY <1>5 DEF Loaded, Consume
  <2>2. CASE Len(client.todo) > 1
    <3>1. client' = [client EXCEPT !.todo = Tail(client.todo)]
      BY <1>5, <2>2 DEF Loaded
    <3>2. client'.pc = "load" /\ client'.todo = Tail(client.todo)
      BY <2>1, <3>1 DEF ClientInv
    <3> QED
      BY <1>0, <2>1, <2>2, <3>2, ShorterProgram
  <2>3. CASE ~(Len(client.todo) > 1)
    <3>1. client'.pc = "idle"
      BY <1>5, <2>3 DEF ClientInv, Loaded, Onward, Ended
    <3> QED
      BY <1>0, <2>1, <3>1
  <2> QED
    BY <2>2, <2>3
<1> QED
  BY <1>1, <1>2, <1>3, <1>4, <1>5 DEF Program

BoardInv == LinkInv /\ ClientInv /\ CallsInv

\* A board just programmed.
LEMMA BoardStart == Init => BoardInv
<1> SUFFICES ASSUME Init PROVE BoardInv
  OBVIOUS
<1>1. LinkInv
  BY DEF Init, LinkInit, LinkInv, Quiet
<1>2. ClientInv
  BY DEF Init, ClientInit, ClientInv
<1>3. CallsInv
  BY DEF Init, LinkInit, ClientInit, CallsInv
<1> QED
  BY <1>1, <1>2, <1>3 DEF BoardInv

\* Every step keeps the invariant.
LEMMA BoardStep == BoardInv /\ [Next]_vars => BoardInv'
  BY LinkStep, ClientStep, CallsStep DEF BoardInv

\* The handshake and the programs' requests are what they should be in every reachable state.
THEOREM BoardInvariance == Spec => []BoardInv
  BY BoardStart, BoardStep, PTL DEF Spec

----------------------------------------------------------------------------
(* The designs serve their requests a word at a time.                      *)

\* Only the accepted word moves the count of those that took effect.
LEMMA LandedClock ==
  ASSUME LinkInv, NEW datR, AckEdge, MasterEdge(datR)
  PROVE  /\ UNCHANGED request
         /\ Active => /\ Landed = served /\ Landed' = served + 1
                      /\ UNCHANGED <<served, out, bus>> /\ ack' = TRUE /\ ~ack
         /\ ~Active => /\ Landed' = Landed /\ ack' = FALSE
                       /\ out' = LandedOut(datR)
<1>0. served \in Nat /\ served + 0 = served
  BY DEF LinkInv
<1>1. CASE Active
  <2>1. UNCHANGED <<request, served, out, bus>> /\ ack' = TRUE /\ bus.stb /\ ~ack
    BY <1>1 DEF Active, AckEdge, MasterEdge
  <2> QED
    BY <1>0, <1>1, <2>1 DEF Landed
<1>2. CASE bus.stb /\ ack
  <2>1. ~Active /\ request' = request /\ served' = served + 1 /\ ~ack' /\ ack' = FALSE
    BY <1>2 DEF Active, AckEdge, MasterEdge
  <2>2. out' = LandedOut(datR)
    BY <1>2 DEF Active, MasterEdge, LandedOut
  <2>3. Landed = served + 1
    BY <1>2 DEF Landed
  <2>4. Landed' = served + 1 + 0
    BY <2>1 DEF Landed
  <2> QED
    BY <1>0, <2>1, <2>2, <2>3, <2>4
<1>3. CASE ~bus.stb
  BY <1>3 DEF Active, AckEdge, MasterEdge, Landed, LandedOut, LinkInv
<1> QED
  BY <1>1, <1>2, <1>3 DEF Active, LinkInv, AckEdge, MasterEdge

\* A client that sends a request asks something of an idle design.
LEMMA SendAsks ==
  ASSUME BoardInv, flashed \in {"echo", "mac"}, Send
  PROVE  /\ request = None /\ request' # None
         /\ served' = 0 /\ out' = <<>> /\ ~ack /\ ~ack'
<1>1. client.pc = "load" /\ client.todo \in Seq(Sent) \ {<<>>}
  BY DEF BoardInv, CallsInv, Send
<1>2. request = None /\ request' = Asks(Head(client.todo))
      /\ served' = 0 /\ out' = <<>> /\ ack' = ack
  BY <1>1 DEF Send, transact, LinkIdle, Asks
<1>3. Head(client.todo) \in Sent
  BY <1>1, ShorterProgram
<1>4. Asks(Head(client.todo)) # None
  BY <1>3, CallAssumption DEF Sent
<1>5. ~ack
  BY <1>2 DEF BoardInv, LinkInv, Quiet
<1> QED
  BY <1>2, <1>4, <1>5

\* The memory takes each word as the map counts it.
LEMMA EchoStep ==
  ASSUME BoardInv, [Next]_vars
  PROVE  [Echoes!Next]_(Echoes!vars)
<1> DEFINE R == On("echo", request, None)
           L == On("echo", Landed, 0)
           O == On("echo", LandedOut(echo.dat_r), <<>>)
<1> USE DEF On
<1>0. flashed' = flashed
  BY Frame
<1>1. CASE flashed # "echo"
  <2>1. UNCHANGED echoVars
    BY <1>1 DEF Next, Clock, Others, vars
  <2> QED
    BY <1>0, <1>1, <2>1 DEF Echoes!vars, echoVars
<1>2. CASE flashed = "echo" /\ Clock
  <2>0. EchoEdge /\ AckEdge /\ MasterEdge(echo.dat_r) /\ LinkInv
    BY <1>2 DEF Clock, EchoClock, BoardInv
  <2>1. CASE ~Active
    <3>1. echo'.mem = echo.mem
      BY <2>0, <2>1 DEF EchoEdge
    <3>2. LandedOut(echo.dat_r)' = LandedOut(echo.dat_r)
      BY <2>0, <2>1, LandedClock DEF LandedOut
    <3> QED
      BY <1>0, <1>2, <2>0, <2>1, <3>1, <3>2, LandedClock DEF Echoes!vars
  <2>2. CASE Active
    <3>1. /\ request' = request /\ Landed = served /\ Landed' = served + 1
          /\ UNCHANGED <<served, out, bus>> /\ ack' = TRUE /\ ~ack
      BY <2>0, <2>2, LandedClock
    <3>2. /\ request # None /\ served < request.size
          /\ bus.we <=> request.op = "write"
          /\ bus.adr = request.adr + (IF request.fixed THEN 0 ELSE served)
          /\ bus.we => bus.dat = request.words[served + 1]
      BY <2>0, <2>2, Driven DEF Active
    <3>3. LandedOut(echo.dat_r) = out
      BY <3>1 DEF LandedOut
    <3>4. LandedOut(echo.dat_r)' =
            IF bus.we THEN out ELSE Append(out, echo.mem[bus.adr])
      BY <2>0, <2>2, <3>1 DEF LandedOut, EchoEdge, Active
    <3>5. echo'.mem = IF bus.we THEN EchoEffect(echo.mem, bus.adr, bus.dat) ELSE echo.mem
      BY <2>0, <2>2 DEF EchoEdge, EchoEffect
    <3>6. Echoes!ServeWord
      BY <1>0, <1>2, <3>1, <3>2, <3>3, <3>4, <3>5
         DEF Echoes!ServeWord, Echoes!Address, EchoValue
    <3> QED
      BY <3>6 DEF Echoes!Next
  <2> QED
    BY <2>1, <2>2
<1>3. CASE flashed = "echo" /\ Program /\ Others("none")
  <2>0. UNCHANGED echoVars
    BY <1>3 DEF Others
  <2>1. CASE UNCHANGED <<request, served, out, bus, ack>>
    BY <1>0, <2>0, <2>1 DEF Echoes!vars, Landed, LandedOut, echoVars
  <2>2. CASE Send
    <3>1. Echoes!Ask
      BY <1>0, <1>3, <2>0, <2>2, SendAsks DEF Echoes!Ask, Landed, LandedOut, echoVars
    <3> QED
      BY <3>1 DEF Echoes!Next
  <2> QED
    BY <1>3, <2>1, <2>2, ProgramLink
<1>4. CASE flashed = "echo" /\ Bridge /\ Others("none")
  <2>0. UNCHANGED echoVars /\ UNCHANGED <<served, out, bus, ack>>
    BY <1>4, BridgeLink DEF Others
  <2>1. CASE UNCHANGED request
    BY <1>0, <2>0, <2>1 DEF Echoes!vars, Landed, LandedOut, echoVars
  <2>2. CASE ~UNCHANGED request
    <3>1. /\ request # None /\ request' = None /\ ~bus.stb
          /\ served \in {0, request.size}
      BY <1>4, <2>2, BridgeLink
    <3>2. Landed = served
      BY <3>1 DEF Landed, BoardInv, LinkInv
    <3>3. Echoes!Finish
      BY <1>0, <1>4, <2>0, <3>1, <3>2 DEF Echoes!Finish, Landed, LandedOut, echoVars
    <3> QED
      BY <3>3 DEF Echoes!Next
  <2> QED
    BY <2>1, <2>2
<1>5. CASE UNCHANGED vars
  BY <1>5 DEF vars, linkVars, echoVars, Echoes!vars, Landed, LandedOut
<1> QED
  BY <1>1, <1>2, <1>3, <1>4, <1>5 DEF Next

\* The echo memory takes every word a client sends in order and exactly once, and answers a
\* read with what it held at its turn.
THEOREM EchoesServed == Spec => EchoesInOrder
<1>1. Init => Echoes!Init
  BY DEF Init, LinkInit, Echoes!Init, On, Landed, LandedOut
<1> QED
  BY <1>1, EchoStep, BoardInvariance, PTL DEF Spec, EchoesInOrder, Echoes!Spec
----------------------------------------------------------------------------
(* The two echo memories.                                                  *)

\* They acknowledge together, agree on every word that was written, and answer a read
\* with the word they hold.
TimingInv ==
  flashed = "echo" =>
    /\ twin.ack = ack
    /\ echo.mem = [a \in Addresses |-> echo.mem[a]]
    /\ twin.mem = [a \in Addresses |-> twin.mem[a]]
    /\ known \subseteq Addresses
    /\ \A a \in known : echo.mem[a] = twin.mem[a]
    /\ bus.stb /\ ack /\ ~bus.we =>
         echo.dat_r = echo.mem[bus.adr] /\ twin.dat_r = twin.mem[bus.adr]

\* The bus stays inside the memory.
LEMMA EchoAddress ==
  ASSUME BoardInv, flashed = "echo", bus.stb
  PROVE  bus.adr \in Addresses
<1>1. /\ request # None /\ served < request.size /\ served \in Nat
      /\ bus.adr = request.adr + (IF request.fixed THEN 0 ELSE served)
  BY Driven DEF BoardInv, LinkInv
<1>2. PICK r \in Requests(EchoCalls) : request = Asks(r)
  BY <1>1 DEF BoardInv, CallsInv, Sent
<1>3. /\ request.size \in Nat
      /\ \A i \in 0 .. request.size - 1 :
            request.adr + (IF request.fixed THEN 0 ELSE i) \in Addresses
  BY <1>2, CallAssumption
<1>4. served \in 0 .. request.size - 1
  BY <1>1, <1>3
<1> QED
  BY <1>1, <1>3, <1>4

\* Both memories start with nothing written.
LEMMA TimingStart == Init => TimingInv
<1> SUFFICES ASSUME Init PROVE TimingInv
  OBVIOUS
<1>1. echo.mem = [a \in Addresses |-> 0] /\ known = {} /\ ~ack /\ ack = FALSE
  BY DEF Init, EchoInit, LinkInit
<1>2. twin.ack = FALSE /\ twin.mem \in [Addresses -> Words]
  BY DEF Init, EchoInit
<1>3. echo.mem = [a \in Addresses |-> echo.mem[a]]
  BY <1>1
<1>4. twin.mem = [a \in Addresses |-> twin.mem[a]]
  BY <1>2
<1> QED
  BY <1>1, <1>2, <1>3, <1>4 DEF TimingInv

\* They take the same words in the same cycles.
LEMMA TimingStep == BoardInv /\ TimingInv /\ [Next]_vars => TimingInv'
<1> SUFFICES ASSUME BoardInv, TimingInv, [Next]_vars, flashed = "echo"
             PROVE  TimingInv'
  BY Frame DEF TimingInv
<1>0. /\ twin.ack = ack
      /\ echo.mem = [a \in Addresses |-> echo.mem[a]]
      /\ twin.mem = [a \in Addresses |-> twin.mem[a]]
      /\ known \subseteq Addresses
      /\ \A a \in known : echo.mem[a] = twin.mem[a]
      /\ bus.stb /\ ack /\ ~bus.we =>
           echo.dat_r = echo.mem[bus.adr] /\ twin.dat_r = twin.mem[bus.adr]
  BY DEF TimingInv
<1>1. CASE Clock
  <2>1. EchoEdge /\ TwinEdge /\ AckEdge /\ MasterEdge(echo.dat_r) /\ LinkInv
        /\ known' = known \cup (IF Active /\ bus.we THEN {bus.adr} ELSE {})
    BY <1>1 DEF Clock, EchoClock, BoardInv
  <2>2. twin'.ack = ack'
    BY <1>0, <2>1 DEF TwinEdge, AckEdge, Active
  <2>3. CASE Active /\ bus.we
    <3>1. bus.adr \in Addresses
      BY <2>3, EchoAddress DEF Active
    <3>2. /\ echo'.mem = [echo.mem EXCEPT ![bus.adr] = bus.dat]
          /\ twin'.mem = [twin.mem EXCEPT ![bus.adr] = bus.dat]
          /\ known' = known \cup {bus.adr}
      BY <1>0, <2>1, <2>3 DEF EchoEdge, TwinEdge, Active
    <3>3. /\ echo'.mem = [a \in Addresses |-> IF a = bus.adr THEN bus.dat ELSE echo.mem[a]]
          /\ twin'.mem = [a \in Addresses |-> IF a = bus.adr THEN bus.dat ELSE twin.mem[a]]
      BY <1>0, <3>1, <3>2
    <3>4. bus'.we
      BY <2>1, <2>3, LandedClock
    <3>5. known' \subseteq Addresses /\ \A a \in known' : echo'.mem[a] = twin'.mem[a]
      BY <1>0, <3>1, <3>2, <3>3
    <3>6. /\ echo'.mem = [a \in Addresses |-> echo'.mem[a]]
          /\ twin'.mem = [a \in Addresses |-> twin'.mem[a]]
      BY <3>3
    <3> QED
      BY <2>2, <3>4, <3>5, <3>6 DEF TimingInv, Addresses
  <2>4. CASE ~(Active /\ bus.we)
    <3>1. /\ echo'.mem = echo.mem /\ echo'.dat_r = echo.mem[bus.adr]
          /\ twin'.mem = twin.mem /\ twin'.dat_r = twin.mem[bus.adr]
          /\ known' = known
      BY <1>0, <2>1, <2>4 DEF EchoEdge, TwinEdge, Active
    <3>2. ack' => bus' = bus
      BY <2>1, LandedClock
    <3> QED
      BY <1>0, <2>2, <3>1, <3>2 DEF TimingInv, Addresses
  <2> QED
    BY <2>3, <2>4
<1>2. CASE Program /\ Others("none")
  <2>1. UNCHANGED echoVars
    BY <1>2 DEF Others
  <2>2. ack' = ack /\ bus' = bus
    BY <1>2, ProgramLink DEF Send, transact
  <2> QED
    BY <1>0, <2>1, <2>2 DEF TimingInv, echoVars, Addresses
<1>3. CASE Bridge /\ Others("none")
  <2>1. UNCHANGED echoVars /\ UNCHANGED <<bus, ack>>
    BY <1>3, BridgeLink DEF Others
  <2> QED
    BY <1>0, <2>1 DEF TimingInv, echoVars, Addresses
<1>4. CASE UNCHANGED vars
  BY <1>0, <1>4 DEF TimingInv, vars, linkVars, echoVars, Addresses
<1> QED
  BY <1>1, <1>2, <1>3, <1>4 DEF Next

\* The two echo designs acknowledge in the same cycles and read back the same words
\* (hello_wishbone/design.py, verilog_hello/design.v), for any memory, words and requests.
THEOREM EchoesAlike == Spec => []SameTiming
<1>1. BoardInv /\ TimingInv => SameTiming
  BY DEF SameTiming, TimingInv
<1> QED
  BY <1>1, TimingStart, TimingStep, BoardInvariance, PTL DEF Spec

----------------------------------------------------------------------------
(* The accumulator.                                                        *)

\* Its registers keep their width.
MacInv == mac \in [a : Nat, acc : 0 .. AccSpan - 1]

\* A write as the design does it is a write as the client means it.
LEMMA MacTurn ==
  ASSUME MacInv, NEW adr, NEW dat \in Nat
  PROVE  /\ MacWrite(mac, adr, dat) = MacEffect(mac, adr, dat)
         /\ MacWrite(mac, adr, dat) \in [a : Nat, acc : 0 .. AccSpan - 1]
<1> DEFINE d == dat % Operand
<1>1. d \in Nat
  BY MacAssumption
<1>2. /\ mac = [a |-> mac.a, acc |-> mac.acc]
      /\ mac.a \in Nat /\ mac.acc \in 0 .. AccSpan - 1 /\ AccSpan \in Nat \ {0}
  BY MacAssumption DEF MacInv
<1>3. mac.acc % AccSpan = mac.acc /\ mac.acc + 0 = mac.acc
  BY <1>2
<1>4. mac.a * d \in Nat
  BY <1>1, <1>2
<1>5. (mac.acc + mac.a * d) % AccSpan \in 0 .. AccSpan - 1
  BY <1>2, <1>4
<1> HIDE DEF d
<1>6. CASE adr = 0
  <2>1. MacWrite(mac, adr, dat) = [a |-> d, acc |-> mac.acc]
    BY <1>2, <1>6 DEF MacWrite, d
  <2>2. MacEffect(mac, adr, dat) = [a |-> d, acc |-> mac.acc]
    BY <1>3, <1>6 DEF MacEffect, d
  <2> QED
    BY <1>1, <1>2, <2>1, <2>2
<1>7. CASE adr = 1
  <2>1. MacWrite(mac, adr, dat) = [a |-> mac.a, acc |-> (mac.acc + mac.a * d) % AccSpan]
    BY <1>2, <1>7 DEF MacWrite, d
  <2>2. MacEffect(mac, adr, dat) = [a |-> mac.a, acc |-> (mac.acc + mac.a * d) % AccSpan]
    BY <1>3, <1>7 DEF MacEffect, d
  <2> QED
    BY <1>2, <1>5, <2>1, <2>2
<1>8. CASE adr = 3
  <2>1. MacWrite(mac, adr, dat) = [a |-> mac.a, acc |-> 0]
    BY <1>2, <1>8 DEF MacWrite
  <2>2. MacEffect(mac, adr, dat) = [a |-> mac.a, acc |-> 0]
    BY <1>8 DEF MacEffect
  <2> QED
    BY <1>2, <2>1, <2>2
<1>9. CASE adr \notin {0, 1, 3}
  <2>1. MacWrite(mac, adr, dat) = mac
    BY <1>9 DEF MacWrite
  <2>2. MacEffect(mac, adr, dat) = [a |-> mac.a, acc |-> mac.acc]
    BY <1>3, <1>9 DEF MacEffect
  <2> QED
    BY <1>2, <2>1, <2>2
<1> QED
  BY <1>6, <1>7, <1>8, <1>9

\* What the bus writes to it is a number.
LEMMA MacWritten ==
  ASSUME BoardInv, flashed = "mac", bus.stb, bus.we
  PROVE  bus.dat \in Nat
<1>1. /\ request # None /\ served < request.size /\ served \in Nat
      /\ request.op = "write" /\ bus.dat = request.words[served + 1]
  BY Driven DEF BoardInv, LinkInv
<1>2. PICK r \in Requests(MacCalls) : request = Asks(r)
  BY <1>1 DEF BoardInv, CallsInv, Sent
<1>3. request.size \in Nat /\ \A i \in 0 .. request.size - 1 : request.words[i + 1] \in Nat
  BY <1>1, <1>2, CallAssumption
<1>4. served \in 0 .. request.size - 1
  BY <1>1, <1>3
<1> QED
  BY <1>1, <1>3, <1>4

\* The accumulator keeps numbers in its registers.
LEMMA MacStep == BoardInv /\ MacInv /\ [Next]_vars => MacInv'
<1> SUFFICES ASSUME BoardInv, MacInv, [Next]_vars
             PROVE  MacInv'
  OBVIOUS
<1>1. CASE flashed = "mac" /\ MacClock /\ Active /\ bus.we
  <2>1. bus.dat \in Nat
    BY <1>1, MacWritten DEF Active
  <2> QED
    BY <1>1, <2>1, MacTurn DEF MacClock, MacInv
<1>2. CASE flashed = "mac" /\ MacClock /\ ~(Active /\ bus.we)
  BY <1>2 DEF MacClock, MacInv
<1>3. CASE UNCHANGED mac
  BY <1>3 DEF MacInv
<1> QED
  BY <1>1, <1>2, <1>3 DEF Next, Clock, Others, vars

\* So does the accumulator.
LEMMA AccumulateStep ==
  ASSUME BoardInv, MacInv, [Next]_vars
  PROVE  [Accumulates!Next]_(Accumulates!vars)
<1> DEFINE R == On("mac", request, None)
           L == On("mac", Landed, 0)
           O == On("mac", LandedOut(MacRead(mac, bus.adr)), <<>>)
<1> USE DEF On
<1>0. flashed' = flashed
  BY Frame
<1>1. CASE flashed # "mac"
  <2>1. UNCHANGED mac
    BY <1>1 DEF Next, Clock, Others, vars
  <2> QED
    BY <1>0, <1>1, <2>1 DEF Accumulates!vars
<1>2. CASE flashed = "mac" /\ Clock
  <2>0. mac' = (IF Active /\ bus.we THEN MacWrite(mac, bus.adr, bus.dat) ELSE mac)
      /\ AckEdge /\ MasterEdge(MacRead(mac, bus.adr)) /\ LinkInv
    BY <1>2 DEF Clock, MacClock, BoardInv
  <2>1. CASE ~Active
    <3>1. mac' = mac
      BY <2>0, <2>1 
    <3>2. LandedOut(MacRead(mac, bus.adr))' = LandedOut(MacRead(mac, bus.adr))
      BY <2>0, <2>1, LandedClock DEF LandedOut
    <3> QED
      BY <1>0, <1>2, <2>0, <2>1, <3>1, <3>2, LandedClock DEF Accumulates!vars
  <2>2. CASE Active
    <3>1. /\ request' = request /\ Landed = served /\ Landed' = served + 1
          /\ UNCHANGED <<served, out, bus>> /\ ack' = TRUE /\ ~ack
      BY <2>0, <2>2, LandedClock
    <3>2. /\ request # None /\ served < request.size
          /\ bus.we <=> request.op = "write"
          /\ bus.adr = request.adr + (IF request.fixed THEN 0 ELSE served)
          /\ bus.we => bus.dat = request.words[served + 1]
      BY <2>0, <2>2, Driven DEF Active
    <3>3. LandedOut(MacRead(mac, bus.adr)) = out
      BY <3>1 DEF LandedOut
    <3>4. LandedOut(MacRead(mac, bus.adr))' =
            IF bus.we THEN out ELSE Append(out, MacValue(mac, bus.adr))
      <4>1. ~bus.we => mac' = mac
        BY <2>0
      <4> QED
        BY <2>2, <3>1, <4>1 DEF LandedOut, Active, MacRead, MacValue
    <3>5. mac' = IF bus.we THEN MacEffect(mac, bus.adr, bus.dat) ELSE mac
      <4>1. bus.we => mac' = MacWrite(mac, bus.adr, bus.dat) /\ bus.dat \in Nat
        BY <1>2, <2>0, <2>2, MacWritten DEF Active
      <4> QED
        BY <2>0, <4>1, MacTurn
    <3>6. Accumulates!ServeWord
      BY <1>0, <1>2, <3>1, <3>2, <3>3, <3>4, <3>5
         DEF Accumulates!ServeWord, Accumulates!Address, MacValue, MacRead
    <3> QED
      BY <3>6 DEF Accumulates!Next
  <2> QED
    BY <2>1, <2>2
<1>3. CASE flashed = "mac" /\ Program /\ Others("none")
  <2>0. UNCHANGED mac
    BY <1>3 DEF Others
  <2>1. CASE UNCHANGED <<request, served, out, bus, ack>>
    BY <1>0, <2>0, <2>1 DEF Accumulates!vars, Landed, LandedOut
  <2>2. CASE Send
    <3>1. Accumulates!Ask
      BY <1>0, <1>3, <2>0, <2>2, SendAsks DEF Accumulates!Ask, Landed, LandedOut
    <3> QED
      BY <3>1 DEF Accumulates!Next
  <2> QED
    BY <1>3, <2>1, <2>2, ProgramLink
<1>4. CASE flashed = "mac" /\ Bridge /\ Others("none")
  <2>0. UNCHANGED mac /\ UNCHANGED <<served, out, bus, ack>>
    BY <1>4, BridgeLink DEF Others
  <2>1. CASE UNCHANGED request
    BY <1>0, <2>0, <2>1 DEF Accumulates!vars, Landed, LandedOut
  <2>2. CASE ~UNCHANGED request
    <3>1. /\ request # None /\ request' = None /\ ~bus.stb
          /\ served \in {0, request.size}
      BY <1>4, <2>2, BridgeLink
    <3>2. Landed = served
      BY <3>1 DEF Landed, BoardInv, LinkInv
    <3>3. Accumulates!Finish
      BY <1>0, <1>4, <2>0, <3>1, <3>2 DEF Accumulates!Finish, Landed, LandedOut
    <3> QED
      BY <3>3 DEF Accumulates!Next
  <2> QED
    BY <2>1, <2>2
<1>5. CASE UNCHANGED vars
  BY <1>5 DEF vars, linkVars, Accumulates!vars, Landed, LandedOut
<1> QED
  BY <1>1, <1>2, <1>3, <1>4, <1>5 DEF Next

\* The accumulator adds every product a client sends in order and exactly once: an
\* acknowledge that lasts two cycles would add it twice.
THEOREM AccumulatedOnce == Spec => AccumulatesOnce
<1>1. Init => Accumulates!Init /\ MacInv
  <2> SUFFICES ASSUME Init PROVE Accumulates!Init /\ MacInv
    OBVIOUS
  <2>1. Accumulates!Init
    BY DEF Init, LinkInit, Accumulates!Init, On, Landed, LandedOut
  <2>2. MacInv
    BY MacAssumption DEF Init, MacInit, MacInv
  <2> QED
    BY <2>1, <2>2
<1> QED
  BY <1>1, AccumulateStep, MacStep, BoardInvariance, PTL
     DEF Spec, AccumulatesOnce, Accumulates!Spec

-----------------------------------------------------------------------------
(***************************************************************************)
(* The solver, for every number of variables, clauses and literals and     *)
(* every width of its registers.                                           *)
(*                                                                         *)
(* The core alone is right under any writes at any time.  The argument is  *)
(* the sweep: as long as the formula is the one the last start found,      *)
(* nothing below the counter satisfies it (SweptClean), so that the two    *)
(* places where the core stops, a hit and the top of the space, are both   *)
(* right.                                                                  *)
(*                                                                         *)
(* On its board, the two programs report the truth about their formulas.   *)
(* Here the argument is the place a program has reached: the words it has  *)
(* still to write are Pending, every other register is Right, and from its *)
(* last word on the core searches the program's formula and no other       *)
(* (Stage).  A model is a number whose bits are an assignment: the bits    *)
(* are added up by induction, in the form that a set of numbers has a      *)
(* least one (LeastNumber).                                                *)
(***************************************************************************)
-----------------------------------------------------------------------------
(* The weights of the bits.                                                 *)

\* A set of numbers has a least one: the induction of this module.
LEMMA LeastNumber ==
  ASSUME NEW T, T \subseteq Nat, T # {}
  PROVE  \E n \in T : \A m \in T : n <= m
<1>1. IsWellFoundedOn(OpToRel(<, Nat), Nat)
  BY NatLessThanWellFounded
<1>2. PICK n \in T : \A m \in T : ~(<<m, n>> \in OpToRel(<, Nat))
  BY <1>1, WFMin, Zenon
<1>3. ASSUME NEW m \in T PROVE n <= m
  <2>1. <<m, n>> \in Nat \X Nat /\ ~(<<m, n>> \in {ss \in Nat \X Nat : ss[1] < ss[2]})
    BY <1>2, Zenon DEF OpToRel
  <2> QED
    BY <2>1
<1> QED
  BY <1>3

Rises(n) == {g \in [0 .. n -> Nat] : g[0] = 1 /\ \A i \in 1 .. n : g[i] = 2 * g[i - 1]}

\* Every number has a weight.
LEMMA RisesSome == ASSUME NEW n \in Nat PROVE Rises(n) # {}
<1> DEFINE T == {m \in Nat : Rises(m) = {}}
<1> SUFFICES ASSUME T # {} PROVE FALSE
  OBVIOUS
<1>1. PICK m \in T : \A k \in T : m <= k
  BY LeastNumber
<1>2. CASE m = 0
  <2>1. [i \in 0 .. 0 |-> 1] \in Rises(0)
    BY DEF Rises
  <2> QED
    BY <1>1, <1>2, <2>1
<1>3. CASE m # 0
  <2>1. m \in Nat /\ m - 1 \in Nat /\ m - 1 \notin T
    BY <1>1, <1>3
  <2>2. PICK g : g \in Rises(m - 1)
    BY <2>1
  <2> DEFINE h == [i \in 0 .. m |-> IF i = m THEN 2 * g[m - 1] ELSE g[i]]
  <2>3. g \in [0 .. m - 1 -> Nat] /\ g[0] = 1 /\ \A i \in 1 .. m - 1 : g[i] = 2 * g[i - 1]
    BY <2>2 DEF Rises
  <2>4. h \in [0 .. m -> Nat] /\ h[0] = 1 /\ \A i \in 1 .. m : h[i] = 2 * h[i - 1]
    BY <2>1, <2>3
  <2>5. h \in Rises(m)
    BY <2>4 DEF Rises
  <2> QED
    BY <1>1, <2>5
<1> QED
  BY <1>2, <1>3

\* And no more than one.
LEMMA RisesOnce ==
  ASSUME NEW n \in Nat, NEW m \in Nat, n <= m, NEW g \in Rises(n), NEW h \in Rises(m)
  PROVE  g[n] = h[n]
<1> DEFINE T == {i \in 0 .. n : g[i] # h[i]}
<1> SUFFICES ASSUME T # {} PROVE FALSE
  OBVIOUS
<1>0. T \subseteq Nat
  OBVIOUS
<1>1. PICK i \in T : \A k \in T : i <= k
  BY <1>0, LeastNumber
<1>2. CASE i = 0
  BY <1>1, <1>2 DEF Rises
<1>3. CASE i # 0
  <2>1. i \in 1 .. n /\ i \in 1 .. m /\ i - 1 \in 0 .. n /\ i - 1 \notin T
    BY <1>1, <1>3
  <2> QED
    BY <1>1, <2>1 DEF Rises
<1> QED
  BY <1>2, <1>3

\* The weights double: the recursive definition, as an equation.
LEMMA WeightLaw ==
  /\ Weight[0] = 1
  /\ \A n \in Nat : Weight[n] \in Nat \ {0} /\ Weight[n + 1] = 2 * Weight[n]
<1> DEFINE W == [n \in Nat |-> (CHOOSE g : g \in Rises(n))[n]]
<1>1. ASSUME NEW n \in Nat, NEW g \in Rises(n)
      PROVE  W[n] = g[n]
  <2>1. (CHOOSE h : h \in Rises(n)) \in Rises(n)
    BY RisesSome
  <2> QED
    BY <2>1, RisesOnce
<1>2. W[0] = 1
  BY <1>1, RisesSome DEF Rises
<1>3. ASSUME NEW n \in Nat
      PROVE  W[n + 1] = 2 * W[n] /\ W[n] \in Nat
  <2>1. PICK g : g \in Rises(n + 1)
    BY RisesSome
  <2>2. W[n + 1] = g[n + 1]
    BY <1>1, <2>1
  <2>3. W[n] = g[n]
    <3>1. PICK h : h \in Rises(n)
      BY RisesSome
    <3>2. W[n] = h[n]
      BY <1>1, <3>1
    <3> QED
      BY <2>1, <3>1, <3>2, RisesOnce
  <2> QED
    BY <2>1, <2>2, <2>3 DEF Rises
<1> HIDE DEF W
<1>4. W = [n \in Nat |-> IF n = 0 THEN 1 ELSE 2 * W[n - 1]]
  <2>1. W = [n \in Nat |-> W[n]]
    BY DEF W
  <2>2. ASSUME NEW n \in Nat \ {0} PROVE W[n] = 2 * W[n - 1]
    <3>1. n - 1 \in Nat /\ (n - 1) + 1 = n
      OBVIOUS
    <3> QED
      BY <1>3, <3>1
  <2> QED
    BY <1>2, <2>1, <2>2
<1>5. Weight = [n \in Nat |-> IF n = 0 THEN 1 ELSE 2 * Weight[n - 1]]
  BY <1>4, Zenon DEF Weight
<1>6. Weight[0] = 1 /\ \A n \in Nat : Weight[n + 1] = 2 * Weight[n]
  <2>1. ASSUME NEW n \in Nat PROVE Weight[n + 1] = 2 * Weight[n]
    <3>1. n + 1 \in Nat /\ n + 1 # 0 /\ (n + 1) - 1 = n
      OBVIOUS
    <3>2. Weight[n + 1] = 2 * Weight[(n + 1) - 1]
      BY <1>5, <3>1
    <3> QED
      BY <3>1, <3>2
  <2>2. Weight[0] = 1
    BY <1>5
  <2> QED
    BY <2>1, <2>2
<1> DEFINE T == {n \in Nat : Weight[n] \notin Nat \ {0}}
<1>7. ASSUME T # {} PROVE FALSE
  <2>1. PICK n \in T : \A k \in T : n <= k
    BY <1>7, LeastNumber
  <2>2. n # 0 /\ n - 1 \in Nat /\ n - 1 \notin T /\ (n - 1) + 1 = n
    BY <1>6, <2>1
  <2>3. Weight[n] = 2 * Weight[n - 1] /\ Weight[n - 1] \in Nat \ {0}
    BY <1>6, <2>2
  <2> QED
    BY <2>1, <2>3
<1> QED
  BY <1>6, <1>7

-----------------------------------------------------------------------------
(* The core.                                                                *)

IInv == CoreTypeOK /\ SweptClean /\ CoreRight

\* The counter is cut to its width and does not change below the top.
LEMMA CutAssignment == ASSUME NEW a \in Int PROVE a % AssignSpan \in Assignments
  BY SatAssumption DEF Assignments

\* A number below the span is not cut.
LEMMA CutBelow ==
  ASSUME NEW a \in Nat, NEW m \in Nat \ {0}, a < m PROVE a % m = a
  OBVIOUS

\* The last assignment of the space is one of the counter's values, also when
\* n_vars asks for more variables than there are.
LEMMA LastAssignment ==
  ASSUME NEW n \in Nat PROVE max_assign(n) \in Assignments
  <1>1. Weight[n] - 1 \in Int BY WeightLaw
  <1> QED BY <1>1, CutAssignment DEF max_assign

\* The core starts as its reset leaves it, with no verdict and no search.
LEMMA InitInv == SatInit => IInv
  <1> SUFFICES ASSUME SatInit PROVE IInv OBVIOUS
  <1> USE SatAssumption
  <1>1. CoreTypeOK
    <2>1. NoLiteral \in Literals BY DEF NoLiteral, Literals
    <2>2. lits \in [Slots -> Literals] BY <2>1 DEF SatInit
    <2>3. Reset0 \in [assignment : Assignments, running : BOOLEAN, done : BOOLEAN,
                      sat : BOOLEAN, model : Assignments, cycles : 0 .. CycleSpan - 1]
      BY DEF Reset0, Assignments
    <2>4. core = Reset0 BY DEF SatInit
    <2>5. n_vars = 0 /\ n_clauses = 0 BY DEF SatInit
    <2>6. n_vars \in 0 .. VarSpan - 1 /\ n_clauses \in 0 .. ClauseSpan - 1
      BY <2>5
    <2>7. start \in BOOLEAN /\ intact \in BOOLEAN BY DEF SatInit
    <2> HIDE SatAssumption
    <2> QED BY <2>2, <2>3, <2>4, <2>6, <2>7 DEF CoreTypeOK
  <1>2. SweptClean /\ CoreRight
    BY DEF SatInit, SweptClean, CoreRight, Reset0
  <1> QED BY <1>1, <1>2 DEF IInv

\* Whatever is written, the core's registers keep their widths.
LEMMA CoreType ==
  ASSUME CoreTypeOK, CoreEdge
  PROVE  core' \in [assignment : Assignments, running : BOOLEAN, done : BOOLEAN,
                    sat : BOOLEAN, model : Assignments, cycles : 0 .. CycleSpan - 1]
  <1> USE SatAssumption
  <1>1. Cycles \in 0 .. CycleSpan - 1
    BY DEF Cycles, CoreTypeOK
  <1>2. (core.assignment + 1) % AssignSpan \in Assignments
    BY CutAssignment DEF CoreTypeOK, Assignments
  <1>3. 0 \in Assignments BY DEF Assignments
  <1> QED BY <1>1, <1>2, <1>3 DEF CoreEdge, CoreTypeOK, Restart, Verdict, Counting

\* Every step keeps the types of all registers.
LEMMA TypeStep == CoreTypeOK /\ [SatNext]_satVars => CoreTypeOK'
  <1> SUFFICES ASSUME CoreTypeOK, [SatNext]_satVars PROVE CoreTypeOK'
    OBVIOUS
  <1> USE SatAssumption DEF CoreTypeOK
  <1>1. CASE NoWrite BY <1>1, CoreType DEF NoWrite
  <1>2. ASSUME NEW b \in BOOLEAN, WriteStart(b) PROVE CoreTypeOK'
    BY <1>2, CoreType DEF WriteStart
  <1>3. ASSUME NEW n \in 0 .. VarSpan - 1, WriteVars(n) PROVE CoreTypeOK'
    BY <1>3, CoreType DEF WriteVars
  <1>4. ASSUME NEW n \in 0 .. ClauseSpan - 1, WriteClauses(n) PROVE CoreTypeOK'
    BY <1>4, CoreType DEF WriteClauses
  <1>5. ASSUME NEW s \in Slots, NEW l \in Literals, WriteLiteral(s, l)
        PROVE  CoreTypeOK'
    BY <1>5, CoreType DEF WriteLiteral
  <1>6. CASE UNCHANGED satVars BY <1>6 DEF satVars
  <1> QED BY <1>1, <1>2, <1>3, <1>4, <1>5, <1>6 DEF SatNext

\* A search that starts has swept nothing, whatever is written on that edge.
LEMMA StartStep ==
  ASSUME CoreTypeOK', start, CoreEdge PROVE SweptClean' /\ CoreRight'
  <1>1. core' = Restart BY DEF CoreEdge
  <1>2. n_vars' \in Nat BY SatAssumption DEF CoreTypeOK
  <1>3. max_assign(n_vars)' \in Nat
    BY <1>2, LastAssignment, SatAssumption DEF Assignments
  <1>4. 0 \in Space' BY <1>3 DEF Space
  <1> QED BY <1>1, <1>4 DEF Restart, SweptClean, CoreRight

\* An edge of a search whose formula stays as it is: one more assignment is
\* ruled out, or the search ends with a true verdict.
LEMMA SearchStep ==
  ASSUME IInv, CoreEdge, ~start, intact' = intact,
         UNCHANGED <<lits, n_vars, n_clauses>>
  PROVE  SweptClean' /\ CoreRight'
  <1> DEFINE last == max_assign(n_vars)
  <1>1. /\ last \in Assignments /\ core.assignment \in Assignments
        /\ Space' = Space /\ \A a : Satisfies(a)' = Satisfies(a)
    BY LastAssignment, SatAssumption
    DEF IInv, CoreTypeOK, Space, Satisfies, max_assign, all_sat, clause_sat
  <1>2. CASE ~intact BY <1>2 DEF SweptClean, CoreRight
  <1>3. CASE ~core.running
    <2>1. core' = core BY <1>3 DEF CoreEdge
    <2> QED BY <2>1, <1>1, <1>3 DEF IInv, SweptClean, CoreRight
  <1>4. CASE intact /\ core.running
    <2>1. /\ core.assignment \in Space /\ ~core.done
          /\ \A a \in 0 .. core.assignment - 1 : ~Satisfies(a)
      BY <1>4 DEF IInv, SweptClean
    <2>2. CASE Satisfies(core.assignment)
      <3>1. /\ ~core'.running /\ core'.sat /\ core'.model = core.assignment
        BY <1>4, <2>2 DEF CoreEdge, Satisfies, Verdict, Counting
      <3> QED BY <3>1, <2>1, <2>2, <1>1 DEF SweptClean, CoreRight
    <2>3. CASE ~Satisfies(core.assignment) /\ core.assignment = last
      <3>1. ~core'.running /\ ~core'.sat
        BY <1>4, <2>3 DEF CoreEdge, Satisfies, Verdict, Counting
      <3>2. \A a \in Space : ~Satisfies(a)
        BY <2>1, <2>3, <1>1, SatAssumption DEF Space, Assignments
      <3> QED BY <3>1, <3>2, <1>1 DEF SweptClean, CoreRight
    <2>4. CASE ~Satisfies(core.assignment) /\ core.assignment # last
      <3>1. /\ core.assignment \in Nat /\ last \in Nat
            /\ core.assignment + 1 <= last /\ core.assignment + 1 < AssignSpan
        BY <2>1, <2>4, <1>1, SatAssumption DEF Space, Assignments
      <3>2. (core.assignment + 1) % AssignSpan = core.assignment + 1
        BY <3>1, CutBelow, SatAssumption
      <3>3. /\ core'.assignment = core.assignment + 1
            /\ core'.done = core.done
        BY <1>4, <2>4, <3>2 DEF CoreEdge, Satisfies, Verdict, Counting
      <3>4. core'.assignment \in Space BY <3>1, <3>3 DEF Space
      <3>5. \A a \in 0 .. core'.assignment - 1 : ~Satisfies(a)
        BY <3>1, <3>3, <2>1, <2>4
      <3> QED BY <3>3, <3>4, <3>5, <2>1, <1>1 DEF SweptClean, CoreRight
    <2> QED BY <2>2, <2>3, <2>4
  <1> QED BY <1>2, <1>3, <1>4

\* Every step keeps the invariant: a write that is not a start breaks the
\* formula's integrity, and one that meets a start is part of what it finds.
LEMMA NextInv == IInv /\ [SatNext]_satVars => IInv'
  <1> SUFFICES ASSUME IInv, [SatNext]_satVars PROVE IInv'
    OBVIOUS
  <1>1. CoreTypeOK' BY TypeStep DEF IInv
  <1>2. CASE UNCHANGED satVars
    BY <1>2, <1>1 DEF IInv, satVars, SweptClean, CoreRight, Space, Satisfies,
                      max_assign, all_sat, clause_sat
  <1>3. CASE SatNext
    <2>1. CoreEdge BY <1>3 DEF SatNext, NoWrite, WriteStart, WriteVars,
                                WriteClauses, WriteLiteral
    <2>2. CASE start BY <2>1, <2>2, <1>1, StartStep DEF IInv
    <2>3. CASE ~start /\ (NoWrite \/ \E b \in BOOLEAN : WriteStart(b))
      <3>1. /\ intact' = (start \/ intact)
            /\ UNCHANGED <<lits, n_vars, n_clauses>>
        BY <2>3 DEF NoWrite, WriteStart
      <3>2. intact' = intact
        BY <2>3, <3>1 DEF IInv, CoreTypeOK
      <3> QED BY <3>1, <3>2, <2>1, <2>3, <1>1, SearchStep DEF IInv
    <2>4. CASE ~start /\ ~intact'
      BY <2>4, <1>1 DEF IInv, SweptClean, CoreRight
    <2>5. start \/ ~intact' \/ NoWrite \/ \E b \in BOOLEAN : WriteStart(b)
      BY <1>3 DEF SatNext, WriteVars, WriteClauses, WriteLiteral
    <2> QED BY <2>2, <2>3, <2>4, <2>5
  <1> QED BY <1>2, <1>3

\* The invariant holds in every reachable state of the core.
THEOREM Invariance == SatSpec => []IInv
  <1>1. SatInit => IInv BY InitInv
  <1>2. IInv /\ [SatNext]_satVars => IInv' BY NextInv
  <1> QED BY <1>1, <1>2, PTL DEF SatSpec

\* The registers keep their widths, the wrapping counters included.
THEOREM TypeCorrect == SatSpec => []CoreTypeOK
  <1>1. IInv => CoreTypeOK BY DEF IInv
  <1> QED BY <1>1, Invariance, PTL

\* The verdict of an undisturbed search is the truth about the formula in the
\* registers: a model within the space, or none there.
THEOREM VerdictCorrect == SatSpec => []CoreRight
  <1>1. IInv => CoreRight BY DEF IInv
  <1> QED BY <1>1, Invariance, PTL

-----------------------------------------------------------------------------
(* What the two programs write.                                             *)

Shipped == {SdkProblems[i] : i \in DOMAIN SdkProblems}
Formulas == Problems \cup Shipped
Block == MAX_CLAUSES * CLAUSE_LEN

\* The requests about one formula.
SlotWrites(p) ==
  {Write(LIT_BASE + s, <<encode_literals(p.clauses)[s + 1]>>) : s \in Slots}
Parts(p) ==
  {Write(LIT_BASE, encode_literals(p.clauses)), Write(1, <<p.n, Len(p.clauses)>>),
   Write(1, <<p.n>>), Write(2, <<Len(p.clauses)>>), Write(0, <<1>>)} \cup SlotWrites(p)

\* The word of a formula at an address, and a request that writes such words.
Target(p, adr, w) ==
  /\ adr = 0 => w = 1
  /\ adr = 1 => w = p.n
  /\ adr = 2 => w = Len(p.clauses)
  /\ adr - LIT_BASE \in Slots => w = encode_literals(p.clauses)[adr - LIT_BASE + 1]
Suits(p, q) ==
  /\ q.op = "write" /\ ~q.fixed /\ q.adr \in Nat /\ q.size \in Nat \ {0}
  /\ \A i \in 0 .. q.size - 1 : Target(p, q.adr + i, q.words[i + 1])

\* Words the registers have room for.
Room(adr, w) ==
  /\ adr \in {1, 2} => w \in Int
  /\ adr - LIT_BASE \in Slots => w \in Literals

\* The literal block fits one request, and so do both counts.
LEMMA BlockSize == Block \in Nat \ {0} /\ Block < LengthSpan /\ 2 < LengthSpan
<1>1. MAX_CLAUSES \in Nat \ {0} /\ CLAUSE_LEN \in Nat \ {0}
  BY SatAssumption
<1>2. ASSUME NEW m \in Nat \ {0}, NEW n \in Nat \ {0} PROVE m * n \in Nat \ {0}
  OBVIOUS
<1> QED
  BY <1>1, <1>2, BlockAssumption, LengthAssumption DEF Block

\* The place of a slot: its clause and its place in the clause.
LEMMA SlotPlace ==
  ASSUME NEW i \in 1 .. Block
  PROVE  /\ (i - 1) \div CLAUSE_LEN \in Nat
         /\ (i - 1) % CLAUSE_LEN \in 0 .. CLAUSE_LEN - 1
         /\ (i - 1) - CLAUSE_LEN * ((i - 1) \div CLAUSE_LEN) = (i - 1) % CLAUSE_LEN
<1>1. CLAUSE_LEN \in Nat \ {0} /\ i - 1 \in Nat
  BY SatAssumption, BlockSize
<1>2. ASSUME NEW a \in Nat, NEW b \in Nat \ {0}
      PROVE  a \div b \in Nat /\ a % b \in 0 .. b - 1 /\ a - b * (a \div b) = a % b
  OBVIOUS
<1> QED
  BY <1>1, <1>2

\* A formula that fits is a block of literals.
LEMMA BlockLiterals ==
  ASSUME NEW p \in Formulas
  PROVE  encode_literals(p.clauses) \in [1 .. Block -> Literals]
<1>1. /\ p.clauses \in Seq(Seq(Int)) /\ p.n \in 1 .. MAX_VARS
      /\ \A c \in DOMAIN p.clauses : \A s \in DOMAIN p.clauses[c] :
            Abs(p.clauses[c][s]) \in 1 .. p.n
  BY ProblemAssumption DEF Formulas, Shipped
<1>2. NoLiteral \in Literals
  BY SatAssumption DEF NoLiteral, Literals
<1>3. ASSUME NEW i \in 1 .. Block
      PROVE  encode_literals(p.clauses)[i] \in Literals
  <2> DEFINE c == (i - 1) \div CLAUSE_LEN + 1
             s == ((i - 1) % CLAUSE_LEN) + 1
  <2>1. c \in Nat \ {0} /\ s \in Nat \ {0}
    BY SlotPlace, SatAssumption
  <2>2. encode_literals(p.clauses)[i] =
          IF c <= Len(p.clauses) /\ s <= Len(p.clauses[c])
            THEN encode_lit(p.clauses[c][s]) ELSE NoLiteral
    BY DEF encode_literals, Block
  <2> HIDE DEF c, s
  <2>3. CASE c <= Len(p.clauses) /\ s <= Len(p.clauses[c])
    <3>1. c \in DOMAIN p.clauses
      BY <1>1, <2>1, <2>3
    <3>2. p.clauses[c] \in Seq(Int)
      BY <1>1, <3>1
    <3>3. s \in DOMAIN p.clauses[c]
      BY <2>1, <2>3, <3>2
    <3>4. Abs(p.clauses[c][s]) \in 1 .. p.n
      BY <1>1, <3>1, <3>3
    <3>5. Abs(p.clauses[c][s]) - 1 \in 0 .. VarSpan - 1
      BY <1>1, <3>4, SatAssumption
    <3>6. encode_lit(p.clauses[c][s]) \in Literals
      BY <3>5 DEF encode_lit, Literals
    <3> QED
      BY <2>2, <2>3, <3>6
  <2> QED
    BY <1>2, <2>2, <2>3
<1> QED
  BY <1>3 DEF encode_literals, Block

\* What two sequences one after the other hold.
LEMMA Joined ==
  ASSUME NEW S, NEW h \in Seq(S), NEW w \in Seq(S)
  PROVE  /\ h \o w \in Seq(S) /\ Len(h \o w) = Len(h) + Len(w)
         /\ \A i \in 1 .. Len(h) : (h \o w)[i] = h[i]
         /\ \A i \in 1 .. Len(w) : (h \o w)[i + Len(h)] = w[i]
<1>1. h \o w \in Seq(S)
  OBVIOUS
<1>2. Len(h \o w) = Len(h) + Len(w)
  OBVIOUS
<1>3. ASSUME NEW i \in 1 .. Len(h) PROVE (h \o w)[i] = h[i]
  OBVIOUS
<1>4. ASSUME NEW i \in 1 .. Len(w) PROVE (h \o w)[i + Len(h)] = w[i]
  OBVIOUS
<1> QED
  BY <1>1, <1>2, <1>3, <1>4

\* A frame: three fields, then the words.
LEMMA FrameFields ==
  ASSUME NEW a, NEW b, NEW c, NEW S, NEW w \in Seq(S), NEW f, f = <<a, b, c>> \o w
  PROVE  /\ f[1] = a /\ f[2] = b /\ f[3] = c
         /\ Len(w) \in Nat
         /\ \A i \in 1 .. Len(w) : SubSeq(f, 4, 3 + Len(w))[i] = w[i]
<1> DEFINE T == {a, b, c} \cup S
<1> SUFFICES ASSUME NEW h, h = <<a, b, c>> PROVE
         /\ f[1] = a /\ f[2] = b /\ f[3] = c
         /\ Len(w) \in Nat
         /\ \A i \in 1 .. Len(w) : SubSeq(f, 4, 3 + Len(w))[i] = w[i]
  OBVIOUS
<1>1. h \in Seq(T) /\ w \in Seq(T)
  OBVIOUS
<1>2. Len(h) = 3 /\ h[1] = a /\ h[2] = b /\ h[3] = c /\ Len(w) \in Nat
  OBVIOUS
<1>3. f = h \o w
  OBVIOUS
<1> HIDE DEF T
<1>4. /\ f \in Seq(T) /\ Len(f) = Len(h) + Len(w)
      /\ \A i \in 1 .. Len(h) : f[i] = h[i]
      /\ \A i \in 1 .. Len(w) : f[i + Len(h)] = w[i]
  BY <1>1, <1>3, Joined
<1>5. ASSUME NEW i \in 1 .. Len(w) PROVE SubSeq(f, 4, 3 + Len(w))[i] = w[i]
  BY <1>2, <1>4
<1>6. f[1] = a /\ f[2] = b /\ f[3] = c
  BY <1>2, <1>4
<1> QED
  BY <1>2, <1>5, <1>6

\* How the bridge reads a write.
LEMMA WriteAsks ==
  ASSUME NEW adr, NEW S, NEW words \in Seq(S), Len(words) < LengthSpan
  PROVE  /\ Asks(Write(adr, words)).op = "write" /\ ~Asks(Write(adr, words)).fixed
         /\ Asks(Write(adr, words)).adr = adr
         /\ Asks(Write(adr, words)).size = Len(words)
         /\ \A i \in 1 .. Len(words) : Asks(Write(adr, words)).words[i] = words[i]
<1> DEFINE r == Write(adr, words)
<1>1. Len(words) \in Nat /\ Len(words) % LengthSpan = Len(words)
  BY LengthAssumption, CutBelow
<1>2. PICK f : f = <<[op |-> "write", fixed |-> FALSE], Len(words), adr>> \o words
  OBVIOUS
<1>3. to_bytes(r) = f
  BY <1>1, <1>2 DEF to_bytes, Write
<1>4. /\ f[1] = [op |-> "write", fixed |-> FALSE] /\ f[2] = Len(words) /\ f[3] = adr
      /\ \A i \in 1 .. Len(words) : SubSeq(f, 4, 3 + Len(words))[i] = words[i]
  BY <1>2, FrameFields
<1>5. Asks(r) = [op |-> "write", fixed |-> FALSE, adr |-> adr,
                 words |-> SubSeq(f, 4, 3 + Len(words)), size |-> Len(words)]
  BY <1>3, <1>4 DEF Asks, Parsed
<1> QED
  BY <1>4, <1>5

\* And how it reads a read.
LEMMA ReadAsks ==
  ASSUME NEW adr, NEW count
  PROVE  /\ Asks(Read(adr, count)).op = "read" /\ Asks(Read(adr, count)).adr = adr
         /\ ~Asks(Read(adr, count)).fixed /\ Asks(Read(adr, count)).size = count
<1> DEFINE r == Read(adr, count)
<1>1. 1 % LengthSpan = 1 /\ Len(<<count>>) = 1
  BY BlockSize, CutBelow, LengthAssumption
<1>2. PICK f : f = <<[op |-> "read", fixed |-> FALSE], 1, adr>> \o <<count>>
  OBVIOUS
<1>3. to_bytes(r) = f
  BY <1>1, <1>2 DEF to_bytes, Read
<1>4. <<count>> \in Seq({count}) /\ <<count>>[1] = count
  OBVIOUS
<1>5. /\ f[1] = [op |-> "read", fixed |-> FALSE] /\ f[2] = 1 /\ f[3] = adr
      /\ \A i \in 1 .. Len(<<count>>) : SubSeq(f, 4, 3 + Len(<<count>>))[i] = <<count>>[i]
  BY <1>2, <1>4, FrameFields
<1>6. SubSeq(f, 4, 3 + 1)[1] = count
  BY <1>1, <1>4, <1>5
<1> QED
  BY <1>3, <1>5, <1>6 DEF Asks, Parsed

\* A formula's own numbers.
LEMMA FormulaNumbers ==
  ASSUME NEW p \in Formulas
  PROVE  /\ p.n \in 1 .. MAX_VARS /\ p.n \in Nat /\ p.n < VarSpan
         /\ Len(p.clauses) \in Nat /\ Len(p.clauses) <= MAX_CLAUSES
         /\ Len(p.clauses) < ClauseSpan
<1>1. p.n \in 1 .. MAX_VARS /\ Len(p.clauses) \in 1 .. MAX_CLAUSES
  BY ProblemAssumption DEF Formulas, Shipped
<1> QED
  BY <1>1, SatAssumption

\* The slots are numbered from zero.
LEMMA SlotsAre == Slots = 0 .. Block - 1
  BY DEF Slots, Block

\* A word of a formula fits the register it is for.
LEMMA TargetRoom ==
  ASSUME NEW p \in Formulas, NEW adr, NEW w, Target(p, adr, w)
  PROVE  Room(adr, w)
<1>1. adr \in {1, 2} => w \in Int
  BY FormulaNumbers DEF Target
<1>2. ASSUME NEW s \in Slots, s = adr - LIT_BASE PROVE w \in Literals
  <2>1. s + 1 \in 1 .. Block
    BY SlotsAre, BlockSize
  <2>2. encode_literals(p.clauses)[s + 1] \in Literals
    BY <2>1, BlockLiterals
  <2> QED
    BY <1>2, <2>2 DEF Target
<1> QED
  BY <1>1, <1>2 DEF Room

\* Whatever a program writes is a word of its formula.
LEMMA PartsSuit ==
  ASSUME NEW p \in Formulas, NEW r \in Parts(p)
  PROVE  Suits(p, Asks(r))
<1> DEFINE m == Len(p.clauses)
           Good == Suits(p, Asks(r))
<1>0. PICK block : block = encode_literals(p.clauses)
  OBVIOUS
<1>1. /\ p.n \in Nat /\ m \in Nat /\ block \in [1 .. Block -> Literals]
      /\ Block \in Nat \ {0} /\ Block < LengthSpan /\ 2 < LengthSpan
      /\ Slots = 0 .. Block - 1
  BY <1>0, BlockLiterals, BlockSize, FormulaNumbers, SlotsAre
<1>2. ASSUME NEW adr \in Nat, NEW S, NEW words \in Seq(S), r = Write(adr, words),
             NEW size, size = Len(words), size < LengthSpan, size # 0,
             \A i \in 0 .. size - 1 : Target(p, adr + i, words[i + 1])
      PROVE  Good
  <2>1. /\ Asks(r).op = "write" /\ ~Asks(r).fixed /\ Asks(r).adr = adr
        /\ Asks(r).size = size
        /\ \A i \in 1 .. size : Asks(r).words[i] = words[i]
    BY <1>2, WriteAsks
  <2>2. size \in Nat
    BY <1>2
  <2>3. ASSUME NEW i \in 0 .. size - 1
        PROVE  Asks(r).words[i + 1] = words[i + 1]
    BY <2>1, <2>2
  <2> QED
    BY <1>2, <2>1, <2>2, <2>3 DEF Suits
<1> SUFFICES Good
  OBVIOUS
<1> HIDE DEF Good
<1>3. CASE r = Write(LIT_BASE, block)
  <2>1. block \in Seq(Literals) /\ Len(block) = Block
    BY <1>1
  <2>2. ASSUME NEW i \in 0 .. Block - 1
        PROVE  Target(p, LIT_BASE + i, block[i + 1])
    <3>1. LIT_BASE + i \notin {0, 1, 2} /\ (LIT_BASE + i) - LIT_BASE + 1 = i + 1
      BY <1>1 DEF LIT_BASE
    <3> QED
      BY <1>0, <3>1 DEF Target
  <2> QED
    <3>1. /\ LIT_BASE \in Nat /\ Block = Len(block) /\ Block # 0 /\ Block < LengthSpan
      BY <1>1, <2>1 DEF LIT_BASE
    <3> QED
      BY <1>2, <1>3, <2>1, <2>2, <3>1, Zenon
<1>4. CASE r = Write(1, <<p.n, m>>)
  <2>1. <<p.n, m>> \in Seq(Nat) /\ Len(<<p.n, m>>) = 2
    BY <1>1
  <2>2. ASSUME NEW i \in 0 .. 1
        PROVE  Target(p, 1 + i, <<p.n, m>>[i + 1])
    BY <1>1 DEF LIT_BASE, Target
  <2>3. PICK words : words = <<p.n, m>>
    OBVIOUS
  <2>4. /\ 1 \in Nat /\ words \in Seq(Nat) /\ 2 = Len(words) /\ r = Write(1, words)
        /\ 2 # 0 /\ 2 < LengthSpan
        /\ \A i \in 0 .. 2 - 1 : Target(p, 1 + i, words[i + 1])
    BY <1>1, <1>4, <2>1, <2>2, <2>3
  <2> QED
    BY <1>2, <2>4, Zenon
<1>5. ASSUME NEW adr \in Nat, NEW w, r = Write(adr, <<w>>), Target(p, adr, w)
      PROVE  Good
  <2>1. <<w>> \in Seq({w}) /\ Len(<<w>>) = 1 /\ <<w>>[1] = w
    OBVIOUS
  <2>2. ASSUME NEW i \in 0 .. 1 - 1
        PROVE  Target(p, adr + i, <<w>>[i + 1])
    <3>1. i = 0 /\ i + 1 = 1 /\ adr + i = adr
      BY <1>5
    <3> QED
      BY <1>5, <2>1, <3>1
  <2>3. 1 < LengthSpan /\ 1 # 0
    BY <1>1, LengthAssumption
  <2> QED
    BY <1>2, <1>5, <2>1, <2>2, <2>3
<1>6. CASE r \in {Write(1, <<p.n>>), Write(2, <<m>>), Write(0, <<1>>)}
  <2>1. /\ Target(p, 1, p.n) /\ Target(p, 2, m) /\ Target(p, 0, 1)
        /\ 0 \in Nat /\ 1 \in Nat /\ 2 \in Nat
    BY <1>1 DEF LIT_BASE, Target
  <2> QED
    BY <1>5, <1>6, <2>1, Zenon
<1>7. ASSUME NEW s \in Slots, r = Write(LIT_BASE + s, <<block[s + 1]>>)
      PROVE  Good
  <2>1. LIT_BASE + s \in Nat /\ LIT_BASE + s \notin {0, 1, 2}
        /\ (LIT_BASE + s) - LIT_BASE + 1 = s + 1
    BY <1>1 DEF LIT_BASE
  <2>2. Target(p, LIT_BASE + s, block[s + 1])
    BY <1>0, <2>1 DEF Target
  <2> QED
    BY <1>5, <1>7, <2>1, <2>2
<1> QED
  BY <1>0, <1>3, <1>4, <1>6, <1>7 DEF Parts, SlotWrites

\* The slots that the SDK program writes, in order: the loop over the block builds a
\* sequence of its requests, one for every slot in use.
SlotWrite(p, i) == Write(LIT_BASE + i - 1, <<encode_literals(p.clauses)[i]>>)

\* client_sdk.py writes literals of its formula, one request each, all those in use.
LEMMA SdkLiterals ==
  ASSUME NEW p \in Formulas
  PROVE  /\ sdk_literals(p.clauses) \in Seq(SlotWrites(p))
         /\ \A i \in 1 .. Block : encode_literals(p.clauses)[i].used =>
               \E j \in 1 .. Len(sdk_literals(p.clauses)) :
                  sdk_literals(p.clauses)[j] = SlotWrite(p, i)
<1>0. PICK block : block = encode_literals(p.clauses)
  OBVIOUS
<1> DEFINE W == SlotWrites(p)
           w(i) == Write(LIT_BASE + i - 1, <<block[i]>>)
           Has(s, n) == \A i \in 1 .. n : block[i].used =>
                           \E j \in 1 .. Len(s) : s[j] = w(i)
           Grows(n) == {g \in [0 .. n -> Seq(W)] :
                          /\ g[0] = <<>>
                          /\ \A i \in 1 .. n : g[i] = IF block[i].used
                                                        THEN Append(g[i - 1], w(i))
                                                        ELSE g[i - 1]
                          /\ Has(g[n], n)}
           T == {n \in 0 .. Block : Grows(n) = {}}
<1>1. \A i \in 1 .. Block : w(i) \in W
  <2> TAKE i \in 1 .. Block
  <2>1. i - 1 \in Slots /\ (i - 1) + 1 = i /\ LIT_BASE + (i - 1) = LIT_BASE + i - 1
    BY SlotsAre, BlockSize DEF LIT_BASE
  <2> QED
    BY <1>0, <2>1 DEF SlotWrites
<1>2. Block \in Nat /\ T \subseteq Nat
  BY BlockSize
<1> HIDE DEF w, W
<1>3. ASSUME T # {} PROVE FALSE
  <2>1. PICK m \in T : \A k \in T : m <= k
    BY <1>2, <1>3, LeastNumber
  <2>2. CASE m = 0
    <3>1. [i \in 0 .. 0 |-> <<>>] \in Grows(0)
      OBVIOUS
    <3> QED
      BY <2>1, <2>2, <3>1
  <2>3. CASE m # 0
    <3>1. m \in 1 .. Block /\ m - 1 \in 0 .. Block /\ m - 1 \notin T
      <4>1. m \in 0 .. Block
        BY <2>1
      <4>2. m \in 1 .. Block /\ m - 1 \in 0 .. Block /\ ~(m <= m - 1)
        BY <1>2, <2>3, <4>1
      <4> QED
        BY <2>1, <4>2
    <3>2. PICK g : g \in Grows(m - 1)
      BY <3>1
    <3>3. PICK last : last = IF block[m].used THEN Append(g[m - 1], w(m)) ELSE g[m - 1]
      OBVIOUS
    <3> DEFINE h == [i \in 0 .. m |-> IF i = m THEN last ELSE g[i]]
    <3>4. g[m - 1] \in Seq(W) /\ Has(g[m - 1], m - 1)
      BY <1>2, <3>1, <3>2
    <3>5. last \in Seq(W) /\ w(m) \in W
      BY <1>1, <3>1, <3>3, <3>4
    <3>6. h \in [0 .. m -> Seq(W)] /\ h[m] = last
      BY <3>1, <3>2, <3>5
    <3>7. h[0] = <<>>
      BY <3>1, <3>2
    <3>8. ASSUME NEW i \in 1 .. m
          PROVE  h[i] = IF block[i].used THEN Append(h[i - 1], w(i)) ELSE h[i - 1]
      <4>1. CASE i = m
        BY <3>1, <3>3, <4>1
      <4>2. CASE i # m
        <5>1. i \in 1 .. m - 1 /\ i - 1 \in 0 .. m /\ i - 1 # m /\ i \in 0 .. m
          BY <3>1, <4>2
        <5>2. h[i] = g[i] /\ h[i - 1] = g[i - 1]
          BY <4>2, <5>1
        <5> QED
          BY <3>2, <5>1, <5>2
      <4> QED
        BY <4>1, <4>2
    <3>9. Has(last, m)
      <4> SUFFICES ASSUME NEW i \in 1 .. m, block[i].used
                   PROVE  \E j \in 1 .. Len(last) : last[j] = w(i)
        OBVIOUS
      <4>1. CASE block[m].used
        <5>1. /\ Len(last) = Len(g[m - 1]) + 1 /\ last[Len(last)] = w(m)
              /\ \A j \in 1 .. Len(g[m - 1]) : last[j] = g[m - 1][j]
          BY <3>3, <3>4, <3>5, <4>1
        <5>2. Len(g[m - 1]) \in Nat
          BY <3>4
        <5>3. CASE i = m
          BY <5>1, <5>2, <5>3
        <5>4. CASE i # m
          <6>1. i \in 1 .. m - 1
            BY <3>1, <5>4
          <6>2. PICK j \in 1 .. Len(g[m - 1]) : g[m - 1][j] = w(i)
            BY <3>4, <6>1
          <6> QED
            BY <5>1, <5>2, <6>2
        <5> QED
          BY <5>3, <5>4
      <4>2. CASE ~block[m].used
        <5>1. last = g[m - 1] /\ i \in 1 .. m - 1
          BY <3>1, <3>3, <4>2
        <5> QED
          BY <3>4, <5>1
      <4> QED
        BY <4>1, <4>2
    <3> HIDE DEF h, Has
    <3>10. h \in Grows(m)
      BY <3>6, <3>7, <3>8, <3>9
    <3> QED
      BY <2>1, <3>10
  <2> QED
    BY <2>2, <2>3
<1> HIDE DEF Grows
<1>4. Grows(Block) # {}
  BY <1>2, <1>3
<1> USE DEF Grows
<1>5. PICK g : g \in Grows(Block)
  BY <1>4
<1> DEFINE Built(f) == f = [i \in 0 .. Block |->
             IF i = 0 THEN <<>>
             ELSE IF block[i].used THEN Append(f[i - 1], w(i)) ELSE f[i - 1]]
<1>6. Built(g)
  <2>1. /\ g = [i \in 0 .. Block |-> g[i]] /\ g[0] = <<>>
        /\ \A i \in 1 .. Block : g[i] = IF block[i].used THEN Append(g[i - 1], w(i))
                                                        ELSE g[i - 1]
    BY <1>5
  <2>2. \A i \in 0 .. Block : i = 0 \/ i \in 1 .. Block
    BY <1>2
  <2> QED
    BY <2>1, <2>2
<1>7. ASSUME NEW f, Built(f) PROVE f[Block] = g[Block]
  <2> DEFINE U == {i \in 0 .. Block : f[i] # g[i]}
  <2> SUFFICES ASSUME U # {} PROVE FALSE
    BY <1>2
  <2>0. U \subseteq Nat
    BY <1>2
  <2>1. PICK i \in U : \A k \in U : i <= k
    BY <2>0, LeastNumber
  <2>2. CASE i = 0
    BY <1>6, <1>7, <2>1, <2>2
  <2>3. CASE i # 0
    <3>1. i \in 0 .. Block /\ i - 1 \in 0 .. Block /\ i - 1 \notin U
      BY <1>2, <2>1, <2>3
    <3>2. f[i - 1] = g[i - 1]
      BY <3>1
    <3>3. /\ f[i] = IF block[i].used THEN Append(f[i - 1], w(i)) ELSE f[i - 1]
          /\ g[i] = IF block[i].used THEN Append(g[i - 1], w(i)) ELSE g[i - 1]
      BY <1>6, <1>7, <2>3, <3>1
    <3> QED
      BY <2>1, <3>2, <3>3
  <2> QED
    BY <2>2, <2>3
<1>8. sdk_literals(p.clauses) = (CHOOSE f : Built(f))[Block]
  BY <1>0, Zenon DEF sdk_literals, w, Block
<1>9. Built(CHOOSE f : Built(f))
  BY <1>6, Zenon
<1>10. (CHOOSE f : Built(f))[Block] = g[Block]
  BY <1>7, <1>9, Zenon
<1>11. g[Block] \in Seq(W) /\ Has(g[Block], Block)
  BY <1>2, <1>5
<1>12. sdk_literals(p.clauses) = g[Block]
  BY <1>8, <1>10
<1>13. \A i \in 1 .. Block : w(i) = SlotWrite(p, i)
  BY <1>0 DEF w, SlotWrite
<1> HIDE DEF Grows, Built
<1> QED
  BY <1>0, <1>11, <1>12, <1>13 DEF W

-----------------------------------------------------------------------------
(* The programs: what of the registers is still to be written.              *)

\* The address is still to be written by the requests of todo, when k words of the
\* first one have been.
Pending(todo, k, adr) ==
  \E j \in DOMAIN todo : \E i \in 0 .. Asks(todo[j]).size - 1 :
    adr = Asks(todo[j]).adr + i /\ (j = 1 => i >= k)

\* The requests of a program about a formula, the last of which starts the search.
Loading(p, todo) ==
  /\ todo \in Seq(Parts(p)) \ {<<>>}
  /\ todo[Len(todo)] = Write(0, <<1>>)

\* The words of a request that has not been sent are still to be written.
LEMMA PendingWrite ==
  ASSUME NEW T, NEW todo \in Seq(T), NEW j \in 1 .. Len(todo), NEW adr \in Nat,
         NEW S, NEW words \in Seq(S), NEW size, size = Len(words), size < LengthSpan,
         todo[j] = Write(adr, words), NEW i \in 0 .. size - 1
  PROVE  Pending(todo, 0, adr + i)
<1>1. Asks(todo[j]).size = size /\ Asks(todo[j]).adr = adr
  BY WriteAsks
<1>2. j \in DOMAIN todo /\ i \in 0 .. Asks(todo[j]).size - 1 /\ i >= 0
  BY <1>1
<1> QED
  BY <1>1, <1>2 DEF Pending

\* The same for a request of one word.
LEMMA PendingWord ==
  ASSUME NEW T, NEW todo \in Seq(T), NEW j \in 1 .. Len(todo), NEW adr \in Nat,
         NEW w, todo[j] = Write(adr, <<w>>)
  PROVE  Pending(todo, 0, adr)
<1>1. PICK words : words = <<w>>
  OBVIOUS
<1>2. words \in Seq({w}) /\ 1 = Len(words) /\ 1 < LengthSpan /\ 0 \in 0 .. 1 - 1
  BY <1>1, BlockSize, LengthAssumption
<1>3. todo[j] = Write(adr, words)
  BY <1>1
<1>4. Pending(todo, 0, adr + 0)
  BY <1>2, <1>3, PendingWrite, Zenon
<1> QED
  BY <1>4

\* client.py writes every register.
LEMMA SolveWrites ==
  ASSUME NEW p \in Formulas
  PROVE  /\ Loading(p, solve(p))
         /\ \A adr \in {1, 2} : Pending(solve(p), 0, adr)
         /\ \A s \in Slots : Pending(solve(p), 0, LIT_BASE + s)
<1>0. PICK block : block = encode_literals(p.clauses)
  OBVIOUS
<1>1. PICK todo : todo = solve(p)
  OBVIOUS
<1>2. todo = <<Write(LIT_BASE, block), Write(1, <<p.n, Len(p.clauses)>>), Write(0, <<1>>)>>
  BY <1>0, <1>1 DEF solve
<1>3. /\ Write(LIT_BASE, block) \in Parts(p) /\ Write(0, <<1>>) \in Parts(p)
      /\ Write(1, <<p.n, Len(p.clauses)>>) \in Parts(p)
  BY <1>0 DEF Parts
<1>4. /\ todo \in Seq(Parts(p)) /\ Len(todo) = 3 /\ 1 \in 1 .. Len(todo) /\ 2 \in 1 .. Len(todo)
      /\ todo[1] = Write(LIT_BASE, block) /\ todo[2] = Write(1, <<p.n, Len(p.clauses)>>)
      /\ todo[3] = Write(0, <<1>>)
  BY <1>2, <1>3
<1>5. Loading(p, todo)
  BY <1>4 DEF Loading
<1>6. ASSUME NEW i \in 0 .. 1 PROVE Pending(todo, 0, 1 + i)
  <2>1. PICK words : words = <<p.n, Len(p.clauses)>>
    OBVIOUS
  <2>2. /\ words \in Seq({p.n, Len(p.clauses)}) /\ 2 = Len(words) /\ 2 < LengthSpan
        /\ i \in 0 .. 2 - 1 /\ 1 \in Nat /\ todo[2] = Write(1, words)
    BY <1>4, <2>1, BlockSize
  <2> QED
    BY <1>4, <2>2, PendingWrite, Zenon
<1>7. ASSUME NEW s \in Slots PROVE Pending(todo, 0, LIT_BASE + s)
  <2>1. /\ block \in Seq(Literals) /\ Block = Len(block) /\ Block < LengthSpan
        /\ LIT_BASE \in Nat /\ s \in 0 .. Block - 1
    BY <1>0, BlockLiterals, BlockSize, SlotsAre DEF LIT_BASE
  <2> QED
    BY <1>4, <2>1, PendingWrite, Zenon
<1>8. Pending(todo, 0, 1) /\ Pending(todo, 0, 2)
  <2>1. 0 \in 0 .. 1 /\ 1 \in 0 .. 1 /\ 1 + 0 = 1 /\ 1 + 1 = 2
    OBVIOUS
  <2>2. Pending(todo, 0, 1 + 0) /\ Pending(todo, 0, 1 + 1)
    BY <1>6, <2>1, Zenon
  <2> QED
    BY <2>1, <2>2
<1> QED
  BY <1>1, <1>5, <1>7, <1>8

\* client_sdk.py writes the counts and the slots that its formula uses.
LEMMA SdkWrites ==
  ASSUME NEW p \in Formulas
  PROVE  /\ Loading(p, sdk_solve(p))
         /\ \A adr \in {1, 2} : Pending(sdk_solve(p), 0, adr)
         /\ \A s \in Slots : encode_literals(p.clauses)[s + 1].used =>
               Pending(sdk_solve(p), 0, LIT_BASE + s)
<1>1. PICK L, head, last, todo :
        /\ L = sdk_literals(p.clauses) /\ last = <<Write(0, <<1>>)>>
        /\ head = <<Write(1, <<p.n>>), Write(2, <<Len(p.clauses)>>)>>
        /\ todo = (head \o L) \o last
  OBVIOUS
<1>2. todo = sdk_solve(p)
  BY <1>1 DEF sdk_solve
<1>3. L \in Seq(Parts(p))
  <2>1. L \in Seq(SlotWrites(p)) /\ SlotWrites(p) \subseteq Parts(p)
    BY <1>1, SdkLiterals DEF Parts
  <2> QED
    BY <2>1
<1>4. /\ head \in Seq(Parts(p)) /\ Len(head) = 2
      /\ head[1] = Write(1, <<p.n>>) /\ head[2] = Write(2, <<Len(p.clauses)>>)
  <2>1. Write(1, <<p.n>>) \in Parts(p) /\ Write(2, <<Len(p.clauses)>>) \in Parts(p)
    BY DEF Parts
  <2> QED
    BY <1>1, <2>1
<1>5. last \in Seq(Parts(p)) /\ Len(last) = 1 /\ last[1] = Write(0, <<1>>)
  <2>1. Write(0, <<1>>) \in Parts(p)
    BY DEF Parts
  <2> QED
    BY <1>1, <2>1
<1>6. PICK front : front = head \o L
  OBVIOUS
<1>7. /\ front \in Seq(Parts(p)) /\ Len(front) = 2 + Len(L)
      /\ \A i \in 1 .. 2 : front[i] = head[i]
      /\ \A i \in 1 .. Len(L) : front[i + 2] = L[i]
  <2>1. /\ head \o L \in Seq(Parts(p)) /\ Len(head \o L) = Len(head) + Len(L)
        /\ \A i \in 1 .. Len(head) : (head \o L)[i] = head[i]
        /\ \A i \in 1 .. Len(L) : (head \o L)[i + Len(head)] = L[i]
    <3>1. PICK S : S = Parts(p)
      OBVIOUS
    <3>2. head \in Seq(S) /\ L \in Seq(S)
      BY <1>3, <1>4, <3>1
    <3> QED
      BY <3>1, <3>2, Joined
  <2> QED
    BY <1>4, <1>6, <2>1
<1>8. /\ todo = front \o last
      /\ todo \in Seq(Parts(p)) /\ Len(todo) = Len(front) + 1
      /\ \A i \in 1 .. Len(front) : todo[i] = front[i]
      /\ \A i \in 1 .. 1 : todo[i + Len(front)] = last[i]
  <2>1. todo = front \o last
    BY <1>1, <1>6
  <2>2. /\ front \o last \in Seq(Parts(p)) /\ Len(front \o last) = Len(front) + Len(last)
        /\ \A i \in 1 .. Len(front) : (front \o last)[i] = front[i]
        /\ \A i \in 1 .. Len(last) : (front \o last)[i + Len(front)] = last[i]
    <3>1. PICK S : S = Parts(p)
      OBVIOUS
    <3>2. front \in Seq(S) /\ last \in Seq(S)
      BY <1>5, <1>7, <3>1
    <3> QED
      BY <3>1, <3>2, Joined
  <2> QED
    BY <1>5, <2>1, <2>2
<1>9. Len(L) \in Nat /\ Len(front) \in Nat
  BY <1>3, <1>7
<1>10. Loading(p, todo)
  <2>1. todo[1 + Len(front)] = Write(0, <<1>>) /\ todo # <<>>
    BY <1>5, <1>8, <1>9
  <2> QED
    BY <1>8, <1>9, <2>1 DEF Loading
<1>11. Pending(todo, 0, 1) /\ Pending(todo, 0, 2)
  <2>1. /\ todo[1] = Write(1, <<p.n>>) /\ todo[2] = Write(2, <<Len(p.clauses)>>)
        /\ 1 \in 1 .. Len(todo) /\ 2 \in 1 .. Len(todo) /\ 1 \in Nat /\ 2 \in Nat
    BY <1>4, <1>7, <1>8, <1>9
  <2> QED
    BY <1>8, <2>1, PendingWord, Zenon
<1>12. ASSUME NEW s \in Slots, encode_literals(p.clauses)[s + 1].used
       PROVE  Pending(todo, 0, LIT_BASE + s)
  <2>1. s + 1 \in 1 .. Block /\ LIT_BASE + s \in Nat /\ LIT_BASE + (s + 1) - 1 = LIT_BASE + s
    BY SlotsAre, BlockSize DEF LIT_BASE
  <2>2. PICK j \in 1 .. Len(L) : L[j] = SlotWrite(p, s + 1)
    BY <1>1, <1>12, <2>1, SdkLiterals
  <2>3. L[j] = Write(LIT_BASE + s, <<encode_literals(p.clauses)[s + 1]>>)
    BY <2>1, <2>2 DEF SlotWrite
  <2>4. j + 2 \in 1 .. Len(front) /\ todo[j + 2] = L[j] /\ j + 2 \in 1 .. Len(todo)
    BY <1>7, <1>8, <1>9
  <2> QED
    BY <1>8, <2>1, <2>3, <2>4, PendingWord
<1> QED
  BY <1>2, <1>10, <1>11, <1>12

-----------------------------------------------------------------------------
(* The truth about a formula.                                               *)

\* The quotient is the only one.
LEMMA Divided ==
  ASSUME NEW x \in Nat, NEW b \in Nat \ {0}, NEW q \in Nat, NEW r \in 0 .. b - 1,
         x = b * q + r
  PROVE  x \div b = q
<1> DEFINE d == x \div b
           e == x % b
<1>1. d \in Nat /\ e \in 0 .. b - 1 /\ x - b * d = e
  OBVIOUS
<1> HIDE DEF d, e
<1>2. b * q + r = b * d + e
  BY <1>1
<1>3. ASSUME q >= d + 1 PROVE FALSE
  <2>1. PICK k \in Nat : q = d + 1 + k
    <3>1. q - d - 1 \in Nat /\ q = d + 1 + (q - d - 1)
      BY <1>1, <1>3
    <3> QED
      BY <3>1
  <2>2. b * q = b * d + b + b * k /\ b * k \in Nat
    BY <1>1, <2>1
  <2> QED
    BY <1>1, <1>2, <2>2
<1>4. ASSUME d >= q + 1 PROVE FALSE
  <2>1. PICK k \in Nat : d = q + 1 + k
    <3>1. d - q - 1 \in Nat /\ d = q + 1 + (d - q - 1)
      BY <1>1, <1>4
    <3> QED
      BY <3>1
  <2>2. b * d = b * q + b + b * k /\ b * k \in Nat
    BY <1>1, <2>1
  <2> QED
    BY <1>1, <1>2, <2>2
<1>5. d = q
  BY <1>1, <1>3, <1>4
<1> QED
  BY <1>5 DEF d

\* Bit i of a number, the value of variable i.
Bit(a, i) == (a \div Weight[i - 1]) % 2 = 1

\* A bit put below a number moves the others up.
LEMMA BitsMove ==
  ASSUME NEW a \in Nat, NEW e \in {0, 1}
  PROVE  /\ Bit(2 * a + e, 1) <=> e = 1
         /\ \A i \in Nat \ {0} : Bit(2 * a + e, i + 1) <=> Bit(a, i)
<1>1. Bit(2 * a + e, 1) <=> e = 1
  <2>1. Weight[1 - 1] = 1
    BY WeightLaw
  <2>2. (2 * a + e) \div 1 = 2 * a + e /\ (2 * a + e) % 2 = e
    OBVIOUS
  <2> QED
    BY <2>1, <2>2 DEF Bit
<1>2. ASSUME NEW i \in Nat \ {0}
      PROVE  Bit(2 * a + e, i + 1) <=> Bit(a, i)
  <2>1. PICK w : w = Weight[i - 1]
    OBVIOUS
  <2>2. w \in Nat \ {0} /\ Weight[(i + 1) - 1] = 2 * w
    <3>1. i - 1 \in Nat /\ (i + 1) - 1 = (i - 1) + 1
      OBVIOUS
    <3> QED
      BY <2>1, <3>1, WeightLaw
  <2>3. PICK q, r : q = a \div w /\ r = a % w
    OBVIOUS
  <2>4. q \in Nat /\ r \in 0 .. w - 1 /\ a - w * q = r
    BY <2>2, <2>3
  <2>5. /\ 2 * a + e \in Nat /\ 2 * w \in Nat \ {0} /\ 2 * r + e \in 0 .. (2 * w) - 1
        /\ 2 * a + e = (2 * w) * q + (2 * r + e)
    <3>1. w * q \in Nat /\ a = w * q + r /\ (2 * w) * q = 2 * (w * q)
      BY <2>2, <2>4
    <3> QED
      BY <2>2, <2>4, <3>1
  <2>6. (2 * a + e) \div (2 * w) = q
    BY <2>4, <2>5, Divided
  <2> QED
    BY <2>1, <2>2, <2>3, <2>6 DEF Bit
<1> QED
  BY <1>1, <1>2

\* Every valuation is a number of the space.
LEMMA BitsOf ==
  ASSUME NEW n \in Nat, NEW v \in [1 .. n -> BOOLEAN]
  PROVE  \E a \in 0 .. Weight[n] - 1 : \A i \in 1 .. n : v[i] = Bit(a, i)
<1> DEFINE Numbered(m, u) ==
             \E a \in 0 .. Weight[m] - 1 : \A i \in 1 .. m : u[i] = Bit(a, i)
           T == {m \in Nat : \E u \in [1 .. m -> BOOLEAN] : ~Numbered(m, u)}
<1>0. T \subseteq Nat
  OBVIOUS
<1>1. ASSUME T # {} PROVE FALSE
  <2>1. PICK m \in T : \A k \in T : m <= k
    BY <1>0, <1>1, LeastNumber
  <2>2. PICK u \in [1 .. m -> BOOLEAN] : ~Numbered(m, u)
    BY <2>1
  <2>3. CASE m = 0
    <3>1. 0 \in 0 .. Weight[0] - 1
      BY WeightLaw
    <3> QED
      BY <2>2, <2>3, <3>1
  <2>4. CASE m # 0
    <3>1. PICK k \in Nat : m = k + 1
      <4>1. m - 1 \in Nat /\ m = (m - 1) + 1
        BY <1>0, <2>1, <2>4
      <4> QED
        BY <4>1
    <3> DEFINE w == [i \in 1 .. k |-> u[i + 1]]
    <3>2. w \in [1 .. k -> BOOLEAN]
      <4>1. \A i \in 1 .. k : i + 1 \in 1 .. m
        BY <3>1
      <4> QED
        BY <2>2, <4>1
    <3>3. k \notin T
      BY <2>1, <3>1
    <3>4. PICK a \in 0 .. Weight[k] - 1 : \A i \in 1 .. k : w[i] = Bit(a, i)
      BY <3>2, <3>3
    <3>5. PICK e \in {0, 1} : (e = 1) = u[1]
      <4>1. u[1] \in BOOLEAN
        BY <2>2, <3>1
      <4> QED
        BY <4>1
    <3>6. PICK b : b = 2 * a + e
      OBVIOUS
    <3>7. b \in 0 .. Weight[m] - 1
      <4>1. Weight[k] \in Nat /\ Weight[m] = 2 * Weight[k]
        BY <3>1, WeightLaw
      <4> QED
        BY <3>4, <3>5, <3>6, <4>1
    <3>8. a \in Nat
      BY <3>1, <3>4, WeightLaw
    <3>9. ASSUME NEW i \in 1 .. m PROVE u[i] = Bit(b, i)
      <4>1. u[i] \in BOOLEAN /\ Bit(b, i) \in BOOLEAN
        BY <2>2 DEF Bit
      <4>2. CASE i = 1
        BY <3>5, <3>6, <3>8, <4>1, <4>2, BitsMove
      <4>3. CASE i # 1
        <5>1. PICK j \in 1 .. k : i = j + 1
          <6>1. i - 1 \in 1 .. k /\ i = (i - 1) + 1
            BY <3>1, <4>3
          <6> QED
            BY <6>1
        <5>2. j \in Nat \ {0}
          BY <5>1
        <5>3. Bit(b, i) <=> Bit(a, j)
          BY <3>6, <3>8, <5>1, <5>2, BitsMove
        <5>4. u[i] = w[j]
          BY <5>1
        <5> QED
          BY <3>4, <4>1, <5>3, <5>4
      <4> QED
        BY <4>2, <4>3
    <3> QED
      BY <2>2, <3>7, <3>9
  <2> QED
    BY <2>3, <2>4
<1>2. n \notin T
  BY <1>1
<1> QED
  BY <1>2

\* More bits weigh more.
LEMMA WeightGrows ==
  ASSUME NEW n \in Nat, NEW m \in Nat, n <= m
  PROVE  Weight[n] <= Weight[m]
<1> DEFINE T == {k \in Nat : n <= k /\ ~(Weight[n] <= Weight[k])}
<1>0. T \subseteq Nat
  OBVIOUS
<1>1. ASSUME T # {} PROVE FALSE
  <2>1. PICK k \in T : \A j \in T : k <= j
    BY <1>0, <1>1, LeastNumber
  <2>2. k # n
    BY <2>1, WeightLaw
  <2>3. k - 1 \in Nat /\ n <= k - 1 /\ k - 1 \notin T /\ k = (k - 1) + 1
    BY <2>1, <2>2
  <2>4. Weight[n] <= Weight[k - 1] /\ Weight[k - 1] \in Nat /\ Weight[n] \in Nat
        /\ Weight[k] = 2 * Weight[k - 1]
    BY <2>3, WeightLaw
  <2> QED
    BY <2>1, <2>4
<1> QED
  BY <1>1

\* The slots of a clause.
LEMMA ClauseSlot ==
  ASSUME NEW c \in 0 .. MAX_CLAUSES - 1, NEW s \in 0 .. CLAUSE_LEN - 1
  PROVE  /\ c * CLAUSE_LEN + s \in Slots
         /\ (c * CLAUSE_LEN + s) \div CLAUSE_LEN = c
         /\ (c * CLAUSE_LEN + s) % CLAUSE_LEN = s
<1>1. PICK n \in Nat \ {0} : n = MAX_CLAUSES
  BY SatAssumption
<1>2. PICK b \in Nat \ {0} : b = CLAUSE_LEN
  BY SatAssumption
<1>3. c \in 0 .. n - 1 /\ s \in 0 .. b - 1
  BY <1>1, <1>2
<1>4. c * b \in Nat /\ c * b + s \in Nat /\ c * b + s = b * c + s
  BY <1>3
<1>5. c * b + s \in 0 .. n * b - 1
  <2>1. PICK k \in Nat : n = c + 1 + k
    <3>1. n - c - 1 \in Nat /\ n = c + 1 + (n - c - 1)
      BY <1>3
    <3> QED
      BY <3>1
  <2>2. n * b = c * b + b + k * b /\ k * b \in Nat
    BY <1>3, <2>1
  <2> QED
    BY <1>3, <1>4, <2>2
<1>6. PICK x \in Nat : x = c * b + s
  BY <1>4
<1>7. x = b * c + s /\ c \in Nat
  BY <1>3, <1>4, <1>6
<1>8. x \div b = c
  BY <1>3, <1>7, Divided
<1>9. x - b * (x \div b) = x % b
  OBVIOUS
<1>10. x % b = s
  BY <1>3, <1>7, <1>8, <1>9
<1> QED
  BY <1>1, <1>2, <1>5, <1>6, <1>8, <1>10 DEF Slots

\* The literals of a formula as the registers should hold them, and as they may.
Own(p) == [s \in Slots |-> encode_literals(p.clauses)[s + 1]]
Fine(p, kind, s) ==
  IF encode_literals(p.clauses)[s + 1].used \/ kind # "sdk"
    THEN {encode_literals(p.clauses)[s + 1]} ELSE Leftover(s)

\* A clause in the registers is satisfied as the clause is.
LEMMA OwnClause ==
  ASSUME NEW p \in Formulas, NEW c \in 0 .. MAX_CLAUSES - 1, c < Len(p.clauses), NEW a
  PROVE  clause_sat(Own(p), c, a) <=>
           \E j \in DOMAIN p.clauses[c + 1] :
              Bit(a, Abs(p.clauses[c + 1][j])) = (p.clauses[c + 1][j] > 0)
<1>1. PICK clause : clause = p.clauses[c + 1]
  OBVIOUS
<1>2. /\ clause \in Seq(Int) /\ Len(clause) <= CLAUSE_LEN
      /\ \A j \in DOMAIN clause : Abs(clause[j]) \in 1 .. p.n
      /\ c \in Nat /\ c + 1 <= Len(p.clauses) /\ Len(clause) \in Nat
  <2>1. c + 1 \in DOMAIN p.clauses /\ c \in Nat /\ Len(p.clauses) \in Nat
    BY SatAssumption, ProblemAssumption DEF Formulas, Shipped
  <2> QED
    BY <1>1, <2>1, ProblemAssumption DEF Formulas, Shipped
<1>3. ASSUME NEW s \in 0 .. CLAUSE_LEN - 1
      PROVE  Own(p)[c * CLAUSE_LEN + s] =
               IF s + 1 <= Len(clause) THEN encode_lit(clause[s + 1]) ELSE NoLiteral
  <2>1. PICK t : t = c * CLAUSE_LEN + s
    OBVIOUS
  <2>2. t \in Slots /\ t \div CLAUSE_LEN = c /\ t % CLAUSE_LEN = s
    BY <2>1, ClauseSlot
  <2>3. t + 1 \in 1 .. MAX_CLAUSES * CLAUSE_LEN /\ (t + 1) - 1 = t
    BY <2>2, SlotsAre, BlockSize DEF Block
  <2>4. encode_literals(p.clauses)[t + 1] =
          IF c + 1 <= Len(p.clauses) /\ s + 1 <= Len(p.clauses[c + 1])
            THEN encode_lit(p.clauses[c + 1][s + 1]) ELSE NoLiteral
    BY <2>2, <2>3 DEF encode_literals
  <2> QED
    BY <1>1, <1>2, <2>1, <2>2, <2>4 DEF Own
<1>4. ASSUME NEW j \in DOMAIN clause
      PROVE  /\ encode_lit(clause[j]).used
             /\ (Value(a, encode_lit(clause[j]).var) # encode_lit(clause[j]).neg)
                  <=> (Bit(a, Abs(clause[j])) = (clause[j] > 0))
  <2>1. /\ clause[j] \in Int /\ Abs(clause[j]) \in 1 .. p.n /\ p.n \in 1 .. MAX_VARS
        /\ p.n \in Nat /\ MAX_VARS \in Nat
    BY <1>2, FormulaNumbers, SatAssumption
  <2>2. PICK i \in 1 .. p.n : i = Abs(clause[j])
    BY <2>1
  <2>3. i - 1 < MAX_VARS /\ clause[j] # 0
    BY <2>1, <2>2 DEF Abs
  <2>4. Value(a, i - 1) <=> Bit(a, i)
    BY <2>3 DEF Value, Bit
  <2>5. (clause[j] < 0) <=> ~(clause[j] > 0)
    BY <2>1, <2>3
  <2>6. /\ encode_lit(clause[j]).used /\ encode_lit(clause[j]).var = i - 1
        /\ encode_lit(clause[j]).neg = (clause[j] < 0)
    BY <2>2 DEF encode_lit
  <2>7. Value(a, i - 1) \in BOOLEAN /\ Bit(a, i) \in BOOLEAN
    BY DEF Value, Bit
  <2> QED
    BY <2>2, <2>4, <2>5, <2>6, <2>7
<1>5. ~NoLiteral.used
  BY DEF NoLiteral
<1>6. ASSUME NEW s \in 0 .. CLAUSE_LEN - 1, NEW l, l = Own(p)[c * CLAUSE_LEN + s],
             l.used, Value(a, l.var) # l.neg
      PROVE  \E j \in DOMAIN clause : Bit(a, Abs(clause[j])) = (clause[j] > 0)
  <2>1. s + 1 <= Len(clause)
    BY <1>3, <1>5, <1>6
  <2>2. s + 1 \in DOMAIN clause
    BY <1>2, <2>1, SatAssumption
  <2>3. l = encode_lit(clause[s + 1])
    BY <1>3, <1>6, <2>1
  <2> QED
    BY <1>4, <1>6, <2>2, <2>3
<1>7. ASSUME NEW j \in DOMAIN clause, Bit(a, Abs(clause[j])) = (clause[j] > 0)
      PROVE  clause_sat(Own(p), c, a)
  <2>1. j - 1 \in 0 .. CLAUSE_LEN - 1 /\ (j - 1) + 1 = j /\ j <= Len(clause)
    BY <1>2, SatAssumption
  <2>2. Own(p)[c * CLAUSE_LEN + (j - 1)] = encode_lit(clause[j])
    BY <1>3, <2>1
  <2> QED
    BY <1>4, <1>7, <2>1, <2>2 DEF clause_sat
<1> QED
  BY <1>1, <1>6, <1>7 DEF clause_sat

\* What the formulas before have left there changes nothing.
LEMMA SameClauses ==
  ASSUME NEW p \in Formulas, NEW kind, kind = "sdk" => p \in Shipped,
         NEW f, \A s \in Slots : f[s] \in Fine(p, kind, s),
         NEW c \in 0 .. MAX_CLAUSES - 1, c < Len(p.clauses), NEW a \in 0 .. Weight[p.n] - 1
  PROVE  clause_sat(f, c, a) <=> clause_sat(Own(p), c, a)
<1>1. ASSUME NEW t \in Slots
      PROVE  \/ f[t] = Own(p)[t]
             \/ kind = "sdk" /\ ~Own(p)[t].used /\ f[t] \in Leftover(t)
  BY DEF Fine, Own
<1>2. ASSUME clause_sat(f, c, a) PROVE clause_sat(Own(p), c, a)
  <2>1. PICK s \in 0 .. CLAUSE_LEN - 1 :
          /\ f[c * CLAUSE_LEN + s].used
          /\ Value(a, f[c * CLAUSE_LEN + s].var) # f[c * CLAUSE_LEN + s].neg
    BY <1>2 DEF clause_sat
  <2>2. PICK t \in Slots : t = c * CLAUSE_LEN + s /\ t \div CLAUSE_LEN = c
    BY ClauseSlot
  <2>3. CASE f[t] = Own(p)[t]
    BY <2>1, <2>2, <2>3 DEF clause_sat
  <2>4. CASE kind = "sdk" /\ ~Own(p)[t].used /\ f[t] \in Leftover(t)
    <3>1. PICK i \in DOMAIN SdkProblems : p = SdkProblems[i]
      BY <2>4 DEF Shipped
    <3>2. \A u \in Slots : \A l \in Leftover(u) : \A b \in 0 .. Weight[p.n] - 1 :
            /\ ~Own(p)[u].used /\ u \div CLAUSE_LEN < Len(p.clauses)
            /\ l.used /\ (Value(b, l.var) # l.neg)
            => clause_sat(Own(p), u \div CLAUSE_LEN, b)
      BY <3>1, LeftoverAssumption DEF Own
    <3>3. PICK l \in Leftover(t) : l = f[t]
      BY <2>4
    <3>4. l.used /\ Value(a, l.var) # l.neg
      BY <2>1, <2>2, <3>3
    <3>5. clause_sat(Own(p), t \div CLAUSE_LEN, a)
      BY <2>2, <2>4, <3>2, <3>4
    <3> QED
      BY <2>2, <3>5
  <2> QED
    BY <1>1, <2>3, <2>4
<1>3. ASSUME clause_sat(Own(p), c, a) PROVE clause_sat(f, c, a)
  <2>1. PICK s \in 0 .. CLAUSE_LEN - 1 :
          /\ Own(p)[c * CLAUSE_LEN + s].used
          /\ Value(a, Own(p)[c * CLAUSE_LEN + s].var) # Own(p)[c * CLAUSE_LEN + s].neg
    BY <1>3 DEF clause_sat
  <2>2. c * CLAUSE_LEN + s \in Slots
    BY ClauseSlot
  <2>3. f[c * CLAUSE_LEN + s] = Own(p)[c * CLAUSE_LEN + s]
    BY <1>1, <2>1, <2>2
  <2> QED
    BY <2>1, <2>3 DEF clause_sat
<1> QED
  BY <1>2, <1>3

\* So the core evaluates the formula.
LEMMA Evaluates ==
  ASSUME NEW p \in Formulas, NEW kind, kind = "sdk" => p \in Shipped,
         NEW f, \A s \in Slots : f[s] \in Fine(p, kind, s),
         NEW a \in 0 .. Weight[p.n] - 1, NEW v, \A i \in 1 .. p.n : v[i] = Bit(a, i)
  PROVE  all_sat(f, Len(p.clauses), a) <=> Holds(p, v)
<1>1. /\ Len(p.clauses) \in Nat /\ Len(p.clauses) <= MAX_CLAUSES
      /\ DOMAIN p.clauses = 1 .. Len(p.clauses) /\ MAX_CLAUSES \in Nat
  BY FormulaNumbers, SatAssumption, ProblemAssumption DEF Formulas, Shipped
<1>2. ASSUME NEW c \in 0 .. MAX_CLAUSES - 1, c < Len(p.clauses)
      PROVE  clause_sat(f, c, a) <=>
               \E s \in DOMAIN p.clauses[c + 1] :
                  v[Abs(p.clauses[c + 1][s])] = (p.clauses[c + 1][s] > 0)
  <2>1. clause_sat(f, c, a) <=>
          \E s \in DOMAIN p.clauses[c + 1] :
             Bit(a, Abs(p.clauses[c + 1][s])) = (p.clauses[c + 1][s] > 0)
    BY <1>2, SameClauses, OwnClause
  <2>2. c + 1 \in DOMAIN p.clauses
    BY <1>1, <1>2
  <2>3. ASSUME NEW s \in DOMAIN p.clauses[c + 1]
        PROVE  v[Abs(p.clauses[c + 1][s])] = Bit(a, Abs(p.clauses[c + 1][s]))
    <3>1. Abs(p.clauses[c + 1][s]) \in 1 .. p.n
      BY <2>2, ProblemAssumption DEF Formulas, Shipped
    <3> QED
      BY <3>1
  <2> QED
    BY <2>1, <2>3
<1>3. ASSUME all_sat(f, Len(p.clauses), a), NEW d \in DOMAIN p.clauses
      PROVE  \E s \in DOMAIN p.clauses[d] : v[Abs(p.clauses[d][s])] = (p.clauses[d][s] > 0)
  <2>1. PICK c \in 0 .. MAX_CLAUSES - 1 : d = c + 1 /\ c < Len(p.clauses)
    <3>1. d - 1 \in 0 .. MAX_CLAUSES - 1 /\ d = (d - 1) + 1 /\ d - 1 < Len(p.clauses)
      BY <1>1
    <3> QED
      BY <3>1
  <2>2. clause_sat(f, c, a)
    BY <1>1, <1>3, <2>1 DEF all_sat
  <2> QED
    BY <1>2, <2>1, <2>2
<1>4. ASSUME Holds(p, v), NEW c \in 0 .. MAX_CLAUSES - 1
      PROVE  c >= Len(p.clauses) \/ clause_sat(f, c, a)
  <2> SUFFICES ASSUME c < Len(p.clauses) PROVE clause_sat(f, c, a)
    BY <1>1
  <2>1. c + 1 \in DOMAIN p.clauses
    BY <1>1
  <2> QED
    BY <1>2, <1>4, <2>1 DEF Holds
<1> QED
  BY <1>3, <1>4 DEF all_sat, Holds

\* The space of the registers is the space of the formula.
LEMMA SpaceOf ==
  ASSUME NEW p \in Formulas, n_vars = p.n
  PROVE  Space = 0 .. Weight[p.n] - 1
<1>1. p.n \in Nat /\ p.n <= MAX_VARS /\ MAX_VARS \in Nat
  BY FormulaNumbers, SatAssumption
<1>2. Weight[p.n] \in Nat \ {0} /\ Weight[p.n] <= Weight[MAX_VARS]
  BY <1>1, WeightLaw, WeightGrows
<1>3. (Weight[p.n] - 1) % AssignSpan = Weight[p.n] - 1
  <2>1. Weight[p.n] - 1 \in Nat /\ Weight[p.n] - 1 < AssignSpan /\ AssignSpan \in Nat \ {0}
    BY <1>2, SatAssumption
  <2> QED
    BY <2>1, CutBelow
<1> QED
  BY <1>3 DEF Space, max_assign

\* What the core finds is true of the formula.
LEMMA FoundRight ==
  ASSUME NEW p \in Formulas, NEW kind, kind = "sdk" => p \in Shipped,
         \A s \in Slots : lits[s] \in Fine(p, kind, s),
         n_vars = p.n, n_clauses = Len(p.clauses), CoreRight, core.done, intact
  PROVE  IF core.sat THEN Holds(p, [i \in 1 .. p.n |-> Bit(core.model, i)])
                     ELSE \A v \in Valuations(p) : ~Holds(p, v)
<1>1. CASE core.sat
  <2>1. core.model \in 0 .. Weight[p.n] - 1 /\ all_sat(lits, Len(p.clauses), core.model)
    BY <1>1, SpaceOf DEF CoreRight, Satisfies
  <2> QED
    BY <1>1, <2>1, Evaluates
<1>2. CASE ~core.sat
  <2>1. \A a \in 0 .. Weight[p.n] - 1 : ~all_sat(lits, Len(p.clauses), a)
    BY <1>2, SpaceOf DEF CoreRight, Satisfies
  <2>2. ASSUME NEW v \in Valuations(p) PROVE ~Holds(p, v)
    <3>1. PICK a \in 0 .. Weight[p.n] - 1 : \A i \in 1 .. p.n : v[i] = Bit(a, i)
      BY BitsOf, FormulaNumbers DEF Valuations
    <3> QED
      BY <2>1, <3>1, Evaluates
  <2> QED
    BY <1>2, <2>2
<1> QED
  BY <1>1, <1>2

-----------------------------------------------------------------------------
(* A word on the registers.                                                 *)

\* What the solver writes on a clock edge.
LEMMA WriteCases ==
  ASSUME NEW adr \in Nat, NEW w, SatWrite(adr, w)
  PROVE  \/ adr = 0 /\ WriteStart(w % 2 = 1)
         \/ adr = 1 /\ WriteVars(w % VarSpan)
         \/ adr = 2 /\ WriteClauses(w % ClauseSpan)
         \/ \E s \in Slots : adr - LIT_BASE = s /\ WriteLiteral(s, w)
         \/ adr \notin {0, 1, 2} /\ adr - LIT_BASE \notin Slots /\ NoWrite
<1>0. \A a \in {0, 1, 2} : a - LIT_BASE \notin Slots
  BY DEF LIT_BASE, Slots
<1>1. CASE adr = 0
  <2>1. adr # 1 /\ adr # 2 /\ ~(adr - LIT_BASE \in Slots)
    BY <1>0, <1>1
  <2>2. WriteStart(w % 2 = 1)
    BY <1>1, <2>1, Zenon DEF SatWrite
  <2> QED
    BY <1>1, <2>2
<1>2. CASE adr = 1
  <2>1. adr # 0 /\ adr # 2 /\ ~(adr - LIT_BASE \in Slots)
    BY <1>0, <1>2
  <2>2. WriteVars(w % VarSpan)
    BY <1>2, <2>1, Zenon DEF SatWrite
  <2> QED
    BY <1>2, <2>2
<1>3. CASE adr = 2
  <2>1. adr # 0 /\ adr # 1 /\ ~(adr - LIT_BASE \in Slots)
    BY <1>0, <1>3
  <2>2. WriteClauses(w % ClauseSpan)
    BY <1>3, <2>1, Zenon DEF SatWrite
  <2> QED
    BY <1>3, <2>2
<1>4. CASE adr - LIT_BASE \in Slots
  <2>1. adr # 0 /\ adr # 1 /\ adr # 2
    BY <1>0, <1>4
  <2>2. WriteLiteral(adr - LIT_BASE, w)
    BY <1>4, <2>1, Zenon DEF SatWrite
  <2> QED
    BY <1>4, <2>2
<1>5. CASE adr # 0 /\ adr # 1 /\ adr # 2 /\ ~(adr - LIT_BASE \in Slots)
  <2>1. NoWrite
    BY <1>5, Zenon DEF SatWrite
  <2> QED
    BY <1>5, <2>1
<1> QED
  BY <1>1, <1>2, <1>3, <1>4, <1>5

\* It is a step of the core, if the register has room for it.
LEMMA CoreStep ==
  ASSUME SatClock, Active /\ bus.we => bus.adr \in Nat /\ Room(bus.adr, bus.dat)
  PROVE  SatNext
<1>1. CASE ~(Active /\ bus.we)
  BY <1>1 DEF SatClock, SatNext
<1>2. CASE Active /\ bus.we
  <2>1. SatWrite(bus.adr, bus.dat)
    BY <1>2 DEF SatClock
  <2>2. PICK adr, w : /\ adr = bus.adr /\ adr \in Nat /\ w = bus.dat
                      /\ SatWrite(adr, w) /\ Room(adr, w)
    BY <1>2, <2>1
  <2>3. CASE adr = 0 /\ WriteStart(w % 2 = 1)
    BY <2>3 DEF SatNext
  <2>4. CASE adr = 1 /\ WriteVars(w % VarSpan)
    <3>1. w % VarSpan \in 0 .. VarSpan - 1
      BY <2>2, <2>4, SatAssumption DEF Room
    <3> QED
      BY <2>4, <3>1 DEF SatNext
  <2>5. CASE adr = 2 /\ WriteClauses(w % ClauseSpan)
    <3>1. w % ClauseSpan \in 0 .. ClauseSpan - 1
      BY <2>2, <2>5, SatAssumption DEF Room
    <3> QED
      BY <2>5, <3>1 DEF SatNext
  <2>6. CASE \E s \in Slots : adr - LIT_BASE = s /\ WriteLiteral(s, w)
    BY <2>2, <2>6 DEF SatNext, Room
  <2>7. CASE NoWrite
    BY <2>7 DEF SatNext
  <2> QED
    BY <2>2, <2>3, <2>4, <2>5, <2>6, <2>7, WriteCases
<1> QED
  BY <1>1, <1>2

\* A verdict stays until the next start.
LEMMA Settled ==
  ASSUME IInv, CoreEdge, ~start, intact, core.done
  PROVE  core' = core
<1>1. ~core.running
  BY DEF IInv, SweptClean
<1> QED
  BY <1>1 DEF CoreEdge

\* What a register should hold for the program's formula.
Right(adr) ==
  /\ adr = 1 => n_vars = client.job.problem.n
  /\ adr = 2 => n_clauses = Len(client.job.problem.clauses)
  /\ adr - LIT_BASE \in Slots =>
       lits[adr - LIT_BASE] \in Fine(client.job.problem, client.job.kind, adr - LIT_BASE)

\* A word of the formula puts its register right, and leaves the others.
LEMMA WordSettles ==
  ASSUME CoreTypeOK, UNCHANGED client, client.job.problem \in Formulas,
         client.job.kind = "sdk" => client.job.problem \in Shipped,
         NEW adr \in Nat, NEW w, Target(client.job.problem, adr, w), SatWrite(adr, w)
  PROVE  /\ \A a \in Nat : a = adr \/ Right(a) => Right(a)'
         /\ adr = 0 => start' = TRUE
         /\ \A s \in Slots : lits'[s] = lits[s]
               \/ lits'[s] = encode_literals(client.job.problem.clauses)[s + 1]
<1>1. PICK p : p = client.job.problem
  OBVIOUS
<1>2. PICK kind : kind = client.job.kind
  OBVIOUS
<1>3. /\ p \in Formulas /\ (kind = "sdk" => p \in Shipped)
      /\ Target(p, adr, w)
  BY <1>1, <1>2
<1>4. /\ client'.job.problem = p /\ client'.job.kind = kind
  BY <1>1, <1>2
<1>5. \A a : Right(a) <=>
          /\ a = 1 => n_vars = p.n
          /\ a = 2 => n_clauses = Len(p.clauses)
          /\ a - LIT_BASE \in Slots => lits[a - LIT_BASE] \in Fine(p, kind, a - LIT_BASE)
  BY <1>1, <1>2 DEF Right
<1>6. \A a : Right(a)' <=>
          /\ a = 1 => n_vars' = p.n
          /\ a = 2 => n_clauses' = Len(p.clauses)
          /\ a - LIT_BASE \in Slots => lits'[a - LIT_BASE] \in Fine(p, kind, a - LIT_BASE)
  BY <1>4, Zenon DEF Right
<1>7. \A s \in Slots : encode_literals(p.clauses)[s + 1] \in Fine(p, kind, s)
  <2>1. kind = "sdk" => \E i \in DOMAIN SdkProblems : p = SdkProblems[i]
    BY <1>3 DEF Shipped
  <2> QED
    BY <2>1 DEF Fine, Leftover
<1>8. /\ p.n \in Nat /\ p.n < VarSpan /\ Len(p.clauses) \in Nat /\ Len(p.clauses) < ClauseSpan
      /\ VarSpan \in Nat \ {0} /\ ClauseSpan \in Nat \ {0}
  BY <1>3, FormulaNumbers, SatAssumption
<1>9. CASE adr = 0 /\ WriteStart(w % 2 = 1)
  <2>1. UNCHANGED <<lits, n_vars, n_clauses>> /\ start' = (w % 2 = 1)
    BY <1>9 DEF WriteStart
  <2>2. w = 1 /\ (1 % 2 = 1)
    BY <1>3, <1>9 DEF Target
  <2>3. start' = TRUE
    BY <2>1, <2>2
  <2>4. \A a \in Nat : a = adr \/ Right(a) => Right(a)'
    <3>1. Right(0)
      BY <1>5 DEF LIT_BASE, Slots
    <3> QED
      BY <1>5, <1>6, <1>9, <2>1, <3>1
  <2> QED
    BY <2>1, <2>3, <2>4
<1>10. CASE adr = 1 /\ WriteVars(w % VarSpan)
  <2>1. n_vars' = w % VarSpan /\ UNCHANGED <<lits, n_clauses>>
    BY <1>10 DEF WriteVars
  <2>2. w = p.n /\ w % VarSpan = w
    BY <1>3, <1>8, <1>10, CutBelow DEF Target
  <2>3. 1 - LIT_BASE \notin Slots
    BY DEF LIT_BASE, Slots
  <2> QED
    BY <1>5, <1>6, <1>10, <2>1, <2>2, <2>3
<1>11. CASE adr = 2 /\ WriteClauses(w % ClauseSpan)
  <2>1. n_clauses' = w % ClauseSpan /\ UNCHANGED <<lits, n_vars>>
    BY <1>11 DEF WriteClauses
  <2>2. w = Len(p.clauses) /\ w % ClauseSpan = w
    BY <1>3, <1>8, <1>11, CutBelow DEF Target
  <2>3. 2 - LIT_BASE \notin Slots
    BY DEF LIT_BASE, Slots
  <2> QED
    BY <1>5, <1>6, <1>11, <2>1, <2>2, <2>3
<1>12. CASE \E s \in Slots : adr - LIT_BASE = s /\ WriteLiteral(s, w)
  <2>1. PICK s \in Slots : adr - LIT_BASE = s /\ WriteLiteral(s, w)
    BY <1>12
  <2>2. UNCHANGED <<n_vars, n_clauses>> /\ lits' = [lits EXCEPT ![s] = w]
    BY <2>1 DEF WriteLiteral
  <2>3. lits'[s] = w /\ \A u \in Slots : u # s => lits'[u] = lits[u]
    BY <2>2 DEF CoreTypeOK
  <2>4. w = encode_literals(p.clauses)[s + 1]
    BY <1>3, <2>1 DEF Target
  <2>5. adr \notin {0, 1, 2}
    BY <2>1 DEF LIT_BASE, Slots
  <2>6. ASSUME NEW a \in Nat, a = adr \/ Right(a) PROVE Right(a)'
    <3>1. a = 1 \/ a = 2 => a # adr
      BY <2>5
    <3>2. ASSUME NEW u \in Slots, a - LIT_BASE = u PROVE lits'[u] \in Fine(p, kind, u)
      <4>1. CASE u = s
        BY <1>7, <2>3, <2>4, <4>1
      <4>2. CASE u # s
        BY <1>5, <2>1, <2>3, <2>6, <3>2, <4>2
      <4> QED
        BY <4>1, <4>2
    <3> QED
      BY <1>5, <1>6, <2>2, <2>6, <3>1, <3>2
  <2> QED
    BY <1>1, <2>3, <2>4, <2>5, <2>6
<1>13. CASE adr \notin {0, 1, 2} /\ adr - LIT_BASE \notin Slots /\ NoWrite
  <2>1. UNCHANGED <<lits, n_vars, n_clauses>>
    BY <1>13 DEF NoWrite
  <2> QED
    BY <1>5, <1>6, <1>13, <2>1
<1> QED
  BY <1>9, <1>10, <1>11, <1>12, <1>13, WriteCases

\* Two sequences with the same elements are one.
LEMMA SeqEqual ==
  ASSUME NEW T, NEW a \in Seq(T), NEW b \in Seq(T), Len(a) = Len(b),
         \A i \in 1 .. Len(a) : a[i] = b[i]
  PROVE  a = b
  OBVIOUS

-----------------------------------------------------------------------------
(* Where a program is, and what the board has of its formula by then.       *)

Jobs == [kind : {"solve"}, problem : Problems, next : {<<>>}]
          \cup [kind : {"sdk"}, problem : Shipped, next : Seq(Shipped)]

\* A program runs on one of the formulas; nothing has run on a fresh board.
JobInv ==
  /\ runs \in Nat
  /\ client.pc \in {"idle", "load", "poll", "fetch"}
  /\ runs = 0 => client.pc = "idle" /\ client.outcome = "none" /\ request = None
  /\ runs # 0 => client.job \in Jobs

\* What the board was asked, also by a program that is gone, is about its formula.
RequestInv ==
  request # None =>
    \E r \in Parts(client.job.problem) \cup {Read(0, 1), Read(3, 1)} : request = Asks(r)

\* The SDK program finds in the slots what its own formulas left.
OldInv ==
  runs = 0 \/ client.job.kind = "sdk" => \A s \in Slots : lits[s] \in Leftover(s)

AllRight == \A adr \in Nat : Right(adr)
Searching == ~start /\ intact
Truthful(w) == w % 2 = 1 => core.done /\ (w >= 2 <=> core.sat)

\* With land words of the request on the board and k of them counted, what is not still
\* to be written is right; a verdict that was read is the core's.
Written(land, k) ==
  /\ Loading(client.job.problem, client.todo)
  /\ \A adr \in Nat : Pending(client.todo, land, adr) \/ Right(adr)
  /\ Len(client.todo) = 1 /\ land > 0 => IF k = 0 THEN start ELSE Searching
Polls(k) == AllRight /\ Searching /\ (k > 0 => Truthful(out[1]))
Fetches(k) ==
  /\ AllRight /\ Searching /\ core.done /\ core.sat /\ client.todo = <<Read(3, 1)>>
  /\ k > 0 => out[1] = core.model
Stage(land, k) ==
  /\ client.pc = "load" => Written(land, k)
  /\ client.pc = "poll" => Polls(k)
  /\ client.pc = "fetch" => Fetches(k)

\* The request the program sends, or has sent, and the response in all its fields.
Cur == IF client.pc = "poll" THEN Read(0, 1) ELSE Head(client.todo)
Reply(ok) == IF ok THEN <<"ok", Len(out)>> \o out ELSE <<"error", 0>>

Empty == socket = <<>> /\ buf = <<>> /\ answer = None
Still == Empty /\ (request # None => deaf /\ client.outcome \notin {"sat", "unsat"})
Waiting == Empty /\ request = None /\ Stage(0, 0)
InFlight ==
  /\ Empty /\ request # None /\ ~deaf /\ request = Asks(Cur)
  /\ (served = 0 => out = <<>>) /\ Stage(Landed, served)
Arrived(ok) ==
  /\ answer = [ok |-> ok, data |-> IF ok THEN out ELSE <<>>]
  /\ socket = <<>> /\ buf = <<>>
Arriving(ok) ==
  /\ answer = None
  /\ \E k \in 0 .. Len(Reply(ok)) - 1 :
        /\ buf = SubSeq(Reply(ok), 1, k)
        /\ socket = SubSeq(Reply(ok), k + 1, Len(Reply(ok)))
Answered(ok) == request = None /\ (Arrived(ok) \/ Arriving(ok))

Progress ==
  IF client.pc = "idle" THEN Still
  ELSE \/ Waiting
       \/ InFlight
       \/ Answered(TRUE) /\ Stage(Asks(Cur).size, Asks(Cur).size)
       \/ Answered(FALSE)

OutInv == out \in Seq(Int \cup Word)
Unsaid == client.outcome \notin {"sat", "unsat"}
ProgramInv ==
  /\ flashed # "sat" => Unsaid
  /\ flashed = "sat" => JobInv /\ RequestInv /\ OldInv /\ OutInv /\ Progress
SolverInv == IInv /\ ProgramInv /\ VerdictRight

\* The parts of a job.
LEMMA JobParts ==
  ASSUME client.job \in Jobs
  PROVE  /\ client.job.problem \in Formulas
         /\ client.job.kind = "sdk" => client.job.problem \in Shipped
                                        /\ client.job.next \in Seq(Shipped)
         /\ client.job.kind # "sdk" => client.job.next = <<>>
  BY DEF Jobs, Formulas

-----------------------------------------------------------------------------
(* The response on its way.                                                 *)

\* The fields of a response in two pieces, wherever it is cut.
LEMMA Pieces ==
  ASSUME NEW T, NEW F \in Seq(T), NEW k \in 0 .. Len(F), NEW n \in 0 .. Len(F) - k
  PROVE  /\ Len(SubSeq(F, k + 1, Len(F))) = Len(F) - k
         /\ SubSeq(F, 1, k) \o SubSeq(SubSeq(F, k + 1, Len(F)), 1, n) = SubSeq(F, 1, k + n)
         /\ SubSeq(SubSeq(F, k + 1, Len(F)), n + 1, Len(F) - k) = SubSeq(F, k + n + 1, Len(F))
         /\ Len(SubSeq(F, 1, k + n)) = k + n
<1>1. PICK g : g = SubSeq(F, k + 1, Len(F))
  OBVIOUS
<1>2. /\ g \in Seq(T) /\ Len(g) = Len(F) - k
      /\ \A i \in 1 .. Len(F) - k : g[i] = F[k + i]
  BY <1>1
<1>3. PICK h : h = SubSeq(g, 1, n)
  OBVIOUS
<1>4. h \in Seq(T) /\ Len(h) = n /\ \A i \in 1 .. n : h[i] = F[k + i]
  BY <1>2, <1>3
<1>5. PICK f : f = SubSeq(F, 1, k)
  OBVIOUS
<1>6. f \in Seq(T) /\ Len(f) = k /\ \A i \in 1 .. k : f[i] = F[i]
  BY <1>5
<1>7. SubSeq(F, 1, k + n) \in Seq(T) /\ Len(SubSeq(F, 1, k + n)) = k + n
      /\ \A i \in 1 .. k + n : SubSeq(F, 1, k + n)[i] = F[i]
  OBVIOUS
<1>8. f \o h = SubSeq(F, 1, k + n)
  <2>1. f \o h \in Seq(T) /\ Len(f \o h) = k + n
    BY <1>4, <1>6
  <2>2. ASSUME NEW i \in 1 .. k + n PROVE (f \o h)[i] = F[i]
    <3>0. k \in Nat /\ n \in Nat
      OBVIOUS
    <3>1. CASE i <= k
      BY <1>4, <1>6, <3>0, <3>1
    <3>2. CASE ~(i <= k)
      <4>1. i - k \in 1 .. n /\ k + (i - k) = i
        BY <3>0, <3>2
      <4>2. (f \o h)[i] = h[i - k]
        BY <1>4, <1>6, <3>0, <3>2
      <4> QED
        BY <1>4, <4>1, <4>2
    <3> QED
      BY <3>0, <3>1, <3>2
  <2> QED
    BY <1>7, <2>1, <2>2, SeqEqual
<1>9. SubSeq(g, n + 1, Len(F) - k) = SubSeq(F, k + n + 1, Len(F))
  <2>1. /\ SubSeq(g, n + 1, Len(F) - k) \in Seq(T)
        /\ Len(SubSeq(g, n + 1, Len(F) - k)) = Len(F) - k - n
        /\ \A i \in 1 .. Len(F) - k - n : SubSeq(g, n + 1, Len(F) - k)[i] = g[n + i]
    BY <1>2
  <2>2. /\ SubSeq(F, k + n + 1, Len(F)) \in Seq(T)
        /\ Len(SubSeq(F, k + n + 1, Len(F))) = Len(F) - k - n
        /\ \A i \in 1 .. Len(F) - k - n : SubSeq(F, k + n + 1, Len(F))[i] = F[k + n + i]
    OBVIOUS
  <2>3. ASSUME NEW i \in 1 .. Len(F) - k - n PROVE g[n + i] = F[k + n + i]
    <3>1. n + i \in 1 .. Len(F) - k /\ k + (n + i) = k + n + i
      OBVIOUS
    <3> QED
      BY <1>2, <3>1
  <2> QED
    BY <2>1, <2>2, <2>3, SeqEqual
<1> QED
  BY <1>1, <1>2, <1>3, <1>5, <1>7, <1>8, <1>9

\* The fields of a response: its status, how many words follow, the words.
LEMMA ReplyFields ==
  ASSUME OutInv, NEW ok \in BOOLEAN
  PROVE  \E m \in Nat :
           /\ Reply(ok) \in Seq({"ok", "error"} \cup Int \cup Word)
           /\ Len(Reply(ok)) = 2 + m /\ Reply(ok)[2] = m
           /\ (Reply(ok)[1] = "ok") = ok
           /\ SubSeq(Reply(ok), 3, 2 + m) = IF ok THEN out ELSE <<>>
<1> DEFINE T == {"ok", "error"} \cup Int \cup Word
<1>1. CASE ok
  <2>1. PICK head, F : head = <<"ok", Len(out)>> /\ F = head \o out
    OBVIOUS
  <2>2. F = Reply(ok)
    BY <1>1, <2>1 DEF Reply
  <2>3. PICK m \in Nat : m = Len(out)
    BY DEF OutInv
  <2>4. head \in Seq(T) /\ out \in Seq(T) /\ Len(head) = 2 /\ head[1] = "ok" /\ head[2] = m
    <3>1. m \in T /\ "ok" \in T
      OBVIOUS
    <3>2. out \in Seq(T)
      BY DEF OutInv
    <3> HIDE DEF T
    <3> QED
      BY <2>1, <2>3, <3>1, <3>2
  <2> HIDE DEF T
  <2>5. /\ F \in Seq(T) /\ Len(F) = 2 + m
        /\ \A i \in 1 .. 2 : F[i] = head[i]
        /\ \A i \in 1 .. m : F[i + 2] = out[i]
    BY <2>1, <2>3, <2>4, Joined
  <2>6. F[1] = "ok" /\ F[2] = m
    BY <2>4, <2>5
  <2>7. /\ SubSeq(F, 3, 2 + m) \in Seq(T) /\ Len(SubSeq(F, 3, 2 + m)) = m
        /\ \A i \in 1 .. m : SubSeq(F, 3, 2 + m)[i] = F[i + 2]
    BY <2>5
  <2>8. SubSeq(F, 3, 2 + m) = out
    BY <2>3, <2>4, <2>5, <2>7, SeqEqual
  <2>9. (F[1] = "ok") = TRUE
    BY <2>6
  <2> QED
    BY <1>1, <2>2, <2>5, <2>6, <2>8, <2>9 DEF T
<1>2. CASE ~ok
  <2>1. PICK F : F = <<"error", 0>>
    OBVIOUS
  <2>2. F = Reply(ok)
    BY <1>2, <2>1 DEF Reply
  <2>3. F \in Seq(T) /\ Len(F) = 2 + 0 /\ F[2] = 0 /\ F[1] = "error" /\ SubSeq(F, 3, 2 + 0) = <<>>
    BY <2>1
  <2>4. (F[1] = "ok") = FALSE /\ ok = FALSE /\ 0 \in Nat
    BY <1>2, <2>3
  <2> QED
    BY <1>2, <2>2, <2>3, <2>4
<1> QED
  BY <1>1, <1>2

\* Reading a piece of a response leaves the rest of it.
LEMMA ReceiveKeeps ==
  ASSUME OutInv, NEW ok \in BOOLEAN, Answered(ok), NEW n \in 1 .. Len(socket), Receive(n)
  PROVE  Answered(ok)'
<1> DEFINE T == {"ok", "error"} \cup Int \cup Word
<1>1. UNCHANGED <<request, out>>
  BY DEF Receive
<1>2. PICK F, data : F = Reply(ok) /\ data = IF ok THEN out ELSE <<>>
  OBVIOUS
<1>3. Reply(ok)' = F /\ (IF ok THEN out ELSE <<>>)' = data
  BY <1>1, <1>2 DEF Reply
<1>4. PICK m \in Nat : /\ F \in Seq(T) /\ Len(F) = 2 + m /\ F[2] = m
                       /\ (F[1] = "ok") = ok /\ SubSeq(F, 3, 2 + m) = data
  BY <1>2, ReplyFields
<1> HIDE DEF T
<1>5. ~Arrived(ok)
  <2> SUFFICES ASSUME socket = <<>> PROVE FALSE
    BY DEF Arrived
  <2> QED
    BY DEF Receive
<1>6. answer = None /\ \E k \in 0 .. Len(F) - 1 :
        buf = SubSeq(F, 1, k) /\ socket = SubSeq(F, k + 1, Len(F))
  BY <1>2, <1>5 DEF Answered, Arriving
<1>7. PICK k \in 0 .. Len(F) - 1 : buf = SubSeq(F, 1, k) /\ socket = SubSeq(F, k + 1, Len(F))
  BY <1>6
<1>8. PICK b : b = buf \o SubSeq(socket, 1, n)
  OBVIOUS
<1>9. k \in 0 .. Len(F) /\ k \in Nat /\ n \in Nat /\ Len(F) \in Nat
  BY <1>4, <1>7
<1>10. Len(socket) = Len(F) - k /\ n \in 0 .. Len(F) - k
  <2>1. 0 \in 0 .. Len(F) - k
    BY <1>9
  <2>2. Len(socket) = Len(F) - k
    BY <1>4, <1>7, <1>9, <2>1, Pieces
  <2> QED
    BY <1>9, <2>2
<1>11. /\ b = SubSeq(F, 1, k + n) /\ Len(b) = k + n
       /\ SubSeq(socket, n + 1, Len(socket)) = SubSeq(F, k + n + 1, Len(F))
  BY <1>4, <1>7, <1>8, <1>9, <1>10, Pieces
<1>12. k + n \in Nat /\ k + n <= Len(F) /\ \A i \in 1 .. k + n : b[i] = F[i]
  <2>1. PICK j \in 0 .. Len(F) : j = k + n
    BY <1>9, <1>10
  <2>2. \A i \in 1 .. j : SubSeq(F, 1, j)[i] = F[i]
    BY <1>4
  <2> QED
    BY <1>9, <1>11, <2>1, <2>2
<1>13. socket' = SubSeq(F, k + n + 1, Len(F))
  BY <1>11 DEF Receive
<1>14. CASE Len(b) >= 2 /\ recv_exact(b) = 0
  <2>1. buf' = <<>> /\ answer' = from_bytes(b)
    BY <1>8, <1>14 DEF Receive
  <2>2. b[1] = F[1] /\ b[2] = m
    BY <1>4, <1>11, <1>12, <1>14
  <2>3. k + n = 2 + m
    BY <1>11, <1>12, <1>14, <2>2 DEF recv_exact
  <2>4. b = F /\ socket' = <<>>
    BY <1>4, <1>11, <1>13, <2>3
  <2>5. answer' = [ok |-> ok, data |-> data]
    BY <1>4, <2>1, <2>4 DEF from_bytes
  <2>6. Arrived(ok)'
    BY <1>1, <1>2, <2>1, <2>4, <2>5 DEF Arrived
  <2> QED
    BY <1>1, <2>6 DEF Answered
<1>15. CASE ~(Len(b) >= 2 /\ recv_exact(b) = 0)
  <2>1. buf' = b /\ answer' = answer
    BY <1>8, <1>15 DEF Receive
  <2>2. k + n # 2 + m
    <3> SUFFICES ASSUME k + n = 2 + m PROVE FALSE
      OBVIOUS
    <3>1. Len(b) >= 2 /\ b[2] = m
      BY <1>4, <1>11, <1>12
    <3>2. recv_exact(b) = 0
      BY <1>11, <3>1 DEF recv_exact
    <3> QED
      BY <1>15, <3>1, <3>2
  <2>3. k + n \in 0 .. Len(F) - 1
    BY <1>4, <1>12, <2>2
  <2>4. Arriving(ok)'
    BY <1>3, <1>6, <1>11, <1>13, <2>1, <2>3 DEF Arriving
  <2> QED
    BY <1>1, <2>4 DEF Answered
<1> QED
  BY <1>14, <1>15

\* A response that is all there is not None, and one that is not is still coming.
LEMMA AnswerThere ==
  ASSUME OutInv, NEW ok \in BOOLEAN, Answered(ok)
  PROVE  /\ Arrived(ok) => answer # None
         /\ answer = None => socket # <<>>
         /\ answer # None => Arrived(ok) /\ answer.ok = ok
                              /\ answer.data = IF ok THEN out ELSE <<>>
<1>1. ASSUME Arrived(ok) PROVE answer # None
  <2>1. answer \in [ok : BOOLEAN, data : Seq(Int \cup Word)]
    BY <1>1 DEF Arrived, OutInv
  <2> QED
    BY <2>1, WordAssumption
<1>2. ASSUME Arriving(ok) PROVE socket # <<>>
  <2>1. PICK F : F = Reply(ok)
    OBVIOUS
  <2>2. PICK m \in Nat : F \in Seq({"ok", "error"} \cup Int \cup Word) /\ Len(F) = 2 + m
    BY <2>1, ReplyFields
  <2>3. PICK k \in 0 .. Len(F) - 1 : socket = SubSeq(F, k + 1, Len(F))
    BY <1>2, <2>1 DEF Arriving
  <2>4. k \in 0 .. Len(F) /\ 0 \in 0 .. Len(F) - k
    BY <2>2
  <2>5. Len(socket) = Len(F) - k
    BY <2>2, <2>3, <2>4, Pieces
  <2> QED
    BY <2>2, <2>5
<1> QED
  BY <1>1, <1>2 DEF Answered, Arrived, Arriving

\* The bridge's answer starts on its way whole.
LEMMA ReplySent ==
  ASSUME OutInv, NEW ok \in BOOLEAN, request' = None, socket' = Reply(ok),
         buf = <<>>, answer = None, UNCHANGED <<out, buf, answer>>
  PROVE  Answered(ok)'
<1>1. PICK F : F = Reply(ok)
  OBVIOUS
<1>2. Reply(ok)' = F
  BY <1>1 DEF Reply
<1>3. PICK m \in Nat : F \in Seq({"ok", "error"} \cup Int \cup Word) /\ Len(F) = 2 + m
  BY <1>1, ReplyFields
<1>4. 0 \in 0 .. Len(F) - 1 /\ buf' = SubSeq(F, 1, 0) /\ socket' = SubSeq(F, 0 + 1, Len(F))
  BY <1>1, <1>3
<1>5. Arriving(ok)'
  BY <1>2, <1>4 DEF Arriving
<1> QED
  BY <1>5 DEF Answered

-----------------------------------------------------------------------------
(* The board's clock.                                                       *)

\* A board just programmed, whatever the design.
LEMMA SolverStart == Init => SolverInv
<1> SUFFICES ASSUME Init PROVE SolverInv
  OBVIOUS
<1>1. IInv
  BY InitInv DEF Init
<1>2. /\ client.pc = "idle" /\ client.outcome = "none" /\ runs = 0
      /\ request = None /\ out = <<>> /\ socket = <<>> /\ buf = <<>> /\ answer = None
      /\ \A s \in Slots : lits[s] = NoLiteral
  BY DEF Init, ClientInit, LinkInit, SatInit
<1>3. VerdictRight /\ Unsaid
  BY <1>2 DEF VerdictRight, Unsaid
<1>4. JobInv /\ RequestInv /\ OutInv
  BY <1>2 DEF JobInv, RequestInv, OutInv
<1>5. OldInv
  BY <1>2 DEF OldInv, Leftover
<1>6. Progress
  BY <1>2 DEF Progress, Still, Empty
<1> QED
  BY <1>1, <1>3, <1>4, <1>5, <1>6 DEF SolverInv, ProgramInv

\* A word on the bus is one of the program's formula.
LEMMA BusWord ==
  ASSUME LinkInv, ProgramInv, flashed = "sat", bus.stb, bus.we
  PROVE  /\ runs # 0 /\ client.job \in Jobs /\ Suits(client.job.problem, request)
         /\ request # None /\ served \in 0 .. request.size - 1
         /\ bus.adr = request.adr + served /\ bus.adr \in Nat
         /\ Target(client.job.problem, bus.adr, bus.dat)
<1>1. /\ request # None /\ served < request.size /\ served \in Nat
      /\ request.op = "write"
      /\ bus.adr = request.adr + (IF request.fixed THEN 0 ELSE served)
      /\ bus.dat = request.words[served + 1]
  BY Driven DEF LinkInv
<1>2. runs # 0 /\ client.job \in Jobs
  BY <1>1 DEF ProgramInv, JobInv
<1>3. PICK p \in Formulas : p = client.job.problem
  BY <1>2, JobParts
<1>4. PICK r \in Parts(p) \cup {Read(0, 1), Read(3, 1)} : request = Asks(r)
  BY <1>1, <1>3 DEF ProgramInv, RequestInv
<1>5. r \in Parts(p)
  BY <1>1, <1>4, ReadAsks
<1>6. Suits(p, request)
  BY <1>4, <1>5, PartsSuit
<1>7. /\ ~request.fixed /\ request.adr \in Nat /\ request.size \in Nat \ {0}
      /\ \A i \in 0 .. request.size - 1 : Target(p, request.adr + i, request.words[i + 1])
  BY <1>6 DEF Suits
<1>8. served \in 0 .. request.size - 1 /\ bus.adr = request.adr + served
  BY <1>1, <1>7
<1> QED
  BY <1>1, <1>2, <1>3, <1>6, <1>7, <1>8

\* The core stays right, whatever the programs do.
LEMMA CoreKeeps == LinkInv /\ SolverInv /\ [Next]_vars => IInv'
<1> SUFFICES ASSUME LinkInv, SolverInv, [Next]_vars PROVE IInv'
  OBVIOUS
<1>1. CASE flashed = "sat" /\ SatClock
  <2>1. ASSUME Active /\ bus.we PROVE bus.adr \in Nat /\ Room(bus.adr, bus.dat)
    <3>1. /\ client.job.problem \in Formulas /\ bus.adr \in Nat
          /\ Target(client.job.problem, bus.adr, bus.dat)
      BY <1>1, <2>1, BusWord, JobParts DEF Active, SolverInv
    <3> QED
      BY <3>1, TargetRoom
  <2>2. SatNext
    BY <1>1, <2>1, CoreStep
  <2> QED
    BY <2>2, NextInv DEF SolverInv
<1>2. CASE UNCHANGED satVars
  BY <1>2, NextInv DEF SolverInv
<1> QED
  BY <1>1, <1>2 DEF Next, Clock, Others, vars

\* The SDK program finds its own leftovers.
LEMMA OldKeeps ==
  ASSUME LinkInv, SolverInv, flashed = "sat", SatClock, UNCHANGED clientVars
  PROVE  OldInv'
<1> SUFFICES ASSUME runs = 0 \/ client.job.kind = "sdk", NEW s \in Slots
             PROVE  lits'[s] \in Leftover(s)
  BY DEF OldInv, clientVars, Leftover
<1>1. lits[s] \in Leftover(s)
  BY DEF SolverInv, ProgramInv, OldInv
<1>2. CASE Active /\ bus.we
  <2>1. PICK adr \in Nat : adr = bus.adr
    BY <1>2, BusWord DEF Active, SolverInv
  <2>2. /\ runs # 0 /\ client.job \in Jobs /\ Target(client.job.problem, adr, bus.dat)
    BY <1>2, <2>1, BusWord DEF Active, SolverInv
  <2>3. /\ client.job.problem \in Formulas /\ client.job.problem \in Shipped
    BY <2>2, JobParts
  <2>4. SatWrite(adr, bus.dat) /\ UNCHANGED client
    BY <1>2, <2>1 DEF SatClock, clientVars
  <2>5. \/ lits'[s] = lits[s]
        \/ lits'[s] = encode_literals(client.job.problem.clauses)[s + 1]
    BY <2>2, <2>3, <2>4, WordSettles DEF SolverInv, IInv
  <2>6. encode_literals(client.job.problem.clauses)[s + 1] \in Leftover(s)
    BY <2>3 DEF Shipped, Leftover
  <2> QED
    BY <1>1, <2>5, <2>6
<1>3. CASE ~(Active /\ bus.we)
  BY <1>1, <1>3 DEF SatClock, NoWrite
<1> QED
  BY <1>2, <1>3

\* A clock edge on which nothing is written.
LEMMA QuietKeeps ==
  ASSUME IInv, NoWrite, UNCHANGED client
  PROVE  /\ \A a : Right(a)' <=> Right(a)
         /\ start \/ Searching => Searching'
         /\ Searching /\ core.done => core' = core
<1>1. UNCHANGED <<lits, n_vars, n_clauses>> /\ start' = FALSE /\ intact' = (start \/ intact)
      /\ CoreEdge
  BY DEF NoWrite
<1>2. \A a : Right(a)' <=> Right(a)
  BY <1>1, Zenon DEF Right
<1>3. start \/ Searching => Searching'
  BY <1>1 DEF Searching, IInv, CoreTypeOK
<1>4. Searching /\ core.done => core' = core
  BY <1>1, Settled DEF Searching
<1> QED
  BY <1>2, <1>3, <1>4

\* It keeps the place of a program, too, and what it read.
LEMMA StageQuiet ==
  ASSUME IInv, NoWrite, UNCHANGED <<client, out>>, NEW land, NEW k, Stage(land, k),
         client.pc = "load" /\ land > 0 => k # 0
  PROVE  Stage(land, k)'
<1>1. /\ \A a : Right(a)' <=> Right(a)
      /\ start \/ Searching => Searching'
      /\ Searching /\ core.done => core' = core
  BY QuietKeeps
<1>2. /\ client' = client /\ out' = out
      /\ \A a : Pending(client.todo, land, a)' <=> Pending(client.todo, land, a)
  BY DEF Pending, Asks
<1>3. CASE client.pc = "load"
  <2>1. Written(land, k)
    BY <1>3 DEF Stage
  <2>2. Written(land, k)'
    BY <1>1, <1>2, <1>3, <2>1 DEF Written, Loading, Parts, SlotWrites
  <2> QED
    BY <1>2, <1>3, <2>2 DEF Stage
<1>4. CASE client.pc = "poll"
  <2>1. AllRight /\ Searching /\ (k > 0 => Truthful(out[1]))
    BY <1>4 DEF Stage, Polls
  <2>2. AllRight' /\ Searching'
    BY <1>1, <2>1 DEF AllRight
  <2>3. k > 0 => Truthful(out[1])'
    BY <1>1, <1>2, <2>1 DEF Truthful
  <2> QED
    BY <1>2, <1>4, <2>2, <2>3 DEF Stage, Polls
<1>5. CASE client.pc = "fetch"
  <2>1. Fetches(k)
    BY <1>5 DEF Stage
  <2>2. AllRight' /\ Searching' /\ core' = core
    BY <1>1, <2>1 DEF AllRight, Fetches
  <2>3. Fetches(k)'
    BY <1>2, <2>1, <2>2 DEF Fetches
  <2> QED
    BY <1>2, <1>5, <2>3 DEF Stage
<1>6. CASE client.pc \notin {"load", "poll", "fetch"}
  BY <1>2, <1>6 DEF Stage
<1> QED
  BY <1>3, <1>4, <1>5, <1>6

\* The last request of a program is one word to the control register.
LEMMA StartWord ==
  /\ Asks(Write(0, <<1>>)).op = "write" /\ ~Asks(Write(0, <<1>>)).fixed
  /\ Asks(Write(0, <<1>>)).adr = 0 /\ Asks(Write(0, <<1>>)).size = 1
<1>1. PICK words : words = <<1>>
  OBVIOUS
<1>2. words \in Seq({1}) /\ Len(words) = 1 /\ 1 < LengthSpan
  BY <1>1, BlockSize, LengthAssumption
<1>3. Len(words) < LengthSpan
  BY <1>2
<1>4. PICK adr, r : adr = 0 /\ r = Write(adr, words)
  OBVIOUS
<1>5. Asks(r).op = "write" /\ ~Asks(r).fixed /\ Asks(r).adr = adr
      /\ Asks(r).size = Len(words)
  <2>1. words \in Seq({1})
    BY <1>2
  <2> QED
    BY <1>3, <1>4, <2>1, WriteAsks
<1> QED
  BY <1>1, <1>2, <1>4, <1>5

\* What a program in its straight-line part asks.
LEMMA LoadAsks ==
  ASSUME client.job \in Jobs, client.pc = "load", Loading(client.job.problem, client.todo)
  PROVE  /\ 1 \in DOMAIN client.todo /\ Cur = client.todo[1]
         /\ Len(client.todo) \in Nat \ {0}
         /\ Cur \in Parts(client.job.problem) /\ Suits(client.job.problem, Asks(Cur))
         /\ Len(client.todo) = 1 => Cur = Write(0, <<1>>)
<1>1. PICK p \in Formulas : p = client.job.problem
  BY JobParts
<1>2. PICK todo : todo = client.todo
  OBVIOUS
<1>3. todo \in Seq(Parts(p)) /\ todo # <<>> /\ todo[Len(todo)] = Write(0, <<1>>)
  BY <1>1, <1>2 DEF Loading
<1>4. /\ 1 \in DOMAIN todo /\ Head(todo) = todo[1] /\ todo[1] \in Parts(p)
      /\ Len(todo) \in Nat \ {0}
  BY <1>3
<1>5. Cur = todo[1]
  BY <1>2, <1>4 DEF Cur
<1> QED
  BY <1>1, <1>2, <1>3, <1>4, <1>5, PartsSuit

\* And one that polls or fetches.
LEMMA ReadCur ==
  /\ client.pc = "poll" => Asks(Cur).op = "read" /\ Asks(Cur).adr = 0 /\ Asks(Cur).size = 1
                            /\ ~Asks(Cur).fixed /\ Cur = Read(0, 1)
  /\ client.pc = "fetch" /\ client.todo = <<Read(3, 1)>> =>
        /\ Asks(Cur).op = "read" /\ Asks(Cur).adr = 3 /\ Asks(Cur).size = 1
        /\ ~Asks(Cur).fixed /\ Cur = Read(3, 1)
<1>1. CASE client.pc = "poll"
  BY <1>1, ReadAsks DEF Cur
<1>2. ASSUME client.pc = "fetch", client.todo = <<Read(3, 1)>>
      PROVE  Cur = Read(3, 1)
  BY <1>2 DEF Cur
<1> QED
  BY <1>1, <1>2, ReadAsks

\* A word of the straight-line part lands.
LEMMA LoadWord ==
  ASSUME LinkInv, SolverInv, flashed = "sat", InFlight, client.pc = "load",
         SatClock, Active, bus.we, UNCHANGED client
  PROVE  Written(served + 1, served)'
<1>1. PICK p \in Formulas : p = client.job.problem
  BY BusWord, JobParts DEF Active, SolverInv
<1>2. PICK todo : todo = client.todo
  OBVIOUS
<1>3. PICK adr \in Nat : adr = bus.adr
  BY BusWord DEF Active, SolverInv
<1>4. PICK n \in Nat : n = served
  BY DEF LinkInv
<1>5. /\ runs # 0 /\ client.job \in Jobs /\ Suits(p, request)
      /\ request # None /\ n \in 0 .. request.size - 1
      /\ adr = request.adr + n /\ Target(p, adr, bus.dat)
  BY <1>1, <1>3, <1>4, BusWord DEF Active, SolverInv
<1>6. client' = client /\ served' = n /\ Landed = n
  BY <1>4, LandedClock DEF SatClock
<1>7. Written(n, n)
  BY <1>4, <1>6 DEF InFlight, Stage
<1>8. Loading(p, todo) /\ \A a \in Nat : Pending(todo, n, a) \/ Right(a)
  BY <1>1, <1>2, <1>7 DEF Written
<1>9. /\ 1 \in DOMAIN todo /\ request = Asks(todo[1])
      /\ (Len(todo) = 1 => todo[1] = Write(0, <<1>>))
  BY <1>1, <1>2, <1>5, <1>8, LoadAsks DEF InFlight
<1>10. SatWrite(adr, bus.dat)
  BY <1>3 DEF SatClock
<1>11. /\ \A a \in Nat : a = adr \/ Right(a) => Right(a)'
       /\ adr = 0 => start' = TRUE
  BY <1>1, <1>5, <1>6, <1>10, JobParts, WordSettles DEF SolverInv, IInv
<1>12. ASSUME NEW a \in Nat PROVE Pending(todo, n + 1, a) \/ Right(a)'
  <2>1. CASE Right(a)
    BY <1>11, <2>1
  <2>2. CASE Pending(todo, n, a)
    <3>0. PICK j \in DOMAIN todo : \E i \in 0 .. Asks(todo[j]).size - 1 :
             a = Asks(todo[j]).adr + i /\ (j = 1 => i >= n)
      BY <2>2 DEF Pending
    <3>1. PICK i \in 0 .. Asks(todo[j]).size - 1 :
             a = Asks(todo[j]).adr + i /\ (j = 1 => i >= n)
      BY <3>0
    <3>2. CASE j = 1 /\ i = n
      BY <1>5, <1>9, <1>11, <3>1, <3>2
    <3>3. CASE ~(j = 1 /\ i = n)
      <4>1. i \in Int
        OBVIOUS
      <4>2. j = 1 => i >= n + 1
        BY <3>1, <3>3, <4>1
      <4> QED
        BY <3>1, <4>2 DEF Pending
    <3> QED
      BY <3>2, <3>3
  <2> QED
    BY <1>8, <2>1, <2>2
<1>13. Len(todo) = 1 => n = 0 /\ start' = TRUE
  <2> SUFFICES ASSUME Len(todo) = 1 PROVE n = 0 /\ start' = TRUE
    OBVIOUS
  <2>1. request.adr = 0 /\ request.size = 1
    BY <1>9, StartWord
  <2> QED
    BY <1>5, <1>11, <2>1
<1>14. client'.todo = todo /\ client'.job.problem = p
  BY <1>1, <1>2, <1>6
<1>15. \A a : Pending(client.todo, served + 1, a)' <=> Pending(todo, n + 1, a)
  BY <1>6, <1>14 DEF Pending, Asks
<1>16. Loading(client.job.problem, client.todo)'
  BY <1>8, <1>14 DEF Loading, Parts, SlotWrites
<1> QED
  BY <1>6, <1>12, <1>13, <1>14, <1>15, <1>16 DEF Written

\* Other words and edges of a request keep the program's place, or read a verdict.
LEMMA RequestClock ==
  ASSUME LinkInv, SolverInv, flashed = "sat", client.pc # "idle", InFlight,
         SatClock, UNCHANGED clientVars
  PROVE  InFlight' /\ OutInv'
<1>0. /\ client' = client /\ IInv /\ OutInv /\ JobInv /\ client.pc \in {"load", "poll", "fetch"}
      /\ UNCHANGED <<request, deaf, socket, buf, answer>> /\ Cur' = Cur
      /\ Empty' /\ ~deaf' /\ request' # None /\ request' = Asks(Cur)'
  BY DEF clientVars, SolverInv, ProgramInv, JobInv, SatClock, MasterEdge, Cur, InFlight,
         Empty, Asks
<1>1. client.job \in Jobs
  BY <1>0 DEF InFlight, JobInv
<1>2. Stage(Landed, served) /\ served \in Nat /\ (served = 0 => out = <<>>) /\ request # None
      /\ request = Asks(Cur)
  BY DEF InFlight, LinkInv
<1>3. client.pc = "load" => request.op = "write"
  BY <1>1, <1>2, LoadAsks DEF Stage, Written, Suits
<1>4. client.pc # "load" => /\ request.op = "read" /\ request.size = 1 /\ ~request.fixed
                            /\ request.adr = (IF client.pc = "poll" THEN 0 ELSE 3)
  BY <1>0, <1>2, ReadCur DEF Stage, Fetches
<1>5. /\ bus.stb => /\ request # None /\ served < request.size
                    /\ bus.we <=> request.op = "write"
                    /\ bus.adr = request.adr + (IF request.fixed THEN 0 ELSE served)
  BY Driven
<1>6. SatClock /\ AckEdge /\ MasterEdge(SatRead(bus.adr))
  BY DEF SatClock
<1>7. ~(Active /\ bus.we) => NoWrite
  BY DEF SatClock
<1>8. CASE Active /\ bus.we
  <2>1. client.pc = "load"
    BY <1>0, <1>4, <1>5, <1>8 DEF Active
  <2>2. Written(served + 1, served)'
    BY <1>0, <1>8, <2>1, LoadWord
  <2>3. UNCHANGED <<served, out>> /\ Landed' = served + 1
    BY <1>6, <1>8, LandedClock
  <2>4. Stage(Landed, served)'
    BY <1>0, <2>1, <2>2, <2>3 DEF Stage, Written
  <2> QED
    BY <1>0, <1>2, <2>3, <2>4 DEF InFlight, OutInv
<1>9. CASE Active /\ ~bus.we
  <2>1. client.pc # "load"
    BY <1>3, <1>5, <1>9 DEF Active
  <2>2. UNCHANGED <<served, out>>
    BY <1>6, <1>9, LandedClock
  <2>3. PICK k, land : k = served /\ land = Landed
    OBVIOUS
  <2>4. Stage(land, k)'
    BY <1>0, <1>2, <1>7, <1>9, <2>1, <2>2, <2>3, StageQuiet
  <2>5. Stage(Landed, served)'
    BY <1>0, <2>1, <2>2, <2>3, <2>4 DEF Stage
  <2> QED
    BY <1>0, <1>2, <2>2, <2>5 DEF InFlight, OutInv
<1>10. CASE ~bus.stb
  <2>1. UNCHANGED <<served, out>> /\ Landed' = Landed /\ Landed = served
    <3>1. ~Active /\ UNCHANGED <<served, out>>
      BY <1>6, <1>10 DEF Active, MasterEdge
    <3>2. Landed = served
      BY <1>2, <1>10 DEF Landed
    <3>3. Landed' = Landed
      BY <1>6, <3>1, LandedClock
    <3> QED
      BY <3>1, <3>2, <3>3
  <2>2. PICK k : k = served
    OBVIOUS
  <2>3. Stage(k, k)'
    BY <1>0, <1>2, <1>7, <1>10, <2>1, <2>2, StageQuiet DEF Active
  <2>4. Stage(Landed, served)'
    BY <2>1, <2>2, <2>3
  <2> QED
    BY <1>0, <1>2, <2>1, <2>4 DEF InFlight, OutInv
<1>11. CASE bus.stb /\ ack
  <2>1. PICK n \in Nat : n = served
    BY <1>2
  <2>2. served' = n + 1 /\ Landed = n + 1 /\ Landed' = n + 1
        /\ out' = IF bus.we THEN out ELSE Append(out, SatRead(bus.adr))
    BY <1>6, <1>11, <2>1, LandedClock DEF Active, MasterEdge, Landed
  <2>3. /\ \A a : Right(a)' <=> Right(a)
        /\ start \/ Searching => Searching'
        /\ Searching /\ core.done => core' = core
    BY <1>0, <1>7, <1>11, QuietKeeps DEF Active
  <2>4. SatRead(bus.adr) \in Int
    BY <1>0, SatAssumption DEF SatRead, IInv, CoreTypeOK, Assignments
  <2>5. OutInv'
    BY <1>0, <2>2, <2>4 DEF OutInv
  <2>6. CASE client.pc = "load"
    <3>1. Written(n + 1, n)
      BY <1>2, <2>1, <2>2, <2>6 DEF Stage
    <3>2. Len(client.todo) = 1 => n = 0 /\ start
      <4> SUFFICES ASSUME Len(client.todo) = 1 PROVE n = 0 /\ start
        OBVIOUS
      <4>1. request.size = 1
        BY <1>1, <1>2, <2>6, <3>1, LoadAsks, StartWord DEF Written
      <4>2. n = 0
        BY <1>5, <1>11, <2>1, <4>1
      <4> QED
        BY <3>1, <4>2 DEF Written
    <3>3. \A a : Pending(client.todo, n + 1, a)' <=> Pending(client.todo, n + 1, a)
      BY <1>0 DEF Pending, Asks
    <3>4. Written(n + 1, n + 1)'
      BY <1>0, <2>3, <3>1, <3>2, <3>3 DEF Written, Loading, Parts, SlotWrites
    <3>5. Stage(Landed, served)'
      BY <1>0, <2>2, <2>6, <3>4 DEF Stage
    <3> QED
      BY <1>0, <2>2, <2>5, <3>5 DEF InFlight
  <2>7. CASE client.pc # "load"
    <3>1. n = 0 /\ ~bus.we /\ out = <<>>
          /\ bus.adr = (IF client.pc = "poll" THEN 0 ELSE 3)
      BY <1>2, <1>4, <1>5, <1>11, <2>1, <2>7
    <3>2. out'[1] = SatRead(bus.adr)
      BY <2>2, <3>1
    <3>3. CASE client.pc = "poll"
      <4>1. Polls(n)
        BY <1>2, <2>1, <3>3 DEF Stage
      <4>2. AllRight' /\ Searching'
        BY <2>3, <4>1 DEF AllRight, Polls
      <4>3. out'[1] = (IF core.done THEN 1 ELSE 0) + (IF core.sat THEN 2 ELSE 0)
        BY <3>1, <3>2, <3>3 DEF SatRead
      <4>4. out'[1] % 2 = 1 => core.done
        BY <4>3
      <4>5. out'[1] >= 2 <=> core.sat
        BY <4>3
      <4>6. Truthful(out[1])'
        BY <2>3, <4>1, <4>4, <4>5 DEF Truthful, Polls
      <4>7. Polls(n + 1)'
        BY <4>2, <4>6 DEF Polls
      <4>8. Stage(Landed, served)'
        BY <1>0, <2>2, <3>3, <4>7 DEF Stage
      <4> QED
        BY <1>0, <2>2, <2>5, <4>8 DEF InFlight
    <3>4. CASE client.pc = "fetch"
      <4>1. Fetches(n)
        BY <1>2, <2>1, <3>4 DEF Stage
      <4>2. AllRight' /\ Searching' /\ core' = core
        BY <2>3, <4>1 DEF AllRight, Fetches
      <4>3. out'[1] = core'.model
        BY <3>1, <3>2, <3>4, <4>2 DEF SatRead
      <4>4. Fetches(n + 1)'
        BY <1>0, <4>1, <4>2, <4>3 DEF Fetches
      <4>5. Stage(Landed, served)'
        BY <1>0, <2>2, <3>4, <4>4 DEF Stage
      <4> QED
        BY <1>0, <2>2, <2>5, <4>5 DEF InFlight
    <3> QED
      BY <1>0, <2>7, <3>3, <3>4
  <2> QED
    BY <2>6, <2>7
<1> QED
  BY <1>8, <1>9, <1>10, <1>11 DEF Active

\* The bus rests where nothing is asked.
LEMMA RestClock ==
  ASSUME LinkInv, SatClock, request = None
  PROVE  NoWrite /\ UNCHANGED <<request, deaf, socket, buf, answer, served, out>>
<1>1. bus = Quiet
  BY DEF LinkInv
<1>2. ~bus.stb
  BY <1>1 DEF Quiet
<1> QED
  BY <1>2 DEF SatClock, MasterEdge, Active

\* The clock keeps a program's place.
LEMMA ClockKeeps ==
  ASSUME LinkInv, SolverInv, flashed = "sat", SatClock, UNCHANGED clientVars
  PROVE  Progress' /\ OutInv'
<1>1. /\ client' = client /\ IInv /\ OutInv /\ Progress /\ JobInv
      /\ UNCHANGED <<request, deaf, socket, buf, answer>>
  BY DEF clientVars, SolverInv, ProgramInv, SatClock, MasterEdge
<1>2. CASE client.pc = "idle"
  <2>1. Progress'
    BY <1>1, <1>2 DEF Progress, Still, Empty
  <2>2. SatRead(bus.adr) \in Int
    BY <1>1, SatAssumption DEF SatRead, IInv, CoreTypeOK, Assignments
  <2>3. OutInv'
    BY <1>1, <2>2 DEF OutInv, SatClock, MasterEdge
  <2> QED
    BY <2>1, <2>3
<1>3. CASE client.pc # "idle" /\ InFlight
  BY <1>1, <1>3, RequestClock DEF Progress
<1>4. CASE client.pc # "idle" /\ request = None
  <2>1. NoWrite /\ UNCHANGED <<served, out>>
    BY <1>4, RestClock
  <2>2. OutInv'
    BY <1>1, <2>1 DEF OutInv
  <2>3. CASE Waiting
    <3>1. Stage(0, 0)'
      BY <1>1, <2>1, <2>3, StageQuiet DEF Waiting
    <3> QED
      BY <1>1, <1>4, <2>2, <2>3, <3>1 DEF Waiting, Empty, Progress
  <2>4. \A ok : Answered(ok)' <=> Answered(ok)
    BY <1>1, <2>1, Zenon DEF Answered, Arrived, Arriving, Reply
  <2>5. CASE Answered(TRUE) /\ Stage(Asks(Cur).size, Asks(Cur).size)
    <3>1. PICK k : k = Asks(Cur).size
      OBVIOUS
    <3>2. client.pc = "load" => k # 0
      <4> SUFFICES ASSUME client.pc = "load" PROVE k # 0
        OBVIOUS
      <4>1. client.job \in Jobs
        BY <1>1, <1>4 DEF JobInv
      <4>2. Suits(client.job.problem, Asks(Cur))
        BY <2>5, <4>1, LoadAsks DEF Stage, Written
      <4> QED
        BY <3>1, <4>2 DEF Suits
    <3>3. Stage(k, k)'
      BY <1>1, <2>1, <2>5, <3>1, <3>2, StageQuiet
    <3>4. Asks(Cur)'.size = k
      BY <1>1, <3>1 DEF Cur, Asks
    <3> QED
      BY <1>1, <1>4, <2>2, <2>4, <2>5, <3>3, <3>4 DEF Progress
  <2>6. CASE Answered(FALSE)
    BY <1>1, <1>4, <2>2, <2>4, <2>6 DEF Progress
  <2> QED
    BY <1>1, <1>3, <1>4, <2>3, <2>5, <2>6, <2>2, RequestClock DEF Progress
<1> QED
  BY <1>1, <1>2, <1>3, <1>4 DEF Progress, Waiting, Answered

-----------------------------------------------------------------------------
(* The bridge and the programs.                                             *)

\* A response is that of the request, and what arrives of it is a piece.
LEMMA BridgeKeeps ==
  ASSUME LinkInv, SolverInv, flashed = "sat", Bridge, UNCHANGED satVars
  PROVE  Progress' /\ OutInv'
<1>1. /\ client' = client /\ OutInv /\ Progress /\ UNCHANGED <<served, out, bus, ack>>
      /\ UNCHANGED deaf
  BY DEF Bridge, clientVars, SolverInv, ProgramInv, BridgeResponds, BridgeRejects, Respond,
         Receive
<1>2. OutInv'
  BY <1>1 DEF OutInv
<1>3. \A land, k : Stage(land, k) => Stage(land, k)'
  <2> SUFFICES ASSUME NEW land, NEW k, Stage(land, k) PROVE Stage(land, k)'
    OBVIOUS
  <2>1. \A a : Right(a)' <=> Right(a)
    BY <1>1, Zenon DEF Right, satVars
  <2>2. \A a : Pending(client.todo, land, a)' <=> Pending(client.todo, land, a)
    BY <1>1 DEF Pending, Asks
  <2>3. UNCHANGED <<client, out, start, intact, core>>
    BY <1>1 DEF satVars
  <2>4. Written(land, k) => Written(land, k)'
    BY <2>1, <2>2, <2>3 DEF Written, Loading, Parts, SlotWrites, Searching
  <2>5. Polls(k) => Polls(k)'
    BY <2>1, <2>3 DEF Polls, AllRight, Searching, Truthful
  <2>6. Fetches(k) => Fetches(k)'
    BY <2>1, <2>3 DEF Fetches, AllRight, Searching
  <2> QED
    BY <2>3, <2>4, <2>5, <2>6 DEF Stage
<1>4. ASSUME NEW ok \in BOOLEAN, Respond(Reply(ok)),
             ok => served = request.size, client.pc # "idle"
      PROVE  Progress'
  <2>1. InFlight /\ request' = None /\ ~bus.stb /\ socket' = Reply(ok)
        /\ UNCHANGED <<buf, answer>>
    BY <1>1, <1>4 DEF Progress, Waiting, Answered, Respond, InFlight
  <2>2. Answered(ok)'
    BY <1>1, <2>1, ReplySent DEF InFlight, Empty
  <2>3. CASE ok
    <3>1. Landed = served
      BY <2>1 DEF Landed, LinkInv
    <3>2. PICK k : k = Asks(Cur).size
      OBVIOUS
    <3>3. Stage(k, k)'
      BY <1>3, <1>4, <2>1, <2>3, <3>1, <3>2 DEF InFlight
    <3>4. Asks(Cur)'.size = k
      BY <1>1, <3>2 DEF Cur, Asks
    <3> QED
      BY <1>1, <1>4, <2>2, <2>3, <3>3, <3>4 DEF Progress
  <2>4. CASE ~ok
    BY <1>1, <1>4, <2>2, <2>4 DEF Progress
  <2> QED
    BY <2>3, <2>4
<1>5. CASE client.pc = "idle"
  <2>1. Still
    BY <1>1, <1>5 DEF Progress
  <2>2. Still'
    <3>1. CASE BridgeResponds \/ BridgeRejects
      BY <1>1, <2>1, <3>1 DEF Still, Empty, BridgeResponds, BridgeRejects, Respond
    <3>2. ASSUME NEW n \in 1 .. Len(socket) PROVE FALSE
      BY <2>1, <3>2 DEF Still, Empty
    <3> QED
      BY <3>1, <3>2 DEF Bridge
  <2> QED
    BY <1>1, <1>2, <1>5, <2>2 DEF Progress
<1>6. CASE client.pc # "idle" /\ BridgeResponds
  <2>1. Respond(Reply(TRUE)) /\ served = request.size
    BY <1>6 DEF BridgeResponds, Reply
  <2> QED
    BY <1>2, <1>4, <1>6, <2>1
<1>7. CASE client.pc # "idle" /\ BridgeRejects
  <2>1. Respond(Reply(FALSE))
    BY <1>7 DEF BridgeRejects, Reply
  <2> QED
    BY <1>2, <1>4, <1>7, <2>1
<1>8. ASSUME client.pc # "idle", NEW n \in 1 .. Len(socket), Receive(n)
      PROVE  Progress'
  <2>1. socket # <<>>
    BY <1>8
  <2>2. CASE Answered(TRUE) /\ Stage(Asks(Cur).size, Asks(Cur).size)
    <3>1. PICK k : k = Asks(Cur).size
      OBVIOUS
    <3>2. Stage(k, k)' /\ Asks(Cur)'.size = k
      BY <1>1, <1>3, <2>2, <3>1 DEF Cur, Asks
    <3>3. Answered(TRUE)'
      BY <1>1, <1>8, <2>2, ReceiveKeeps
    <3> QED
      BY <1>1, <1>8, <3>2, <3>3 DEF Progress
  <2>3. CASE Answered(FALSE)
    <3>1. Answered(FALSE)'
      BY <1>1, <1>8, <2>3, ReceiveKeeps
    <3> QED
      BY <1>1, <1>8, <3>1 DEF Progress
  <2> QED
    BY <1>1, <1>8, <2>1, <2>2, <2>3 DEF Progress, Waiting, InFlight, Empty
<1> QED
  BY <1>2, <1>5, <1>6, <1>7, <1>8 DEF Bridge

\* A verdict that a program can read is the truth about its formula.
LEMMA ReadRight ==
  ASSUME IInv, client.job \in Jobs, AllRight, Searching, core.done
  PROVE  IF core.sat
           THEN Holds(client.job.problem, [i \in 1 .. client.job.problem.n |-> Bit(core.model, i)])
           ELSE \A v \in Valuations(client.job.problem) : ~Holds(client.job.problem, v)
<1>1. PICK p, kind : p = client.job.problem /\ kind = client.job.kind
  OBVIOUS
<1>2. p \in Formulas /\ (kind = "sdk" => p \in Shipped)
  BY <1>1, JobParts
<1>3. n_vars = p.n /\ n_clauses = Len(p.clauses)
  <2>1. 1 \in Nat /\ 2 \in Nat
    OBVIOUS
  <2>2. Right(1) /\ Right(2)
    BY <2>1 DEF AllRight
  <2> QED
    BY <1>1, <2>2 DEF Right
<1>4. ASSUME NEW s \in Slots PROVE lits[s] \in Fine(p, kind, s)
  <2>1. PICK a \in Nat : a - LIT_BASE = s
    <3>1. LIT_BASE + s \in Nat /\ (LIT_BASE + s) - LIT_BASE = s
      BY SlotsAre, BlockSize DEF LIT_BASE
    <3> QED
      BY <3>1
  <2>2. Right(a)
    BY DEF AllRight
  <2> QED
    BY <1>1, <2>1, <2>2 DEF Right
<1> QED
  BY <1>1, <1>2, <1>3, <1>4, FoundRight DEF IInv, Searching

\* Between a program's own steps the board is as it was.
LEMMA Untouched ==
  ASSUME UNCHANGED satVars, client'.job = client.job
  PROVE  /\ \A a : Right(a)' <=> Right(a)
         /\ AllRight => AllRight'
         /\ Searching => Searching'
         /\ UNCHANGED <<core, start, intact>>
<1>1. \A a : Right(a)' <=> Right(a)
  BY Zenon DEF Right, satVars
<1> QED
  BY <1>1 DEF AllRight, Searching, satVars

\* A program that has ended without a verdict, or with a true one.
LEMMA EndKeeps ==
  ASSUME LinkInv, SolverInv, flashed = "sat", UNCHANGED satVars,
         UNCHANGED <<flashed, request, runs, out>>,
         client'.pc = "idle", client'.job = client.job, runs # 0, Still', VerdictRight'
  PROVE  ProgramInv' /\ VerdictRight'
<1>1. JobInv' /\ RequestInv'
  BY DEF SolverInv, ProgramInv, JobInv, RequestInv, Parts, SlotWrites, Asks
<1>2. OldInv' /\ OutInv'
  BY DEF SolverInv, ProgramInv, OldInv, OutInv, satVars, Leftover
<1>3. Progress'
  BY DEF Progress
<1> QED
  BY <1>1, <1>2, <1>3 DEF ProgramInv

\* A program that goes on with the same job, all that it waited for being there.
LEMMA OnwardKeeps ==
  ASSUME LinkInv, SolverInv, flashed = "sat", UNCHANGED satVars,
         UNCHANGED <<flashed, request, runs, out>>,
         client'.pc \in {"load", "poll", "fetch"}, client'.job = client.job, runs # 0, Waiting'
  PROVE  ProgramInv' /\ VerdictRight'
<1>1. JobInv' /\ RequestInv'
  BY DEF SolverInv, ProgramInv, JobInv, RequestInv, Parts, SlotWrites, Asks
<1>2. OldInv' /\ OutInv'
  BY DEF SolverInv, ProgramInv, OldInv, OutInv, satVars, Leftover
<1>3. Progress' /\ VerdictRight'
  BY DEF Progress, VerdictRight
<1> QED
  BY <1>1, <1>2, <1>3 DEF ProgramInv

\* Where a program is when its answer is there.
LEMMA AnswerStage ==
  ASSUME SolverInv, flashed = "sat", answer # None
  PROVE  /\ client.pc # "idle" /\ runs # 0 /\ client.job \in Jobs
         /\ request = None /\ socket = <<>> /\ buf = <<>>
         /\ answer.ok => answer.data = out /\ Stage(Asks(Cur).size, Asks(Cur).size)
<1>1. Progress /\ OutInv /\ JobInv
  BY DEF SolverInv, ProgramInv
<1>2. client.pc # "idle"
  BY <1>1 DEF Progress, Still, Empty
<1>3. runs # 0 /\ client.job \in Jobs
  BY <1>1, <1>2 DEF JobInv
<1>4. CASE Answered(TRUE) /\ Stage(Asks(Cur).size, Asks(Cur).size)
  <2>1. request = None /\ Arrived(TRUE) /\ answer.data = out
    BY <1>1, <1>4, AnswerThere DEF Answered
  <2> QED
    BY <1>2, <1>3, <1>4, <2>1 DEF Arrived
<1>5. CASE Answered(FALSE)
  <2>1. request = None /\ Arrived(FALSE) /\ answer.ok = FALSE
    BY <1>1, <1>5, AnswerThere DEF Answered
  <2> QED
    BY <1>2, <1>3, <2>1 DEF Arrived
<1> QED
  BY <1>1, <1>2, <1>4, <1>5 DEF Progress, Waiting, InFlight, Empty

\* A program sends its next request.
LEMMA SendKeeps ==
  ASSUME LinkInv, SolverInv, flashed = "sat", UNCHANGED satVars, UNCHANGED flashed, Send
  PROVE  ProgramInv' /\ VerdictRight'
<1>1. /\ Progress /\ OutInv /\ JobInv /\ client.pc # "idle" /\ LinkIdle
      /\ client' = client /\ runs' = runs
  BY DEF SolverInv, ProgramInv, Send, transact, clientVars
<1>2. runs # 0 /\ client.job \in Jobs
  BY <1>1 DEF JobInv
<1>3. Waiting
  <2>1. \A ok \in BOOLEAN : ~Answered(ok)
    BY <1>1, AnswerThere DEF LinkIdle
  <2> QED
    BY <1>1, <2>1 DEF Progress, InFlight, LinkIdle
<1>4. /\ request' = Asks(Cur) /\ served' = 0 /\ out' = <<>> /\ deaf' = FALSE
      /\ UNCHANGED <<socket, buf, answer, bus, ack>>
  BY DEF Send, transact, Cur, Asks
<1>5. Landed' = 0
  <2>1. bus = Quiet /\ ~bus.stb
    BY <1>3 DEF Waiting, LinkInv, Quiet
  <2> QED
    BY <1>4, <2>1 DEF Landed
<1>6. Stage(0, 0)'
  <2>1. client' = client /\ client'.job = client.job
    BY <1>1
  <2>2. /\ \A a : Right(a)' <=> Right(a)
        /\ (AllRight => AllRight') /\ (Searching => Searching') /\ core' = core
    BY <2>1, Untouched
  <2>3. \A a : Pending(client.todo, 0, a)' <=> Pending(client.todo, 0, a)
    BY <2>1 DEF Pending, Asks
  <2>4. Written(0, 0) => Written(0, 0)'
    BY <2>1, <2>2, <2>3 DEF Written, Loading, Parts, SlotWrites
  <2>5. (Polls(0) => Polls(0)') /\ (Fetches(0) => Fetches(0)')
    BY <2>1, <2>2 DEF Polls, Fetches
  <2> QED
    BY <1>3, <2>1, <2>4, <2>5 DEF Waiting, Stage
<1>7. Cur' = Cur /\ Asks(Cur)' = Asks(Cur)
  BY <1>1 DEF Cur, Asks
<1>8. Progress'
  <2>1. CASE request' = None
    BY <1>1, <1>3, <1>4, <1>6, <2>1 DEF Progress, Waiting, Empty
  <2>2. CASE request' # None
    <3>1. InFlight'
      BY <1>3, <1>4, <1>5, <1>6, <1>7, <2>2 DEF InFlight, Waiting, Empty
    <3> QED
      BY <1>1, <3>1 DEF Progress
  <2> QED
    BY <2>1, <2>2
<1>9. RequestInv'
  <2>1. Cur \in Parts(client.job.problem) \cup {Read(0, 1), Read(3, 1)}
    <3>1. CASE client.pc = "load"
      BY <1>2, <1>3, <3>1, LoadAsks DEF Waiting, Stage, Written
    <3>2. CASE client.pc = "poll"
      BY <3>2, ReadCur
    <3>3. CASE client.pc = "fetch"
      BY <1>3, <3>3, ReadCur DEF Waiting, Stage, Fetches
    <3> QED
      BY <1>1, <3>1, <3>2, <3>3 DEF JobInv
  <2>2. Parts(client.job.problem)' = Parts(client.job.problem)
    BY <1>1 DEF Parts, SlotWrites
  <2>3. \A r : Asks(r)' = Asks(r)
    BY DEF Asks
  <2> QED
    BY <1>4, <2>1, <2>2, <2>3 DEF RequestInv
<1>10. JobInv' /\ OldInv' /\ OutInv'
  BY <1>1, <1>2, <1>4 DEF JobInv, SolverInv, ProgramInv, OldInv, satVars, OutInv, Leftover
<1>11. VerdictRight'
  BY <1>1 DEF VerdictRight
<1> QED
  BY <1>8, <1>9, <1>10, <1>11 DEF ProgramInv

\* A program begins: whatever its requests will not write is right already.
LEMMA BeginKeeps ==
  ASSUME SolverInv, flashed = "sat", UNCHANGED satVars, UNCHANGED <<flashed, request, out>>,
         request = None, Empty', runs' \in Nat \ {0},
         NEW job \in Jobs, NEW todo, client'.pc = "load", client'.job = job, client'.todo = todo,
         Loading(job.problem, todo), \A adr \in {1, 2} : Pending(todo, 0, adr),
         \A s \in Slots : \/ Pending(todo, 0, LIT_BASE + s)
                          \/ lits[s] \in Fine(job.problem, job.kind, s),
         job.kind = "sdk" => \A s \in Slots : lits[s] \in Leftover(s)
  PROVE  ProgramInv' /\ VerdictRight'
<1>1. JobInv' /\ RequestInv'
  BY DEF JobInv, RequestInv, Jobs
<1>2. OldInv' /\ OutInv'
  BY DEF SolverInv, ProgramInv, OldInv, OutInv, satVars, Leftover
<1>3. lits' = lits
  BY DEF satVars
<1>4. ASSUME NEW adr \in Nat PROVE Pending(todo, 0, adr) \/ Right(adr)'
  <2>1. CASE adr \in {1, 2}
    BY <2>1
  <2>2. ASSUME NEW s \in Slots, adr - LIT_BASE = s PROVE Pending(todo, 0, adr) \/ Right(adr)'
    <3>1. adr = LIT_BASE + s /\ adr \notin {1, 2}
      BY <2>2, SlotsAre, BlockSize DEF LIT_BASE
    <3>2. lits[s] \in Fine(job.problem, job.kind, s) => Right(adr)'
      BY <1>3, <2>2, <3>1, Zenon DEF Right
    <3> QED
      BY <3>1, <3>2
  <2>3. CASE adr \notin {1, 2} /\ adr - LIT_BASE \notin Slots
    BY <2>3, Zenon DEF Right
  <2> QED
    BY <2>1, <2>2, <2>3
<1>5. Written(0, 0)'
  <2>1. \A a : Pending(client.todo, 0, a)' <=> Pending(todo, 0, a)
    BY DEF Pending, Asks
  <2>2. Loading(client.job.problem, client.todo)'
    BY DEF Loading, Parts, SlotWrites
  <2> QED
    BY <1>4, <2>1, <2>2 DEF Written
<1>6. Waiting'
  BY <1>5 DEF Waiting, Stage
<1>7. Progress' /\ VerdictRight'
  BY <1>6 DEF Progress, VerdictRight
<1> QED
  BY <1>1, <1>2, <1>7 DEF ProgramInv

\* A program starts, or the SDK program goes on to its second formula.
LEMMA BeginsKeep ==
  ASSUME SolverInv, flashed = "sat", UNCHANGED satVars, UNCHANGED flashed,
         SatBegin \/ SdkBegin \/ SdkNext
  PROVE  ProgramInv' /\ VerdictRight'
<1>0. JobInv /\ OldInv /\ Progress
  BY DEF SolverInv, ProgramInv
<1>1. ASSUME NEW p \in Formulas, p \in Shipped, \A s \in Slots : lits[s] \in Leftover(s)
      PROVE  /\ Loading(p, sdk_solve(p)) /\ \A adr \in {1, 2} : Pending(sdk_solve(p), 0, adr)
             /\ \A s \in Slots : \/ Pending(sdk_solve(p), 0, LIT_BASE + s)
                                 \/ lits[s] \in Fine(p, "sdk", s)
  BY <1>1, SdkWrites DEF Fine
<1>2. SdkProblems \in Seq(Shipped) /\ SdkProblems # <<>>
  BY ProblemAssumption DEF Shipped
<1>3. CASE SatBegin
  <2>1. PICK p, job :
          /\ p \in Problems /\ Begin(job, solve(p))
          /\ job = [kind |-> "solve", problem |-> p, next |-> <<>>]
    BY <1>3 DEF SatBegin
  <2>2. /\ client.pc = "idle" /\ LinkIdle /\ runs' = runs + 1
        /\ client'.pc = "load" /\ client'.job = job /\ client'.todo = solve(p)
        /\ UNCHANGED linkVars
    BY <2>1 DEF Begin
  <2>3. Empty' /\ request = None /\ UNCHANGED <<request, out>> /\ runs' \in Nat \ {0}
    BY <1>0, <2>2 DEF Progress, Still, Empty, LinkIdle, linkVars, JobInv
  <2>4. job \in Jobs /\ p \in Formulas /\ job.problem = p /\ job.kind # "sdk"
    BY <2>1 DEF Jobs, Formulas
  <2> QED
    BY <2>2, <2>3, <2>4, SolveWrites, BeginKeeps
<1>4. CASE SdkBegin
  <2>1. PICK p, job :
          /\ p = Head(SdkProblems)
          /\ job = [kind |-> "sdk", problem |-> p, next |-> Tail(SdkProblems)]
    OBVIOUS
  <2>2. /\ client.pc = "idle" /\ LinkIdle /\ runs' = runs + 1 /\ runs = 0
        /\ client'.pc = "load" /\ client'.job = job /\ client'.todo = sdk_solve(p)
        /\ UNCHANGED linkVars
    BY <1>4, <2>1 DEF SdkBegin, Begin
  <2>3. Empty' /\ request = None /\ UNCHANGED <<request, out>> /\ runs' \in Nat \ {0}
    BY <1>0, <2>2 DEF Progress, Still, Empty, LinkIdle, linkVars, JobInv
  <2>4. p \in Shipped /\ Tail(SdkProblems) \in Seq(Shipped)
    <3>1. PICK S : S = Shipped
      OBVIOUS
    <3> QED
      BY <1>2, <2>1, <3>1
  <2>5. job \in Jobs /\ p \in Formulas /\ job.problem = p /\ job.kind = "sdk"
    BY <2>1, <2>4 DEF Jobs, Formulas
  <2>6. \A s \in Slots : lits[s] \in Leftover(s)
    BY <1>0, <2>2 DEF OldInv
  <2>7. /\ Loading(p, sdk_solve(p)) /\ \A adr \in {1, 2} : Pending(sdk_solve(p), 0, adr)
        /\ \A s \in Slots : \/ Pending(sdk_solve(p), 0, LIT_BASE + s)
                            \/ lits[s] \in Fine(p, "sdk", s)
    BY <1>1, <2>4, <2>5, <2>6
  <2> QED
    BY <2>2, <2>3, <2>5, <2>6, <2>7, BeginKeeps
<1>5. CASE SdkNext
  <2>1. PICK p, job :
          /\ p = Head(client.job.next)
          /\ job = [kind |-> "sdk", problem |-> p, next |-> Tail(client.job.next)]
    OBVIOUS
  <2>2. /\ client.pc = "idle" /\ client.outcome \in {"sat", "unsat"} /\ client.job.next # <<>>
        /\ client'.pc = "load" /\ client'.job = job /\ client'.todo = sdk_solve(p)
        /\ UNCHANGED linkVars /\ runs' = runs
    BY <1>5, <2>1 DEF SdkNext
  <2>3. Empty' /\ request = None /\ UNCHANGED <<request, out>>
    BY <1>0, <2>2 DEF Progress, Still, Empty, linkVars
  <2>4. runs # 0 /\ runs' \in Nat \ {0} /\ client.job \in Jobs
    BY <1>0, <2>2 DEF JobInv
  <2>5. client.job.kind = "sdk" /\ client.job.next \in Seq(Shipped)
    BY <2>2, <2>4, JobParts
  <2>6. p \in Shipped /\ Tail(client.job.next) \in Seq(Shipped)
    <3>1. PICK S, next : S = Shipped /\ next = client.job.next
      OBVIOUS
    <3> QED
      BY <2>1, <2>2, <2>5, <3>1
  <2>7. job \in Jobs /\ p \in Formulas /\ job.problem = p /\ job.kind = "sdk"
    BY <2>1, <2>6 DEF Jobs, Formulas
  <2>8. \A s \in Slots : lits[s] \in Leftover(s)
    BY <1>0, <2>5 DEF OldInv
  <2>9. /\ Loading(p, sdk_solve(p)) /\ \A adr \in {1, 2} : Pending(sdk_solve(p), 0, adr)
        /\ \A s \in Slots : \/ Pending(sdk_solve(p), 0, LIT_BASE + s)
                            \/ lits[s] \in Fine(p, "sdk", s)
    BY <1>1, <2>6, <2>7, <2>8
  <2> QED
    BY <2>2, <2>3, <2>4, <2>7, <2>8, <2>9, BeginKeeps
<1> QED
  BY <1>3, <1>4, <1>5

\* Programs that end early say nothing.
LEMMA EndsKeep ==
  ASSUME LinkInv, ClientInv, SolverInv, flashed = "sat", UNCHANGED satVars, UNCHANGED flashed,
         Failed \/ Disconnect
  PROVE  ProgramInv' /\ VerdictRight'
<1>1. CASE Failed
  <2>1. /\ answer # None /\ client' = Ended("failed", None) /\ answer' = None
        /\ UNCHANGED <<request, out, deaf, socket, buf, runs>>
    BY <1>1 DEF Failed, Consume
  <2>2. runs # 0 /\ request = None /\ socket = <<>> /\ buf = <<>>
    BY <2>1, AnswerStage
  <2>3. client'.pc = "idle" /\ client'.job = client.job /\ client'.outcome = "failed"
    BY <2>1 DEF Ended, ClientInv
  <2>4. Still' /\ VerdictRight'
    BY <2>1, <2>2, <2>3 DEF Still, Empty, VerdictRight
  <2> QED
    BY <2>1, <2>2, <2>3, <2>4, EndKeeps
<1>2. CASE Disconnect
  <2>1. /\ client.pc # "idle" /\ client' = Ended("lost", None) /\ answer' = None
        /\ socket' = <<>> /\ buf' = <<>> /\ deaf' = (request # None)
        /\ UNCHANGED <<request, out, runs>>
    BY <1>2 DEF Disconnect, HangUp
  <2>2. runs # 0
    BY <2>1 DEF SolverInv, ProgramInv, JobInv
  <2>3. client'.pc = "idle" /\ client'.job = client.job /\ client'.outcome = "lost"
    BY <2>1 DEF Ended, ClientInv
  <2>4. Still' /\ VerdictRight'
    BY <2>1, <2>3 DEF Still, Empty, VerdictRight
  <2> QED
    BY <2>1, <2>2, <2>3, <2>4, EndKeeps
<1> QED
  BY <1>1, <1>2

\* A request of the straight-line part is answered: on to the next, or to the polling.
LEMMA LoadedKeeps ==
  ASSUME LinkInv, ClientInv, SolverInv, flashed = "sat", UNCHANGED satVars, UNCHANGED flashed,
         Loaded("poll")
  PROVE  ProgramInv' /\ VerdictRight'
<1>1. /\ client.pc = "load" /\ answer # None /\ answer.ok /\ answer' = None
      /\ UNCHANGED <<request, out, deaf, socket, buf, runs>>
  BY DEF Loaded, Consume
<1>2. /\ runs # 0 /\ client.job \in Jobs /\ request = None /\ socket = <<>> /\ buf = <<>>
      /\ Stage(Asks(Cur).size, Asks(Cur).size)
  BY <1>1, AnswerStage
<1>3. PICK k, p, todo : k = Asks(Cur).size /\ p = client.job.problem /\ todo = client.todo
  OBVIOUS
<1>4. Written(k, k)
  BY <1>1, <1>2, <1>3 DEF Stage
<1>5. /\ Loading(p, todo) /\ \A adr \in Nat : Pending(todo, k, adr) \/ Right(adr)
      /\ Len(todo) = 1 /\ k > 0 => k = 0 \/ Searching
  BY <1>3, <1>4 DEF Written
<1>6. /\ 1 \in DOMAIN todo /\ Cur = todo[1] /\ k \in Nat \ {0} /\ Len(todo) \in Nat \ {0}
  <2>1. Loading(client.job.problem, client.todo)
    BY <1>3, <1>5
  <2>2. Suits(client.job.problem, Asks(Cur))
    BY <1>1, <1>2, <2>1, LoadAsks
  <2> QED
    BY <1>1, <1>2, <1>3, <2>1, <2>2, LoadAsks DEF Suits
<1>7. \A i \in 0 .. Asks(todo[1]).size - 1 : ~(i >= k)
  BY <1>3, <1>6
<1>8. CASE Len(client.todo) > 1
  <2>1. PICK rest : rest = Tail(todo)
    OBVIOUS
  <2>2. client' = [client EXCEPT !.todo = rest]
    BY <1>3, <1>8, <2>1 DEF Loaded
  <2>3. client'.pc = "load" /\ client'.job = client.job /\ client'.todo = rest
    BY <1>1, <2>2 DEF ClientInv
  <2>4. PICK S : S = Parts(p)
    OBVIOUS
  <2>5. todo \in Seq(S) /\ todo # <<>> /\ todo[Len(todo)] = Write(0, <<1>>)
    BY <1>5, <2>4 DEF Loading
  <2>6. /\ rest \in Seq(S) /\ Len(rest) = Len(todo) - 1 /\ Len(rest) \in Nat \ {0}
        /\ \A j \in 1 .. Len(rest) : rest[j] = todo[j + 1]
    BY <1>3, <1>8, <2>1, <2>5
  <2>7. rest # <<>> /\ rest[Len(rest)] = Write(0, <<1>>)
    BY <2>5, <2>6
  <2>8. ASSUME NEW adr \in Nat, Pending(todo, k, adr) PROVE Pending(rest, 0, adr)
    <3>1. PICK j \in DOMAIN todo : \E i \in 0 .. Asks(todo[j]).size - 1 :
             adr = Asks(todo[j]).adr + i /\ (j = 1 => i >= k)
      BY <2>8 DEF Pending
    <3>2. j # 1
      BY <1>7, <3>1
    <3>3. PICK l \in DOMAIN rest : j = l + 1
      <4>1. j - 1 \in 1 .. Len(rest) /\ j = (j - 1) + 1
        BY <2>5, <2>6, <3>2
      <4> QED
        BY <2>6, <4>1
    <3>4. rest[l] = todo[j]
      BY <2>6, <3>3
    <3>5. PICK i \in 0 .. Asks(rest[l]).size - 1 : adr = Asks(rest[l]).adr + i
      BY <3>1, <3>4
    <3>6. i >= 0
      BY <3>5
    <3> QED
      BY <3>5, <3>6 DEF Pending
  <2>9. \A a : Right(a)' <=> Right(a)
    BY <2>3, Untouched
  <2>10. \A a : Pending(client.todo, 0, a)' <=> Pending(rest, 0, a)
    BY <2>3 DEF Pending, Asks
  <2>11. Loading(client.job.problem, client.todo)'
    BY <1>3, <2>3, <2>4, <2>6, <2>7 DEF Loading, Parts, SlotWrites
  <2>12. Written(0, 0)'
    BY <1>5, <2>8, <2>9, <2>10, <2>11 DEF Written
  <2>13. Waiting'
    BY <1>1, <1>2, <2>3, <2>12 DEF Waiting, Stage, Empty
  <2> QED
    BY <1>1, <1>2, <2>3, <2>13, OnwardKeeps
<1>9. CASE ~(Len(client.todo) > 1)
  <2>1. client'.pc = "poll" /\ client'.job = client.job
    BY <1>9 DEF Loaded, Onward, ClientInv
  <2>2. Len(todo) = 1
    <3>1. Len(todo) \in Nat \ {0} /\ ~(Len(todo) > 1)
      BY <1>3, <1>6, <1>9
    <3>2. \A n \in Nat \ {0} : ~(n > 1) => n = 1
      OBVIOUS
    <3> QED
      BY <3>1, <3>2, Zenon
  <2>3. ASSUME NEW adr \in Nat PROVE Right(adr)
    <3> SUFFICES ~Pending(todo, k, adr)
      BY <1>5
    <3>1. \A j \in DOMAIN todo : j = 1
      BY <1>5, <2>2 DEF Loading
    <3> QED
      BY <1>7, <3>1 DEF Pending
  <2>4. AllRight /\ Searching
    BY <1>5, <1>6, <2>2, <2>3 DEF AllRight
  <2>5. AllRight' /\ Searching'
    BY <2>1, <2>4, Untouched
  <2>6. Polls(0)'
    BY <2>5 DEF Polls
  <2>7. Waiting'
    BY <1>1, <1>2, <2>1, <2>6 DEF Waiting, Stage, Empty
  <2> QED
    BY <1>1, <1>2, <2>1, <2>7, OnwardKeeps
<1> QED
  BY <1>8, <1>9

\* The control word was read: a verdict is the truth, and a model is the next thing to read.
LEMMA PolledKeeps ==
  ASSUME LinkInv, ClientInv, SolverInv, flashed = "sat", UNCHANGED satVars, UNCHANGED flashed,
         SatPolled
  PROVE  ProgramInv' /\ VerdictRight'
<1>1. PICK w, sat : w = answer.data[1] /\ sat = (w >= 2)
  OBVIOUS
<1>2. PICK limited : limited = (client.job.kind = "solve")
  OBVIOUS
<1>3. Polled(limited, IF sat THEN "fetch" ELSE "idle", <<Read(3, 1)>>, "unsat", None)
  BY <1>1, <1>2, Zenon DEF SatPolled
<1>4. /\ client.pc = "poll" /\ answer # None /\ answer.ok /\ answer' = None
      /\ UNCHANGED <<request, out, deaf, socket, buf, runs>>
  BY <1>3 DEF Polled, Consume
<1>5. /\ runs # 0 /\ client.job \in Jobs /\ request = None /\ socket = <<>> /\ buf = <<>>
      /\ answer.data = out /\ Stage(Asks(Cur).size, Asks(Cur).size)
  BY <1>4, AnswerStage
<1>6. Polls(1)
  BY <1>4, <1>5, ReadCur DEF Stage
<1>7. AllRight /\ Searching /\ Truthful(w)
  BY <1>1, <1>5, <1>6 DEF Polls
<1>8. CASE w % 2 = 1 /\ sat
  <2>1. client' = [client EXCEPT !.pc = "fetch", !.todo = <<Read(3, 1)>>]
    BY <1>1, <1>3, <1>8 DEF Polled, Onward
  <2>2. client'.pc = "fetch" /\ client'.job = client.job /\ client'.todo = <<Read(3, 1)>>
    BY <2>1 DEF ClientInv
  <2>3. core.done /\ core.sat
    BY <1>1, <1>7, <1>8 DEF Truthful
  <2>4. AllRight' /\ Searching' /\ core' = core
    BY <1>7, <2>2, Untouched
  <2>5. Fetches(0)'
    BY <2>2, <2>3, <2>4 DEF Fetches, Read
  <2>6. Waiting'
    BY <1>4, <1>5, <2>2, <2>5 DEF Waiting, Stage, Empty
  <2> QED
    BY <1>4, <1>5, <2>2, <2>6, OnwardKeeps
<1>9. CASE w % 2 = 1 /\ ~sat
  <2>1. client' = Ended("unsat", None)
    BY <1>1, <1>3, <1>9 DEF Polled, Onward
  <2>2. /\ client'.pc = "idle" /\ client'.job = client.job /\ client'.outcome = "unsat"
    BY <2>1 DEF Ended, ClientInv
  <2>3. core.done /\ ~core.sat
    BY <1>1, <1>7, <1>9 DEF Truthful
  <2>4. \A v \in Valuations(client.job.problem) : ~Holds(client.job.problem, v)
    BY <1>5, <1>7, <2>3, ReadRight DEF SolverInv
  <2>5. VerdictRight'
    BY <2>2, <2>4 DEF VerdictRight, Valuations, Holds
  <2>6. Still'
    BY <1>4, <1>5 DEF Still, Empty
  <2> QED
    BY <1>4, <1>5, <2>2, <2>5, <2>6, EndKeeps
<1>10. CASE ~(w % 2 = 1) /\ limited /\ client.polls + 1 = POLL_LIMIT
  <2>1. client' = Ended("timeout", None)
    BY <1>1, <1>3, <1>10 DEF Polled
  <2>2. /\ client'.pc = "idle" /\ client'.job = client.job /\ client'.outcome = "timeout"
    BY <2>1 DEF Ended, ClientInv
  <2>3. Still' /\ VerdictRight'
    BY <1>4, <1>5, <2>2 DEF Still, Empty, VerdictRight
  <2> QED
    BY <1>4, <1>5, <2>2, <2>3, EndKeeps
<1>11. CASE ~(w % 2 = 1) /\ ~(limited /\ client.polls + 1 = POLL_LIMIT)
  <2>1. client' = [client EXCEPT !.polls = IF limited THEN client.polls + 1 ELSE client.polls]
    BY <1>1, <1>3, <1>11 DEF Polled
  <2>2. client'.pc = "poll" /\ client'.job = client.job
    BY <1>4, <2>1 DEF ClientInv
  <2>3. AllRight' /\ Searching'
    BY <1>7, <2>2, Untouched
  <2>4. Polls(0)'
    BY <2>3 DEF Polls
  <2>5. Waiting'
    BY <1>4, <1>5, <2>2, <2>4 DEF Waiting, Stage, Empty
  <2> QED
    BY <1>4, <1>5, <2>2, <2>5, OnwardKeeps
<1> QED
  BY <1>8, <1>9, <1>10, <1>11

\* The model was read: it satisfies the formula.
LEMMA FetchedKeeps ==
  ASSUME LinkInv, ClientInv, SolverInv, flashed = "sat", UNCHANGED satVars, UNCHANGED flashed,
         SatFetched
  PROVE  ProgramInv' /\ VerdictRight'
<1>1. /\ client.pc = "fetch" /\ answer # None /\ answer.ok /\ answer' = None
      /\ UNCHANGED <<request, out, deaf, socket, buf, runs>>
  BY DEF SatFetched, Fetched, Consume
<1>2. /\ runs # 0 /\ client.job \in Jobs /\ request = None /\ socket = <<>> /\ buf = <<>>
      /\ answer.data = out /\ Stage(Asks(Cur).size, Asks(Cur).size)
  BY <1>1, AnswerStage
<1>3. client.todo = <<Read(3, 1)>>
  BY <1>1, <1>2 DEF Stage, Fetches
<1>4. Fetches(1)
  BY <1>1, <1>2, <1>3, ReadCur DEF Stage
<1>5. AllRight /\ Searching /\ core.done /\ core.sat /\ answer.data[1] = core.model
  BY <1>2, <1>4 DEF Fetches
<1>6. client' = Ended("sat", core.model)
  <2>1. ~(Len(client.todo) > 1)
    BY <1>3
  <2> QED
    BY <1>5, <2>1 DEF SatFetched, Fetched
<1>7. /\ client'.pc = "idle" /\ client'.job = client.job
      /\ client'.outcome = "sat" /\ client'.data = core.model
  BY <1>6 DEF Ended, ClientInv
<1>8. Holds(client.job.problem, [i \in 1 .. client.job.problem.n |-> Bit(core.model, i)])
  BY <1>2, <1>5, ReadRight DEF SolverInv
<1>9. VerdictRight'
  BY <1>7, <1>8 DEF VerdictRight, Holds, Bit
<1>10. Still'
  BY <1>1, <1>2 DEF Still, Empty
<1> QED
  BY <1>1, <1>2, <1>7, <1>9, <1>10, EndKeeps

-----------------------------------------------------------------------------
(* Every step of the board.                                                 *)

\* A board with another design never says sat or unsat.
LEMMA UnsaidKeeps ==
  ASSUME ClientInv, ProgramInv, flashed # "sat", [Next]_vars
  PROVE  Unsaid'
<1>0. client.outcome \notin {"sat", "unsat"}
  BY DEF ProgramInv, Unsaid
<1>1. CASE ~Program
  BY <1>0, <1>1, Frame DEF Unsaid
<1>2. CASE Call \/ FfnBegin
  BY <1>2 DEF Call, FfnBegin, Begin, Unsaid
<1>3. CASE Send
  BY <1>0, <1>3 DEF Send, clientVars, Unsaid
<1>4. CASE Failed \/ Disconnect
  <2>1. client' = Ended("failed", None) \/ client' = Ended("lost", None)
    BY <1>4 DEF Failed, Disconnect
  <2>2. client'.outcome \in {"failed", "lost"}
    BY <2>1 DEF Ended, ClientInv
  <2> QED
    BY <2>2 DEF Unsaid
<1>5. CASE Loaded("idle") \/ Loaded("poll")
  <2>1. \/ client' = [client EXCEPT !.todo = Tail(client.todo)]
        \/ client' = Ended("ok", answer.data)
        \/ client' = [client EXCEPT !.pc = "poll", !.todo = <<>>]
    BY <1>5 DEF Loaded, Onward
  <2>2. client'.outcome \in {client.outcome, "ok"}
    BY <2>1 DEF Ended, ClientInv
  <2> QED
    BY <1>0, <2>2 DEF Unsaid
<1>6. CASE FfnPolled
  <2>1. PICK requests : requests = result_requests
    OBVIOUS
  <2>2. Polled(FALSE, "fetch", requests, "none", None)
    BY <1>6, <2>1 DEF FfnPolled
  <2>3. \/ client' = [client EXCEPT !.pc = "fetch", !.todo = requests]
        \/ client' = [client EXCEPT !.polls = client.polls]
    BY <2>2 DEF Polled, Onward
  <2>4. client'.outcome = client.outcome
    BY <2>3 DEF ClientInv
  <2> QED
    BY <1>0, <2>4 DEF Unsaid
<1>7. CASE FfnFetched
  <2>1. PICK data : data = unpacked(answer.data)
    OBVIOUS
  <2>2. \/ client' = [client EXCEPT !.todo = Tail(client.todo)]
        \/ client' = Ended("result", data)
    BY <1>7, <2>1 DEF FfnFetched, Fetched
  <2>3. client'.outcome \in {client.outcome, "result"}
    BY <2>2 DEF Ended, ClientInv
  <2> QED
    BY <1>0, <2>3 DEF Unsaid
<1> QED
  BY <1>1, <1>2, <1>3, <1>4, <1>5, <1>6, <1>7 DEF Program

\* On the solver's board, the client and what it asked stay for a step that is not the
\* program's.
LEMMA RestKeeps ==
  ASSUME SolverInv, flashed = "sat", UNCHANGED clientVars, UNCHANGED flashed,
         request' = request \/ request' = None, OldInv', OutInv', Progress'
  PROVE  ProgramInv' /\ VerdictRight'
<1>1. client' = client /\ runs' = runs
  BY DEF clientVars
<1>2. JobInv' /\ RequestInv' /\ VerdictRight'
  BY <1>1 DEF SolverInv, ProgramInv, JobInv, RequestInv, VerdictRight, Parts, SlotWrites, Asks,
              Valuations, Holds
<1> QED
  BY <1>2 DEF ProgramInv

\* The solver's board: a clock edge.
LEMMA SatClockStep ==
  ASSUME LinkInv, SolverInv, flashed = "sat", Clock
  PROVE  ProgramInv' /\ VerdictRight'
<1>1. SatClock /\ UNCHANGED clientVars /\ UNCHANGED flashed /\ request' = request
  BY DEF Clock, Others, SatClock, MasterEdge
<1> QED
  BY <1>1, OldKeeps, ClockKeeps, RestKeeps

\* The bridge moves a response on.
LEMMA SatBridgeStep ==
  ASSUME LinkInv, SolverInv, flashed = "sat", Bridge, Others("none")
  PROVE  ProgramInv' /\ VerdictRight'
<1>1. /\ UNCHANGED satVars /\ UNCHANGED clientVars /\ UNCHANGED flashed
      /\ request' = request \/ request' = None
  BY BridgeLink DEF Others, Bridge
<1>2. OldInv'
  BY <1>1 DEF SolverInv, ProgramInv, OldInv, satVars, clientVars, Leftover
<1> QED
  BY <1>1, <1>2, BridgeKeeps, RestKeeps

\* The client takes a step of its program.
LEMMA SatProgramStep ==
  ASSUME LinkInv, ClientInv, SolverInv, flashed = "sat", Program, Others("none")
  PROVE  ProgramInv' /\ VerdictRight'
<1>1. UNCHANGED satVars /\ UNCHANGED flashed
  BY DEF Others
<1>2. \/ Send
      \/ SatBegin \/ SdkBegin \/ SdkNext
      \/ Failed \/ Disconnect
      \/ Loaded("poll")
      \/ SatPolled
      \/ SatFetched
  BY DEF Program, Call
<1> QED
  BY <1>1, <1>2, SendKeeps, BeginsKeep, EndsKeep, LoadedKeeps, PolledKeeps, FetchedKeeps

\* Nothing happens.
LEMMA SatRestStep ==
  ASSUME SolverInv, flashed = "sat", UNCHANGED vars
  PROVE  ProgramInv' /\ VerdictRight'
<1>1. /\ UNCHANGED flashed /\ UNCHANGED client /\ UNCHANGED runs /\ UNCHANGED satVars
      /\ UNCHANGED <<request, served, out, deaf, socket, buf, answer, bus, ack>>
  BY DEF vars, linkVars, clientVars
<1>2. OldInv' /\ OutInv'
  BY <1>1 DEF SolverInv, ProgramInv, OldInv, OutInv, satVars, Leftover
<1>3. \A land, k : Stage(land, k)' <=> Stage(land, k)
  <2>1. (\A a : Right(a)' <=> Right(a)) /\ UNCHANGED <<core, start, intact>>
    BY <1>1, Untouched
  <2>2. \A l, a : Pending(client.todo, l, a)' <=> Pending(client.todo, l, a)
    BY <1>1 DEF Pending, Asks
  <2>3. Loading(client.job.problem, client.todo)' <=> Loading(client.job.problem, client.todo)
    BY <1>1 DEF Loading, Parts, SlotWrites
  <2>4. (AllRight' <=> AllRight) /\ (Searching' <=> Searching)
    BY <2>1 DEF AllRight, Searching
  <2>5. ASSUME NEW land, NEW k PROVE Written(land, k)' <=> Written(land, k)
    BY <1>1, <2>1, <2>2, <2>3, <2>4 DEF Written
  <2>6. ASSUME NEW k PROVE (Polls(k)' <=> Polls(k)) /\ (Fetches(k)' <=> Fetches(k))
    BY <1>1, <2>1, <2>4 DEF Polls, Fetches, Truthful
  <2> QED
    BY <1>1, <2>5, <2>6 DEF Stage
<1>4. (Empty' <=> Empty) /\ Cur' = Cur /\ Landed' = Landed /\ Asks(Cur)' = Asks(Cur)
  BY <1>1 DEF Empty, Cur, Landed, Asks
<1>5. \A ok : Answered(ok)' <=> Answered(ok)
  BY <1>1 DEF Answered, Arrived, Arriving, Reply
<1>6. (Still' <=> Still) /\ (Waiting' <=> Waiting) /\ (InFlight' <=> InFlight)
  BY <1>1, <1>3, <1>4 DEF Still, Waiting, InFlight
<1>7. Progress'
  BY <1>1, <1>3, <1>4, <1>5, <1>6 DEF SolverInv, ProgramInv, Progress
<1> QED
  BY <1>1, <1>2, <1>7, RestKeeps DEF clientVars

\* No step of the board breaks what the verdict rests on.
LEMMA SolverStep == LinkInv /\ ClientInv /\ SolverInv /\ [Next]_vars => SolverInv'
<1> SUFFICES ASSUME LinkInv, ClientInv, SolverInv, [Next]_vars
             PROVE  SolverInv'
  OBVIOUS
<1>1. IInv'
  BY CoreKeeps
<1>2. CASE flashed = "sat"
  <2>1. Clock \/ (Program /\ Others("none")) \/ (Bridge /\ Others("none")) \/ UNCHANGED vars
    BY DEF Next
  <2>2. ProgramInv' /\ VerdictRight'
    BY <1>2, <2>1, SatClockStep, SatProgramStep, SatBridgeStep, SatRestStep
  <2> QED
    BY <1>1, <2>2 DEF SolverInv
<1>3. CASE flashed # "sat"
  <2>1. Unsaid' /\ flashed' = flashed
    BY <1>3, Frame, UnsaidKeeps DEF SolverInv
  <2>2. ProgramInv' /\ VerdictRight'
    BY <1>3, <2>1 DEF ProgramInv, VerdictRight, Unsaid
  <2> QED
    BY <1>1, <2>2 DEF SolverInv
<1> QED
  BY <1>2, <1>3

-----------------------------------------------------------------------------
(* What holds of the solver on its board, with any client.                  *)

\* What the verdict rests on holds in every reachable state of the board.
THEOREM SolverInvariance == Spec => [](BoardInv /\ SolverInv)
<1>1. Init => BoardInv /\ SolverInv
  BY BoardStart, SolverStart
<1>2. BoardInv /\ SolverInv /\ [Next]_vars => BoardInv' /\ SolverInv'
  BY BoardStep, SolverStep DEF BoardInv
<1> QED
  BY <1>1, <1>2, PTL DEF Spec

\* The solver's registers keep their widths, driven over the bus by any client.
THEOREM BoardTypeCorrect == Spec => []CoreTypeOK
<1>1. BoardInv /\ SolverInv => CoreTypeOK
  BY DEF SolverInv, IInv
<1> QED
  BY <1>1, SolverInvariance, PTL

\* The core of a board in use is right about the formula in its registers, though they are
\* rewritten, a start is pulsed again, or a client is cut off, while it searches.
THEOREM BoardVerdictCorrect == Spec => []CoreRight
<1>1. BoardInv /\ SolverInv => CoreRight
  BY DEF SolverInv, IInv
<1> QED
  BY <1>1, SolverInvariance, PTL

\* Both programs end with the truth about the formula they were given, on a board that still
\* holds what earlier ones left (client.py, client_sdk.py).
THEOREM VerdictTrue == Spec => []VerdictRight
<1>1. BoardInv /\ SolverInv => VerdictRight
  BY DEF SolverInv
<1> QED
  BY <1>1, SolverInvariance, PTL
=============================================================================
