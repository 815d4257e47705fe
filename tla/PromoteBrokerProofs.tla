------------------------ MODULE PromoteBrokerProofs -------------------------
(***************************************************************************)
(* The promote channel of PromoteBroker, for any number of promotes.  The  *)
(* two threads that answer them take turns as long as the poller ends      *)
(* before the drain (Turns); what one of them builds stays in its hands    *)
(* until the response is there (Built), so that the other, which only      *)
(* takes up requests without a response, never builds it again.            *)
(***************************************************************************)
EXTENDS PromoteBroker, WellFoundedInduction, FiniteSetTheorems, SequenceTheorems, TLAPS

Building == {"poll", "write", "rename"}

\* Unless something went wrong, the main thread polls only when the poller is
\* gone.
Turns == Orderly /\ pc[Main] \notin {"sandbox", "join"} => pc[Poller] = "ended"

\* A request that was built has its response, or is in the hands of the thread
\* that built it, or run() raised over it; one about to be built was not.
Built ==
  Orderly => \A r \in Requests :
    /\ builds[r] <= 1
    /\ builds[r] = 1 => \/ response[r] # "none"
                        \/ \E p \in Brokers : pc[p] \in Building /\ cur[p] = r
                        \/ pc[Main] = "raised"
    /\ \A p \in Brokers : pc[p] = "submit" /\ cur[p] = r => builds[r] = 0

\* A thread that handles a request has one.
Handling ==
  \A p \in Brokers : pc[p] \in {"submit", "poll", "write", "rename"} => cur[p] \in Requests

\* The drain works on a closed directory, of which every request is answered,
\* ahead of it, or in its hands.
Drain ==
  /\ pc[Main] \notin {"sandbox", "join", "raised"} => container = "exited"
  /\ pc[Main] = "join" /\ ~aborted => container = "exited"
  /\ pc[Main] \notin {"returned", "raised"} => workspace
  /\ pc[Main] \in {"scan", "submit", "poll", "write", "rename"} =>
       \A r \in request : \/ response[r] # "none"
                          \/ r \in todo[Main]
                          \/ pc[Main] # "scan" /\ cur[Main] = r
  /\ pc[Main] = "returned" => \A r \in request : response[r] # "none"

\* What is in a list, and that it is there once.
Listed(s) == {s[i] : i \in 1..Len(s)}
Once(s) == \A i, j \in 1..Len(s) : s[i] = s[j] => i = j

\* Every response is in the result of run() or in the list of the thread that
\* made it, once; the request a thread handles has none yet.
Lists ==
  Orderly /\ pc[Main] # "raised" =>
    /\ \A r \in Requests : response[r] # "none" <=>
         r \in Listed(promotions) \/ \E p \in Brokers : r \in Listed(made[p])
    /\ Once(promotions)
    /\ \A p \in Brokers :
         /\ Once(made[p]) /\ Listed(promotions) \cap Listed(made[p]) = {}
         /\ pc[p] \notin {"scan", "submit", "poll", "write", "rename"} => made[p] = <<>>
         /\ pc[p] \in {"submit", "poll", "write", "rename"} => response[cur[p]] = "none"

IInv == TypeOK /\ Handling /\ Turns /\ Built /\ Drain /\ Lists

\* The least of some requests is one of them.
LEMMA Least ==
  ASSUME NEW S \in SUBSET Requests, S # {}
  PROVE  Min(S) \in S
  <1>1. \E x \in S : \A y \in S : x <= y
    <2>1. S \subseteq Nat BY PromoteAssumption DEF Requests
    <2>2. \E x \in S : \A y \in S : ~(<<y, x>> \in OpToRel(<, Nat))
      BY <2>1, WFMin, NatLessThanWellFounded
    <2>3. ASSUME NEW x \in Nat, NEW y \in Nat, y < x
          PROVE  <<y, x>> \in OpToRel(<, Nat)
      <3>1. <<y, x>> \in Nat \X Nat OBVIOUS
      <3> QED BY <3>1, <2>3, Zenon DEF OpToRel
    <2>4. PICK x \in S : \A y \in S : ~(<<y, x>> \in OpToRel(<, Nat)) BY <2>2
    <2>5. ASSUME NEW y \in S PROVE x <= y
      <3>1. ~(y < x) BY <2>1, <2>3, <2>4
      <3> QED BY <3>1, <2>1
    <2> QED BY <2>5
  <1> QED BY <1>1 DEF Min

\* Sequences of requests stay sequences of requests.
LEMMA SeqTypes ==
  ASSUME NEW S
  PROVE  /\ <<>> \in Seq(S)
         /\ \A s, t \in Seq(S) : s \o t \in Seq(S)
         /\ \A s \in Seq(S), x \in S : Append(s, x) \in Seq(S)
  OBVIOUS

\* One more build is a number of builds.
LEMMA BuildsType ==
  ASSUME TypeOK PROVE \A r \in Requests : builds[r] \in Nat /\ builds[r] + 1 \in Nat
  <1>1. builds \in [Requests -> Nat] BY DEF TypeOK
  <1> QED BY <1>1

\* The request a scan comes to next is one of those it has left.
LEMMA NextRequest ==
  ASSUME TypeOK, NEW p \in Brokers, todo[p] # {}
  PROVE  Min(todo[p]) \in todo[p] /\ Min(todo[p]) \in Requests
  <1>1. todo[p] \in SUBSET Requests BY DEF TypeOK
  <1>2. Min(todo[p]) \in todo[p] BY <1>1, Least
  <1> QED BY <1>1, <1>2

-----------------------------------------------------------------------------
(* Types.                                                                  *)

\* The threads start with nothing in hand.
LEMMA InitType == Init => TypeOK /\ Handling
  <1> SUFFICES ASSUME Init PROVE TypeOK /\ Handling OBVIOUS
  <1>2. pc \in [Brokers -> Pcs] /\ \A p \in Brokers : pc[p] \in {"loop", "sandbox"}
    BY DEF Init, Pcs
  <1>3. promotions \in Seq(Requests) /\ made \in [Brokers -> Seq(Requests)]
    BY DEF Init
  <1> QED BY <1>2, <1>3 DEF Init, TypeOK, Handling, Results

\* The agents.
LEMMA AgentType ==
  ASSUME TypeOK, Handling, NEW r \in Requests, Promote(r) \/ Answered(r) \/ GiveUp(r)
  PROVE  TypeOK' /\ Handling'
  BY DEF Promote, Answered, GiveUp, TypeOK, Handling, filesVars, runVars,
         brokerVars, outVars

\* One step of poll_once.
LEMMA BrokerType ==
  ASSUME TypeOK, Handling, NEW p \in Brokers, BrokerStep(p)
  PROVE  TypeOK' /\ Handling'
  <1> USE DEF TypeOK, Handling, filesVars, runVars, brokerVars, outVars, Goto, Pcs
  <1>1. CASE Glob(p) \/ EndScan(p)
    <2>1. CASE Glob(p)
      <3>1. <<>> \in Seq(Requests) BY SeqTypes
      <3>2. made' \in [Brokers -> Seq(Requests)] BY <2>1, <3>1 DEF Glob
      <3> QED BY <2>1, <3>2 DEF Glob
    <2>2. CASE EndScan(p)
      <3>1. <<>> \in Seq(Requests) /\ promotions \o made[p] \in Seq(Requests)
        BY SeqTypes
      <3>2. made' \in [Brokers -> Seq(Requests)] BY <2>2, <3>1 DEF EndScan
      <3>3. promotions' \in Seq(Requests) BY <2>2, <3>1 DEF EndScan
      <3> QED BY <2>2, <3>2, <3>3 DEF EndScan
    <2> QED BY <1>1, <2>1, <2>2
  <1>2. CASE Skip(p) BY <1>2, NextRequest DEF Skip
  <1>3. CASE Take(p)
    <2>1. Min(todo[p]) \in Requests BY <1>3, NextRequest DEF Take, Answerless
    <2> QED BY <1>3, <2>1 DEF Take, Results
  <1>4. CASE Submit(p)
    <2>1. cur[p] \in Requests BY <1>4 DEF Submit
    <2>2. CASE builds' = [builds EXCEPT ![cur[p]] = @ + 1] /\ Goto(p, "poll")
               /\ UNCHANGED result
      <3>1. builds[cur[p]] + 1 \in Nat BY <2>1, BuildsType
      <3>2. builds' \in [Requests -> Nat] BY <2>2, <3>1
      <3> QED BY <1>4, <2>1, <2>2, <3>2 DEF Submit
    <2>3. CASE result' = [result EXCEPT ![p] = "submit_failed"] /\ Goto(p, "write")
               /\ UNCHANGED builds
      BY <1>4, <2>1, <2>3 DEF Submit, Results
    <2> QED BY <1>4, <2>2, <2>3 DEF Submit
  <1>5. CASE Poll(p) BY <1>5 DEF Poll, Results
  <1>6. CASE PollHttpError(p) BY <1>6 DEF PollHttpError, Raise
  <1>7. CASE Write(p) BY <1>7 DEF Write
  <1>8. CASE Rename(p)
    <2>1. cur[p] \in Requests /\ result[p] \in Results BY <1>8 DEF Rename
    <2>2. Append(made[p], cur[p]) \in Seq(Requests) BY <2>1, SeqTypes
    <2>3. made' \in [Brokers -> Seq(Requests)] BY <1>8, <2>2 DEF Rename
    <2> QED BY <1>8, <2>1, <2>3 DEF Rename
  <1>9. CASE HandleRaises(p) \/ FileMissing(p) BY <1>9 DEF HandleRaises, FileMissing, Raise
  <1> QED BY <1>1, <1>2, <1>3, <1>4, <1>5, <1>6, <1>7, <1>8, <1>9 DEF BrokerStep

\* What happens around poll_once.
Around == Loop \/ ContainerExits \/ SandboxRaises \/ Join \/ JoinTimeout

LEMMA AroundType ==
  ASSUME TypeOK, Handling, Around PROVE TypeOK' /\ Handling'
  BY DEF Around, Loop, ContainerExits, SandboxRaises, Join, JoinTimeout, AfterJoin,
         TypeOK, Handling, filesVars, runVars, brokerVars, outVars, Goto, Pcs,
         Brokers, Main, Poller

-----------------------------------------------------------------------------
(* Taking turns.                                                           *)

Working == {"glob", "scan", "submit", "poll", "write", "rename"}

\* What went wrong stays wrong: a dead poller is not revived.
LEMMA StillOrderly == ASSUME TypeOK, [Next]_vars, Orderly' PROVE Orderly
  <1> USE DEF TypeOK, Orderly, filesVars, runVars, brokerVars, outVars, Goto
  <1>1. pc[Poller] = "dead" => pc'[Poller] = "dead"
    <2> SUFFICES ASSUME pc[Poller] = "dead" PROVE pc'[Poller] = "dead" OBVIOUS
    <2>1. CASE UNCHANGED vars BY <2>1 DEF vars
    <2>2. ASSUME NEW r \in Requests, Promote(r) \/ Answered(r) \/ GiveUp(r)
          PROVE  pc'[Poller] = "dead"
      BY <2>2 DEF Promote, Answered, GiveUp
    <2>3. ASSUME NEW p \in Brokers, BrokerStep(p) PROVE pc'[Poller] = "dead"
      <3>1. pc[p] \in Working /\ p # Poller
        BY <2>3 DEF BrokerStep, Glob, Skip, Take, Submit, Poll, PollHttpError, Write,
                    Rename, HandleRaises, FileMissing, EndScan, Working
      <3>2. pc'[Poller] = pc[Poller]
        BY <2>3, <3>1 DEF BrokerStep, Glob, Skip, Take, Submit, Poll, PollHttpError,
                    Write, Rename, HandleRaises, FileMissing, EndScan, Raise, Brokers
      <3> QED BY <3>2
    <2>4. CASE Around
      BY <2>4 DEF Around, Loop, ContainerExits, SandboxRaises, Join, JoinTimeout,
                  AfterJoin, Brokers, Main, Poller
    <2> QED BY <2>1, <2>2, <2>3, <2>4 DEF Next, Around
  <1>2. overran => overran'
    BY DEF Next, vars, Promote, Answered, GiveUp, BrokerStep, Glob, Skip, Take, Submit,
           Poll, PollHttpError, Write, Rename, HandleRaises, FileMissing, EndScan, Loop,
           ContainerExits, SandboxRaises, Join, JoinTimeout
  <1> QED BY <1>1, <1>2

\* While a thread polls, the other does not, unless something went wrong.
LEMMA Alone ==
  ASSUME Turns, Orderly, NEW p \in Brokers, NEW q \in Brokers, q # p,
         pc[p] \in Working
  PROVE  pc[q] \notin Working /\ (p = Poller => pc[Main] \in {"sandbox", "join"})
  BY DEF Turns, Brokers, Poller, Main, Working

\* A thread in poll_once, and only its place in the code, moves.
LEMMA BrokerMoves ==
  ASSUME TypeOK, NEW p \in Brokers, BrokerStep(p)
  PROVE  /\ pc[p] \in Working
         /\ pc'[p] \in Working \cup
              (IF p = Poller THEN {"loop", "dead"} ELSE {"returned", "raised"})
         /\ \A q \in Brokers : q # p => pc'[q] = pc[q]
         /\ UNCHANGED <<container, stop, aborted, overran, request>>
  <1> USE DEF TypeOK, filesVars, runVars, brokerVars, outVars, Goto
  <1>1. pc[p] \in Working /\ UNCHANGED <<container, stop, aborted, overran, request>>
    BY DEF BrokerStep, Glob, Skip, Take, Submit, Poll, PollHttpError, Write,
           Rename, HandleRaises, FileMissing, EndScan, Working
  <1>2. \/ pc' = pc
        \/ \E l \in Working \cup (IF p = Poller THEN {"loop", "dead"}
                                               ELSE {"returned", "raised"}) :
             pc' = [pc EXCEPT ![p] = l]
    BY DEF BrokerStep, Glob, Skip, Take, Submit, Poll, PollHttpError, Write,
           Rename, HandleRaises, FileMissing, EndScan, Working, Raise
  <1> QED BY <1>1, <1>2

LEMMA TurnsStep == ASSUME TypeOK, Turns, [Next]_vars PROVE Turns'
  <1> SUFFICES ASSUME Orderly', Turns PROVE Turns' BY DEF Turns
  <1>o. Orderly BY StillOrderly
  <1> USE DEF Turns
  <1>1. CASE UNCHANGED vars BY <1>1 DEF vars, runVars, Orderly
  <1>2. ASSUME NEW r \in Requests, Promote(r) \/ Answered(r) \/ GiveUp(r) PROVE Turns'
    BY <1>2, <1>o DEF Promote, Answered, GiveUp
  <1>3. ASSUME NEW p \in Brokers, BrokerStep(p) PROVE Turns'
    BY <1>3, <1>o, BrokerMoves DEF Working, Brokers, Poller, Main
  <1>4. CASE Around
    BY <1>4, <1>o DEF Around, Loop, ContainerExits, SandboxRaises, Join, JoinTimeout,
                AfterJoin, Brokers, Main, Poller, TypeOK, Orderly, Goto
  <1> QED BY <1>1, <1>2, <1>3, <1>4 DEF Next, Around

-----------------------------------------------------------------------------
(* One build for each promote.                                             *)

\* The agents, and what happens around poll_once, build nothing and touch no
\* response, nor the threads' work.
LEMMA BuiltAround ==
  ASSUME TypeOK, Orderly, Built,
         Around \/ \E r \in Requests : Promote(r) \/ Answered(r) \/ GiveUp(r)
  PROVE  Built'
  <1>1. UNCHANGED <<builds, response, cur>>
    BY DEF Around, Promote, Answered, GiveUp, Loop, ContainerExits, SandboxRaises,
           Join, JoinTimeout, AfterJoin, filesVars, runVars, brokerVars, outVars
  <1>2. /\ \A p \in Brokers : pc[p] \in Building => pc'[p] = pc[p]
        /\ pc[Main] = "raised" => pc'[Main] = "raised"
        /\ \A p \in Brokers : pc'[p] = "submit" => pc[p] = "submit"
    BY DEF Around, Promote, Answered, GiveUp, Loop, ContainerExits, SandboxRaises,
           Join, JoinTimeout, AfterJoin, filesVars, runVars, brokerVars, outVars,
           TypeOK, Goto, Building, Brokers, Main, Poller
  <1> SUFFICES ASSUME Orderly', NEW r \in Requests
               PROVE  /\ builds[r] <= 1
                      /\ builds[r] = 1 => \/ response[r] # "none"
                                          \/ \E p \in Brokers : pc'[p] \in Building /\ cur[p] = r
                                          \/ pc'[Main] = "raised"
                      /\ \A p \in Brokers : pc'[p] = "submit" /\ cur[p] = r => builds[r] = 0
    BY <1>1 DEF Built
  <1> QED BY <1>1, <1>2 DEF Built

\* A thread builds only what nobody built.
LEMMA BuiltBroker ==
  ASSUME TypeOK, Handling, Turns, Orderly, Built, NEW p \in Brokers, BrokerStep(p)
  PROVE  Built'
  <1> SUFFICES ASSUME Orderly', NEW r \in Requests
               PROVE  /\ builds'[r] <= 1
                      /\ builds'[r] = 1 =>
                           \/ response'[r] # "none"
                           \/ \E q \in Brokers : pc'[q] \in Building /\ cur'[q] = r
                           \/ pc'[Main] = "raised"
                      /\ \A q \in Brokers : pc'[q] = "submit" /\ cur'[q] = r => builds'[r] = 0
    BY DEF Built
  <1>n. builds[r] \in Nat BY BuildsType
  <1>z. builds[r] \in {0, 1} BY <1>n DEF Built
  <1>t. /\ builds \in [Requests -> Nat] /\ pc \in [Brokers -> Pcs]
        /\ response \in [Requests -> Results \cup {"none"}]
    BY DEF TypeOK
  <1>i. ASSUME cur[p] = r, builds[r] = 0, builds' = [builds EXCEPT ![cur[p]] = @ + 1]
        PROVE  builds'[r] = 1
    BY <1>i, <1>t
  <1> USE DEF TypeOK, filesVars, runVars, brokerVars, outVars, Goto
  <1>a. /\ builds[r] <= 1
        /\ builds[r] = 1 => \/ response[r] # "none"
                            \/ \E q \in Brokers : pc[q] \in Building /\ cur[q] = r
                            \/ pc[Main] = "raised"
        /\ \A q \in Brokers : pc[q] = "submit" /\ cur[q] = r => builds[r] = 0
    BY DEF Built
  <1>b. \A q \in Brokers : q # p => pc[q] \notin Building /\ pc[q] # "submit" /\ pc'[q] = pc[q]
    BY Alone, BrokerMoves DEF Working, Building
  <1>c. pc[p] \in Working /\ pc[Main] # "raised"
    BY BrokerMoves, Alone DEF Working, Brokers, Poller, Main
  <1>1. CASE Glob(p) BY <1>1, <1>a, <1>b, <1>c DEF Glob, Building
  <1>2. CASE Skip(p) BY <1>2, <1>a, <1>b, <1>c DEF Skip, Building
  <1>3. CASE Take(p)
    <2>2. builds[r] = 1 => response[r] # "none"
      BY <1>3, <1>a, <1>b, <1>c DEF Take, Building
    <2>1. builds[Min(todo[p])] = 0 \/ r # Min(todo[p])
      <3>1. response[Min(todo[p])] = "none" BY <1>3 DEF Take, Answerless
      <3>2. builds[r] = 0 \/ builds[r] = 1 BY <1>z
      <3> QED BY <2>2, <3>1, <3>2
    <2> QED BY <1>3, <1>a, <1>b, <2>1, <2>2 DEF Take, Building
  <1>4. CASE Submit(p)
    <2>1. cur[p] \in Requests BY <1>4 DEF Submit, Handling
    <2>2. CASE r = cur[p]
      <3>1. builds[r] = 0 BY <1>4, <1>a, <2>2 DEF Submit
      <3>2. CASE builds' = [builds EXCEPT ![cur[p]] = @ + 1] /\ pc' = [pc EXCEPT ![p] = "poll"]
        <4>1. builds'[r] = 1 BY <1>i, <2>2, <3>1, <3>2
        <4>2. cur' = cur BY <1>4 DEF Submit
        <4>3. pc'[p] = "poll" BY <1>t, <3>2
        <4> HIDE DEF TypeOK
        <4> QED BY <1>b, <2>2, <4>1, <4>2, <4>3 DEF Building
      <3>3. CASE UNCHANGED builds /\ pc' = [pc EXCEPT ![p] = "write"]
        <4>1. builds'[r] = 0 BY <3>1, <3>3
        <4>2. pc'[p] = "write" BY <1>t, <3>3
        <4> HIDE DEF TypeOK
        <4> QED BY <1>b, <2>2, <4>1, <4>2 DEF Building
      <3> QED BY <1>4, <3>2, <3>3 DEF Submit
    <2>3. CASE r # cur[p]
      <3>1. builds'[r] = builds[r] /\ response' = response /\ cur' = cur
        BY <1>4, <2>1, <2>3 DEF Submit
      <3> QED BY <1>4, <1>a, <1>b, <1>c, <2>3, <3>1 DEF Submit, Building
    <2> QED BY <2>2, <2>3
  <1>5. CASE Poll(p) BY <1>5, <1>a, <1>b, <1>c DEF Poll, Building
  <1>6. CASE Write(p) BY <1>6, <1>a, <1>b, <1>c DEF Write, Building
  <1>7. CASE Rename(p)
    <2>1. cur[p] \in Requests /\ result[p] # "none" BY <1>7 DEF Rename, Results
    <2> QED BY <1>7, <1>a, <1>b, <1>c, <2>1 DEF Rename, Building
  <1>8. CASE PollHttpError(p) \/ HandleRaises(p) \/ FileMissing(p)
    <2>1. pc'[p] = IF p = Poller THEN "dead" ELSE "raised"
      BY <1>8 DEF PollHttpError, HandleRaises, FileMissing, Raise
    <2>2. p = Main /\ pc'[Main] = "raised"
      BY <2>1 DEF Orderly, Brokers, Main
    <2>3. UNCHANGED <<builds, response, cur>> BY <1>8 DEF PollHttpError, HandleRaises, FileMissing
    <2> QED BY <1>a, <1>b, <2>2, <2>3
  <1>9. CASE EndScan(p) BY <1>9, <1>a, <1>b, <1>c DEF EndScan, Building
  <1> QED BY <1>1, <1>2, <1>3, <1>4, <1>5, <1>6, <1>7, <1>8, <1>9 DEF BrokerStep

LEMMA BuiltStep ==
  ASSUME TypeOK, Handling, Turns, Built, [Next]_vars PROVE Built'
  <1>1. CASE ~Orderly' BY <1>1 DEF Built
  <1>2. CASE Orderly'
    <2>1. Orderly BY <1>2, StillOrderly
    <2>2. CASE UNCHANGED vars
      BY <2>2 DEF vars, Built, Orderly, runVars, brokerVars, outVars, filesVars
    <2>3. CASE Next
      BY <2>1, <2>3, BuiltAround, BuiltBroker DEF Next, Around
    <2> QED BY <2>2, <2>3
  <1> QED BY <1>1, <1>2

-----------------------------------------------------------------------------
(* The drain.                                                              *)

\* A response, once there, stays.
LEMMA ResponseStays ==
  ASSUME TypeOK, [Next]_vars
  PROVE  \A r \in Requests : response[r] # "none" => response'[r] # "none"
  <1>1. CASE \E p \in Brokers : Rename(p)
    <2>1. PICK p \in Brokers : Rename(p) BY <1>1
    <2>2. result[p] # "none" BY <2>1 DEF Rename, TypeOK, Results
    <2>3. response \in [Requests -> Results \cup {"none"}] BY DEF TypeOK
    <2> QED BY <2>1, <2>2, <2>3 DEF Rename
  <1>2. CASE ~\E p \in Brokers : Rename(p)
    <2>1. response' = response
      BY <1>2 DEF Next, vars, Promote, Answered, GiveUp, BrokerStep, Glob, Skip, Take,
                  Submit, Poll, PollHttpError, Write, HandleRaises, FileMissing, EndScan, Loop,
                  ContainerExits, SandboxRaises, Join, JoinTimeout, AfterJoin,
                  filesVars, runVars, brokerVars, outVars
    <2> QED BY <2>1
  <1> QED BY <1>1, <1>2

\* The steps of the main thread in its drain: what it does not handle stays
\* ahead of it.
LEMMA DrainMain ==
  ASSUME TypeOK, Handling, Drain, BrokerStep(Main),
         \A r \in Requests : response[r] # "none" => response'[r] # "none"
  PROVE  Drain'
  <1> USE DEF TypeOK, filesVars, runVars, brokerVars, outVars, Goto
  <1>0. Main \in Brokers /\ Main # Poller BY DEF Brokers, Main, Poller
  <1>a. /\ UNCHANGED <<container, aborted, request>> /\ container = "exited"
        /\ pc[Main] \in Working /\ request \subseteq Requests /\ workspace
    BY <1>0, BrokerMoves DEF Drain, Working
  <1>1. CASE Glob(Main) BY <1>0, <1>a, <1>1 DEF Glob, Drain
  <1>2. CASE Skip(Main) BY <1>0, <1>a, <1>2 DEF Skip, Answerless, Drain
  <1>3. CASE Take(Main) BY <1>0, <1>a, <1>3 DEF Take, Drain
  <1>4. CASE Submit(Main) BY <1>0, <1>a, <1>4 DEF Submit, Drain
  <1>5. CASE Poll(Main) BY <1>0, <1>a, <1>5 DEF Poll, Drain
  <1>6. CASE Write(Main) BY <1>0, <1>a, <1>6 DEF Write, Drain
  <1>7. CASE Rename(Main)
    <2>1. result[Main] # "none" /\ cur[Main] \in Requests
      BY <1>0, <1>7 DEF Rename, Results
    <2> QED BY <1>0, <1>a, <1>7, <2>1 DEF Rename, Drain
  <1>8. CASE PollHttpError(Main) \/ HandleRaises(Main) \/ FileMissing(Main)
    BY <1>0, <1>a, <1>8 DEF PollHttpError, HandleRaises, FileMissing, Raise, Drain
  <1>9. CASE EndScan(Main) BY <1>0, <1>a, <1>9 DEF EndScan, Drain
  <1> QED BY <1>1, <1>2, <1>3, <1>4, <1>5, <1>6, <1>7, <1>8, <1>9 DEF BrokerStep

\* The other thread can only add responses.
LEMMA DrainPoller ==
  ASSUME TypeOK, Handling, Drain, BrokerStep(Poller),
         \A r \in Requests : response[r] # "none" => response'[r] # "none"
  PROVE  Drain'
  <1> USE DEF TypeOK, filesVars, runVars, brokerVars, outVars, Goto
  <1>0. Main \in Brokers /\ Poller \in Brokers /\ Main # Poller
    BY DEF Brokers, Main, Poller
  <1>1. UNCHANGED <<container, aborted, request, pc[Main]>>
    BY <1>0, BrokerMoves
  <1>2. UNCHANGED <<todo[Main], cur[Main], workspace>>
    BY <1>0 DEF BrokerStep, Glob, Skip, Take, Submit, Poll, PollHttpError, Write,
                Rename, HandleRaises, FileMissing, EndScan, Raise
  <1>3. request \subseteq Requests OBVIOUS
  <1> HIDE DEF TypeOK
  <1> QED BY <1>1, <1>2, <1>3 DEF Drain

\* Nothing comes in once the drain has begun.
LEMMA DrainAround ==
  ASSUME TypeOK, Drain,
         Around \/ \E r \in Requests : Promote(r) \/ Answered(r) \/ GiveUp(r)
  PROVE  Drain'
  <1> USE DEF TypeOK, filesVars, runVars, brokerVars, outVars, Goto
  <1>1. ASSUME NEW r \in Requests, Promote(r) PROVE Drain'
    BY <1>1 DEF Promote, Drain
  <1>2. ASSUME NEW r \in Requests, Answered(r) \/ GiveUp(r) PROVE Drain'
    BY <1>2 DEF Answered, GiveUp, Drain
  <1>3. CASE Loop BY <1>3 DEF Loop, Drain, Brokers, Main, Poller
  <1>4. CASE ContainerExits \/ SandboxRaises
    BY <1>4 DEF ContainerExits, SandboxRaises, Drain, Brokers, Main
  <1>5. CASE Join \/ JoinTimeout
    BY <1>5 DEF Join, JoinTimeout, AfterJoin, Drain, Brokers, Main
  <1> QED BY <1>1, <1>2, <1>3, <1>4, <1>5 DEF Around

LEMMA DrainStep ==
  ASSUME TypeOK, Handling, Drain, [Next]_vars PROVE Drain'
  <1>1. CASE UNCHANGED vars
    BY <1>1 DEF vars, Drain, filesVars, runVars, brokerVars
  <1>2. CASE Next
    BY <1>2, ResponseStays, DrainMain, DrainPoller, DrainAround
    DEF Next, Around, Brokers
  <1> QED BY <1>1, <1>2

-----------------------------------------------------------------------------
(* The list run() returns.                                                 *)

\* A response added at the end is listed once if it was not listed.
LEMMA AppendOnce ==
  ASSUME NEW S, NEW s \in Seq(S), NEW x \in S
  PROVE  /\ Listed(Append(s, x)) = Listed(s) \cup {x}
         /\ Once(s) /\ x \notin Listed(s) => Once(Append(s, x))
  <1> DEFINE t == Append(s, x)
  <1>1. /\ Len(s) \in Nat /\ Len(t) = Len(s) + 1
        /\ \A i \in 1..Len(s) : t[i] = s[i]
        /\ t[Len(s) + 1] = x
    OBVIOUS
  <1> HIDE DEF t
  <1>2. Listed(t) = Listed(s) \cup {x}
    BY <1>1 DEF Listed
  <1>3. ASSUME Once(s), x \notin Listed(s) PROVE Once(t)
    <2> SUFFICES ASSUME NEW i \in 1..Len(t), NEW j \in 1..Len(t), t[i] = t[j]
                 PROVE  i = j
      BY DEF Once
    <2>1. \A k \in 1..Len(t) : k \in 1..Len(s) \/ k = Len(s) + 1 BY <1>1
    <2> QED BY <1>1, <1>3, <2>1 DEF Once, Listed
  <1> QED BY <1>2, <1>3 DEF t

\* Two lists without repetition and with nothing in common make one.
LEMMA ConcatOnce ==
  ASSUME NEW S, NEW s \in Seq(S), NEW t \in Seq(S)
  PROVE  /\ Listed(s \o t) = Listed(s) \cup Listed(t)
         /\ Once(s) /\ Once(t) /\ Listed(s) \cap Listed(t) = {} => Once(s \o t)
  <1> DEFINE u == s \o t
  <1>1. /\ Len(s) \in Nat /\ Len(t) \in Nat /\ Len(u) = Len(s) + Len(t)
        /\ \A i \in 1..Len(s) : u[i] = s[i]
        /\ \A i \in 1..Len(t) : u[Len(s) + i] = t[i]
    BY ConcatProperties, LenProperties
  <1> HIDE DEF u
  <1>2. \A i \in 1..Len(u) : i \in 1..Len(s)
                             \/ (i - Len(s) \in 1..Len(t) /\ u[i] = t[i - Len(s)])
    <2> TAKE i \in 1..Len(u)
    <2>1. CASE i <= Len(s) BY <1>1, <2>1
    <2>2. CASE i > Len(s)
      <3>1. i - Len(s) \in 1..Len(t) /\ Len(s) + (i - Len(s)) = i BY <1>1, <2>2
      <3> QED BY <1>1, <3>1
    <2> QED BY <1>1, <2>1, <2>2
  <1>3. Listed(u) = Listed(s) \cup Listed(t)
    <2>1. Listed(s) \subseteq Listed(u) BY <1>1 DEF Listed
    <2>2. \A i \in 1..Len(t) : Len(s) + i \in 1..Len(u) BY <1>1
    <2>3. Listed(t) \subseteq Listed(u) BY <1>1, <2>2 DEF Listed
    <2>4. Listed(u) \subseteq Listed(s) \cup Listed(t) BY <1>1, <1>2 DEF Listed
    <2> QED BY <2>1, <2>3, <2>4
  <1>4. ASSUME Once(s), Once(t), Listed(s) \cap Listed(t) = {} PROVE Once(u)
    <2> SUFFICES ASSUME NEW i \in 1..Len(u), NEW j \in 1..Len(u), u[i] = u[j]
                 PROVE  i = j
      BY DEF Once
    <2>1. \A a \in 1..Len(s), b \in 1..Len(t) : s[a] # t[b] BY <1>4 DEF Listed
    <2>2. CASE i \in 1..Len(s) /\ j \in 1..Len(s) BY <1>1, <1>4, <2>2 DEF Once
    <2>3. CASE i \in 1..Len(s) /\ j \notin 1..Len(s) BY <1>1, <1>2, <2>1, <2>3
    <2>4. CASE i \notin 1..Len(s) /\ j \in 1..Len(s) BY <1>1, <1>2, <2>1, <2>4
    <2>5. CASE i \notin 1..Len(s) /\ j \notin 1..Len(s)
      <3>1. i - Len(s) = j - Len(s) BY <1>2, <1>4, <2>5 DEF Once
      <3> QED BY <1>1, <3>1
    <2> QED BY <2>2, <2>3, <2>4, <2>5
  <1> QED BY <1>3, <1>4 DEF u

\* Listed once, counted once.
LEMMA CountOnce ==
  ASSUME NEW S, NEW s \in Seq(S), Once(s), NEW r
  PROVE  Cardinality({i \in DOMAIN s : s[i] = r}) = IF r \in Listed(s) THEN 1 ELSE 0
  <1>1. DOMAIN s = 1..Len(s) BY LenProperties
  <1>2. CASE r \in Listed(s)
    <2>1. PICK i \in 1..Len(s) : s[i] = r BY <1>2 DEF Listed
    <2>2. {k \in DOMAIN s : s[k] = r} = {i} BY <1>1, <2>1 DEF Once
    <2> QED BY <1>2, <2>2, FS_Singleton
  <1>3. CASE r \notin Listed(s)
    <2>1. {k \in DOMAIN s : s[k] = r} = {} BY <1>1, <1>3 DEF Listed
    <2> QED BY <1>3, <2>1, FS_EmptySet
  <1> QED BY <1>2, <1>3

\* What Lists says, said of given lists, responses and places in the code.
Kept(prom, mine, resp, place, at) ==
  /\ \A r \in Requests : resp[r] # "none" <=>
       r \in Listed(prom) \/ \E p \in Brokers : r \in Listed(mine[p])
  /\ Once(prom)
  /\ \A p \in Brokers :
       /\ Once(mine[p]) /\ Listed(prom) \cap Listed(mine[p]) = {}
       /\ place[p] \notin {"scan", "submit", "poll", "write", "rename"} => mine[p] = <<>>
       /\ place[p] \in {"submit", "poll", "write", "rename"} => resp[at[p]] = "none"

LEMMA KeptLists ==
  /\ Lists <=> (Orderly /\ pc[Main] # "raised" => Kept(promotions, made, response, pc, cur))
  /\ Lists' <=> (Orderly' /\ pc'[Main] # "raised" =>
                   Kept(promotions', made', response', pc', cur'))
  BY DEF Lists, Kept

\* An empty list has nothing in it.
LEMMA EmptyList == Listed(<<>>) = {} /\ Once(<<>>)
  BY DEF Listed, Once

LEMMA ListsAround ==
  ASSUME TypeOK, Kept(promotions, made, response, pc, cur),
         Around \/ \E r \in Requests : Promote(r) \/ Answered(r) \/ GiveUp(r)
  PROVE  Kept(promotions', made', response', pc', cur')
  <1>1. UNCHANGED <<promotions, made, response, cur>>
    BY DEF Around, Promote, Answered, GiveUp, Loop, ContainerExits, SandboxRaises,
           Join, JoinTimeout, AfterJoin, filesVars, runVars, brokerVars, outVars
  <1>2. \A p \in Brokers :
          pc'[p] = pc[p] \/ {pc[p], pc'[p]} \cap {"scan", "submit", "poll", "write", "rename"} = {}
    BY DEF Around, Promote, Answered, GiveUp, Loop, ContainerExits, SandboxRaises,
           Join, JoinTimeout, AfterJoin, filesVars, runVars, brokerVars, outVars,
           TypeOK, Goto, Brokers, Main, Poller
  <1> QED BY <1>1, <1>2 DEF Kept

\* A thread lists each response when it makes it, and hands its list over at
\* the end of the scan.
LEMMA ListsBroker ==
  ASSUME TypeOK, Handling, Turns, Orderly, NEW p \in Brokers, BrokerStep(p),
         Kept(promotions, made, response, pc, cur), Orderly', pc'[Main] # "raised"
  PROVE  Kept(promotions', made', response', pc', cur')
  <1>a. \A q \in Brokers : q # p => pc[q] \notin Working /\ pc'[q] = pc[q] /\ made[q] = <<>>
    <2>1. \A q \in Brokers : q # p => pc[q] \notin Working /\ pc'[q] = pc[q]
      BY Alone, BrokerMoves
    <2> QED BY <2>1 DEF Kept, Working
  <1>t. /\ promotions \in Seq(Requests) /\ made \in [Brokers -> Seq(Requests)]
        /\ response \in [Requests -> Results \cup {"none"}] /\ pc \in [Brokers -> Pcs]
        /\ cur \in [Brokers -> Requests \cup {0}]
    BY DEF TypeOK
  <1> USE DEF filesVars, runVars, brokerVars, outVars, Goto, Working
  <1>1. CASE Glob(p)
    <2>1. made[p] = <<>> BY <1>1 DEF Glob, Kept
    <2>2. made' = made BY <1>1, <1>t, <2>1 DEF Glob
    <2>3. UNCHANGED <<promotions, response, cur>> BY <1>1 DEF Glob
    <2>4. pc[p] = "glob" /\ pc'[p] = "scan" BY <1>1, <1>t DEF Glob
    <2> QED BY <1>a, <2>1, <2>2, <2>3, <2>4 DEF Kept
  <1>2. CASE Skip(p) BY <1>2 DEF Skip, Kept
  <1>3. CASE Take(p)
    <2>1. /\ pc[p] = "scan" /\ pc'[p] \in {"submit", "write"} /\ response[cur'[p]] = "none"
          /\ UNCHANGED <<promotions, made, response>>
      BY <1>3, <1>t DEF Take, Answerless
    <2> QED BY <1>a, <2>1 DEF Kept
  <1>4. CASE Submit(p) \/ Poll(p) \/ Write(p)
    <2>1. /\ pc[p] \in {"submit", "poll", "write"} /\ pc'[p] \in {"poll", "write", "rename"}
          /\ UNCHANGED <<promotions, made, response, cur>>
      BY <1>4, <1>t DEF Submit, Poll, Write
    <2> QED BY <1>a, <2>1 DEF Kept
  <1>5. CASE Rename(p)
    <2>1. /\ pc[p] = "rename" /\ pc'[p] = "scan"
          /\ response' = [response EXCEPT ![cur[p]] = result[p]]
          /\ made' = [made EXCEPT ![p] = Append(made[p], cur[p])]
          /\ UNCHANGED <<promotions, cur>>
      BY <1>5, <1>t DEF Rename
    <2>2. cur[p] \in Requests /\ result[p] # "none"
      BY <2>1 DEF TypeOK, Results
    <2>3. response[cur[p]] = "none" BY <2>1 DEF Kept
    <2>4. /\ cur[p] \notin Listed(promotions) /\ cur[p] \notin Listed(made[p])
      BY <2>2, <2>3 DEF Kept
    <2>5. /\ Listed(made'[p]) = Listed(made[p]) \cup {cur[p]} /\ Once(made'[p])
      BY <1>t, <2>1, <2>2, <2>4, AppendOnce DEF Kept
    <2>6. \A q \in Brokers : q # p => made'[q] = made[q] BY <1>t, <2>1
    <2>7. \A r \in Requests : response'[r] # "none" <=> response[r] # "none" \/ r = cur[p]
      BY <1>t, <2>1, <2>2
    <2> QED BY <1>a, <2>1, <2>4, <2>5, <2>6, <2>7 DEF Kept
  <1>6. CASE PollHttpError(p) \/ HandleRaises(p) \/ FileMissing(p)
    <2>1. pc'[p] = IF p = Poller THEN "dead" ELSE "raised"
      BY <1>6, <1>t DEF PollHttpError, HandleRaises, FileMissing, Raise, Pcs
    <2> QED BY <2>1 DEF Orderly, Brokers, Main
  <1>7. CASE EndScan(p)
    <2>1. /\ pc[p] = "scan" /\ pc'[p] \in {"loop", "returned"}
          /\ promotions' = promotions \o made[p] /\ made' = [made EXCEPT ![p] = <<>>]
          /\ UNCHANGED <<response, cur>>
      BY <1>7, <1>t DEF EndScan
    <2>2. /\ Listed(promotions') = Listed(promotions) \cup Listed(made[p])
          /\ Once(promotions')
      BY <1>t, <2>1, ConcatOnce DEF Kept
    <2>3. \A q \in Brokers : made'[q] = <<>> BY <1>a, <1>t, <2>1
    <2>4. \A r \in Requests : (\E q \in Brokers : r \in Listed(made[q])) <=> r \in Listed(made[p])
      BY <1>a, EmptyList
    <2> QED BY <1>a, <2>1, <2>2, <2>3, <2>4, EmptyList DEF Kept
  <1> QED BY <1>1, <1>2, <1>3, <1>4, <1>5, <1>6, <1>7 DEF BrokerStep

LEMMA ListsStep ==
  ASSUME TypeOK, Handling, Turns, Lists, [Next]_vars PROVE Lists'
  <1> SUFFICES ASSUME Orderly', pc'[Main] # "raised"
               PROVE  Kept(promotions', made', response', pc', cur')
    BY KeptLists
  <1>1. Orderly BY StillOrderly
  <1>2. CASE UNCHANGED vars
    BY <1>1, <1>2, KeptLists DEF vars, filesVars, brokerVars, outVars
  <1>3. CASE Next
    <2>1. pc[Main] # "raised"
      <3>1. \A p \in Brokers : BrokerStep(p) => p # Main \/ pc[Main] # "raised"
        BY BrokerMoves DEF Working
      <3>2. \A p \in Brokers : BrokerStep(p) /\ p # Main => pc'[Main] = pc[Main]
        BY BrokerMoves DEF Brokers
      <3> QED BY <1>3, <3>1, <3>2
          DEF Next, Promote, Answered, GiveUp, Loop, ContainerExits, SandboxRaises, Join,
              JoinTimeout, Goto, Brokers, Main, Poller, TypeOK
    <2>2. Kept(promotions, made, response, pc, cur) BY <1>1, <2>1, KeptLists
    <2> QED BY <1>1, <1>3, <2>2, ListsAround, ListsBroker DEF Next, Around
  <1> QED BY <1>2, <1>3

-----------------------------------------------------------------------------
(* The invariant and what follows from it.                                 *)

\* Nothing is requested, built or listed at first.
LEMMA InitInv == Init => IInv
  <1> SUFFICES ASSUME Init PROVE IInv OBVIOUS
  <1>1. /\ pc[Main] = "sandbox" /\ pc[Poller] = "loop"
        /\ \A p \in Brokers : pc[p] \in {"sandbox", "loop"}
    BY DEF Init, Brokers, Main, Poller
  <1>2. Turns BY <1>1 DEF Turns
  <1>3. Built BY <1>1 DEF Built, Init, Building
  <1>4. Drain BY <1>1 DEF Drain, Init
  <1>5. Lists BY <1>1, EmptyList DEF Lists, Init
  <1> QED BY <1>2, <1>3, <1>4, <1>5, InitType DEF IInv

\* Every step keeps it.
LEMMA NextInv == IInv /\ [Next]_vars => IInv'
  <1> SUFFICES ASSUME IInv, [Next]_vars PROVE IInv' OBVIOUS
  <1>1. TypeOK' /\ Handling'
    <2>1. CASE UNCHANGED vars
      BY <2>1 DEF vars, filesVars, runVars, brokerVars, outVars, IInv, TypeOK, Handling
    <2>2. CASE Next
      BY <2>2, AgentType, BrokerType, AroundType DEF Next, Around, IInv
    <2> QED BY <2>1, <2>2
  <1> QED BY <1>1, TurnsStep, BuiltStep, DrainStep, ListsStep DEF IInv

\* The invariant holds in every reachable state.
THEOREM Invariance == Spec => []IInv
  <1> QED BY InitInv, NextInv, PTL DEF Spec

\* Every variable keeps its type; a broker that writes has something to write.
THEOREM TypeCorrect == Spec => []TypeOK
  <1>1. IInv => TypeOK BY DEF IInv
  <1> QED BY <1>1, Invariance, PTL

\* A promote is built on silicon at most once, unless the poller outlived its
\* join or died.
THEOREM BuiltOnce == Spec => []OneBuildPerPromote
  <1>1. IInv => OneBuildPerPromote BY DEF IInv, Built, OneBuildPerPromote
  <1> QED BY <1>1, Invariance, PTL

\* When run() returns, every promote made before the container exited has its
\* response, whatever became of the poller.
THEOREM DrainCorrect == Spec => []DrainedOnReturn
  <1>1. IInv => DrainedOnReturn BY DEF IInv, Drain, DrainedOnReturn
  <1> QED BY <1>1, Invariance, PTL

\* The result of run() lists every response exactly once.
THEOREM ListingCorrect == Spec => []PromotionsComplete
  <1>1. ASSUME IInv PROVE PromotionsComplete
    <2> SUFFICES ASSUME pc[Main] = "returned", Orderly, NEW r \in Requests
                 PROVE  Cardinality({i \in DOMAIN promotions : promotions[i] = r}) =
                          IF response[r] = "none" THEN 0 ELSE 1
      BY DEF PromotionsComplete
    <2>1. pc[Poller] = "ended" BY <1>1 DEF IInv, Turns
    <2>2. \A p \in Brokers : made[p] = <<>>
      BY <1>1, <2>1 DEF IInv, Lists, Brokers, Main, Poller
    <2>3. r \in Listed(promotions) <=> response[r] # "none"
      BY <1>1, <2>2, EmptyList DEF IInv, Lists
    <2>4. promotions \in Seq(Requests) /\ Once(promotions)
      BY <1>1 DEF IInv, TypeOK, Lists
    <2> QED BY <2>3, <2>4, CountOnce
  <1> QED BY <1>1, Invariance, PTL
=============================================================================
