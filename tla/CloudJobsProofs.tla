-------------------------- MODULE CloudJobsProofs ---------------------------
(***************************************************************************)
(* The HTTP transport of CloudJobs implements AtMostOnceCalls, for any     *)
(* calls, builds, boards and number of rounds, requests lost at any        *)
(* moment, and a server that takes late submissions and lets anyone cancel *)
(* any job.  CallInv ties what a client knows of its call to the job in    *)
(* the table: a refused job never appears, and only a call that ran        *)
(* completes.  BuildInv ties the progress lines of a build to its job: an  *)
(* answer on its way is no older than the last line and no newer than the  *)
(* table.                                                                  *)
(***************************************************************************)
EXTENDS CloudJobs, FiniteSetTheorems, TLAPS

CallInv(k) ==
  /\ (pc[k] = "idle") <=> (outcome[k] = "none")
  /\ (pc[k] = "done") <=> (outcome[k] \notin {"none", "pending"})
  /\ pc[k] = "idle" => net[k] = "quiet" /\ job[k] = "none"
  /\ net[k] = "refused" => job[k] = "none"
  /\ outcome[k] = "refused" => net[k] = "quiet" /\ job[k] = "none"
  /\ pc[k] = "poll" /\ net[k] = "complete" => job[k] = "complete"
  /\ pc[k] = "result" => job[k] = "complete"
  /\ outcome[k] \in {"ok", "failed"} => ran[k] = 1
  /\ ran[k] \in {0, 1}
  /\ ran[k] = 1 => job[k] \notin {"none", "queued"}
  /\ job[k] = "complete" => ran[k] = 1

\* A job that is polled was told to its own client and is in the table, builds
\* included.
ClientInv(a) ==
  /\ pc[a] \in {"poll", "result", "logs"} => id[a] = a /\ job[a] # "none"
  /\ net[a] = "created" => job[a] # "none"

IdInv == \A a \in Actors : ClientInv(a)

IInv == TypeOK /\ IdInv /\ \A k \in Calls : CallInv(k)

\* The names of the actors are kept apart, and all of them are names of jobs.
LEMMA Names ==
  /\ Calls \subseteq Actors /\ Builds \subseteq Actors /\ Actors \subseteq Jobs
  /\ \A a \in Actors : a \in Calls \/ a \in Builds
  /\ Calls \cap Builds = {} /\ None \notin Actors
  BY CloudAssumption DEF Actors, Jobs

-----------------------------------------------------------------------------
(* Types.                                                                  *)

\* Nothing is submitted at first.
LEMMA InitType == Init => TypeOK
  BY CloudAssumption, Names DEF Init, TypeOK, Active, Ended, Answers, Outcomes


\* The status of a job is one of the six.
LEMMA WorkType == ASSUME TypeOK, Work PROVE TypeOK'
  <1> USE Names
  <1>1. UNCHANGED <<order, pc, net, id, tries, outcome, got, board, known, lines>>
    BY DEF Work, Start, Execute, Assign, Finish, cancel_job, progress
  <1>2. ASSUME NEW j \in Jobs, Start(j) \/ Finish(j) \/ cancel_job(j) PROVE TypeOK'
    <2>1. job' \in [Jobs -> Active \cup Ended \cup {"none"}]
      BY <1>2 DEF TypeOK, Start, Finish, cancel_job, Active, Ended
    <2> QED BY <1>1, <1>2, <2>1 DEF TypeOK, Start, Finish, cancel_job
  <1>3. ASSUME NEW k \in Calls, Execute(k) PROVE TypeOK'
    BY <1>1, <1>3 DEF TypeOK, Execute
  <1>4. ASSUME NEW b \in Builds, Assign(b) PROVE TypeOK'
    BY <1>1, <1>4 DEF TypeOK, Assign
  <1> QED BY <1>2, <1>3, <1>4 DEF Work

\* What a query is answered is one of the answers a client expects.
LEMMA ServerType ==
  ASSUME TypeOK, IdInv, NEW a \in Actors, Server(a) PROVE TypeOK'
  <1> USE Names
  <1>1. CASE TakeSubmit(a)
    <2>1. job' \in [Jobs -> Active \cup Ended \cup {"none"}]
      BY <1>1 DEF TypeOK, TakeSubmit, Active
    <2>2. order' \in Seq(Jobs)
      <3>1. <<a>> \in Seq(Jobs) /\ order \in Seq(Jobs) BY DEF TypeOK
      <3>2. <<a>> \o order \in Seq(Jobs) BY <3>1
      <3>3. order' = <<a>> \o order \/ order' = order BY <1>1 DEF TakeSubmit
      <3> QED BY <3>1, <3>2, <3>3
    <2>3. net' \in [Actors -> Answers \cup {"quiet", "asked"}]
      BY <1>1 DEF TypeOK, TakeSubmit, Answers
    <2> QED BY <1>1, <2>1, <2>2, <2>3 DEF TypeOK, TakeSubmit, progress
  <1>2. CASE TakeQuery(a)
    <2>1. pc[a] = "poll" => id[a] = a /\ job[a] # "none" BY DEF IdInv, ClientInv
    <2>2. pc[a] = "poll" => job[id[a]] \in Answers
      BY <2>1 DEF TypeOK, Answers
    <2>3. net' \in [Actors -> Answers \cup {"quiet", "asked"}]
      <3>1. {"ok", "notok", "text"} \subseteq Answers BY DEF Answers
      <3>2. CASE pc[a] = "poll" /\ net' = [net EXCEPT ![a] = job[id[a]]]
        BY <2>2, <3>2 DEF TypeOK
      <3>3. CASE \E r \in {"ok", "notok", "text"} : net' = [net EXCEPT ![a] = r]
        BY <3>1, <3>3 DEF TypeOK
      <3> QED BY <1>2, <3>2, <3>3 DEF TakeQuery
    <2>4. board' \in [Builds -> Boards \cup {None}]
      <3>1. CASE pc[a] = "poll" /\ a \in Builds
        <4>1. fpga[id[a]] \in Boards \cup {None} BY <2>1, <3>1 DEF TypeOK
        <4>2. board' = [board EXCEPT ![a] = fpga[id[a]]] \/ board' = board
          BY <1>2, <3>1 DEF TakeQuery
        <4> QED BY <4>1, <4>2 DEF TypeOK
      <3>2. CASE ~(pc[a] = "poll" /\ a \in Builds)
        BY <1>2, <3>2 DEF TypeOK, TakeQuery
      <3> QED BY <3>1, <3>2
    <2> QED BY <1>2, <2>3, <2>4 DEF TypeOK, TakeQuery, server
  <1> QED BY <1>1, <1>2 DEF Server

\* A line of the progress shows the status that was read.
LEMMA UpdateType ==
  ASSUME TypeOK, NEW b \in Builds, NEW f \in Boards \cup {None},
         NEW status \in Active \cup Ended, update(b, status, f)
  PROVE  known' \in [Builds -> Boards \cup {None}] /\ lines' \in [Builds -> Seq(Line)]
  <1>1. known' \in [Builds -> Boards \cup {None}] BY DEF TypeOK, update
  <1> DEFINE l == [status |-> status, phase |-> Phase(status, known'[b])]
  <1>2. Phase(status, known'[b]) \in Active \cup Ended \cup {"building", "flashing"}
    BY DEF Phase
  <1>3. l \in Line BY <1>2 DEF Line
  <1>4. Append(lines[b], l) \in Seq(Line) BY <1>3 DEF TypeOK
  <1>5. lines' = lines \/ lines' = [lines EXCEPT ![b] = Append(lines[b], l)]
    BY DEF update
  <1> HIDE DEF l
  <1>6. lines' \in [Builds -> Seq(Line)] BY <1>4, <1>5 DEF TypeOK
  <1> QED BY <1>1, <1>6

\* What a client does keeps the types, for the calls and for the builds.
LEMMA ClientType ==
  ASSUME TypeOK, IdInv, NEW a \in Actors,
         Post(a) \/ Lose(a) \/ Posted(a)
  PROVE  TypeOK'
  <1> USE Names DEF TypeOK
  <1>1. CASE Post(a)
    BY <1>1 DEF Post, server, progress, Outcomes
  <1>2. CASE Lose(a)
    BY <1>2 DEF Lose, Tell, server, progress, Outcomes
  <1>3. CASE Posted(a)
    <2>1. CASE net[a] = "refused"
      BY <1>3, <2>1 DEF Posted, Tell, server, progress, Outcomes
    <2>2. CASE net[a] # "refused"
      <3>1. id' = [id EXCEPT ![a] = a] /\ pc' = [pc EXCEPT ![a] = "poll"]
        BY <1>3, <2>2 DEF Posted
      <3> QED BY <1>3, <2>2, <3>1 DEF Posted, server, progress
    <2> QED BY <2>1, <2>2
  <1> QED BY <1>1, <1>2, <1>3

LEMMA CallType ==
  ASSUME TypeOK, IdInv, NEW k \in Calls,
         PollRun(k) \/ PolledRun(k) \/ GiveUpRun(k) \/ Result(k)
  PROVE  TypeOK'
  <1> USE Names DEF TypeOK
  <1>1. CASE PollRun(k)
    BY <1>1, CloudAssumption DEF PollRun, server, progress
  <1>2. CASE PolledRun(k)
    BY <1>2 DEF PolledRun, Tell, server, progress, Outcomes
  <1>3. CASE GiveUpRun(k)
    BY <1>3 DEF GiveUpRun, Tell, server, progress, Outcomes
  <1>4. CASE Result(k)
    <2>1. id[k] = k BY <1>4 DEF Result, IdInv, ClientInv
    <2> QED BY <1>4, <2>1 DEF Result, Tell, server, progress, Outcomes
  <1> QED BY <1>1, <1>2, <1>3, <1>4

LEMMA BuildType ==
  ASSUME TypeOK, IdInv, NEW b \in Builds,
         PollJob(b) \/ PolledJob(b) \/ Logs(b) \/ Deadline(b)
  PROVE  TypeOK'
  <1> USE Names DEF TypeOK
  <1>1. CASE PollJob(b)
    BY <1>1 DEF PollJob, server, progress
  <1>2. CASE PolledJob(b)
    <2>1. known' \in [Builds -> Boards \cup {None}] /\ lines' \in [Builds -> Seq(Line)]
      <3>1. CASE net[b] \in {"failed", "cancelled"}
        BY <1>2, <3>1 DEF PolledJob, progress
      <3>2. CASE net[b] \notin {"failed", "cancelled"}
        BY <1>2, <3>2, UpdateType DEF PolledJob
      <3> QED BY <3>1, <3>2
    <2>2. /\ pc' \in [Actors -> {"idle", "submit", "poll", "result", "logs", "done"}]
          /\ net' \in [Actors -> Answers \cup {"quiet", "asked"}]
          /\ outcome' \in [Actors -> Outcomes]
      BY <1>2 DEF PolledJob, Tell, Outcomes
    <2>3. UNCHANGED <<server, id, tries, got, board>>
      BY <1>2 DEF PolledJob, progress
    <2> QED BY <2>1, <2>2, <2>3 DEF server
  <1>3. CASE Logs(b)
    BY <1>3 DEF Logs, Tell, server, progress, Outcomes
  <1>4. CASE Deadline(b)
    BY <1>4 DEF Deadline, Tell, server, progress, Outcomes
  <1> QED BY <1>1, <1>2, <1>3, <1>4

-----------------------------------------------------------------------------
(* What a client knows of its job.                                         *)

\* At first no job exists and nobody knows an id.
LEMMA InitInv == Init => IInv
  <1> SUFFICES ASSUME Init PROVE IInv OBVIOUS
  <1> USE Names
  <1>1. IdInv BY DEF Init, IdInv, ClientInv
  <1>2. \A k \in Calls : CallInv(k) BY DEF Init, CallInv
  <1> QED BY <1>1, <1>2, InitType DEF IInv

\* A job that exists goes on existing.
LEMMA IdStep ==
  ASSUME TypeOK, IdInv, TypeOK', [Next]_vars PROVE IdInv'
  <1> SUFFICES ASSUME NEW a \in Actors PROVE ClientInv(a)' BY DEF IdInv
  <1> USE Names DEF TypeOK, ClientInv
  <1>0. ClientInv(a) BY DEF IdInv
  <1>1. CASE Work
    BY <1>0, <1>1 DEF Work, Start, Execute, Assign, Finish, cancel_job
  <1>2. ASSUME NEW x \in Actors, TakeSubmit(x) PROVE ClientInv(a)'
    BY <1>0, <1>2 DEF TakeSubmit
  <1>3. ASSUME NEW x \in Actors, TakeQuery(x) PROVE ClientInv(a)'
    BY <1>0, <1>3 DEF TakeQuery, server
  <1>4. ASSUME NEW x \in Actors, Post(x) \/ Lose(x) \/ Posted(x) PROVE ClientInv(a)'
    BY <1>0, <1>4 DEF Post, Lose, Posted, Tell, server
  <1>5. ASSUME NEW x \in Calls, PollRun(x) \/ PolledRun(x) \/ GiveUpRun(x) \/ Result(x)
        PROVE  ClientInv(a)'
    BY <1>0, <1>5 DEF PollRun, PolledRun, GiveUpRun, Result, Tell, server
  <1>6. ASSUME NEW x \in Builds, PollJob(x) \/ PolledJob(x) \/ Logs(x) \/ Deadline(x)
        PROVE  ClientInv(a)'
    BY <1>0, <1>6 DEF PollJob, PolledJob, Logs, Deadline, Tell, server
  <1>7. CASE UNCHANGED vars
    BY <1>0, <1>7 DEF vars, server
  <1> QED BY <1>1, <1>2, <1>3, <1>4, <1>5, <1>6, <1>7 DEF Next, Server, Client

-----------------------------------------------------------------------------
(* What a call was told, and what became of it.                            *)

\* The workers: a call that completes ran, and one that never was a job never
\* ran.
LEMMA CallWork ==
  ASSUME TypeOK, NEW k \in Calls, CallInv(k), Work PROVE CallInv(k)'
  <1> USE Names DEF TypeOK, CallInv
  <1>1. UNCHANGED <<pc, net, id, outcome>> BY DEF Work
  <1>2. ASSUME NEW j \in Jobs, Start(j) PROVE CallInv(k)'
    BY <1>1, <1>2 DEF Start
  <1>3. ASSUME NEW j \in Jobs, Finish(j) PROVE CallInv(k)'
    BY <1>1, <1>3 DEF Finish
  <1>4. ASSUME NEW j \in Jobs, cancel_job(j) PROVE CallInv(k)'
    BY <1>1, <1>4 DEF cancel_job, Active
  <1>5. ASSUME NEW j \in Calls, Execute(j) PROVE CallInv(k)'
    BY <1>1, <1>5 DEF Execute
  <1>6. ASSUME NEW b \in Builds, Assign(b) PROVE CallInv(k)'
    BY <1>1, <1>6 DEF Assign
  <1> QED BY <1>2, <1>3, <1>4, <1>5, <1>6 DEF Work

\* The server's answers: a submission may still become a job after its client
\* gave up, but not after a refusal.
LEMMA CallServer ==
  ASSUME TypeOK, IdInv, NEW k \in Calls, CallInv(k), NEW a \in Actors, Server(a)
  PROVE  CallInv(k)'
  <1> USE Names DEF TypeOK, CallInv
  <1>0. ClientInv(a) BY DEF IdInv
  <1>1. CASE TakeSubmit(a)
    BY <1>0, <1>1 DEF TakeSubmit, ClientInv
  <1>2. CASE TakeQuery(a)
    <2>1. UNCHANGED <<job, ran, pc, id, outcome>> BY <1>2 DEF TakeQuery, server
    <2>2. CASE pc[a] = "poll" /\ net' = [net EXCEPT ![a] = job[id[a]]]
      <3>1. net' = [net EXCEPT ![a] = job[a]] /\ job[a] \notin {"created", "refused", "quiet"}
        BY <1>0, <2>2 DEF ClientInv, Active, Ended
      <3> QED BY <2>1, <2>2, <3>1
    <2>3. CASE \E r \in {"ok", "notok", "text"} : net' = [net EXCEPT ![a] = r]
      <3>1. pc[a] \in {"result", "logs"} \/ pc[a] = "poll"
        BY <1>2 DEF TakeQuery
      <3>2. outcome[k] = "refused" /\ a = k => FALSE
        BY <1>2 DEF TakeQuery
      <3>3. pc[a] # "idle" BY <3>1
      <3> QED BY <2>1, <2>3, <3>2, <3>3
    <2> QED BY <1>2, <2>2, <2>3 DEF TakeQuery
  <1> QED BY <1>1, <1>2 DEF Server

\* The clients.
LEMMA CallClient ==
  ASSUME TypeOK, IdInv, NEW k \in Calls, CallInv(k), NEW a \in Actors,
         Post(a) \/ Lose(a) \/ Client(a) \/ (a \in Builds /\ Deadline(a))
  PROVE  CallInv(k)'
  <1> USE Names DEF TypeOK, CallInv, server
  <1>0. ClientInv(a) BY DEF IdInv
  <1>1. CASE Post(a) BY <1>1 DEF Post
  <1>2. CASE Lose(a) BY <1>2 DEF Lose, Tell
  <1>3. CASE Posted(a) BY <1>0, <1>3 DEF Posted, Tell, ClientInv
  <1>4. CASE a \in Calls /\ PollRun(a) BY <1>4 DEF PollRun
  <1>5. CASE a \in Calls /\ PolledRun(a) BY <1>5 DEF PolledRun, Tell
  <1>6. CASE a \in Calls /\ GiveUpRun(a) BY <1>6 DEF GiveUpRun, Tell
  <1>7. CASE a \in Calls /\ Result(a) BY <1>7 DEF Result, Tell
  <1>8. CASE a \in Builds /\ (PollJob(a) \/ PolledJob(a) \/ Logs(a) \/ Deadline(a))
    <2>1. a # k BY <1>8
    <2>2. UNCHANGED <<job, ran, pc[k], net[k], outcome[k]>>
      BY <1>8, <2>1 DEF PollJob, PolledJob, Logs, Deadline, Tell
    <2> QED BY <2>2
  <1> QED BY <1>1, <1>2, <1>3, <1>4, <1>5, <1>6, <1>7, <1>8 DEF Client

\* Every step keeps the invariant.
LEMMA NextInv == IInv /\ [Next]_vars => IInv'
  <1> SUFFICES ASSUME IInv, [Next]_vars PROVE IInv' OBVIOUS
  <1> USE DEF IInv
  <1>1. TypeOK'
    <2>1. CASE UNCHANGED vars
      BY <2>1 DEF vars, server, progress, TypeOK
    <2>2. CASE Next
      BY <2>2, Names, WorkType, ServerType, ClientType, CallType, BuildType
      DEF Next, Client
    <2> QED BY <2>1, <2>2
  <1>2. IdInv' BY <1>1, IdStep
  <1>3. ASSUME NEW k \in Calls PROVE CallInv(k)'
    <2>1. CASE UNCHANGED vars
      BY <2>1 DEF vars, server, CallInv
    <2>2. CASE Next
      BY <2>2, Names, CallWork, CallServer, CallClient DEF Next
    <2> QED BY <2>1, <2>2
  <1> QED BY <1>1, <1>2, <1>3

\* The invariant holds in every reachable state.
THEOREM Invariance == Spec => []IInv
  <1> QED BY InitInv, NextInv, PTL DEF Spec

\* Every variable keeps its type: in particular the rounds of _poll_run stay
\* within their limit, and answers are those a client expects.
THEOREM TypeCorrect == Spec => []TypeOK
  <1>1. IInv => TypeOK BY DEF IInv
  <1> QED BY <1>1, Invariance, PTL

-----------------------------------------------------------------------------
(* The refinement.  A submission is the promise's Invoke, an execution its *)
(* Run; a result is an Answer, a refused submission a Refuse, and any      *)
(* other end a GiveUp.                                                     *)

\* Steps that tell no call anything and run none.
LEMMA Quiet ==
  ASSUME UNCHANGED <<got, ran>>, \A k \in Calls : outcome'[k] = outcome[k]
  PROVE  UNCHANGED Promise!vars
  <1>1. told' = told BY DEF told
  <1> QED BY <1>1 DEF Promise!vars

\* The end of one call.
LEMMA Ends ==
  ASSUME IInv, NEW k \in Calls, NEW o \in Outcomes,
         outcome[k] = "pending", outcome' = [outcome EXCEPT ![k] = o],
         UNCHANGED ran,
         \/ o \in {"lost", "ended", "timeout"} /\ UNCHANGED got
         \/ o = "refused" /\ ran[k] = 0 /\ UNCHANGED got
         \/ o \in {"ok", "failed"} /\ ran[k] = 1 /\ got' = [got EXCEPT ![k] = k]
  PROVE  Promise!Next
  <1> USE Names DEF IInv, TypeOK
  <1> DEFINE said == CASE o \in {"ended", "timeout"} -> "lost"
                       [] o = "refused" -> "noconn"
                       [] OTHER -> o
  <1>1. told[k] = "pending" BY DEF told
  <1>2. told' = [told EXCEPT ![k] = said] BY DEF told
  <1>3. CASE o \in {"lost", "ended", "timeout"} /\ UNCHANGED got
    <2>1. said = "lost" BY <1>3
    <2>2. Promise!GiveUp(k, "lost") BY <1>1, <1>2, <1>3, <2>1 DEF Promise!GiveUp
    <2> QED BY <2>2 DEF Promise!Next
  <1>4. CASE o = "refused" /\ ran[k] = 0 /\ UNCHANGED got
    <2>1. said = "noconn" BY <1>4
    <2>2. Promise!Refuse(k, "noconn") BY <1>1, <1>2, <1>4, <2>1 DEF Promise!Refuse
    <2> QED BY <2>2 DEF Promise!Next
  <1>5. CASE o \in {"ok", "failed"} /\ ran[k] = 1 /\ got' = [got EXCEPT ![k] = k]
    <2>1. said = o BY <1>5
    <2>2. Promise!Answer(k, o) BY <1>1, <1>2, <1>5, <2>1 DEF Promise!Answer
    <2> QED BY <1>5, <2>2 DEF Promise!Next
  <1> QED BY <1>3, <1>4, <1>5

\* What the server does: at most one call runs, and none that was answered or
\* refused.
LEMMA WorkPromised == ASSUME IInv, Work PROVE [Promise!Next]_(Promise!vars)
  <1> USE Names DEF IInv, TypeOK
  <1>1. CASE \E k \in Calls : Execute(k)
    <2>1. PICK k \in Calls : Execute(k) BY <1>1
    <2>2. CallInv(k) OBVIOUS
    <2>3. outcome[k] \in {"pending", "lost", "ended", "timeout"}
      BY <2>1, <2>2 DEF Execute, CallInv, Outcomes
    <2>4. told[k] \in {"pending", "lost"} BY <2>3 DEF told
    <2>5. UNCHANGED told BY DEF Work, told
    <2>6. Promise!Run(k) BY <2>1, <2>4, <2>5 DEF Execute, Work, Promise!Run
    <2> QED BY <2>6 DEF Promise!Next
  <1>2. CASE ~\E k \in Calls : Execute(k)
    <2>1. UNCHANGED ran BY <1>2 DEF Work, Start, Finish, cancel_job, Assign
    <2> QED BY <2>1, Quiet DEF Work
  <1> QED BY <1>1, <1>2

\* What a client does: it invokes, learns nothing new, or ends its call.
LEMMA ClientPromised ==
  ASSUME IInv, NEW k \in Calls, Post(k) \/ Lose(k) \/ Client(k)
  PROVE  [Promise!Next]_(Promise!vars)
  <1> USE Names DEF IInv, TypeOK
  <1>0. CallInv(k) /\ ClientInv(k) BY DEF IdInv
  <1>a. pc[k] \notin {"idle", "done"} => outcome[k] = "pending"
    BY <1>0 DEF CallInv
  <1>1. CASE Post(k)
    <2>1. told[k] = "none" BY <1>0, <1>1 DEF Post, CallInv, told
    <2>2. told' = [told EXCEPT ![k] = "pending"] BY <1>1 DEF Post, told
    <2>3. Promise!Invoke(k) BY <1>1, <2>1, <2>2 DEF Post, server, Promise!Invoke
    <2> QED BY <2>3 DEF Promise!Next
  <1>2. CASE Lose(k)
    BY <1>a, <1>2, Ends DEF Lose, Tell, server, Outcomes
  <1>3. CASE Posted(k)
    <2>1. CASE net[k] = "refused"
      <3>1. ran[k] = 0 BY <1>0, <2>1 DEF CallInv
      <3> QED BY <1>a, <1>3, <2>1, <3>1, Ends DEF Posted, Tell, server, Outcomes
    <2>2. CASE net[k] # "refused"
      BY <1>3, <2>2, Quiet DEF Posted, server
    <2> QED BY <2>1, <2>2
  <1>4. CASE PollRun(k)
    BY <1>4, Quiet DEF PollRun, server
  <1>5. CASE PolledRun(k)
    <2>1. CASE net[k] \in {"failed", "cancelled"}
      <3>1. outcome' = [outcome EXCEPT ![k] = "ended"]
        BY <1>5, <2>1 DEF PolledRun, Tell
      <3> QED BY <1>a, <1>5, <3>1, Ends DEF PolledRun, server, Outcomes
    <2>2. CASE net[k] \notin {"failed", "cancelled"}
      <3>1. UNCHANGED outcome BY <1>5, <2>2 DEF PolledRun
      <3> QED BY <1>5, <3>1, Quiet DEF PolledRun, server
    <2> QED BY <2>1, <2>2
  <1>6. CASE GiveUpRun(k)
    BY <1>a, <1>6, Ends DEF GiveUpRun, Tell, server, Outcomes
  <1>7. CASE Result(k)
    <2>1. ran[k] = 1 /\ id[k] = k BY <1>0, <1>7 DEF Result, CallInv, ClientInv
    <2>2. PICK o \in {"ok", "failed"} : outcome' = [outcome EXCEPT ![k] = o]
      BY <1>7 DEF Result, Tell
    <2>3. got' = [got EXCEPT ![k] = k] /\ UNCHANGED ran
      BY <1>7, <2>1 DEF Result, server
    <2> QED BY <1>a, <1>7, <2>1, <2>2, <2>3, Ends DEF Result, Outcomes
  <1> QED BY <1>1, <1>2, <1>3, <1>4, <1>5, <1>6, <1>7 DEF Client

\* Every step is a step of the promise, or none.
LEMMA StepPromised == IInv /\ [Next]_vars => [Promise!Next]_(Promise!vars)
  <1> SUFFICES ASSUME IInv, [Next]_vars PROVE [Promise!Next]_(Promise!vars)
    OBVIOUS
  <1> USE Names
  <1>1. CASE UNCHANGED vars BY <1>1, Quiet DEF vars, server
  <1>2. CASE Work BY <1>2, WorkPromised
  <1>3. ASSUME NEW a \in Actors, Server(a) PROVE [Promise!Next]_(Promise!vars)
    BY <1>3, Quiet DEF Server, TakeSubmit, TakeQuery, server
  <1>4. ASSUME NEW k \in Calls, Post(k) \/ Lose(k) \/ Client(k)
        PROVE  [Promise!Next]_(Promise!vars)
    BY <1>4, ClientPromised
  <1>5. ASSUME NEW b \in Builds, Post(b) \/ Lose(b) \/ Client(b) \/ Deadline(b)
        PROVE  [Promise!Next]_(Promise!vars)
    <2>1. b \notin Calls OBVIOUS
    <2>2. UNCHANGED <<got, ran>> /\ \A k \in Calls : outcome'[k] = outcome[k]
      BY <1>5, <2>1 DEF Post, Lose, Client, Posted, PollJob, PolledJob, Logs,
                        Deadline, Tell, server, IInv, TypeOK
    <2> QED BY <2>2, Quiet
  <1> QED BY <1>1, <1>2, <1>3, <1>4, <1>5 DEF Next

\* Every behaviour of the HTTP transport, whatever the workers, the network
\* and mrg cancel do, is a behaviour of AtMostOnceCalls.
THEOREM Implements == Spec => HttpAtMostOnce
  <1>1. Init => Promise!Init
    BY Names DEF Init, Promise!Init, told
  <1> QED BY <1>1, Invariance, StepPromised, PTL DEF Spec, HttpAtMostOnce, Promise!Spec
-----------------------------------------------------------------------------
(* The progress lines.  Statuses only go forward (Stage), an answer on its *)
(* way is no older than the last line and no newer than the table, and the *)
(* board the client knows is the one the build was given.                  *)

Stage(s) == CASE s = "none" -> 0 [] s = "queued" -> 1 [] s = "running" -> 2 [] OTHER -> 3

Last(l) == l[Len(l)]
Increasing(l) == \A i \in 1..Len(l) : i > 1 => Rank(l[i - 1].phase) < Rank(l[i].phase)

\* A line's phase is one of its status.
Meant(l) ==
  /\ l.status \in {"queued", "running", "complete"}
  /\ IF l.status = "running" THEN l.phase \in {"building", "flashing"} ELSE l.phase = l.status

\* The answer to a query, until it is read.
InFlight(b) == pc[b] = "poll" /\ net[b] \in Active \cup Ended
AnswerInv(b) ==
  InFlight(b) =>
    /\ Stage(net[b]) <= Stage(job[b])
    /\ net[b] = "complete" => board[b] # None
    /\ board[b] # None => board[b] = fpga[b]
    /\ lines[b] # <<>> => Stage(Last(lines[b]).status) <= Stage(net[b])

BoardInv(b) ==
  /\ job[b] = "complete" => fpga[b] # None
  /\ known[b] # None => known[b] = fpga[b]
  /\ outcome[b] = "ok" => known[b] # None

LineInv(b) ==
  /\ Increasing(lines[b])
  /\ lines[b] # <<>> =>
       /\ Meant(Last(lines[b]))
       /\ Stage(Last(lines[b]).status) <= Stage(job[b])
       /\ Rank(Last(lines[b]).phase) <= Rank(Phase(job[b], fpga[b]))

BuildInv(b) == AnswerInv(b) /\ BoardInv(b) /\ LineInv(b)
BuildsInv == \A b \in Builds : BuildInv(b)

\* What a build's invariant reads.
Seen(b) == <<job[b], fpga[b], pc[b], net[b], outcome[b], board[b], known[b], lines[b]>>

\* A build nothing happened to.
LEMMA BuildSame ==
  ASSUME NEW b \in Builds, BuildInv(b), UNCHANGED Seen(b) PROVE BuildInv(b)'
  BY DEF Seen, BuildInv, AnswerInv, BoardInv, LineInv, InFlight, Increasing, Last, Meant

\* Statuses and boards only go forward, so what was said of them stays true.
LEMMA BuildForward ==
  ASSUME TypeOK, NEW b \in Builds, BuildInv(b),
         UNCHANGED <<pc[b], net[b], outcome[b], board[b], known[b], lines[b]>>,
         Stage(job[b]) <= Stage(job'[b]), job[b] = "complete" => job'[b] = "complete",
         job'[b] \in Active \cup Ended, job'[b] = "complete" => fpga'[b] # None,
         fpga[b] # None => fpga'[b] = fpga[b]
  PROVE  BuildInv(b)'
  <1> DEFINE st == job[b]  st2 == job'[b]
  <1>0. st \in Active \cup Ended \cup {"none"} BY Names DEF TypeOK
  <1>1. Rank(Phase(st, fpga[b])) <= Rank(Phase(st2, fpga'[b])) \/ st = "none"
    BY <1>0 DEF Rank, Phase, Stage, Active, Ended
  <1>2. lines[b] # <<>> => st # "none"
    <2> SUFFICES ASSUME lines[b] # <<>>, st = "none" PROVE FALSE OBVIOUS
    <2> QED BY DEF BuildInv, LineInv, Meant, Stage
  <1>3. Stage(st) \in Nat /\ Stage(st2) \in Nat /\ Stage(net[b]) \in Nat
        /\ Stage(Last(lines[b]).status) \in Nat
    BY DEF Stage
  <1>4. /\ Rank(Last(lines[b]).phase) \in Nat
        /\ Rank(Phase(st, fpga[b])) \in Nat /\ Rank(Phase(st2, fpga'[b])) \in Nat
    BY DEF Rank
  <1> HIDE DEF st, st2
  <1>5. AnswerInv(b)'
    BY <1>3 DEF BuildInv, AnswerInv, InFlight, Last, st, st2
  <1>6. BoardInv(b)'
    BY DEF BuildInv, BoardInv
  <1>7. LineInv(b)'
    <2>1. lines'[b] = lines[b] OBVIOUS
    <2>2. Increasing(lines[b])' BY <2>1 DEF BuildInv, LineInv, Increasing
    <2>3. CASE lines[b] = <<>> BY <2>1, <2>2, <2>3 DEF LineInv
    <2>4. CASE lines[b] # <<>>
      <3>1. /\ Meant(Last(lines[b])) /\ Stage(Last(lines[b]).status) <= Stage(job[b])
            /\ Rank(Last(lines[b]).phase) <= Rank(Phase(st, fpga[b]))
        BY <2>4 DEF BuildInv, LineInv, st
      <3>2. Stage(Last(lines[b]).status) <= Stage(job'[b])
        BY <1>3, <3>1 DEF st, st2
      <3>3. Rank(Last(lines[b]).phase) <= Rank(Phase(st2, fpga'[b]))
        BY <1>1, <1>2, <1>4, <2>4, <3>1
      <3>4. /\ Last(lines[b])' = Last(lines[b])
            /\ Meant(Last(lines[b]))' <=> Meant(Last(lines[b]))
        BY <2>1 DEF Last, Meant
      <3>5. Stage(Last(lines[b]).status)' <= Stage(job[b])'
        BY <3>2, <3>4 DEF Stage
      <3>6. Rank(Last(lines[b]).phase)' <= Rank(Phase(job[b], fpga[b]))'
        BY <3>3, <3>4 DEF Rank, Phase, st2
      <3> QED BY <2>2, <3>1, <3>4, <3>5, <3>6 DEF LineInv
    <2> QED BY <2>3, <2>4
  <1> QED BY <1>5, <1>6, <1>7 DEF BuildInv

\* The worker's steps move a build's status forward.
LEMMA BuildWork ==
  ASSUME TypeOK, NEW b \in Builds, BuildInv(b), Work PROVE BuildInv(b)'
  <1> USE Names
  <1>1. UNCHANGED <<pc, net, outcome, board, known, lines>> BY DEF Work, progress
  <1>2. CASE UNCHANGED <<job[b], fpga[b]>> BY <1>1, <1>2, BuildSame DEF Seen
  <1>3. CASE /\ job[b] \in Active /\ fpga'[b] = fpga[b]
             /\ job'[b] \in {"running", "failed", "cancelled"}
        /\ (job'[b] = "running" => job[b] = "queued")
    <2>1. Stage(job[b]) <= Stage(job'[b]) /\ job[b] # "complete" /\ job'[b] # "complete"
      BY <1>3 DEF Stage, Active
    <2>2. job'[b] \in Active \cup Ended BY <1>3 DEF Active, Ended
    <2> QED BY <1>1, <1>3, <2>1, <2>2, BuildForward
  <1>4. CASE job[b] = "running" /\ job'[b] = "complete" /\ fpga'[b] = fpga[b] /\ fpga[b] # None
    <2>1. Stage(job[b]) <= Stage(job'[b]) BY <1>4 DEF Stage
    <2>2. job'[b] \in Active \cup Ended BY <1>4 DEF Ended
    <2> QED BY <1>1, <1>4, <2>1, <2>2, BuildForward
  <1>5. CASE job[b] = "running" /\ job'[b] = job[b] /\ fpga[b] = None
    <2>1. Stage(job[b]) <= Stage(job'[b]) BY <1>5 DEF Stage
    <2>2. job'[b] \in Active \cup Ended BY <1>5 DEF Active
    <2> QED BY <1>1, <1>5, <2>1, <2>2, BuildForward
  <1>6. ASSUME NEW j \in Jobs, Start(j) \/ Finish(j) \/ cancel_job(j) PROVE BuildInv(b)'
    <2>1. fpga' = fpga BY <1>6 DEF Start, Finish, cancel_job
    <2>2. CASE j # b
      <3>1. job'[b] = job[b] BY <1>6, <2>2 DEF TypeOK, Start, Finish, cancel_job
      <3> QED BY <2>1, <3>1, <1>2
    <2>3. CASE j = b
      <3>1. CASE Start(b) BY <2>1, <3>1, <1>3 DEF TypeOK, Start, Active
      <3>2. CASE Finish(b)
        <4>1. job[b] = "running" /\ (job'[b] = "failed" \/ (job'[b] = "complete" /\ fpga[b] # None))
          BY <3>2 DEF TypeOK, Finish
        <4> QED BY <2>1, <4>1, <1>3, <1>4 DEF Active
      <3>3. CASE cancel_job(b) BY <2>1, <3>3, <1>3 DEF TypeOK, cancel_job
      <3> QED BY <1>6, <2>3, <3>1, <3>2, <3>3
    <2> QED BY <2>2, <2>3
  <1>7. ASSUME NEW k \in Calls, Execute(k) PROVE BuildInv(b)'
    BY <1>2, <1>7 DEF Execute
  <1>8. ASSUME NEW c \in Builds, Assign(c) PROVE BuildInv(b)'
    <2>1. job' = job BY <1>8 DEF Assign
    <2>2. CASE c # b
      <3>1. fpga'[b] = fpga[b] BY <1>8, <2>2 DEF TypeOK, Assign
      <3> QED BY <2>1, <3>1, <1>2
    <2>3. CASE c = b BY <2>1, <2>3, <1>8, <1>5 DEF Assign
    <2> QED BY <2>2, <2>3
  <1> QED BY <1>6, <1>7, <1>8 DEF Work

\* A query is answered with the table, which is no older than the last line.
LEMMA BuildServer ==
  ASSUME TypeOK, IdInv, NEW b \in Builds, BuildInv(b), NEW a \in Actors, Server(a)
  PROVE  BuildInv(b)'
  <1> USE Names DEF TypeOK
  <1>0. ClientInv(a) BY DEF IdInv
  <1>1. UNCHANGED <<fpga, pc, outcome, known, lines>>
    BY DEF Server, TakeSubmit, TakeQuery, server, progress
  <1>2. CASE a # b
    <2>1. job'[b] = job[b] /\ net'[b] = net[b] /\ board'[b] = board[b]
      BY <1>2 DEF Server, TakeSubmit, TakeQuery, server, progress
    <2> QED BY <1>1, <2>1, BuildSame DEF Seen
  <1>3. CASE a = b /\ TakeSubmit(b)
    <2>1. board' = board /\ ~InFlight(b)'
      BY <1>1, <1>3 DEF TakeSubmit, progress, InFlight, Active, Ended
    <2>2. AnswerInv(b)' BY <2>1 DEF AnswerInv
    <2>3. lines[b] = <<>>
      <3> SUFFICES ASSUME lines[b] # <<>> PROVE FALSE OBVIOUS
      <3>1. job[b] = "none" BY <1>3 DEF TakeSubmit
      <3> QED BY <3>1 DEF BuildInv, LineInv, Meant, Stage
    <2>4. job'[b] # "complete" BY <1>3 DEF TakeSubmit
    <2>5. BoardInv(b)' BY <1>1, <2>4 DEF BuildInv, BoardInv
    <2>6. LineInv(b)' BY <1>1, <2>3 DEF LineInv, Increasing
    <2> QED BY <2>2, <2>5, <2>6 DEF BuildInv
  <1>4. CASE a = b /\ TakeQuery(b)
    <2>1. job' = job BY <1>4 DEF TakeQuery, server
    <2>2. BoardInv(b)' /\ LineInv(b)'
      BY <1>1, <2>1 DEF BuildInv, BoardInv, LineInv, Increasing, Last, Meant
    <2>3. CASE pc[b] = "poll"
      <3>1. id[b] = b /\ net'[b] = job[b] /\ board'[b] = fpga[b]
        BY <1>0, <1>4, <2>3 DEF TakeQuery, ClientInv
      <3>2. Stage(job[b]) \in Nat BY DEF Stage
      <3> QED BY <1>1, <2>1, <2>2, <3>1, <3>2
            DEF BuildInv, AnswerInv, BoardInv, LineInv, Last
    <2>4. CASE pc[b] # "poll"
      BY <1>1, <2>2, <2>4 DEF BuildInv, AnswerInv, InFlight
    <2> QED BY <2>3, <2>4
  <1> QED BY <1>2, <1>3, <1>4 DEF Server

\* A line further on than the last keeps the order.
LEMMA LineAdded ==
  ASSUME NEW l \in Seq(Line), NEW n \in Line, Increasing(l),
         l # <<>> => Rank(Last(l).phase) < Rank(n.phase)
  PROVE  Increasing(Append(l, n)) /\ Append(l, n) # <<>> /\ Last(Append(l, n)) = n
  <1>1. /\ Len(Append(l, n)) = Len(l) + 1 /\ Len(l) \in Nat
        /\ \A i \in 1..Len(l) : Append(l, n)[i] = l[i]
        /\ Append(l, n)[Len(l) + 1] = n
    OBVIOUS
  <1>2. ASSUME NEW i \in 1..Len(l) + 1, i > 1
        PROVE  Rank(Append(l, n)[i - 1].phase) < Rank(Append(l, n)[i].phase)
    <2>1. CASE i \in 1..Len(l)
      <3>1. i - 1 \in 1..Len(l) BY <1>1, <1>2, <2>1
      <3> QED BY <1>1, <1>2, <2>1, <3>1 DEF Increasing
    <2>2. CASE i = Len(l) + 1
      <3>1. Len(l) \in 1..Len(l) /\ l # <<>> BY <1>1, <1>2, <2>2
      <3>2. i - 1 = Len(l) BY <1>1, <2>2
      <3> QED BY <1>1, <2>2, <3>1, <3>2 DEF Last
    <2> QED BY <1>1, <1>2, <2>1, <2>2
  <1>3. Append(l, n) # <<>> /\ Last(Append(l, n)) = n BY <1>1 DEF Last
  <1> QED BY <1>1, <1>2, <1>3 DEF Increasing

\* A line of a later status has a later phase.
LEMMA Further ==
  ASSUME NEW o, NEW n, Meant(o), Meant(n), Stage(o.status) <= Stage(n.status),
         o.status # n.status
  PROVE  Rank(o.phase) < Rank(n.phase)
  BY DEF Meant, Stage, Rank

\* The answer read gets a line unless it repeats the last one's status.
LEMMA LineKept ==
  ASSUME TypeOK, NEW b \in Builds, BuildInv(b), InFlight(b),
         net[b] \notin {"failed", "cancelled"}, update(b, net[b], board[b])
  PROVE  LineInv(b)' \/ job' # job \/ fpga' # fpga
  <1> SUFFICES ASSUME job' = job, fpga' = fpga PROVE LineInv(b)' OBVIOUS
  <1> USE Names DEF TypeOK
  <1>1. net[b] \in {"queued", "running", "complete"} BY DEF InFlight, Active, Ended
  <1>2. CASE lines' = lines BY <1>2 DEF BuildInv, LineInv
  <1>3. CASE lines' # lines
    <2> DEFINE s == net[b]  n == [status |-> s, phase |-> Phase(s, known'[b])]
    <2>1. /\ lines'[b] = Append(lines[b], n)
          /\ lines[b] # <<>> => Last(lines[b]).status # s
      BY <1>3 DEF update, Last
    <2>2. n \in Line BY <1>1 DEF Line, Phase, Active, Ended
    <2>3. Meant(n) BY <1>1 DEF Meant, Phase
    <2>4. Stage(s) <= Stage(job[b]) BY DEF BuildInv, AnswerInv
    <2>5. known'[b] # None => fpga[b] # None
      BY DEF update, BuildInv, AnswerInv, BoardInv
    <2>6. Rank(n.phase) <= Rank(Phase(job[b], fpga[b]))
      <3>1. job[b] \in Active \cup Ended \cup {"none"} OBVIOUS
      <3> QED BY <1>1, <2>4, <2>5, <3>1 DEF Rank, Phase, Stage, Active, Ended
    <2>7. lines[b] # <<>> => Rank(Last(lines[b]).phase) < Rank(n.phase)
      <3> SUFFICES ASSUME lines[b] # <<>> PROVE Rank(Last(lines[b]).phase) < Rank(n.phase)
        OBVIOUS
      <3>1. Meant(Last(lines[b])) /\ Stage(Last(lines[b]).status) <= Stage(n.status)
        BY DEF BuildInv, LineInv, AnswerInv
      <3>2. Last(lines[b]).status # n.status BY <2>1
      <3> HIDE DEF n
      <3> QED BY <2>3, <3>1, <3>2, Further
    <2> HIDE DEF n
    <2>8. lines[b] \in Seq(Line) /\ Increasing(lines[b]) BY DEF BuildInv, LineInv
    <2>9. Increasing(lines'[b]) /\ Last(lines'[b]) = n
      BY <2>1, <2>2, <2>7, <2>8, LineAdded
    <2>10. n.status = s BY DEF n
    <2> QED BY <2>3, <2>4, <2>6, <2>9, <2>10 DEF LineInv
  <1> QED BY <1>2, <1>3

\* The client's steps: update writes a line, the others leave the lines alone.
LEMMA BuildClient ==
  ASSUME TypeOK, IdInv, NEW b \in Builds, BuildInv(b), NEW a \in Actors,
         Post(a) \/ Lose(a) \/ Client(a) \/ (a \in Builds /\ Deadline(a))
  PROVE  BuildInv(b)'
  <1> USE Names DEF TypeOK
  <1>1. job' = job /\ fpga' = fpga
    BY DEF Post, Lose, Client, Deadline, Posted, PollRun, PolledRun, GiveUpRun, Result,
           PollJob, PolledJob, Logs, server
  <1>2. CASE a # b
    <2>1. /\ pc'[b] = pc[b] /\ net'[b] = net[b] /\ outcome'[b] = outcome[b]
          /\ board'[b] = board[b]
      BY <1>2 DEF Post, Lose, Client, Deadline, Posted, PollRun, PolledRun, GiveUpRun,
                  Result, PollJob, PolledJob, Logs, Tell, progress
    <2>2. known'[b] = known[b] /\ lines'[b] = lines[b]
      BY <1>2 DEF Post, Lose, Client, Deadline, Posted, PollRun, PolledRun, GiveUpRun,
                  Result, PollJob, PolledJob, Logs, progress, update
    <2> QED BY <1>1, <2>1, <2>2, BuildSame DEF Seen
  <1>3. CASE a = b /\ ~PolledJob(b)
    <2>1. UNCHANGED progress
      BY <1>3 DEF Post, Lose, Client, Deadline, Posted, PollJob, Logs
    <2>2. pc'[b] = "poll" => net'[b] \in {"quiet", "asked"}
      BY <1>3 DEF Post, Lose, Client, Deadline, Posted, PollJob, Logs, Tell
    <2>3. outcome'[b] = "ok" => outcome[b] = "ok"
      BY <1>3 DEF Post, Lose, Client, Deadline, Posted, PollJob, Logs, Tell
    <2>4. AnswerInv(b)' BY <2>2 DEF AnswerInv, InFlight, Active, Ended
    <2>5. BoardInv(b)' BY <1>1, <2>1, <2>3 DEF BuildInv, BoardInv, progress
    <2>6. LineInv(b)' BY <1>1, <2>1 DEF BuildInv, LineInv, Increasing, Last, Meant, progress
    <2> QED BY <2>4, <2>5, <2>6 DEF BuildInv
  <1>4. CASE a = b /\ PolledJob(b) /\ net[b] \in {"failed", "cancelled"}
    <2>1. UNCHANGED <<outcome, progress>> /\ pc'[b] = "logs"
      BY <1>4 DEF PolledJob
    <2> QED BY <1>1, <2>1
          DEF BuildInv, AnswerInv, InFlight, BoardInv, LineInv, Increasing, Last, Meant, progress
  <1>5. CASE a = b /\ PolledJob(b) /\ net[b] \notin {"failed", "cancelled"}
    <2>1. InFlight(b) /\ update(b, net[b], board[b]) /\ net'[b] = "quiet"
      BY <1>5 DEF PolledJob, InFlight
    <2>2. AnswerInv(b)' BY <2>1 DEF AnswerInv, InFlight, Active, Ended
    <2>3. LineInv(b)' BY <1>1, <1>5, <2>1, LineKept
    <2>4. known'[b] = IF board[b] = None THEN known[b] ELSE board[b]
      BY <2>1 DEF update
    <2>5. outcome'[b] = "ok" => net[b] = "complete" \/ outcome[b] = "ok"
      BY <1>5 DEF PolledJob
    <2>6. BoardInv(b)'
      BY <1>1, <2>1, <2>4, <2>5 DEF BuildInv, AnswerInv, BoardInv
    <2> QED BY <2>2, <2>3, <2>6 DEF BuildInv
  <1> QED BY <1>2, <1>3, <1>4, <1>5

\* Every step keeps the invariant of the builds.
LEMMA BuildsStep == IInv /\ BuildsInv /\ [Next]_vars => BuildsInv'
  <1> SUFFICES ASSUME IInv, BuildsInv, [Next]_vars, NEW b \in Builds PROVE BuildInv(b)'
    BY DEF BuildsInv
  <1> USE DEF IInv
  <1>0. BuildInv(b) BY DEF BuildsInv
  <1>1. CASE UNCHANGED vars
    BY <1>0, <1>1, BuildSame DEF vars, server, progress, Seen
  <1>2. CASE Next
    BY <1>0, <1>2, Names, BuildWork, BuildServer, BuildClient DEF Next
  <1> QED BY <1>1, <1>2

\* Nothing has been said of any build at first.
LEMMA BuildsInit == Init => BuildsInv
  BY Names DEF Init, BuildsInv, BuildInv, AnswerInv, InFlight, BoardInv, LineInv, Increasing

\* The progress lines follow the build, however its statuses, the queries and
\* the losses interleave: none is repeated, out of order or ahead of the
\* server, and a build marked ready names the board it got.
THEOREM ProgressCorrect == Spec => []LinesHonest
  <1>1. BuildsInv => LinesHonest
    BY DEF BuildsInv, BuildInv, BoardInv, LineInv, Increasing, Last, LinesHonest
  <1>2. Spec => []BuildsInv
    BY BuildsInit, BuildsStep, Invariance, PTL DEF Spec
  <1> QED BY <1>1, <1>2, PTL

-----------------------------------------------------------------------------
(* The tables.                                                             *)

\* A set of numbers has a least one.
LEMMA LeastNumber ==
  ASSUME NEW T, T \subseteq Nat, T # {}
  PROVE  \E n \in T : \A m \in T : n <= m
  <1>1. IsWellFoundedOn(OpToRel(<, Nat), Nat)
    BY NatLessThanWellFounded
  <1>2. PICK n \in T : \A m \in T : ~(<<m, n>> \in OpToRel(<, Nat))
    BY <1>1, WFMin, Zenon
  <1>3. ASSUME NEW m \in T PROVE n <= m
    <2>1. <<m, n>> \in Nat \X Nat /\ ~(<<m, n>> \in {ss \in Nat \X Nat : ss[1] < ss[2]})
      BY <1>2, Zenon DEF OpToRel
    <2> QED BY <2>1
  <1> QED BY <1>3

\* The elements of part are those of the first n of whole that are in set, in their
\* order: at tells where each of them is.
Picks(at, part, whole, set, n) ==
  /\ at \in [1..Len(part) -> 1..n]
  /\ \A i \in 1..Len(part) : part[i] = whole[at[i]] /\ part[i] \in set
  /\ \A i, j \in 1..Len(part) : i < j => at[i] < at[j]
  /\ \A k \in 1..n : whole[k] \in set => \E i \in 1..Len(part) : at[i] = k
Sifted(part, whole, set, n) == \E at : Picks(at, part, whole, set, n)

\* One element more.
LEMMA SiftOne ==
  ASSUME NEW T, NEW whole \in Seq(T), NEW set, NEW part \in Seq(T), NEW n \in 1..Len(whole),
         Sifted(part, whole, set, n - 1),
         NEW next, next = IF whole[n] \in set THEN Append(part, whole[n]) ELSE part
  PROVE  next \in Seq(T) /\ Sifted(next, whole, set, n)
  <1>1. PICK at : Picks(at, part, whole, set, n - 1) BY DEF Sifted
  <1>2. n \in Nat \ {0} /\ whole[n] \in T /\ Len(part) \in Nat OBVIOUS
  <1>3. next \in Seq(T) BY <1>2
  <1>4. CASE whole[n] \in set
    <2>1. PICK m \in Nat : m = Len(part) BY <1>2
    <2>2. /\ Len(next) = m + 1 /\ next[m + 1] = whole[n]
          /\ \A i \in 1..m : next[i] = part[i]
      BY <1>2, <1>4, <2>1
    <2> DEFINE place(i) == IF i = m + 1 THEN n ELSE at[i]
    <2>3. PICK to : to = [i \in 1..(m + 1) |-> place(i)] OBVIOUS
    <2>4. to[m + 1] = n /\ \A i \in 1..m : to[i] = at[i] /\ to[i] \in 1..(n - 1)
      BY <1>1, <2>1, <2>3 DEF Picks
    <2>5. to \in [1..Len(next) -> 1..n]
      <3>0. at \in [1..m -> 1..(n - 1)] BY <1>1, <2>1, Zenon DEF Picks
      <3>1. ASSUME NEW i \in 1..(m + 1) PROVE place(i) \in 1..n
        <4>1. CASE i = m + 1 BY <1>2, <4>1
        <4>2. CASE i # m + 1
          <5>1. i \in 1..m BY <4>2
          <5>2. at[i] \in 1..(n - 1) BY <3>0, <5>1
          <5> QED BY <1>2, <4>2, <5>2
        <4> QED BY <4>1, <4>2
      <3> HIDE DEF place
      <3>2. to \in [1..(m + 1) -> 1..n] BY <2>3, <3>1
      <3> QED BY <2>2, <3>2
    <2>6. ASSUME NEW i \in 1..(m + 1) PROVE next[i] = whole[to[i]] /\ next[i] \in set
      BY <1>1, <1>4, <2>1, <2>2, <2>4 DEF Picks
    <2>7. ASSUME NEW i \in 1..(m + 1), NEW j \in 1..(m + 1), i < j PROVE to[i] < to[j]
      <3>1. CASE j = m + 1 BY <1>2, <2>4, <2>7, <3>1
      <3>2. CASE j # m + 1
        <4>1. i \in 1..m /\ j \in 1..m BY <2>7, <3>2
        <4> QED BY <1>1, <2>1, <2>4, <2>7, <4>1 DEF Picks
      <3> QED BY <3>1, <3>2
    <2>8. ASSUME NEW k \in 1..n, whole[k] \in set PROVE \E i \in 1..(m + 1) : to[i] = k
      <3>1. CASE k = n BY <2>4, <3>1
      <3>2. CASE k # n
        <4>1. k \in 1..(n - 1) BY <1>2, <3>2
        <4>2. PICK i \in 1..m : at[i] = k BY <1>1, <2>1, <2>8, <4>1 DEF Picks
        <4> QED BY <2>4, <4>2
      <3> QED BY <3>1, <3>2
    <2>9. Picks(to, next, whole, set, n) BY <2>2, <2>5, <2>6, <2>7, <2>8 DEF Picks
    <2> QED BY <1>3, <2>9 DEF Sifted
  <1>5. CASE whole[n] \notin set
    <2>1. at \in [1..Len(part) -> 1..n] BY <1>1, <1>2 DEF Picks
    <2>2. \A k \in 1..n : k = n \/ k \in 1..(n - 1) BY <1>2
    <2>3. Picks(at, part, whole, set, n) BY <1>1, <1>5, <2>1, <2>2 DEF Picks
    <2> QED BY <1>3, <1>5, <2>3 DEF Sifted
  <1> QED BY <1>4, <1>5

\* What Among keeps of a list.
LEMMA AmongSifted ==
  ASSUME NEW T, NEW whole \in Seq(T), NEW set
  PROVE  Among(whole, set) \in Seq(T) /\ Sifted(Among(whole, set), whole, set, Len(whole))
  <1>0. PICK n \in Nat : n = Len(whole) OBVIOUS
  <1> DEFINE Step(l, i) == IF whole[i] \in set THEN Append(l, whole[i]) ELSE l
             Grows(m) == {g \in [0..m -> Seq(T)] :
                            /\ g[0] = <<>>
                            /\ \A i \in 1..m : g[i] = Step(g[i - 1], i)
                            /\ Sifted(g[m], whole, set, m)}
             Missed == {m \in 0..n : Grows(m) = {}}
  <1>1. Missed \subseteq Nat OBVIOUS
  <1>2. ASSUME Missed # {} PROVE FALSE
    <2>1. PICK m \in Missed : \A k \in Missed : m <= k BY <1>1, <1>2, LeastNumber
    <2>2. CASE m = 0
      <3>1. PICK none : none = <<>> OBVIOUS
      <3>2. none \in Seq(T) /\ Len(none) = 0 BY <3>1
      <3>3. Picks([i \in 1..0 |-> 1], none, whole, set, 0) BY <3>2 DEF Picks
      <3>4. Sifted(none, whole, set, 0) BY <3>3 DEF Sifted
      <3>5. [i \in 0..0 |-> none] \in Grows(0) BY <3>1, <3>2, <3>4
      <3> QED BY <2>1, <2>2, <3>5
    <2>3. CASE m # 0
      <3>1. m \in 1..n /\ m - 1 \in 0..n /\ ~(m <= m - 1) BY <2>1, <2>3
      <3>2. PICK g : g \in Grows(m - 1) BY <2>1, <3>1
      <3>3. PICK last : last = Step(g[m - 1], m) OBVIOUS
      <3> DEFINE h == [i \in 0..m |-> IF i = m THEN last ELSE g[i]]
      <3>4. g[m - 1] \in Seq(T) /\ Sifted(g[m - 1], whole, set, m - 1) BY <3>1, <3>2
      <3>5. last \in Seq(T) /\ Sifted(last, whole, set, m)
        <4>1. last = IF whole[m] \in set THEN Append(g[m - 1], whole[m]) ELSE g[m - 1]
          BY <3>3
        <4>2. m \in 1..Len(whole) BY <1>0, <3>1
        <4> HIDE DEF Step, Grows, Missed
        <4> QED BY <3>4, <4>1, <4>2, SiftOne, Zenon
      <3>6. h \in [0..m -> Seq(T)] /\ h[m] = last BY <3>1, <3>2, <3>5
      <3>7. h[0] = <<>> BY <3>1, <3>2
      <3>8. ASSUME NEW i \in 1..m PROVE h[i] = Step(h[i - 1], i)
        <4>1. CASE i = m BY <3>1, <3>3, <4>1
        <4>2. CASE i # m
          <5>1. i \in 1..(m - 1) /\ i - 1 \in 0..m /\ i - 1 # m /\ i \in 0..m
            BY <3>1, <4>2
          <5>2. h[i] = g[i] /\ h[i - 1] = g[i - 1] BY <4>2, <5>1
          <5> QED BY <3>2, <5>1, <5>2
        <4> QED BY <4>1, <4>2
      <3> HIDE DEF h, Step
      <3>9. h \in Grows(m) BY <3>5, <3>6, <3>7, <3>8
      <3> QED BY <2>1, <3>9
    <2> QED BY <2>2, <2>3
  <1> HIDE DEF Grows
  <1>3. PICK g : g \in Grows(n) BY <1>0, <1>2
  <1> USE DEF Grows
  <1> DEFINE Built(f) == f = [i \in 0..n |-> IF i = 0 THEN <<>>
                                ELSE IF whole[i] \in set THEN Append(f[i - 1], whole[i])
                                ELSE f[i - 1]]
  <1>4. Built(g)
    <2>1. /\ g = [i \in 0..n |-> g[i]] /\ g[0] = <<>>
          /\ \A i \in 1..n : g[i] = IF whole[i] \in set THEN Append(g[i - 1], whole[i])
                                                        ELSE g[i - 1]
      BY <1>3
    <2>2. \A i \in 0..n : i = 0 \/ i \in 1..n OBVIOUS
    <2> QED BY <2>1, <2>2
  <1>5. ASSUME NEW f, Built(f) PROVE f[n] = g[n]
    <2> DEFINE U == {i \in 0..n : f[i] # g[i]}
    <2> SUFFICES ASSUME U # {} PROVE FALSE OBVIOUS
    <2>0. U \subseteq Nat OBVIOUS
    <2>1. PICK i \in U : \A k \in U : i <= k BY <2>0, LeastNumber
    <2>2. CASE i = 0 BY <1>4, <1>5, <2>1, <2>2
    <2>3. CASE i # 0
      <3>1. i \in 0..n /\ i - 1 \in 0..n /\ i - 1 \notin U BY <2>1, <2>3
      <3>2. f[i - 1] = g[i - 1] BY <3>1
      <3>3. /\ f[i] = IF whole[i] \in set THEN Append(f[i - 1], whole[i]) ELSE f[i - 1]
            /\ g[i] = IF whole[i] \in set THEN Append(g[i - 1], whole[i]) ELSE g[i - 1]
        BY <1>4, <1>5, <2>3, <3>1
      <3> QED BY <2>1, <3>2, <3>3
    <2> QED BY <2>2, <2>3
  <1>6. Among(whole, set) = (CHOOSE f : Built(f))[n] BY <1>0, Zenon DEF Among
  <1>7. Built(CHOOSE f : Built(f)) BY <1>4, Zenon
  <1>8. (CHOOSE f : Built(f))[n] = g[n] BY <1>5, <1>7, Zenon
  <1>9. g[n] \in Seq(T) /\ Sifted(g[n], whole, set, n) BY <1>3
  <1> HIDE DEF Grows, Built
  <1> QED BY <1>0, <1>6, <1>8, <1>9

\* What is kept of what was kept is kept of the whole.
LEMMA SiftTwice ==
  ASSUME NEW T, NEW whole \in Seq(T), NEW kept \in Seq(T), NEW part \in Seq(T),
         NEW S1, NEW S2, NEW at, NEW to,
         Picks(at, kept, whole, S1, Len(whole)), Picks(to, part, kept, S2, Len(kept))
  PROVE  Picks([i \in 1..Len(part) |-> at[to[i]]], part, whole, S1 \cap S2, Len(whole))
  <1> DEFINE both == [i \in 1..Len(part) |-> at[to[i]]]
  <1>0. Len(whole) \in Nat /\ Len(kept) \in Nat /\ Len(part) \in Nat OBVIOUS
  <1>1. /\ at \in [1..Len(kept) -> 1..Len(whole)]
        /\ to \in [1..Len(part) -> 1..Len(kept)]
    BY DEF Picks
  <1>2. \A i \in 1..Len(part) : to[i] \in 1..Len(kept) /\ both[i] = at[to[i]]
    BY <1>1
  <1>3. both \in [1..Len(part) -> 1..Len(whole)] BY <1>1
  <1> HIDE DEF both
  <1>4. \A i \in 1..Len(part) : part[i] = whole[both[i]] /\ part[i] \in S1 \cap S2
    BY <1>2 DEF Picks
  <1>5. ASSUME NEW i \in 1..Len(part), NEW j \in 1..Len(part), i < j
        PROVE  both[i] < both[j]
    <2>1. to[i] < to[j] BY <1>5 DEF Picks
    <2> QED BY <1>2, <2>1 DEF Picks
  <1>6. ASSUME NEW k \in 1..Len(whole), whole[k] \in S1 \cap S2
        PROVE  \E i \in 1..Len(part) : both[i] = k
    <2>1. PICK l \in 1..Len(kept) : at[l] = k BY <1>6 DEF Picks
    <2>2. kept[l] \in S2 BY <1>6, <2>1 DEF Picks
    <2>3. PICK i \in 1..Len(part) : to[i] = l BY <2>2 DEF Picks
    <2> QED BY <1>2, <2>1, <2>3
  <1>7. Picks(both, part, whole, S1 \cap S2, Len(whole))
    BY <1>3, <1>4, <1>5, <1>6, Zenon DEF Picks
  <1> QED BY <1>7 DEF both

\* No place of a list is taken by two jobs, and none by a job twice.
Distinct(l) == \A i, j \in 1..Len(l) : l[i] = l[j] => i = j

\* A list without repetitions keeps as many entries as the set has among its own.
LEMMA SiftCount ==
  ASSUME NEW T, NEW whole \in Seq(T), NEW part \in Seq(T), NEW set, NEW at,
         Distinct(whole), Picks(at, part, whole, set, Len(whole))
  PROVE  Len(part) = Cardinality({whole[k] : k \in 1..Len(whole)} \cap set)
  <1> DEFINE S == {whole[k] : k \in 1..Len(whole)} \cap set
             f == [i \in 1..Len(part) |-> part[i]]
  <1>0. PICK m \in Nat : m = Len(part) OBVIOUS
  <1>1. at \in [1..m -> 1..Len(whole)] BY <1>0 DEF Picks
  <1>2. ASSUME NEW i \in 1..m PROVE f[i] = part[i] /\ part[i] \in S
    BY <1>0, <1>1 DEF Picks
  <1>3. f \in [1..m -> S] BY <1>0, <1>2
  <1>4. ASSUME NEW i \in 1..m, NEW j \in 1..m, f[i] = f[j] PROVE i = j
    <2>1. whole[at[i]] = whole[at[j]] BY <1>0, <1>2, <1>4 DEF Picks
    <2>2. at[i] = at[j] BY <1>1, <2>1 DEF Distinct
    <2>3. i \in Int /\ j \in Int /\ at[i] \in Int /\ at[j] \in Int BY <1>1
    <2>4. ~(i < j) /\ ~(j < i) BY <1>0, <2>2, <2>3 DEF Picks
    <2> QED BY <2>3, <2>4
  <1>5. ASSUME NEW j \in S PROVE \E i \in 1..m : f[i] = j
    <2>1. PICK k \in 1..Len(whole) : whole[k] = j BY <1>5
    <2>2. PICK i \in 1..m : at[i] = k BY <1>0, <2>1 DEF Picks
    <2>3. part[i] = whole[at[i]] BY <1>0 DEF Picks
    <2> QED BY <1>2, <2>1, <2>2, <2>3
  <1> HIDE DEF f, S
  <1>6. f \in Bijection(1..m, S)
    BY <1>3, <1>4, <1>5 DEF Bijection, Injection, Surjection, IsInjective
  <1>7. ExistsBijection(1..m, S) BY <1>6 DEF ExistsBijection
  <1>8. IsFiniteSet(1..m) /\ Cardinality(1..m) = m
    <2>1. 1 \in Int /\ m \in Int BY <1>0
    <2>2. /\ IsFiniteSet(1..m)
          /\ Cardinality(1..m) = IF 1 > m THEN 0 ELSE m - 1 + 1
      BY <2>1, FS_Interval, Zenon
    <2>3. (IF 1 > m THEN 0 ELSE m - 1 + 1) = m BY <1>0
    <2> QED BY <2>2, <2>3
  <1>9. Cardinality(S) = m BY <1>7, <1>8, FS_Bijection
  <1> QED BY <1>0, <1>9 DEF S

\* The table of the server: no job has two places in it, and a job has one as soon
\* as it is a job.
OrderInv ==
  /\ Distinct(order)
  /\ \A j \in Jobs : job[j] # "none" <=> \E i \in 1..Len(order) : order[i] = j

\* At first the table holds the jobs of earlier days.
LEMMA OrderInit == Init => OrderInv
  <1> SUFFICES ASSUME Init PROVE OrderInv OBVIOUS
  <1>1. Distinct(order) BY CloudAssumption DEF Init, Distinct
  <1>2. ASSUME NEW j \in Jobs
        PROVE  job[j] # "none" <=> \E i \in 1..Len(order) : order[i] = j
    <2>1. job[j] # "none" <=> j \notin Actors BY DEF Init
    <2>2. order = Earlier BY DEF Init
    <2>3. j \notin Actors <=> \E i \in 1..Len(Earlier) : Earlier[i] = j
      BY CloudAssumption DEF Jobs
    <2> QED BY <2>1, <2>2, <2>3
  <1> QED BY <1>1, <1>2 DEF OrderInv

\* A new job goes before all others.
LEMMA OrderGrows ==
  ASSUME TypeOK, OrderInv, NEW a \in Actors, job[a] = "none",
         job' = [job EXCEPT ![a] = "queued"], order' = <<a>> \o order
  PROVE  OrderInv'
  <1>0. a \in Jobs /\ order \in Seq(Jobs) BY Names DEF TypeOK
  <1>1. PICK n \in Nat : n = Len(order) BY <1>0
  <1>2. PICK one : one = <<a>> OBVIOUS
  <1>3. one \in Seq(Jobs) /\ Len(one) = 1 /\ one[1] = a BY <1>0, <1>2
  <1>4. order' = one \o order BY <1>2
  <1>5. /\ Len(order') = n + 1 /\ order'[1] = a
        /\ \A i \in 2..(n + 1) : order'[i] = order[i - 1]
    BY <1>0, <1>1, <1>3, <1>4
  <1>6. \A i \in 1..n : order[i] # a BY <1>0, <1>1 DEF OrderInv
  <1>7. ASSUME NEW i \in 1..(n + 1), NEW j \in 1..(n + 1), order'[i] = order'[j]
        PROVE  i = j
    <2>1. CASE i = 1 /\ j # 1
      <3>1. j \in 2..(n + 1) /\ j - 1 \in 1..n BY <2>1
      <3> QED BY <1>5, <1>6, <1>7, <2>1, <3>1
    <2>2. CASE i # 1 /\ j = 1
      <3>1. i \in 2..(n + 1) /\ i - 1 \in 1..n BY <2>2
      <3> QED BY <1>5, <1>6, <1>7, <2>2, <3>1
    <2>3. CASE i # 1 /\ j # 1
      <3>1. /\ i \in 2..(n + 1) /\ i - 1 \in 1..n
            /\ j \in 2..(n + 1) /\ j - 1 \in 1..n
        BY <2>3
      <3>2. i - 1 = j - 1 BY <1>1, <1>5, <1>7, <3>1 DEF OrderInv, Distinct
      <3> QED BY <3>1, <3>2
    <2> QED BY <2>1, <2>2, <2>3
  <1>8. ASSUME NEW j \in Jobs
        PROVE  job'[j] # "none" <=> \E i \in 1..(n + 1) : order'[i] = j
    <2>0. job'[j] = IF j = a THEN "queued" ELSE job[j] BY DEF TypeOK
    <2>1. CASE j = a
      <3>1. 1 \in 1..(n + 1) OBVIOUS
      <3> QED BY <1>5, <2>0, <2>1, <3>1
    <2>2. CASE j # a
      <3>1. job[j] # "none" <=> \E i \in 1..n : order[i] = j
        BY <1>1 DEF OrderInv
      <3>2. ASSUME NEW i \in 1..n, order[i] = j
            PROVE  \E k \in 1..(n + 1) : order'[k] = j
        <4>1. i + 1 \in 2..(n + 1) /\ i + 1 \in 1..(n + 1) /\ (i + 1) - 1 = i OBVIOUS
        <4>2. order'[i + 1] = order[(i + 1) - 1] BY <1>5, <4>1
        <4> QED BY <3>2, <4>1, <4>2
      <3>3. ASSUME NEW k \in 1..(n + 1), order'[k] = j
            PROVE  \E i \in 1..n : order[i] = j
        <4>1. k # 1 BY <1>5, <2>2, <3>3
        <4>2. k \in 2..(n + 1) /\ k - 1 \in 1..n BY <4>1
        <4> QED BY <1>5, <3>3, <4>2
      <3> QED BY <2>0, <2>2, <3>1, <3>2, <3>3
    <2> QED BY <2>1, <2>2
  <1> QED BY <1>5, <1>7, <1>8 DEF OrderInv, Distinct

\* Nothing else adds a job or forgets one.
LEMMA OrderStep == TypeOK /\ OrderInv /\ [Next]_vars => OrderInv'
  <1> SUFFICES ASSUME TypeOK, OrderInv, [Next]_vars PROVE OrderInv'
    OBVIOUS
  <1>1. ASSUME UNCHANGED order, \A j \in Jobs : job'[j] # "none" <=> job[j] # "none"
        PROVE  OrderInv'
    BY <1>1 DEF OrderInv, Distinct
  <1>2. CASE UNCHANGED vars BY <1>1, <1>2 DEF vars, server
  <1>3. CASE Work
    <2>1. UNCHANGED order
      BY <1>3 DEF Work, Start, Execute, Assign, Finish, cancel_job
    <2>2. job' = job \/ \E j \in Jobs : \E s \in Active \cup Ended :
                          job[j] \in Active /\ job' = [job EXCEPT ![j] = s]
      BY <1>3 DEF Work, Start, Execute, Assign, Finish, cancel_job, Active, Ended
    <2>3. \A j \in Jobs : job'[j] # "none" <=> job[j] # "none"
      BY <2>2 DEF TypeOK, Active, Ended
    <2> QED BY <1>1, <2>1, <2>3
  <1>4. ASSUME NEW a \in Actors, Server(a) PROVE OrderInv'
    <2>1. CASE job[a] = "none" /\ job' = [job EXCEPT ![a] = "queued"]
               /\ order' = <<a>> \o order
      BY <2>1, OrderGrows
    <2>2. CASE UNCHANGED <<job, order>> BY <1>1, <2>2
    <2> QED BY <1>4, <2>1, <2>2 DEF Server, TakeSubmit, TakeQuery, server
  <1>5. ASSUME NEW a \in Actors, Post(a) \/ Lose(a) \/ Client(a) PROVE OrderInv'
    <2>1. UNCHANGED server
      BY <1>5 DEF Post, Lose, Client, Posted, PollRun, PolledRun, GiveUpRun, Result,
                  PollJob, PolledJob, Logs
    <2> QED BY <1>1, <2>1 DEF server
  <1>6. ASSUME NEW b \in Builds, Deadline(b) PROVE OrderInv'
    BY <1>1, <1>6 DEF Deadline, server
  <1> QED BY <1>2, <1>3, <1>4, <1>5, <1>6 DEF Next

\* The table of jobs of one status, and those of one type among them.
Asked(s) == {j \in Jobs : s = None \/ job[j] = s}

\* What mrg jobs has before it prints: the jobs asked for and, of them, those of
\* the type, all of them entries of the table in its order.
LEMMA Matching ==
  ASSUME TypeOK, NEW s, NEW t
  PROVE  /\ list_jobs(s) \in Seq(Jobs)
         /\ \E at : Picks(at, list_jobs(s), order, Asked(s), Len(order))
         /\ Among(list_jobs(s), OfType(t)) \in Seq(Jobs)
         /\ \E to : Picks(to, Among(list_jobs(s), OfType(t)), order,
                          Asked(s) \cap OfType(t), Len(order))
  <1>1. order \in Seq(Jobs) BY DEF TypeOK
  <1>2. list_jobs(s) = Among(order, Asked(s)) BY DEF list_jobs, Asked
  <1>3. list_jobs(s) \in Seq(Jobs) /\ Sifted(list_jobs(s), order, Asked(s), Len(order))
    BY <1>1, <1>2, AmongSifted
  <1>4. PICK l \in Seq(Jobs) : l = list_jobs(s) BY <1>3
  <1>5. PICK part : part = Among(l, OfType(t)) OBVIOUS
  <1>6. part \in Seq(Jobs) /\ Sifted(part, l, OfType(t), Len(l))
    BY <1>4, <1>5, AmongSifted
  <1>7. PICK at : Picks(at, l, order, Asked(s), Len(order)) BY <1>3, <1>4 DEF Sifted
  <1>8. PICK to : Picks(to, part, l, OfType(t), Len(l)) BY <1>6 DEF Sifted
  <1>9. Picks([i \in 1..Len(part) |-> at[to[i]]], part, order,
              Asked(s) \cap OfType(t), Len(order))
    BY <1>1, <1>4, <1>6, <1>7, <1>8, SiftTwice
  <1> QED BY <1>3, <1>4, <1>5, <1>6, <1>7, <1>9

\* The first n entries of a list.
LEMMA FirstOnes ==
  ASSUME NEW T, NEW l \in Seq(T), NEW n \in Nat,
         NEW first, first = SubSeq(l, 1, IF n < Len(l) THEN n ELSE Len(l))
  PROVE  /\ Len(first) = IF n < Len(l) THEN n ELSE Len(l)
         /\ \A i \in 1..Len(first) : i \in 1..Len(l) /\ first[i] = l[i]
         /\ \A i \in 1..Len(l) : i <= n => i \in 1..Len(first)
  <1>1. PICK k \in Nat : k = IF n < Len(l) THEN n ELSE Len(l) OBVIOUS
  <1>2. first = SubSeq(l, 1, k) /\ k <= Len(l) /\ Len(l) \in Nat BY <1>1
  <1>3. Len(first) = k /\ \A i \in 1..k : first[i] = l[i] BY <1>2
  <1> QED BY <1>1, <1>2, <1>3

\* If any job is shown, every job of the status asked for is shown or counted.
LEMMA AllCounted ==
  ASSUME TypeOK, OrderInv, NEW s \in Statuses, NEW t \in Types, NEW n \in Nat
  PROVE  LET v == cmd_jobs(s, t, n)
         IN  v.shown # <<>> =>
               Len(v.shown) + v.older + v.other
                 = Cardinality({j \in Jobs : job[j] # "none" /\ (s = None \/ job[j] = s)})
  <1>1. PICK l \in Seq(Jobs) : l = list_jobs(s) BY Matching
  <1>2. PICK part \in Seq(Jobs) : part = Among(l, OfType(t)) BY <1>1, Matching
  <1>3. PICK first : first = SubSeq(part, 1, IF n < Len(part) THEN n ELSE Len(part))
    OBVIOUS
  <1>4. Len(first) \in Nat /\ Len(part) \in Nat /\ Len(l) \in Nat
    BY <1>3, FirstOnes
  <1>5. PICK at : Picks(at, l, order, Asked(s), Len(order)) BY <1>1, Matching
  <1>6. order \in Seq(Jobs) /\ Distinct(order) BY DEF TypeOK, OrderInv
  <1>7. Len(l) = Cardinality({order[k] : k \in 1..Len(order)} \cap Asked(s))
    BY <1>5, <1>6, SiftCount
  <1>8. {order[k] : k \in 1..Len(order)} \cap Asked(s)
          = {j \in Jobs : job[j] # "none" /\ (s = None \/ job[j] = s)}
    BY <1>6 DEF OrderInv, Asked
  <1>9. cmd_jobs(s, t, n) = Table(l, part, first, t)
    BY <1>1, <1>2, <1>3 DEF cmd_jobs, First
  <1>10. Len(first) + (Len(part) - Len(first)) + (Len(l) - Len(part)) = Len(l)
    BY <1>4
  <1>11. PICK v : v = cmd_jobs(s, t, n) OBVIOUS
  <1>12. /\ v.shown = first
         /\ first # <<>> => /\ v.older = Len(part) - Len(first)
                            /\ v.other = Len(l) - Len(part)
    BY <1>9, <1>11 DEF Table
  <1>13. v.shown # <<>> =>
           Len(v.shown) + v.older + v.other
             = Cardinality({j \in Jobs : job[j] # "none" /\ (s = None \/ job[j] = s)})
    BY <1>7, <1>8, <1>10, <1>12
  <1> QED BY <1>11, <1>13

\* The jobs a table shows, and where a job is in the server's.
Shown(s, t, n) == LET v == cmd_jobs(s, t, n) IN {v.shown[i] : i \in 1..Len(v.shown)}
Place(j) == CHOOSE i \in 1..Len(order) : order[i] = j

\* A table has a row, or shows no job.
LEMMA RowsShown ==
  ASSUME TypeOK, OrderInv, NEW s \in Statuses, NEW t \in Types, NEW n \in Nat
  PROVE  LET v == cmd_jobs(s, t, n)
         IN  {v.shown[i] : i \in 1..Len(v.shown)} # {} <=> v.shown # <<>>
  <1>1. PICK part \in Seq(Jobs) : part = Among(list_jobs(s), OfType(t)) BY Matching
  <1>2. PICK first : first = SubSeq(part, 1, IF n < Len(part) THEN n ELSE Len(part))
    OBVIOUS
  <1>3. cmd_jobs(s, t, n).shown = first BY <1>1, <1>2 DEF cmd_jobs, Table, First
  <1>4. first \in Seq(Jobs) BY <1>2, FirstOnes
  <1>5. {first[i] : i \in 1..Len(first)} # {} <=> first # <<>>
    <2>1. first # <<>> => 1 \in 1..Len(first) BY <1>4
    <2>2. first = <<>> => 1..Len(first) = {} OBVIOUS
    <2> QED BY <2>1, <2>2
  <1> QED BY <1>3, <1>5

\* A hidden job of the type is older than every shown one, and hides behind some.
LEMMA NewestShown ==
  ASSUME TypeOK, OrderInv, NEW s \in Statuses, NEW t \in Types, NEW n \in Nat \ {0},
         NEW j \in Jobs, job[j] # "none", s = None \/ job[j] = s, t \in {"all", Kind(j)},
         j \notin Shown(s, t, n)
  PROVE  Shown(s, t, n) # {} /\ \A k \in Shown(s, t, n) : Place(k) < Place(j)
  <1>1. PICK part \in Seq(Jobs) : part = Among(list_jobs(s), OfType(t)) BY Matching
  <1>2. PICK to : Picks(to, part, order, Asked(s) \cap OfType(t), Len(order))
    BY <1>1, Matching
  <1>3. PICK first : first = SubSeq(part, 1, IF n < Len(part) THEN n ELSE Len(part))
    OBVIOUS
  <1>4. cmd_jobs(s, t, n).shown = first BY <1>1, <1>3 DEF cmd_jobs, Table, First
  <1>5. PICK here : here = {first[i] : i \in 1..Len(first)} OBVIOUS
  <1>6. here = Shown(s, t, n) BY <1>4, <1>5 DEF Shown
  <1>7. ASSUME NEW i \in 1..Len(order) PROVE Place(order[i]) = i
    <2>1. Place(order[i]) \in 1..Len(order) /\ order[Place(order[i])] = order[i]
      BY DEF Place
    <2> QED BY <2>1 DEF OrderInv, Distinct
  <1>8. to \in [1..Len(part) -> 1..Len(order)] /\ Len(part) \in Nat
    BY <1>2 DEF Picks
  <1>9. ASSUME NEW i \in 1..Len(part) PROVE Place(part[i]) = to[i]
    BY <1>2, <1>7, <1>8 DEF Picks
  <1>10. j \in Asked(s) \cap OfType(t) BY DEF Asked, OfType
  <1>11. PICK p \in 1..Len(order) : order[p] = j BY DEF OrderInv
  <1>12. PICK h \in 1..Len(part) : part[h] = j
    <2>1. PICK i \in 1..Len(part) : to[i] = p BY <1>2, <1>10, <1>11 DEF Picks
    <2> QED BY <1>2, <1>11, <2>1 DEF Picks
  <1>13. /\ Len(first) = IF n < Len(part) THEN n ELSE Len(part)
         /\ \A i \in 1..Len(first) : i \in 1..Len(part) /\ first[i] = part[i]
         /\ \A i \in 1..Len(part) : i <= n => i \in 1..Len(first)
    BY <1>3, FirstOnes
  <1>14. h \notin 1..Len(first) BY <1>5, <1>6, <1>12, <1>13
  <1>15. n < h /\ Len(first) = n BY <1>8, <1>12, <1>13, <1>14
  <1>16. first[1] \in here BY <1>5, <1>15
  <1>17. ASSUME NEW k \in here PROVE Place(k) < Place(j)
    <2>1. PICK i \in 1..Len(first) : first[i] = k BY <1>5
    <2>2. i \in 1..Len(part) /\ part[i] = k /\ i < h BY <1>13, <1>15, <2>1
    <2>3. to[i] < to[h] BY <1>2, <2>2 DEF Picks
    <2> QED BY <1>9, <1>12, <2>2, <2>3
  <1> QED BY <1>6, <1>16, <1>17

\* mrg status lists the builds that have not ended.
LEMMA ActiveListed ==
  ASSUME TypeOK, OrderInv
  PROVE  {active_builds[i] : i \in 1..Len(active_builds)} = {b \in Builds : job[b] \in Active}
  <1>1. PICK l \in Seq(Jobs) : l = list_jobs(None) BY Matching
  <1>2. PICK at : Picks(at, l, order, Asked(None), Len(order)) BY <1>1, Matching
  <1>3. PICK A : A = {b \in Builds : job[b] \in Active} OBVIOUS
  <1>4. PICK r : r = active_builds OBVIOUS
  <1>5. r = Among(l, A) BY <1>1, <1>3, <1>4 DEF active_builds
  <1>6. Sifted(r, l, A, Len(l)) BY <1>5, AmongSifted
  <1>7. PICK to : Picks(to, r, l, A, Len(l)) BY <1>6 DEF Sifted
  <1>8. \A i \in 1..Len(r) : r[i] \in A BY <1>7 DEF Picks
  <1>9. ASSUME NEW b \in A PROVE \E i \in 1..Len(r) : r[i] = b
    <2>1. b \in Jobs /\ job[b] # "none" BY <1>3, Names DEF Active
    <2>2. PICK p \in 1..Len(order) : order[p] = b BY <2>1 DEF OrderInv
    <2>3. b \in Asked(None) BY <2>1 DEF Asked
    <2>4. PICK k \in 1..Len(l) : at[k] = p BY <1>2, <2>2, <2>3 DEF Picks
    <2>5. l[k] = b BY <1>2, <2>2, <2>4 DEF Picks
    <2>6. PICK i \in 1..Len(r) : to[i] = k BY <1>7, <1>9, <2>5 DEF Picks
    <2> QED BY <1>7, <2>5, <2>6 DEF Picks
  <1>10. {r[i] : i \in 1..Len(r)} = A BY <1>8, <1>9
  <1> QED BY <1>3, <1>4, <1>10

\* mrg jobs and mrg status lose sight of no job, whatever the limit, the status
\* and the type asked for, and however many jobs there are: a table that shows
\* something counts what it hides, nothing hidden is newer than anything shown,
\* and an empty one points at the other types.
THEOREM ListingCorrect == Spec => []ListingAccounts
  <1>1. TypeOK /\ OrderInv => ListingAccounts
    <2> SUFFICES ASSUME TypeOK, OrderInv PROVE ListingAccounts OBVIOUS
    <2>1. \A n \in 1..3 : n \in Nat /\ n \in Nat \ {0} OBVIOUS
    <2>2. ASSUME NEW s \in Statuses, NEW t \in Types, NEW n \in 1..3
          PROVE  LET v == cmd_jobs(s, t, n)
                     asked == {j \in Jobs : job[j] # "none" /\ (s = None \/ job[j] = s)}
                     here == {v.shown[i] : i \in 1..Len(v.shown)}
                     place(j) == CHOOSE i \in 1..Len(order) : order[i] = j
                 IN /\ here # {} => Len(v.shown) + v.older + v.other = Cardinality(asked)
                    /\ here = {} => v.hint \/ asked = {}
                    /\ \A j \in asked \ here : t \in {"all", Kind(j)} =>
                         here # {} /\ \A k \in here : place(k) < place(j)
      <3> DEFINE v == cmd_jobs(s, t, n)
                 asked == {j \in Jobs : job[j] # "none" /\ (s = None \/ job[j] = s)}
                 here == {v.shown[i] : i \in 1..Len(v.shown)}
                 place(j) == CHOOSE i \in 1..Len(order) : order[i] = j
      <3>s. here # {} <=> v.shown # <<>> BY <2>1, RowsShown
      <3>1. here # {} => Len(v.shown) + v.older + v.other = Cardinality(asked)
        <4>1. v.shown # <<>> => Len(v.shown) + v.older + v.other = Cardinality(asked)
          BY <2>1, AllCounted, Zenon
        <4> HIDE DEF v, asked, here
        <4> QED BY <3>s, <4>1
      <3>2. ASSUME NEW j \in asked \ here, t \in {"all", Kind(j)}
            PROVE  here # {} /\ \A k \in here : place(k) < place(j)
        <4>1. j \in Jobs /\ job[j] # "none" /\ (s = None \/ job[j] = s)
          OBVIOUS
        <4>2. here = Shown(s, t, n) /\ \A k : place(k) = Place(k) BY DEF Shown, Place
        <4>3. j \notin Shown(s, t, n) BY <4>2
        <4>4. n \in Nat \ {0} BY <2>1
        <4> HIDE DEF v, asked, here, place
        <4>5. Shown(s, t, n) # {} /\ \A k \in Shown(s, t, n) : Place(k) < Place(j)
          BY <3>2, <4>1, <4>3, <4>4, NewestShown
        <4> QED BY <4>2, <4>5, Zenon
      <3>3. \A j \in asked \ here : t \in {"all", Kind(j)} =>
              here # {} /\ \A k \in here : place(k) < place(j)
        <4> HIDE DEF asked, here, place
        <4> QED BY <3>2, Zenon
      <3>4. here = {} => v.hint \/ asked = {}
        <4>1. v.shown = <<>> => v.hint = (t # "all") BY DEF cmd_jobs, Table
        <4> HIDE DEF v, asked, here, place
        <4>2. CASE t = "all" BY <3>3, <4>2
        <4> QED BY <3>s, <4>1, <4>2
      <3> QED BY <3>1, <3>3, <3>4
    <2> QED BY <2>2, ActiveListed DEF ListingAccounts
  <1>2. Spec => []OrderInv
    BY OrderInit, OrderStep, TypeCorrect, PTL DEF Spec
  <1> QED BY <1>1, <1>2, TypeCorrect, PTL
=============================================================================
