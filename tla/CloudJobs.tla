----------------------------- MODULE CloudJobs -----------------------------
(***************************************************************************)
(* The orchestrator's job table and the clients that only speak HTTP to    *)
(* it: HttpTransport, whose every read and write is a job of its own; the  *)
(* build poller with its progress line; mrg cancel; and the tables mrg     *)
(* jobs and mrg status print.                                              *)
(*                                                                         *)
(* A request is answered at one moment and its answer used at a later one. *)
(* The connection may break before, between or after: the client raises,   *)
(* and a request already on its way may still arrive.  The server is       *)
(* external, modelled from how _client uses it.  A job is named by the     *)
(* actor that submits it, since no actor submits twice.                    *)
(***************************************************************************)
EXTENDS Naturals, Sequences, FiniteSets

CONSTANTS Calls,    \* read and write calls over HttpTransport
          Builds,   \* submissions waited for with poll_job and BuildProgress
          Earlier,  \* resets of earlier days, newest first: ended jobs of the table
          Boards,
          Polls,    \* the rounds of _poll_run (120)
          None

Actors == Calls \cup Builds
Jobs == Actors \cup {Earlier[i] : i \in 1..Len(Earlier)}

ASSUME CloudAssumption ==
  /\ Polls \in Nat \ {0}
  /\ None \notin Jobs \cup Boards
  /\ Calls \cap Builds = {}
  /\ Earlier \in Seq(Jobs)
  /\ \A i \in 1..Len(Earlier) : Earlier[i] \notin Actors
  /\ \A i, j \in 1..Len(Earlier) : Earlier[i] = Earlier[j] => i = j

VARIABLES job,      \* the status of each job in the server's table
          order,    \* the submitted jobs, newest first
          fpga,     \* the board a build was given
          ran,      \* how often the FPGA executed each call
          pc,       \* where the client is
          net,      \* its request: quiet, asked, or the answer on its way
          id,       \* the job id it was told
          tries,    \* status queries made by _poll_run
          outcome,  \* what it told its caller
          got,      \* the job whose result it returned
          board,    \* the board named in the answer on its way
          known,    \* BuildProgress.fpga_id
          lines     \* the lines BuildProgress wrote to a stream that is no tty

server == <<job, order, fpga, ran>>
progress == <<board, known, lines>>
vars == <<server, pc, net, id, tries, outcome, got, progress>>

Active == {"queued", "running"}
Ended == {"complete", "failed", "cancelled"}
Answers == Active \cup Ended \cup {"created", "refused", "ok", "notok", "text"}

Outcomes == {"none", "pending", "ok", "failed", "refused", "lost", "ended",
             "timeout"}
Line == [status : Active \cup Ended, phase : Active \cup Ended \cup {"building", "flashing"}]

TypeOK ==
  /\ job \in [Jobs -> Active \cup Ended \cup {"none"}]
  /\ order \in Seq(Jobs)
  /\ fpga \in [Builds -> Boards \cup {None}]
  /\ ran \in [Calls -> Nat]
  /\ pc \in [Actors -> {"idle", "submit", "poll", "result", "logs", "done"}]
  /\ net \in [Actors -> Answers \cup {"quiet", "asked"}]
  /\ id \in [Actors -> Actors \cup {None}]
  /\ tries \in [Calls -> 0..Polls]
  /\ outcome \in [Actors -> Outcomes]
  /\ got \in [Calls -> Calls \cup {None}]
  /\ board \in [Builds -> Boards \cup {None}]
  /\ known \in [Builds -> Boards \cup {None}]
  /\ lines \in [Builds -> Seq(Line)]

Init ==
  /\ job = [j \in Jobs |-> IF j \in Actors THEN "none" ELSE "complete"]
  /\ order = Earlier
  /\ fpga = [b \in Builds |-> None]
  /\ ran = [k \in Calls |-> 0]
  /\ pc = [a \in Actors |-> "idle"] /\ net = [a \in Actors |-> "quiet"]
  /\ id = [a \in Actors |-> None]
  /\ tries = [k \in Calls |-> 0]
  /\ outcome = [a \in Actors |-> "none"]
  /\ got = [k \in Calls |-> None]
  /\ board = [b \in Builds |-> None]
  /\ known = [b \in Builds |-> None] /\ lines = [b \in Builds |-> <<>>]

-----------------------------------------------------------------------------
(* The server.                                                             *)

\* A submission arrives: the job is queued, or refused (no board of the
\* caller's, an invalid design) before it exists.  It arrives even when the
\* client has stopped waiting for the answer.
TakeSubmit(a) ==
  /\ net[a] = "asked" /\ job[a] = "none"
  /\ \/ /\ job' = [job EXCEPT ![a] = "queued"]
        /\ order' = <<a>> \o order
        /\ net' = [net EXCEPT ![a] = "created"]
     \/ /\ pc[a] = "submit"
        /\ net' = [net EXCEPT ![a] = "refused"]
        /\ UNCHANGED <<job, order>>
  /\ UNCHANGED <<fpga, ran, pc, id, tries, outcome, got, progress>>

\* A query arrives and is answered with the table as it is now.
TakeQuery(a) ==
  /\ net[a] = "asked"
  /\ \/ /\ pc[a] = "poll"
        /\ net' = [net EXCEPT ![a] = job[id[a]]]
        /\ board' = IF a \in Builds THEN [board EXCEPT ![a] = fpga[id[a]]] ELSE board
     \/ pc[a] = "logs" /\ net' = [net EXCEPT ![a] = "text"] /\ UNCHANGED board
     \/ /\ pc[a] = "result"
        /\ \E r \in {"ok", "notok"} : net' = [net EXCEPT ![a] = r]
        /\ UNCHANGED board
  /\ UNCHANGED <<server, pc, id, tries, outcome, got, known, lines>>

\* A worker takes the job, a call is executed, a board is found for a
\* finished build, the job ends.  A call that failed may have run.
Start(j) == /\ job[j] = "queued"
            /\ job' = [job EXCEPT ![j] = "running"]
            /\ UNCHANGED <<order, fpga, ran>>

Execute(k) == /\ job[k] = "running" /\ ran[k] = 0
              /\ ran' = [ran EXCEPT ![k] = 1]
              /\ UNCHANGED <<job, order, fpga>>

Assign(b) == /\ job[b] = "running" /\ fpga[b] = None
             /\ \E f \in Boards : fpga' = [fpga EXCEPT ![b] = f]
             /\ UNCHANGED <<job, order, ran>>

Finish(j) == /\ job[j] = "running"
             /\ \/ /\ j \in Calls => ran[j] = 1
                   /\ j \in Builds => fpga[j] # None
                   /\ job' = [job EXCEPT ![j] = "complete"]
                \/ job' = [job EXCEPT ![j] = "failed"]
             /\ UNCHANGED <<order, fpga, ran>>

\* mrg cancel: ends whatever has not ended, queued or running.
cancel_job(j) == /\ job[j] \in Active
                 /\ job' = [job EXCEPT ![j] = "cancelled"]
                 /\ UNCHANGED <<order, fpga, ran>>

Work == /\ \/ \E j \in Jobs : Start(j) \/ Finish(j) \/ cancel_job(j)
           \/ \E k \in Calls : Execute(k)
           \/ \E b \in Builds : Assign(b)
        /\ UNCHANGED <<pc, net, id, tries, outcome, got, progress>>

-----------------------------------------------------------------------------
(* The clients.                                                            *)

\* read, write and submit post their request.
Post(a) ==
  /\ pc[a] = "idle"
  /\ pc' = [pc EXCEPT ![a] = "submit"]
  /\ net' = [net EXCEPT ![a] = "asked"]
  /\ outcome' = [outcome EXCEPT ![a] = "pending"]
  /\ UNCHANGED <<server, id, tries, got, progress>>

\* The request has ended a's work with o.
Tell(a, o) == /\ pc' = [pc EXCEPT ![a] = "done"]
              /\ outcome' = [outcome EXCEPT ![a] = o]

\* raise_for_status, or the job id.
Posted(a) ==
  /\ pc[a] = "submit" /\ net[a] \in {"created", "refused"}
  /\ net' = [net EXCEPT ![a] = "quiet"]
  /\ IF net[a] = "refused" THEN Tell(a, "refused") /\ UNCHANGED id
     ELSE /\ id' = [id EXCEPT ![a] = a]
          /\ pc' = [pc EXCEPT ![a] = "poll"]
          /\ UNCHANGED outcome
  /\ UNCHANGED <<server, tries, got, progress>>

\* A mistake: a lost answer to the submission taken for a refusal of it.
LoseMeansRefused(a) ==
  /\ net[a] # "quiet" /\ pc[a] \notin {"idle", "done"}
  /\ Tell(a, IF pc[a] = "submit" THEN "refused" ELSE "lost")
  /\ UNCHANGED <<server, net, id, tries, got, progress>>

\* requests raises: the request or its answer is lost.  Nothing is sent
\* again, and a request on its way is not called back.
Lose(a) ==
  /\ net[a] # "quiet" /\ pc[a] \notin {"idle", "done"}
  /\ Tell(a, "lost")
  /\ UNCHANGED <<server, net, id, tries, got, progress>>

\* Two mistakes: rounds not counted, and one round too many.
PollRunUncounted(k) ==
  /\ pc[k] = "poll" /\ net[k] = "quiet"
  /\ net' = [net EXCEPT ![k] = "asked"]
  /\ UNCHANGED <<server, pc, id, tries, outcome, got, progress>>
PollRunOneMore(k) ==
  /\ pc[k] = "poll" /\ net[k] = "quiet" /\ tries[k] <= Polls
  /\ tries' = [tries EXCEPT ![k] = @ + 1]
  /\ net' = [net EXCEPT ![k] = "asked"]
  /\ UNCHANGED <<server, pc, id, outcome, got, progress>>

\* One round of the loop of _poll_run.
PollRun(k) ==
  /\ pc[k] = "poll" /\ net[k] = "quiet" /\ tries[k] < Polls
  /\ tries' = [tries EXCEPT ![k] = @ + 1]
  /\ net' = [net EXCEPT ![k] = "asked"]
  /\ UNCHANGED <<server, pc, id, outcome, got, progress>>

\* The status it read: the result is fetched, the loop goes on, or the call
\* fails.  A job that failed or was cancelled may have run.
PolledRun(k) ==
  /\ pc[k] = "poll" /\ net[k] \in Active \cup Ended
  /\ CASE net[k] = "complete" -> /\ pc' = [pc EXCEPT ![k] = "result"]
                                 /\ net' = [net EXCEPT ![k] = "asked"]
                                 /\ UNCHANGED outcome
       [] net[k] \in {"failed", "cancelled"} ->
            Tell(k, "ended") /\ net' = [net EXCEPT ![k] = "quiet"]
       [] OTHER -> net' = [net EXCEPT ![k] = "quiet"] /\ UNCHANGED <<pc, outcome>>
  /\ UNCHANGED <<server, id, tries, got, progress>>

\* TimeoutError after the last round; the job is not cancelled.
GiveUpRun(k) ==
  /\ pc[k] = "poll" /\ net[k] = "quiet" /\ tries[k] = Polls
  /\ Tell(k, "timeout")
  /\ UNCHANGED <<server, net, id, tries, got, progress>>

Result(k) ==
  /\ pc[k] = "result" /\ net[k] \in {"ok", "notok"}
  /\ Tell(k, IF net[k] = "ok" THEN "ok" ELSE "failed")
  /\ got' = [got EXCEPT ![k] = id[k]]
  /\ net' = [net EXCEPT ![k] = "quiet"]
  /\ UNCHANGED <<server, id, tries, progress>>

\* BuildProgress.update: the board is remembered, and a status that differs
\* from the last one printed gets a line, with the phase it means.
Phase(status, f) ==
  IF status = "running" THEN IF f = None THEN "building" ELSE "flashing" ELSE status

\* A mistake: update without _last_status.
updateEveryTick(b, status, f) ==
  /\ known' = [known EXCEPT ![b] = IF f = None THEN @ ELSE f]
  /\ lines' = IF Len(lines[b]) > 4 THEN lines
              ELSE [lines EXCEPT ![b] = Append(@,
                     [status |-> status, phase |-> Phase(status, known'[b])])]

update(b, status, f) ==
  /\ known' = [known EXCEPT ![b] = IF f = None THEN @ ELSE f]
  /\ lines' = IF lines[b] # <<>> /\ lines[b][Len(lines[b])].status = status
              THEN lines
              ELSE [lines EXCEPT ![b] = Append(@,
                     [status |-> status, phase |-> Phase(status, known'[b])])]

\* poll_job asks for the status, until its deadline passes.
PollJob(b) ==
  /\ pc[b] = "poll" /\ net[b] = "quiet"
  /\ net' = [net EXCEPT ![b] = "asked"]
  /\ UNCHANGED <<server, pc, id, tries, outcome, got, progress>>

\* A complete job is shown, marked ready and returned; a failed or cancelled
\* one is not shown: its logs are fetched for the error.
PolledJob(b) ==
  /\ pc[b] = "poll" /\ net[b] \in Active \cup Ended
  /\ IF net[b] \in {"failed", "cancelled"}
     THEN /\ pc' = [pc EXCEPT ![b] = "logs"]
          /\ net' = [net EXCEPT ![b] = "asked"]
          /\ UNCHANGED <<outcome, progress>>
     ELSE /\ net' = [net EXCEPT ![b] = "quiet"]
          /\ update(b, net[b], board[b])
          /\ UNCHANGED board
          /\ IF net[b] = "complete" THEN Tell(b, "ok") ELSE UNCHANGED <<pc, outcome>>
  /\ UNCHANGED <<server, id, tries, got>>

Logs(b) ==
  /\ pc[b] = "logs" /\ net[b] = "text"
  /\ Tell(b, "ended") /\ net' = [net EXCEPT ![b] = "quiet"]
  /\ UNCHANGED <<server, id, tries, got, progress>>

\* TimeoutError at the deadline; the job is not cancelled.
Deadline(b) ==
  /\ pc[b] = "poll" /\ net[b] = "quiet"
  /\ Tell(b, "timeout")
  /\ UNCHANGED <<server, net, id, tries, got, progress>>

Server(a) == TakeSubmit(a) \/ TakeQuery(a)
Client(a) == \/ Posted(a)
             \/ a \in Calls /\ (PollRun(a) \/ PolledRun(a) \/ GiveUpRun(a) \/ Result(a))
             \/ a \in Builds /\ (PollJob(a) \/ PolledJob(a) \/ Logs(a))

Next == \/ Work
        \/ \E a \in Actors : Post(a) \/ Lose(a) \/ Server(a) \/ Client(a)
        \/ \E b \in Builds : Deadline(b)

\* A request is answered or breaks, and a process that may run runs.  Nothing
\* is assumed of the workers.  Of the deadline: it passes in the end.
Spec == /\ Init /\ [][Next]_vars
        /\ \A a \in Actors : WF_vars(Server(a)) /\ WF_vars(Client(a))
        /\ \A b \in Builds : SF_vars(Deadline(b))

-----------------------------------------------------------------------------
(* What the tables show.                                                   *)

Kind(j) == IF j \in Builds THEN "build" ELSE IF j \in Calls THEN "run" ELSE "reset"
Statuses == Active \cup Ended \cup {None}
Types == {"build", "run", "reset", "all"}

\* The jobs of a list that are in a set, in their order.
Among(jobs, set) ==
  LET kept[i \in 0..Len(jobs)] ==
        IF i = 0 THEN <<>>
        ELSE IF jobs[i] \in set THEN Append(kept[i - 1], jobs[i]) ELSE kept[i - 1]
  IN kept[Len(jobs)]

\* The caller's jobs, newest first, those of one status if one is given.
list_jobs(s) == Among(order, {j \in Jobs : s = None \/ job[j] = s})

OfType(t) == {j \in Jobs : t = "all" \/ Kind(j) = t}

\* A table: its rows, and how many jobs it says it leaves out and why.  Without
\* a row nothing is counted: the command says there are no such jobs, and to
\* try --type all if it was told a type.
Table(jobs, matching, shown, t) ==
  [shown |-> shown,
   older |-> IF shown = <<>> THEN 0 ELSE Len(matching) - Len(shown),
   other |-> IF shown = <<>> THEN 0 ELSE Len(jobs) - Len(matching),
   hint |-> shown = <<>> /\ t # "all"]

First(jobs, n) == SubSeq(jobs, 1, IF n < Len(jobs) THEN n ELSE Len(jobs))

\* A mistake: the limit applied before the type.
cmd_jobsLimitFirst(s, t, n) ==
  LET jobs == list_jobs(s)
      shown == Among(First(jobs, n), OfType(t))
  IN Table(jobs, Among(jobs, OfType(t)), shown, t)

\* mrg jobs: the n newest of one type.
cmd_jobs(s, t, n) ==
  LET jobs == list_jobs(s)
      matching == Among(jobs, OfType(t))
  IN Table(jobs, matching, First(matching, n), t)

\* mrg status: the builds that are waiting, building or flashing.
active_builds == Among(list_jobs(None), {b \in Builds : job[b] \in Active})

-----------------------------------------------------------------------------
(* Properties.                                                             *)

\* What the outcome of a call says to its caller: an error of requests, a job
\* that ended otherwise and the minute running out leave the question open.
told == [k \in Calls |-> CASE outcome[k] \in {"ended", "timeout"} -> "lost"
                           [] outcome[k] = "refused" -> "noconn"
                           [] OTHER -> outcome[k]]

\* A call over HTTP keeps the promise a call over the WebSocket keeps: it
\* runs at most once, one that returns data ran and returns its own result,
\* and a refused one never runs.
Promise == INSTANCE AtMostOnceCalls WITH outcome <- told
HttpAtMostOnce == Promise!Spec

\* mrg jobs loses sight of nothing, with a limit of at least one: a table that
\* shows something shows or counts every job of the status asked for; no hidden
\* job of the type is newer than a shown one, so that nothing is shown only
\* when there is no job of the type; and if there are others then, the user is
\* told to ask for all.  mrg status lists exactly the builds that have not ended.
ListingAccounts ==
  /\ \A s \in Statuses, t \in Types, n \in 1..3 :
       LET v == cmd_jobs(s, t, n)
           asked == {j \in Jobs : job[j] # "none" /\ (s = None \/ job[j] = s)}
           here == {v.shown[i] : i \in 1..Len(v.shown)}
           place(j) == CHOOSE i \in 1..Len(order) : order[i] = j
       IN /\ here # {} => Len(v.shown) + v.older + v.other = Cardinality(asked)
          /\ here = {} => v.hint \/ asked = {}
          /\ \A j \in asked \ here : t \in {"all", Kind(j)} =>
               here # {} /\ \A k \in here : place(k) < place(j)
  /\ {active_builds[i] : i \in 1..Len(active_builds)}
       = {b \in Builds : job[b] \in Active}

Rank(p) == CASE p = "queued" -> 1 [] p = "building" -> 2 [] p = "flashing" -> 3
             [] OTHER -> 4

\* The progress lines follow the build: none is repeated or out of order, none
\* runs ahead of the server, and a build marked ready names the board it got.
LinesHonest ==
  \A b \in Builds : LET l == lines[b] IN
    /\ \A i \in 1..Len(l) : i > 1 => Rank(l[i - 1].phase) < Rank(l[i].phase)
    /\ l # <<>> => Rank(l[Len(l)].phase) <= Rank(Phase(job[b], fpga[b]))
    /\ outcome[b] = "ok" => known[b] # None /\ known[b] = fpga[b]

\* Every command returns or raises, whatever the workers do, provided requests
\* are answered or break: _poll_run counts its rounds, poll_job has a deadline.
CommandsEnd ==
  \A a \in Actors : outcome[a] = "pending" ~> outcome[a] # "pending"

=============================================================================
