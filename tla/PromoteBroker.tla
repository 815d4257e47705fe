--------------------------- MODULE PromoteBroker ---------------------------
(***************************************************************************)
(* Sandbox.run of bench/sandbox.py and the promote channel it brokers:     *)
(* agents in a container drop request files into a shared workspace and    *)
(* wait for response files; outside, a poller thread answers them with     *)
(* CloudSilicon while the main thread waits for the container, and the     *)
(* main thread polls once more, to drain, before it removes the workspace. *)
(*                                                                         *)
(* Requests are numbered in the order in which their file names sort,      *)
(* which says nothing about the order in which they are made.              *)
(***************************************************************************)
EXTENDS Naturals, Sequences, FiniteSets, FiniteSetsExt

CONSTANTS
  N,           \* promotes made in a behaviour (a bound)
  Guarded      \* a guard is set

ASSUME PromoteAssumption ==
  /\ N \in Nat
  /\ Guarded \in BOOLEAN

Requests == 1..N
Poller == "poller"
Main == "main"
Brokers == {Poller, Main}
Results == {"rejected", "submit_failed", "build_failed", "timeout",
            "programmed"}

VARIABLES
  container,  \* the docker run
  workspace,  \* the directory still exists
  agent,      \* the promote() call behind each request
  request,    \* request files
  tmp,        \* response files being written
  response,   \* response files
  stop,       \* the stop event
  aborted,    \* run_sandbox raised
  overran,    \* history: the join timed out on a poller at work
  pc,         \* where each broker thread is
  todo,       \* what is left of the glob of its poll_once
  cur,        \* the request it handles
  result,     \* the answer it has for it
  made,       \* the responses its poll_once has made
  promotions, \* the list run() returns
  builds      \* jobs submitted for each request

filesVars  == <<workspace, request, tmp, response>>
runVars    == <<container, stop, aborted, overran>>
brokerVars == <<todo, cur, result, made>>
outVars    == <<promotions, builds>>
vars == <<filesVars, runVars, agent, pc, brokerVars, outVars>>

Init ==
  /\ container = "running"
  /\ workspace = TRUE
  /\ agent = [r \in Requests |-> "idle"]
  /\ request = {}
  /\ tmp = {}
  /\ response = [r \in Requests |-> "none"]
  /\ stop = FALSE
  /\ aborted = FALSE
  /\ overran = FALSE
  /\ pc = [p \in Brokers |-> IF p = Poller THEN "loop" ELSE "sandbox"]
  /\ todo = [p \in Brokers |-> {}]
  /\ cur = [p \in Brokers |-> 0]
  /\ result = [p \in Brokers |-> "none"]
  /\ made = [p \in Brokers |-> <<>>]
  /\ promotions = <<>>
  /\ builds = [r \in Requests |-> 0]

Goto(p, l) == pc' = [pc EXCEPT ![p] = l]

----------------------------------------------------------------------------
(* promote(), in the container.                                            *)

Promote(r) ==
  /\ agent[r] = "idle"
  /\ container # "exited"
  /\ workspace
  /\ agent' = [agent EXCEPT ![r] = "waiting"]
  /\ request' = request \cup {r}
  /\ UNCHANGED <<workspace, tmp, response, runVars, pc, brokerVars, outVars>>

Answered(r) ==
  /\ agent[r] = "waiting"
  /\ response[r] # "none"
  /\ container # "exited"
  /\ workspace
  /\ agent' = [agent EXCEPT ![r] = "answered"]
  /\ UNCHANGED <<filesVars, runVars, pc, brokerVars, outVars>>

\* The deadline passes, or the container goes away under the call.
GiveUp(r) ==
  /\ agent[r] = "waiting"
  /\ agent' = [agent EXCEPT ![r] = "gave up"]
  /\ UNCHANGED <<filesVars, runVars, pc, brokerVars, outVars>>

----------------------------------------------------------------------------
(* poll_once, by the poller thread or by the main thread.                  *)

\* poll_once raised: the poller thread dies; in the main thread run() raises.
Raise(p) ==
  /\ Goto(p, IF p = Poller THEN "dead" ELSE "raised")
  /\ workspace' = (workspace /\ p = Poller)

Glob(p) ==
  /\ pc[p] = "glob"
  /\ todo' = [todo EXCEPT ![p] = IF workspace THEN request ELSE {}]
  /\ made' = [made EXCEPT ![p] = <<>>]
  /\ Goto(p, "scan")
  /\ UNCHANGED <<filesVars, runVars, agent, cur, result, outVars>>

\* Mutant: a request is handled whether or not it has a response.
AnswerlessAlways(p) == todo[p] # {}

Answerless(p) == todo[p] # {} /\ response[Min(todo[p])] = "none"

Skip(p) ==
  /\ pc[p] = "scan"
  /\ todo[p] # {}
  /\ workspace
  /\ ~Answerless(p)
  /\ todo' = [todo EXCEPT ![p] = @ \ {Min(@)}]
  /\ UNCHANGED <<filesVars, runVars, agent, pc, cur, result, made, outVars>>

\* _handle reads the request and asks the guard.
Take(p) ==
  /\ pc[p] = "scan"
  /\ workspace
  /\ Answerless(p)
  /\ cur' = [cur EXCEPT ![p] = Min(todo[p])]
  /\ todo' = [todo EXCEPT ![p] = @ \ {Min(@)}]
  /\ \/ /\ Goto(p, "submit")
        /\ UNCHANGED result
     \/ /\ Guarded
        /\ result' = [result EXCEPT ![p] = "rejected"]
        /\ Goto(p, "write")
  /\ UNCHANGED <<filesVars, runVars, agent, made, outVars>>

\* A request that is not what promote() writes, a guard that raises, or the
\* user's own silicon that does: nothing in poll_once catches it.
HandleRaises(p) ==
  /\ pc[p] = "scan"
  /\ workspace
  /\ Answerless(p)
  /\ Raise(p)
  /\ UNCHANGED <<request, tmp, response, runVars, agent, brokerVars, outVars>>

\* Mutant: a submit that fails is not turned into an answer.
SubmitNoAnswer(p) ==
  /\ pc[p] = "submit"
  /\ \/ /\ builds' = [builds EXCEPT ![cur[p]] = @ + 1]
        /\ Goto(p, "poll")
     \/ /\ Goto(p, "write")
        /\ UNCHANGED builds
  /\ UNCHANGED <<filesVars, runVars, agent, todo, cur, result, made,
                 promotions>>

\* CloudSilicon: a submit that fails is an answer, ...
Submit(p) ==
  /\ pc[p] = "submit"
  /\ \/ /\ builds' = [builds EXCEPT ![cur[p]] = @ + 1]
        /\ Goto(p, "poll")
        /\ UNCHANGED result
     \/ /\ result' = [result EXCEPT ![p] = "submit_failed"]
        /\ Goto(p, "write")
        /\ UNCHANGED builds
  /\ UNCHANGED <<filesVars, runVars, agent, todo, cur, made, promotions>>

\* ... so is a build that fails or takes too long, or one that completes,
\* whether or not its board could be released.
Poll(p) ==
  /\ pc[p] = "poll"
  /\ \E s \in {"build_failed", "timeout", "programmed"} :
       result' = [result EXCEPT ![p] = s]
  /\ Goto(p, "write")
  /\ UNCHANGED <<filesVars, runVars, agent, todo, cur, made, outVars>>

\* A failed status query is neither RuntimeError nor TimeoutError.
PollHttpError(p) ==
  /\ pc[p] = "poll"
  /\ Raise(p)
  /\ UNCHANGED <<request, tmp, response, runVars, agent, brokerVars, outVars>>

Write(p) ==
  /\ pc[p] = "write"
  /\ workspace
  /\ tmp' = tmp \cup {cur[p]}
  /\ Goto(p, "rename")
  /\ UNCHANGED <<workspace, request, response, runVars, agent, brokerVars,
                 outVars>>

Rename(p) ==
  /\ pc[p] = "rename"
  /\ cur[p] \in tmp
  /\ workspace
  /\ tmp' = tmp \ {cur[p]}
  /\ response' = [response EXCEPT ![cur[p]] = result[p]]
  /\ made' = [made EXCEPT ![p] = Append(@, cur[p])]
  /\ Goto(p, "scan")
  /\ UNCHANGED <<workspace, request, runVars, agent, todo, cur, result,
                 outVars>>

\* The workspace is gone, or the other broker renamed the same file.
FileMissing(p) ==
  /\ \/ pc[p] = "scan" /\ todo[p] # {} /\ ~workspace
     \/ pc[p] = "write" /\ ~workspace
     \/ pc[p] = "rename" /\ (~workspace \/ cur[p] \notin tmp)
  /\ Raise(p)
  /\ UNCHANGED <<request, tmp, response, runVars, agent, brokerVars, outVars>>

\* Mutant: what the poller thread answered is not recorded.
EndScanDrainOnly(p) ==
  /\ pc[p] = "scan"
  /\ todo[p] = {}
  /\ promotions' = IF p = Main THEN promotions \o made[p] ELSE promotions
  /\ made' = [made EXCEPT ![p] = <<>>]
  /\ Goto(p, IF p = Poller THEN "loop" ELSE "returned")
  /\ workspace' = (workspace /\ p = Poller)
  /\ UNCHANGED <<request, tmp, response, runVars, agent, todo, cur, result,
                 builds>>

\* Mutant: the poller thread polls once.
EndScanOnce(p) ==
  /\ pc[p] = "scan"
  /\ todo[p] = {}
  /\ promotions' = promotions \o made[p]
  /\ made' = [made EXCEPT ![p] = <<>>]
  /\ Goto(p, IF p = Poller THEN "ended" ELSE "returned")
  /\ workspace' = (workspace /\ p = Poller)
  /\ UNCHANGED <<request, tmp, response, runVars, agent, todo, cur, result,
                 builds>>

\* promotions.extend(poll_once(...)); for the main thread run() is over.
EndScan(p) ==
  /\ pc[p] = "scan"
  /\ todo[p] = {}
  /\ promotions' = promotions \o made[p]
  /\ made' = [made EXCEPT ![p] = <<>>]
  /\ Goto(p, IF p = Poller THEN "loop" ELSE "returned")
  /\ workspace' = (workspace /\ p = Poller)
  /\ UNCHANGED <<request, tmp, response, runVars, agent, todo, cur, result,
                 builds>>

----------------------------------------------------------------------------
(* The two threads around it.                                              *)

Loop ==
  /\ pc[Poller] = "loop"
  /\ Goto(Poller, IF stop THEN "ended" ELSE "glob")
  /\ UNCHANGED <<filesVars, runVars, agent, brokerVars, outVars>>

\* run_sandbox returns; finally: stop.set().
ContainerExits ==
  /\ pc[Main] = "sandbox"
  /\ container' = "exited"
  /\ stop' = TRUE
  /\ Goto(Main, "join")
  /\ UNCHANGED <<filesVars, aborted, overran, agent, brokerVars, outVars>>

\* run_sandbox raises, on its timeout or on Ctrl-C.  It kills the docker
\* client; the container may run on.
SandboxRaises ==
  /\ pc[Main] = "sandbox"
  /\ container' \in {"exited", "orphaned"}
  /\ stop' = TRUE
  /\ aborted' = TRUE
  /\ Goto(Main, "join")
  /\ UNCHANGED <<filesVars, overran, agent, brokerVars, outVars>>

\* Mutant: run() returns without the drain.
AfterJoinNoDrain ==
  /\ Goto(Main, IF aborted THEN "raised" ELSE "returned")
  /\ workspace' = FALSE
  /\ UNCHANGED <<request, tmp, response, container, stop, aborted, agent,
                 brokerVars, outVars>>

\* Then the drain, or straight to the outer finally.
AfterJoin ==
  /\ Goto(Main, IF aborted THEN "raised" ELSE "glob")
  /\ workspace' = ~aborted
  /\ UNCHANGED <<request, tmp, response, container, stop, aborted, agent,
                 brokerVars, outVars>>

Join ==
  /\ pc[Main] = "join"
  /\ pc[Poller] \in {"ended", "dead"}
  /\ AfterJoin /\ UNCHANGED overran

\* join(timeout=2) returns while the poller is in a silicon run of minutes.
JoinTimeout ==
  /\ pc[Main] = "join"
  /\ pc[Poller] \in {"submit", "poll"}
  /\ AfterJoin /\ overran' = TRUE

----------------------------------------------------------------------------

BrokerStep(p) ==
  \/ Glob(p)
  \/ Skip(p)
  \/ Take(p)
  \/ HandleRaises(p)
  \/ Submit(p)
  \/ Poll(p)
  \/ PollHttpError(p)
  \/ Write(p)
  \/ Rename(p)
  \/ FileMissing(p)
  \/ EndScan(p)

Next ==
  \/ \E r \in Requests : Promote(r) \/ Answered(r) \/ GiveUp(r)
  \/ \E p \in Brokers : BrokerStep(p)
  \/ Loop
  \/ ContainerExits
  \/ SandboxRaises
  \/ Join
  \/ JoinTimeout

Spec == Init /\ [][Next]_vars

\* Both threads are scheduled, and a silicon run ends: poll_job has a
\* deadline.  The container need not exit; an agent need not give up.
Fairness ==
  /\ WF_vars(BrokerStep(Poller) \/ Loop)
  /\ WF_vars(BrokerStep(Main))
  /\ WF_vars(Join)

FairSpec == Spec /\ Fairness

----------------------------------------------------------------------------
(* Properties.                                                             *)

Pcs == {"loop", "sandbox", "join", "glob", "scan", "submit", "poll", "write",
        "rename", "ended", "dead", "returned", "raised"}

\* Every variable has its type; a broker that writes has something to write.
TypeOK ==
  /\ container \in {"running", "exited", "orphaned"}
  /\ workspace \in BOOLEAN
  /\ agent \in [Requests -> {"idle", "waiting", "answered", "gave up"}]
  /\ request \subseteq Requests
  /\ tmp \subseteq Requests
  /\ response \in [Requests -> Results \cup {"none"}]
  /\ stop \in BOOLEAN
  /\ aborted \in BOOLEAN
  /\ overran \in BOOLEAN
  /\ pc \in [Brokers -> Pcs]
  /\ todo \in [Brokers -> SUBSET Requests]
  /\ cur \in [Brokers -> Requests \cup {0}]
  /\ result \in [Brokers -> Results \cup {"none"}]
  /\ \A p \in Brokers : pc[p] \in {"write", "rename"} =>
       cur[p] \in Requests /\ result[p] \in Results
  /\ made \in [Brokers -> Seq(Requests)]
  /\ promotions \in Seq(Requests)
  /\ builds \in [Requests -> Nat]

\* The poller ended, if it did, by itself and before the drain.
Orderly == ~overran /\ pc[Poller] # "dead"

\* A promote is built on silicon at most once, although the drain polls the
\* same directory as the poller: it takes up again only what a poller at work
\* past the join, or one that died, has left unanswered.
OneBuildPerPromote == Orderly => \A r \in Requests : builds[r] <= 1

\* The result of run() lists every response exactly once, those the poller
\* made and those of the drain, with the same two exceptions.
PromotionsComplete ==
  pc[Main] = "returned" /\ Orderly =>
    \A r \in Requests :
      Cardinality({i \in DOMAIN promotions : promotions[i] = r}) =
        IF response[r] = "none" THEN 0 ELSE 1

\* When run() returns, every promote made before the container exited has its
\* response: the drain catches what landed in the final tick, what the poller
\* was busy with, and what a dead poller left.
DrainedOnReturn ==
  pc[Main] = "returned" => \A r \in request : response[r] # "none"

\* An agent that waits is answered, or sees the container's run end, or the
\* poller died under it.
PromotesAnswered ==
  \A r \in Requests :
    agent[r] = "waiting" ~> agent[r] # "waiting" \/ response[r] # "none"
                              \/ pc[Main] \in {"returned", "raised"}
                              \/ pc[Poller] = "dead"

\* CloudSilicon's failure modes "are returned as structured results (never
\* raised) so one bad promote doesn't crash the broker loop".
PollerSurvives == [][pc'[Poller] = "dead" => pc[Poller] # "poll"]_vars
=============================================================================
