---------------------------- MODULE AppSession ----------------------------
(***************************************************************************)
(* App of _app.py: build and program a design, use the board it lands on,  *)
(* release it.  Several Apps of one user run side by side, each driven by  *)
(* one or more threads, against one orchestrator that knows jobs and       *)
(* boards but not Apps: every App presents the same API key.               *)
(*                                                                         *)
(* The orchestrator is external; its jobs, boards and sessions are what    *)
(* _client.py and the CLI say of them.  A request is one atomic step of    *)
(* the server, unless it or its response is lost.                          *)
(***************************************************************************)
EXTENDS Naturals, FiniteSets

CONSTANTS
  Apps, Threads, AppOf,  \* the App each thread drives
  Given,       \* Apps made with a board: App(fpga_id=), mrg run --fpga-id
  Mains,       \* threads that receive KeyboardInterrupt
  Jobs,        \* builds that can be submitted in a behaviour (a bound)
  Boards,
  Transports,  \* transports that can be made in a behaviour (a bound)
  None,
  MaxEnters,   \* "with app:" blocks per thread (a bound)
  Early,       \* scripts also call release() inside the block
  Lossy        \* requests and responses may be lost

ASSUME AppAssumption ==
  /\ AppOf \in [Threads -> Apps]
  /\ Given \subseteq Apps
  /\ Mains \subseteq Threads
  /\ None \notin Apps \cup Jobs \cup Boards \cup Transports
  /\ MaxEnters \in Nat
  /\ {Early, Lossy} \subseteq BOOLEAN

VARIABLES
  pc,         \* where each thread is
  after,      \* where it goes when release() returns or raises
  myjob,      \* the job _program waits for
  myconn,     \* the transport a call has in hand
  enters,     \* "with app:" blocks entered
  fpga,       \* self.fpga_id
  programmed, \* self._programmed
  connection, \* self._connection
  target,     \* the board a transport was made for
  live,       \* transports with a socket open
  status,     \* the orchestrator's view of a job ...
  assigned,   \* ... and the board assigned to it
  holder,     \* the job whose session reserves a board
  session,    \* boards whose session key has not expired
  owner,      \* the App that submitted a job
  excuse      \* why nobody looks after a job any more

threadVars == <<pc, after, myjob, myconn, enters>>
appVars    == <<fpga, programmed, connection, target, live>>
serverVars == <<status, assigned, holder, session>>
ghostVars  == <<owner, excuse>>
restVars == <<appVars, serverVars, ghostVars>>
vars == <<threadVars, restVars>>

Init ==
  /\ pc = [t \in Threads |-> "out"]
  /\ after = [t \in Threads |-> "out"]
  /\ myjob = [t \in Threads |-> None]
  /\ myconn = [t \in Threads |-> None]
  /\ enters = [t \in Threads |-> 0]
  /\ fpga \in [Apps -> Boards \cup {None}]
  /\ \A a \in Apps : fpga[a] = None <=> a \notin Given
  /\ programmed = [a \in Apps |-> FALSE]
  /\ connection = [a \in Apps |-> None]
  /\ target = [x \in Transports |-> None]
  /\ live = {}
  /\ status = [j \in Jobs |-> "none"]
  /\ assigned = [j \in Jobs |-> None]
  /\ holder = [b \in Boards |-> None]
  /\ session = {}
  /\ owner = [j \in Jobs |-> None]
  /\ excuse = [j \in Jobs |-> "none"]

Active(j) == status[j] \in {"queued", "flashing"}
Holds(j, b) == holder[b] = j
Goto(t, l) == pc' = [pc EXCEPT ![t] = l]

----------------------------------------------------------------------------
(* The orchestrator (external).                                            *)

\* A board's worker claims a finished build and starts to flash it.
Assign(j, b) ==
  /\ status[j] = "queued"
  /\ holder[b] = None
  /\ status' = [status EXCEPT ![j] = "flashing"]
  /\ assigned' = [assigned EXCEPT ![j] = b]
  /\ holder' = [holder EXCEPT ![b] = j]
  /\ session' = session \cup {b}
  /\ UNCHANGED <<threadVars, appVars, ghostVars>>

Complete(j) ==
  /\ status[j] = "flashing"
  /\ status' = [status EXCEPT ![j] = "complete"]
  /\ UNCHANGED <<threadVars, appVars, assigned, holder, session, ghostVars>>

\* The job ends without a board: it failed, or was cancelled.
EndJob(j, s) ==
  /\ status' = [status EXCEPT ![j] = s]
  /\ holder' = [b \in Boards |-> IF holder[b] = j THEN None ELSE holder[b]]
  /\ session' = {b \in session : holder[b] # j}
  /\ UNCHANGED assigned

BuildFails(j) ==
  /\ Active(j)
  /\ EndJob(j, "failed")
  /\ UNCHANGED <<threadVars, appVars, ghostVars>>

\* A session key expires; the board stays reserved.
SessionExpires(b) ==
  /\ b \in session
  /\ status[holder[b]] = "complete"
  /\ session' = session \ {b}
  /\ UNCHANGED <<threadVars, appVars, status, assigned, holder, ghostVars>>

FreeBoard(b) ==
  /\ holder' = [holder EXCEPT ![b] = None]
  /\ session' = session \ {b}
  /\ UNCHANGED <<status, assigned>>

----------------------------------------------------------------------------
(* A script: "with app:", reads and writes, perhaps an explicit release.   *)

Enter(t) ==
  /\ pc[t] = "out"
  /\ enters[t] < MaxEnters
  /\ enters' = [enters EXCEPT ![t] = @ + 1]
  /\ Goto(t, "in")
  /\ UNCHANGED <<after, myjob, myconn, restVars>>

\* read() and write() start with _ensure_programmed.
Call(t) ==
  /\ pc[t] = "in"
  /\ Goto(t, IF programmed[AppOf[t]] THEN "connect" ELSE "submit")
  /\ UNCHANGED <<after, myjob, myconn, enters, restVars>>

NewJob(t, j) ==
  /\ pc[t] = "submit"
  /\ status[j] = "none"
  /\ status' = [status EXCEPT ![j] = "queued"]
  /\ owner' = [owner EXCEPT ![j] = AppOf[t]]
  /\ UNCHANGED <<after, myconn, enters, appVars, assigned, holder, session>>

Submit(t, j) ==
  /\ NewJob(t, j)
  /\ myjob' = [myjob EXCEPT ![t] = j]
  /\ Goto(t, "poll")
  /\ UNCHANGED excuse

\* The response is lost, or the script interrupted before it has the job id:
\* submit is called outside _program's try.
SubmitUnanswered(t, j) ==
  /\ Lossy \/ t \in Mains
  /\ NewJob(t, j)
  /\ excuse' = [excuse EXCEPT ![j] = "submit"]
  /\ Goto(t, "in")
  /\ UNCHANGED myjob

SubmitFails(t) ==
  /\ pc[t] = "submit"
  /\ Goto(t, "in")
  /\ UNCHANGED <<after, myjob, myconn, enters, restVars>>

\* poll_job finds the job complete and returns it.
PollComplete(t) ==
  /\ pc[t] = "poll"
  /\ status[myjob[t]] = "complete"
  /\ Goto(t, "record")
  /\ UNCHANGED <<after, myjob, myconn, enters, restVars>>

\* Mutant: only Exception is caught, so Ctrl-C skips the handler.
PollRaisesUncaught(t, why) ==
  /\ pc[t] = "poll"
  /\ why = "ended" => status[myjob[t]] \in {"failed", "cancelled"}
  /\ why = "http" => Lossy
  /\ why = "interrupt" => t \in Mains
  /\ Goto(t, IF why = "interrupt" THEN "in" ELSE "cancel")
  /\ myjob' = IF why = "interrupt" THEN [myjob EXCEPT ![t] = None] ELSE myjob
  /\ UNCHANGED <<after, myconn, enters, restVars>>

\* poll_job raises: the job failed or was cancelled, its deadline passed, a
\* query failed, or the user pressed Ctrl-C.
PollRaises(t, why) ==
  /\ pc[t] = "poll"
  /\ why = "ended" => status[myjob[t]] \in {"failed", "cancelled"}
  /\ why = "http" => Lossy
  /\ why = "interrupt" => t \in Mains
  /\ Goto(t, "cancel")
  /\ UNCHANGED <<after, myjob, myconn, enters, restVars>>

\* _program's handler: cancel_job, whatever it answers, then raise.  A job
\* that completed meanwhile can no longer be cancelled.
Cancel(t) ==
  /\ pc[t] = "cancel"
  /\ IF Active(myjob[t]) THEN EndJob(myjob[t], "cancelled")
                         ELSE UNCHANGED serverVars
  /\ excuse' = IF status[myjob[t]] = "complete"
                 THEN [excuse EXCEPT ![myjob[t]] = "late"] ELSE excuse
  /\ myjob' = [myjob EXCEPT ![t] = None]
  /\ Goto(t, "in")
  /\ UNCHANGED <<after, myconn, enters, appVars, owner>>

\* The request does not arrive, or a second Ctrl-C stops it, or comes before it,
\* while the progress line is ended.
CancelLost(t) ==
  /\ pc[t] = "cancel"
  /\ Lossy \/ t \in Mains
  /\ excuse' = [excuse EXCEPT ![myjob[t]] = "cancel"]
  /\ myjob' = [myjob EXCEPT ![t] = None]
  /\ Goto(t, "in")
  /\ UNCHANGED <<after, myconn, enters, appVars, serverVars, owner>>

\* Mutant: the job id is stored in place of the board.
RecordJobId(t) ==
  /\ pc[t] = "record"
  /\ fpga' = [fpga EXCEPT ![AppOf[t]] = myjob[t]]
  /\ Goto(t, "mark")
  /\ UNCHANGED <<after, myjob, myconn, enters, programmed, connection, target,
                 live, serverVars, ghostVars>>

\* _program stores the board it was given, ends the progress line, ...
Record(t) ==
  /\ pc[t] = "record"
  /\ fpga' = [fpga EXCEPT ![AppOf[t]] = assigned[myjob[t]]]
  /\ Goto(t, "mark")
  /\ UNCHANGED <<after, myjob, myconn, enters, programmed, connection, target,
                 live, serverVars, ghostVars>>

\* ... and only then counts the App as programmed; the call goes on.
Mark(t) ==
  /\ pc[t] = "mark"
  /\ programmed' = [programmed EXCEPT ![AppOf[t]] = TRUE]
  /\ myjob' = [myjob EXCEPT ![t] = None]
  /\ Goto(t, "connect")
  /\ UNCHANGED <<after, myconn, enters, fpga, connection, target, live,
                 serverVars, ghostVars>>

\* Ctrl-C before or after the board is stored: the next call builds again.
InterruptRecord(t) ==
  /\ pc[t] \in {"record", "mark"}
  /\ t \in Mains
  /\ excuse' = [excuse EXCEPT ![myjob[t]] = "record"]
  /\ myjob' = [myjob EXCEPT ![t] = None]
  /\ Goto(t, "in")
  /\ UNCHANGED <<after, myconn, enters, appVars, serverVars, owner>>

\* _open_connection looks at self._connection, ...
LookConnection(t) ==
  /\ pc[t] = "connect"
  /\ myconn' = [myconn EXCEPT ![t] = connection[AppOf[t]]]
  /\ Goto(t, IF connection[AppOf[t]] = None THEN "make" ELSE "use")
  /\ UNCHANGED <<after, myjob, enters, restVars>>

\* ... and makes a transport to the board it knows if there was none.
MakeConnection(t, x) ==
  /\ pc[t] = "make"
  /\ target[x] = None
  /\ target' = [target EXCEPT ![x] = fpga[AppOf[t]]]
  /\ connection' = [connection EXCEPT ![AppOf[t]] = x]
  /\ myconn' = [myconn EXCEPT ![t] = x]
  /\ Goto(t, "use")
  /\ UNCHANGED <<after, myjob, enters, fpga, programmed, live, serverVars,
                 ghostVars>>

\* The transport carries the call.  The server serves any session of the user.
Served(x) == target[x] \in session

Use(t) ==
  /\ pc[t] = "use"
  /\ live' = IF Served(myconn[t]) THEN live \cup {myconn[t]}
                                  ELSE live \ {myconn[t]}
  /\ myconn' = [myconn EXCEPT ![t] = None]
  /\ Goto(t, "in")
  /\ UNCHANGED <<after, myjob, enters, fpga, programmed, connection, target,
                 serverVars, ghostVars>>

\* release() is called, by __exit__ or by the script inside the block.
Leave(t, l) ==
  /\ pc[t] = "in"
  /\ after' = [after EXCEPT ![t] = l]
  /\ Goto(t, "close")
  /\ UNCHANGED <<myjob, myconn, enters, restVars>>

Exit(t) == Leave(t, "out")
ReleaseEarly(t) == Early /\ Leave(t, "in")

NothingToRelease(t) ==
  /\ pc[t] = "close"
  /\ fpga[AppOf[t]] = None
  /\ Goto(t, after[t])
  /\ UNCHANGED <<after, myjob, myconn, enters, restVars>>

\* Mutant: the transport is forgotten, not closed.
CloseConnectionForgets(t) ==
  /\ pc[t] = "close"
  /\ fpga[AppOf[t]] # None
  /\ connection' = [connection EXCEPT ![AppOf[t]] = None]
  /\ Goto(t, "release")
  /\ UNCHANGED <<after, myjob, myconn, enters, fpga, programmed, target,
                 live, serverVars, ghostVars>>

\* Mutant: the transport is closed but kept for the next call.
CloseConnectionKeeps(t) ==
  /\ pc[t] = "close"
  /\ fpga[AppOf[t]] # None
  /\ live' = live \ {connection[AppOf[t]]}
  /\ Goto(t, "release")
  /\ UNCHANGED <<after, myjob, myconn, enters, fpga, programmed, connection,
                 target, serverVars, ghostVars>>

CloseConnection(t) ==
  /\ pc[t] = "close"
  /\ fpga[AppOf[t]] # None
  /\ connection' = [connection EXCEPT ![AppOf[t]] = None]
  /\ live' = live \ {connection[AppOf[t]]}
  /\ Goto(t, "release")
  /\ UNCHANGED <<after, myjob, myconn, enters, fpga, programmed, target,
                 serverVars, ghostVars>>

\* The thread gives up on its App's job that holds the board, if any.  The
\* first excuse is kept.
Excuse(t, why) ==
  excuse' = [j \in Jobs |->
               IF /\ owner[j] = AppOf[t] /\ excuse[j] = "none"
                  /\ holder[fpga[AppOf[t]]] = j
                 THEN why ELSE excuse[j]]

\* SIGINT is shielded for the requests below, not yet while the socket closes.
InterruptClose(t) ==
  /\ pc[t] = "close"
  /\ fpga[AppOf[t]] # None
  /\ t \in Mains
  /\ \/ UNCHANGED <<connection, live>>
     \/ /\ live' = live \ {connection[AppOf[t]]}
        /\ connection' \in {connection,
                            [connection EXCEPT ![AppOf[t]] = None]}
  /\ Excuse(t, "close")
  /\ Goto(t, after[t])
  /\ UNCHANGED <<after, myjob, myconn, enters, fpga, programmed, target,
                 serverVars, owner>>

Released(t) ==
  /\ programmed' = [programmed EXCEPT ![AppOf[t]] = FALSE]
  /\ Goto(t, after[t])
  /\ UNCHANGED <<after, myjob, myconn, enters, fpga, connection, target,
                 live, ghostVars>>

Release(t) ==
  /\ pc[t] = "release"
  /\ fpga[AppOf[t]] \in session
  /\ FreeBoard(fpga[AppOf[t]])
  /\ Released(t)

\* Mutant: a 404 is taken to mean that the board is free already.
ReleaseNotFoundIgnored(t) ==
  /\ pc[t] = "release"
  /\ fpga[AppOf[t]] \notin session
  /\ Released(t)
  /\ UNCHANGED serverVars

\* 404: no session key; fall back to a reset.
ReleaseNotFound(t) ==
  /\ pc[t] = "release"
  /\ fpga[AppOf[t]] \notin session
  /\ Goto(t, "reset")
  /\ UNCHANGED <<after, myjob, myconn, enters, restVars>>

Reset(t) ==
  /\ pc[t] = "reset"
  /\ FreeBoard(fpga[AppOf[t]])
  /\ Released(t)

\* A release or reset request fails, or its answer does not come back within
\* ten seconds, whether or not the server acted on it: release() raises.
ReleaseFails(t) ==
  /\ pc[t] \in {"release", "reset"}
  /\ Lossy
  /\ \/ Excuse(t, "release") /\ UNCHANGED serverVars
     \/ /\ pc[t] = "reset" \/ fpga[AppOf[t]] \in session
        /\ FreeBoard(fpga[AppOf[t]])
        /\ UNCHANGED excuse
  /\ Goto(t, after[t])
  /\ UNCHANGED <<after, myjob, myconn, enters, appVars, owner>>

----------------------------------------------------------------------------

ThreadStep(t) ==
  \/ Enter(t)
  \/ Call(t)
  \/ \E j \in Jobs : Submit(t, j)
  \/ \E j \in Jobs : SubmitUnanswered(t, j)
  \/ SubmitFails(t)
  \/ PollComplete(t)
  \/ \E why \in {"ended", "timeout", "http", "interrupt"} : PollRaises(t, why)
  \/ Cancel(t)
  \/ CancelLost(t)
  \/ Record(t)
  \/ Mark(t)
  \/ InterruptRecord(t)
  \/ LookConnection(t)
  \/ \E x \in Transports : MakeConnection(t, x)
  \/ Use(t)
  \/ Exit(t)
  \/ ReleaseEarly(t)
  \/ NothingToRelease(t)
  \/ CloseConnection(t)
  \/ InterruptClose(t)
  \/ Release(t)
  \/ ReleaseNotFound(t)
  \/ Reset(t)
  \/ ReleaseFails(t)

ServerStep ==
  \/ \E j \in Jobs :
       \/ \E b \in Boards : Assign(j, b)
       \/ Complete(j)
       \/ BuildFails(j)
  \/ \E b \in Boards : SessionExpires(b)

Next == ServerStep \/ \E t \in Threads : ThreadStep(t)

Spec == Init /\ [][Next]_vars

----------------------------------------------------------------------------
(* Properties.                                                             *)

Pcs == {"out", "in", "submit", "poll", "cancel", "record", "mark", "connect",
        "make", "use", "close", "release", "reset"}

\* Every variable has its type.
TypeOK ==
  /\ pc \in [Threads -> Pcs]
  /\ after \in [Threads -> {"out", "in"}]
  /\ myjob \in [Threads -> Jobs \cup {None}]
  /\ myconn \in [Threads -> Transports \cup {None}]
  /\ enters \in [Threads -> 0..MaxEnters]
  /\ fpga \in [Apps -> Boards \cup {None}]
  /\ programmed \in [Apps -> BOOLEAN]
  /\ connection \in [Apps -> Transports \cup {None}]
  /\ target \in [Transports -> Boards \cup {None}]
  /\ live \subseteq Transports
  /\ status \in [Jobs -> {"none", "queued", "flashing", "complete", "failed",
                         "cancelled"}]
  /\ assigned \in [Jobs -> Boards \cup {None}]
  /\ holder \in [Boards -> Jobs \cup {None}]
  /\ session \subseteq Boards
  /\ owner \in [Jobs -> Apps \cup {None}]
  /\ excuse \in [Jobs -> {"none", "submit", "cancel", "late", "record",
                         "close", "release"}]

\* A build that nobody waits for any more has been cancelled: however
\* poll_job ends, _program's handler cancels the job.  The excuses are the
\* requests that did not go through: a submit or a cancel without an answer.
NoAbandonedBuild ==
  \A j \in Jobs : Active(j) =>
    \/ excuse[j] \in {"submit", "cancel"}
    \/ \E t \in Threads : myjob[t] = j /\ pc[t] \in {"poll", "cancel"}

\* A programmed board that stays reserved is one its App still knows and will
\* release, or one of the listed accidents left it behind: no other way to
\* leak a board exists while every App is entered once.
HeldBoardsTracked ==
  \A j \in Jobs, b \in Boards :
    Holds(j, b) /\ status[j] = "complete" =>
      \/ excuse[j] # "none"
      \/ \E t \in Threads : myjob[t] = j
      \/ /\ fpga[owner[j]] = b
         /\ \E t \in Threads : AppOf[t] = owner[j] /\ pc[t] # "out"

\* The server never handles an App's release while the App has a socket open
\* to the board: the open socket holds the link lock the reset job needs.
SocketClosedFirst ==
  [][\A t \in Threads :
       Release(t) => \A x \in live : target[x] # fpga[AppOf[t]]]_vars

\* A call goes to the board the App was last given, never to one from an
\* earlier build; if the board is there to serve it, the board is flashed and
\* reserved for this App.
CallsReachOwnDesign ==
  [][\A t \in Threads : Use(t) =>
       LET b == target[myconn[t]] IN
         /\ b = fpga[AppOf[t]]
         /\ b \in session =>
              /\ status[holder[b]] = "complete"
              /\ owner[holder[b]] = AppOf[t]]_vars

\* release() is documented to "release the active session": an App never
\* frees a board that is reserved for another App's build.
ReleasesOwnSession ==
  [][\A t \in Threads :
       LET b == fpga[AppOf[t]] IN
         (Release(t) \/ Reset(t)) /\ holder[b] # None =>
           owner[holder[b]] = AppOf[t]]_vars
=============================================================================
