-------------------------- MODULE AppSessionProofs --------------------------
(***************************************************************************)
(* The safety of AppSession, for any number of Apps, threads, jobs and     *)
(* boards. A job is in the hands of at most one thread (Waited); a board   *)
(* is held by the job it was assigned to (Assigned). With these, a build   *)
(* that is still active is waited for or excused, whatever the scripts do. *)
(* That a programmed board is not leaked, that sockets are closed first    *)
(* and that calls reach their own design needs more, and is proved for two *)
(* kinds of scripts: those that enter their App once and drive it with one *)
(* thread, next to other Apps (Once), for then an App is programmed at     *)
(* most once and fpga_id is the board of that build (Fresh, Owned); and    *)
(* those that have one App and one thread, whose requests are answered,    *)
(* however often they enter and release (Alone), for then the App is       *)
(* programmed only while its board is reserved for it (Settled).           *)
(***************************************************************************)
EXTENDS AppSession, TLAPS

\* A thread at the steps of _program has a job of its App, and no other has.
InHand(t) ==
  /\ myjob[t] # None <=> pc[t] \in {"poll", "cancel", "record", "mark"}
  /\ pc[t] \in {"record", "mark"} => status[myjob[t]] = "complete"
  /\ myjob[t] # None => owner[myjob[t]] = AppOf[t] /\ status[myjob[t]] # "none"
  /\ pc[t] = "use" => myconn[t] # None
Waited == \A t \in Threads : InHand(t)

\* A held board belongs to a job that was assigned it.
Assigned ==
  \A b \in Boards : holder[b] # None =>
    status[holder[b]] \in {"flashing", "complete"} /\ assigned[holder[b]] = b

IInv == TypeOK /\ Waited /\ Assigned /\ NoAbandonedBuild

\* One block per App, and no release inside it.
Once ==
  /\ \A s, t \in Threads : AppOf[s] = AppOf[t] => s = t
  /\ MaxEnters = 1 /\ ~Early

\* An App that was programmed is past the steps of _program for good, and one
\* that left does not come back; the board just stored is that of the build.
FreshFor(t) ==
  LET a == AppOf[t] IN
  /\ pc[t] # "out" => enters[t] = 1
  /\ after[t] = "out"
  /\ enters[t] = 0 \/ pc[t] \in {"submit", "poll", "cancel", "record", "mark"} => ~programmed[a]
  /\ pc[t] = "mark" => fpga[a] = assigned[myjob[t]]
Fresh == \A t \in Threads : FreshFor(t)

\* Somebody looks after the board b of job j.
Tracked(j, b) ==
  \/ excuse[j] # "none"
  \/ \E t \in Threads : myjob[t] = j
  \/ /\ fpga[owner[j]] = b /\ programmed[owner[j]]
     /\ \E t \in Threads : AppOf[t] = owner[j] /\ pc[t] # "out"
Kept == \A j \in Jobs, b \in Boards : Holds(j, b) /\ status[j] = "complete" => Tracked(j, b)

OnceInv == IInv /\ Fresh /\ Kept

-----------------------------------------------------------------------------
(* Types.                                                                  *)

\* What the assumption says of the names.
LEMMA Names ==
  /\ None \notin Apps /\ None \notin Jobs /\ None \notin Boards /\ None \notin Transports
  /\ \A t \in Threads : AppOf[t] \in Apps
  BY AppAssumption

LEMMA ServerType == ASSUME TypeOK, ServerStep PROVE TypeOK'
  <1> USE DEF TypeOK, threadVars, appVars, ghostVars
  <1>1. ASSUME NEW j \in Jobs, NEW b \in Boards, Assign(j, b) PROVE TypeOK'
    BY <1>1 DEF Assign
  <1>2. ASSUME NEW j \in Jobs, Complete(j) PROVE TypeOK' BY <1>2 DEF Complete
  <1>3. ASSUME NEW j \in Jobs, BuildFails(j) PROVE TypeOK' BY <1>3 DEF BuildFails, EndJob
  <1>4. ASSUME NEW b \in Boards, SessionExpires(b) PROVE TypeOK' BY <1>4 DEF SessionExpires
  <1> HIDE DEF TypeOK
  <1> QED BY <1>1, <1>2, <1>3, <1>4 DEF ServerStep

\* The steps of _program, up to its board.
Programs(t) ==
  \/ \E j \in Jobs : Submit(t, j) \/ SubmitUnanswered(t, j)
  \/ SubmitFails(t)
  \/ PollComplete(t)
  \/ \E why \in {"ended", "timeout", "http", "interrupt"} : PollRaises(t, why)
  \/ Cancel(t)
  \/ CancelLost(t)
  \/ Record(t)
  \/ Mark(t)
  \/ InterruptRecord(t)

\* The steps of a call that finds its App programmed.
Carries(t) ==
  \/ Enter(t)
  \/ Call(t)
  \/ LookConnection(t)
  \/ \E x \in Transports : MakeConnection(t, x)
  \/ Use(t)

\* The steps of release().
Leaves(t) ==
  \/ Exit(t)
  \/ ReleaseEarly(t)
  \/ NothingToRelease(t)
  \/ CloseConnection(t)
  \/ InterruptClose(t)
  \/ Release(t)
  \/ ReleaseNotFound(t)
  \/ Reset(t)
  \/ ReleaseFails(t)

LEMMA Steps == \A t \in Threads : ThreadStep(t) => Programs(t) \/ Carries(t) \/ Leaves(t)
  BY DEF ThreadStep, Programs, Carries, Leaves

LEMMA ProgramsType ==
  ASSUME TypeOK, Waited, NEW t \in Threads, Programs(t) PROVE TypeOK'
  <1> USE Names DEF TypeOK, threadVars, appVars, serverVars, ghostVars, restVars, Goto, Pcs
  <1>j. pc[t] \in {"poll", "cancel", "record", "mark"} => myjob[t] \in Jobs BY DEF Waited, InHand
  <1>1. ASSUME NEW j \in Jobs, Submit(t, j) \/ SubmitUnanswered(t, j) PROVE TypeOK'
    BY <1>1 DEF Submit, SubmitUnanswered, NewJob
  <1>2. CASE SubmitFails(t) \/ PollComplete(t) BY <1>2 DEF SubmitFails, PollComplete
  <1>3. ASSUME NEW why \in {"ended", "timeout", "http", "interrupt"}, PollRaises(t, why)
        PROVE  TypeOK'
    BY <1>j, <1>3 DEF PollRaises
  <1>4. CASE Cancel(t) BY <1>j, <1>4 DEF Cancel, EndJob
  <1>5. CASE CancelLost(t) \/ InterruptRecord(t) BY <1>j, <1>5 DEF CancelLost, InterruptRecord
  <1>6. CASE Record(t) BY <1>j, <1>6 DEF Record
  <1>7. CASE Mark(t) BY <1>j, <1>7 DEF Mark
  <1> HIDE DEF TypeOK
  <1> QED BY <1>1, <1>2, <1>3, <1>4, <1>5, <1>6, <1>7 DEF Programs

LEMMA CarriesType == ASSUME TypeOK, Waited, NEW t \in Threads, Carries(t) PROVE TypeOK'
  <1>1. CASE Enter(t)
    <2>1. enters' \in [Threads -> 0..MaxEnters]
      <3>1. enters \in [Threads -> 0..MaxEnters] BY DEF TypeOK
      <3> QED BY <1>1, <3>1, AppAssumption DEF Enter
    <2> QED BY <1>1, <2>1 DEF Enter, TypeOK, appVars, serverVars, ghostVars, restVars, Goto, Pcs
  <1> USE Names DEF TypeOK, threadVars, appVars, serverVars, ghostVars, restVars, Goto, Pcs
  <1>2. CASE Call(t) BY <1>2 DEF Call
  <1>3. CASE LookConnection(t) BY <1>3 DEF LookConnection
  <1>4. ASSUME NEW x \in Transports, MakeConnection(t, x) PROVE TypeOK'
    BY <1>4 DEF MakeConnection
  <1>5. CASE Use(t)
    <2>1. myconn[t] \in Transports BY <1>5 DEF Use, Waited, InHand
    <2> QED BY <1>5, <2>1 DEF Use
  <1> HIDE DEF TypeOK
  <1> QED BY <1>1, <1>2, <1>3, <1>4, <1>5 DEF Carries

LEMMA LeavesType == ASSUME TypeOK, NEW t \in Threads, Leaves(t) PROVE TypeOK'
  <1> USE Names DEF TypeOK, threadVars, appVars, serverVars, ghostVars, restVars, Goto, Pcs
  <1>1. CASE Exit(t) \/ ReleaseEarly(t) BY <1>1 DEF Exit, ReleaseEarly, Leave
  <1>2. CASE NothingToRelease(t) \/ ReleaseNotFound(t)
    BY <1>2 DEF NothingToRelease, ReleaseNotFound
  <1>3. CASE CloseConnection(t) BY <1>3 DEF CloseConnection
  <1>4. CASE InterruptClose(t)
    <2>1. excuse' \in [Jobs -> {"none", "submit", "cancel", "late", "record", "close", "release"}]
      BY <1>4 DEF InterruptClose, Excuse
    <2> QED BY <1>4, <2>1 DEF InterruptClose
  <1>5. CASE Release(t) \/ Reset(t)
    <2>1. FreeBoard(fpga[AppOf[t]]) /\ Released(t) BY <1>5 DEF Release, Reset
    <2>2. holder' \in [Boards -> Jobs \cup {None}] /\ session' \subseteq Boards
          /\ UNCHANGED <<status, assigned>>
      BY <2>1 DEF FreeBoard
    <2> QED BY <2>1, <2>2 DEF Released
  <1>6. CASE ReleaseFails(t)
    <2>1. excuse' \in [Jobs -> {"none", "submit", "cancel", "late", "record", "close", "release"}]
      BY <1>6 DEF ReleaseFails, Excuse
    <2> QED BY <1>6, <2>1 DEF ReleaseFails, FreeBoard
  <1> HIDE DEF TypeOK
  <1> QED BY <1>1, <1>2, <1>3, <1>4, <1>5, <1>6 DEF Leaves

-----------------------------------------------------------------------------
(* Jobs and the threads that wait for them.                                *)

\* A submitted job keeps its owner, and one that completed stays complete.
LEMMA JobsStep ==
  ASSUME TypeOK, Next
  PROVE  \A j \in Jobs : status[j] # "none" =>
           /\ status'[j] # "none" /\ owner'[j] = owner[j]
           /\ status[j] = "complete" => status'[j] = "complete"
  <1>t. /\ status \in [Jobs -> {"none", "queued", "flashing", "complete", "failed", "cancelled"}]
        /\ owner \in [Jobs -> Apps \cup {None}]
    BY DEF TypeOK
  <1>1. CASE ServerStep
    <2>1. UNCHANGED owner
      BY <1>1 DEF ServerStep, Assign, Complete, BuildFails, SessionExpires, ghostVars
    <2>2. ASSUME NEW j \in Jobs, NEW b \in Boards, Assign(j, b)
          PROVE  status[j] = "queued" /\ status' = [status EXCEPT ![j] = "flashing"]
      BY <2>2 DEF Assign
    <2>3. ASSUME NEW j \in Jobs, Complete(j)
          PROVE  status[j] = "flashing" /\ status' = [status EXCEPT ![j] = "complete"]
      BY <2>3 DEF Complete
    <2>4. ASSUME NEW j \in Jobs, BuildFails(j)
          PROVE  Active(j) /\ status' = [status EXCEPT ![j] = "failed"]
      BY <2>4 DEF BuildFails, EndJob
    <2>5. ASSUME NEW b \in Boards, SessionExpires(b) PROVE UNCHANGED status
      BY <2>5 DEF SessionExpires
    <2> QED BY <1>1, <1>t, <2>1, <2>2, <2>3, <2>4, <2>5 DEF ServerStep, Active
  <1>2. ASSUME NEW t \in Threads, Programs(t)
        PROVE  \/ UNCHANGED <<status, owner>>
               \/ \E j \in Jobs : /\ status[j] = "none"
                                 /\ status' = [status EXCEPT ![j] = "queued"]
                                 /\ owner' = [owner EXCEPT ![j] = AppOf[t]]
               \/ /\ Active(myjob[t]) /\ UNCHANGED owner
                  /\ status' = [status EXCEPT ![myjob[t]] = "cancelled"]
    <2>1. CASE \E j \in Jobs : Submit(t, j) \/ SubmitUnanswered(t, j)
      BY <2>1 DEF Submit, SubmitUnanswered, NewJob
    <2>2. CASE Cancel(t) BY <2>2 DEF Cancel, EndJob, serverVars
    <2>3. CASE SubmitFails(t) \/ PollComplete(t) \/ CancelLost(t) \/ Record(t) \/ Mark(t)
               \/ InterruptRecord(t)
      BY <2>3 DEF SubmitFails, PollComplete, CancelLost, Record, Mark, InterruptRecord,
                  restVars, serverVars, ghostVars
    <2>4. ASSUME NEW why, PollRaises(t, why) PROVE UNCHANGED <<status, owner>>
      BY <2>4 DEF PollRaises, restVars, serverVars, ghostVars
    <2> QED BY <1>2, <2>1, <2>2, <2>3, <2>4 DEF Programs
  <1>3. ASSUME NEW t \in Threads, Carries(t) \/ Leaves(t) PROVE UNCHANGED <<status, owner>>
    <2>1. CASE Carries(t)
      BY <2>1 DEF Carries, Enter, Call, LookConnection, MakeConnection, Use, restVars,
                  serverVars, ghostVars
    <2>2. CASE Exit(t) \/ ReleaseEarly(t) \/ NothingToRelease(t) \/ CloseConnection(t) \/ InterruptClose(t)
      BY <2>2 DEF Exit, ReleaseEarly, Leave, NothingToRelease, CloseConnection,
                  InterruptClose, restVars, serverVars, ghostVars
    <2>3. CASE Release(t) \/ ReleaseNotFound(t) \/ Reset(t) \/ ReleaseFails(t)
      BY <2>3 DEF Release, ReleaseNotFound, Reset, ReleaseFails, Released, FreeBoard,
                  restVars, serverVars, ghostVars
    <2> QED BY <1>3, <2>1, <2>2, <2>3 DEF Leaves
  <1>4. CASE \E t \in Threads : ThreadStep(t)
    <2>1. PICK t \in Threads : Programs(t) \/ Carries(t) \/ Leaves(t) BY <1>4, Steps
    <2>2. CASE Programs(t) BY <1>t, <1>2, <2>2 DEF Active
    <2>3. CASE Carries(t) \/ Leaves(t) BY <1>3, <2>3
    <2> QED BY <2>1, <2>2, <2>3
  <1> QED BY <1>1, <1>4 DEF Next

\* A step is of the server or of one thread.
LEMMA OthersStay ==
  ASSUME TypeOK, Next
  PROVE  \/ ServerStep /\ UNCHANGED <<pc, after, myjob, myconn, enters>>
         \/ \E t \in Threads :
              /\ Programs(t) \/ Carries(t) \/ Leaves(t)
              /\ \A s \in Threads : s # t => UNCHANGED <<pc[s], after[s], myjob[s], myconn[s],
                                                       enters[s]>>
  <1>1. CASE ServerStep
    BY <1>1 DEF ServerStep, Assign, Complete, BuildFails, SessionExpires, threadVars
  <1>2. ASSUME NEW t \in Threads, ThreadStep(t), NEW s \in Threads, s # t
        PROVE  UNCHANGED <<pc[s], after[s], myjob[s], myconn[s], enters[s]>>
    <2> USE DEF TypeOK, Goto
    <2>1. CASE Programs(t)
      <3>1. CASE \E j \in Jobs : Submit(t, j) \/ SubmitUnanswered(t, j)
        BY <1>2, <3>1 DEF Submit, SubmitUnanswered, NewJob
      <3>2. CASE SubmitFails(t) \/ PollComplete(t) \/ CancelLost(t) \/ Record(t) \/ Mark(t)
                 \/ InterruptRecord(t) \/ Cancel(t)
        BY <1>2, <3>2 DEF SubmitFails, PollComplete, CancelLost, Record, Mark, InterruptRecord, Cancel
      <3>3. ASSUME NEW why, PollRaises(t, why)
            PROVE  UNCHANGED <<pc[s], after[s], myjob[s], myconn[s], enters[s]>>
        BY <1>2, <3>3 DEF PollRaises
      <3> HIDE DEF TypeOK
      <3> QED BY <2>1, <3>1, <3>2, <3>3 DEF Programs
    <2>2. CASE Carries(t)
      BY <1>2, <2>2 DEF Carries, Enter, Call, LookConnection, MakeConnection, Use
    <2>3. CASE Leaves(t)
      BY <1>2, <2>3 DEF Leaves, Exit, ReleaseEarly, Leave, NothingToRelease, CloseConnection,
         InterruptClose, Release, ReleaseNotFound, Reset, ReleaseFails, Released
    <2> HIDE DEF TypeOK
    <2> QED BY <1>2, <2>1, <2>2, <2>3, Steps
  <1> QED BY <1>1, <1>2, Steps DEF Next

LEMMA WaitedStep == ASSUME TypeOK, Waited, Next PROVE Waited'
  <1>t. /\ pc \in [Threads -> Pcs] /\ after \in [Threads -> {"out", "in"}]
        /\ myjob \in [Threads -> Jobs \cup {None}]
        /\ myconn \in [Threads -> Transports \cup {None}]
        /\ connection \in [Apps -> Transports \cup {None}]
        /\ status \in [Jobs -> {"none", "queued", "flashing", "complete", "failed", "cancelled"}]
        /\ owner \in [Jobs -> Apps \cup {None}]
    BY DEF TypeOK
  <1>h. \A s \in Threads : InHand(s) BY DEF Waited
  <1>1. ASSUME NEW s \in Threads, UNCHANGED <<pc[s], myjob[s], myconn[s]>> PROVE InHand(s)'
    <2>1. InHand(s) /\ (myjob[s] # None => myjob[s] \in Jobs) BY <1>h, <1>t
    <2>2. myjob[s] # None =>
            /\ status'[myjob[s]] # "none" /\ owner'[myjob[s]] = owner[myjob[s]]
            /\ status[myjob[s]] = "complete" => status'[myjob[s]] = "complete"
      BY <2>1, JobsStep DEF InHand
    <2> QED BY <1>1, <2>1, <2>2 DEF InHand
  <1>2. ASSUME NEW t \in Threads, Programs(t) PROVE InHand(t)'
    <2>1. ASSUME NEW j \in Jobs, Submit(t, j) PROVE InHand(t)'
      <3>1. pc'[t] = "poll" /\ myjob'[t] = j /\ owner'[j] = AppOf[t] /\ status'[j] = "queued"
        BY <1>t, <2>1 DEF Submit, NewJob, Goto
      <3> QED BY <3>1, Names DEF InHand
    <2>2. ASSUME NEW j \in Jobs, SubmitUnanswered(t, j) PROVE InHand(t)'
      <3>1. pc[t] = "submit" /\ pc'[t] = "in" /\ myjob'[t] = myjob[t]
        BY <1>t, <2>2 DEF SubmitUnanswered, NewJob, Goto
      <3> QED BY <1>h, <3>1 DEF InHand
    <2>3. CASE SubmitFails(t)
      <3>1. pc[t] = "submit" /\ pc'[t] = "in" /\ myjob'[t] = myjob[t]
        BY <1>t, <2>3 DEF SubmitFails, Goto
      <3> QED BY <1>h, <3>1 DEF InHand
    <2>4. CASE PollComplete(t)
      <3>1. /\ pc[t] = "poll" /\ pc'[t] = "record" /\ status[myjob[t]] = "complete"
            /\ UNCHANGED <<myjob, status, owner>>
        BY <1>t, <2>4 DEF PollComplete, Goto, restVars, serverVars, ghostVars
      <3> QED BY <1>h, <3>1 DEF InHand
    <2>5. ASSUME NEW why, PollRaises(t, why) PROVE InHand(t)'
      <3>1. pc[t] = "poll" /\ pc'[t] = "cancel" /\ UNCHANGED <<myjob, status, owner>>
        BY <1>t, <2>5 DEF PollRaises, Goto, restVars, serverVars, ghostVars
      <3> QED BY <1>h, <3>1 DEF InHand
    <2>6. CASE Cancel(t) \/ CancelLost(t) \/ InterruptRecord(t)
      <3>1. pc'[t] = "in" /\ myjob'[t] = None
        BY <1>t, <2>6 DEF Cancel, CancelLost, InterruptRecord, Goto
      <3> QED BY <3>1 DEF InHand
    <2>7. CASE Record(t)
      <3>1. pc[t] = "record" /\ pc'[t] = "mark" /\ UNCHANGED <<myjob, status, owner>>
        BY <1>t, <2>7 DEF Record, Goto, serverVars, ghostVars
      <3> QED BY <1>h, <3>1 DEF InHand
    <2>8. CASE Mark(t)
      <3>1. pc'[t] = "connect" /\ myjob'[t] = None BY <1>t, <2>8 DEF Mark, Goto
      <3> QED BY <3>1 DEF InHand
    <2> QED BY <1>2, <2>1, <2>2, <2>3, <2>4, <2>5, <2>6, <2>7, <2>8 DEF Programs
  <1>3. ASSUME NEW t \in Threads, Carries(t) PROVE InHand(t)'
    <2>1. /\ pc[t] \notin {"poll", "cancel", "record", "mark"}
          /\ pc'[t] \notin {"poll", "cancel", "record", "mark"}
          /\ myjob' = myjob
      BY <1>t, <1>3 DEF Carries, Enter, Call, LookConnection, MakeConnection, Use, Goto
    <2>2. pc'[t] = "use" => myconn'[t] # None
      <3>1. CASE LookConnection(t) BY <1>t, <3>1 DEF LookConnection, Goto
      <3>2. ASSUME NEW x \in Transports, MakeConnection(t, x) PROVE myconn'[t] # None
        BY <1>t, <3>2, Names DEF MakeConnection
      <3>3. CASE Enter(t) \/ Call(t) \/ Use(t)
        BY <1>t, <3>3 DEF Enter, Call, Use, Goto
      <3> QED BY <1>3, <3>1, <3>2, <3>3 DEF Carries
    <2> QED BY <1>h, <2>1, <2>2 DEF InHand
  <1>4. ASSUME NEW t \in Threads, Leaves(t) PROVE InHand(t)'
    <2>1. /\ pc[t] \in {"in", "close", "release", "reset"}
          /\ pc'[t] \in {"close", "release", "reset", "in", "out"}
          /\ myjob' = myjob
      <3>1. CASE Exit(t) \/ ReleaseEarly(t) \/ NothingToRelease(t) \/ CloseConnection(t) \/ InterruptClose(t)
        BY <1>t, <3>1 DEF Exit, ReleaseEarly, Leave, NothingToRelease, CloseConnection,
           InterruptClose, Goto
      <3>2. CASE Release(t) \/ ReleaseNotFound(t) \/ Reset(t) \/ ReleaseFails(t)
        BY <1>t, <3>2 DEF Release, ReleaseNotFound, Reset, ReleaseFails, Released, Goto
      <3> QED BY <1>4, <3>1, <3>2 DEF Leaves
    <2> QED BY <1>h, <2>1 DEF InHand
  <1> QED BY <1>1, <1>2, <1>3, <1>4, OthersStay DEF Waited

\* The steps that change who holds a board.
LEMMA AssignedStep == ASSUME TypeOK, Waited, Assigned, Next PROVE Assigned'
  <1>t. /\ status \in [Jobs -> {"none", "queued", "flashing", "complete", "failed", "cancelled"}]
        /\ assigned \in [Jobs -> Boards \cup {None}]
        /\ holder \in [Boards -> Jobs \cup {None}]
    BY DEF TypeOK
  <1>a. \A b \in Boards : holder[b] # None =>
          /\ holder[b] \in Jobs /\ assigned[holder[b]] = b
          /\ status[holder[b]] \in {"flashing", "complete"}
    BY <1>t DEF Assigned
  <1>1. ASSUME UNCHANGED <<status, assigned, holder>> PROVE Assigned' BY <1>1 DEF Assigned
  <1>2. ASSUME NEW b, FreeBoard(b) PROVE Assigned'
    BY <1>a, <1>t, <1>2 DEF FreeBoard, Assigned
  <1>3. ASSUME NEW j \in Jobs, NEW s \in {"failed", "cancelled"}, EndJob(j, s) PROVE Assigned'
    BY <1>a, <1>t, <1>3 DEF EndJob, Assigned
  <1>4. ASSUME NEW j \in Jobs, status[j] = "none", status' = [status EXCEPT ![j] = "queued"],
               UNCHANGED <<assigned, holder>>
        PROVE  Assigned'
    BY <1>a, <1>t, <1>4 DEF Assigned
  <1>5. CASE ServerStep
    <2>1. ASSUME NEW j \in Jobs, NEW b \in Boards, Assign(j, b) PROVE Assigned'
      <3>1. \A c \in Boards : holder[c] # j BY <1>a, <2>1, Names DEF Assign
      <3> QED BY <1>a, <1>t, <2>1, <3>1 DEF Assign, Assigned
    <2>2. ASSUME NEW j \in Jobs, Complete(j) PROVE Assigned'
      BY <1>a, <1>t, <2>2 DEF Complete, Assigned
    <2>3. ASSUME NEW j \in Jobs, BuildFails(j) PROVE Assigned' BY <1>3, <2>3 DEF BuildFails
    <2>4. ASSUME NEW b \in Boards, SessionExpires(b) PROVE Assigned'
      BY <1>1, <2>4 DEF SessionExpires
    <2> QED BY <1>5, <2>1, <2>2, <2>3, <2>4 DEF ServerStep
  <1>6. ASSUME NEW t \in Threads, Programs(t) PROVE Assigned'
    <2>1. ASSUME NEW j \in Jobs, Submit(t, j) \/ SubmitUnanswered(t, j) PROVE Assigned'
      BY <1>4, <2>1 DEF Submit, SubmitUnanswered, NewJob
    <2>2. CASE Cancel(t)
      <3>1. myjob[t] \in Jobs BY <2>2 DEF Cancel, Waited, InHand, TypeOK
      <3> QED BY <1>1, <1>3, <2>2, <3>1 DEF Cancel, serverVars
    <2>3. CASE SubmitFails(t) \/ PollComplete(t) \/ CancelLost(t) \/ Record(t) \/ Mark(t)
               \/ InterruptRecord(t)
      BY <1>1, <2>3 DEF SubmitFails, PollComplete, CancelLost, Record, Mark, InterruptRecord,
         restVars, serverVars
    <2>4. ASSUME NEW why, PollRaises(t, why) PROVE Assigned'
      BY <1>1, <2>4 DEF PollRaises, restVars, serverVars, ghostVars
    <2> QED BY <1>6, <2>1, <2>2, <2>3, <2>4 DEF Programs
  <1>7. ASSUME NEW t \in Threads, Carries(t) PROVE Assigned'
    BY <1>1, <1>7 DEF Carries, Enter, Call, LookConnection, MakeConnection, Use,
       restVars, serverVars
  <1>8. ASSUME NEW t \in Threads, Leaves(t) PROVE Assigned'
    <2>1. CASE Exit(t) \/ ReleaseEarly(t) \/ NothingToRelease(t) \/ CloseConnection(t) \/ InterruptClose(t)
               \/ ReleaseNotFound(t)
      BY <1>1, <2>1 DEF Exit, ReleaseEarly, Leave, NothingToRelease, CloseConnection,
         InterruptClose, ReleaseNotFound, restVars, serverVars
    <2>2. CASE Release(t) \/ Reset(t) BY <1>2, <2>2 DEF Release, Reset
    <2>3. CASE ReleaseFails(t) BY <1>1, <1>2, <2>3 DEF ReleaseFails, serverVars
    <2> QED BY <1>8, <2>1, <2>2, <2>3 DEF Leaves
  <1> QED BY <1>5, <1>6, <1>7, <1>8, OthersStay

\* No excuse but a lost submit or cancel is made for a job that is active, and
\* those are kept as long as it is.
LEMMA ExcuseStep ==
  ASSUME TypeOK, Waited, Next, NEW j \in Jobs, excuse[j] \in {"submit", "cancel"}, Active(j)'
  PROVE  excuse'[j] \in {"submit", "cancel"}
  <1>t. excuse \in [Jobs -> {"none", "submit", "cancel", "late", "record", "close", "release"}]
    BY DEF TypeOK
  <1>1. CASE UNCHANGED excuse BY <1>1
  <1>2. ASSUME NEW t \in Threads, Programs(t) PROVE excuse'[j] \in {"submit", "cancel"}
    <2>a. pc[t] \in {"poll", "cancel", "record", "mark"} => myjob[t] \in Jobs
      BY DEF Waited, InHand, TypeOK
    <2>1. ASSUME NEW k \in Jobs, Submit(t, k) \/ SubmitUnanswered(t, k)
          PROVE  excuse'[j] \in {"submit", "cancel"}
      BY <1>t, <2>1 DEF Submit, SubmitUnanswered
    <2>2. CASE Cancel(t)
      <3>1. myjob[t] = j => status[j] # "complete"
        BY <2>2, JobsStep DEF Active
      <3> QED BY <1>t, <2>a, <2>2, <3>1 DEF Cancel
    <2>3. CASE CancelLost(t) BY <1>t, <2>a, <2>3 DEF CancelLost
    <2>4. CASE InterruptRecord(t)
      <3>1. status[myjob[t]] = "complete" /\ myjob[t] \in Jobs
        BY <2>a, <2>4 DEF InterruptRecord, Waited, InHand
      <3>2. myjob[t] # j BY <3>1, JobsStep DEF Active
      <3> QED BY <1>t, <2>4, <3>2 DEF InterruptRecord
    <2>5. CASE SubmitFails(t) \/ PollComplete(t) \/ Record(t) \/ Mark(t)
      BY <2>5 DEF SubmitFails, PollComplete, Record, Mark, restVars, ghostVars
    <2>6. ASSUME NEW why, PollRaises(t, why) PROVE excuse'[j] \in {"submit", "cancel"}
      BY <2>6 DEF PollRaises, restVars, ghostVars
    <2> QED BY <1>2, <2>1, <2>2, <2>3, <2>4, <2>5, <2>6 DEF Programs
  <1>3. ASSUME NEW t \in Threads, NEW why, Excuse(t, why) PROVE excuse'[j] \in {"submit", "cancel"}
    BY <1>3 DEF Excuse
  <1>4. ASSUME NEW t \in Threads, Carries(t) \/ Leaves(t)
        PROVE  \/ UNCHANGED excuse
               \/ \E why \in {"close", "release"} : Excuse(t, why)
    <2>1. CASE Carries(t)
      BY <2>1 DEF Carries, Enter, Call, LookConnection, MakeConnection, Use, restVars, ghostVars
    <2>2. CASE Exit(t) \/ ReleaseEarly(t) \/ NothingToRelease(t) \/ CloseConnection(t) \/ ReleaseNotFound(t)
      BY <2>2 DEF Exit, ReleaseEarly, Leave, NothingToRelease, CloseConnection, ReleaseNotFound,
                  restVars, ghostVars
    <2>3. CASE Release(t) \/ Reset(t) BY <2>3 DEF Release, Reset, Released, ghostVars
    <2>4. CASE InterruptClose(t) BY <2>4 DEF InterruptClose
    <2>5. CASE ReleaseFails(t) BY <2>5 DEF ReleaseFails
    <2> QED BY <1>4, <2>1, <2>2, <2>3, <2>4, <2>5 DEF Leaves
  <1>5. CASE ServerStep
    BY <1>5 DEF ServerStep, Assign, Complete, BuildFails, SessionExpires, ghostVars
  <1> QED BY <1>2, <1>3, <1>4, <1>5, OthersStay

\* Jobs become active by being submitted.
LEMMA ActiveStep ==
  ASSUME TypeOK, Waited, Next, NEW j \in Jobs, Active(j)'
  PROVE  \/ Active(j)
         \/ \E t \in Threads : Submit(t, j) \/ SubmitUnanswered(t, j)
  <1>t. status \in [Jobs -> {"none", "queued", "flashing", "complete", "failed", "cancelled"}]
    BY DEF TypeOK
  <1>1. ASSUME UNCHANGED status PROVE Active(j) BY <1>1 DEF Active
  <1>2. ASSUME NEW k \in Jobs, NEW s \in {"failed", "cancelled"}, EndJob(k, s) PROVE Active(j)
    BY <1>t, <1>2 DEF EndJob, Active
  <1>3. CASE ServerStep
    <2>1. ASSUME NEW k \in Jobs, NEW b \in Boards, Assign(k, b) PROVE Active(j)
      BY <1>t, <2>1 DEF Assign, Active
    <2>2. ASSUME NEW k \in Jobs, Complete(k) PROVE Active(j) BY <1>t, <2>2 DEF Complete, Active
    <2>3. ASSUME NEW k \in Jobs, BuildFails(k) PROVE Active(j) BY <1>2, <2>3 DEF BuildFails
    <2>4. ASSUME NEW b \in Boards, SessionExpires(b) PROVE Active(j)
      BY <1>1, <2>4 DEF SessionExpires, Active
    <2> QED BY <1>3, <2>1, <2>2, <2>3, <2>4 DEF ServerStep
  <1>4. ASSUME NEW t \in Threads, Programs(t)
        PROVE  Active(j) \/ Submit(t, j) \/ SubmitUnanswered(t, j)
    <2>1. ASSUME NEW k \in Jobs, k # j, Submit(t, k) \/ SubmitUnanswered(t, k) PROVE Active(j)
      BY <1>t, <2>1 DEF Submit, SubmitUnanswered, NewJob, Active
    <2>2. CASE Cancel(t)
      <3>1. myjob[t] \in Jobs BY <2>2 DEF Cancel, Waited, InHand, TypeOK
      <3> QED BY <1>1, <1>2, <2>2, <3>1 DEF Cancel, serverVars
    <2>3. CASE SubmitFails(t) \/ PollComplete(t) \/ CancelLost(t) \/ Record(t) \/ Mark(t)
               \/ InterruptRecord(t)
      BY <1>1, <2>3 DEF SubmitFails, PollComplete, CancelLost, Record, Mark, InterruptRecord,
         restVars, serverVars
    <2>4. ASSUME NEW why, PollRaises(t, why) PROVE Active(j)
      BY <1>1, <2>4 DEF PollRaises, restVars, serverVars, ghostVars
    <2> QED BY <1>4, <2>1, <2>2, <2>3, <2>4 DEF Programs
  <1>5. ASSUME NEW t \in Threads, Carries(t) PROVE Active(j)
    BY <1>1, <1>5 DEF Carries, Enter, Call, LookConnection, MakeConnection, Use,
       restVars, serverVars
  <1>6. ASSUME NEW t \in Threads, Leaves(t) PROVE Active(j)
    <2>1. CASE Exit(t) \/ ReleaseEarly(t) \/ NothingToRelease(t) \/ CloseConnection(t) \/ InterruptClose(t)
               \/ ReleaseNotFound(t)
      BY <1>1, <2>1 DEF Exit, ReleaseEarly, Leave, NothingToRelease, CloseConnection,
         InterruptClose, ReleaseNotFound, restVars, serverVars
    <2>2. CASE Release(t) \/ Reset(t) \/ ReleaseFails(t)
      BY <1>1, <2>2 DEF Release, Reset, ReleaseFails, FreeBoard, serverVars
    <2> QED BY <1>6, <2>1, <2>2 DEF Leaves
  <1> QED BY <1>3, <1>4, <1>5, <1>6, OthersStay

\* A thread that waits for an active job goes on waiting, cancels it, or says
\* that it could not.
LEMMA WaiterStep ==
  ASSUME TypeOK, Waited, Next, NEW t \in Threads, pc[t] \in {"poll", "cancel"},
         NEW j \in Jobs, myjob[t] = j, Active(j)'
  PROVE  \/ myjob'[t] = j /\ pc'[t] \in {"poll", "cancel"}
         \/ excuse'[j] = "cancel"
  <1>t. /\ pc \in [Threads -> Pcs]
        /\ status \in [Jobs -> {"none", "queued", "flashing", "complete", "failed", "cancelled"}]
        /\ excuse \in [Jobs -> {"none", "submit", "cancel", "late", "record", "close", "release"}]
    BY DEF TypeOK, Waited, InHand
  <1>1. CASE Programs(t)
    <2>1. ~(\E k \in Jobs : Submit(t, k) \/ SubmitUnanswered(t, k))
      BY DEF Submit, SubmitUnanswered, NewJob
    <2>2. CASE PollComplete(t) BY <1>t, <2>2 DEF PollComplete, Active, restVars, serverVars
    <2>3. ASSUME NEW why, PollRaises(t, why) PROVE myjob'[t] = myjob[t] /\ pc'[t] = "cancel"
      BY <1>t, <2>3 DEF PollRaises, Goto
    <2>4. ~Cancel(t) BY <1>t DEF Cancel, EndJob, Active, serverVars
    <2>5. CASE CancelLost(t) BY <1>t, <2>5 DEF CancelLost
    <2>6. ~SubmitFails(t) /\ ~Record(t) /\ ~Mark(t) /\ ~InterruptRecord(t)
      BY DEF SubmitFails, Record, Mark, InterruptRecord
    <2> QED BY <1>1, <2>1, <2>2, <2>3, <2>4, <2>5, <2>6 DEF Programs
  <1>2. ~Carries(t) /\ ~Leaves(t)
    <2>1. ~Carries(t) BY DEF Carries, Enter, Call, LookConnection, MakeConnection, Use
    <2>2. ~Leaves(t)
      BY DEF Leaves, Exit, ReleaseEarly, Leave, NothingToRelease, CloseConnection,
         InterruptClose, Release, ReleaseNotFound, Reset, ReleaseFails
    <2> QED BY <2>1, <2>2
  <1>3. CASE UNCHANGED <<pc[t], myjob[t]>> BY <1>3
  <1> QED BY <1>1, <1>2, <1>3, OthersStay

LEMMA BuildsStep == ASSUME TypeOK, Waited, NoAbandonedBuild, Next PROVE NoAbandonedBuild'
  <1> SUFFICES ASSUME NEW j \in Jobs, Active(j)'
               PROVE  \/ excuse'[j] \in {"submit", "cancel"}
                      \/ \E t \in Threads : myjob'[t] = j /\ pc'[t] \in {"poll", "cancel"}
    BY DEF NoAbandonedBuild
  <1>1. CASE Active(j) /\ excuse[j] \in {"submit", "cancel"} BY <1>1, ExcuseStep
  <1>2. CASE \E t \in Threads : myjob[t] = j /\ pc[t] \in {"poll", "cancel"}
    BY <1>2, WaiterStep
  <1>3. ASSUME NEW t \in Threads, Submit(t, j) PROVE myjob'[t] = j /\ pc'[t] = "poll"
    BY <1>3 DEF Submit, NewJob, Goto, TypeOK
  <1>4. ASSUME NEW t \in Threads, SubmitUnanswered(t, j) PROVE excuse'[j] = "submit"
    BY <1>4 DEF SubmitUnanswered, TypeOK
  <1> QED BY <1>1, <1>2, <1>3, <1>4, ActiveStep DEF NoAbandonedBuild

-----------------------------------------------------------------------------
(* Boards, for scripts that enter their App once.                          *)

\* What a thread changes of its App.
LEMMA AppsStep ==
  ASSUME TypeOK, NEW t \in Threads, Programs(t) \/ Carries(t) \/ Leaves(t),
         NEW a \in Apps, a # AppOf[t]
  PROVE  UNCHANGED <<fpga[a], programmed[a]>>
  <1>t. fpga \in [Apps -> Boards \cup {None}] /\ programmed \in [Apps -> BOOLEAN]
    BY DEF TypeOK
  <1>1. CASE Programs(t)
    <2>1. CASE Record(t) \/ Mark(t) BY <1>t, <2>1 DEF Record, Mark
    <2>2. CASE UNCHANGED <<fpga, programmed>> BY <2>2
    <2> QED BY <1>1, <2>1, <2>2 DEF Programs, Submit, SubmitUnanswered, NewJob, SubmitFails,
         PollComplete, PollRaises, Cancel, CancelLost, InterruptRecord, restVars, appVars
  <1>2. CASE Carries(t)
    BY <1>2 DEF Carries, Enter, Call, LookConnection, MakeConnection, Use, restVars, appVars
  <1>3. CASE Leaves(t)
    BY <1>t, <1>3 DEF Leaves, Exit, ReleaseEarly, Leave, NothingToRelease, CloseConnection,
       InterruptClose, Release, ReleaseNotFound, Reset, ReleaseFails, Released,
       restVars, appVars
  <1> QED BY <1>1, <1>2, <1>3

\* Only the workers assign boards, and only to a job they flash.
LEMMA AssignedBy ==
  ASSUME TypeOK, Next
  PROVE  UNCHANGED assigned \/ \E k \in Jobs, c \in Boards : Assign(k, c)
  <1>1. CASE ServerStep
    BY <1>1 DEF ServerStep, Complete, BuildFails, SessionExpires, EndJob
  <1>2. ASSUME NEW t \in Threads, Programs(t) PROVE UNCHANGED assigned
    BY <1>2 DEF Programs, Submit, SubmitUnanswered, NewJob, SubmitFails, PollComplete,
       PollRaises, Cancel, CancelLost, Record, Mark, InterruptRecord, EndJob, restVars, serverVars
  <1>3. ASSUME NEW t \in Threads, Carries(t) PROVE UNCHANGED assigned
    BY <1>3 DEF Carries, Enter, Call, LookConnection, MakeConnection, Use, restVars,
       serverVars
  <1>4. ASSUME NEW t \in Threads, Leaves(t) PROVE UNCHANGED assigned
    BY <1>4 DEF Leaves, Exit, ReleaseEarly, Leave, NothingToRelease, CloseConnection,
       InterruptClose, Release, ReleaseNotFound, Reset, ReleaseFails, FreeBoard, restVars,
       serverVars
  <1> QED BY <1>1, <1>2, <1>3, <1>4, OthersStay

\* The board of a finished build does not change.
LEMMA AssignedStays ==
  ASSUME TypeOK, Waited, Next, NEW t \in Threads, pc[t] = "mark"
  PROVE  assigned'[myjob[t]] = assigned[myjob[t]]
  <1>1. status[myjob[t]] = "complete" BY DEF Waited, InHand
  <1>2. ASSUME NEW k \in Jobs, NEW c \in Boards, Assign(k, c)
        PROVE  assigned'[myjob[t]] = assigned[myjob[t]]
    BY <1>1, <1>2 DEF Assign, TypeOK
  <1> QED BY <1>2, AssignedBy

LEMMA FreshStep == ASSUME Once, TypeOK, Waited, Fresh, Next PROVE Fresh'
  <1>t. /\ pc \in [Threads -> Pcs] /\ after \in [Threads -> {"out", "in"}]
        /\ enters \in [Threads -> 0..MaxEnters]
        /\ fpga \in [Apps -> Boards \cup {None}] /\ programmed \in [Apps -> BOOLEAN]
    BY DEF TypeOK
  <1>h. \A s \in Threads : FreshFor(s) BY DEF Fresh
  <1>1. ASSUME NEW s \in Threads, UNCHANGED <<pc[s], after[s], myjob[s], enters[s]>>,
               UNCHANGED <<fpga[AppOf[s]], programmed[AppOf[s]]>>
        PROVE  FreshFor(s)'
    BY <1>h, <1>1, AssignedStays DEF FreshFor
  <1>2. ASSUME NEW t \in Threads, Programs(t) PROVE FreshFor(t)'
    <2>1. CASE Record(t)
      <3>1. /\ pc[t] = "record" /\ pc'[t] = "mark"
            /\ UNCHANGED <<after, enters, myjob, programmed, assigned>>
            /\ fpga'[AppOf[t]] = assigned[myjob[t]]
        BY <1>t, <2>1, Names DEF Record, Goto, serverVars
      <3> QED BY <1>h, <3>1 DEF FreshFor
    <2>2. CASE Mark(t)
      <3>1. pc[t] = "mark" /\ pc'[t] = "connect" /\ UNCHANGED <<after, enters>>
        BY <1>t, <2>2 DEF Mark, Goto
      <3> QED BY <1>h, <3>1 DEF FreshFor
    <2>3. CASE UNCHANGED <<fpga, programmed>> /\ ~Record(t) /\ ~Mark(t)
      <3>1. /\ pc[t] \in {"submit", "poll", "cancel", "record", "mark"}
            /\ pc'[t] \in {"in", "poll", "cancel", "record"}
            /\ UNCHANGED <<after, enters>>
        BY <1>t, <1>2, <2>3 DEF Programs, Submit, SubmitUnanswered, NewJob, SubmitFails,
           PollComplete, PollRaises, Cancel, CancelLost, InterruptRecord, Goto
      <3> QED BY <1>h, <2>3, <3>1 DEF FreshFor
    <2> QED BY <1>2, <2>1, <2>2, <2>3 DEF Programs, Submit, SubmitUnanswered, NewJob, SubmitFails,
         PollComplete, PollRaises, Cancel, CancelLost, InterruptRecord, restVars, appVars
  <1>3. ASSUME NEW t \in Threads, Carries(t) PROVE FreshFor(t)'
    <2>1. UNCHANGED <<fpga, programmed, after>>
      BY <1>3 DEF Carries, Enter, Call, LookConnection, MakeConnection, Use, restVars, appVars
    <2>2. CASE Enter(t)
      <3>1. enters[t] = 0 /\ enters'[t] = 1 /\ pc'[t] = "in"
        <4>1. enters[t] \in 0..1 /\ enters[t] < 1 BY <1>t, <2>2 DEF Enter, Once
        <4> QED BY <1>t, <2>2, <4>1 DEF Enter, Goto
      <3> QED BY <1>h, <2>1, <3>1 DEF FreshFor
    <2>3. CASE Call(t)
      <3>1. /\ pc[t] = "in" /\ UNCHANGED enters
            /\ pc'[t] = "connect" \/ (pc'[t] = "submit" /\ ~programmed[AppOf[t]])
        BY <1>t, <2>3 DEF Call, Goto
      <3> QED BY <1>h, <2>1, <3>1 DEF FreshFor
    <2>4. CASE LookConnection(t) \/ Use(t) \/ \E x \in Transports : MakeConnection(t, x)
      <3>1. pc[t] # "out" /\ pc'[t] \in {"make", "use", "in"} /\ UNCHANGED enters
        BY <1>t, <2>4 DEF LookConnection, Use, MakeConnection, Goto
      <3> QED BY <1>h, <2>1, <3>1 DEF FreshFor
    <2> QED BY <1>3, <2>2, <2>3, <2>4 DEF Carries
  <1>4. ASSUME NEW t \in Threads, Leaves(t) PROVE FreshFor(t)'
    <2>1. CASE Exit(t)
      <3>1. pc[t] = "in" /\ pc'[t] = "close" /\ after'[t] = "out"
            /\ UNCHANGED <<enters, fpga, programmed>>
        BY <1>t, <2>1 DEF Exit, Leave, Goto, restVars, appVars
      <3> QED BY <1>h, <3>1 DEF FreshFor
    <2>2. ~ReleaseEarly(t) BY DEF ReleaseEarly, Once
    <2>3. CASE CloseConnection(t) \/ ReleaseNotFound(t)
      <3>1. pc[t] \in {"close", "release"} /\ pc'[t] \in {"release", "reset"}
            /\ UNCHANGED <<after, enters, fpga, programmed>>
        BY <1>t, <2>3 DEF CloseConnection, ReleaseNotFound, Goto, restVars, appVars
      <3> QED BY <1>h, <3>1 DEF FreshFor
    <2>4. CASE NothingToRelease(t) \/ InterruptClose(t) \/ Release(t) \/ Reset(t) \/ ReleaseFails(t)
      <3>1. pc[t] # "out" /\ pc'[t] = after[t] /\ UNCHANGED <<after, enters, fpga>>
        BY <1>t, <2>4 DEF NothingToRelease, InterruptClose, Release, Reset, ReleaseFails,
           Released, Goto, restVars, appVars
      <3> QED BY <1>h, <3>1 DEF FreshFor
    <2> QED BY <1>4, <2>1, <2>2, <2>3, <2>4 DEF Leaves
  <1>5. CASE ServerStep
    BY <1>1, <1>5, OthersStay DEF ServerStep, Assign, Complete, BuildFails, SessionExpires,
       threadVars, appVars, Fresh
  <1>6. ASSUME NEW t \in Threads, Programs(t) \/ Carries(t) \/ Leaves(t),
               NEW s \in Threads, s # t, UNCHANGED <<pc[s], after[s], myjob[s], enters[s]>>
        PROVE  FreshFor(s)'
    <2>1. AppOf[s] \in Apps /\ AppOf[s] # AppOf[t] BY <1>6, Names DEF Once
    <2> QED BY <1>1, <1>6, <2>1, AppsStep
  <1> QED BY <1>2, <1>3, <1>4, <1>5, <1>6, OthersStay DEF Fresh

\* A job that holds a board when it is complete held it already.
LEMMA HeldBefore ==
  ASSUME TypeOK, Waited, Assigned, Next, NEW j \in Jobs, NEW b \in Boards,
         holder'[b] = j, status'[j] = "complete"
  PROVE  holder[b] = j /\ (status[j] = "complete" \/ Active(j))
  <1>t. /\ status \in [Jobs -> {"none", "queued", "flashing", "complete", "failed", "cancelled"}]
        /\ holder \in [Boards -> Jobs \cup {None}] /\ j # None
    BY Names DEF TypeOK
  <1>1. CASE holder[b] = j BY <1>1, <1>t DEF Assigned, Active
  <1>2. CASE holder[b] # j
    <2>1. ASSUME NEW c, FreeBoard(c) PROVE FALSE BY <1>t, <1>2, <2>1 DEF FreeBoard
    <2>2. ASSUME NEW k, NEW s, EndJob(k, s) PROVE FALSE BY <1>t, <1>2, <2>2 DEF EndJob
    <2>3. ~UNCHANGED holder BY <1>2
    <2>4. ASSUME NEW k \in Jobs, NEW c \in Boards, Assign(k, c) PROVE FALSE
      <3>1. holder' = [holder EXCEPT ![c] = k] /\ status' = [status EXCEPT ![k] = "flashing"]
        BY <2>4 DEF Assign
      <3> QED BY <1>t, <1>2, <3>1
    <2>5. ~ServerStep
      BY <2>2, <2>3, <2>4 DEF ServerStep, Complete, BuildFails, SessionExpires
    <2>6. ASSUME NEW t \in Threads PROVE ~Programs(t)
      BY <2>2, <2>3 DEF Programs, Submit, SubmitUnanswered, NewJob, SubmitFails, PollComplete,
         PollRaises, Cancel, CancelLost, Record, Mark, InterruptRecord, restVars, serverVars
    <2>7. ASSUME NEW t \in Threads PROVE ~Carries(t)
      BY <2>3 DEF Carries, Enter, Call, LookConnection, MakeConnection, Use, restVars, serverVars
    <2>8. ASSUME NEW t \in Threads PROVE ~Leaves(t)
      BY <2>1, <2>3 DEF Leaves, Exit, ReleaseEarly, Leave, NothingToRelease, CloseConnection,
         InterruptClose, Release, ReleaseNotFound, Reset, ReleaseFails, restVars, serverVars
    <2> QED BY <2>5, <2>6, <2>7, <2>8, OthersStay
  <1> QED BY <1>1, <1>2

\* An excuse, once made, stays.
LEMMA Excused ==
  ASSUME TypeOK, Waited, Next, NEW j \in Jobs, excuse[j] # "none"
  PROVE  excuse'[j] # "none"
  <1>t. excuse \in [Jobs -> {"none", "submit", "cancel", "late", "record", "close", "release"}]
    BY DEF TypeOK
  <1>1. ASSUME NEW t \in Threads, NEW why \in {"close", "release"}, Excuse(t, why)
        PROVE  excuse'[j] # "none"
    BY <1>1 DEF Excuse
  <1>2. ASSUME UNCHANGED excuse PROVE excuse'[j] # "none" BY <1>2
  <1>3. ASSUME NEW k, NEW why \in {"submit", "cancel", "late", "record"},
               excuse' = [excuse EXCEPT ![k] = why]
        PROVE  excuse'[j] # "none"
    BY <1>t, <1>3
  <1>4. ServerStep => excuse'[j] # "none"
    BY <1>2 DEF ServerStep, Assign, Complete, BuildFails, SessionExpires, ghostVars
  <1>5. ASSUME NEW t \in Threads, Programs(t) PROVE excuse'[j] # "none"
    BY <1>2, <1>3, <1>5 DEF Programs, Submit, SubmitUnanswered, NewJob, SubmitFails, PollComplete,
         PollRaises, Cancel, CancelLost, Record, Mark, InterruptRecord, restVars, ghostVars
  <1>6. ASSUME NEW t \in Threads, Carries(t) PROVE excuse'[j] # "none"
    BY <1>2, <1>6 DEF Carries, Enter, Call, LookConnection, MakeConnection, Use, restVars, ghostVars
  <1>7. ASSUME NEW t \in Threads, Leaves(t) PROVE excuse'[j] # "none"
    BY <1>1, <1>2, <1>7 DEF Leaves, Exit, ReleaseEarly, Leave, NothingToRelease, CloseConnection,
         InterruptClose, Release, ReleaseNotFound, Reset, ReleaseFails, Released, restVars, ghostVars
  <1> QED BY <1>4, <1>5, <1>6, <1>7, OthersStay

\* A finished build goes from the thread's hands to its App, or is given up.
LEMMA HandedOn ==
  ASSUME TypeOK, Waited, Assigned, NEW j \in Jobs, NEW b \in Boards, Next,
         holder[b] = j, holder'[b] = j, status'[j] = "complete",
         NEW t \in Threads, Programs(t), myjob[t] = j,
         pc[t] = "mark" => fpga[AppOf[t]] = assigned[j]
  PROVE  \/ excuse'[j] # "none"
         \/ myjob'[t] = j
         \/ /\ fpga'[AppOf[t]] = b /\ programmed'[AppOf[t]] /\ pc'[t] # "out"
            /\ owner'[j] = AppOf[t]
  <1>t. /\ pc \in [Threads -> Pcs] /\ myjob \in [Threads -> Jobs \cup {None}]
        /\ status \in [Jobs -> {"none", "queued", "flashing", "complete", "failed", "cancelled"}]
        /\ holder \in [Boards -> Jobs \cup {None}] /\ programmed \in [Apps -> BOOLEAN]
        /\ excuse \in [Jobs -> {"none", "submit", "cancel", "late", "record", "close", "release"}]
        /\ fpga \in [Apps -> Boards \cup {None}] /\ j # None /\ AppOf[t] \in Apps
    BY Names DEF TypeOK
  <1>h. pc[t] \in {"poll", "cancel", "record", "mark"} /\ owner[j] = AppOf[t]
    BY <1>t DEF Waited, InHand
  <1>1. UNCHANGED myjob => myjob'[t] = j OBVIOUS
  <1>2. CASE Cancel(t)
    <2>1. CASE Active(j) BY <1>t, <1>2, <2>1 DEF Cancel, EndJob
    <2>2. CASE ~Active(j)
      <3>1. status[j] = "complete" BY <1>2, <2>2 DEF Cancel, serverVars
      <3> QED BY <1>t, <1>2, <3>1 DEF Cancel
    <2> QED BY <2>1, <2>2
  <1>3. CASE CancelLost(t) \/ InterruptRecord(t)
    BY <1>t, <1>3 DEF CancelLost, InterruptRecord
  <1>4. CASE Mark(t)
    <2>1. assigned[j] = b BY <1>t DEF Assigned
    <2>2. /\ fpga'[AppOf[t]] = b /\ programmed'[AppOf[t]] = TRUE /\ owner' = owner
          /\ pc'[t] = "connect"
      BY <1>t, <1>4, <2>1 DEF Mark, Goto, ghostVars
    <2> QED BY <1>h, <2>2
  <1>5. ~(\E k \in Jobs : Submit(t, k) \/ SubmitUnanswered(t, k)) /\ ~SubmitFails(t)
    BY <1>h DEF Submit, SubmitUnanswered, NewJob, SubmitFails
  <1>6. PollComplete(t) \/ Record(t) => UNCHANGED myjob BY DEF PollComplete, Record
  <1>7. \A why : PollRaises(t, why) => UNCHANGED myjob BY DEF PollRaises
  <1> QED BY <1>1, <1>2, <1>3, <1>4, <1>5, <1>6, <1>7 DEF Programs

\* A thread in its App's block keeps the board, gives it up, or says why not.
LEMMA KeptBoard ==
  ASSUME Once, TypeOK, Fresh, NEW j \in Jobs, NEW b \in Boards, holder[b] = j, holder'[b] = j,
         NEW t \in Threads, AppOf[t] = owner[j], fpga[AppOf[t]] = b,
         programmed[AppOf[t]], pc[t] # "out", Programs(t) \/ Carries(t) \/ Leaves(t)
  PROVE  excuse'[j] # "none" \/ (fpga'[AppOf[t]] = b /\ programmed'[AppOf[t]] /\ pc'[t] # "out")
  <1>t. /\ pc \in [Threads -> Pcs] /\ after[t] = "out" /\ b # None /\ j # None
        /\ excuse \in [Jobs -> {"none", "submit", "cancel", "late", "record", "close", "release"}]
        /\ holder \in [Boards -> Jobs \cup {None}]
    BY Names DEF TypeOK, Fresh, FreshFor
  <1>1. ~Programs(t)
    <2>1. pc[t] \notin {"submit", "poll", "cancel", "record", "mark"} BY <1>t DEF Fresh, FreshFor
    <2> QED BY <2>1 DEF Programs, Submit, SubmitUnanswered, NewJob, SubmitFails, PollComplete,
         PollRaises, Cancel, CancelLost, Record, Mark, InterruptRecord
  <1>2. CASE Carries(t)
    <2>1. UNCHANGED <<fpga, programmed>>
      BY <1>2 DEF Carries, Enter, Call, LookConnection, MakeConnection, Use, restVars, appVars
    <2>2. pc'[t] # "out"
      BY <1>t, <1>2 DEF Carries, Enter, Call, LookConnection, MakeConnection, Use, Goto
    <2> QED BY <2>1, <2>2
  <1>3. CASE Leaves(t)
    <2>1. CASE Exit(t) \/ ReleaseEarly(t) \/ CloseConnection(t) \/ ReleaseNotFound(t)
      BY <1>t, <2>1 DEF Exit, ReleaseEarly, Leave, CloseConnection, ReleaseNotFound, Goto,
         restVars, appVars
    <2>2. ~NothingToRelease(t) BY <1>t DEF NothingToRelease
    <2>3. ~FreeBoard(b) BY <1>t DEF FreeBoard
    <2>4. ASSUME NEW why \in {"close", "release"}, Excuse(t, why) PROVE excuse'[j] # "none"
      BY <1>t, <2>4 DEF Excuse
    <2> QED BY <1>3, <2>1, <2>2, <2>3, <2>4 DEF Leaves, InterruptClose, Release, Reset, ReleaseFails
  <1> QED BY <1>1, <1>2, <1>3

LEMMA HeldStep ==
  ASSUME Once, IInv, Fresh, Kept, Next PROVE Kept'
  <1>i. TypeOK /\ Waited /\ Assigned /\ NoAbandonedBuild BY DEF IInv
  <1> SUFFICES ASSUME NEW j \in Jobs, NEW b \in Boards, holder'[b] = j, status'[j] = "complete"
               PROVE  Tracked(j, b)'
    BY DEF Kept, Holds
  <1>1. holder[b] = j /\ (status[j] = "complete" \/ Active(j)) BY <1>i, HeldBefore
  <1>2. Tracked(j, b)
    BY <1>1 DEF IInv, Kept, NoAbandonedBuild, Holds, Tracked
  <1>3. owner'[j] = owner[j] BY <1>i, <1>1, JobsStep DEF Active
  <1>4. CASE excuse[j] # "none" BY <1>i, <1>4, Excused DEF Tracked
  <1>5. ASSUME NEW s \in Threads, myjob[s] = j PROVE Tracked(j, b)'
    <2>1. CASE UNCHANGED myjob[s] BY <1>5, <2>1 DEF Tracked
    <2>2. CASE Programs(s)
      <3>1. \/ excuse'[j] # "none"
            \/ myjob'[s] = j
            \/ /\ fpga'[AppOf[s]] = b /\ programmed'[AppOf[s]] /\ pc'[s] # "out"
               /\ owner'[j] = AppOf[s]
        BY <1>i, <1>1, <1>5, <2>2, HandedOn DEF Fresh, FreshFor
      <3> QED BY <3>1 DEF Tracked
    <2>3. (Carries(s) \/ Leaves(s)) => UNCHANGED myjob
      BY DEF Carries, Enter, Call, LookConnection, MakeConnection, Use, Leaves, Exit,
         ReleaseEarly, Leave, NothingToRelease, CloseConnection, InterruptClose, Release,
         ReleaseNotFound, Reset, ReleaseFails, Released
    <2> QED BY <1>i, <2>1, <2>2, <2>3, OthersStay
  <1>6. ASSUME NEW s \in Threads, AppOf[s] = owner[j], pc[s] # "out", fpga[AppOf[s]] = b,
               programmed[AppOf[s]]
        PROVE  Tracked(j, b)'
    <2>1. CASE ServerStep
      <3>1. UNCHANGED <<fpga, programmed, pc>>
        BY <2>1 DEF ServerStep, Assign, Complete, BuildFails, SessionExpires, threadVars, appVars
      <3> QED BY <1>3, <1>6, <3>1 DEF Tracked
    <2>2. CASE Programs(s) \/ Carries(s) \/ Leaves(s)
      <3>1. excuse'[j] # "none" \/ (fpga'[AppOf[s]] = b /\ programmed'[AppOf[s]] /\ pc'[s] # "out")
        BY <1>i, <1>1, <1>6, <2>2, KeptBoard
      <3> QED BY <1>3, <1>6, <3>1 DEF Tracked
    <2>3. ASSUME NEW t \in Threads, Programs(t) \/ Carries(t) \/ Leaves(t), s # t,
                 UNCHANGED pc[s]
          PROVE  Tracked(j, b)'
      <3>1. AppOf[s] \in Apps /\ AppOf[s] # AppOf[t] BY <2>3, Names DEF Once
      <3>2. UNCHANGED <<fpga[AppOf[s]], programmed[AppOf[s]]>> BY <1>i, <2>3, <3>1, AppsStep
      <3> QED BY <1>3, <1>6, <2>3, <3>2 DEF Tracked
    <2> QED BY <1>i, <2>1, <2>2, <2>3, OthersStay
  <1> QED BY <1>2, <1>4, <1>5, <1>6 DEF Tracked

-----------------------------------------------------------------------------
(* The theorems.                                                           *)

LEMMA InitInv == Init => IInv
  <1> SUFFICES ASSUME Init PROVE IInv OBVIOUS
  <1>1. TypeOK BY AppAssumption DEF Init, TypeOK, Pcs
  <1>2. Waited BY DEF Init, Waited, InHand
  <1>3. Assigned BY DEF Init, Assigned
  <1>4. NoAbandonedBuild BY DEF Init, NoAbandonedBuild, Active
  <1> QED BY <1>1, <1>2, <1>3, <1>4 DEF IInv

LEMMA NextInv == ASSUME IInv, Next PROVE IInv'
  <1>i. TypeOK /\ Waited /\ Assigned /\ NoAbandonedBuild BY DEF IInv
  <1>1. TypeOK'
    BY <1>i, ServerType, ProgramsType, CarriesType, LeavesType, Steps DEF Next
  <1> QED BY <1>i, <1>1, WaitedStep, AssignedStep, BuildsStep DEF IInv

LEMMA StutterInv == ASSUME UNCHANGED vars
                    PROVE  /\ IInv => IInv'
                           /\ Fresh => Fresh'
                           /\ Kept => Kept'
  <1> USE DEF vars, threadVars, restVars, appVars, serverVars, ghostVars
  <1>1. IInv => IInv'
    BY DEF IInv, TypeOK, Waited, InHand, Assigned, NoAbandonedBuild, Active
  <1>2. Fresh => Fresh' BY DEF Fresh, FreshFor
  <1>3. Kept => Kept' BY DEF Kept, Tracked, Holds
  <1> QED BY <1>1, <1>2, <1>3

\* The inductive invariant holds for any Apps, threads, jobs and boards, and any
\* scripts.
THEOREM Invariance == Spec => []IInv
  <1>1. Init => IInv BY InitInv
  <1>2. IInv /\ [Next]_vars => IInv' BY NextInv, StutterInv
  <1> QED BY <1>1, <1>2, PTL DEF Spec

\* Every variable of the Apps, their threads and the orchestrator keeps its type.
THEOREM TypeCorrect == Spec => []TypeOK
  <1>1. IInv => TypeOK BY DEF IInv
  <1> QED BY <1>1, Invariance, PTL

\* However poll_job ends, no build stays active that nobody waits for, unless a
\* submit or a cancel went unanswered.
THEOREM BuildsCorrect == Spec => []NoAbandonedBuild
  <1>1. IInv => NoAbandonedBuild BY DEF IInv
  <1> QED BY <1>1, Invariance, PTL

\* With one block per App and one thread in it, a programmed board is tracked by
\* its App, or left behind by one of the listed accidents.
THEOREM BoardsCorrect == ASSUME Once PROVE Spec => []HeldBoardsTracked
  <1>1. Init => OnceInv
    <2> SUFFICES ASSUME Init PROVE OnceInv OBVIOUS
    <2>1. Fresh BY Names DEF Init, Fresh, FreshFor
    <2>2. Kept BY Names DEF Init, Kept, Holds
    <2> QED BY <2>1, <2>2, InitInv DEF OnceInv
  <1>2. OnceInv /\ [Next]_vars => OnceInv'
    <2>1. ASSUME OnceInv, Next PROVE OnceInv'
      <3>1. IInv /\ Fresh /\ Kept /\ TypeOK /\ Waited BY <2>1 DEF OnceInv, IInv
      <3> QED BY <2>1, <3>1, NextInv, FreshStep, HeldStep DEF OnceInv
    <2> QED BY <2>1, StutterInv DEF OnceInv
  <1>3. OnceInv => HeldBoardsTracked BY DEF OnceInv, Kept, Tracked, HeldBoardsTracked
  <1> QED BY <1>1, <1>2, <1>3, PTL DEF Spec

----------------------------------------------------------------------------
(* More about scripts under Once, whose Apps are made without a board.     *)
(* From the record of its build to its release                             *)
(* the App's board is reserved for that build (Mine): only its own         *)
(* thread frees it, since whoever releases a board holds it.  So an open   *)
(* socket is that of an App that has not come to its release, and a call   *)
(* reaches the design it was written for.                                  *)

\* The App's board is reserved for its own finished build.
Mine(a) ==
  /\ fpga[a] # None /\ holder[fpga[a]] # None
  /\ status[holder[fpga[a]]] = "complete" /\ owner[holder[fpga[a]]] = a

\* What a thread finds of its App at each step.
Steady(t) ==
  LET a == AppOf[t] IN
  /\ enters[t] = 0 => fpga[a] = None
  /\ pc[t] \in {"release", "reset"} => fpga[a] # None /\ connection[a] = None
  /\ pc[t] \in {"connect", "make", "use"} => programmed[a]
  /\ pc[t] = "make" => connection[a] = None
  /\ pc[t] = "use" => connection[a] # None /\ myconn[t] = connection[a]
  /\ connection[a] # None =>
       fpga[a] # None /\ programmed[a] /\ target[connection[a]] = fpga[a]
  /\ programmed[a] => fpga[a] # None
  /\ fpga[a] # None /\ pc[t] # "out" => Mine(a)

\* The board assigned to the job a thread waits for is reserved for it.
Reserved(t) ==
  myjob[t] # None /\ status[myjob[t]] \in {"flashing", "complete"} =>
    assigned[myjob[t]] # None /\ holder[assigned[myjob[t]]] = myjob[t]

\* An open socket is the connection of an App that has not closed it, and its
\* board is that App's.
SocketOf(x, t) ==
  /\ connection[AppOf[t]] = x /\ Mine(AppOf[t])
  /\ pc[t] \notin {"release", "reset"}

Owned ==
  /\ \A t \in Threads : Steady(t) /\ Reserved(t)
  /\ \A x \in live : \E t \in Threads : SocketOf(x, t)

-----------------------------------------------------------------------------
(* What happens to a reserved board.                                       *)

Freeing(t) == Release(t) \/ Reset(t) \/ ReleaseFails(t)

\* A board stays with its job until the job ends or the board is freed.
LEMMA HolderKept ==
  ASSUME TypeOK, Assigned, Next, NEW j \in Jobs, NEW b \in Boards, holder[b] = j,
         status'[j] \in {"flashing", "complete"},
         \A t \in Threads : Freeing(t) => fpga[AppOf[t]] # b
  PROVE  holder'[b] = j
  <1>t. /\ holder \in [Boards -> Jobs \cup {None}] /\ j # None
        /\ status \in [Jobs -> {"none", "queued", "flashing", "complete", "failed", "cancelled"}]
    BY Names DEF TypeOK
  <1>1. ASSUME UNCHANGED holder PROVE holder'[b] = j BY <1>1
  <1>2. ASSUME NEW k, NEW s \in {"failed", "cancelled"}, EndJob(k, s) PROVE holder'[b] = j
    BY <1>t, <1>2 DEF EndJob
  <1>3. ASSUME NEW c, c # b, FreeBoard(c) PROVE holder'[b] = j BY <1>t, <1>3 DEF FreeBoard
  <1>4. ASSUME NEW k \in Jobs, NEW c \in Boards, Assign(k, c) PROVE holder'[b] = j
    BY <1>t, <1>4 DEF Assign
  <1>5. CASE ServerStep
    BY <1>1, <1>2, <1>4, <1>5 DEF ServerStep, Complete, BuildFails, SessionExpires
  <1>6. ASSUME NEW t \in Threads, Programs(t) PROVE holder'[b] = j
    BY <1>1, <1>2, <1>6 DEF Programs, Submit, SubmitUnanswered, NewJob, SubmitFails,
       PollComplete, PollRaises, Cancel, CancelLost, Record, Mark, InterruptRecord, restVars, serverVars
  <1>7. ASSUME NEW t \in Threads, Carries(t) PROVE holder'[b] = j
    BY <1>1, <1>7 DEF Carries, Enter, Call, LookConnection, MakeConnection, Use, restVars,
       serverVars
  <1>8. ASSUME NEW t \in Threads, Leaves(t) PROVE holder'[b] = j
    BY <1>1, <1>3, <1>8 DEF Leaves, Exit, ReleaseEarly, Leave, NothingToRelease, CloseConnection,
       InterruptClose, Release, ReleaseNotFound, Reset, ReleaseFails, Freeing, restVars, serverVars
  <1> QED BY <1>5, <1>6, <1>7, <1>8, OthersStay

\* A thread that frees a board frees its own App's.
LEMMA FreesOwn ==
  ASSUME Owned, NEW t \in Threads, Freeing(t)
  PROVE  Mine(AppOf[t])
  <1>1. pc[t] \in {"release", "reset"} BY DEF Freeing, Release, Reset, ReleaseFails
  <1>2. fpga[AppOf[t]] # None BY <1>1 DEF Owned, Steady
  <1> QED BY <1>1, <1>2 DEF Owned, Steady

\* What is reserved for an App stays so until somebody frees its board.
LEMMA MineStays ==
  ASSUME TypeOK, Assigned, Next, NEW a \in Apps, Mine(a), fpga'[a] = fpga[a],
         \A t \in Threads : Freeing(t) => fpga[AppOf[t]] # fpga[a]
  PROVE  Mine(a)'
  <1> DEFINE b == fpga[a]  j == holder[b]
  <1>1. b \in Boards /\ j \in Jobs BY DEF TypeOK, Mine
  <1>2. status[j] = "complete" /\ owner[j] = a BY DEF Mine
  <1>3. status'[j] = "complete" /\ owner'[j] = a BY <1>1, <1>2, JobsStep
  <1>4. holder'[b] = j BY <1>1, <1>3, HolderKept
  <1> QED BY <1>1, <1>3, <1>4, Names DEF Mine

\* What is reserved for an App stays so until its own thread frees it.
LEMMA MineKept ==
  ASSUME TypeOK, Assigned, Owned, Next, NEW a \in Apps, Mine(a), fpga'[a] = fpga[a],
         \A t \in Threads : AppOf[t] = a => ~Freeing(t)
  PROVE  Mine(a)'
  <1>1. ASSUME NEW t \in Threads, Freeing(t) PROVE fpga[AppOf[t]] # fpga[a]
    BY <1>1, FreesOwn DEF Mine
  <1> QED BY <1>1, MineStays

\* A job gets as far as a board when a worker takes it.
LEMMA FlashedBy ==
  ASSUME TypeOK, Waited, Next, NEW j \in Jobs, status[j] \notin {"flashing", "complete"},
         status'[j] \in {"flashing", "complete"}
  PROVE  \E c \in Boards : Assign(j, c)
  <1>t. status \in [Jobs -> {"none", "queued", "flashing", "complete", "failed", "cancelled"}]
    BY DEF TypeOK
  <1>1. ~UNCHANGED status OBVIOUS
  <1>2. ASSUME NEW k, NEW s \in {"failed", "cancelled", "queued"},
               status' = [status EXCEPT ![k] = s]
        PROVE  FALSE
    BY <1>t, <1>2
  <1>3. ASSUME NEW k \in Jobs, Complete(k) PROVE FALSE BY <1>t, <1>3 DEF Complete
  <1>4. ASSUME NEW k \in Jobs, NEW c \in Boards, Assign(k, c) PROVE k = j
    BY <1>t, <1>4 DEF Assign
  <1>5. ASSUME NEW t \in Threads PROVE ~Programs(t) /\ ~Carries(t) /\ ~Leaves(t)
    <2>1. ~Programs(t)
      BY <1>1, <1>2 DEF Programs, Submit, SubmitUnanswered, NewJob, SubmitFails, PollComplete,
         PollRaises, Cancel, CancelLost, Record, Mark, InterruptRecord, EndJob, restVars, serverVars
    <2>2. ~Carries(t)
      BY <1>1 DEF Carries, Enter, Call, LookConnection, MakeConnection, Use, restVars,
       serverVars
    <2>3. ~Leaves(t)
      BY <1>1 DEF Leaves, Exit, ReleaseEarly, Leave, NothingToRelease, CloseConnection,
         InterruptClose, Release, ReleaseNotFound, Reset, ReleaseFails, FreeBoard, restVars,
         serverVars
    <2> QED BY <2>1, <2>2, <2>3
  <1> QED BY <1>1, <1>2, <1>3, <1>4, <1>5, OthersStay DEF ServerStep, BuildFails, EndJob,
        SessionExpires

\* The board assigned to the job a thread goes on waiting for stays reserved until
\* somebody frees it.
LEMMA ReservedStays ==
  ASSUME TypeOK, Waited, Assigned, Next, NEW t \in Threads, Reserved(t), myjob'[t] = myjob[t],
         \A s \in Threads : Freeing(s) /\ myjob[t] # None /\ assigned[myjob[t]] # None
                              /\ holder[assigned[myjob[t]]] = myjob[t]
                                => fpga[AppOf[s]] # assigned[myjob[t]]
  PROVE  Reserved(t)'
  <1> SUFFICES ASSUME myjob[t] # None, status'[myjob[t]] \in {"flashing", "complete"}
               PROVE  /\ assigned'[myjob[t]] # None
                      /\ holder'[assigned'[myjob[t]]] = myjob[t]
    BY DEF Reserved
  <1> DEFINE j == myjob[t]
  <1>t. /\ j \in Jobs /\ j # None
        /\ status \in [Jobs -> {"none", "queued", "flashing", "complete", "failed", "cancelled"}]
        /\ assigned \in [Jobs -> Boards \cup {None}]
        /\ holder \in [Boards -> Jobs \cup {None}]
    BY Names DEF TypeOK
  <1>1. CASE status[j] \in {"flashing", "complete"}
    <2> DEFINE b == assigned[j]
    <2>1. b \in Boards /\ b # None /\ holder[b] = j BY <1>t, <1>1 DEF Reserved
    <2>2. ASSUME NEW s \in Threads, Freeing(s) PROVE fpga[AppOf[s]] # b
      BY <2>1, <2>2
    <2>3. holder'[b] = j BY <1>t, <2>1, <2>2, HolderKept
    <2>4. assigned'[j] = b
      <3>1. ~(\E k \in Jobs, c \in Boards : Assign(k, c) /\ k = j) BY <1>1 DEF Assign
      <3>2. ASSUME NEW k \in Jobs, NEW c \in Boards, Assign(k, c) PROVE assigned'[j] = b
        BY <1>t, <3>1, <3>2 DEF Assign
      <3>3. CASE UNCHANGED assigned BY <3>3
      <3> QED BY <3>2, <3>3, AssignedBy
    <2> QED BY <2>1, <2>3, <2>4
  <1>2. CASE status[j] \notin {"flashing", "complete"}
    <2>1. PICK c \in Boards : Assign(j, c) BY <1>t, <1>2, FlashedBy
    <2>2. assigned'[j] = c /\ holder'[c] = j /\ c # None BY <1>t, <2>1, Names DEF Assign
    <2> QED BY <2>2
  <1> QED BY <1>1, <1>2

\* It stays reserved: whoever frees a board has one of its own.
LEMMA ReservedKept ==
  ASSUME Once, TypeOK, Waited, Assigned, Owned, Next, NEW t \in Threads, myjob'[t] = myjob[t]
  PROVE  Reserved(t)'
  <1>1. ASSUME NEW s \in Threads, Freeing(s), myjob[t] # None, assigned[myjob[t]] # None,
               holder[assigned[myjob[t]]] = myjob[t]
        PROVE  fpga[AppOf[s]] # assigned[myjob[t]]
    <2>1. owner[myjob[t]] = AppOf[t] /\ pc[t] \in {"poll", "cancel", "record", "mark"}
      BY <1>1 DEF Waited, InHand
    <2>2. AppOf[s] # AppOf[t]
      BY <1>1, <2>1 DEF Once, Freeing, Release, Reset, ReleaseFails
    <2>3. Mine(AppOf[s]) BY <1>1, FreesOwn
    <2> QED BY <1>1, <2>1, <2>2, <2>3 DEF Mine
  <1>2. Reserved(t) BY DEF Owned
  <1> QED BY <1>1, <1>2, ReservedStays

-----------------------------------------------------------------------------
(* Threads of other Apps.                                                  *)

\* A new transport is made for no other App's connection.
LEMMA ConnectionsStep ==
  ASSUME TypeOK, NEW t \in Threads, Programs(t) \/ Carries(t) \/ Leaves(t),
         NEW a \in Apps, a # AppOf[t]
  PROVE  /\ connection'[a] = connection[a]
         /\ connection[a] # None /\ target[connection[a]] # None =>
              target'[connection[a]] = target[connection[a]]
  <1>t. /\ connection \in [Apps -> Transports \cup {None}]
        /\ target \in [Transports -> Boards \cup {None}]
    BY DEF TypeOK
  <1>1. CASE UNCHANGED <<connection, target>> BY <1>1
  <1>2. ASSUME NEW x \in Transports, MakeConnection(t, x)
        PROVE  /\ connection'[a] = connection[a]
               /\ connection[a] # None /\ target[connection[a]] # None =>
                    target'[connection[a]] = target[connection[a]]
    BY <1>t, <1>2 DEF MakeConnection
  <1>3. CASE Programs(t)
    BY <1>1, <1>3 DEF Programs, Submit, SubmitUnanswered, NewJob, SubmitFails, PollComplete,
       PollRaises, Cancel, CancelLost, Record, Mark, InterruptRecord, restVars, appVars
  <1>4. CASE Carries(t)
    BY <1>1, <1>2, <1>4 DEF Carries, Enter, Call, LookConnection, Use, restVars, appVars
  <1>5. CASE Leaves(t)
    BY <1>t, <1>1, <1>5 DEF Leaves, Exit, ReleaseEarly, Leave, NothingToRelease,
       CloseConnection, InterruptClose, Release, ReleaseNotFound, Reset, ReleaseFails, Released,
       restVars, appVars
  <1> QED BY <1>3, <1>4, <1>5

\* What a thread relies on stands as long as its App's part does.
LEMMA SteadySame ==
  ASSUME TypeOK, Assigned, Fresh, Owned, Next, NEW s \in Threads,
         UNCHANGED <<pc[s], enters[s], myconn[s], fpga[AppOf[s]], programmed[AppOf[s]],
                     connection[AppOf[s]]>>,
         connection[AppOf[s]] # None =>
           target'[connection[AppOf[s]]] = target[connection[AppOf[s]]],
         Mine(AppOf[s]) => Mine(AppOf[s])'
  PROVE  Steady(s)'
  <1>1. Steady(s) BY DEF Owned
  <1> QED BY <1>1 DEF Steady

\* The board of another App stays its own.
LEMMA MineOthers ==
  ASSUME Once, TypeOK, Assigned, Fresh, Owned, Next, NEW t \in Threads,
         Programs(t) \/ Carries(t) \/ Leaves(t),
         \A s \in Threads : s # t => pc'[s] = pc[s],
         NEW s \in Threads, s # t
  PROVE  Mine(AppOf[s]) => Mine(AppOf[s])'
  <1> SUFFICES ASSUME Mine(AppOf[s]) PROVE Mine(AppOf[s])' OBVIOUS
  <1>1. AppOf[s] \in Apps /\ AppOf[s] # AppOf[t] BY Names DEF Once
  <1>2. fpga'[AppOf[s]] = fpga[AppOf[s]] BY <1>1, AppsStep
  <1>3. ASSUME NEW u \in Threads, AppOf[u] = AppOf[s], Freeing(u) PROVE FALSE
    <2>1. u = s BY <1>3 DEF Once
    <2>2. pc[s] \in {"release", "reset"} BY <1>3, <2>1 DEF Freeing, Release, Reset, ReleaseFails
    <2>3. pc'[s] = after[s]
      BY <1>3, <2>1 DEF Freeing, Release, Reset, ReleaseFails, Released, Goto, TypeOK
    <2>4. after[s] = "out" BY DEF Fresh, FreshFor
    <2> QED BY <2>2, <2>3, <2>4
  <1> QED BY <1>1, <1>2, <1>3, MineKept

\* A thread's step leaves to every other what that one relies on.
LEMMA OthersSteady ==
  ASSUME Once, TypeOK, Assigned, Fresh, Owned, Next, NEW t \in Threads,
         Programs(t) \/ Carries(t) \/ Leaves(t),
         \A s \in Threads : s # t => UNCHANGED <<pc[s], after[s], myjob[s], myconn[s], enters[s]>>,
         NEW s \in Threads, s # t
  PROVE  Steady(s)'
  <1>1. AppOf[s] \in Apps /\ AppOf[s] # AppOf[t] BY Names DEF Once
  <1>2. UNCHANGED <<fpga[AppOf[s]], programmed[AppOf[s]]>> BY <1>1, AppsStep
  <1>3. connection[AppOf[s]] # None => target[connection[AppOf[s]]] # None
    BY DEF Owned, Steady
  <1>4. Mine(AppOf[s]) => Mine(AppOf[s])' BY MineOthers
  <1> QED BY <1>1, <1>2, <1>3, <1>4, ConnectionsStep, SteadySame

-----------------------------------------------------------------------------
(* The thread that moves.                                                  *)

\* The steps of _program: the record of a build finds its board reserved.
LEMMA ProgramsSteady ==
  ASSUME Once, TypeOK, Waited, Assigned, Fresh, Owned, Next, NEW t \in Threads, Programs(t)
  PROVE  Steady(t)'
  <1> DEFINE a == AppOf[t]
  <1>t. /\ a \in Apps /\ pc \in [Threads -> Pcs]
        /\ myjob \in [Threads -> Jobs \cup {None}]
        /\ fpga \in [Apps -> Boards \cup {None}] /\ programmed \in [Apps -> BOOLEAN]
        /\ assigned \in [Jobs -> Boards \cup {None}]
    BY Names DEF TypeOK
  <1>1. pc[t] \in {"submit", "poll", "cancel", "record", "mark"}
    BY <1>t DEF Programs, Submit, SubmitUnanswered, NewJob, SubmitFails, PollComplete, PollRaises,
       Cancel, CancelLost, Record, Mark, InterruptRecord
  <1>2. connection[a] = None /\ ~programmed[a]
    <2>1. ~programmed[a] BY <1>1 DEF Fresh, FreshFor
    <2> QED BY <2>1 DEF Owned, Steady
  <1>e. enters'[t] # 0
    BY <1>1 DEF Fresh, FreshFor, Programs, Submit, SubmitUnanswered, NewJob, SubmitFails,
       PollComplete, PollRaises, Cancel, CancelLost, Record, Mark, InterruptRecord
  <1>3. CASE Record(t) \/ Mark(t)
    <2> DEFINE j == myjob[t]  b == assigned[j]
    <2>1. /\ pc[t] \in {"record", "mark"} /\ fpga'[a] = b
          /\ \/ pc'[t] = "mark" /\ UNCHANGED programmed
             \/ pc'[t] = "connect"
          /\ UNCHANGED <<connection, status, holder, owner>>
      <3>1. CASE Record(t) BY <1>t, <3>1 DEF Record, Goto, serverVars, ghostVars
      <3>2. CASE Mark(t)
        BY <1>t, <3>2 DEF Mark, Goto, serverVars, ghostVars, Fresh, FreshFor
      <3> QED BY <1>3, <3>1, <3>2
    <2>2. j \in Jobs /\ j # None /\ owner[j] = a /\ status[j] = "complete"
      BY <1>t, <2>1, Names DEF Waited, InHand
    <2>3. b # None /\ holder[b] = j BY <2>2 DEF Owned, Reserved
    <2>4. Mine(a)' BY <2>1, <2>2, <2>3 DEF Mine
    <2>5. pc'[t] = "connect" => programmed'[a]
      BY <1>t, <1>3 DEF Record, Mark, Goto
    <2> QED BY <1>e, <1>2, <2>1, <2>3, <2>4, <2>5 DEF Steady
  <1>4. CASE ~Record(t) /\ ~Mark(t)
    <2>1. /\ UNCHANGED <<fpga, programmed, connection>>
          /\ pc'[t] \in {"in", "poll", "cancel", "record"}
      BY <1>t, <1>4 DEF Programs, Submit, SubmitUnanswered, NewJob, SubmitFails, PollComplete,
         PollRaises, Cancel, CancelLost, InterruptRecord, Goto, restVars, appVars
    <2>2. ASSUME NEW s \in Threads, AppOf[s] = a PROVE ~Freeing(s)
      BY <1>1, <2>2 DEF Once, Freeing, Release, Reset, ReleaseFails
    <2>3. fpga[a] # None => Mine(a)'
      <3>1. fpga[a] # None => Mine(a) BY <1>1 DEF Owned, Steady
      <3> QED BY <1>t, <2>1, <2>2, <3>1, MineKept
    <2> QED BY <1>e, <1>2, <2>1, <2>3 DEF Steady
  <1> QED BY <1>3, <1>4

\* The steps of a call: it takes the connection there is, or makes one for the
\* board of the build.
LEMMA CarriesSteady ==
  ASSUME Once, TypeOK, Waited, Assigned, Fresh, Owned, Next, NEW t \in Threads, Carries(t)
  PROVE  Steady(t)'
  <1> DEFINE a == AppOf[t]
  <1>t. /\ a \in Apps /\ pc \in [Threads -> Pcs]
        /\ myconn \in [Threads -> Transports \cup {None}]
        /\ connection \in [Apps -> Transports \cup {None}]
        /\ target \in [Transports -> Boards \cup {None}]
        /\ fpga \in [Apps -> Boards \cup {None}] /\ programmed \in [Apps -> BOOLEAN]
    BY Names DEF TypeOK
  <1>h. Steady(t) BY DEF Owned
  <1>1. UNCHANGED <<fpga, programmed, status, holder, owner>>
    BY DEF Carries, Enter, Call, LookConnection, MakeConnection, Use, restVars, appVars,
       serverVars, ghostVars
  <1>2. Mine(a)' <=> Mine(a) BY <1>1 DEF Mine
  <1>e. ~Enter(t) => enters'[t] # 0
    BY DEF Fresh, FreshFor, Carries, Call, LookConnection, MakeConnection, Use
  <1>3. CASE Enter(t)
    <2>1. pc[t] = "out" /\ pc'[t] = "in" /\ UNCHANGED <<connection, target>>
      BY <1>t, <1>3 DEF Enter, Goto, restVars, appVars
    <2>2. enters[t] = 0
      <3>1. enters[t] \in 0..1 /\ enters[t] < 1 BY <1>3 DEF Enter, Once, TypeOK
      <3> QED BY <3>1
    <2>3. fpga[a] = None BY <1>h, <2>2 DEF Steady
    <2>4. ~programmed[a] BY <1>h, <2>3 DEF Steady
    <2> QED BY <1>h, <1>1, <2>1, <2>3, <2>4 DEF Steady
  <1>4. CASE Call(t)
    <2>0. ~Enter(t) BY <1>4 DEF Call, Enter
    <2>1. /\ pc[t] = "in" /\ pc'[t] \in {"connect", "submit"}
          /\ pc'[t] = "connect" => programmed[a]
          /\ UNCHANGED <<connection, target>>
      BY <1>t, <1>4 DEF Call, Goto, restVars, appVars
    <2> QED BY <1>e, <1>h, <1>1, <1>2, <2>0, <2>1 DEF Steady
  <1>5. CASE LookConnection(t)
    <2>0. ~Enter(t) BY <1>5 DEF LookConnection, Enter
    <2>1. /\ pc[t] = "connect" /\ myconn'[t] = connection[a] /\ UNCHANGED <<connection, target>>
          /\ pc'[t] = IF connection[a] = None THEN "make" ELSE "use"
      BY <1>t, <1>5 DEF LookConnection, Goto, restVars, appVars
    <2> QED BY <1>e, <1>h, <1>1, <1>2, <2>0, <2>1 DEF Steady
  <1>6. ASSUME NEW x \in Transports, MakeConnection(t, x) PROVE Steady(t)'
    <2>1. /\ pc[t] = "make" /\ pc'[t] = "use" /\ myconn'[t] = x /\ connection'[a] = x
          /\ target'[x] = fpga[a] /\ x # None
      BY <1>t, <1>6, Names DEF MakeConnection, Goto
    <2>2. programmed[a] /\ Mine(a) /\ fpga[a] # None BY <1>h, <2>1 DEF Steady, Mine
    <2>3. ~Enter(t) BY <2>1 DEF Enter
    <2> QED BY <1>e, <1>1, <1>2, <2>1, <2>2, <2>3 DEF Steady
  <1>7. CASE Use(t)
    <2>0. ~Enter(t) BY <1>7 DEF Use, Enter
    <2>1. pc[t] = "use" /\ pc'[t] = "in" /\ UNCHANGED <<connection, target>>
      BY <1>t, <1>7 DEF Use, Goto
    <2> QED BY <1>e, <1>h, <1>1, <1>2, <2>0, <2>1 DEF Steady
  <1> QED BY <1>3, <1>4, <1>5, <1>6, <1>7 DEF Carries

\* The steps of release().
LEMMA LeavesSteady ==
  ASSUME Once, TypeOK, Waited, Assigned, Fresh, Owned, Next, NEW t \in Threads, Leaves(t)
  PROVE  Steady(t)'
  <1> DEFINE a == AppOf[t]
  <1>t. /\ a \in Apps /\ pc \in [Threads -> Pcs] /\ after[t] = "out"
        /\ connection \in [Apps -> Transports \cup {None}]
        /\ programmed \in [Apps -> BOOLEAN]
    BY Names DEF TypeOK, Fresh, FreshFor
  <1>h. Steady(t) BY DEF Owned
  <1>1. fpga' = fpga /\ target' = target
    BY DEF Leaves, Exit, ReleaseEarly, Leave, NothingToRelease, CloseConnection, InterruptClose,
       Release, ReleaseNotFound, Reset, ReleaseFails, Released, restVars, appVars
  <1>e. enters'[t] # 0
    BY DEF Fresh, FreshFor, Leaves, Exit, ReleaseEarly, Leave, NothingToRelease, CloseConnection,
       InterruptClose, Release, ReleaseNotFound, Reset, ReleaseFails, Released
  <1>2. CASE \/ Exit(t) \/ ReleaseEarly(t) \/ NothingToRelease(t)
             \/ CloseConnection(t) \/ ReleaseNotFound(t)
    <2>1. UNCHANGED <<programmed, status, holder, owner>>
      BY <1>2 DEF Exit, ReleaseEarly, Leave, NothingToRelease, CloseConnection, ReleaseNotFound,
         restVars, appVars, serverVars, ghostVars
    <2>2. Mine(a)' <=> Mine(a) BY <1>1, <2>1 DEF Mine
    <2>3. /\ pc[t] # "out"
          /\ \/ pc'[t] \in {"close", "out"} /\ UNCHANGED connection
             \/ pc'[t] \in {"release", "reset"} /\ fpga[a] # None /\ connection'[a] = None
      BY <1>t, <1>h, <1>2 DEF Exit, ReleaseEarly, Leave, NothingToRelease, CloseConnection,
         ReleaseNotFound, Goto, restVars, appVars, Steady
    <2> QED BY <1>e, <1>h, <1>1, <2>1, <2>2, <2>3 DEF Steady
  <1>3. CASE InterruptClose(t)
    <2>1. /\ pc'[t] = "out" /\ programmed' = programmed
          /\ connection'[a] \in {None, connection[a]}
      BY <1>t, <1>3 DEF InterruptClose, Goto
    <2> QED BY <1>e, <1>h, <1>1, <2>1 DEF Steady
  <1>4. CASE Release(t) \/ Reset(t) \/ ReleaseFails(t)
    <2>1. pc[t] \in {"release", "reset"} /\ pc'[t] = "out" /\ connection' = connection
      BY <1>t, <1>4 DEF Release, Reset, ReleaseFails, Released, Goto, appVars
    <2>2. connection[a] = None BY <1>h, <2>1 DEF Steady
    <2>3. fpga[a] # None BY <1>h, <2>1 DEF Steady
    <2> QED BY <1>1, <1>e, <2>1, <2>2, <2>3 DEF Steady
  <1> QED BY <1>2, <1>3, <1>4 DEF Leaves

-----------------------------------------------------------------------------
(* The invariant.                                                          *)

\* Only a new job is in a thread's hands after a step and was not before.
LEMMA HandsStep ==
  ASSUME TypeOK, NEW t \in Threads, Programs(t) \/ Carries(t) \/ Leaves(t)
  PROVE  \/ myjob'[t] \in {None, myjob[t]}
         \/ status'[myjob'[t]] = "queued"
  <1>t. /\ myjob \in [Threads -> Jobs \cup {None}]
        /\ status \in [Jobs -> {"none", "queued", "flashing", "complete", "failed", "cancelled"}]
    BY DEF TypeOK
  <1>1. ASSUME NEW j \in Jobs, Submit(t, j) PROVE status'[myjob'[t]] = "queued"
    BY <1>t, <1>1 DEF Submit, NewJob
  <1>2. CASE Programs(t)
    BY <1>t, <1>1, <1>2 DEF Programs, SubmitUnanswered, SubmitFails, PollComplete, PollRaises,
       Cancel, CancelLost, Record, Mark, InterruptRecord
  <1>3. CASE Carries(t)
    BY <1>3 DEF Carries, Enter, Call, LookConnection, MakeConnection, Use
  <1>4. CASE Leaves(t)
    BY <1>4 DEF Leaves, Exit, ReleaseEarly, Leave, NothingToRelease, CloseConnection,
       InterruptClose, Release, ReleaseNotFound, Reset, ReleaseFails, Released
  <1> QED BY <1>2, <1>3, <1>4

\* A socket is opened by a call, for the connection it has in hand.
LEMMA LiveBefore ==
  ASSUME TypeOK, NEW t \in Threads, Programs(t) \/ Carries(t) \/ Leaves(t), NEW x \in live'
  PROVE  x \in live \/ (Use(t) /\ x = myconn[t])
  <1>1. CASE Programs(t)
    BY <1>1 DEF Programs, Submit, SubmitUnanswered, NewJob, SubmitFails, PollComplete, PollRaises,
       Cancel, CancelLost, Record, Mark, InterruptRecord, restVars, appVars
  <1>2. CASE Carries(t)
    BY <1>2 DEF Carries, Enter, Call, LookConnection, MakeConnection, Use, restVars, appVars
  <1>3. CASE Leaves(t)
    BY <1>3 DEF Leaves, Exit, ReleaseEarly, Leave, NothingToRelease, CloseConnection,
       InterruptClose, Release, ReleaseNotFound, Reset, ReleaseFails, Released, restVars, appVars
  <1> QED BY <1>1, <1>2, <1>3

\* The thread whose App has a socket keeps it until it closes it.
LEMMA SocketOwn ==
  ASSUME Once, TypeOK, Waited, Assigned, Fresh, Owned, Next, NEW t \in Threads,
         Programs(t) \/ Carries(t) \/ Leaves(t), NEW x \in live', x # None,
         SocketOf(x, t) \/ (Use(t) /\ x = myconn[t])
  PROVE  SocketOf(x, t)'
  <1> DEFINE a == AppOf[t]
  <1>t. /\ a \in Apps /\ pc \in [Threads -> Pcs] /\ after[t] = "out"
        /\ connection \in [Apps -> Transports \cup {None}]
        /\ fpga \in [Apps -> Boards \cup {None}]
    BY Names DEF TypeOK, Fresh, FreshFor
  <1>h. Steady(t) BY DEF Owned
  <1>1. connection[a] = x /\ Mine(a) /\ pc[t] \notin {"release", "reset"}
    BY <1>h DEF SocketOf, Steady, Use
  <1>2. fpga[a] # None BY <1>1 DEF Mine
  <1>3. ~Programs(t)
    <2>1. pc[t] \notin {"submit", "poll", "cancel", "record", "mark"}
      BY <1>h, <1>1 DEF Steady, Fresh, FreshFor
    <2> QED BY <2>1 DEF Programs, Submit, SubmitUnanswered, NewJob, SubmitFails, PollComplete,
           PollRaises, Cancel, CancelLost, Record, Mark, InterruptRecord
  <1>4. fpga'[a] = fpga[a]
    BY <1>3 DEF Carries, Enter, Call, LookConnection, MakeConnection, Use, Leaves, Exit,
       ReleaseEarly, Leave, NothingToRelease, CloseConnection, InterruptClose, Release,
       ReleaseNotFound, Reset, ReleaseFails, Released, restVars, appVars
  <1>5. ASSUME NEW s \in Threads, AppOf[s] = a PROVE ~Freeing(s)
    BY <1>1, <1>5 DEF Once, Freeing, Release, Reset, ReleaseFails
  <1>6. Mine(a)' BY <1>t, <1>1, <1>4, <1>5, MineKept
  <1>7. CASE Carries(t)
    <2>1. pc'[t] \notin {"release", "reset"}
      BY <1>t, <1>7 DEF Carries, Enter, Call, LookConnection, MakeConnection, Use, Goto
    <2>2. connection'[a] = x
      <3>1. ~(\E y \in Transports : MakeConnection(t, y))
        BY <1>1, <1>h DEF MakeConnection, Steady
      <3> QED BY <1>1, <1>7, <3>1 DEF Carries, Enter, Call, LookConnection, Use, restVars, appVars
    <2> QED BY <1>6, <2>1, <2>2 DEF SocketOf
  <1>8. CASE Leaves(t)
    <2>1. ~CloseConnection(t) BY <1>1 DEF CloseConnection
    <2>2. ~ReleaseNotFound(t) BY <1>1 DEF ReleaseNotFound
    <2>3. pc'[t] \notin {"release", "reset"}
      BY <1>t, <1>8, <2>1, <2>2, <1>5 DEF Leaves, Exit, ReleaseEarly, Leave, NothingToRelease,
         InterruptClose, Freeing, Goto
    <2>4. connection'[a] = x
      BY <1>1, <1>8, <2>1, <2>2, <1>5 DEF Leaves, Exit, ReleaseEarly, Leave, NothingToRelease,
         InterruptClose, Freeing, restVars, appVars
    <2> QED BY <1>6, <2>3, <2>4 DEF SocketOf
  <1> QED BY <1>3, <1>7, <1>8

\* Every step keeps what the threads rely on.
LEMMA OwnedStep == ASSUME Once, IInv, Fresh, Owned, Next PROVE Owned'
  <1>i. TypeOK /\ Waited /\ Assigned BY DEF IInv
  <1>1. CASE ServerStep /\ UNCHANGED <<pc, after, myjob, myconn, enters>>
    <2>1. UNCHANGED <<fpga, programmed, connection, target, live>>
      BY <1>1 DEF ServerStep, Assign, Complete, BuildFails, SessionExpires, appVars
    <2>2. ASSUME NEW t \in Threads PROVE ~Freeing(t)
      <3>1. Freeing(t) => pc'[t] # pc[t]
        BY <1>i DEF Freeing, Release, Reset, ReleaseFails, Released, Goto, TypeOK, Fresh, FreshFor
      <3> QED BY <1>1, <3>1
    <2>3. ASSUME NEW t \in Threads, Mine(AppOf[t]) PROVE Mine(AppOf[t])'
      BY <1>i, <2>1, <2>2, <2>3, MineKept, Names
    <2>4. ASSUME NEW t \in Threads PROVE Steady(t)'
      BY <1>i, <1>1, <2>1, <2>3, SteadySame
    <2>5. ASSUME NEW t \in Threads PROVE Reserved(t)' BY <1>i, <1>1, ReservedKept
    <2>6. ASSUME NEW x \in live' PROVE \E t \in Threads : SocketOf(x, t)'
      <3>1. PICK t \in Threads : SocketOf(x, t) BY <2>1 DEF Owned
      <3> QED BY <1>1, <2>1, <2>3, <3>1 DEF SocketOf
    <2> QED BY <2>4, <2>5, <2>6 DEF Owned
  <1>2. ASSUME NEW t \in Threads, Programs(t) \/ Carries(t) \/ Leaves(t),
               \A s \in Threads : s # t =>
                 UNCHANGED <<pc[s], after[s], myjob[s], myconn[s], enters[s]>>
        PROVE  Owned'
    <2>1. ASSUME NEW s \in Threads PROVE Steady(s)'
      <3>1. CASE s = t
        BY <1>i, <1>2, <3>1, ProgramsSteady, CarriesSteady, LeavesSteady
      <3> QED BY <1>i, <1>2, <3>1, OthersSteady
    <2>2. ASSUME NEW s \in Threads PROVE Reserved(s)'
      <3>1. CASE myjob'[s] = myjob[s] BY <1>i, <3>1, ReservedKept
      <3>2. CASE s = t /\ (myjob'[t] = None \/ status'[myjob'[t]] = "queued")
        BY <3>2 DEF Reserved
      <3> QED BY <1>i, <1>2, <3>1, <3>2, HandsStep
    <2>3. ASSUME NEW x \in live' PROVE \E s \in Threads : SocketOf(x, s)'
      <3>1. x # None
        <4>1. TypeOK' BY NextInv DEF IInv
        <4> QED BY <2>3, <4>1, Names DEF TypeOK
      <3>2. CASE SocketOf(x, t) \/ (Use(t) /\ x = myconn[t])
        BY <1>i, <1>2, <2>3, <3>1, <3>2, SocketOwn
      <3>3. ASSUME NEW s \in Threads, s # t, SocketOf(x, s) PROVE SocketOf(x, s)'
        <4>1. AppOf[s] \in Apps /\ AppOf[s] # AppOf[t] BY <3>3, Names DEF Once
        <4>2. connection'[AppOf[s]] = x BY <1>i, <1>2, <3>3, <4>1, ConnectionsStep DEF SocketOf
        <4>3. Mine(AppOf[s])' BY <1>i, <1>2, <3>3, MineOthers DEF SocketOf
        <4> QED BY <1>2, <3>3, <4>2, <4>3 DEF SocketOf
      <3>4. x \in live \/ (Use(t) /\ x = myconn[t]) BY <1>i, <1>2, <2>3, LiveBefore
      <3> QED BY <3>2, <3>3, <3>4 DEF Owned
    <2> QED BY <2>1, <2>2, <2>3 DEF Owned
  <1> QED BY <1>i, <1>1, <1>2, OthersStay

UsedInv == IInv /\ Fresh /\ Owned

\* The invariant of the two theorems below.
LEMMA UsedInvariance == ASSUME Once, Given = {} PROVE Spec => []UsedInv
  <1>1. Init => UsedInv
    <2> SUFFICES ASSUME Init PROVE UsedInv OBVIOUS
    <2>1. Fresh BY Names DEF Init, Fresh, FreshFor
    <2>2. ASSUME NEW t \in Threads PROVE Steady(t) /\ Reserved(t)
      BY <2>2, Names DEF Init, Steady, Reserved
    <2>3. live = {} BY DEF Init
    <2>4. Owned BY <2>2, <2>3 DEF Owned
    <2> QED BY <2>1, <2>4, InitInv DEF UsedInv
  <1>2. UsedInv /\ [Next]_vars => UsedInv'
    <2>1. ASSUME UsedInv, Next PROVE UsedInv'
      BY <2>1, NextInv, FreshStep, OwnedStep DEF UsedInv, IInv
    <2>2. ASSUME UsedInv, UNCHANGED vars PROVE UsedInv'
      <3>1. Owned'
        BY <2>2 DEF UsedInv, Owned, Steady, Reserved, SocketOf, Mine, vars, threadVars, restVars,
           appVars, serverVars, ghostVars
      <3> QED BY <2>2, <3>1, StutterInv DEF UsedInv
    <2> QED BY <2>1, <2>2
  <1> QED BY <1>1, <1>2, PTL DEF Spec

-----------------------------------------------------------------------------
(* The theorems.                                                           *)

\* With Apps made without a board, one block per App and one thread in it, the
\* server never handles an App's release while any App has a socket open to the
\* board.
THEOREM SocketsCorrect == ASSUME Once, Given = {} PROVE Spec => SocketClosedFirst
  <1>1. ASSUME UsedInv, NEW t \in Threads, Release(t), NEW x \in live
        PROVE  target[x] # fpga[AppOf[t]]
    <2>1. Mine(AppOf[t]) BY <1>1, FreesOwn DEF UsedInv, IInv, Freeing
    <2>2. PICK s \in Threads : SocketOf(x, s) BY <1>1 DEF UsedInv, Owned
    <2>3. x # None BY <1>1, Names DEF UsedInv, IInv, TypeOK
    <2>4. target[x] = fpga[AppOf[s]] /\ Mine(AppOf[s])
      BY <1>1, <2>2, <2>3 DEF UsedInv, Owned, Steady, SocketOf
    <2>5. s # t BY <1>1, <2>2 DEF SocketOf, Release
    <2> QED BY <2>1, <2>4, <2>5 DEF Mine, Once
  <1>2. UsedInv /\ [Next]_vars =>
          [\A t \in Threads : Release(t) => \A x \in live : target[x] # fpga[AppOf[t]]]_vars
    BY <1>1
  <1>3. Spec => []UsedInv BY UsedInvariance
  <1> QED BY <1>2, <1>3, PTL DEF Spec, SocketClosedFirst

\* With Apps made without a board, one block per App and one thread in it, a call
\* reaches the board its App was last given, flashed and reserved for that App.
THEOREM CallsCorrect == ASSUME Once, Given = {} PROVE Spec => CallsReachOwnDesign
  <1> DEFINE Reaches(t) ==
        LET b == target[myconn[t]] IN
          /\ b = fpga[AppOf[t]]
          /\ b \in session =>
               /\ status[holder[b]] = "complete"
               /\ owner[holder[b]] = AppOf[t]
  <1>1. ASSUME UsedInv, NEW t \in Threads, Use(t) PROVE Reaches(t)
    <2>1. pc[t] = "use" BY <1>1 DEF Use
    <2>2. Steady(t) BY <1>1 DEF UsedInv, Owned
    <2>3. target[myconn[t]] = fpga[AppOf[t]] /\ Mine(AppOf[t]) BY <2>1, <2>2 DEF Steady
    <2> QED BY <2>3 DEF Mine
  <1>2. UsedInv /\ [Next]_vars => [\A t \in Threads : Use(t) => Reaches(t)]_vars BY <1>1
  <1>3. Spec => []UsedInv BY UsedInvariance
  <1> QED BY <1>2, <1>3, PTL DEF Spec, CallsReachOwnDesign

-----------------------------------------------------------------------------
(* One thread, that enters its App again and releases it early.            *)

\* One thread, whose requests are answered; it may be interrupted.
Alone == (\E t \in Threads : Threads = {t}) /\ ~Lossy

\* As long as its App is programmed the thread has the board for itself, and
\* the only socket that may be open is the one to that board.
Settled(t) ==
  LET a == AppOf[t] IN
  /\ pc[t] \in {"submit", "poll", "cancel", "record", "mark"} => ~programmed[a]
  /\ pc[t] = "mark" => fpga[a] = assigned[myjob[t]]
  /\ pc[t] \in {"connect", "make", "use"} => programmed[a]
  /\ pc[t] \in {"release", "reset"} => fpga[a] # None /\ connection[a] = None
  /\ pc[t] = "make" => connection[a] = None
  /\ pc[t] = "use" => connection[a] # None /\ myconn[t] = connection[a]
  /\ connection[a] # None => programmed[a] /\ target[connection[a]] = fpga[a]
  /\ programmed[a] => Mine(a)
  /\ \A x \in live : x = connection[a]

\* A finished build that holds a board is given up, in hand, or the App's.
Minded(t) ==
  \A j \in Jobs, b \in Boards : Holds(j, b) /\ status[j] = "complete" =>
    \/ excuse[j] # "none"
    \/ myjob[t] = j
    \/ fpga[AppOf[t]] = b /\ programmed[AppOf[t]] /\ pc[t] # "out"

AloneInv == IInv /\ \A t \in Threads : Settled(t) /\ Reserved(t) /\ Minded(t)

\* A thread at the steps of release() waits for no job.
LEMMA FreesNone ==
  ASSUME TypeOK, Waited, NEW t \in Threads, Freeing(t)
  PROVE  myjob[t] = None /\ pc[t] \in {"release", "reset"} /\ pc'[t] \in {"out", "in"}
  <1>1. pc[t] \in {"release", "reset"} BY DEF Freeing, Release, Reset, ReleaseFails
  <1>2. pc'[t] = after[t] /\ after[t] \in {"out", "in"}
    BY DEF Freeing, Release, Reset, ReleaseFails, Released, Goto, TypeOK
  <1> QED BY <1>1, <1>2 DEF Waited, InHand

\* The board of the job in hand stays reserved.
LEMMA AloneReserved ==
  ASSUME Alone, TypeOK, Waited, Assigned, Next, NEW t \in Threads, Reserved(t)
  PROVE  Reserved(t)'
  <1>1. CASE myjob'[t] = myjob[t]
    <2>1. ASSUME NEW s \in Threads, Freeing(s) PROVE myjob[t] = None
      BY <2>1, FreesNone DEF Alone
    <2> QED BY <1>1, <2>1, ReservedStays
  <1>2. CASE myjob'[t] = None \/ status'[myjob'[t]] = "queued"
    BY <1>2 DEF Reserved
  <1>3. ServerStep => UNCHANGED myjob
    BY DEF ServerStep, Assign, Complete, BuildFails, SessionExpires, threadVars
  <1>4. ASSUME NEW s \in Threads, Programs(s) \/ Carries(s) \/ Leaves(s)
        PROVE  myjob'[t] \in {None, myjob[t]} \/ status'[myjob'[t]] = "queued"
    BY <1>4, HandsStep DEF Alone
  <1> QED BY <1>1, <1>2, <1>3, <1>4, OthersStay

\* The server takes no board away from a finished build.
LEMMA AloneServer ==
  ASSUME IInv, Next, ServerStep, NEW t \in Threads, Settled(t)
  PROVE  Settled(t)'
  <1>i. TypeOK /\ Waited /\ Assigned /\ AppOf[t] \in Apps BY Names DEF IInv
  <1>1. UNCHANGED <<pc, myjob, myconn, fpga, programmed, connection, target, live>>
    BY DEF ServerStep, Assign, Complete, BuildFails, SessionExpires, threadVars, appVars
  <1>2. ASSUME NEW s \in Threads, Freeing(s) PROVE FALSE
    BY <1>i, <1>1, <1>2, FreesNone
  <1>3. Mine(AppOf[t]) => Mine(AppOf[t])' BY <1>i, <1>1, <1>2, MineStays
  <1> QED BY <1>i, <1>1, <1>3, AssignedStays DEF Settled

\* The steps of _program: the record of a build finds its board reserved.
LEMMA AloneProgram ==
  ASSUME IInv, NEW t \in Threads, Settled(t), Reserved(t), Programs(t)
  PROVE  Settled(t)'
  <1> DEFINE a == AppOf[t]
  <1>t. /\ a \in Apps /\ pc \in [Threads -> Pcs] /\ Waited
        /\ myjob \in [Threads -> Jobs \cup {None}]
        /\ fpga \in [Apps -> Boards \cup {None}] /\ programmed \in [Apps -> BOOLEAN]
        /\ assigned \in [Jobs -> Boards \cup {None}]
    BY Names DEF IInv, TypeOK
  <1>1. pc[t] \in {"submit", "poll", "cancel", "record", "mark"}
    BY <1>t DEF Programs, Submit, SubmitUnanswered, NewJob, SubmitFails, PollComplete, PollRaises,
       Cancel, CancelLost, Record, Mark, InterruptRecord
  <1>2. ~programmed[a] /\ connection[a] = None /\ \A x \in live : x = None
    BY <1>1 DEF Settled
  <1>3. CASE Record(t)
    <2>1. /\ pc'[t] = "mark" /\ fpga'[a] = assigned[myjob[t]]
          /\ UNCHANGED <<myjob, programmed, connection, live, assigned>>
      BY <1>t, <1>3 DEF Record, Goto, serverVars
    <2> QED BY <1>2, <2>1 DEF Settled
  <1>4. CASE Mark(t)
    <2> DEFINE j == myjob[t]  b == assigned[j]
    <2>1. /\ pc[t] = "mark" /\ pc'[t] = "connect" /\ fpga'[a] = b /\ programmed'[a] = TRUE
          /\ UNCHANGED <<connection, live, status, holder, owner>>
      BY <1>t, <1>4 DEF Mark, Goto, serverVars, ghostVars, Settled
    <2>2. j \in Jobs /\ j # None /\ owner[j] = a /\ status[j] = "complete"
      BY <1>t, <2>1, Names DEF Waited, InHand
    <2>3. b # None /\ holder[b] = j BY <2>2 DEF Reserved
    <2>4. Mine(a)' BY <2>1, <2>2, <2>3 DEF Mine
    <2> QED BY <1>2, <2>1, <2>4 DEF Settled
  <1>5. CASE ~Record(t) /\ ~Mark(t)
    <2>1. /\ UNCHANGED <<fpga, programmed, connection, live>>
          /\ pc'[t] \in {"in", "poll", "cancel", "record"}
      BY <1>t, <1>5 DEF Programs, Submit, SubmitUnanswered, NewJob, SubmitFails, PollComplete,
         PollRaises, Cancel, CancelLost, InterruptRecord, Goto, restVars, appVars
    <2> QED BY <1>2, <2>1 DEF Settled
  <1> QED BY <1>3, <1>4, <1>5

\* The steps of a call: it takes the connection there is, or makes one to the
\* board of the build.
LEMMA AloneCall ==
  ASSUME IInv, NEW t \in Threads, Settled(t), Carries(t)
  PROVE  Settled(t)'
  <1> DEFINE a == AppOf[t]
  <1>t. /\ a \in Apps /\ pc \in [Threads -> Pcs]
        /\ myconn \in [Threads -> Transports \cup {None}]
        /\ connection \in [Apps -> Transports \cup {None}]
        /\ target \in [Transports -> Boards \cup {None}]
    BY Names DEF IInv, TypeOK
  <1>1. UNCHANGED <<fpga, programmed, status, holder, owner>>
    BY DEF Carries, Enter, Call, LookConnection, MakeConnection, Use, restVars, appVars,
       serverVars, ghostVars
  <1>2. Mine(a)' <=> Mine(a) BY <1>1 DEF Mine
  <1>3. CASE Enter(t) \/ Call(t)
    <2>1. /\ pc'[t] \in {"in", "connect", "submit"}
          /\ pc'[t] = "connect" => programmed[a]
          /\ pc'[t] = "submit" => ~programmed[a]
          /\ UNCHANGED <<connection, target, live>>
      BY <1>t, <1>3 DEF Enter, Call, Goto, restVars, appVars
    <2> QED BY <1>1, <1>2, <2>1 DEF Settled
  <1>4. CASE LookConnection(t)
    <2>1. /\ pc[t] = "connect" /\ myconn'[t] = connection[a]
          /\ UNCHANGED <<connection, target, live>>
          /\ pc'[t] = IF connection[a] = None THEN "make" ELSE "use"
      BY <1>t, <1>4 DEF LookConnection, Goto, restVars, appVars
    <2> QED BY <1>1, <1>2, <2>1 DEF Settled
  <1>5. ASSUME NEW x \in Transports, MakeConnection(t, x) PROVE Settled(t)'
    <2>1. /\ pc[t] = "make" /\ pc'[t] = "use" /\ myconn'[t] = x /\ connection'[a] = x
          /\ target'[x] = fpga[a] /\ x # None /\ live' = live
      BY <1>t, <1>5, Names DEF MakeConnection, Goto
    <2>2. programmed[a] /\ Mine(a) /\ connection[a] = None BY <2>1 DEF Settled
    <2>3. live = {}
      <3>1. None \notin live BY Names DEF IInv, TypeOK
      <3> QED BY <2>2, <3>1 DEF Settled
    <2> QED BY <1>1, <1>2, <2>1, <2>2, <2>3 DEF Settled
  <1>6. CASE Use(t)
    <2>1. /\ pc[t] = "use" /\ pc'[t] = "in" /\ UNCHANGED <<connection, target>>
          /\ \A x \in live' : x \in live \/ x = myconn[t]
      BY <1>t, <1>6 DEF Use, Goto
    <2> QED BY <1>1, <1>2, <2>1 DEF Settled
  <1> QED BY <1>3, <1>4, <1>5, <1>6 DEF Carries

\* The steps of release(): before the board is freed its socket is closed, and
\* then the App is not programmed any more.
LEMMA AloneRelease ==
  ASSUME Alone, IInv, NEW t \in Threads, Settled(t), Leaves(t)
  PROVE  Settled(t)'
  <1> DEFINE a == AppOf[t]
  <1>t. /\ a \in Apps /\ pc \in [Threads -> Pcs] /\ after[t] \in {"out", "in"}
        /\ connection \in [Apps -> Transports \cup {None}]
        /\ programmed \in [Apps -> BOOLEAN]
    BY Names DEF IInv, TypeOK
  <1>1. fpga' = fpga /\ target' = target
    BY DEF Leaves, Exit, ReleaseEarly, Leave, NothingToRelease, CloseConnection, InterruptClose,
       Release, ReleaseNotFound, Reset, ReleaseFails, Released, restVars, appVars
  <1>2. CASE Exit(t) \/ ReleaseEarly(t) \/ NothingToRelease(t) \/ ReleaseNotFound(t)
    <2>1. UNCHANGED <<programmed, connection, live, status, holder, owner>>
      BY <1>2 DEF Exit, ReleaseEarly, Leave, NothingToRelease, ReleaseNotFound,
         restVars, appVars, serverVars, ghostVars
    <2>2. Mine(a)' <=> Mine(a) BY <1>1, <2>1 DEF Mine
    <2>3. \/ pc'[t] \in {"close", "out", "in"}
          \/ pc[t] = "release" /\ pc'[t] = "reset"
      BY <1>t, <1>2 DEF Exit, ReleaseEarly, Leave, NothingToRelease, ReleaseNotFound, Goto
    <2> QED BY <1>1, <2>1, <2>2, <2>3 DEF Settled
  <1>3. CASE CloseConnection(t)
    <2>1. /\ UNCHANGED <<programmed, status, holder, owner>>
          /\ pc'[t] = "release" /\ fpga[a] # None /\ connection'[a] = None
          /\ live' = live \ {connection[a]}
      BY <1>t, <1>3 DEF CloseConnection, Goto, serverVars, ghostVars
    <2>2. Mine(a)' <=> Mine(a) BY <1>1, <2>1 DEF Mine
    <2>3. live' = {} BY <2>1 DEF Settled
    <2> QED BY <1>1, <2>1, <2>2, <2>3 DEF Settled
  <1>4. CASE InterruptClose(t)
    <2>1. /\ UNCHANGED <<programmed, status, holder, owner>> /\ pc'[t] \in {"out", "in"}
          /\ \/ connection'[a] = connection[a] /\ live' \subseteq live
             \/ connection'[a] = None /\ live' = live \ {connection[a]}
      BY <1>t, <1>4 DEF InterruptClose, Goto, serverVars
    <2>2. Mine(a)' <=> Mine(a) BY <1>1, <2>1 DEF Mine
    <2>3. \A x \in live' : x = connection'[a] BY <2>1 DEF Settled
    <2> QED BY <1>1, <2>1, <2>2, <2>3 DEF Settled
  <1>5. CASE Release(t) \/ Reset(t)
    <2>1. /\ pc[t] \in {"release", "reset"} /\ pc'[t] \in {"out", "in"}
          /\ programmed'[a] = FALSE /\ UNCHANGED <<connection, live>>
      BY <1>t, <1>5 DEF Release, Reset, Released, Goto
    <2>2. connection[a] = None BY <2>1 DEF Settled
    <2> QED BY <2>1, <2>2 DEF Settled
  <1>6. ~ReleaseFails(t) BY DEF ReleaseFails, Alone
  <1> QED BY <1>2, <1>3, <1>4, <1>5, <1>6 DEF Leaves

\* While the board stays with a finished build, the App keeps it or says why not.
LEMMA AloneKeeps ==
  ASSUME Alone, IInv, NEW t \in Threads, Settled(t), Programs(t) \/ Carries(t) \/ Leaves(t),
         NEW j \in Jobs, NEW b \in Boards, holder[b] = j, holder'[b] = j,
         fpga[AppOf[t]] = b, programmed[AppOf[t]], pc[t] # "out"
  PROVE  \/ excuse'[j] # "none"
         \/ fpga'[AppOf[t]] = b /\ programmed'[AppOf[t]] /\ pc'[t] # "out"
  <1>t. /\ pc \in [Threads -> Pcs] /\ b # None /\ j # None
        /\ excuse \in [Jobs -> {"none", "submit", "cancel", "late", "record", "close", "release"}]
        /\ holder \in [Boards -> Jobs \cup {None}]
    BY Names DEF IInv, TypeOK
  <1>o. owner[j] = AppOf[t] BY DEF Settled, Mine
  <1>1. ~Programs(t)
    <2>1. pc[t] \notin {"submit", "poll", "cancel", "record", "mark"} BY DEF Settled
    <2> QED BY <2>1 DEF Programs, Submit, SubmitUnanswered, NewJob, SubmitFails, PollComplete,
         PollRaises, Cancel, CancelLost, Record, Mark, InterruptRecord
  <1>2. CASE Carries(t)
    <2>1. UNCHANGED <<fpga, programmed>>
      BY <1>2 DEF Carries, Enter, Call, LookConnection, MakeConnection, Use, restVars, appVars
    <2>2. pc'[t] # "out"
      BY <1>t, <1>2 DEF Carries, Enter, Call, LookConnection, MakeConnection, Use, Goto
    <2> QED BY <2>1, <2>2
  <1>3. CASE Leaves(t)
    <2>1. CASE Exit(t) \/ ReleaseEarly(t) \/ CloseConnection(t) \/ ReleaseNotFound(t)
      <3>1. UNCHANGED <<fpga, programmed>>
        BY <2>1 DEF Exit, ReleaseEarly, Leave, CloseConnection, ReleaseNotFound, restVars, appVars
      <3>2. pc'[t] # "out"
        BY <1>t, <2>1 DEF Exit, ReleaseEarly, Leave, CloseConnection, ReleaseNotFound, Goto
      <3> QED BY <3>1, <3>2
    <2>2. ~NothingToRelease(t) BY <1>t DEF NothingToRelease
    <2>3. ~FreeBoard(b) BY <1>t DEF FreeBoard
    <2>4. Excuse(t, "close") => excuse'[j] # "none" BY <1>t, <1>o DEF Excuse
    <2>5. ~ReleaseFails(t) BY DEF ReleaseFails, Alone
    <2> QED BY <1>3, <2>1, <2>2, <2>3, <2>4, <2>5 DEF Leaves, InterruptClose, Release, Reset
  <1> QED BY <1>1, <1>2, <1>3

\* Every step minds the boards of finished builds.
LEMMA MindedStep ==
  ASSUME Alone, IInv, Next, NEW t \in Threads, Settled(t), Minded(t)
  PROVE  Minded(t)'
  <1>i. TypeOK /\ Waited /\ Assigned /\ NoAbandonedBuild BY DEF IInv
  <1> SUFFICES ASSUME NEW j \in Jobs, NEW b \in Boards, holder'[b] = j, status'[j] = "complete"
               PROVE  \/ excuse'[j] # "none"
                      \/ myjob'[t] = j
                      \/ fpga'[AppOf[t]] = b /\ programmed'[AppOf[t]] /\ pc'[t] # "out"
    BY DEF Minded, Holds
  <1>1. holder[b] = j /\ (status[j] = "complete" \/ Active(j)) BY <1>i, HeldBefore
  <1>2. \/ excuse[j] # "none"
        \/ myjob[t] = j
        \/ fpga[AppOf[t]] = b /\ programmed[AppOf[t]] /\ pc[t] # "out"
    <2>1. CASE Active(j) BY <1>i, <2>1 DEF NoAbandonedBuild, Alone
    <2>2. CASE status[j] = "complete" BY <1>1, <2>2 DEF Minded, Holds
    <2> QED BY <1>1, <2>1, <2>2
  <1>3. CASE excuse[j] # "none" BY <1>i, <1>3, Excused
  <1>4. CASE ServerStep
    <2>1. UNCHANGED <<pc, myjob, fpga, programmed>>
      BY <1>4 DEF ServerStep, Assign, Complete, BuildFails, SessionExpires, threadVars, appVars
    <2> QED BY <1>2, <1>3, <2>1
  <1>5. ASSUME Programs(t) \/ Carries(t) \/ Leaves(t), myjob[t] = j
        PROVE  \/ excuse'[j] # "none"
               \/ myjob'[t] = j
               \/ fpga'[AppOf[t]] = b /\ programmed'[AppOf[t]] /\ pc'[t] # "out"
    <2>1. CASE Programs(t) BY <1>i, <1>1, <1>5, <2>1, HandedOn DEF Settled
    <2>2. (Carries(t) \/ Leaves(t)) => UNCHANGED myjob
      BY DEF Carries, Enter, Call, LookConnection, MakeConnection, Use, Leaves, Exit,
         ReleaseEarly, Leave, NothingToRelease, CloseConnection, InterruptClose, Release,
         ReleaseNotFound, Reset, ReleaseFails, Released
    <2> QED BY <1>5, <2>1, <2>2
  <1>6. ASSUME NEW s \in Threads, Programs(s) \/ Carries(s) \/ Leaves(s)
        PROVE  Programs(t) \/ Carries(t) \/ Leaves(t)
    BY <1>6 DEF Alone
  <1>7. ServerStep \/ Programs(t) \/ Carries(t) \/ Leaves(t) BY <1>i, <1>6, OthersStay
  <1> QED BY <1>1, <1>2, <1>3, <1>4, <1>5, <1>7, AloneKeeps

\* Every step leaves to the thread what it relies on.
LEMMA SettledStep ==
  ASSUME Alone, IInv, Next, NEW t \in Threads, Settled(t), Reserved(t)
  PROVE  Settled(t)'
  <1>1. ASSUME NEW s \in Threads, Programs(s) \/ Carries(s) \/ Leaves(s)
        PROVE  Programs(t) \/ Carries(t) \/ Leaves(t)
    BY <1>1 DEF Alone
  <1>2. ServerStep \/ Programs(t) \/ Carries(t) \/ Leaves(t)
    BY <1>1, OthersStay DEF IInv
  <1> QED BY <1>2, AloneServer, AloneProgram, AloneCall, AloneRelease

\* The invariant of the three theorems below.
LEMMA AloneInvariance == ASSUME Alone PROVE Spec => []AloneInv
  <1>1. Init => AloneInv
    <2> SUFFICES ASSUME Init PROVE AloneInv OBVIOUS
    <2>1. ASSUME NEW t \in Threads PROVE Settled(t) /\ Reserved(t) /\ Minded(t)
      BY <2>1, Names DEF Init, Settled, Reserved, Minded, Holds
    <2> QED BY <2>1, InitInv DEF AloneInv
  <1>2. AloneInv /\ [Next]_vars => AloneInv'
    <2>1. ASSUME AloneInv, Next PROVE AloneInv'
      <3>1. IInv /\ TypeOK /\ Waited /\ Assigned BY <2>1 DEF AloneInv, IInv
      <3>2. ASSUME NEW t \in Threads PROVE (Settled(t) /\ Reserved(t) /\ Minded(t))'
        BY <2>1, <3>1, SettledStep, AloneReserved, MindedStep DEF AloneInv
      <3> QED BY <2>1, <3>1, <3>2, NextInv DEF AloneInv
    <2>2. ASSUME AloneInv, UNCHANGED vars PROVE AloneInv'
      <3>1. ASSUME NEW t \in Threads PROVE (Settled(t) /\ Reserved(t) /\ Minded(t))'
        BY <2>2 DEF AloneInv, Settled, Reserved, Minded, Holds, Mine, vars, threadVars, restVars,
           appVars, serverVars, ghostVars
      <3> QED BY <2>2, <3>1, StutterInv DEF AloneInv
    <2> QED BY <2>1, <2>2
  <1> QED BY <1>1, <1>2, PTL DEF Spec

\* A script with one thread, whose requests are answered, may enter its App again,
\* release it inside the block and be interrupted: a call still reaches the board
\* the App was last given, flashed and reserved for it.
THEOREM CallsReused == ASSUME Alone PROVE Spec => CallsReachOwnDesign
  <1> DEFINE Reaches(t) ==
        LET b == target[myconn[t]] IN
          /\ b = fpga[AppOf[t]]
          /\ b \in session =>
               /\ status[holder[b]] = "complete"
               /\ owner[holder[b]] = AppOf[t]
  <1>1. ASSUME AloneInv, NEW t \in Threads, Use(t) PROVE Reaches(t)
    <2>1. pc[t] = "use" /\ Settled(t) BY <1>1 DEF AloneInv, Use
    <2>2. target[myconn[t]] = fpga[AppOf[t]] /\ Mine(AppOf[t]) BY <2>1 DEF Settled
    <2> QED BY <2>2 DEF Mine
  <1>2. AloneInv /\ [Next]_vars => [\A t \in Threads : Use(t) => Reaches(t)]_vars BY <1>1
  <1>3. Spec => []AloneInv BY AloneInvariance
  <1> QED BY <1>2, <1>3, PTL DEF Spec, CallsReachOwnDesign

\* For the same scripts, the server never handles a release of the App while a
\* socket to the board is open.
THEOREM SocketsReused == ASSUME Alone PROVE Spec => SocketClosedFirst
  <1>1. ASSUME AloneInv, NEW t \in Threads, Release(t), NEW x \in live
        PROVE  target[x] # fpga[AppOf[t]]
    <2>1. pc[t] = "release" /\ Settled(t) /\ None \notin live
      BY <1>1, Names DEF AloneInv, IInv, TypeOK, Release
    <2>2. x = connection[AppOf[t]] /\ connection[AppOf[t]] = None BY <1>1, <2>1 DEF Settled
    <2> QED BY <1>1, <2>1, <2>2
  <1>2. AloneInv /\ [Next]_vars =>
          [\A t \in Threads : Release(t) => \A x \in live : target[x] # fpga[AppOf[t]]]_vars
    BY <1>1
  <1>3. Spec => []AloneInv BY AloneInvariance
  <1> QED BY <1>2, <1>3, PTL DEF Spec, SocketClosedFirst

\* And however often they enter their App and release it early, a programmed board
\* is tracked by its App, or left behind by one of the listed accidents.
THEOREM BoardsReused == ASSUME Alone PROVE Spec => []HeldBoardsTracked
  <1>1. ASSUME AloneInv PROVE HeldBoardsTracked
    <2> SUFFICES ASSUME NEW j \in Jobs, NEW b \in Boards, Holds(j, b), status[j] = "complete"
                 PROVE  Tracked(j, b)
      BY DEF HeldBoardsTracked, Tracked
    <2>1. TypeOK /\ Assigned /\ NoAbandonedBuild BY <1>1 DEF AloneInv, IInv
    <2>2. PICK t \in Threads : Threads = {t} BY DEF Alone
    <2>3. Settled(t) /\ Minded(t) BY <1>1 DEF AloneInv
    <2>4. programmed[AppOf[t]] /\ fpga[AppOf[t]] = b => owner[j] = AppOf[t]
      BY <2>3 DEF Settled, Mine, Holds
    <2> QED BY <2>3, <2>4 DEF Minded, Tracked
  <1>2. Spec => []AloneInv BY AloneInvariance
  <1> QED BY <1>1, <1>2, PTL
=============================================================================
