------------------------------- MODULE BoardClient -------------------------------
(***************************************************************************)
(* A client program driving a design over the link: it sends the requests  *)
(* of its straight-line part one after the other, polls a control word     *)
(* until its low bit is set where the design computes, and fetches the     *)
(* result.  An error response ends it, and so does anything that breaks    *)
(* the connection; another program may then find the board as it was left. *)
(***************************************************************************)
EXTENDS WishboneLink

CONSTANTS MaxRuns,    \* programs run one after the other
          POLL_LIMIT  \* reads of the control word before a solve gives up

VARIABLES client,  \* pc, the job, the requests to send, polls, and how it ended
          runs     \* programs begun, a bound

clientVars == <<client, runs>>

ClientInit ==
    /\ client = [pc |-> "idle", job |-> None, todo |-> <<>>, polls |-> 0,
                 outcome |-> "none", data |-> None]
    /\ runs = 0

Begin(job, requests) ==
    /\ client.pc = "idle" /\ LinkIdle /\ runs < MaxRuns
    /\ runs' = runs + 1
    /\ client' = [pc |-> "load", job |-> job, todo |-> requests, polls |-> 0,
                  outcome |-> "none", data |-> None]
    /\ UNCHANGED linkVars

Send ==
    /\ client.pc \in {"load", "poll", "fetch"}
    /\ transact(IF client.pc = "poll" THEN Read(0, 1) ELSE Head(client.todo))
    /\ UNCHANGED clientVars

Consume == answer' = None /\ UNCHANGED <<request, served, out, deaf, socket, buf,
                                         bus, ack, runs>>

Ended(outcome, data) ==
    [client EXCEPT !.pc = "idle", !.todo = <<>>, !.outcome = outcome, !.data = data]

\* The program goes on with these requests, or ends.
Onward(pc, requests, outcome, data) ==
    IF pc = "idle" THEN Ended(outcome, data)
    ELSE [client EXCEPT !.pc = pc, !.todo = requests]

\* One request of the straight-line part was answered.
Loaded(next) ==
    /\ client.pc = "load" /\ answer # None /\ answer.ok
    /\ client' = IF Len(client.todo) > 1
                   THEN [client EXCEPT !.todo = Tail(@)]
                   ELSE Onward(next, <<>>, "ok", answer.data)
    /\ Consume

\* The control word came back: bit 0 ends the polling.
Polled(limited, next, requests, outcome, data) ==
    /\ client.pc = "poll" /\ answer # None /\ answer.ok
    /\ client' =
         IF answer.data[1] % 2 = 1 THEN Onward(next, requests, outcome, data)
         ELSE IF limited /\ client.polls + 1 = POLL_LIMIT THEN Ended("timeout", None)
         ELSE [client EXCEPT !.polls = IF limited THEN @ + 1 ELSE @]
    /\ Consume

Fetched(outcome, data) ==
    /\ client.pc = "fetch" /\ answer # None /\ answer.ok
    /\ client' = IF Len(client.todo) > 1
                   THEN [client EXCEPT !.todo = Tail(@)] ELSE Ended(outcome, data)
    /\ Consume

Failed == answer # None /\ ~answer.ok /\ client' = Ended("failed", None) /\ Consume

Disconnect ==
    /\ client.pc # "idle" /\ client' = Ended("lost", None)
    /\ HangUp /\ UNCHANGED runs
=================================================================================
