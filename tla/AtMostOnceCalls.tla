-------------------------- MODULE AtMostOnceCalls --------------------------
(***************************************************************************)
(* What a caller of App.read and App.write may rely on, whatever socket,   *)
(* watcher and relay do underneath.  A call runs on the FPGA at most once. *)
(* One that returns data returns the answer to itself.  One refused with   *)
(* "couldn't open" or "in use by another connection" never ran and never   *)
(* will.  Only a call whose connection was lost, or that was interrupted,  *)
(* leaves the question open: it may have run, or may yet.                  *)
(***************************************************************************)
EXTENDS Naturals

CONSTANTS Calls, None

VARIABLES outcome,  \* what each call told its caller so far
          got,      \* the request whose reply the call returned
          ran       \* how often the FPGA executed the call

vars == <<outcome, got, ran>>

Init == /\ outcome = [k \in Calls |-> "none"]
        /\ got = [k \in Calls |-> None]
        /\ ran = [k \in Calls |-> 0]

Invoke(k) == /\ outcome[k] = "none"
             /\ outcome' = [outcome EXCEPT ![k] = "pending"]
             /\ UNCHANGED <<got, ran>>

Run(k) == /\ outcome[k] \in {"pending", "lost", "interrupted"}
          /\ ran[k] = 0
          /\ ran' = [ran EXCEPT ![k] = 1]
          /\ UNCHANGED <<outcome, got>>

Answer(k, o) == /\ outcome[k] = "pending"
                /\ ran[k] = 1
                /\ outcome' = [outcome EXCEPT ![k] = o]
                /\ got' = [got EXCEPT ![k] = k]
                /\ UNCHANGED ran

Refuse(k, o) == /\ outcome[k] = "pending"
                /\ ran[k] = 0
                /\ outcome' = [outcome EXCEPT ![k] = o]
                /\ UNCHANGED <<got, ran>>

GiveUp(k, o) == /\ outcome[k] = "pending"
                /\ outcome' = [outcome EXCEPT ![k] = o]
                /\ UNCHANGED <<got, ran>>

Next == \E k \in Calls :
          \/ Invoke(k)
          \/ Run(k)
          \/ \E o \in {"ok", "failed"} : Answer(k, o)
          \/ \E o \in {"noconn", "busy"} : Refuse(k, o)
          \/ \E o \in {"lost", "interrupted"} : GiveUp(k, o)

Spec == Init /\ [][Next]_vars
=============================================================================
