----------------------------- MODULE RegisterDevice -----------------------------
(***************************************************************************)
(* What a memory-mapped design promises to the client that drives it: the  *)
(* words of a request take effect one at a time, in order, each exactly    *)
(* once, and a read returns what the registers held when its turn came.    *)
(* How a word takes effect is the parameter: Effect for a written word,    *)
(* Value for a read one.                                                   *)
(***************************************************************************)
EXTENDS Integers, Sequences

CONSTANTS None,            \* no request
          Effect(_, _, _), \* the registers after a word is written
          Value(_, _)      \* the word read at an address

VARIABLES request,  \* the request being served, or None
          served,   \* how many of its words took effect
          out,      \* the words read so far
          regs      \* the registers of the design

vars == <<request, served, out, regs>>

Init == request = None /\ served = 0 /\ out = <<>>

Address == request.adr + (IF request.fixed THEN 0 ELSE served)

Ask ==
    /\ request = None /\ request' # None
    /\ served' = 0 /\ out' = <<>> /\ UNCHANGED regs

ServeWord ==
    /\ request # None /\ served < request.size
    /\ served' = served + 1
    /\ IF request.op = "write"
         THEN /\ regs' = Effect(regs, Address, request.words[served + 1])
              /\ UNCHANGED out
         ELSE /\ out' = Append(out, Value(regs, Address))
              /\ UNCHANGED regs
    /\ UNCHANGED request

\* A request ends when every word was served, or before the first one.
Finish ==
    /\ request # None /\ served \in {0, request.size}
    /\ request' = None /\ UNCHANGED <<served, out, regs>>

Next == Ask \/ ServeWord \/ Finish
Spec == Init /\ [][Next]_vars
=================================================================================
