------------------------------ MODULE SlotQueue ------------------------------
(***************************************************************************)
(* What the gate's semaphore promises its callers, whatever happens to     *)
(* calls, children and clients: at most `Limit` of them hold a slot, who   *)
(* asks while none is free waits in line, and a slot that is given back    *)
(* goes to the head of the line in the same step.                          *)
(*                                                                         *)
(* Source: extension/core/semaphore.mjs.                                   *)
(***************************************************************************)
EXTENDS Naturals, Sequences, FiniteSets

CONSTANTS
    Clients,    \* who may ask, again and again
    Limit       \* Semaphore.max

VARIABLES
    hold,       \* those that hold a slot
    line        \* those that wait, in the order in which they asked

Init == hold = {} /\ line = <<>>

Take(c) ==
    /\ Cardinality(hold) < Limit
    /\ line = <<>>
    /\ hold' = hold \cup {c}
    /\ UNCHANGED line

Queue(c) ==
    /\ Cardinality(hold) = Limit
    /\ line' = Append(line, c)
    /\ UNCHANGED hold

(* Who holds a slot or waits for one does not ask for another.             *)
Ask(c) ==
    /\ c \notin hold
    /\ \A i \in 1..Len(line) : line[i] # c
    /\ Take(c) \/ Queue(c)

Return(c) ==
    /\ c \in hold
    /\ \/ /\ line # <<>>
          /\ hold' = (hold \ {c}) \cup {Head(line)}
          /\ line' = Tail(line)
       \/ /\ line = <<>>
          /\ hold' = hold \ {c}
          /\ UNCHANGED line

Next == \E c \in Clients : Ask(c) \/ Return(c)

Spec == Init /\ [][Next]_<<hold, line>>
=============================================================================
