----------------------------- MODULE BoundedFifo -----------------------------
(***************************************************************************)
(* What a message queue of others/queue.c promises its users: messages are *)
(* handed out once each, in the order they were accepted, and at most      *)
(* Capacity of them wait.  The promise ends when two calls of the queue    *)
(* get past its READY test together (broken): the flag state is tested and *)
(* set by separate instructions, and nothing is promised from then on.     *)
(***************************************************************************)
EXTENDS Naturals, Sequences

CONSTANTS Receivers,  \* everyone who takes messages: threads and the kernel
          Messages,
          NoMessage,  \* what a destination holds before its first message
          Capacity

VARIABLES fifo,   \* the accepted messages nobody has taken
          dest,   \* dest[r] is the last message handed to r
          broken

vars == <<fifo, dest, broken>>

Init == /\ fifo = <<>>
        /\ dest = [r \in Receivers |-> NoMessage]
        /\ broken = FALSE

Put(m) == /\ Len(fifo) < Capacity
          /\ fifo' = Append(fifo, m)
          /\ UNCHANGED <<dest, broken>>

Take(r) == /\ fifo # <<>>
           /\ dest' = [dest EXCEPT ![r] = Head(fifo)]
           /\ fifo' = Tail(fifo)
           /\ UNCHANGED broken

Clear == /\ fifo' = <<>>
         /\ UNCHANGED <<dest, broken>>

Next == \/ \E m \in Messages : Put(m)
        \/ \E r \in Receivers : Take(r)
        \/ Clear
        \/ broken'

Spec == Init /\ [][Next]_vars
=============================================================================
