---------------------------- MODULE MCSystemCall ----------------------------
(* SystemCall with three threads and a queue of two: every kind of call, on  *)
(* oneself and on others, and more calls than the queue holds.               *)
EXTENDS SystemCall

CONSTANTS t1, t2, t3

Call(t, name, u) == [from |-> t, op |-> name, on |-> u]

SomeCalls == {Call(t1, "delete", t2), Call(t1, "sleep", t2),
              Call(t1, "sleep", t1), Call(t2, "delete", t2),
              Call(t2, "delete", t1), Call(t2, "sleep", t1),
              Call(t2, "resume", t1), Call(t2, "resume", t3),
              Call(t3, "resume", t2), Call(t3, "sleep", t1),
              Call(t3, "delete", t1), Call(t3, "unassigned", t3)}

UntilOverlap == ~overlapped
=============================================================================
