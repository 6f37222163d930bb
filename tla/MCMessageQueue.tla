--------------------------- MODULE MCMessageQueue ---------------------------
(* MessageQueue on a small instance, explored up to the first overlap. *)
EXTENDS MessageQueue, TLC

\* An overlap leaves pointers and counts that grow without bound, and the
\* properties say nothing of it: its successors are not explored.
UntilOverlap == ~overlapped

Symmetry == Permutations(Threads) \cup Permutations(Messages)
=============================================================================
