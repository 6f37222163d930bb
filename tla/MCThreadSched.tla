---------------------------- MODULE MCThreadSched ----------------------------
(* ThreadSched on small instances. *)
EXTENDS ThreadSched, TLC

\* What follows damage to the ring is of no interest.
UntilHarmed == ~Harmed

Symmetry == Permutations(Applications)
=============================================================================
