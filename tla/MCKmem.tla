-------------------------------- MODULE MCKmem --------------------------------
(* Kmem on small instances. *)
EXTENDS Kmem
=============================================================================
