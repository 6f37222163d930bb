-------------------------------- MODULE MCMpu --------------------------------
(* Mpu on a small instance.                                                 *)
EXTENDS Mpu

AllPairs == (0 .. 2) \X (0 .. 2)

\* All permissions are asked for of the region that is the address 0 alone, and
\* one pair of the others.
PairsAtZero ==
  \A n \in Numbers :
    LET r == next_regions'[n]
    IN  r.valid /\ r.end # 0 => r.permissions = <<2, 1>>
=============================================================================
