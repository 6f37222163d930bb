--------------------------- MODULE MCSoftwareTimer ---------------------------
(* SoftwareTimer on a small instance: three timers of up to four ticks.     *)
EXTENDS SoftwareTimer
=============================================================================
