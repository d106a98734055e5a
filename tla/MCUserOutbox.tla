---------------------------- MODULE MCUserOutbox ----------------------------
(***************************************************************************)
(* UserOutbox for TLC: two replicas, each with two timer ticks that could  *)
(* overlap.  The run checks liveness, so nothing is taken as symmetric.    *)
(***************************************************************************)
EXTENDS UserOutbox
=============================================================================
