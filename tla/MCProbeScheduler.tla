-------------------------- MODULE MCProbeScheduler --------------------------
(* Instances of ProbeScheduler for TLC. *)
EXTENDS ProbeScheduler

CONSTANTS c1, n1

OneConn == {c1}
OneName == {n1}
=============================================================================
