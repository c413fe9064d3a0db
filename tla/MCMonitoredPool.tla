-------------------------- MODULE MCMonitoredPool --------------------------
(* Instances of MonitoredPool for TLC. *)
EXTENDS MonitoredPool, TLC

CONSTANTS p1, p2, p3, srv, db1, o1, o2, o3

ThreeProcs == {p1, p2, p3}
TwoKeys == {srv, db1}
TwoPools == {o1, o2}
ThreePools == {o1, o2, o3}

\* Goroutines are interchangeable, and so are the identities of pools.
Symm == Permutations(Procs) \cup Permutations(Pools)
=============================================================================
