-------------------------- MODULE MCAuditCoalescer --------------------------
(* Instances of AuditCoalescer for TLC. *)
EXTENDS AuditCoalescer

CONSTANTS d1, d2, f1

TwoDenials == {d1, d2}
OneFailure == {f1}
=============================================================================
