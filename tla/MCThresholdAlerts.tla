------------------------- MODULE MCThresholdAlerts --------------------------
(* Instances of ThresholdAlerts for TLC. *)
EXTENDS ThresholdAlerts

TwoSettings == {[limit |-> 0, severity |-> "warning"],
                [limit |-> 1, severity |-> "critical"]}
=============================================================================
