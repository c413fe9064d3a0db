------------------------------ MODULE AlertRow ------------------------------
(***************************************************************************)
(* What a row of the alerts table promises to those who read it (the web   *)
(* client, the notification templates, retention): it is raised active,    *)
(* moves between active and acknowledged, is cleared at most once and is   *)
(* never opened again; an acknowledgment record exists exactly while an    *)
(* open alert is acknowledged.                                             *)
(*                                                                         *)
(* The workers of the alerter and the requests of the server write the     *)
(* table in statements and transactions of their own, decided on earlier   *)
(* reads of it.  ThresholdAlerts is the detailed specification, shown to   *)
(* implement this one.                                                     *)
(***************************************************************************)
EXTENDS Naturals

CONSTANT Ids        \* alerts.id

VARIABLES
    status,         \* id -> "absent", or alerts.status, or "deleted"
    acks            \* ids with a row in alert_acknowledgments

vars == <<status, acks>>

Statuses == {"absent", "active", "acknowledged", "cleared", "deleted"}

Open(id) == status[id] \in {"active", "acknowledged"}

Init ==
    /\ status = [id \in Ids |-> "absent"]
    /\ acks = {}

Raise(id) ==
    /\ status[id] = "absent"
    /\ status' = [status EXCEPT ![id] = "active"]
    /\ UNCHANGED acks

Acknowledge(id) ==
    /\ status[id] = "active"
    /\ status' = [status EXCEPT ![id] = "acknowledged"]
    /\ acks' = acks \cup {id}

\* By the user or because the severity of the alert changed.
Reactivate(id) ==
    /\ status[id] = "acknowledged"
    /\ status' = [status EXCEPT ![id] = "active"]
    /\ acks' = acks \ {id}

\* A cleared alert keeps the record of who acknowledged it.
Clear(id) ==
    /\ Open(id)
    /\ status' = [status EXCEPT ![id] = "cleared"]
    /\ UNCHANGED acks

\* Retention never removes an alert that is active.
Delete(id) ==
    /\ status[id] \in {"acknowledged", "cleared"}
    /\ status' = [status EXCEPT ![id] = "deleted"]
    /\ acks' = acks \ {id}

Next ==
    \E id \in Ids : \/ Raise(id) \/ Acknowledge(id) \/ Reactivate(id)
                    \/ Clear(id) \/ Delete(id)

Spec == Init /\ [][Next]_vars

-----------------------------------------------------------------------------

TypeOK ==
    /\ status \in [Ids -> Statuses]
    /\ acks \subseteq Ids

\* An open alert has an acknowledgment record exactly while its status says
\* so (the two statements of every acknowledge and reactivate transaction).
AcksMatch ==
    \A id \in Ids : /\ status[id] = "active" => id \notin acks
                    /\ status[id] = "acknowledged" => id \in acks
                    /\ status[id] \in {"absent", "deleted"} => id \notin acks

\* A cleared alert is never open again.
ClearedIsFinal ==
    [][\A id \in Ids : status[id] \in {"cleared", "deleted"}
                         => status'[id] \in {"cleared", "deleted"}]_vars
=============================================================================
