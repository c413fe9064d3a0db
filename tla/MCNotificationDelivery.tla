----------------------- MODULE MCNotificationDelivery -----------------------
(* Instances of NotificationDelivery for TLC. *)
EXTENDS NotificationDelivery

CONSTANT w1

OneWorker == {w1}
=============================================================================
