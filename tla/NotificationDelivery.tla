------------------------ MODULE NotificationDelivery ------------------------
(***************************************************************************)
(* How the alerter tells a channel about an alert: the queue and workers   *)
(* of the notification pool (pkg/worker/worker_pool.go, engine/            *)
(* notifications.go), the first send of a worker, the loop over pending    *)
(* and retrying rows of notification_history and the reminder worker       *)
(* (notifications/manager.go), with the statements they send               *)
(* (database/notification_queries.go).                                     *)
(*                                                                         *)
(* One alert and one channel: a notification with more channels repeats    *)
(* the same steps for each.  A delivery is three steps: the actor has its  *)
(* own copy of the history row, sends, and writes its copy back by id;     *)
(* nothing is locked in between.  Statements may fail, the alerter may     *)
(* stop between any two steps and start again.                             *)
(***************************************************************************)
EXTENDS Naturals, Sequences

CONSTANTS
    Workers,      \* goroutines of the pool
    QueueSize,    \* its buffer
    MaxAttempts,  \* notifications.max_retry_attempts
    MaxRows,      \* bound: rows of notification_history
    MaxFaults     \* bound: failed statements and restarts

ASSUME DeliveryAssumption ==
    /\ {"loop", "reminder"} \cap Workers = {}
    /\ QueueSize \in Nat \ {0}
    /\ MaxAttempts \in Nat \ {0}
    /\ MaxRows \in Nat
    /\ MaxFaults \in Nat

VARIABLES
    alert,      \* "none", "active", "cleared" or "deleted"
    channel,    \* "known", "unknown" (no notifier for its type) or "deleted"
    queue,      \* the buffer of the pool: notification types
    rows,       \* notification_history: type, status, attempts, retry due?,
                \*   and for the properties how often a send was tried and
                \*   whether one succeeded
    at,         \* actor -> where it is in the delivery of its copy of a row
    todo,       \* the rows the pending loop has read and not yet reached:
                \*   id -> attempts
    reminded,   \* notification_reminder_state says a reminder was sent within
                \*   the interval
    faults      \* failed statements and restarts so far

vars == <<alert, channel, queue, rows, at, todo, reminded, faults>>

Actors == Workers \cup {"loop", "reminder"}
Ids == 1..Len(rows)

Idle == [pc |-> "idle"]

CanFail == faults < MaxFaults

-----------------------------------------------------------------------------
(* The queue *)

\* A full queue drops the notification, with a line in the log.
Submit(type) == IF Len(queue) < QueueSize THEN Append(queue, type) ELSE queue

\* An alert is raised, or cleared, by the engine; the row is written first.
Raise ==
    /\ alert = "none"
    /\ alert' = "active"
    /\ queue' = Submit("fire")
    /\ UNCHANGED <<channel, rows, at, todo, reminded, faults>>

Clear ==
    /\ alert = "active"
    /\ alert' = "cleared"
    /\ queue' = Submit("clear")
    /\ UNCHANGED <<channel, rows, at, todo, reminded, faults>>

-----------------------------------------------------------------------------
(* One delivery *)

\* A new row, and the copy of it with which its creator goes on.
Created(type) == [type |-> type, status |-> "pending", attempts |-> 0,
                  due |-> TRUE, tried |-> 0, made |-> FALSE]

Copy(id, attempts) == [pc |-> "send", id |-> id, attempts |-> attempts]

\* CreateNotificationHistory and the start of the first send; the insert may
\* fail, and then nothing is sent.
CreateRow(a, type, failed) ==
    \/ /\ Len(rows) < MaxRows
       /\ rows' = Append(rows, Created(type))
       /\ at' = [at EXCEPT ![a] = Copy(Len(rows) + 1, 0)]
       /\ UNCHANGED faults
    \/ /\ CanFail
       /\ at' = [at EXCEPT ![a] = failed]
       /\ faults' = faults + 1
       /\ UNCHANGED rows

\* An enabled channel applies to the connection of the alert.
GetNotificationChannelsForConnection == channel # "deleted"

\* A worker takes a job: SendAlertNotification up to the first send.  Nobody
\* is told when no channel is left; a failed read of the channels is a fault.
TakeJob(w) ==
    /\ at[w] = Idle
    /\ queue # <<>>
    /\ queue' = Tail(queue)
    /\ LET after == IF Head(queue) = "clear" THEN [pc |-> "forget"] ELSE Idle
       IN \/ /\ GetNotificationChannelsForConnection
             /\ CreateRow(w, Head(queue), after)
          \/ /\ ~GetNotificationChannelsForConnection
             /\ at' = [at EXCEPT ![w] = after]
             /\ UNCHANGED <<rows, faults>>
    /\ UNCHANGED <<alert, channel, todo, reminded>>

\* Mutant: one attempt less than configured.
Outcome_early(attempts, ok) ==
    IF ok THEN "sent" ELSE IF attempts + 1 >= MaxAttempts THEN "failed" ELSE "retrying"

Outcome(attempts, ok) ==
    IF ok THEN "sent" ELSE IF attempts >= MaxAttempts THEN "failed" ELSE "retrying"

\* processNotification up to the answer of the channel.
Send(a, ok) ==
    /\ at[a].pc = "send"
    /\ channel # "unknown"
    /\ LET c == at[a]
           n == c.attempts + 1
       IN /\ rows' = [rows EXCEPT ![c.id].tried = @ + 1,
                                  ![c.id].made = @ \/ ok]
          /\ at' = [at EXCEPT ![a] = [pc |-> "record", id |-> c.id, attempts |-> n,
                                      status |-> Outcome(n, ok)]]
    /\ UNCHANGED <<alert, channel, queue, todo, reminded, faults>>

\* The type of the channel has no notifier: nothing is sent.
SendUnknown(a) ==
    /\ at[a].pc = "send"
    /\ channel = "unknown"
    /\ at' = [at EXCEPT ![a] = [pc |-> "record", id |-> @.id, attempts |-> @.attempts + 1,
                                status |-> "failed"]]
    /\ UNCHANGED <<alert, channel, queue, rows, todo, reminded, faults>>

\* What follows the update of the row: a clear notification also deletes the
\* reminder state, a delivered reminder stores it.
AfterRecord(a, c) ==
    CASE a \in Workers /\ rows[c.id].type = "clear" -> [pc |-> "forget"]
      [] a = "reminder" /\ c.status = "sent" -> [pc |-> "remember"]
      [] OTHER -> Idle

\* Mutant: a row that was sent is left as it is.
UpdateNotificationHistory_unsent(r, c) ==
    IF c.status = "sent" THEN r
    ELSE [r EXCEPT !.status = c.status, !.attempts = c.attempts,
                   !.due = c.status # "retrying"]

\* The whole copy is written back, whatever the row says by now.
UpdateNotificationHistory(r, c) ==
    [r EXCEPT !.status = c.status, !.attempts = c.attempts,
              !.due = c.status # "retrying"]

\* The end of processNotification; a failed update is only logged.
Record(a) ==
    /\ at[a].pc = "record"
    /\ LET c == at[a]
       IN /\ \/ /\ rows' = [rows EXCEPT ![c.id] = UpdateNotificationHistory(@, c)]
                /\ UNCHANGED faults
             \/ CanFail /\ faults' = faults + 1 /\ UNCHANGED rows
          /\ at' = [at EXCEPT ![a] = AfterRecord(a, c)]
    /\ UNCHANGED <<alert, channel, queue, todo, reminded>>

\* DeleteReminderStatesForAlert, after a clear notification.
Forget(w) ==
    /\ at[w].pc = "forget"
    /\ at' = [at EXCEPT ![w] = Idle]
    /\ \/ reminded' = FALSE /\ UNCHANGED faults
       \/ CanFail /\ faults' = faults + 1 /\ UNCHANGED reminded
    /\ UNCHANGED <<alert, channel, queue, rows, todo>>

-----------------------------------------------------------------------------
(* The loop over rows that are not settled *)

\* Mutant: only rows that were tried before are read.
GetPendingNotifications_retrying == {id \in Ids : rows[id].status = "retrying" /\ rows[id].due}

GetPendingNotifications ==
    {id \in Ids : rows[id].status \in {"pending", "retrying"} /\ rows[id].due}

LoopRead ==
    /\ at["loop"] = Idle /\ todo = <<>>
    /\ GetPendingNotifications # {}
    /\ todo' = [id \in GetPendingNotifications |-> rows[id].attempts]
    /\ UNCHANGED <<alert, channel, queue, rows, at, reminded, faults>>

Reached(id) == [i \in DOMAIN todo \ {id} |-> todo[i]]

\* The next row of the pass; one whose channel or alert is gone is skipped.
LoopNext(id) ==
    /\ at["loop"] = Idle /\ id \in DOMAIN todo
    /\ todo' = Reached(id)
    /\ at' = IF channel = "deleted" \/ alert = "deleted" THEN at
             ELSE [at EXCEPT !["loop"] = Copy(id, todo[id])]
    /\ UNCHANGED <<alert, channel, queue, rows, reminded, faults>>

\* The backoff of a row is over.  It is counted in minutes; a first send is
\* cut off after NotificationTimeout, so none is still under way.
BackoffEnds(id) ==
    /\ ~rows[id].due
    /\ \A a \in Actors \ {"loop"} :
          at[a].pc \in {"send", "record"} => at[a].id # id
    /\ rows' = [rows EXCEPT ![id].due = TRUE]
    /\ UNCHANGED <<alert, channel, queue, at, todo, reminded, faults>>

-----------------------------------------------------------------------------
(* Reminders *)

\* Only an active alert is repeated, and only after the interval.
GetDueReminders ==
    alert = "active" /\ GetNotificationChannelsForConnection /\ ~reminded

\* ProcessReminders up to the first send.
Remind ==
    /\ at["reminder"] = Idle
    /\ GetDueReminders
    /\ CreateRow("reminder", "reminder", Idle)
    /\ UNCHANGED <<alert, channel, queue, todo, reminded>>

\* UpsertReminderState.
Remember ==
    /\ at["reminder"].pc = "remember"
    /\ at' = [at EXCEPT !["reminder"] = Idle]
    /\ \/ reminded' = TRUE /\ UNCHANGED faults
       \/ CanFail /\ faults' = faults + 1 /\ UNCHANGED reminded
    /\ UNCHANGED <<alert, channel, queue, rows, todo>>

\* The reminder interval has passed.
ReminderDue ==
    /\ reminded
    /\ reminded' = FALSE
    /\ UNCHANGED <<alert, channel, queue, rows, at, todo, faults>>

-----------------------------------------------------------------------------
(* Faults and users *)

\* The alerter stops and starts again: queue, copies and the loop's list are
\* lost, the tables stay.
Restart ==
    /\ CanFail
    /\ faults' = faults + 1
    /\ queue' = <<>>
    /\ at' = [a \in Actors |-> Idle]
    /\ todo' = <<>>
    /\ UNCHANGED <<alert, channel, rows, reminded>>

\* Retention removes the alert; the history keeps a row without it.
DeleteAlert ==
    /\ alert = "cleared"
    /\ alert' = "deleted"
    /\ reminded' = FALSE
    /\ UNCHANGED <<channel, queue, rows, at, todo, faults>>

DeleteChannel ==
    /\ channel # "deleted"
    /\ channel' = "deleted"
    /\ reminded' = FALSE
    /\ UNCHANGED <<alert, queue, rows, at, todo, faults>>

-----------------------------------------------------------------------------

Init ==
    /\ alert = "none"
    /\ channel \in {"known", "unknown"}
    /\ queue = <<>>
    /\ rows = <<>>
    /\ at = [a \in Actors |-> Idle]
    /\ todo = <<>>
    /\ reminded = FALSE
    /\ faults = 0

Deliver(a) == (\E ok \in BOOLEAN : Send(a, ok)) \/ SendUnknown(a) \/ Record(a)

Worker(w) == TakeJob(w) \/ Deliver(w) \/ Forget(w)

Loop == LoopRead \/ Deliver("loop") \/ \E id \in Ids : LoopNext(id)

Reminder == Remind \/ Deliver("reminder") \/ Remember

Next ==
    \/ Raise \/ Clear
    \/ \E w \in Workers : Worker(w)
    \/ Loop
    \/ Reminder
    \/ \E id \in Ids : BackoffEnds(id)
    \/ ReminderDue \/ Restart \/ DeleteAlert \/ DeleteChannel

Spec == Init /\ [][Next]_vars

\* The goroutines of the pool, the periodic tasks and the clock go on.
FairSpec ==
    /\ Spec
    /\ \A w \in Workers : WF_vars(Worker(w))
    /\ WF_vars(Loop)
    /\ WF_vars(Deliver("reminder") \/ Remember)
    /\ WF_vars(\E id \in Ids : BackoffEnds(id))

-----------------------------------------------------------------------------
(* Properties *)

Settled(r) == r.status \in {"sent", "failed"}

\* The channel is tried max_retry_attempts times at most for a notification,
\* once more when the loop read the row before its first send was recorded,
\* and once more for every update or restart that lost a count.
SendsBounded ==
    \A id \in Ids : rows[id].tried <= MaxAttempts + 1 + faults

\* A notification is recorded as failed only when the configured attempts
\* were really made (or its channel has no notifier), and as sent only when
\* a send succeeded.
OutcomeTruthful ==
    \A id \in Ids :
        /\ rows[id].status = "sent" => rows[id].made
        /\ rows[id].status = "failed" =>
              rows[id].tried >= MaxAttempts \/ channel # "known"

\* Every row of the history is settled in the end, however the first send,
\* the loop, failed updates and restarts interleave, unless its alert or its
\* channel is deleted.
RowsSettle ==
    \A id \in 1..MaxRows :
        (id \in Ids) ~> \/ id \in Ids /\ Settled(rows[id])
                        \/ alert = "deleted" \/ channel = "deleted"

=============================================================================
