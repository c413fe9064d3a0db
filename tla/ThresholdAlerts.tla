-------------------------- MODULE ThresholdAlerts --------------------------
(***************************************************************************)
(* The life of the threshold alerts of one series (one rule on one         *)
(* connection and database): the threshold evaluator of the alerter        *)
(* (engine/thresholds.go), the alert cleaner (engine/cleanup.go), the      *)
(* sample counts of both (engine/hysteresis.go), the statements they send  *)
(* (alerter database/alert_queries.go) and the requests of users           *)
(* (server database/alert_queries.go).                                     *)
(*                                                                         *)
(* Evaluator and cleaner are goroutines with their own tickers: each reads *)
(* the table, decides, and writes by id in a later statement, so every     *)
(* statement is an action and anything may happen in between.  Reads that  *)
(* fail and end a pass without an effect are no action.  Of time only the  *)
(* order of samples is kept: a cleared alert may be within its cooldown or *)
(* past it, an alert that is not active may be old enough to be deleted.   *)
(***************************************************************************)
EXTENDS Integers, Sequences, FiniteSets

CONSTANTS
    Values,            \* values of the metric
    NoRow,             \* the latest-values query returns no row
    Settings,          \* effective thresholds: [limit, severity]
    TriggerCount,      \* threshold.trigger_count
    ClearCount,        \* threshold.clear_count
    ClearsWhenAbsent,  \* the metric's registry entry
    MaxAlerts          \* bound: alerts raised

ASSUME ThresholdAssumption ==
    /\ Values \subseteq Int
    /\ NoRow \notin Values
    /\ \A s \in Settings : s.limit \in Int
    /\ TriggerCount \in Nat \ {0}
    /\ ClearCount \in Nat \ {0}
    /\ ClearsWhenAbsent \in BOOLEAN
    /\ MaxAlerts \in Nat

VARIABLES
    rows,       \* the alerts of the series, by id: status, the threshold and
                \*   severity stored on it, acknowledgment record
    sample,     \* the newest metric sample, or NoRow
    eval,       \* the evaluator: where it is and what it has read
    trig,       \* triggerStreaks entry of the series
    clean,      \* the cleaner: where it is, its snapshot, the alert at hand
    clr,        \* clearStreaks: id -> entry
    blind       \* history: a lookup of the open alert has failed

vars == <<rows, sample, eval, trig, clean, clr, blind>>

Ids == 1..MaxAlerts
Known == 1..Len(rows)

Open(r) == r.status \in {"active", "acknowledged"}
Exists(r) == r.status # "deleted"

-----------------------------------------------------------------------------
(* Sample counts *)

\* An entry: the count (up to the count that matters), whether it has
\* counted the newest sample, and, for the properties, how many samples have
\* been collected since the first one it counted.
NoStreak == [count |-> 0, counted |-> FALSE, span |-> 0]

AtMost(n, top) == IF n > top THEN top ELSE n

\* Mutant: a sample read again counts again.
observe_again(s, holds, top) ==
    IF ~holds THEN NoStreak
    ELSE [count |-> AtMost(s.count + 1, top), counted |-> TRUE,
          span |-> IF s.count = 0 THEN 1 ELSE s.span]

\* The newest sample is judged: counted once, and only while the condition
\* holds.
observe(s, holds, top) ==
    IF ~holds THEN NoStreak
    ELSE IF s.counted THEN s
    ELSE [count |-> AtMost(s.count + 1, top), counted |-> TRUE,
          span |-> IF s.count = 0 THEN 1 ELSE s.span]

\* A new sample has come in.
Aged(s, top) ==
    IF s.count = 0 THEN s
    ELSE [s EXCEPT !.counted = FALSE, !.span = AtMost(@ + 1, top)]

checkThreshold(value, s) == value > s.limit

-----------------------------------------------------------------------------
(* The evaluator: one pass over the series *)

EvalIdle == [pc |-> "idle"]

\* No row for the series, a missing extension, a blackout or a disabled
\* override: not judged, and swept at the end of the pass.  (A query that
\* fails keeps the counts: no step.)
EvalSkip ==
    /\ eval.pc = "idle"
    /\ trig' = NoStreak
    /\ UNCHANGED <<rows, sample, eval, clean, clr, blind>>

\* The newest sample against the effective threshold, which may have been
\* edited since the last pass.
EvalJudge(set) ==
    /\ eval.pc = "idle"
    /\ sample # NoRow
    /\ LET violated == checkThreshold(sample, set)
           streak == observe(trig, violated, TriggerCount)
       IN /\ trig' = streak
          /\ eval' = IF violated
                     THEN [pc |-> "lookup", set |-> set,
                           sustained |-> streak.count >= TriggerCount]
                     ELSE EvalIdle
    /\ UNCHANGED <<rows, sample, clean, clr, blind>>

RaiseOrNot == IF eval.sustained THEN [eval EXCEPT !.pc = "cooldown"]
                                ELSE EvalIdle

\* Mutant: an acknowledged alert is not found.
GetActiveThresholdAlert_active == {id \in Known : rows[id].status = "active"}

GetActiveThresholdAlert == {id \in Known : Open(rows[id])}

\* triggerThresholdAlert up to the decision; an error counts as "none".
EvalLookup ==
    /\ eval.pc = "lookup"
    /\ \/ \E id \in GetActiveThresholdAlert :
             /\ eval' = [pc |-> "update", set |-> eval.set, id |-> id,
                         react |-> /\ rows[id].status = "acknowledged"
                                   /\ rows[id].set.severity # eval.set.severity]
             /\ UNCHANGED blind
       \/ /\ GetActiveThresholdAlert = {}
          /\ eval' = RaiseOrNot
          /\ UNCHANGED blind
       \/ /\ eval' = RaiseOrNot
          /\ blind' = TRUE
    /\ UNCHANGED <<rows, sample, trig, clean, clr>>

\* The statement does not look at the status of the row.
UpdateAlertValues(r, set) == IF Exists(r) THEN [r EXCEPT !.set = set] ELSE r

\* A failed update leaves everything to the next pass.
EvalUpdate ==
    /\ eval.pc = "update"
    /\ \/ /\ rows' = [rows EXCEPT ![eval.id] = UpdateAlertValues(@, eval.set)]
          /\ eval' = IF eval.react THEN [pc |-> "reactivate", id |-> eval.id]
                                   ELSE EvalIdle
       \/ eval' = EvalIdle /\ UNCHANGED rows
    /\ UNCHANGED <<sample, trig, clean, clr, blind>>

\* Mutant: the update does not look at the status.
ReactivateAlert_ungated(r) == [r EXCEPT !.status = "active", !.ack = FALSE]

ReactivateAlert(r) ==
    IF r.status = "acknowledged"
    THEN [r EXCEPT !.status = "active", !.ack = FALSE]
    ELSE r

\* No error and no row updated are the same to the evaluator: it queues the
\* notification either way.
EvalReactivate ==
    /\ eval.pc = "reactivate"
    /\ \/ rows' = [rows EXCEPT ![eval.id] = ReactivateAlert(@)]
       \/ UNCHANGED rows
    /\ eval' = EvalIdle
    /\ UNCHANGED <<sample, trig, clean, clr, blind>>

\* Some alert of the series may have been cleared within the cooldown.
GetRecentlyClearedAlert == \E id \in Known : rows[id].status = "cleared"

\* An error of the check does not stop the alert.
EvalCooldown ==
    /\ eval.pc = "cooldown"
    /\ \/ /\ GetRecentlyClearedAlert
          /\ eval' = EvalIdle
       \/ eval' = [eval EXCEPT !.pc = "create"]
    /\ UNCHANGED <<rows, sample, trig, clean, clr, blind>>

CreateAlert(set) == Append(rows, [status |-> "active", set |-> set,
                                  ack |-> FALSE])

\* The insert and, unless it failed, the notification.
EvalCreate ==
    /\ eval.pc = "create"
    /\ \/ Len(rows) < MaxAlerts /\ rows' = CreateAlert(eval.set)
       \/ UNCHANGED rows
    /\ eval' = EvalIdle
    /\ UNCHANGED <<sample, trig, clean, clr, blind>>

-----------------------------------------------------------------------------
(* The cleaner: one pass over its snapshot of the active alerts *)

\* seen: the thresholds of the alerts still to be looked at, as read.
CleanIdle == [pc |-> "idle", seen |-> <<>>, kept |-> {},
              unmonitored |-> FALSE, id |-> 0]

GetActiveAlerts == {id \in Known : rows[id].status = "active"}

\* The snapshot and, read once for the pass, whether the connection is
\* unmonitored (an error leaves the alerts to the ordinary checks).
CleanStart ==
    /\ clean.pc = "idle"
    /\ \E u \in BOOLEAN :
         clean' = [pc |-> "next",
                   seen |-> [id \in GetActiveAlerts |-> rows[id].set],
                   kept |-> GetActiveAlerts, unmonitored |-> u, id |-> 0]
    /\ UNCHANGED <<rows, sample, eval, trig, clr, blind>>

Done(id) ==
    [clean EXCEPT !.pc = "next", !.id = 0,
                  !.seen = [i \in DOMAIN @ \ {id} |-> @[i]]]

\* Mutant: a status the table does not know.
ClearAlert_resolved(r) ==
    IF Exists(r) THEN [r EXCEPT !.status = "resolved"] ELSE r

\* The statement of the cleaner: it does not look at the status.
ClearAlert(r) ==
    IF Exists(r) THEN [r EXCEPT !.status = "cleared"] ELSE r

\* The alert belongs to this path even when the clear fails, and nobody is
\* told.
clearAlertForUnmonitoredConnection(id) ==
    /\ clean.pc = "next" /\ id \in DOMAIN clean.seen
    /\ clean.unmonitored
    /\ \/ rows' = [rows EXCEPT ![id] = ClearAlert(@)]
       \/ UNCHANGED rows
    /\ clean' = Done(id)
    /\ UNCHANGED <<sample, eval, trig, clr, blind>>

\* recordResolvedSample and recordViolatingSample, and the decision.
Judged(id, resolved) ==
    LET streak == observe(clr[id], resolved, ClearCount)
    IN /\ clr' = [clr EXCEPT ![id] = streak]
       /\ clean' = IF streak.count >= ClearCount
                   THEN [clean EXCEPT !.pc = "clear", !.id = id]
                   ELSE Done(id)

\* classifyAbsentMetric: the probe may or may not have collected within the
\* window of the query; only then is a missing row a recovery.
resolveAbsentMetric(id) ==
    \/ clean' = Done(id) /\ UNCHANGED clr
    \/ ClearsWhenAbsent /\ Judged(id, TRUE)

\* checkAlertResolved, with the threshold the snapshot of the alert holds.
checkAlertResolved(id) ==
    /\ clean.pc = "next" /\ id \in DOMAIN clean.seen
    /\ ~clean.unmonitored
    /\ \/ sample \in Values /\ Judged(id, ~checkThreshold(sample, clean.seen[id]))
       \/ sample = NoRow /\ resolveAbsentMetric(id)
    /\ UNCHANGED <<rows, sample, eval, trig, blind>>

\* The extension of the rule is missing on the connection, or the query
\* failed: the alert stays as it is.
CleanHold(id) ==
    /\ clean.pc = "next" /\ id \in DOMAIN clean.seen
    /\ ~clean.unmonitored
    /\ clean' = Done(id)
    /\ UNCHANGED <<rows, sample, eval, trig, clr, blind>>

\* The clear and, unless it failed, its notification.  A clear that fails
\* keeps the count, so the next pass tries again.
clearResolvedAlert ==
    /\ clean.pc = "clear"
    /\ \/ rows' = [rows EXCEPT ![clean.id] = ClearAlert(@)]
       \/ UNCHANGED rows
    /\ clean' = Done(clean.id)
    /\ UNCHANGED <<sample, eval, trig, clr, blind>>

\* retain: the counts of alerts outside the snapshot are dropped.
CleanEnd ==
    /\ clean.pc = "next" /\ DOMAIN clean.seen = {}
    /\ clr' = [id \in Ids |-> IF id \in clean.kept THEN clr[id] ELSE NoStreak]
    /\ clean' = CleanIdle
    /\ UNCHANGED <<rows, sample, eval, trig, blind>>

-----------------------------------------------------------------------------
(* Users, retention, the collector and the clock *)

AcknowledgeAlert(id) ==
    /\ rows[id].status = "active"
    /\ rows' = [rows EXCEPT ![id].status = "acknowledged", ![id].ack = TRUE]
    /\ UNCHANGED <<sample, eval, trig, clean, clr, blind>>

UnacknowledgeAlert(id) ==
    /\ rows[id].status = "acknowledged"
    /\ rows' = [rows EXCEPT ![id].status = "active", ![id].ack = FALSE]
    /\ UNCHANGED <<sample, eval, trig, clean, clr, blind>>

\* The collector stores a new sample, or one in which the series is absent.
NewSample(v) ==
    /\ sample' = v
    /\ trig' = Aged(trig, TriggerCount)
    /\ clr' = [id \in Ids |-> Aged(clr[id], ClearCount)]
    /\ UNCHANGED <<rows, eval, clean, blind>>

Gone == [status |-> "deleted", set |-> CHOOSE s \in Settings : TRUE,
         ack |-> FALSE]

\* Retention: an acknowledged alert ages from triggered_at, a cleared one
\* from cleared_at; the acknowledgment record goes with the alert.
DeleteOldAlerts(id) ==
    /\ rows[id].status \in {"acknowledged", "cleared"}
    /\ rows' = [rows EXCEPT ![id] = Gone]
    /\ UNCHANGED <<sample, eval, trig, clean, clr, blind>>

\* The alerter stops, between any two statements, and starts again: the
\* counts live in memory only.
Restart ==
    /\ eval' = EvalIdle
    /\ clean' = CleanIdle
    /\ trig' = NoStreak
    /\ clr' = [id \in Ids |-> NoStreak]
    /\ UNCHANGED <<rows, sample, blind>>

-----------------------------------------------------------------------------

Init ==
    /\ rows = <<>>
    /\ sample \in Values \cup {NoRow}
    /\ eval = EvalIdle
    /\ trig = NoStreak
    /\ clean = CleanIdle
    /\ clr = [id \in Ids |-> NoStreak]
    /\ blind = FALSE

Evaluator ==
    \/ EvalSkip \/ EvalLookup \/ EvalUpdate \/ EvalReactivate
    \/ EvalCooldown \/ EvalCreate
    \/ \E set \in Settings : EvalJudge(set)

Cleaner ==
    \/ CleanStart \/ clearResolvedAlert \/ CleanEnd
    \/ \E id \in Known : \/ clearAlertForUnmonitoredConnection(id)
                         \/ checkAlertResolved(id)
                         \/ CleanHold(id)

Next ==
    \/ Evaluator
    \/ Cleaner
    \/ \E id \in Known : \/ AcknowledgeAlert(id) \/ UnacknowledgeAlert(id)
                         \/ DeleteOldAlerts(id)
    \/ \E v \in Values \cup {NoRow} : NewSample(v)
    \/ Restart

Spec == Init /\ [][Next]_vars

\* Both workers run on tickers for as long as the alerter does, and the
\* datastore does not fail every reactivation.
FairSpec ==
    /\ Spec
    /\ WF_vars(Evaluator)
    /\ WF_vars(Cleaner)
    /\ SF_vars(EvalReactivate /\ rows' # rows)

-----------------------------------------------------------------------------
(* Properties *)

Streaks(top) == [count : 0..top, counted : BOOLEAN, span : 0..top]

TypeOK ==
    /\ rows \in Seq([status : {"active", "acknowledged", "cleared", "deleted"},
                     set : Settings, ack : BOOLEAN])
    /\ Len(rows) <= MaxAlerts
    /\ sample \in Values \cup {NoRow}
    /\ eval.pc \in {"idle", "lookup", "update", "reactivate",
                    "cooldown", "create"}
    /\ trig \in Streaks(TriggerCount)
    /\ clean.pc \in {"idle", "next", "clear"}
    /\ clean.kept \subseteq Known
    /\ DOMAIN clean.seen \subseteq clean.kept
    /\ clean.id \in Known \cup {0}
    /\ clr \in [Ids -> Streaks(ClearCount)]
    /\ blind \in BOOLEAN

\* The series has one open alert at most as long as no lookup of it failed,
\* whatever the cleaner, users and retention do between the lookup and the
\* insert (nothing in the schema forbids a second one).
OneOpenAlert == ~blind => Cardinality({id \in Known : Open(rows[id])}) <= 1

\* The rows of the series live as AlertRow promises.
Row == INSTANCE AlertRow
         WITH status <- [id \in Ids |-> IF id \in Known THEN rows[id].status
                                                        ELSE "absent"],
              acks <- {id \in Known : rows[id].ack}
RowLifecycle == Row!Spec

\* A count never exceeds the number of distinct samples collected since the
\* first one it counted, however often and how late each was read: an alert
\* is raised and cleared on as many samples as configured.
CountsSpanSamples ==
    /\ trig.count <= trig.span
    /\ \A id \in Ids : clr[id].count <= clr[id].span

\* Once the evaluator has stored a new severity on an acknowledged alert it
\* is brought back to the user's attention: its acknowledgment does not
\* outlast the severity it was given for.
SeverityChangeSurfaces ==
    \A id \in Ids :
        (eval.pc = "reactivate" /\ eval.id = id)
            ~> (id \in Known /\ rows[id].status # "acknowledged")
=============================================================================
