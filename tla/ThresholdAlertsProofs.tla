----------------------- MODULE ThresholdAlertsProofs -----------------------
(***************************************************************************)
(* Proofs about ThresholdAlerts, for any metric values, thresholds, counts *)
(* and number of alerts: at most one alert of a series is open, counts     *)
(* never run ahead of the samples, and the rows live as AlertRow promises. *)
(***************************************************************************)
EXTENDS ThresholdAlerts, FiniteSetTheorems, TLAPS

AlertRecord ==
    [status : {"active", "acknowledged", "cleared", "deleted"},
     set : Settings, ack : BOOLEAN]

\* What the evaluator carries from one statement to the next.
EvalOK ==
    \/ eval = EvalIdle
    \/ eval \in [pc : {"lookup", "cooldown", "create"}, set : Settings,
                 sustained : BOOLEAN]
    \/ eval \in [pc : {"update"}, set : Settings, id : Known, react : BOOLEAN]
    \/ eval \in [pc : {"reactivate"}, id : Known]

\* The rows are a sequence of records, and the evaluator writes a known one.
RowsOK ==
    /\ rows \in Seq(AlertRecord)
    /\ Len(rows) <= MaxAlerts
    /\ EvalOK

-----------------------------------------------------------------------------
(* The rows *)

\* Every statement leaves a record a record.
LEMMA StatementsKeepRecords ==
    ASSUME NEW r \in AlertRecord, NEW set \in Settings
    PROVE  /\ UpdateAlertValues(r, set) \in AlertRecord
           /\ ReactivateAlert(r) \in AlertRecord
           /\ ClearAlert(r) \in AlertRecord
           /\ [[r EXCEPT !.status = "active"] EXCEPT !.ack = FALSE] \in AlertRecord
           /\ [[r EXCEPT !.status = "acknowledged"] EXCEPT !.ack = TRUE] \in AlertRecord
           /\ Gone \in AlertRecord
<1>1. UpdateAlertValues(r, set) \in AlertRecord
  BY DEF UpdateAlertValues, AlertRecord
<1>2. ReactivateAlert(r) \in AlertRecord
  BY DEF ReactivateAlert, AlertRecord
<1>3. ClearAlert(r) \in AlertRecord
  BY DEF ClearAlert, AlertRecord
<1>4. Gone \in AlertRecord
  BY DEF Gone, AlertRecord
<1>5. [[r EXCEPT !.status = "active"] EXCEPT !.ack = FALSE] \in AlertRecord
  BY DEF AlertRecord
<1>6. [[r EXCEPT !.status = "acknowledged"] EXCEPT !.ack = TRUE] \in AlertRecord
  BY DEF AlertRecord
<1> QED
  BY <1>1, <1>2, <1>3, <1>4, <1>5, <1>6

\* A statement addressed to one row, known or not, changes no other.
LEMMA WriteOne ==
    ASSUME NEW S, NEW s \in Seq(S), NEW i, NEW e, i \in 1..Len(s) => e \in S
    PROVE  /\ [s EXCEPT ![i] = e] \in Seq(S)
           /\ Len([s EXCEPT ![i] = e]) = Len(s)
           /\ \A j \in 1..Len(s) : [s EXCEPT ![i] = e][j] = IF j = i THEN e ELSE s[j]
<1> DEFINE t == [s EXCEPT ![i] = e]
<1>1. \A j \in 1..Len(s) : t[j] = IF j = i THEN e ELSE s[j]
  OBVIOUS
<1>2. DOMAIN t = 1..Len(s) /\ t = [j \in 1..Len(s) |-> t[j]]
  OBVIOUS
<1>3. t \in [1..Len(s) -> S]
  <2>1. \A j \in 1..Len(s) : t[j] \in S
    BY <1>1
  <2> HIDE DEF t
  <2> QED
    BY <1>2, <2>1
<1>4. t \in Seq(S) /\ Len(t) = Len(s)
  BY <1>3
<1> QED
  BY <1>1, <1>4

LEMMA InitRows == Init => RowsOK
BY ThresholdAssumption DEF Init, RowsOK, EvalOK, EvalIdle

\* The rows when nobody, or somebody, writes.
LEMMA RowsStay == ASSUME RowsOK, UNCHANGED <<rows, eval>> PROVE RowsOK'
BY DEF RowsOK, EvalOK, Known, EvalIdle

LEMMA RowWritten ==
    ASSUME RowsOK, NEW i, NEW e, i \in Known => e \in AlertRecord,
           rows' = [rows EXCEPT ![i] = e], eval' = eval \/ eval' = EvalIdle
    PROVE  RowsOK'
<1>1. rows' \in Seq(AlertRecord) /\ Len(rows') = Len(rows)
  BY WriteOne DEF RowsOK, Known
<1> QED
  BY <1>1 DEF RowsOK, EvalOK, Known, EvalIdle

LEMMA NextRows == RowsOK /\ [Next]_vars => RowsOK'
<1> SUFFICES ASSUME RowsOK, [Next]_vars PROVE RowsOK'
  OBVIOUS
<1>a. \A id \in Known : rows[id] \in AlertRecord
  BY DEF RowsOK, Known
<1>1. CASE EvalSkip
  BY <1>1, RowsStay DEF EvalSkip
<1>2. CASE \E set \in Settings : EvalJudge(set)
  <2> PICK set \in Settings : EvalJudge(set)
    BY <1>2
  <2>1. EvalOK'
    BY DEF EvalJudge, EvalOK, EvalIdle
  <2> QED
    BY <2>1 DEF EvalJudge, RowsOK
<1>3. CASE EvalLookup
  <2>1. eval \in [pc : {"lookup", "cooldown", "create"}, set : Settings,
                  sustained : BOOLEAN]
    BY <1>3 DEF EvalLookup, RowsOK, EvalOK, EvalIdle
  <2>2. ASSUME eval' = RaiseOrNot PROVE EvalOK'
    <3>1. [eval EXCEPT !.pc = "cooldown"]
            \in [pc : {"lookup", "cooldown", "create"}, set : Settings,
                 sustained : BOOLEAN]
      BY <2>1
    <3>2. RaiseOrNot = EvalIdle \/ RaiseOrNot = [eval EXCEPT !.pc = "cooldown"]
      BY DEF RaiseOrNot
    <3> QED
      BY <2>2, <3>1, <3>2 DEF EvalOK
  <2>3. ASSUME NEW id \in GetActiveThresholdAlert,
               eval' = [pc |-> "update", set |-> eval.set, id |-> id,
                        react |-> /\ rows[id].status = "acknowledged"
                                  /\ rows[id].set.severity # eval.set.severity]
        PROVE  EvalOK'
    <3>1. id \in Known /\ Known' = Known
      BY <1>3 DEF EvalLookup, GetActiveThresholdAlert, Known
    <3> QED
      BY <2>1, <2>3, <3>1 DEF EvalOK
  <2>4. EvalOK'
    BY <1>3, <2>2, <2>3 DEF EvalLookup
  <2> QED
    BY <2>4, <1>3 DEF EvalLookup, RowsOK
<1>4. CASE EvalUpdate
  <2>1. eval \in [pc : {"update"}, set : Settings, id : Known, react : BOOLEAN]
    BY <1>4 DEF EvalUpdate, RowsOK, EvalOK, EvalIdle
  <2>2. rows' \in Seq(AlertRecord) /\ Len(rows') = Len(rows)
    <3>1. UpdateAlertValues(rows[eval.id], eval.set) \in AlertRecord
      BY <1>a, <2>1, StatementsKeepRecords
    <3> QED
      BY <1>4, <3>1, WriteOne DEF EvalUpdate, RowsOK
  <2>3. EvalOK'
    BY <2>1, <2>2, <1>4 DEF EvalUpdate, EvalOK, Known
  <2> QED
    BY <2>2, <2>3 DEF RowsOK
<1>5. CASE EvalReactivate
  <2>1. eval.id \in Known => ReactivateAlert(rows[eval.id]) \in AlertRecord
    BY <1>a, StatementsKeepRecords DEF AlertRecord
  <2> QED
    BY <1>5, <2>1, RowWritten DEF EvalReactivate, RowsOK, EvalOK
<1>6. CASE EvalCooldown
  <2>1. eval \in [pc : {"lookup", "cooldown", "create"}, set : Settings,
                  sustained : BOOLEAN]
    BY <1>6 DEF EvalCooldown, RowsOK, EvalOK, EvalIdle
  <2>2. EvalOK'
    BY <2>1, <1>6 DEF EvalCooldown, EvalOK, EvalIdle
  <2> QED
    BY <2>2, <1>6 DEF EvalCooldown, RowsOK
<1>7. CASE EvalCreate
  <2>1. eval.set \in Settings
    BY <1>7 DEF EvalCreate, RowsOK, EvalOK, EvalIdle
  <2>2. [status |-> "active", set |-> eval.set, ack |-> FALSE] \in AlertRecord
    BY <2>1 DEF AlertRecord
  <2> QED
    BY <1>7, <2>2, ThresholdAssumption DEF EvalCreate, CreateAlert, RowsOK, EvalOK
<1>8. CASE CleanStart \/ CleanEnd
  BY <1>8, RowsStay DEF CleanStart, CleanEnd
<1>9. CASE clearResolvedAlert
  <2>1. clean.id \in Known => ClearAlert(rows[clean.id]) \in AlertRecord
    BY <1>a, StatementsKeepRecords DEF AlertRecord
  <2> QED
    BY <1>9, <2>1, RowWritten, RowsStay DEF clearResolvedAlert
<1>10. ASSUME NEW id \in Known, clearAlertForUnmonitoredConnection(id)
       PROVE  RowsOK'
  <2>1. ClearAlert(rows[id]) \in AlertRecord
    BY <1>a, StatementsKeepRecords DEF AlertRecord
  <2> QED
    BY <1>10, <2>1, RowWritten, RowsStay DEF clearAlertForUnmonitoredConnection
<1>11. ASSUME NEW id \in Known, checkAlertResolved(id) \/ CleanHold(id)
       PROVE  RowsOK'
  BY <1>11, RowsStay DEF checkAlertResolved, CleanHold
<1>12. ASSUME NEW id \in Known, AcknowledgeAlert(id) \/ UnacknowledgeAlert(id)
       PROVE  RowsOK'
  <2> DEFINE seen == [[rows[id] EXCEPT !.status = "acknowledged"] EXCEPT !.ack = TRUE]
             unseen == [[rows[id] EXCEPT !.status = "active"] EXCEPT !.ack = FALSE]
  <2>1. seen \in AlertRecord /\ unseen \in AlertRecord
    BY <1>a DEF AlertRecord
  <2>2. rows' = [rows EXCEPT ![id] = seen] \/ rows' = [rows EXCEPT ![id] = unseen]
    BY <1>12 DEF AcknowledgeAlert, UnacknowledgeAlert, RowsOK
  <2> HIDE DEF seen, unseen
  <2> QED
    BY <1>12, <2>1, <2>2, RowWritten DEF AcknowledgeAlert, UnacknowledgeAlert
<1>13. ASSUME NEW id \in Known, DeleteOldAlerts(id) PROVE RowsOK'
  <2>1. Gone \in AlertRecord
    BY <1>a, StatementsKeepRecords DEF AlertRecord
  <2> QED
    BY <1>13, <2>1, RowWritten DEF DeleteOldAlerts
<1>14. CASE \E v \in Values \cup {NoRow} : NewSample(v)
  BY <1>14, RowsStay DEF NewSample
<1>15. CASE Restart
  BY <1>15 DEF Restart, RowsOK, EvalOK
<1>16. CASE UNCHANGED vars
  BY <1>16, RowsStay DEF vars
<1> QED
  BY <1>1, <1>2, <1>3, <1>4, <1>5, <1>6, <1>7, <1>8, <1>9, <1>10, <1>11, <1>12,
     <1>13, <1>14, <1>15, <1>16 DEF Next, Evaluator, Cleaner

\* Every row of the table is well formed, and the row the evaluator is about
\* to write is one of the series.
THEOREM RowsCorrect == Spec => []RowsOK
BY InitRows, NextRows, PTL DEF Spec

-----------------------------------------------------------------------------
(* What a step does to the rows *)

\* What a statement may make of one row.
Change(r, e) ==
    \/ e.status = r.status /\ e.ack = r.ack
    \/ r.status = "active" /\ e.status = "acknowledged" /\ e.ack
    \/ r.status = "acknowledged" /\ e.status = "active" /\ ~e.ack
    \/ Open(r) /\ e.status = "cleared" /\ e.ack = r.ack
    \/ r.status \in {"acknowledged", "cleared"} /\ e.status = "deleted" /\ ~e.ack

RowChanges ==
    \/ rows' = rows
    \/ /\ eval.pc = "create" /\ eval' = EvalIdle
       /\ Len(rows) < MaxAlerts
       /\ \E set \in Settings : rows' = CreateAlert(set)
    \/ \E id \in Known, e \in AlertRecord :
          rows' = [rows EXCEPT ![id] = e] /\ Change(rows[id], e)

LEMMA StatementsChange ==
    ASSUME NEW r \in AlertRecord, NEW set \in Settings
    PROVE  /\ Change(r, UpdateAlertValues(r, set))
           /\ Change(r, ReactivateAlert(r))
           /\ Change(r, ClearAlert(r))
           /\ r.status \in {"acknowledged", "cleared"} => Change(r, Gone)
<1>1. Change(r, UpdateAlertValues(r, set))
  BY DEF Change, UpdateAlertValues, AlertRecord
<1>2. Change(r, ReactivateAlert(r))
  BY DEF Change, ReactivateAlert, AlertRecord
<1>3. Change(r, ClearAlert(r))
  BY DEF Change, ClearAlert, Exists, Open, AlertRecord
<1>4. r.status \in {"acknowledged", "cleared"} => Change(r, Gone)
  BY DEF Change, Gone
<1> QED
  BY <1>1, <1>2, <1>3, <1>4

\* Every step leaves the rows alone, appends one from the state "create" of
\* the evaluator, or makes one allowed change to one row.
LEMMA StepChanges == RowsOK /\ [Next]_vars => RowChanges
<1> SUFFICES ASSUME RowsOK, [Next]_vars PROVE RowChanges
  OBVIOUS
<1>a. \A id \in Known : rows[id] \in AlertRecord
  BY DEF RowsOK, Known
<1>0. ASSUME UNCHANGED rows PROVE RowChanges
  BY <1>0 DEF RowChanges
<1>b. ASSUME NEW i, NEW e, rows' = [rows EXCEPT ![i] = e],
             i \in Known => e \in AlertRecord /\ Change(rows[i], e)
      PROVE  RowChanges
  <2>1. CASE i \in Known
    BY <1>b, <2>1 DEF RowChanges
  <2>2. CASE i \notin Known
    BY <1>b, <2>2, <1>0 DEF RowsOK, Known
  <2> QED
    BY <2>1, <2>2
<1>4. CASE EvalUpdate
  <2>1. eval \in [pc : {"update"}, set : Settings, id : Known, react : BOOLEAN]
    BY <1>4 DEF EvalUpdate, RowsOK, EvalOK, EvalIdle
  <2>2. /\ UpdateAlertValues(rows[eval.id], eval.set) \in AlertRecord
        /\ Change(rows[eval.id], UpdateAlertValues(rows[eval.id], eval.set))
    BY <1>a, <2>1, StatementsKeepRecords, StatementsChange
  <2> QED
    BY <1>4, <1>0, <1>b, <2>2 DEF EvalUpdate
<1>5. CASE EvalReactivate
  <2>1. eval.id \in Known => /\ ReactivateAlert(rows[eval.id]) \in AlertRecord
                             /\ Change(rows[eval.id], ReactivateAlert(rows[eval.id]))
    BY <1>a, StatementsKeepRecords, StatementsChange DEF AlertRecord
  <2> QED
    BY <1>5, <1>0, <1>b, <2>1 DEF EvalReactivate
<1>7. CASE EvalCreate
  <2>1. eval.set \in Settings
    BY <1>7 DEF EvalCreate, RowsOK, EvalOK, EvalIdle
  <2> QED
    BY <1>7, <2>1, <1>0 DEF EvalCreate, RowChanges
<1>8. ASSUME NEW i, i \in Known => rows[i] \in AlertRecord,
             rows' = [rows EXCEPT ![i] = ClearAlert(rows[i])]
      PROVE  RowChanges
  <2>1. i \in Known => /\ ClearAlert(rows[i]) \in AlertRecord
                       /\ Change(rows[i], ClearAlert(rows[i]))
    BY <1>8, StatementsKeepRecords, StatementsChange DEF AlertRecord
  <2> QED
    BY <1>8, <2>1, <1>b
<1>9. CASE clearResolvedAlert
  BY <1>9, <1>0, <1>8, <1>a DEF clearResolvedAlert
<1>10. ASSUME NEW id \in Known, clearAlertForUnmonitoredConnection(id)
       PROVE  RowChanges
  BY <1>10, <1>0, <1>8, <1>a DEF clearAlertForUnmonitoredConnection
<1>12. ASSUME NEW id \in Known, AcknowledgeAlert(id) PROVE RowChanges
  <2> DEFINE e == [[rows[id] EXCEPT !.status = "acknowledged"] EXCEPT !.ack = TRUE]
  <2>1. e \in AlertRecord /\ Change(rows[id], e)
    BY <1>a, <1>12 DEF AcknowledgeAlert, AlertRecord, Change
  <2>2. rows' = [rows EXCEPT ![id] = e]
    BY <1>12 DEF AcknowledgeAlert, RowsOK
  <2> QED
    BY <2>1, <2>2, <1>b
<1>13. ASSUME NEW id \in Known, UnacknowledgeAlert(id) PROVE RowChanges
  <2> DEFINE e == [[rows[id] EXCEPT !.status = "active"] EXCEPT !.ack = FALSE]
  <2>1. e \in AlertRecord /\ Change(rows[id], e)
    BY <1>a, <1>13 DEF UnacknowledgeAlert, AlertRecord, Change
  <2>2. rows' = [rows EXCEPT ![id] = e]
    BY <1>13 DEF UnacknowledgeAlert, RowsOK
  <2> QED
    BY <2>1, <2>2, <1>b
<1>14. ASSUME NEW id \in Known, DeleteOldAlerts(id) PROVE RowChanges
  <2>1. Gone \in AlertRecord /\ Change(rows[id], Gone)
    BY <1>a, <1>14, StatementsKeepRecords, StatementsChange
       DEF DeleteOldAlerts, AlertRecord
  <2> QED
    BY <1>14, <2>1, <1>b DEF DeleteOldAlerts
<1>15. CASE \/ EvalSkip \/ EvalLookup \/ EvalCooldown \/ CleanStart \/ CleanEnd
            \/ \E set \in Settings : EvalJudge(set)
            \/ \E id \in Known : checkAlertResolved(id) \/ CleanHold(id)
            \/ \E v \in Values \cup {NoRow} : NewSample(v)
            \/ Restart \/ UNCHANGED vars
  BY <1>15, <1>0 DEF EvalSkip, EvalLookup, EvalCooldown, CleanStart, CleanEnd,
     EvalJudge, checkAlertResolved, CleanHold, NewSample, Restart, vars
<1> QED
  BY <1>4, <1>5, <1>7, <1>9, <1>10, <1>12, <1>13, <1>14, <1>15
     DEF Next, Evaluator, Cleaner

-----------------------------------------------------------------------------
(* One open alert *)

\* Until a lookup fails, two open rows are the same row, and there is none
\* while the evaluator is on its way to the insert.
AtMostOne ==
    ~blind =>
      /\ \A i, j \in Known : Open(rows[i]) /\ Open(rows[j]) => i = j
      /\ eval.pc \in {"cooldown", "create"} => \A i \in Known : ~Open(rows[i])

LEMMA InitAtMostOne == Init => AtMostOne
BY DEF Init, AtMostOne, Known

\* The evaluator gets to the insert only from a lookup that found no open
\* alert, and no step takes back that a lookup failed.
LEMMA WayToCreate ==
    RowsOK /\ [Next]_vars /\ ~blind'
      => /\ ~blind
         /\ eval'.pc \in {"cooldown", "create"} =>
              \/ eval' = eval
              \/ eval.pc = "cooldown" /\ rows' = rows
              \/ GetActiveThresholdAlert = {} /\ rows' = rows
<1> SUFFICES ASSUME RowsOK, [Next]_vars, ~blind'
             PROVE  /\ ~blind
                    /\ eval'.pc \in {"cooldown", "create"} =>
                         \/ eval' = eval
                         \/ eval.pc = "cooldown" /\ rows' = rows
                         \/ GetActiveThresholdAlert = {} /\ rows' = rows
  OBVIOUS
<1>1. CASE EvalLookup
  BY <1>1 DEF EvalLookup
<1>2. CASE EvalCooldown
  BY <1>2 DEF EvalCooldown
<1>3. CASE EvalUpdate \/ EvalReactivate \/ EvalCreate \/ Restart
           \/ \E set \in Settings : EvalJudge(set)
  BY <1>3 DEF EvalUpdate, EvalReactivate, EvalCreate, EvalJudge, EvalIdle, Restart
<1>4. CASE \/ EvalSkip \/ CleanStart \/ CleanEnd \/ clearResolvedAlert
           \/ UNCHANGED vars
  BY <1>4 DEF EvalSkip, CleanStart, CleanEnd, clearResolvedAlert, vars
<1>5. CASE \E id \in Known : \/ checkAlertResolved(id) \/ CleanHold(id)
                             \/ clearAlertForUnmonitoredConnection(id)
  BY <1>5 DEF checkAlertResolved, CleanHold, clearAlertForUnmonitoredConnection
<1>6. CASE \/ \E id \in Known : \/ AcknowledgeAlert(id) \/ UnacknowledgeAlert(id)
                                \/ DeleteOldAlerts(id)
           \/ \E v \in Values \cup {NoRow} : NewSample(v)
  <2>1. UNCHANGED <<eval, blind>>
    BY <1>6 DEF AcknowledgeAlert, UnacknowledgeAlert, DeleteOldAlerts, NewSample
  <2> QED
    BY <2>1
<1> QED
  BY <1>1, <1>2, <1>3, <1>4, <1>5, <1>6 DEF Next, Evaluator, Cleaner

LEMMA NextAtMostOne == RowsOK /\ AtMostOne /\ [Next]_vars => AtMostOne'
<1> SUFFICES ASSUME RowsOK, AtMostOne, [Next]_vars, ~blind' PROVE AtMostOne'
  BY DEF AtMostOne
<1>1. /\ ~blind
      /\ eval'.pc \in {"cooldown", "create"} =>
           \/ eval' = eval
           \/ eval.pc = "cooldown" /\ rows' = rows
           \/ GetActiveThresholdAlert = {} /\ rows' = rows
  BY WayToCreate
<1>2. CASE rows' = rows
  BY <1>1, <1>2 DEF AtMostOne, Known, GetActiveThresholdAlert
<1>3. CASE \E id \in Known, e \in AlertRecord :
              rows' = [rows EXCEPT ![id] = e] /\ Change(rows[id], e)
  <2> PICK id \in Known, e \in AlertRecord :
              rows' = [rows EXCEPT ![id] = e] /\ Change(rows[id], e)
    BY <1>3
  <2>1. Known' = Known
    BY WriteOne DEF RowsOK, Known
  <2>2. \A i \in Known : Open(rows'[i]) => Open(rows[i])
    BY WriteOne DEF RowsOK, Known, Change, Open
  <2>3. (eval'.pc \in {"cooldown", "create"}) =>
           (\A i \in Known : ~Open(rows[i]))
    BY <1>1 DEF AtMostOne, GetActiveThresholdAlert
  <2> QED
    BY <1>1, <2>1, <2>2, <2>3 DEF AtMostOne
<1>4. CASE /\ eval.pc = "create" /\ eval' = EvalIdle
           /\ \E set \in Settings : rows' = CreateAlert(set)
  <2>1. \A i \in Known : ~Open(rows[i])
    BY <1>1, <1>4 DEF AtMostOne
  <2>2. \A i \in Known' : Open(rows'[i]) => i = Len(rows) + 1
    BY <1>4, <2>1 DEF RowsOK, Known, CreateAlert
  <2> QED
    BY <1>4, <2>2 DEF AtMostOne, EvalIdle
<1> QED
  BY <1>2, <1>3, <1>4, StepChanges DEF RowChanges

\* The series has at most one open alert until a lookup fails: the insert
\* (thresholds.go, triggerThresholdAlert) is not guarded by the schema, so
\* this rests on nobody else opening a row between the lookup and it.
THEOREM OneOpenAlertHolds == Spec => []OneOpenAlert
<1>1. AtMostOne => OneOpenAlert
  <2> SUFFICES ASSUME AtMostOne, ~blind
               PROVE  Cardinality({id \in Known : Open(rows[id])}) <= 1
    BY DEF OneOpenAlert
  <2> DEFINE open == {id \in Known : Open(rows[id])}
  <2>1. CASE open = {}
    BY <2>1, FS_EmptySet
  <2>2. CASE open # {}
    <3> PICK i \in open : TRUE
      BY <2>2
    <3>1. open = {i}
      BY DEF AtMostOne
    <3>2. Cardinality(open) = 1
      <4> HIDE DEF open
      <4>1. Cardinality({i}) = 1
        BY FS_Singleton
      <4> QED
        BY <3>1, <4>1
    <3> QED
      BY <3>2
  <2> QED
    BY <2>1, <2>2
<1>2. Init => RowsOK /\ AtMostOne
  BY InitRows, InitAtMostOne
<1>3. (RowsOK /\ AtMostOne) /\ [Next]_vars => (RowsOK /\ AtMostOne)'
  BY NextRows, NextAtMostOne
<1> QED
  BY <1>1, <1>2, <1>3, PTL DEF Spec

-----------------------------------------------------------------------------
(* Counts and samples *)

\* An entry that has not counted the newest sample has room for it: it spans
\* one sample more than it counts, or as many as matter.
StreakOK(s, top) ==
    /\ s \in Streaks(top)
    /\ s.count <= s.span
    /\ s.count > 0 /\ ~s.counted => s.count < s.span \/ s.span = top

CountsOK ==
    /\ StreakOK(trig, TriggerCount)
    /\ clr \in [Ids -> Streaks(ClearCount)]
    /\ \A id \in Ids : StreakOK(clr[id], ClearCount)

LEMMA StreakSteps ==
    ASSUME NEW top \in Nat \ {0}, NEW s, StreakOK(s, top), NEW holds \in BOOLEAN
    PROVE  /\ StreakOK(NoStreak, top)
           /\ StreakOK(observe(s, holds, top), top)
           /\ StreakOK(Aged(s, top), top)
<1>1. StreakOK(NoStreak, top)
  BY DEF NoStreak, StreakOK, Streaks
<1>2. StreakOK(observe(s, holds, top), top)
  <2> DEFINE n == AtMost(s.count + 1, top)
             w == IF s.count = 0 THEN 1 ELSE s.span
             t == [count |-> n, counted |-> TRUE, span |-> w]
  <2>1. ~s.counted => n \in 0..top /\ w \in 0..top /\ n <= w
    BY DEF StreakOK, Streaks, AtMost
  <2> HIDE DEF n, w
  <2>2. s.counted \/ StreakOK(t, top)
    BY <2>1 DEF StreakOK, Streaks
  <2>3. \/ observe(s, holds, top) = NoStreak
        \/ observe(s, holds, top) = s
        \/ ~s.counted /\ observe(s, holds, top) = t
    BY DEF observe, n, w
  <2> QED
    BY <1>1, <2>2, <2>3
<1>3. StreakOK(Aged(s, top), top)
  <2> DEFINE w == AtMost(s.span + 1, top)
             t == [count |-> s.count, counted |-> FALSE, span |-> w]
  <2>1. w \in 0..top /\ s.count \in 0..top /\ s.count <= w
        /\ (s.count < w \/ w = top)
    BY DEF StreakOK, Streaks, AtMost
  <2> HIDE DEF w
  <2>2. StreakOK(t, top)
    BY <2>1 DEF StreakOK, Streaks
  <2>3. Aged(s, top) = s \/ Aged(s, top) = t
    BY DEF Aged, StreakOK, Streaks, w
  <2> QED
    BY <2>2, <2>3
<1> QED
  BY <1>1, <1>2, <1>3

LEMMA InitCounts == Init => CountsOK
<1> SUFFICES ASSUME Init PROVE CountsOK
  OBVIOUS
<1>1. NoStreak \in Streaks(ClearCount) /\ StreakOK(NoStreak, ClearCount)
      /\ StreakOK(NoStreak, TriggerCount)
  BY ThresholdAssumption DEF NoStreak, Streaks, StreakOK
<1> QED
  BY <1>1 DEF Init, CountsOK

\* The cleaner judges one alert: its entry observes the newest sample.
LEMMA JudgedCounts ==
    ASSUME CountsOK, NEW id \in Known, NEW resolved \in BOOLEAN,
           Judged(id, resolved), UNCHANGED trig
    PROVE  CountsOK'
<1> DEFINE streak == observe(clr[id], resolved, ClearCount)
<1>1. clr' = [clr EXCEPT ![id] = streak]
  BY DEF Judged
<1>2. id \in Ids => StreakOK(streak, ClearCount)
  BY ThresholdAssumption, StreakSteps DEF CountsOK
<1> HIDE DEF streak
<1> QED
  BY <1>1, <1>2 DEF CountsOK, StreakOK

LEMMA NextCounts == CountsOK /\ [Next]_vars => CountsOK'
<1> SUFFICES ASSUME CountsOK, [Next]_vars PROVE CountsOK'
  OBVIOUS
<1>a. ASSUME UNCHANGED <<trig, clr>> PROVE CountsOK'
  BY <1>a DEF CountsOK
<1>b. /\ StreakOK(NoStreak, TriggerCount)
      /\ StreakOK(NoStreak, ClearCount) /\ NoStreak \in Streaks(ClearCount)
  BY ThresholdAssumption, StreakSteps DEF CountsOK, NoStreak, Streaks, StreakOK
<1>1. CASE EvalSkip
  BY <1>1, <1>b DEF EvalSkip, CountsOK
<1>2. CASE \E set \in Settings : EvalJudge(set)
  <2> PICK set \in Settings : EvalJudge(set)
    BY <1>2
  <2>1. (sample > set.limit) \in BOOLEAN
    OBVIOUS
  <2>2. trig' = observe(trig, sample > set.limit, TriggerCount)
    BY DEF EvalJudge, checkThreshold
  <2>3. StreakOK(trig', TriggerCount)
    BY <2>1, <2>2, ThresholdAssumption, StreakSteps DEF CountsOK
  <2> QED
    BY <2>3 DEF CountsOK, EvalJudge
<1>3. ASSUME NEW id \in Known, checkAlertResolved(id) PROVE CountsOK'
  <2>1. CASE UNCHANGED clr
    BY <1>3, <2>1, <1>a DEF checkAlertResolved
  <2>2. CASE Judged(id, TRUE) \/ Judged(id, ~checkThreshold(sample, clean.seen[id]))
    <3>1. (~checkThreshold(sample, clean.seen[id])) \in BOOLEAN
      BY DEF checkThreshold
    <3> QED
      BY <1>3, <2>2, <3>1, JudgedCounts DEF checkAlertResolved
  <2> QED
    BY <1>3, <2>1, <2>2 DEF checkAlertResolved, resolveAbsentMetric
<1>4. CASE CleanEnd
  BY <1>4, <1>b DEF CleanEnd, CountsOK
<1>5. CASE \E v \in Values \cup {NoRow} : NewSample(v)
  <2>1. StreakOK(Aged(trig, TriggerCount), TriggerCount)
    BY ThresholdAssumption, StreakSteps DEF CountsOK
  <2>2. \A id \in Ids : StreakOK(Aged(clr[id], ClearCount), ClearCount)
    BY ThresholdAssumption, StreakSteps DEF CountsOK
  <2> QED
    BY <1>5, <2>1, <2>2 DEF NewSample, CountsOK, StreakOK
<1>6. CASE Restart
  BY <1>6, <1>b DEF Restart, CountsOK
<1>7. CASE \/ EvalLookup \/ EvalUpdate \/ EvalReactivate \/ EvalCooldown
           \/ EvalCreate \/ CleanStart \/ clearResolvedAlert \/ UNCHANGED vars
  BY <1>7, <1>a DEF EvalLookup, EvalUpdate, EvalReactivate, EvalCooldown,
     EvalCreate, CleanStart, clearResolvedAlert, vars
<1>8. CASE \E id \in Known : \/ clearAlertForUnmonitoredConnection(id)
                             \/ CleanHold(id)
                             \/ AcknowledgeAlert(id) \/ UnacknowledgeAlert(id)
                             \/ DeleteOldAlerts(id)
  BY <1>8, <1>a DEF clearAlertForUnmonitoredConnection, CleanHold,
     AcknowledgeAlert, UnacknowledgeAlert, DeleteOldAlerts
<1> QED
  BY <1>1, <1>2, <1>3, <1>4, <1>5, <1>6, <1>7, <1>8 DEF Next, Evaluator, Cleaner

\* However often the tickers read a sample and however thresholds, workers and
\* restarts interleave, an alert is raised or cleared on no fewer samples than
\* configured (hysteresis.go, sampleStreaks.observe).
THEOREM CountsSpanSamplesHolds == Spec => []CountsSpanSamples
<1>1. CountsOK => CountsSpanSamples
  BY DEF CountsOK, CountsSpanSamples, StreakOK
<1> QED
  BY <1>1, InitCounts, NextCounts, PTL DEF Spec

-----------------------------------------------------------------------------
(* The type invariant *)

\* What the cleaner carries: the alerts of its snapshot exist, and the ones
\* still to be looked at are among them.
CleanOK ==
    /\ clean = [pc |-> clean.pc, seen |-> clean.seen, kept |-> clean.kept,
                unmonitored |-> clean.unmonitored, id |-> clean.id]
    /\ clean.pc \in {"idle", "next", "clear"}
    /\ clean.kept \subseteq Known
    /\ DOMAIN clean.seen \subseteq clean.kept
    /\ clean.id \in Known \cup {0}

RestOK ==
    /\ CleanOK
    /\ sample \in Values \cup {NoRow}
    /\ blind \in BOOLEAN

\* No alert is ever forgotten: a deleted one keeps its id.
LEMMA KnownGrows == RowsOK /\ [Next]_vars => Known \subseteq Known'
<1> SUFFICES ASSUME RowsOK, [Next]_vars PROVE Known \subseteq Known'
  OBVIOUS
<1>1. CASE rows' = rows
  BY <1>1 DEF Known
<1>2. CASE \E set \in Settings : rows' = CreateAlert(set)
  BY <1>2 DEF Known, CreateAlert, RowsOK
<1>3. CASE \E id \in Known, e \in AlertRecord : rows' = [rows EXCEPT ![id] = e]
  BY <1>3, WriteOne DEF Known, RowsOK
<1> QED
  BY <1>1, <1>2, <1>3, StepChanges DEF RowChanges

LEMMA CleanerSteps ==
    ASSUME CleanOK, Known \subseteq Known', NEW id \in Known,
           \/ clean' = clean
           \/ clean' = CleanIdle
           \/ clean' = Done(id)
           \/ clean' = Done(clean.id)
           \/ clean' = [[clean EXCEPT !.pc = "clear"] EXCEPT !.id = id]
    PROVE  CleanOK'
<1>1. CASE clean' = clean
  BY <1>1 DEF CleanOK
<1>2. CASE clean' = CleanIdle
  <2>1. DOMAIN <<>> = {}
    OBVIOUS
  <2> QED
    BY <1>2, <2>1 DEF CleanOK, CleanIdle
<1>3. ASSUME NEW j, clean' = Done(j) PROVE CleanOK'
  <2> DEFINE left == [i \in DOMAIN clean.seen \ {j} |-> clean.seen[i]]
  <2>1. DOMAIN left \subseteq DOMAIN clean.seen
    OBVIOUS
  <2>2. clean' = [pc |-> "next", seen |-> left, kept |-> clean.kept,
                  unmonitored |-> clean.unmonitored, id |-> 0]
    BY <1>3 DEF CleanOK, Done
  <2> HIDE DEF left
  <2> QED
    BY <2>1, <2>2 DEF CleanOK
<1>4. CASE clean' = [[clean EXCEPT !.pc = "clear"] EXCEPT !.id = id]
  <2>1. clean' = [pc |-> "clear", seen |-> clean.seen, kept |-> clean.kept,
                  unmonitored |-> clean.unmonitored, id |-> id]
    BY <1>4 DEF CleanOK
  <2> QED
    BY <2>1 DEF CleanOK
<1> QED
  BY <1>1, <1>2, <1>3, <1>4

LEMMA InitRest == Init => RestOK
<1>1. DOMAIN <<>> = {}
  OBVIOUS
<1>2. Init => CleanOK
  BY <1>1 DEF Init, CleanOK, CleanIdle
<1> QED
  BY <1>2 DEF Init, RestOK

LEMMA NextRest == RowsOK /\ RestOK /\ [Next]_vars => RestOK'
<1> SUFFICES ASSUME RowsOK, RestOK, [Next]_vars PROVE RestOK'
  OBVIOUS
<1>a. Known \subseteq Known'
  BY KnownGrows
<1>b. ASSUME clean' = clean \/ clean' = CleanIdle PROVE CleanOK'
  <2>1. CASE clean' = clean
    BY <1>a, <2>1 DEF RestOK, CleanOK
  <2>2. CASE clean' = CleanIdle
    <3>1. DOMAIN <<>> = {}
      OBVIOUS
    <3> QED
      BY <2>2, <3>1 DEF CleanOK, CleanIdle
  <2> QED
    BY <1>b, <2>1, <2>2
<1>1. CASE CleanStart
  <2>1. GetActiveAlerts \subseteq Known
    BY DEF GetActiveAlerts
  <2>2. CleanOK'
    BY <1>1, <1>a, <2>1 DEF CleanStart, CleanOK
  <2> QED
    BY <1>1, <2>2 DEF CleanStart, RestOK
<1>2. CASE clearResolvedAlert
  <2>1. CASE clean.id \in Known
    BY <1>2, <1>a, <2>1, CleanerSteps DEF clearResolvedAlert, RestOK
  <2>2. CASE clean.id = 0
    <3> DEFINE left == [i \in DOMAIN clean.seen \ {0} |-> clean.seen[i]]
    <3>1. DOMAIN left \subseteq DOMAIN clean.seen
      OBVIOUS
    <3>2. clean' = [pc |-> "next", seen |-> left, kept |-> clean.kept,
                    unmonitored |-> clean.unmonitored, id |-> 0]
      BY <1>2, <2>2 DEF clearResolvedAlert, RestOK, CleanOK, Done
    <3> HIDE DEF left
    <3>3. CleanOK'
      BY <1>a, <3>1, <3>2 DEF RestOK, CleanOK
    <3> QED
      BY <1>2, <3>3 DEF clearResolvedAlert, RestOK
  <2> QED
    BY <2>1, <2>2 DEF RestOK, CleanOK
<1>3. ASSUME NEW id \in Known,
             \/ clearAlertForUnmonitoredConnection(id)
             \/ checkAlertResolved(id) \/ CleanHold(id)
      PROVE  RestOK'
  <2>1. \/ clean' = Done(id)
        \/ clean' = [[clean EXCEPT !.pc = "clear"] EXCEPT !.id = id]
    BY <1>3 DEF clearAlertForUnmonitoredConnection, checkAlertResolved,
       CleanHold, resolveAbsentMetric, Judged
  <2>2. CleanOK'
    BY <2>1, <1>a, CleanerSteps DEF RestOK
  <2>3. UNCHANGED <<sample, blind>>
    BY <1>3 DEF clearAlertForUnmonitoredConnection, checkAlertResolved, CleanHold
  <2> QED
    BY <2>2, <2>3 DEF RestOK
<1>4. CASE CleanEnd \/ Restart \/ UNCHANGED vars
  BY <1>4, <1>b DEF CleanEnd, Restart, vars, RestOK
<1>5. CASE \/ EvalSkip \/ EvalLookup \/ EvalUpdate \/ EvalReactivate
           \/ EvalCooldown \/ EvalCreate \/ \E set \in Settings : EvalJudge(set)
  BY <1>5, <1>b DEF EvalSkip, EvalLookup, EvalUpdate, EvalReactivate,
     EvalCooldown, EvalCreate, EvalJudge, RestOK
<1>6. CASE \E id \in Known : \/ AcknowledgeAlert(id) \/ UnacknowledgeAlert(id)
                             \/ DeleteOldAlerts(id)
  <2>1. UNCHANGED <<clean, sample, blind>>
    BY <1>6 DEF AcknowledgeAlert, UnacknowledgeAlert, DeleteOldAlerts
  <2> QED
    BY <2>1, <1>b DEF RestOK
<1>7. CASE \E v \in Values \cup {NoRow} : NewSample(v)
  BY <1>7, <1>b DEF NewSample, RestOK
<1> QED
  BY <1>1, <1>2, <1>3, <1>4, <1>5, <1>6, <1>7 DEF Next, Evaluator, Cleaner

\* Rows, samples, counts and what both workers carry between two statements
\* keep their types; in particular every id a worker holds is an alert that
\* exists or existed.
THEOREM TypeCorrect == Spec => []TypeOK
<1>1. RowsOK /\ CountsOK /\ RestOK => TypeOK
  BY DEF RowsOK, EvalOK, EvalIdle, CountsOK, StreakOK, RestOK, CleanOK, TypeOK,
     AlertRecord
<1>2. Init => RowsOK /\ CountsOK /\ RestOK
  BY InitRows, InitCounts, InitRest
<1>3. (RowsOK /\ CountsOK /\ RestOK) /\ [Next]_vars => (RowsOK /\ CountsOK /\ RestOK)'
  BY NextRows, NextCounts, NextRest
<1> QED
  BY <1>1, <1>2, <1>3, PTL DEF Spec

-----------------------------------------------------------------------------
(* The refinement *)

statusBar == [id \in Ids |-> IF id \in Known THEN rows[id].status ELSE "absent"]
acksBar == {id \in Known : rows[id].ack}

LEMMA InitRefines == Init => Row!Init
BY ThresholdAssumption DEF Init, Row!Init, Known, Ids

\* One allowed change to a row is one step of its life, or none.
LEMMA ChangeRefines ==
    ASSUME RowsOK, NEW id \in Known, NEW e \in AlertRecord,
           rows' = [rows EXCEPT ![id] = e], Change(rows[id], e)
    PROVE  [Row!Next]_(Row!vars)
<1>1. Known' = Known /\ Known \subseteq Ids
  BY WriteOne, ThresholdAssumption DEF RowsOK, Known, Ids
<1>2. \A j \in Known : rows'[j] = IF j = id THEN e ELSE rows[j]
  BY WriteOne DEF RowsOK, Known
<1>3. statusBar' = [statusBar EXCEPT ![id] = e.status]
  <2>1. \A j \in Ids : statusBar'[j] = IF j = id THEN e.status ELSE statusBar[j]
    BY <1>1, <1>2 DEF statusBar, Ids
  <2>2. /\ statusBar = [j \in Ids |-> statusBar[j]]
        /\ statusBar' = [j \in Ids |-> statusBar'[j]]
    BY DEF statusBar, Ids
  <2> HIDE DEF statusBar
  <2> QED
    BY <2>1, <2>2, <1>1
<1>4. acksBar' = IF e.ack THEN acksBar \cup {id} ELSE acksBar \ {id}
  BY <1>1, <1>2 DEF acksBar
<1>5. statusBar[id] = rows[id].status /\ (id \in acksBar <=> rows[id].ack)
      /\ rows[id] \in AlertRecord
  BY <1>1 DEF statusBar, acksBar, RowsOK, Known
<1>6. CASE e.status = rows[id].status /\ e.ack = rows[id].ack
  <2>1. statusBar' = statusBar
    BY <1>3, <1>5, <1>6 DEF statusBar
  <2>2. acksBar' = acksBar
    BY <1>4, <1>5, <1>6
  <2> QED
    BY <2>1, <2>2 DEF Row!vars, statusBar, acksBar
<1>7. CASE rows[id].status = "active" /\ e.status = "acknowledged" /\ e.ack
  <2>1. Row!Acknowledge(id)
    BY <1>3, <1>4, <1>5, <1>7 DEF Row!Acknowledge, statusBar, acksBar
  <2> QED
    BY <2>1, <1>1 DEF Row!Next
<1>8. CASE rows[id].status = "acknowledged" /\ e.status = "active" /\ ~e.ack
  <2>1. Row!Reactivate(id)
    BY <1>3, <1>4, <1>5, <1>8 DEF Row!Reactivate, statusBar, acksBar
  <2> QED
    BY <2>1, <1>1 DEF Row!Next
<1>9. CASE Open(rows[id]) /\ e.status = "cleared" /\ e.ack = rows[id].ack
  <2>1. acksBar' = acksBar
    BY <1>4, <1>5, <1>9
  <2>2. Row!Clear(id)
    BY <1>3, <1>5, <1>9, <2>1 DEF Row!Clear, Row!Open, Open, statusBar, acksBar
  <2> QED
    BY <2>2, <1>1 DEF Row!Next
<1>10. CASE /\ rows[id].status \in {"acknowledged", "cleared"}
            /\ e.status = "deleted" /\ ~e.ack
  <2>1. Row!Delete(id)
    BY <1>3, <1>4, <1>5, <1>10 DEF Row!Delete, statusBar, acksBar
  <2> QED
    BY <2>1, <1>1 DEF Row!Next
<1> QED
  BY <1>6, <1>7, <1>8, <1>9, <1>10 DEF Change

LEMMA NextRefines == RowsOK /\ [Next]_vars => [Row!Next]_(Row!vars)
<1> SUFFICES ASSUME RowsOK, [Next]_vars PROVE [Row!Next]_(Row!vars)
  OBVIOUS
<1>1. CASE rows' = rows
  BY <1>1 DEF Row!vars, Known
<1>2. ASSUME NEW set \in Settings, rows' = CreateAlert(set), Len(rows) < MaxAlerts
      PROVE  [Row!Next]_(Row!vars)
  <2>0. PICK new \in Ids : new = Len(rows) + 1
    BY <1>2, ThresholdAssumption DEF RowsOK, Ids
  <2>1. new \in Ids /\ new \notin Known /\ Known' = Known \cup {new}
    BY <1>2, <2>0 DEF CreateAlert, RowsOK, Known
  <2>2. /\ \A j \in Known : rows'[j] = rows[j]
        /\ rows'[new] = [status |-> "active", set |-> set, ack |-> FALSE]
    BY <1>2, <2>0 DEF CreateAlert, RowsOK, Known
  <2>3. statusBar' = [statusBar EXCEPT ![new] = "active"]
    <3>1. \A j \in Ids : statusBar'[j] = IF j = new THEN "active" ELSE statusBar[j]
      BY <2>1, <2>2 DEF statusBar, Ids
    <3>2. /\ statusBar = [j \in Ids |-> statusBar[j]]
          /\ statusBar' = [j \in Ids |-> statusBar'[j]]
      BY DEF statusBar, Ids
    <3> HIDE DEF statusBar
    <3> QED
      BY <2>1, <3>1, <3>2
  <2>4. acksBar' = acksBar
    BY <2>1, <2>2 DEF acksBar
  <2>5. Row!Raise(new)
    BY <2>1, <2>3, <2>4 DEF Row!Raise, statusBar, acksBar
  <2> QED
    BY <2>1, <2>5 DEF Row!Next
<1>3. CASE \E id \in Known, e \in AlertRecord :
              rows' = [rows EXCEPT ![id] = e] /\ Change(rows[id], e)
  BY <1>3, ChangeRefines
<1> QED
  BY <1>1, <1>2, <1>3, StepChanges DEF RowChanges

\* Evaluator, cleaner, users, retention and restarts together implement the
\* life of an alert row: whatever an earlier read decided, a cleared alert is
\* never opened again and acknowledgment records match the status.
THEOREM RowLifecycleHolds == Spec => RowLifecycle
<1>1. Init => RowsOK /\ Row!Init
  BY InitRows, InitRefines
<1>2. RowsOK /\ [Next]_vars => RowsOK' /\ [Row!Next]_(Row!vars)
  BY NextRows, NextRefines
<1> QED
  BY <1>1, <1>2, PTL DEF Spec, RowLifecycle, Row!Spec

-----------------------------------------------------------------------------
(* What implementing AlertRow brings, for any set of alerts *)

RowInv == Row!TypeOK /\ Row!AcksMatch

LEMMA RowInit == Row!Init => RowInv
BY DEF RowInv, Row!Init, Row!TypeOK, Row!AcksMatch, Row!Statuses

LEMMA RowNext == RowInv /\ [Row!Next]_(Row!vars) => RowInv'
<1> SUFFICES ASSUME RowInv, [Row!Next]_(Row!vars) PROVE RowInv'
  OBVIOUS
<1> USE DEF RowInv, Row!TypeOK, Row!AcksMatch, Row!Statuses
<1>1. ASSUME NEW id \in Ids, Row!Raise(id) PROVE RowInv'
  BY <1>1 DEF Row!Raise
<1>2. ASSUME NEW id \in Ids, Row!Acknowledge(id) PROVE RowInv'
  BY <1>2 DEF Row!Acknowledge
<1>3. ASSUME NEW id \in Ids, Row!Reactivate(id) PROVE RowInv'
  BY <1>3 DEF Row!Reactivate
<1>4. ASSUME NEW id \in Ids, Row!Clear(id) PROVE RowInv'
  BY <1>4 DEF Row!Clear
<1>5. ASSUME NEW id \in Ids, Row!Delete(id) PROVE RowInv'
  BY <1>5 DEF Row!Delete
<1>6. CASE UNCHANGED Row!vars
  BY <1>6 DEF Row!vars
<1> QED
  BY <1>1, <1>2, <1>3, <1>4, <1>5, <1>6 DEF Row!Next

\* An open alert has an acknowledgment record exactly while its status says
\* so: a reader that joins alerts and alert_acknowledgments never sees them
\* disagree, whichever worker or user wrote last.
THEOREM AcksMatchHolds == Spec => []Row!AcksMatch
<1>1. RowInv => Row!AcksMatch
  BY DEF RowInv
<1>2. Row!Spec => []RowInv
  BY RowInit, RowNext, PTL DEF Row!Spec
<1> QED
  BY <1>1, <1>2, RowLifecycleHolds, PTL DEF RowLifecycle

\* A cleared alert is never opened again, whoever writes the row and however
\* old the read it acts on.
THEOREM ClearedIsFinalHolds == Spec => Row!ClearedIsFinal
<1> DEFINE Final == \A id \in Ids : statusBar[id] \in {"cleared", "deleted"}
                                      => statusBar'[id] \in {"cleared", "deleted"}
<1>1. RowInv /\ [Row!Next]_(Row!vars) => [Final]_(Row!vars)
  <2> SUFFICES ASSUME RowInv, Row!Next PROVE Final
    OBVIOUS
  <2>1. ASSUME NEW id \in Ids,
               Row!Raise(id) \/ Row!Acknowledge(id) \/ Row!Reactivate(id)
        PROVE  Final
    BY <2>1 DEF Row!Raise, Row!Acknowledge, Row!Reactivate, RowInv, Row!TypeOK, statusBar
  <2>2. ASSUME NEW id \in Ids, Row!Clear(id) \/ Row!Delete(id) PROVE Final
    BY <2>2 DEF Row!Clear, Row!Delete, RowInv, Row!TypeOK, statusBar
  <2> QED
    BY <2>1, <2>2 DEF Row!Next
<1>2. Row!Spec => []RowInv
  BY RowInit, RowNext, PTL DEF Row!Spec
<1>3. Row!Spec => Row!ClearedIsFinal
  BY <1>1, <1>2, PTL DEF Row!Spec, Row!ClearedIsFinal, statusBar
<1> QED
  BY <1>3, RowLifecycleHolds, PTL DEF RowLifecycle

=============================================================================
