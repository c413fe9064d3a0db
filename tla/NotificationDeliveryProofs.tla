--------------------- MODULE NotificationDeliveryProofs ---------------------
(***************************************************************************)
(* Proofs about NotificationDelivery, for any number of workers, queue     *)
(* size and number of attempts: what the history says of a notification is *)
(* true, and a channel is not tried more often than the configured         *)
(* attempts, the one overlapping first send and the faults allow.          *)
(***************************************************************************)
EXTENDS NotificationDelivery, TLAPS

(* Types *)

RowRecord ==
    [type: {"fire", "clear", "reminder"},
     status: {"pending", "sent", "failed", "retrying"},
     attempts: Nat, due: BOOLEAN, tried: Nat, made: BOOLEAN]

Places ==
    [pc: {"idle", "forget", "remember"}]
      \cup [pc: {"send"}, id: Nat, attempts: Nat]
      \cup [pc: {"record"}, id: Nat, attempts: Nat,
            status: {"sent", "failed", "retrying"}]

Delivering(a) == at[a].pc \in {"send", "record"}

Types ==
    /\ channel \in {"known", "unknown", "deleted"}
    /\ queue \in Seq({"fire", "clear"})
    /\ rows \in Seq(RowRecord)
    /\ at \in [Actors -> Places]
    /\ \A a \in Actors : Delivering(a) => at[a].id \in Ids
    /\ DOMAIN todo \subseteq Ids
    /\ \A id \in DOMAIN todo : todo[id] \in Nat
    /\ faults \in Nat

(* What is written down is true *)

\* Whoever counts attempts of a row, the row itself, the loop's list or a
\* copy, counts no more than were made, as long as the channel has a notifier.
CountsTrue ==
    channel = "known" =>
      /\ \A id \in Ids : rows[id].attempts <= rows[id].tried
      /\ \A id \in DOMAIN todo : todo[id] <= rows[id].tried
      /\ \A a \in Actors : Delivering(a) => at[a].attempts <= rows[at[a].id].tried

\* A copy that is about to be recorded says what happened.
CopiesTrue ==
    \A a \in Actors : at[a].pc = "record" =>
      /\ at[a].status = "sent" => rows[at[a].id].made
      /\ at[a].status = "failed" =>
           rows[at[a].id].tried >= MaxAttempts \/ channel # "known"

TruthInv == Types /\ CountsTrue /\ CopiesTrue /\ OutcomeTruthful

(* How often a channel is tried *)

\* The workers and the reminder worker deliver only rows they create.
Creators == Actors \ {"loop"}

RowsCount ==
    \A id \in Ids :
      /\ rows[id].attempts <= MaxAttempts
      /\ rows[id].status = "pending" => rows[id].attempts = 0
      /\ rows[id].status = "retrying" => rows[id].attempts < MaxAttempts

\* A row has one creator, which makes the first attempt only; until it has
\* recorded it nobody gets beyond the first, because the row is not due.
CreatorsCount ==
    \A a \in Creators : Delivering(a) =>
      LET id == at[a].id
      IN  /\ at[a].attempts = IF at[a].pc = "send" THEN 0 ELSE 1
          /\ at[a].pc = "record" /\ at[a].status = "retrying" => 1 < MaxAttempts
          /\ \A b \in Creators : Delivering(b) /\ at[b].id = id => b = a
          /\ rows[id].attempts <= 1
          /\ rows[id].status = "retrying" => ~rows[id].due
          /\ id \in DOMAIN todo => todo[id] = 0
          /\ Delivering("loop") /\ at["loop"].id = id =>
               at["loop"].attempts = IF at["loop"].pc = "send" THEN 0 ELSE 1

\* What the loop has read is not ahead of the row, and leaves an attempt.
LoopCounts ==
    /\ \A id \in DOMAIN todo : todo[id] <= rows[id].attempts /\ todo[id] < MaxAttempts
    /\ Delivering("loop") =>
         LET c == at["loop"]
         IN  /\ c.id \notin DOMAIN todo
             /\ c.pc = "send" => /\ c.attempts <= rows[c.id].attempts
                                 /\ c.attempts < MaxAttempts
             /\ c.pc = "record" => /\ c.attempts <= rows[c.id].attempts + 1
                                   /\ c.attempts <= MaxAttempts
                                   /\ c.status = "retrying" => c.attempts < MaxAttempts

\* 1 whilst the first send of a row by its creator is still to come.
FirstSend(id) ==
    IF \E a \in Creators : at[a].pc = "send" /\ at[a].id = id THEN 1 ELSE 0

\* Sends made, and the first one to come, against a count of attempts.
Paid(id, count) == rows[id].tried + FirstSend(id) <= count + 1 + faults

SendsPaid ==
    \A id \in Ids :
      /\ id \in DOMAIN todo => Paid(id, todo[id])
      /\ Delivering("loop") /\ at["loop"].id = id => Paid(id, at["loop"].attempts)
      /\ ~(at["loop"].pc = "record" /\ at["loop"].id = id) => Paid(id, rows[id].attempts)

BoundInv == Types /\ RowsCount /\ CreatorsCount /\ LoopCounts /\ SendsPaid

-----------------------------------------------------------------------------
(* Rows and places *)

LEMMA RowReplaced ==
    ASSUME rows \in Seq(RowRecord), NEW id \in Ids, NEW r \in RowRecord,
           rows' = [rows EXCEPT ![id] = r]
    PROVE  /\ rows' \in Seq(RowRecord)
           /\ Ids' = Ids
           /\ rows'[id] = r
           /\ \A i \in Ids \ {id} : rows'[i] = rows[i]
BY DEF Ids

LEMMA RowAppended ==
    ASSUME rows \in Seq(RowRecord), NEW r \in RowRecord, rows' = Append(rows, r)
    PROVE  /\ rows' \in Seq(RowRecord)
           /\ Len(rows) \in Nat /\ Len(rows) + 1 \notin Ids
           /\ Ids' = Ids \cup {Len(rows) + 1}
           /\ rows'[Len(rows) + 1] = r
           /\ \A i \in Ids : rows'[i] = rows[i]
BY DEF Ids

\* A row after one more send.
AfterSend(r, ok) == [r EXCEPT !.tried = r.tried + 1, !.made = r.made \/ ok]

LEMMA RowTried ==
    ASSUME NEW r \in RowRecord, NEW ok \in BOOLEAN,
           NEW n, n = AfterSend(r, ok)
    PROVE  /\ n \in RowRecord
           /\ n.tried = r.tried + 1 /\ (n.made <=> r.made \/ ok)
           /\ n.status = r.status /\ n.attempts = r.attempts /\ n.due = r.due
<1>1. PICK m \in BOOLEAN : m = (r.made \/ ok)
  OBVIOUS
<1>2. PICK p : p = [r EXCEPT !.tried = r.tried + 1]
  OBVIOUS
<1>3. p \in RowRecord /\ p.tried = r.tried + 1
  BY <1>2 DEF RowRecord
<1>4. p.status = r.status /\ p.attempts = r.attempts /\ p.due = r.due
  BY <1>2 DEF RowRecord
<1>5. n = [p EXCEPT !.made = m]
  BY <1>1, <1>2 DEF AfterSend
<1>6. n \in RowRecord
  BY <1>1, <1>3, <1>5 DEF RowRecord
<1>7. n.made = m
  BY <1>3, <1>5 DEF RowRecord
<1>8. /\ n.tried = p.tried /\ n.status = p.status /\ n.attempts = p.attempts
      /\ n.due = p.due
  BY <1>3, <1>5 DEF RowRecord
<1> QED
  BY <1>1, <1>3, <1>4, <1>6, <1>7, <1>8

LEMMA SendRow ==
    ASSUME Types, NEW a \in Actors, NEW ok \in BOOLEAN, Send(a, ok)
    PROVE  LET id == at[a].id
           IN  /\ rows' \in Seq(RowRecord)
               /\ Ids' = Ids
               /\ id \in Ids
               /\ rows'[id].tried = rows[id].tried + 1
               /\ rows'[id].made <=> rows[id].made \/ ok
               /\ rows'[id].status = rows[id].status
               /\ rows'[id].attempts = rows[id].attempts
               /\ rows'[id].due = rows[id].due
               /\ \A i \in Ids \ {id} : rows'[i] = rows[i]
<1>1. PICK id \in Ids : id = at[a].id
  BY DEF Types, Send, Delivering
<1>2. PICK r \in RowRecord : r = rows[id]
  BY DEF Types, Ids
<1>3. PICK n : n = AfterSend(r, ok)
  OBVIOUS
<1>4. rows' = [rows EXCEPT ![id] = n]
  BY <1>1, <1>2, <1>3 DEF Send, AfterSend
<1>5. /\ n \in RowRecord
      /\ n.tried = r.tried + 1 /\ (n.made <=> r.made \/ ok)
      /\ n.status = r.status /\ n.attempts = r.attempts /\ n.due = r.due
  BY <1>2, <1>3, RowTried
<1>6. /\ rows' \in Seq(RowRecord)
      /\ Ids' = Ids
      /\ rows'[id] = n
      /\ \A i \in Ids \ {id} : rows'[i] = rows[i]
  BY <1>1, <1>4, <1>5, RowReplaced DEF Types
<1> QED
  BY <1>1, <1>2, <1>5, <1>6

LEMMA PlaceTaken ==
    ASSUME at \in [Actors -> Places], NEW a \in Actors, NEW x \in Places,
           at' = [at EXCEPT ![a] = x]
    PROVE  /\ at' \in [Actors -> Places]
           /\ at'[a] = x
           /\ \A b \in Actors \ {a} : at'[b] = at[b]
OBVIOUS

LEMMA RestingPlaces ==
    /\ Idle \in Places /\ Idle.pc = "idle"
    /\ [pc |-> "forget"] \in Places /\ [pc |-> "remember"] \in Places
BY DEF Idle, Places

LEMMA ActorsKnown ==
    /\ "loop" \in Actors /\ "reminder" \in Creators
    /\ Workers \subseteq Creators /\ Creators \subseteq Actors
    /\ "loop" \notin Creators /\ "loop" \notin Workers /\ "reminder" \notin Workers
BY DeliveryAssumption DEF Actors, Creators

-----------------------------------------------------------------------------
(* What a step does to rows, places, the loop's list and the faults *)

OthersStay(a) == \A b \in Actors \ {a} : at'[b] = at[b]

Rests(a) == at'[a].pc \notin {"send", "record"}

Creates(a) ==
    /\ ~ Delivering(a)
    /\ LET n == Len(rows) + 1
       IN  /\ n \notin Ids /\ Ids' = Ids \cup {n}
           /\ \A i \in Ids : rows'[i] = rows[i]
           /\ rows'[n].status = "pending" /\ rows'[n].attempts = 0 /\ rows'[n].tried = 0
           /\ at'[a].pc = "send" /\ at'[a].id = n /\ at'[a].attempts = 0
    /\ OthersStay(a)
    /\ UNCHANGED <<todo, faults, channel>>

Moves(a) ==
    /\ ~ Delivering(a)
    /\ Rests(a) /\ OthersStay(a)
    /\ faults' \in {faults, faults + 1}
    /\ UNCHANGED <<rows, todo, channel>>

Tries(a, ok) ==
    /\ at[a].pc = "send"
    /\ LET id == at[a].id
       IN  /\ Ids' = Ids
           /\ \A i \in Ids \ {id} : rows'[i] = rows[i]
           /\ rows'[id].tried = rows[id].tried + 1
           /\ rows'[id].made <=> rows[id].made \/ ok
           /\ rows'[id].status = rows[id].status
           /\ rows'[id].attempts = rows[id].attempts
           /\ rows'[id].due = rows[id].due
           /\ at'[a].pc = "record" /\ at'[a].id = id
           /\ at'[a].attempts = at[a].attempts + 1
           /\ at'[a].status = Outcome(at[a].attempts + 1, ok)
    /\ OthersStay(a)
    /\ UNCHANGED <<todo, faults, channel>>

FindsNoNotifier(a) ==
    /\ at[a].pc = "send" /\ channel = "unknown"
    /\ at'[a].pc = "record" /\ at'[a].id = at[a].id
    /\ at'[a].attempts = at[a].attempts + 1
    /\ at'[a].status = "failed"
    /\ OthersStay(a)
    /\ UNCHANGED <<rows, todo, faults, channel>>

Writes(a) ==
    /\ at[a].pc = "record"
    /\ LET id == at[a].id
       IN  /\ Ids' = Ids
           /\ \A i \in Ids \ {id} : rows'[i] = rows[i]
           /\ rows'[id].status = at[a].status
           /\ rows'[id].attempts = at[a].attempts
           /\ at[a].status = "retrying" => ~ rows'[id].due
           /\ rows'[id].tried = rows[id].tried
           /\ rows'[id].made <=> rows[id].made
    /\ Rests(a) /\ OthersStay(a)
    /\ UNCHANGED <<todo, faults, channel>>

Loses(a) ==
    /\ at[a].pc = "record"
    /\ Rests(a) /\ OthersStay(a)
    /\ faults' = faults + 1
    /\ UNCHANGED <<rows, todo, channel>>

Lists ==
    /\ ~ Delivering("loop") /\ DOMAIN todo = {}
    /\ DOMAIN todo' = GetPendingNotifications
    /\ \A id \in DOMAIN todo' : todo'[id] = rows[id].attempts
    /\ UNCHANGED <<rows, at, faults, channel>>

Reaches(id) ==
    /\ ~ Delivering("loop") /\ id \in DOMAIN todo
    /\ DOMAIN todo' = DOMAIN todo \ {id}
    /\ \A i \in DOMAIN todo' : todo'[i] = todo[i]
    /\ \/ UNCHANGED at
       \/ /\ at'["loop"].pc = "send" /\ at'["loop"].id = id
          /\ at'["loop"].attempts = todo[id]
          /\ OthersStay("loop")
    /\ UNCHANGED <<rows, faults, channel>>

Ripens(id) ==
    /\ \A a \in Creators : Delivering(a) => at[a].id # id
    /\ Ids' = Ids
    /\ \A i \in Ids \ {id} : rows'[i] = rows[i]
    /\ rows'[id].status = rows[id].status
    /\ rows'[id].attempts = rows[id].attempts
    /\ rows'[id].tried = rows[id].tried
    /\ rows'[id].made <=> rows[id].made
    /\ UNCHANGED <<at, todo, faults, channel>>

Restarts ==
    /\ faults' = faults + 1
    /\ \A a \in Actors : Rests(a)
    /\ DOMAIN todo' = {}
    /\ UNCHANGED <<rows, channel>>

Quiet ==
    /\ channel' \in {channel, "deleted"}
    /\ UNCHANGED <<rows, at, todo, faults>>

\* All of Types but the queue.
StoresOK ==
    /\ channel \in {"known", "unknown", "deleted"}
    /\ rows \in Seq(RowRecord)
    /\ at \in [Actors -> Places]
    /\ \A a \in Actors : Delivering(a) => at[a].id \in Ids
    /\ DOMAIN todo \subseteq Ids
    /\ \A id \in DOMAIN todo : todo[id] \in Nat
    /\ faults \in Nat

LEMMA MoveKind ==
    ASSUME Types, NEW a \in Actors, ~ Delivering(a),
           NEW x \in Places, x.pc \notin {"send", "record"},
           at' = [at EXCEPT ![a] = x], faults' \in {faults, faults + 1},
           UNCHANGED <<rows, todo, channel>>
    PROVE  Moves(a) /\ StoresOK'
<1>1. /\ at' \in [Actors -> Places]
      /\ at'[a] = x
      /\ \A b \in Actors \ {a} : at'[b] = at[b]
  BY PlaceTaken DEF Types
<1>2. Ids' = Ids
  BY DEF Ids
<1>3. Moves(a)
  BY <1>1 DEF Moves, Rests, OthersStay
<1>4. \A b \in Actors : Delivering(b)' => at'[b].id \in Ids'
  BY <1>1, <1>2 DEF Types, Delivering
<1>5. faults' \in Nat
  BY DEF Types
<1> QED
  BY <1>1, <1>2, <1>3, <1>4, <1>5 DEF Types, StoresOK

LEMMA CreateKind ==
    ASSUME Types, NEW a \in Creators, at[a] = Idle,
           NEW type \in {"fire", "clear", "reminder"},
           NEW x \in Places, x.pc \notin {"send", "record"},
           CreateRow(a, type, x), UNCHANGED <<todo, channel>>
    PROVE  (Creates(a) \/ Moves(a)) /\ StoresOK'
<1>0. ~ Delivering(a) /\ a \in Actors
  BY RestingPlaces, ActorsKnown DEF Delivering
<1>1. CASE /\ rows' = Append(rows, Created(type))
           /\ at' = [at EXCEPT ![a] = Copy(Len(rows) + 1, 0)]
           /\ UNCHANGED faults
  <2>1. PICK r : r = Created(type)
    OBVIOUS
  <2>2. r \in RowRecord
    BY <2>1 DEF Created, RowRecord
  <2>3. r.status = "pending" /\ r.attempts = 0 /\ r.tried = 0
    BY <2>1 DEF Created
  <2>4. /\ rows' \in Seq(RowRecord)
        /\ Len(rows) \in Nat /\ Len(rows) + 1 \notin Ids
        /\ Ids' = Ids \cup {Len(rows) + 1}
        /\ rows'[Len(rows) + 1] = r
        /\ \A i \in Ids : rows'[i] = rows[i]
    BY <1>1, <2>1, <2>2, RowAppended DEF Types
  <2>5. PICK c : c = Copy(Len(rows) + 1, 0)
    OBVIOUS
  <2>6. c \in Places /\ c.pc = "send" /\ c.id = Len(rows) + 1 /\ c.attempts = 0
    BY <2>4, <2>5 DEF Copy, Places
  <2>7. /\ at' \in [Actors -> Places]
        /\ at'[a] = c
        /\ \A b \in Actors \ {a} : at'[b] = at[b]
    BY <1>0, <1>1, <2>5, <2>6, PlaceTaken DEF Types
  <2>8. Creates(a)
    BY <1>0, <1>1, <2>3, <2>4, <2>6, <2>7 DEF Creates, OthersStay
  <2>9. \A b \in Actors : Delivering(b)' => at'[b].id \in Ids'
    BY <2>4, <2>6, <2>7 DEF Types, Delivering
  <2> QED
    BY <1>1, <2>4, <2>7, <2>8, <2>9 DEF Types, StoresOK
<1>2. CASE /\ at' = [at EXCEPT ![a] = x]
           /\ faults' = faults + 1
           /\ UNCHANGED rows
  BY <1>0, <1>2, MoveKind
<1> QED
  BY <1>1, <1>2 DEF CreateRow

LEMMA CopyShape ==
    ASSUME Types, NEW a \in Actors
    PROVE  /\ Delivering(a) => at[a].id \in Ids /\ at[a].attempts \in Nat
           /\ at[a].pc = "record" => at[a].status \in {"sent", "failed", "retrying"}
<1>1. at[a] \in Places /\ (Delivering(a) => at[a].id \in Ids)
  BY DEF Types
<1> QED
  BY <1>1 DEF Places, Delivering

\* A copy that is about to be recorded.
LEMMA ToRecord ==
    ASSUME NEW id \in Nat, NEW n \in Nat, NEW st \in {"sent", "failed", "retrying"},
           NEW x, x = [pc |-> "record", id |-> id, attempts |-> n, status |-> st]
    PROVE  /\ x \in Places
           /\ x.pc = "record" /\ x.id = id /\ x.attempts = n /\ x.status = st
BY DEF Places

LEMMA SendKind ==
    ASSUME Types, NEW a \in Actors, NEW ok \in BOOLEAN, Send(a, ok)
    PROVE  Tries(a, ok) /\ StoresOK'
<1>1. PICK id \in Ids : id = at[a].id
  BY DEF Types, Send, Delivering
<1>2. PICK k \in Nat : k = at[a].attempts
  BY CopyShape DEF Send, Delivering
<1>3. PICK st : st = Outcome(k + 1, ok) /\ st \in {"sent", "failed", "retrying"}
  BY DEF Outcome
<1>4. PICK x : x = [pc |-> "record", id |-> id, attempts |-> k + 1, status |-> st]
  OBVIOUS
<1>5. id \in Nat
  BY DEF Types, Ids
<1>6. /\ x \in Places
      /\ x.pc = "record" /\ x.id = id /\ x.attempts = k + 1 /\ x.status = st
  BY <1>2, <1>3, <1>4, <1>5, ToRecord
<1>7. at' = [at EXCEPT ![a] = x]
  BY <1>1, <1>2, <1>3, <1>4 DEF Send
<1>8. /\ at' \in [Actors -> Places]
      /\ at'[a] = x
      /\ \A b \in Actors \ {a} : at'[b] = at[b]
  BY <1>6, <1>7, PlaceTaken DEF Types
<1>9. /\ rows' \in Seq(RowRecord)
      /\ Ids' = Ids
      /\ rows'[id].tried = rows[id].tried + 1
      /\ rows'[id].made <=> rows[id].made \/ ok
      /\ rows'[id].status = rows[id].status
      /\ rows'[id].attempts = rows[id].attempts
      /\ rows'[id].due = rows[id].due
      /\ \A i \in Ids \ {id} : rows'[i] = rows[i]
  BY <1>1, SendRow
<1>10. at[a].pc = "send" /\ UNCHANGED <<todo, faults, channel>>
  BY DEF Send
<1>11. Tries(a, ok)
  BY <1>1, <1>2, <1>3, <1>6, <1>8, <1>9, <1>10 DEF Tries, OthersStay
<1>12. \A b \in Actors : Delivering(b)' => at'[b].id \in Ids'
  BY <1>1, <1>6, <1>8, <1>9 DEF Types, Delivering
<1> QED
  BY <1>8, <1>9, <1>10, <1>11, <1>12 DEF Types, StoresOK

LEMMA UnknownKind ==
    ASSUME Types, NEW a \in Actors, SendUnknown(a)
    PROVE  FindsNoNotifier(a) /\ StoresOK'
<1>1. PICK id \in Ids : id = at[a].id
  BY DEF Types, SendUnknown, Delivering
<1>2. PICK k \in Nat : k = at[a].attempts
  BY CopyShape DEF SendUnknown, Delivering
<1>3. PICK x : x = [pc |-> "record", id |-> id, attempts |-> k + 1, status |-> "failed"]
  OBVIOUS
<1>4. id \in Nat /\ Ids' = Ids
  BY DEF Types, Ids, SendUnknown
<1>5. /\ x \in Places
      /\ x.pc = "record" /\ x.id = id /\ x.attempts = k + 1 /\ x.status = "failed"
  BY <1>2, <1>3, <1>4, ToRecord
<1>6. at' = [at EXCEPT ![a] = x]
  BY <1>1, <1>2, <1>3 DEF SendUnknown
<1>7. /\ at' \in [Actors -> Places]
      /\ at'[a] = x
      /\ \A b \in Actors \ {a} : at'[b] = at[b]
  BY <1>5, <1>6, PlaceTaken DEF Types
<1>8. /\ at[a].pc = "send" /\ channel = "unknown"
      /\ UNCHANGED <<rows, todo, faults, channel>>
  BY DEF SendUnknown
<1>9. FindsNoNotifier(a)
  BY <1>1, <1>2, <1>5, <1>7, <1>8 DEF FindsNoNotifier, OthersStay
<1>10. \A b \in Actors : Delivering(b)' => at'[b].id \in Ids'
  BY <1>1, <1>4, <1>5, <1>7 DEF Types, Delivering
<1> QED
  BY <1>4, <1>7, <1>8, <1>9, <1>10 DEF Types, StoresOK

\* The row after its update.
LEMMA RowUpdated ==
    ASSUME NEW r \in RowRecord, NEW c, c.attempts \in Nat,
           c.status \in {"sent", "failed", "retrying"},
           NEW n, n = UpdateNotificationHistory(r, c)
    PROVE  /\ n \in RowRecord
           /\ n.status = c.status /\ n.attempts = c.attempts
           /\ c.status = "retrying" => ~ n.due
           /\ n.tried = r.tried
           /\ n.made <=> r.made
<1>1. PICK d \in BOOLEAN : d = (c.status # "retrying")
  OBVIOUS
<1>2. PICK p : p = [[r EXCEPT !.status = c.status] EXCEPT !.attempts = c.attempts]
  OBVIOUS
<1>3. p \in RowRecord /\ p.status = c.status /\ p.attempts = c.attempts
  BY <1>2 DEF RowRecord
<1>4. p.tried = r.tried /\ p.made = r.made
  BY <1>2 DEF RowRecord
<1>5. n = [p EXCEPT !.due = d]
  BY <1>1, <1>2 DEF UpdateNotificationHistory
<1>6. n \in RowRecord
  BY <1>1, <1>3, <1>5 DEF RowRecord
<1>7. n.due = d
  BY <1>3, <1>5 DEF RowRecord
<1>8. /\ n.tried = p.tried /\ n.status = p.status /\ n.attempts = p.attempts
      /\ n.made = p.made
  BY <1>3, <1>5 DEF RowRecord
<1> QED
  BY <1>1, <1>3, <1>4, <1>6, <1>7, <1>8

LEMMA RecordKind ==
    ASSUME Types, NEW a \in Actors, Record(a)
    PROVE  (Writes(a) \/ Loses(a)) /\ StoresOK'
<1>1. PICK c : c = at[a]
  OBVIOUS
<1>2. /\ at[a].pc = "record" /\ c.id \in Ids /\ c.attempts \in Nat
      /\ c.status \in {"sent", "failed", "retrying"}
  BY <1>1, CopyShape DEF Record, Delivering
<1>3. PICK x : x = AfterRecord(a, c)
  OBVIOUS
<1>4. x \in Places /\ x.pc \notin {"send", "record"}
  BY <1>3, RestingPlaces DEF AfterRecord
<1>5. /\ at' \in [Actors -> Places]
      /\ at'[a] = x
      /\ \A b \in Actors \ {a} : at'[b] = at[b]
  <2>1. at' = [at EXCEPT ![a] = x]
    BY <1>1, <1>3 DEF Record
  <2> QED
    BY <1>4, <2>1, PlaceTaken DEF Types
<1>6. Rests(a) /\ OthersStay(a)
  BY <1>4, <1>5 DEF Rests, OthersStay
<1>7. UNCHANGED <<todo, channel>>
  BY DEF Record
<1>8. \A b \in Actors : Delivering(b)' => b # a /\ at'[b] = at[b] /\ at'[b].id \in Ids
  BY <1>4, <1>5 DEF Types, Delivering
<1>9. CASE rows' = [rows EXCEPT ![c.id] = UpdateNotificationHistory(@, c)] /\ UNCHANGED faults
  <2>1. PICK id \in Ids : id = c.id
    BY <1>2
  <2>2. PICK r \in RowRecord : r = rows[id]
    BY DEF Types, Ids
  <2>3. PICK n : n = UpdateNotificationHistory(r, c)
    OBVIOUS
  <2>4. /\ n \in RowRecord
        /\ n.status = c.status /\ n.attempts = c.attempts
        /\ c.status = "retrying" => ~ n.due
        /\ n.tried = r.tried
        /\ n.made <=> r.made
    BY <1>2, <2>2, <2>3, RowUpdated
  <2>5. /\ rows' \in Seq(RowRecord)
        /\ Ids' = Ids
        /\ rows'[id] = n
        /\ \A i \in Ids \ {id} : rows'[i] = rows[i]
    <3>1. rows' = [rows EXCEPT ![id] = n]
      BY <1>9, <2>1, <2>2, <2>3
    <3> QED
      BY <2>1, <2>4, <3>1, RowReplaced DEF Types
  <2>6. Writes(a)
    BY <1>1, <1>2, <1>6, <1>7, <1>9, <2>1, <2>2, <2>4, <2>5 DEF Writes
  <2> QED
    BY <1>5, <1>7, <1>8, <1>9, <2>5, <2>6 DEF Types, StoresOK
<1>10. CASE faults' = faults + 1 /\ UNCHANGED rows
  <2>1. Loses(a)
    BY <1>2, <1>6, <1>7, <1>10 DEF Loses
  <2>2. Ids' = Ids /\ faults' \in Nat
    BY <1>10 DEF Ids, Types
  <2> QED
    BY <1>5, <1>7, <1>8, <1>10, <2>1, <2>2 DEF Types, StoresOK
<1> QED
  BY <1>1, <1>9, <1>10 DEF Record

LEMMA ListKind ==
    ASSUME Types, LoopRead
    PROVE  Lists /\ StoresOK'
<1>1. ~ Delivering("loop") /\ DOMAIN todo = {}
  BY RestingPlaces DEF LoopRead, Delivering
<1>2. PICK P : P = GetPendingNotifications /\ P \subseteq Ids
  BY DEF GetPendingNotifications
<1>3. todo' = [id \in P |-> rows[id].attempts] /\ UNCHANGED <<rows, at, faults, channel>>
  BY <1>2 DEF LoopRead
<1>4. DOMAIN todo' = P /\ \A id \in P : todo'[id] = rows[id].attempts
  BY <1>3
<1>5. Lists
  BY <1>1, <1>2, <1>3, <1>4 DEF Lists
<1>6. Ids' = Ids
  BY <1>3 DEF Ids
<1>7. \A id \in P : rows[id].attempts \in Nat
  <2>1. \A id \in P : rows[id] \in RowRecord
    BY <1>2 DEF Types, Ids
  <2> QED
    BY <2>1 DEF RowRecord
<1>8. \A b \in Actors : Delivering(b)' => at'[b].id \in Ids'
  BY <1>3, <1>6 DEF Types, Delivering
<1> QED
  BY <1>2, <1>3, <1>4, <1>5, <1>6, <1>7, <1>8 DEF Types, StoresOK

LEMMA ReachKind ==
    ASSUME Types, NEW id \in Ids, LoopNext(id)
    PROVE  Reaches(id) /\ StoresOK'
<1>1. ~ Delivering("loop") /\ id \in DOMAIN todo /\ UNCHANGED <<rows, faults, channel>>
  BY RestingPlaces DEF LoopNext, Delivering
<1>2. todo' = [i \in DOMAIN todo \ {id} |-> todo[i]]
  BY DEF LoopNext, Reached
<1>3. DOMAIN todo' = DOMAIN todo \ {id} /\ \A i \in DOMAIN todo' : todo'[i] = todo[i]
  BY <1>2
<1>4. Ids' = Ids
  BY <1>1 DEF Ids
<1>5. DOMAIN todo' \subseteq Ids' /\ \A i \in DOMAIN todo' : todo'[i] \in Nat
  BY <1>3, <1>4 DEF Types
<1>6. CASE UNCHANGED at
  <2>1. \A b \in Actors : Delivering(b)' => at'[b].id \in Ids'
    BY <1>4, <1>6 DEF Types, Delivering
  <2> QED
    BY <1>1, <1>3, <1>5, <1>6, <2>1 DEF Types, StoresOK, Reaches
<1>7. CASE at' = [at EXCEPT !["loop"] = Copy(id, todo[id])]
  <2>1. PICK c : c = Copy(id, todo[id])
    OBVIOUS
  <2>2. id \in Nat /\ todo[id] \in Nat
    BY <1>1 DEF Types, Ids
  <2>3. c \in Places /\ c.pc = "send" /\ c.id = id /\ c.attempts = todo[id]
    BY <2>1, <2>2 DEF Copy, Places
  <2>4. /\ at' \in [Actors -> Places]
        /\ at'["loop"] = c
        /\ \A b \in Actors \ {"loop"} : at'[b] = at[b]
    BY <1>7, <2>1, <2>3, PlaceTaken, ActorsKnown DEF Types
  <2>5. \A b \in Actors : Delivering(b)' => at'[b].id \in Ids'
    BY <1>4, <2>3, <2>4 DEF Types, Delivering
  <2> QED
    BY <1>1, <1>3, <1>5, <2>3, <2>4, <2>5 DEF Types, StoresOK, Reaches, OthersStay
<1> QED
  BY <1>6, <1>7 DEF LoopNext

LEMMA RipenKind ==
    ASSUME Types, NEW id \in Ids, BackoffEnds(id)
    PROVE  Ripens(id) /\ StoresOK'
<1>1. PICK r \in RowRecord : r = rows[id]
  BY DEF Types, Ids
<1>2. PICK n : n = [r EXCEPT !.due = TRUE]
  OBVIOUS
<1>3. n \in RowRecord
  BY <1>2 DEF RowRecord
<1>4. /\ n.status = r.status /\ n.attempts = r.attempts /\ n.tried = r.tried
      /\ n.made = r.made
  BY <1>2 DEF RowRecord
<1>5. rows' = [rows EXCEPT ![id] = n]
  BY <1>1, <1>2 DEF BackoffEnds
<1>6. /\ rows' \in Seq(RowRecord)
      /\ Ids' = Ids
      /\ rows'[id] = n
      /\ \A i \in Ids \ {id} : rows'[i] = rows[i]
  BY <1>3, <1>5, RowReplaced DEF Types
<1>7. UNCHANGED <<at, todo, faults, channel>>
  BY DEF BackoffEnds
<1>8. \A a \in Creators : Delivering(a) => at[a].id # id
  BY DEF BackoffEnds, Creators, Delivering
<1>9. Ripens(id)
  BY <1>1, <1>4, <1>6, <1>7, <1>8 DEF Ripens
<1>10. \A b \in Actors : Delivering(b)' => at'[b].id \in Ids'
  BY <1>6, <1>7 DEF Types, Delivering
<1> QED
  BY <1>6, <1>7, <1>9, <1>10 DEF Types, StoresOK

LEMMA RestartKind ==
    ASSUME Types, Restart
    PROVE  Restarts /\ StoresOK'
<1>1. /\ faults' = faults + 1 /\ at' = [a \in Actors |-> Idle]
      /\ todo' = <<>> /\ UNCHANGED <<rows, channel>>
  BY DEF Restart
<1>2. DOMAIN todo' = {} /\ Ids' = Ids /\ faults' \in Nat
  BY <1>1 DEF Ids, Types
<1>3. at' \in [Actors -> Places] /\ \A a \in Actors : at'[a].pc = "idle"
  BY <1>1, RestingPlaces
<1> QED
  BY <1>1, <1>2, <1>3 DEF Restarts, Rests, Delivering, Types, StoresOK

LEMMA QuietKind ==
    ASSUME Types, Quiet
    PROVE  StoresOK'
<1>1. Ids' = Ids /\ channel' \in {"known", "unknown", "deleted"}
  BY DEF Quiet, Ids, Types
<1>2. \A b \in Actors : Delivering(b)' => at'[b].id \in Ids'
  BY <1>1 DEF Types, Delivering, Quiet
<1> QED
  BY <1>1, <1>2 DEF Types, StoresOK, Quiet

LEMMA QueueStep ==
    ASSUME Types, [Next]_vars
    PROVE  queue' \in Seq({"fire", "clear"})
<1>1. queue \in Seq({"fire", "clear"})
  BY DEF Types
<1>2. \A t \in {"fire", "clear"} : Submit(t) \in Seq({"fire", "clear"})
  BY <1>1 DEF Submit
<1>3. queue # <<>> => Tail(queue) \in Seq({"fire", "clear"})
  BY <1>1
<1>4. <<>> \in Seq({"fire", "clear"})
  OBVIOUS
<1>5. \/ queue' = queue
      \/ queue' = Submit("fire") \/ queue' = Submit("clear")
      \/ queue # <<>> /\ queue' = Tail(queue)
      \/ queue' = <<>>
  BY DEF Next, vars, Raise, Clear, Worker, TakeJob, Deliver, Send, SendUnknown, Record,
    Forget, Loop, LoopRead, LoopNext, Reminder, Remind, Remember, BackoffEnds,
    ReminderDue, Restart, DeleteAlert, DeleteChannel
<1> QED
  BY <1>1, <1>2, <1>3, <1>4, <1>5

\* Every step is of one of these kinds.
Kinds ==
    \/ \E a \in Creators : Creates(a) \/ Moves(a)
    \/ \E a \in Actors : \/ \E ok \in BOOLEAN : Tries(a, ok)
                         \/ FindsNoNotifier(a) \/ Writes(a) \/ Loses(a)
    \/ Lists
    \/ \E id \in Ids : Reaches(id) \/ Ripens(id)
    \/ Restarts
    \/ Quiet

LEMMA StepKinds ==
    ASSUME Types, [Next]_vars
    PROVE  Kinds /\ Types'
<1> SUFFICES Kinds /\ StoresOK'
  BY QueueStep DEF StoresOK, Types
<1>1. ASSUME NEW a \in Actors, Deliver(a) PROVE Kinds /\ StoresOK'
  BY <1>1, SendKind, UnknownKind, RecordKind DEF Deliver, Kinds
<1>2. ASSUME NEW w \in Workers, TakeJob(w) PROVE Kinds /\ StoresOK'
  <2>1. PICK x : x = IF Head(queue) = "clear" THEN [pc |-> "forget"] ELSE Idle
    OBVIOUS
  <2>2. x \in Places /\ x.pc \notin {"send", "record"}
    BY <2>1, RestingPlaces
  <2>3. Head(queue) \in {"fire", "clear", "reminder"}
    BY <1>2 DEF TakeJob, Types
  <2>4. w \in Creators /\ w \in Actors /\ at[w] = Idle /\ ~ Delivering(w)
    BY <1>2, ActorsKnown, RestingPlaces DEF TakeJob, Delivering
  <2>5. UNCHANGED <<todo, channel>>
    BY <1>2 DEF TakeJob
  <2>6. CASE CreateRow(w, Head(queue), x)
    BY <2>2, <2>3, <2>4, <2>5, <2>6, CreateKind DEF Kinds
  <2>7. CASE at' = [at EXCEPT ![w] = x] /\ UNCHANGED <<rows, faults>>
    BY <2>2, <2>4, <2>5, <2>7, MoveKind DEF Kinds
  <2> QED
    BY <1>2, <2>1, <2>6, <2>7 DEF TakeJob
<1>3. ASSUME NEW w \in Workers, Forget(w) PROVE Kinds /\ StoresOK'
  <2>1. w \in Creators /\ w \in Actors /\ ~ Delivering(w)
    BY <1>3, ActorsKnown DEF Forget, Delivering
  <2>2. /\ at' = [at EXCEPT ![w] = Idle] /\ faults' \in {faults, faults + 1}
        /\ UNCHANGED <<rows, todo, channel>>
    BY <1>3 DEF Forget
  <2> QED
    BY <2>1, <2>2, RestingPlaces, MoveKind DEF Kinds
<1>4. ASSUME Remember PROVE Kinds /\ StoresOK'
  <2>1. "reminder" \in Creators /\ "reminder" \in Actors /\ ~ Delivering("reminder")
    BY <1>4, ActorsKnown DEF Remember, Delivering
  <2>2. /\ at' = [at EXCEPT !["reminder"] = Idle] /\ faults' \in {faults, faults + 1}
        /\ UNCHANGED <<rows, todo, channel>>
    BY <1>4 DEF Remember
  <2> QED
    BY <2>1, <2>2, RestingPlaces, MoveKind DEF Kinds
<1>5. ASSUME Remind PROVE Kinds /\ StoresOK'
  <2>1. /\ at["reminder"] = Idle /\ CreateRow("reminder", "reminder", Idle)
        /\ UNCHANGED <<todo, channel>>
    BY <1>5 DEF Remind
  <2> QED
    BY <2>1, RestingPlaces, ActorsKnown, CreateKind DEF Kinds
<1>6. ASSUME Raise \/ Clear \/ ReminderDue \/ DeleteAlert \/ DeleteChannel \/ UNCHANGED vars
      PROVE  Kinds /\ StoresOK'
  <2>1. Quiet
    BY <1>6 DEF Raise, Clear, ReminderDue, DeleteAlert, DeleteChannel, vars, Quiet
  <2> QED
    BY <2>1, QuietKind DEF Kinds
<1>7. ASSUME LoopRead PROVE Kinds /\ StoresOK'
  BY <1>7, ListKind DEF Kinds
<1>8. ASSUME NEW id \in Ids, LoopNext(id) PROVE Kinds /\ StoresOK'
  BY <1>8, ReachKind DEF Kinds
<1>9. ASSUME NEW id \in Ids, BackoffEnds(id) PROVE Kinds /\ StoresOK'
  BY <1>9, RipenKind DEF Kinds
<1>10. ASSUME Restart PROVE Kinds /\ StoresOK'
  BY <1>10, RestartKind DEF Kinds
<1>11. Workers \subseteq Actors /\ "loop" \in Actors /\ "reminder" \in Actors
  BY ActorsKnown
<1> QED
  BY <1>1, <1>2, <1>3, <1>4, <1>5, <1>6, <1>7, <1>8, <1>9, <1>10, <1>11
    DEF Next, Worker, Loop, Reminder

LEMMA RowShape ==
    ASSUME Types, NEW id \in Ids
    PROVE  rows[id].attempts \in Nat /\ rows[id].tried \in Nat
<1>1. rows[id] \in RowRecord
  BY DEF Types, Ids
<1> QED
  BY <1>1 DEF RowRecord

-----------------------------------------------------------------------------
(* What the history says is true *)

\* Sends are only added, and a channel whose type is unknown, or that is
\* deleted, does not become known again.
LEMMA SendsGrow ==
    ASSUME Types, Kinds
    PROVE  /\ Ids \subseteq Ids'
           /\ \A id \in Ids : /\ rows'[id].tried >= rows[id].tried
                              /\ rows[id].made => rows'[id].made
           /\ channel' = "known" => channel = "known"
<1>0. \A id \in Ids : rows[id].tried \in Nat
  BY RowShape
<1>1. ASSUME UNCHANGED rows, channel' \in {channel, "deleted"}
      PROVE  /\ Ids \subseteq Ids'
             /\ \A id \in Ids : /\ rows'[id].tried >= rows[id].tried
                                /\ rows[id].made => rows'[id].made
             /\ channel' = "known" => channel = "known"
  BY <1>0, <1>1 DEF Ids
<1>2. ASSUME NEW a \in Creators, Creates(a)
      PROVE  /\ Ids \subseteq Ids'
             /\ \A id \in Ids : /\ rows'[id].tried >= rows[id].tried
                                /\ rows[id].made => rows'[id].made
             /\ channel' = "known" => channel = "known"
  BY <1>0, <1>2 DEF Creates
<1>3. ASSUME NEW k, Ids' = Ids, UNCHANGED channel,
             \A i \in Ids \ {k} : rows'[i] = rows[i],
             rows'[k].tried \in {rows[k].tried, rows[k].tried + 1},
             rows[k].made => rows'[k].made
      PROVE  /\ Ids \subseteq Ids'
             /\ \A id \in Ids : /\ rows'[id].tried >= rows[id].tried
                                /\ rows[id].made => rows'[id].made
             /\ channel' = "known" => channel = "known"
  <2>1. ASSUME NEW id \in Ids
        PROVE rows'[id].tried >= rows[id].tried /\ (rows[id].made => rows'[id].made)
    <3>1. CASE id = k
      BY <1>0, <1>3, <3>1
    <3>2. CASE id # k
      BY <1>0, <1>3, <3>2
    <3> QED
      BY <3>1, <3>2
  <2> QED
    BY <1>3, <2>1
<1>4. ASSUME NEW a \in Actors, NEW ok \in BOOLEAN, Tries(a, ok)
      PROVE  /\ Ids \subseteq Ids'
             /\ \A id \in Ids : /\ rows'[id].tried >= rows[id].tried
                                /\ rows[id].made => rows'[id].made
             /\ channel' = "known" => channel = "known"
  <2>1. PICK k : k = at[a].id
    OBVIOUS
  <2>2. /\ Ids' = Ids /\ UNCHANGED channel
        /\ \A i \in Ids \ {k} : rows'[i] = rows[i]
        /\ rows'[k].tried \in {rows[k].tried, rows[k].tried + 1}
        /\ rows[k].made => rows'[k].made
    BY <1>4, <2>1 DEF Tries
  <2> QED
    BY <1>3, <2>2
<1>5. ASSUME NEW a \in Actors, Writes(a)
      PROVE  /\ Ids \subseteq Ids'
             /\ \A id \in Ids : /\ rows'[id].tried >= rows[id].tried
                                /\ rows[id].made => rows'[id].made
             /\ channel' = "known" => channel = "known"
  <2>1. PICK k : k = at[a].id
    OBVIOUS
  <2>2. /\ Ids' = Ids /\ UNCHANGED channel
        /\ \A i \in Ids \ {k} : rows'[i] = rows[i]
        /\ rows'[k].tried \in {rows[k].tried, rows[k].tried + 1}
        /\ rows[k].made => rows'[k].made
    BY <1>5, <2>1 DEF Writes
  <2> QED
    BY <1>3, <2>2
<1>6. ASSUME NEW k \in Ids, Ripens(k)
      PROVE  /\ Ids \subseteq Ids'
             /\ \A id \in Ids : /\ rows'[id].tried >= rows[id].tried
                                /\ rows[id].made => rows'[id].made
             /\ channel' = "known" => channel = "known"
  <2>2. /\ Ids' = Ids /\ UNCHANGED channel
        /\ \A i \in Ids \ {k} : rows'[i] = rows[i]
        /\ rows'[k].tried \in {rows[k].tried, rows[k].tried + 1}
        /\ rows[k].made => rows'[k].made
    BY <1>6 DEF Ripens
  <2> QED
    BY <1>3, <2>2
<1>7. \/ UNCHANGED rows /\ channel' \in {channel, "deleted"}
      \/ \E a \in Creators : Creates(a)
      \/ \E a \in Actors : (\E ok \in BOOLEAN : Tries(a, ok)) \/ Writes(a)
      \/ \E id \in Ids : Ripens(id)
  BY DEF Kinds, Moves, FindsNoNotifier, Loses, Lists, Reaches, Restarts, Quiet
<1> QED
  BY <1>1, <1>2, <1>4, <1>5, <1>6, <1>7

LEMMA ShapesAfter ==
    ASSUME Types'
    PROVE  /\ \A id \in Ids' : rows'[id].attempts \in Nat /\ rows'[id].tried \in Nat
           /\ \A a \in Actors :
                Delivering(a)' => at'[a].id \in Ids' /\ at'[a].attempts \in Nat
           /\ DOMAIN todo' \subseteq Ids' /\ \A id \in DOMAIN todo' : todo'[id] \in Nat
           /\ faults' \in Nat
<1>1. \A id \in Ids' : rows'[id] \in RowRecord
  BY DEF Types, Ids
<1>2. \A id \in Ids' : rows'[id].attempts \in Nat /\ rows'[id].tried \in Nat
  BY <1>1 DEF RowRecord
<1>3. ASSUME NEW a \in Actors, Delivering(a)'
      PROVE  at'[a].id \in Ids' /\ at'[a].attempts \in Nat
  <2>1. at'[a] \in Places /\ at'[a].id \in Ids'
    BY <1>3 DEF Types
  <2> QED
    BY <1>3, <2>1 DEF Places, Delivering
<1> QED
  BY <1>2, <1>3 DEF Types

LEMMA TruthStep == TruthInv /\ [Next]_vars => TruthInv'
<1> SUFFICES ASSUME TruthInv, [Next]_vars PROVE TruthInv'
  OBVIOUS
<1>1. Types /\ CountsTrue /\ CopiesTrue /\ OutcomeTruthful /\ Kinds /\ Types'
  BY StepKinds DEF TruthInv
<1>2. /\ Ids \subseteq Ids'
      /\ \A id \in Ids : /\ rows'[id].tried >= rows[id].tried
                         /\ rows[id].made => rows'[id].made
      /\ channel' = "known" => channel = "known"
  BY <1>1, SendsGrow
<1>3. /\ \A id \in Ids : rows[id].attempts \in Nat /\ rows[id].tried \in Nat
      /\ \A id \in Ids' : rows'[id].attempts \in Nat /\ rows'[id].tried \in Nat
  BY <1>1, RowShape, ShapesAfter
<1>4. \A a \in Actors :
        /\ Delivering(a) => at[a].id \in Ids /\ at[a].attempts \in Nat
        /\ Delivering(a)' => at'[a].id \in Ids' /\ at'[a].attempts \in Nat
  BY <1>1, CopyShape, ShapesAfter
<1>5. /\ DOMAIN todo \subseteq Ids /\ \A id \in DOMAIN todo : todo[id] \in Nat
      /\ DOMAIN todo' \subseteq Ids' /\ \A id \in DOMAIN todo' : todo'[id] \in Nat
  BY <1>1 DEF Types
<1>6. MaxAttempts \in Nat
  BY DeliveryAssumption
\* What has not changed stays true as sends are added.
<1>7. ASSUME NEW a \in Actors, at'[a] = at[a]
      PROVE  /\ channel' = "known" /\ Delivering(a)' =>
                  at'[a].attempts <= rows'[at'[a].id].tried
             /\ at'[a].pc = "record" =>
                  /\ at'[a].status = "sent" => rows'[at'[a].id].made
                  /\ at'[a].status = "failed" =>
                       rows'[at'[a].id].tried >= MaxAttempts \/ channel' # "known"
  <2>1. CASE Delivering(a)
    <3>1. PICK k \in Ids : k = at[a].id
      BY <1>4, <2>1
    <3>2. /\ rows'[k].tried >= rows[k].tried /\ (rows[k].made => rows'[k].made)
          /\ rows[k].tried \in Nat /\ rows'[k].tried \in Nat /\ at[a].attempts \in Nat
      BY <1>2, <1>3, <1>4, <2>1
    <3>3. channel = "known" => at[a].attempts <= rows[k].tried
      BY <1>1, <2>1, <3>1 DEF CountsTrue
    <3>4. at[a].pc = "record" =>
            /\ at[a].status = "sent" => rows[k].made
            /\ at[a].status = "failed" => rows[k].tried >= MaxAttempts \/ channel # "known"
      BY <1>1, <3>1 DEF CopiesTrue
    <3> QED
      BY <1>2, <1>6, <1>7, <3>1, <3>2, <3>3, <3>4
  <2>2. CASE ~ Delivering(a)
    BY <1>7, <2>2 DEF Delivering
  <2> QED
    BY <2>1, <2>2
<1>8. ASSUME NEW id \in Ids, rows'[id].status = rows[id].status,
             rows'[id].attempts = rows[id].attempts
      PROVE  /\ channel' = "known" => rows'[id].attempts <= rows'[id].tried
             /\ rows'[id].status = "sent" => rows'[id].made
             /\ rows'[id].status = "failed" =>
                  rows'[id].tried >= MaxAttempts \/ channel' # "known"
  BY <1>1, <1>2, <1>3, <1>6, <1>8 DEF CountsTrue, OutcomeTruthful
<1>9. ASSUME NEW id \in DOMAIN todo, NEW n, n = todo[id]
      PROVE  channel' = "known" => n <= rows'[id].tried
  BY <1>1, <1>2, <1>3, <1>5, <1>9 DEF CountsTrue
<1> DEFINE RowTrue(id) ==
             /\ channel' = "known" => rows'[id].attempts <= rows'[id].tried
             /\ rows'[id].status = "sent" => rows'[id].made
             /\ rows'[id].status = "failed" =>
                  rows'[id].tried >= MaxAttempts \/ channel' # "known"
           PlaceTrue(a) ==
             /\ channel' = "known" /\ Delivering(a)' =>
                  at'[a].attempts <= rows'[at'[a].id].tried
             /\ at'[a].pc = "record" =>
                  /\ at'[a].status = "sent" => rows'[at'[a].id].made
                  /\ at'[a].status = "failed" =>
                       rows'[at'[a].id].tried >= MaxAttempts \/ channel' # "known"
<1>10. ASSUME NEW id \in Ids' PROVE RowTrue(id)
  <2>1. CASE UNCHANGED rows
    BY <1>8, <2>1 DEF Ids
  <2>2. ASSUME NEW a \in Creators, Creates(a) PROVE RowTrue(id)
    <3>1. CASE id \in Ids
      BY <1>8, <2>2, <3>1 DEF Creates
    <3>2. CASE id \notin Ids
      <4>1. rows'[id].attempts = 0 /\ rows'[id].status = "pending"
        BY <2>2, <3>2 DEF Creates
      <4> QED
        BY <1>3, <4>1
    <3> QED
      BY <3>1, <3>2
  <2>3. ASSUME NEW a \in Actors, NEW ok \in BOOLEAN, Tries(a, ok) PROVE RowTrue(id)
    <3>1. id \in Ids /\ rows'[id].status = rows[id].status
          /\ rows'[id].attempts = rows[id].attempts
      BY <2>3 DEF Tries
    <3> QED
      BY <1>8, <3>1
  <2>4. ASSUME NEW a \in Actors, Writes(a) PROVE RowTrue(id)
    <3>1. id \in Ids
      BY <2>4 DEF Writes
    <3>2. CASE id # at[a].id
      <4>1. rows'[id] = rows[id]
        BY <2>4, <3>1, <3>2 DEF Writes
      <4> QED
        BY <1>8, <3>1, <4>1
    <3>3. CASE id = at[a].id
      <4>1. /\ rows'[id].status = at[a].status /\ rows'[id].attempts = at[a].attempts
            /\ rows'[id].tried = rows[id].tried /\ (rows'[id].made <=> rows[id].made)
            /\ at[a].pc = "record" /\ UNCHANGED channel
        BY <2>4, <3>3 DEF Writes
      <4>2. /\ channel = "known" => at[a].attempts <= rows[id].tried
            /\ at[a].status = "sent" => rows[id].made
            /\ at[a].status = "failed" => rows[id].tried >= MaxAttempts \/ channel # "known"
        BY <1>1, <3>3, <4>1 DEF CountsTrue, CopiesTrue, Delivering
      <4> QED
        BY <4>1, <4>2
    <3> QED
      BY <3>2, <3>3
  <2>5. ASSUME NEW k \in Ids, Ripens(k) PROVE RowTrue(id)
    <3>1. id \in Ids /\ rows'[id].status = rows[id].status
          /\ rows'[id].attempts = rows[id].attempts
      BY <2>5 DEF Ripens
    <3> QED
      BY <1>8, <3>1
  <2> HIDE DEF RowTrue
  <2>6. \/ UNCHANGED rows
        \/ \E a \in Creators : Creates(a)
        \/ \E a \in Actors : (\E ok \in BOOLEAN : Tries(a, ok)) \/ Writes(a)
        \/ \E k \in Ids : Ripens(k)
    BY <1>1 DEF Kinds, Moves, FindsNoNotifier, Loses, Lists, Reaches, Restarts, Quiet
  <2> QED
    BY <2>1, <2>2, <2>3, <2>4, <2>5, <2>6
<1>11. ASSUME NEW b \in Actors PROVE PlaceTrue(b)
  <2>1. CASE at'[b] = at[b]
    BY <1>7, <2>1
  <2>2. CASE Rests(b)
    BY <2>2 DEF Rests, Delivering
  <2>3. ASSUME Creates(b) PROVE PlaceTrue(b)
    <3>1. at'[b].pc = "send" /\ at'[b].attempts = 0
      BY <2>3 DEF Creates
    <3>2. at'[b].id \in Ids'
      BY <1>4, <3>1 DEF Delivering
    <3> QED
      BY <1>3, <3>1, <3>2
  <2>4. ASSUME NEW ok \in BOOLEAN, Tries(b, ok) PROVE PlaceTrue(b)
    <3>1. PICK k \in Ids : k = at[b].id
      BY <1>4, <2>4 DEF Tries, Delivering
    <3>2. PICK n \in Nat : n = at[b].attempts
      BY <1>4, <2>4 DEF Tries, Delivering
    <3>3. /\ at'[b].pc = "record" /\ at'[b].id = k /\ at'[b].attempts = n + 1
          /\ at'[b].status = Outcome(n + 1, ok)
          /\ rows'[k].tried = rows[k].tried + 1
          /\ rows'[k].made <=> rows[k].made \/ ok
      BY <2>4, <3>1, <3>2 DEF Tries
    <3>4. channel = "known" => n <= rows[k].tried
      BY <1>1, <2>4, <3>1, <3>2 DEF CountsTrue, Tries, Delivering
    <3>5. /\ at'[b].status = "sent" => ok
          /\ at'[b].status = "failed" => n + 1 >= MaxAttempts
      BY <3>3 DEF Outcome
    <3> QED
      BY <1>2, <1>3, <1>6, <3>1, <3>2, <3>3, <3>4, <3>5
  <2>5. ASSUME FindsNoNotifier(b) PROVE PlaceTrue(b)
    <3>1. channel' # "known" /\ at'[b].status = "failed"
      BY <2>5 DEF FindsNoNotifier
    <3> QED
      BY <3>1
  <2>6. ASSUME NEW id \in DOMAIN todo, at'[b].pc = "send", at'[b].id = id,
               at'[b].attempts = todo[id]
        PROVE  PlaceTrue(b)
    BY <1>9, <2>6
  <2> HIDE DEF PlaceTrue
  <2>7. \/ at'[b] = at[b]
        \/ Rests(b)
        \/ Creates(b)
        \/ (\E ok \in BOOLEAN : Tries(b, ok)) \/ FindsNoNotifier(b)
        \/ \E id \in DOMAIN todo : /\ at'[b].pc = "send" /\ at'[b].id = id
                                   /\ at'[b].attempts = todo[id]
    <3>1. ASSUME NEW a, OthersStay(a), b # a PROVE at'[b] = at[b]
      BY <3>1 DEF OthersStay
    <3>2. ASSUME NEW a \in Creators, Creates(a) PROVE at'[b] = at[b] \/ Creates(b)
      BY <3>1, <3>2 DEF Creates
    <3>3. ASSUME NEW a \in Actors, NEW ok \in BOOLEAN, Tries(a, ok)
          PROVE  at'[b] = at[b] \/ Tries(b, ok)
      BY <3>1, <3>3 DEF Tries
    <3>4. ASSUME NEW a \in Actors, FindsNoNotifier(a)
          PROVE  at'[b] = at[b] \/ FindsNoNotifier(b)
      BY <3>1, <3>4 DEF FindsNoNotifier
    <3>5. ASSUME NEW a, Moves(a) \/ Writes(a) \/ Loses(a) PROVE at'[b] = at[b] \/ Rests(b)
      BY <3>1, <3>5 DEF Moves, Writes, Loses
    <3>6. ASSUME Lists \/ Quiet \/ \E id \in Ids : Ripens(id) PROVE at'[b] = at[b]
      BY <3>6 DEF Lists, Quiet, Ripens
    <3>7. ASSUME Restarts PROVE Rests(b)
      BY <3>7 DEF Restarts
    <3>8. ASSUME NEW id \in Ids, Reaches(id)
          PROVE  \/ at'[b] = at[b]
                 \/ /\ id \in DOMAIN todo /\ at'[b].pc = "send" /\ at'[b].id = id
                    /\ at'[b].attempts = todo[id]
      BY <3>1, <3>8 DEF Reaches
    <3> QED
      BY <1>1, <3>2, <3>3, <3>4, <3>5, <3>6, <3>7, <3>8 DEF Kinds
  <2> QED
    BY <2>1, <2>2, <2>3, <2>4, <2>5, <2>6, <2>7
<1>12. ASSUME NEW id \in DOMAIN todo', channel' = "known"
       PROVE  todo'[id] <= rows'[id].tried
  <2>1. CASE id \in DOMAIN todo /\ todo'[id] = todo[id]
    BY <1>9, <1>12, <2>1
  <2>2. CASE Lists
    BY <1>1, <1>2, <1>5, <1>12, <2>2 DEF CountsTrue, Lists, Ids
  <2>3. CASE DOMAIN todo' = {}
    BY <2>3
  <2>4. \/ id \in DOMAIN todo /\ todo'[id] = todo[id]
        \/ Lists
        \/ DOMAIN todo' = {}
    BY <1>1 DEF Kinds, Creates, Moves, Tries, FindsNoNotifier, Writes, Loses, Reaches,
      Ripens, Restarts, Quiet
  <2> QED
    BY <2>1, <2>2, <2>3, <2>4
<1> QED
  BY <1>1, <1>10, <1>11, <1>12 DEF TruthInv, CountsTrue, CopiesTrue, OutcomeTruthful

LEMMA TypesInit == Init => Types
<1> SUFFICES ASSUME Init PROVE Types
  OBVIOUS
<1>1. rows = <<>> /\ rows \in Seq(RowRecord) /\ Ids = {}
  BY DEF Init, Ids
<1>2. at \in [Actors -> Places] /\ \A a \in Actors : at[a].pc = "idle"
  BY RestingPlaces DEF Init
<1>3. DOMAIN todo = {}
  BY DEF Init
<1> QED
  BY <1>1, <1>2, <1>3 DEF Init, Types, Delivering

\* The history never says that a notification was sent when no send
\* succeeded, nor that it failed before the configured attempts were made
\* (or while its channel had a notifier), for any number of workers and
\* attempts, however first sends, the loop, lost updates and restarts
\* interleave (processNotification, UpdateNotificationHistory).
THEOREM OutcomeTruthfulHolds == Spec => []OutcomeTruthful
<1>1. Init => TruthInv
  <2> SUFFICES ASSUME Init PROVE TruthInv
    OBVIOUS
  <2>1. Types
    BY TypesInit
  <2>2. Ids = {} /\ DOMAIN todo = {} /\ \A a \in Actors : at[a].pc = "idle"
    BY RestingPlaces DEF Init, Ids
  <2> QED
    BY <2>1, <2>2 DEF TruthInv, CountsTrue, CopiesTrue, OutcomeTruthful, Delivering
<1>2. TruthInv => OutcomeTruthful
  BY DEF TruthInv
<1> QED
  BY <1>1, <1>2, TruthStep, PTL DEF Spec

-----------------------------------------------------------------------------
(* How often a channel is tried: one lemma for each part of BoundInv *)

\* The facts about types that the parts need.
Shapes ==
    /\ \A id \in Ids : rows[id].attempts \in Nat /\ rows[id].tried \in Nat
    /\ \A a \in Actors : Delivering(a) => at[a].id \in Ids /\ at[a].attempts \in Nat
    /\ \A a \in Actors :
         at[a].pc = "record" => at[a].status \in {"sent", "failed", "retrying"}
    /\ DOMAIN todo \subseteq Ids /\ \A id \in DOMAIN todo : todo[id] \in Nat
    /\ faults \in Nat /\ MaxAttempts \in Nat /\ MaxAttempts >= 1

LEMMA TypesGiveShapes == Types => Shapes
<1> SUFFICES ASSUME Types PROVE Shapes
  OBVIOUS
<1>1. MaxAttempts \in Nat /\ MaxAttempts >= 1
  BY DeliveryAssumption
<1> QED
  BY <1>1, RowShape, CopyShape DEF Types, Shapes

LEMMA RowsCountStep ==
    ASSUME Shapes, Kinds, RowsCount, CreatorsCount, LoopCounts
    PROVE  RowsCount'
<1> DEFINE Counted(id) ==
             /\ rows'[id].attempts <= MaxAttempts
             /\ rows'[id].status = "pending" => rows'[id].attempts = 0
             /\ rows'[id].status = "retrying" => rows'[id].attempts < MaxAttempts
<1> SUFFICES ASSUME NEW id \in Ids' PROVE Counted(id)
  BY DEF RowsCount
<1>0. ASSUME id \in Ids, rows'[id].status = rows[id].status,
             rows'[id].attempts = rows[id].attempts
      PROVE  Counted(id)
  BY <1>0 DEF RowsCount
<1>1. CASE UNCHANGED rows
  BY <1>0, <1>1 DEF Ids
<1>2. ASSUME NEW a \in Creators, Creates(a) PROVE Counted(id)
  <2>1. CASE id \in Ids
    BY <1>0, <1>2, <2>1 DEF Creates
  <2>2. CASE id \notin Ids
    <3>1. rows'[id].attempts = 0 /\ rows'[id].status = "pending"
      BY <1>2, <2>2 DEF Creates
    <3> QED
      BY <3>1 DEF Shapes
  <2> QED
    BY <2>1, <2>2
<1>3. ASSUME NEW a \in Actors, NEW ok \in BOOLEAN, Tries(a, ok) PROVE Counted(id)
  BY <1>0, <1>3 DEF Tries
<1>4. ASSUME NEW a \in Actors, Writes(a) PROVE Counted(id)
  <2>1. CASE id # at[a].id
    BY <1>0, <1>4, <2>1 DEF Writes
  <2>2. CASE id = at[a].id
    <3>1. /\ rows'[id].status = at[a].status /\ rows'[id].attempts = at[a].attempts
          /\ at[a].pc = "record" /\ at[a].status # "pending"
      BY <1>4, <2>2 DEF Writes, Shapes
    <3>2. CASE a = "loop"
      BY <3>1, <3>2 DEF LoopCounts, Delivering
    <3>3. CASE a \in Creators
      BY <3>1, <3>3 DEF CreatorsCount, Delivering, Shapes
    <3> QED
      BY <3>2, <3>3 DEF Creators
  <2> QED
    BY <2>1, <2>2
<1>5. ASSUME NEW k \in Ids, Ripens(k) PROVE Counted(id)
  BY <1>0, <1>5 DEF Ripens
<1> HIDE DEF Counted
<1>6. \/ UNCHANGED rows
      \/ \E a \in Creators : Creates(a)
      \/ \E a \in Actors : (\E ok \in BOOLEAN : Tries(a, ok)) \/ Writes(a)
      \/ \E k \in Ids : Ripens(k)
  BY DEF Kinds, Moves, FindsNoNotifier, Loses, Lists, Reaches, Restarts, Quiet
<1> QED
  BY <1>1, <1>2, <1>3, <1>4, <1>5, <1>6

LEMMA LoopStep ==
    ASSUME Shapes, Kinds, RowsCount, CreatorsCount, LoopCounts
    PROVE  LoopCounts'
<1>0. "loop" \in Actors /\ "loop" \notin Creators /\ Creators \subseteq Actors
  BY ActorsKnown
<1>1. ASSUME NEW a \in Creators, Creates(a) PROVE LoopCounts'
  <2>1. at'["loop"] = at["loop"] /\ todo' = todo /\ \A i \in Ids : rows'[i] = rows[i]
    BY <1>0, <1>1 DEF Creates, OthersStay
  <2> QED
    BY <1>0, <2>1 DEF LoopCounts, Delivering, Shapes
<1>2. ASSUME NEW a \in Creators, Moves(a) PROVE LoopCounts'
  BY <1>0, <1>2 DEF LoopCounts, Delivering, Moves, OthersStay
<1>3. ASSUME NEW a \in Actors, NEW ok \in BOOLEAN, Tries(a, ok) PROVE LoopCounts'
  <2>1. \A i \in Ids : rows'[i].attempts = rows[i].attempts
    BY <1>3 DEF Tries
  <2>2. todo' = todo
    BY <1>3 DEF Tries
  <2>3. CASE a = "loop"
    <3>1. PICK n \in Nat : n = at["loop"].attempts
      BY <1>0, <1>3, <2>3 DEF Tries, Shapes, Delivering
    <3>2. PICK k \in Ids : k = at["loop"].id
      BY <1>0, <1>3, <2>3 DEF Tries, Shapes, Delivering
    <3>3. /\ at["loop"].pc = "send" /\ at'["loop"].pc = "record" /\ at'["loop"].id = k
          /\ at'["loop"].attempts = n + 1 /\ at'["loop"].status = Outcome(n + 1, ok)
      BY <1>3, <2>3, <3>1, <3>2 DEF Tries
    <3>4. k \notin DOMAIN todo /\ n <= rows[k].attempts /\ n < MaxAttempts
      BY <3>1, <3>2, <3>3 DEF LoopCounts, Delivering
    <3>5. at'["loop"].status = "retrying" => n + 1 < MaxAttempts
      BY <3>1, <3>3 DEF Outcome, Shapes
    <3>6. n + 1 <= rows'[k].attempts + 1 /\ n + 1 <= MaxAttempts
      BY <2>1, <3>1, <3>2, <3>4 DEF Shapes
    <3>7. \A id \in DOMAIN todo' : todo'[id] <= rows'[id].attempts /\ todo'[id] < MaxAttempts
      BY <2>1, <2>2 DEF LoopCounts, Shapes
    <3> QED
      BY <2>2, <3>3, <3>4, <3>5, <3>6, <3>7 DEF LoopCounts, Delivering
  <2>4. CASE a # "loop"
    <3>1. at'["loop"] = at["loop"]
      BY <1>0, <1>3, <2>4 DEF Tries, OthersStay
    <3> QED
      BY <1>0, <2>1, <2>2, <3>1 DEF LoopCounts, Delivering, Shapes
  <2> QED
    BY <2>3, <2>4
<1>4. ASSUME NEW a \in Actors, FindsNoNotifier(a) PROVE LoopCounts'
  <2>1. CASE a = "loop"
    <3>1. PICK n \in Nat : n = at["loop"].attempts
      BY <1>0, <1>4, <2>1 DEF FindsNoNotifier, Shapes, Delivering
    <3>2. PICK k \in Ids : k = at["loop"].id
      BY <1>0, <1>4, <2>1 DEF FindsNoNotifier, Shapes, Delivering
    <3>3. /\ at["loop"].pc = "send" /\ at'["loop"].pc = "record" /\ at'["loop"].id = k
          /\ at'["loop"].attempts = n + 1 /\ at'["loop"].status = "failed"
          /\ rows' = rows /\ todo' = todo
      BY <1>4, <2>1, <3>1, <3>2 DEF FindsNoNotifier
    <3>4. k \notin DOMAIN todo /\ n <= rows[k].attempts /\ n < MaxAttempts
      BY <3>1, <3>2, <3>3 DEF LoopCounts, Delivering
    <3>5. n + 1 <= rows[k].attempts + 1 /\ n + 1 <= MaxAttempts
      BY <3>1, <3>2, <3>4 DEF Shapes
    <3> QED
      BY <3>3, <3>4, <3>5 DEF LoopCounts, Delivering
  <2>2. CASE a # "loop"
    BY <1>0, <1>4, <2>2 DEF LoopCounts, Delivering, FindsNoNotifier, OthersStay
  <2> QED
    BY <2>1, <2>2
<1>5. ASSUME NEW a \in Actors, Writes(a) PROVE LoopCounts'
  <2>1. PICK k \in Ids : k = at[a].id
    BY <1>5 DEF Writes, Shapes, Delivering
  <2>2. /\ \A i \in Ids \ {k} : rows'[i] = rows[i]
        /\ rows'[k].attempts = at[a].attempts /\ todo' = todo
        /\ at[a].pc = "record" /\ Rests(a) /\ OthersStay(a)
    BY <1>5, <2>1 DEF Writes
  <2>3. CASE a = "loop"
    <3>1. k \notin DOMAIN todo
      BY <2>1, <2>2, <2>3 DEF LoopCounts, Delivering
    <3> QED
      BY <2>2, <2>3, <3>1 DEF LoopCounts, Delivering, Rests, Shapes
  <2>4. CASE a \in Creators
    <3>1. /\ at[a].attempts = 1
          /\ k \in DOMAIN todo => todo[k] = 0
          /\ Delivering("loop") /\ at["loop"].id = k =>
               at["loop"].attempts = IF at["loop"].pc = "send" THEN 0 ELSE 1
      BY <2>1, <2>2, <2>4 DEF CreatorsCount, Delivering
    <3>2. at'["loop"] = at["loop"]
      BY <1>0, <2>2, <2>4 DEF OthersStay
    <3>3. \A id \in DOMAIN todo' : todo'[id] <= rows'[id].attempts /\ todo'[id] < MaxAttempts
      BY <2>2, <3>1 DEF LoopCounts, Shapes
    <3>4. CASE ~ Delivering("loop")
      BY <3>2, <3>3, <3>4 DEF LoopCounts, Delivering
    <3>5. CASE Delivering("loop") /\ at["loop"].id # k
      <4>1. at["loop"].id \in Ids
        BY <1>0, <3>5 DEF Shapes
      <4>2. rows'[at["loop"].id] = rows[at["loop"].id]
        BY <2>2, <3>5, <4>1
      <4> QED
        BY <2>2, <3>2, <3>3, <3>5, <4>2 DEF LoopCounts, Delivering
    <3>6. CASE Delivering("loop") /\ at["loop"].id = k
      BY <2>2, <3>1, <3>2, <3>3, <3>6 DEF LoopCounts, Delivering
    <3> QED
      BY <3>4, <3>5, <3>6
  <2> QED
    BY <2>3, <2>4 DEF Creators
<1>6. ASSUME NEW a \in Actors, Loses(a) PROVE LoopCounts'
  BY <1>0, <1>6 DEF LoopCounts, Delivering, Loses, Rests, OthersStay
<1>7. ASSUME Lists PROVE LoopCounts'
  <2>1. \A id \in DOMAIN todo' : /\ todo'[id] = rows[id].attempts /\ id \in Ids
                                /\ rows[id].status \in {"pending", "retrying"}
    BY <1>7 DEF Lists, GetPendingNotifications
  <2>2. \A id \in DOMAIN todo' : todo'[id] <= rows[id].attempts /\ todo'[id] < MaxAttempts
    BY <2>1 DEF RowsCount, Shapes
  <2>3. ~ Delivering("loop")' /\ rows' = rows
    BY <1>7 DEF Lists, Delivering
  <2> QED
    BY <2>2, <2>3 DEF LoopCounts
<1>8. ASSUME NEW id \in Ids, Reaches(id) PROVE LoopCounts'
  <2>1. \A i \in DOMAIN todo' : todo'[i] <= rows'[i].attempts /\ todo'[i] < MaxAttempts
    BY <1>8 DEF Reaches, LoopCounts
  <2>2. CASE UNCHANGED at
    BY <1>8, <2>1, <2>2 DEF Reaches, LoopCounts, Delivering
  <2>3. CASE at'["loop"].pc = "send" /\ at'["loop"].id = id /\ at'["loop"].attempts = todo[id]
    BY <1>8, <2>1, <2>3 DEF Reaches, LoopCounts, Delivering
  <2> QED
    BY <1>8, <2>2, <2>3 DEF Reaches
<1>9. ASSUME NEW id \in Ids, Ripens(id) PROVE LoopCounts'
  <2>1. at' = at /\ todo' = todo /\ \A i \in Ids : rows'[i].attempts = rows[i].attempts
    BY <1>9 DEF Ripens
  <2> QED
    BY <1>0, <2>1 DEF LoopCounts, Delivering, Shapes
<1>10. ASSUME Restarts PROVE LoopCounts'
  BY <1>0, <1>10 DEF LoopCounts, Delivering, Restarts, Rests
<1>11. ASSUME Quiet PROVE LoopCounts'
  BY <1>11 DEF LoopCounts, Delivering, Quiet
<1> QED
  BY <1>1, <1>2, <1>3, <1>4, <1>5, <1>6, <1>7, <1>8, <1>9, <1>10, <1>11 DEF Kinds

\* Where a creator that delivers after a step comes from.
LEMMA CreatorFrom ==
    ASSUME Shapes, Kinds, NEW b \in Creators, Delivering(b)'
    PROVE  \/ Creates(b)
           \/ /\ Delivering(b) /\ at'[b].id = at[b].id
              /\ \/ at'[b] = at[b]
                 \/ (\E ok \in BOOLEAN : Tries(b, ok)) \/ FindsNoNotifier(b)
<1>0. b \in Actors /\ b # "loop" /\ Creators \subseteq Actors /\ "loop" \in Actors
  BY ActorsKnown
<1>1. ASSUME NEW a, OthersStay(a), b # a PROVE at'[b] = at[b]
  BY <1>0, <1>1 DEF OthersStay
<1>2. ASSUME at'[b] = at[b] PROVE Delivering(b) /\ at'[b].id = at[b].id
  BY <1>2 DEF Delivering
<1>3. ASSUME NEW a \in Creators, Creates(a) PROVE at'[b] = at[b] \/ Creates(b)
  BY <1>1, <1>3 DEF Creates
<1>4. ASSUME NEW a \in Actors, NEW ok \in BOOLEAN, Tries(a, ok)
      PROVE  at'[b] = at[b] \/ Tries(b, ok)
  BY <1>1, <1>4 DEF Tries
<1>5. ASSUME NEW a \in Actors, FindsNoNotifier(a)
      PROVE  at'[b] = at[b] \/ FindsNoNotifier(b)
  BY <1>1, <1>5 DEF FindsNoNotifier
<1>6. ASSUME NEW a, Moves(a) \/ Writes(a) \/ Loses(a) PROVE at'[b] = at[b]
  BY <1>1, <1>6 DEF Moves, Writes, Loses, Rests, Delivering
<1>7. ASSUME Lists \/ Quiet \/ \E id \in Ids : Ripens(id) PROVE at'[b] = at[b]
  BY <1>7 DEF Lists, Quiet, Ripens
<1>8. ~ Restarts
  BY <1>0 DEF Restarts, Rests, Delivering
<1>9. ASSUME NEW id \in Ids, Reaches(id) PROVE at'[b] = at[b]
  BY <1>0, <1>1, <1>9 DEF Reaches
<1>10. \/ at'[b] = at[b]
       \/ Creates(b) \/ (\E ok \in BOOLEAN : Tries(b, ok)) \/ FindsNoNotifier(b)
  BY <1>3, <1>4, <1>5, <1>6, <1>7, <1>8, <1>9 DEF Kinds
<1>11. ASSUME NEW ok \in BOOLEAN, Tries(b, ok) PROVE Delivering(b) /\ at'[b].id = at[b].id
  BY <1>11 DEF Tries, Delivering
<1>12. ASSUME FindsNoNotifier(b) PROVE Delivering(b) /\ at'[b].id = at[b].id
  BY <1>12 DEF FindsNoNotifier, Delivering
<1> QED
  BY <1>2, <1>10, <1>11, <1>12

\* The same for the loop.
LEMMA LoopFrom ==
    ASSUME Shapes, Kinds, Delivering("loop")'
    PROVE  \/ Delivering("loop") /\ at'["loop"] = at["loop"]
           \/ (\E ok \in BOOLEAN : Tries("loop", ok)) \/ FindsNoNotifier("loop")
           \/ \E id \in Ids : /\ Reaches(id)
                              /\ at'["loop"].pc = "send" /\ at'["loop"].id = id
                              /\ at'["loop"].attempts = todo[id]
<1>0. "loop" \in Actors /\ "loop" \notin Creators
  BY ActorsKnown
<1>1. ASSUME NEW a, OthersStay(a), "loop" # a PROVE at'["loop"] = at["loop"]
  BY <1>0, <1>1 DEF OthersStay
<1>2. ASSUME at'["loop"] = at["loop"] PROVE Delivering("loop")
  BY <1>2 DEF Delivering
<1>3. ASSUME NEW a \in Creators, Creates(a) PROVE at'["loop"] = at["loop"]
  BY <1>0, <1>1, <1>3 DEF Creates
<1>4. ASSUME NEW a \in Actors, NEW ok \in BOOLEAN, Tries(a, ok)
      PROVE  at'["loop"] = at["loop"] \/ Tries("loop", ok)
  BY <1>1, <1>4 DEF Tries
<1>5. ASSUME NEW a \in Actors, FindsNoNotifier(a)
      PROVE  at'["loop"] = at["loop"] \/ FindsNoNotifier("loop")
  BY <1>1, <1>5 DEF FindsNoNotifier
<1>6. ASSUME NEW a, Moves(a) \/ Writes(a) \/ Loses(a) PROVE at'["loop"] = at["loop"]
  BY <1>1, <1>6 DEF Moves, Writes, Loses, Rests, Delivering
<1>7. ASSUME Lists \/ Quiet \/ \E id \in Ids : Ripens(id) PROVE at'["loop"] = at["loop"]
  BY <1>7 DEF Lists, Quiet, Ripens
<1>8. ~ Restarts
  BY <1>0 DEF Restarts, Rests, Delivering
<1>9. ASSUME NEW id \in Ids, Reaches(id)
      PROVE  \/ at'["loop"] = at["loop"]
             \/ /\ at'["loop"].pc = "send" /\ at'["loop"].id = id
                /\ at'["loop"].attempts = todo[id]
  BY <1>9 DEF Reaches
<1> QED
  BY <1>2, <1>3, <1>4, <1>5, <1>6, <1>7, <1>8, <1>9 DEF Kinds

\* What a step does to a row that its creator still delivers.
LEMMA RowBeingCreated ==
    ASSUME Shapes, Kinds, CreatorsCount,
           NEW b \in Creators, Delivering(b), Delivering(b)',
           NEW id \in Ids, id = at[b].id
    PROVE  /\ rows'[id].attempts <= 1
           /\ rows'[id].status = "retrying" => ~ rows'[id].due
<1>0. /\ rows[id].attempts <= 1 /\ (rows[id].status = "retrying" => ~ rows[id].due)
      /\ \A a \in Creators : Delivering(a) /\ at[a].id = id => a = b
      /\ Delivering("loop") /\ at["loop"].id = id =>
           at["loop"].attempts = IF at["loop"].pc = "send" THEN 0 ELSE 1
  BY DEF CreatorsCount
<1>1. CASE UNCHANGED rows
  BY <1>0, <1>1
<1>2. ASSUME NEW a \in Creators, Creates(a) PROVE rows'[id] = rows[id]
  BY <1>2 DEF Creates
<1>3. ASSUME NEW a \in Actors, NEW ok \in BOOLEAN, Tries(a, ok)
      PROVE  /\ rows'[id].attempts = rows[id].attempts
             /\ rows'[id].status = rows[id].status /\ rows'[id].due = rows[id].due
  BY <1>3 DEF Tries
<1>4. ASSUME NEW a \in Actors, Writes(a)
      PROVE  /\ rows'[id].attempts <= 1
             /\ rows'[id].status = "retrying" => ~ rows'[id].due
  <2>1. CASE at[a].id # id
    <3>1. rows'[id] = rows[id]
      BY <1>4, <2>1 DEF Writes
    <3> QED
      BY <1>0, <3>1
  <2>2. CASE at[a].id = id
    <3>1. at[a].pc = "record" /\ Delivering(a) /\ a # b
      BY <1>4 DEF Writes, Delivering, Rests
    <3>2. a = "loop"
      BY <1>0, <2>2, <3>1 DEF Creators
    <3>3. at["loop"].attempts = 1
      BY <1>0, <2>2, <3>1, <3>2
    <3> QED
      BY <1>4, <2>2, <3>2, <3>3 DEF Writes
  <2> QED
    BY <2>1, <2>2
<1>5. ASSUME NEW k \in Ids, Ripens(k) PROVE rows'[id] = rows[id]
  BY <1>5 DEF Ripens
<1>6. \/ UNCHANGED rows
      \/ \E a \in Creators : Creates(a)
      \/ \E a \in Actors : (\E ok \in BOOLEAN : Tries(a, ok)) \/ Writes(a)
      \/ \E k \in Ids : Ripens(k)
  BY DEF Kinds, Moves, FindsNoNotifier, Loses, Lists, Reaches, Restarts, Quiet
<1> QED
  BY <1>0, <1>1, <1>2, <1>3, <1>4, <1>5, <1>6

LEMMA CreatorsStep ==
    ASSUME Shapes, Kinds, RowsCount, CreatorsCount, LoopCounts
    PROVE  CreatorsCount'
<1>0. "loop" \in Actors /\ "loop" \notin Creators /\ Creators \subseteq Actors
  BY ActorsKnown
<1>1. ASSUME NEW b \in Creators, Delivering(b)'
      PROVE  /\ at'[b].attempts = IF at'[b].pc = "send" THEN 0 ELSE 1
             /\ at'[b].pc = "record" /\ at'[b].status = "retrying" => 1 < MaxAttempts
  <2>1. CASE Creates(b)
    BY <2>1 DEF Creates
  <2>2. CASE Delivering(b) /\ at'[b] = at[b]
    BY <2>2 DEF CreatorsCount
  <2>3. ASSUME NEW ok \in BOOLEAN, Tries(b, ok)
        PROVE  /\ at'[b].attempts = IF at'[b].pc = "send" THEN 0 ELSE 1
               /\ at'[b].pc = "record" /\ at'[b].status = "retrying" => 1 < MaxAttempts
    <3>1. at[b].pc = "send" /\ at[b].attempts = 0
      BY <2>3 DEF Tries, CreatorsCount, Delivering
    <3>2. /\ at'[b].pc = "record" /\ at'[b].attempts = 1
          /\ at'[b].status = Outcome(1, ok)
      BY <2>3, <3>1 DEF Tries
    <3> QED
      BY <3>2 DEF Outcome, Shapes
  <2>4. CASE FindsNoNotifier(b)
    <3>1. at[b].pc = "send" /\ at[b].attempts = 0
      BY <2>4 DEF FindsNoNotifier, CreatorsCount, Delivering
    <3> QED
      BY <2>4, <3>1 DEF FindsNoNotifier
  <2> QED
    BY <1>1, <2>1, <2>2, <2>3, <2>4, CreatorFrom
<1>2. ASSUME NEW b \in Creators, Creates(b), NEW c \in Actors, c # b, Delivering(c)'
      PROVE  at'[c].id # at'[b].id
  <2>1. at'[c] = at[c] /\ at'[b].id \notin Ids
    BY <1>2 DEF Creates, OthersStay
  <2>2. at[c].id \in Ids
    BY <1>2, <2>1 DEF Shapes, Delivering
  <2> QED
    BY <2>1, <2>2
<1>3. ASSUME NEW b \in Creators, Delivering(b)', NEW c \in Creators, Delivering(c)',
             at'[c].id = at'[b].id
      PROVE  c = b
  <2>1. CASE Creates(b)
    BY <1>0, <1>2, <1>3, <2>1
  <2>2. CASE Creates(c)
    BY <1>0, <1>2, <1>3, <2>2
  <2>3. CASE ~ Creates(b) /\ ~ Creates(c)
    <3>1. /\ Delivering(b) /\ at'[b].id = at[b].id
          /\ Delivering(c) /\ at'[c].id = at[c].id
      BY <1>3, <2>3, CreatorFrom
    <3> QED
      BY <1>3, <3>1 DEF CreatorsCount
  <2> QED
    BY <2>1, <2>2, <2>3
<1>4. ASSUME NEW b \in Creators, Creates(b)
      PROVE  LET id == at'[b].id
             IN  /\ rows'[id].attempts <= 1
                 /\ rows'[id].status = "retrying" => ~ rows'[id].due
                 /\ id \notin DOMAIN todo'
                 /\ ~ (Delivering("loop")' /\ at'["loop"].id = id)
  <2>1. /\ at'[b].id = Len(rows) + 1 /\ Len(rows) + 1 \notin Ids
        /\ rows'[Len(rows) + 1].attempts = 0 /\ rows'[Len(rows) + 1].status = "pending"
        /\ todo' = todo
    BY <1>4 DEF Creates
  <2>2. Len(rows) + 1 \notin DOMAIN todo'
    BY <2>1 DEF Shapes
  <2> QED
    BY <1>0, <1>2, <1>4, <2>1, <2>2
<1>5. ASSUME NEW b \in Creators, Delivering(b), NEW id \in Ids, id = at[b].id,
             id \in DOMAIN todo'
      PROVE  todo'[id] = 0
  <2>1. CASE id \in DOMAIN todo /\ todo'[id] = todo[id]
    BY <1>5, <2>1 DEF CreatorsCount
  <2>2. CASE Lists
    <3>1. /\ rows[id].status \in {"pending", "retrying"} /\ rows[id].due
          /\ todo'[id] = rows[id].attempts
      BY <1>5, <2>2 DEF Lists, GetPendingNotifications
    <3>2. rows[id].status # "retrying"
      BY <1>5, <3>1 DEF CreatorsCount
    <3> QED
      BY <3>1, <3>2 DEF RowsCount
  <2>3. CASE DOMAIN todo' = {}
    BY <1>5, <2>3
  <2>4. \/ id \in DOMAIN todo /\ todo'[id] = todo[id]
        \/ Lists
        \/ DOMAIN todo' = {}
    BY <1>5 DEF Kinds, Creates, Moves, Tries, FindsNoNotifier, Writes, Loses, Reaches,
      Ripens, Restarts, Quiet
  <2> QED
    BY <2>1, <2>2, <2>3, <2>4
<1>6. ASSUME NEW b \in Creators, Delivering(b), NEW id \in Ids, id = at[b].id,
             Delivering("loop")', at'["loop"].id = id
      PROVE  at'["loop"].attempts = IF at'["loop"].pc = "send" THEN 0 ELSE 1
  <2>1. CASE Delivering("loop") /\ at'["loop"] = at["loop"]
    BY <1>6, <2>1 DEF CreatorsCount
  <2>2. ASSUME NEW ok \in BOOLEAN, Tries("loop", ok)
        PROVE  at'["loop"].pc = "record" /\ at'["loop"].attempts = 1
    <3>1. at["loop"].pc = "send" /\ at["loop"].id = id /\ Delivering("loop")
      BY <1>6, <2>2 DEF Tries, Delivering
    <3>2. at["loop"].attempts = 0
      BY <1>6, <3>1 DEF CreatorsCount
    <3> QED
      BY <2>2, <3>2 DEF Tries
  <2>3. ASSUME FindsNoNotifier("loop")
        PROVE  at'["loop"].pc = "record" /\ at'["loop"].attempts = 1
    <3>1. at["loop"].pc = "send" /\ at["loop"].id = id /\ Delivering("loop")
      BY <1>6, <2>3 DEF FindsNoNotifier, Delivering
    <3>2. at["loop"].attempts = 0
      BY <1>6, <3>1 DEF CreatorsCount
    <3> QED
      BY <2>3, <3>2 DEF FindsNoNotifier
  <2>4. ASSUME NEW k \in Ids, Reaches(k), at'["loop"].pc = "send", at'["loop"].id = k,
               at'["loop"].attempts = todo[k]
        PROVE  at'["loop"].attempts = 0
    <3>1. k = id /\ id \in DOMAIN todo
      BY <1>6, <2>4 DEF Reaches
    <3>2. todo[id] = 0
      BY <1>6, <3>1 DEF CreatorsCount
    <3> QED
      BY <2>4, <3>1, <3>2
  <2> QED
    BY <1>6, <2>1, <2>2, <2>3, <2>4, LoopFrom
<1> DEFINE Sole(b) == \A c \in Creators : Delivering(c)' /\ at'[c].id = at'[b].id => c = b
           Fresh(b) ==
             LET id == at'[b].id
             IN  /\ rows'[id].attempts <= 1
                 /\ rows'[id].status = "retrying" => ~ rows'[id].due
                 /\ id \in DOMAIN todo' => todo'[id] = 0
                 /\ Delivering("loop")' /\ at'["loop"].id = id =>
                      at'["loop"].attempts = IF at'["loop"].pc = "send" THEN 0 ELSE 1
<1>7. ASSUME NEW b \in Creators, Delivering(b)' PROVE Fresh(b)
  <2>1. CASE Creates(b)
    BY <1>4, <2>1
  <2>2. CASE Delivering(b) /\ at'[b].id = at[b].id
    <3>1. PICK id \in Ids : id = at[b].id
      BY <1>0, <2>2 DEF Shapes
    <3>2. /\ rows'[id].attempts <= 1
          /\ rows'[id].status = "retrying" => ~ rows'[id].due
      BY <1>7, <2>2, <3>1, RowBeingCreated
    <3> QED
      BY <1>5, <1>6, <2>2, <3>1, <3>2
  <2> QED
    BY <1>7, <2>1, <2>2, CreatorFrom
<1>8. \A b \in Creators : Delivering(b)' => Sole(b)
  BY <1>3
<1> QED
  BY <1>1, <1>7, <1>8 DEF CreatorsCount

\* The sends of a row made and the first one to come.
Load(id) == rows[id].tried + FirstSend(id)

LEMMA FirstSendRange == \A id : FirstSend(id) \in {0, 1} /\ FirstSend(id)' \in {0, 1}
BY DEF FirstSend

\* A creator at its first send after a step was there before it, or is new.
LEMMA FirstSendFrom ==
    ASSUME Shapes, Kinds, NEW b \in Creators, at'[b].pc = "send", ~ Creates(b)
    PROVE  at'[b] = at[b]
<1>1. Delivering(b)'
  BY DEF Delivering
<1>2. \/ at'[b] = at[b]
      \/ (\E ok \in BOOLEAN : Tries(b, ok)) \/ FindsNoNotifier(b)
  BY <1>1, CreatorFrom
<1> QED
  BY <1>2 DEF Tries, FindsNoNotifier

LEMMA FirstSendFalls ==
    ASSUME Shapes, Kinds, NEW id \in Ids
    PROVE  FirstSend(id)' <= FirstSend(id)
<1>1. ASSUME NEW b \in Creators, at'[b].pc = "send", at'[b].id = id
      PROVE  at[b].pc = "send" /\ at[b].id = id
  <2>1. ~ Creates(b)
    BY <1>1 DEF Creates
  <2> QED
    BY <1>1, <2>1, FirstSendFrom
<1>2. FirstSend(id)' = IF \E b \in Creators : at'[b].pc = "send" /\ at'[b].id = id
                      THEN 1 ELSE 0
  BY DEF FirstSend
<1> QED
  BY <1>1, <1>2 DEF FirstSend

\* A send by the creator of a row was reckoned with; one by the loop adds to
\* the load; nothing else does.
LEMMA LoadStep ==
    ASSUME Shapes, Kinds, CreatorsCount, NEW id \in Ids
    PROVE  /\ Load(id) \in Nat /\ Load(id)' \in Nat
           /\ Load(id)' <= Load(id) + 1
           /\ \/ Load(id)' <= Load(id)
              \/ (\E ok \in BOOLEAN : Tries("loop", ok)) /\ at["loop"].id = id
<1> DEFINE t == rows[id].tried
           f == FirstSend(id)
           g == FirstSend(id)'
<1>0. /\ t \in Nat /\ f \in {0, 1} /\ g \in {0, 1} /\ g <= f
      /\ Load(id) = t + f /\ Load(id)' = rows'[id].tried + g
  BY FirstSendRange, FirstSendFalls DEF Shapes, Load
<1>1. CASE rows'[id].tried = t
  <2> HIDE DEF t, f, g
  <2> QED
    BY <1>0, <1>1
<1>2. ASSUME NEW a \in Actors, NEW ok \in BOOLEAN, Tries(a, ok), at[a].id = id
      PROVE  /\ rows'[id].tried = t + 1
             /\ a = "loop" \/ (f = 1 /\ g = 0)
  <2>1. rows'[id].tried = t + 1
    BY <1>2 DEF Tries
  <2>2. CASE a \in Creators
    <3>1. at[a].pc = "send" /\ at'[a].pc = "record" /\ Delivering(a)
      BY <1>2 DEF Tries, Delivering
    <3>2. f = 1
      BY <1>2, <2>2, <3>1 DEF FirstSend
    <3>3. ASSUME NEW b \in Creators, at'[b].pc = "send", at'[b].id = id PROVE FALSE
      <4>1. ~ Creates(b)
        BY <3>3 DEF Creates
      <4>2. at'[b] = at[b]
        BY <3>3, <4>1, FirstSendFrom
      <4>3. Delivering(b) /\ at[b].id = id
        BY <3>3, <4>2 DEF Delivering
      <4>4. b = a
        BY <1>2, <2>2, <3>1, <4>3 DEF CreatorsCount
      <4> QED
        BY <3>1, <3>3, <4>4
    <3>4. g = 0
      BY <3>3 DEF FirstSend
    <3> QED
      BY <2>1, <3>2, <3>4
  <2> QED
    BY <2>1, <2>2 DEF Creators
<1>3. \/ rows'[id].tried = t
      \/ \E a \in Actors : \E ok \in BOOLEAN : Tries(a, ok) /\ at[a].id = id
  <2>1. CASE UNCHANGED rows
    BY <2>1
  <2>2. ASSUME NEW a \in Creators, Creates(a) PROVE rows'[id].tried = t
    BY <2>2 DEF Creates
  <2>3. ASSUME NEW a \in Actors, NEW ok \in BOOLEAN, Tries(a, ok), at[a].id # id
        PROVE  rows'[id].tried = t
    BY <2>3 DEF Tries
  <2>4. ASSUME NEW a \in Actors, Writes(a) PROVE rows'[id].tried = t
    BY <2>4 DEF Writes
  <2>5. ASSUME NEW k \in Ids, Ripens(k) PROVE rows'[id].tried = t
    BY <2>5 DEF Ripens
  <2>6. \/ UNCHANGED rows
        \/ \E a \in Creators : Creates(a)
        \/ \E a \in Actors : (\E ok \in BOOLEAN : Tries(a, ok)) \/ Writes(a)
        \/ \E k \in Ids : Ripens(k)
    BY DEF Kinds, Moves, FindsNoNotifier, Loses, Lists, Reaches, Restarts, Quiet
  <2> QED
    BY <2>1, <2>2, <2>3, <2>4, <2>5, <2>6
<1>4. ASSUME NEW a \in Actors, NEW ok \in BOOLEAN, Tries(a, ok), at[a].id = id
      PROVE  /\ Load(id)' \in Nat /\ Load(id)' <= Load(id) + 1
             /\ Load(id)' <= Load(id) \/ a = "loop"
  <2>1. rows'[id].tried = t + 1 /\ (a = "loop" \/ (f = 1 /\ g = 0))
    BY <1>2, <1>4
  <2> HIDE DEF t, f, g
  <2> QED
    BY <1>0, <2>1
<1>5. Load(id) \in Nat
  BY <1>0
<1> HIDE DEF t, f, g
<1> QED
  BY <1>1, <1>3, <1>4, <1>5

\* The count in a row never falls, unless the loop writes its copy.
LEMMA AttemptsGrow ==
    ASSUME Shapes, Kinds, CreatorsCount, NEW id \in Ids
    PROVE  \/ rows'[id].attempts >= rows[id].attempts
           \/ Writes("loop") /\ at["loop"].id = id
<1>0. rows[id].attempts \in Nat
  BY DEF Shapes
<1>1. CASE rows'[id].attempts = rows[id].attempts
  BY <1>0, <1>1
<1>2. ASSUME NEW a \in Actors, Writes(a), at[a].id = id, a # "loop"
      PROVE  rows'[id].attempts >= rows[id].attempts
  <2>1. a \in Creators /\ at[a].pc = "record" /\ Delivering(a)
    BY <1>2 DEF Writes, Delivering, Creators
  <2>2. at[a].attempts = 1 /\ rows[id].attempts <= 1
    BY <1>2, <2>1 DEF CreatorsCount
  <2>3. rows'[id].attempts = 1
    BY <1>2, <2>2 DEF Writes
  <2> QED
    BY <1>0, <2>2, <2>3
<1>3. ASSUME NEW a \in Actors, Writes(a), at[a].id # id PROVE rows'[id] = rows[id]
  BY <1>3 DEF Writes
<1>4. ASSUME NEW a \in Creators, Creates(a) PROVE rows'[id] = rows[id]
  BY <1>4 DEF Creates
<1>5. ASSUME NEW a \in Actors, NEW ok \in BOOLEAN, Tries(a, ok)
      PROVE  rows'[id].attempts = rows[id].attempts
  BY <1>5 DEF Tries
<1>6. ASSUME NEW k \in Ids, Ripens(k) PROVE rows'[id].attempts = rows[id].attempts
  BY <1>6 DEF Ripens
<1>7. \/ UNCHANGED rows
      \/ \E a \in Creators : Creates(a)
      \/ \E a \in Actors : (\E ok \in BOOLEAN : Tries(a, ok)) \/ Writes(a)
      \/ \E k \in Ids : Ripens(k)
  BY DEF Kinds, Moves, FindsNoNotifier, Loses, Lists, Reaches, Restarts, Quiet
<1> QED
  BY <1>1, <1>2, <1>3, <1>4, <1>5, <1>6, <1>7

\* A copy the loop was about to record is written, or a fault is counted.
LEMMA CopyLeaves ==
    ASSUME Shapes, Kinds, NEW id \in Ids, at["loop"].pc = "record", at["loop"].id = id,
           ~ (at'["loop"].pc = "record" /\ at'["loop"].id = id)
    PROVE  \/ Writes("loop")
           \/ faults' = faults + 1 /\ UNCHANGED rows
<1>0. "loop" \in Actors /\ "loop" \notin Creators
  BY ActorsKnown
<1>1. at'["loop"] # at["loop"]
  OBVIOUS
<1>2. ASSUME NEW a \in Actors, OthersStay(a) PROVE a = "loop"
  BY <1>0, <1>1, <1>2 DEF OthersStay
<1>3. ASSUME NEW a \in Creators, Creates(a) \/ Moves(a) PROVE FALSE
  <2>1. OthersStay(a) /\ a \in Actors
    BY <1>3, ActorsKnown DEF Creates, Moves
  <2> QED
    BY <1>0, <1>2, <2>1
<1>4. ASSUME NEW a \in Actors, NEW ok \in BOOLEAN, Tries(a, ok) PROVE FALSE
  BY <1>2, <1>4 DEF Tries
<1>5. ASSUME NEW a \in Actors, FindsNoNotifier(a) PROVE FALSE
  BY <1>2, <1>5 DEF FindsNoNotifier
<1>6. ASSUME NEW a \in Actors, Writes(a) PROVE Writes("loop")
  BY <1>2, <1>6 DEF Writes
<1>7. ASSUME Restarts \/ \E a \in Actors : Loses(a)
      PROVE  faults' = faults + 1 /\ UNCHANGED rows
  BY <1>7 DEF Restarts, Loses
<1>8. ~ Lists /\ ~ Quiet /\ \A k \in Ids : ~ Reaches(k) /\ ~ Ripens(k)
  BY <1>1 DEF Lists, Quiet, Reaches, Ripens, Delivering
<1> QED
  BY <1>3, <1>4, <1>5, <1>6, <1>7, <1>8 DEF Kinds

LEMMA FaultsGrow ==
    ASSUME Shapes, Kinds
    PROVE  faults' \in Nat /\ faults' >= faults
<1>1. faults \in Nat
  BY DEF Shapes
<1>2. faults' = faults \/ faults' = faults + 1
  BY DEF Kinds, Creates, Moves, Tries, FindsNoNotifier, Writes, Loses, Lists, Reaches,
    Ripens, Restarts, Quiet
<1> QED
  BY <1>1, <1>2

LEMMA PaidStep ==
    ASSUME Shapes, Kinds, Shapes', CreatorsCount, LoopCounts, SendsPaid
    PROVE  SendsPaid'
<1>0. /\ "loop" \in Actors /\ "loop" \notin Creators
      /\ faults \in Nat /\ faults' \in Nat /\ faults' >= faults
  BY ActorsKnown, FaultsGrow DEF Shapes
<1> DEFINE Covers(id, n) == Load(id)' <= n + 1 + faults'
<1>1. \A id \in Ids :
        /\ id \in DOMAIN todo => Load(id) <= todo[id] + 1 + faults
        /\ Delivering("loop") /\ at["loop"].id = id =>
             Load(id) <= at["loop"].attempts + 1 + faults
        /\ ~ (at["loop"].pc = "record" /\ at["loop"].id = id) =>
             Load(id) <= rows[id].attempts + 1 + faults
  BY DEF SendsPaid, Paid, Load
<1>2. SUFFICES ASSUME NEW id \in Ids'
               PROVE  /\ id \in DOMAIN todo' => Covers(id, todo'[id])
                      /\ Delivering("loop")' /\ at'["loop"].id = id =>
                           Covers(id, at'["loop"].attempts)
                      /\ ~ (at'["loop"].pc = "record" /\ at'["loop"].id = id) =>
                           Covers(id, rows'[id].attempts)
  BY DEF SendsPaid, Paid, Load
<1>3. CASE id \notin Ids
  <2>1. PICK a \in Creators : Creates(a)
    <3>1. Ids' # Ids
      BY <1>3
    <3> QED
      BY <3>1 DEF Kinds, Moves, Tries, FindsNoNotifier, Writes, Loses, Lists, Reaches,
        Ripens, Restarts, Quiet, Ids
  <2>2. /\ rows'[id].tried = 0 /\ rows'[id].attempts = 0 /\ todo' = todo
        /\ at'["loop"] = at["loop"]
    BY <1>0, <1>3, <2>1 DEF Creates, OthersStay
  <2>3. id \notin DOMAIN todo'
    BY <1>3, <2>2 DEF Shapes
  <2>4. ~ (Delivering("loop")' /\ at'["loop"].id = id)
    BY <1>0, <1>3, <2>2 DEF Shapes, Delivering
  <2>5. Load(id)' = 0 + FirstSend(id)' /\ FirstSend(id)' \in {0, 1}
    BY <2>2, FirstSendRange DEF Load
  <2>6. Covers(id, rows'[id].attempts)
    BY <1>0, <2>2, <2>5
  <2> QED
    BY <2>3, <2>4, <2>6
<1>4. CASE id \in Ids
  <2>0. PICK m \in Nat : m = Load(id)
    BY <1>4, LoadStep
  <2>00. PICK n \in Nat : n = Load(id)'
    BY <1>4, LoadStep
  <2>1. /\ n <= m + 1
        /\ \/ n <= m
           \/ (\E ok \in BOOLEAN : Tries("loop", ok)) /\ at["loop"].id = id
    BY <1>4, <2>0, <2>00, LoadStep
  <2>2. ASSUME NEW c \in Nat, m <= c + 1 + faults, n <= m PROVE n <= c + 1 + faults'
    BY <1>0, <2>0, <2>00, <2>2
  <2>3. ASSUME NEW c \in Nat, m <= c + 1 + faults PROVE n <= (c + 1) + 1 + faults'
    BY <1>0, <2>0, <2>00, <2>1, <2>3
  <2>4. ASSUME \E ok \in BOOLEAN : Tries("loop", ok)
        PROVE  /\ at["loop"].pc = "send" /\ Delivering("loop") /\ todo' = todo
               /\ at'["loop"].pc = "record" /\ at'["loop"].id = at["loop"].id
               /\ at'["loop"].attempts = at["loop"].attempts + 1
    BY <2>4 DEF Tries, Delivering
  <2>5. ASSUME id \in DOMAIN todo' PROVE Covers(id, todo'[id])
    <3>1. CASE Lists
      <4>1. n <= m
        BY <2>1, <2>4, <3>1 DEF Lists
      <4>2. todo'[id] = rows[id].attempts /\ ~ Delivering("loop")
        BY <2>5, <3>1 DEF Lists
      <4>3. m <= rows[id].attempts + 1 + faults /\ rows[id].attempts \in Nat
        BY <1>1, <1>4, <2>0, <4>2 DEF Delivering, Shapes
      <4> QED
        BY <2>2, <2>00, <4>1, <4>2, <4>3
    <3>2. CASE id \in DOMAIN todo /\ todo'[id] = todo[id]
      <4>1. n <= m
        BY <2>1, <2>4, <3>2 DEF LoopCounts
      <4>2. m <= todo[id] + 1 + faults /\ todo[id] \in Nat
        BY <1>1, <1>4, <2>0, <3>2 DEF Shapes
      <4> QED
        BY <2>2, <2>00, <3>2, <4>1, <4>2
    <3>3. \/ id \in DOMAIN todo /\ todo'[id] = todo[id]
          \/ Lists
          \/ DOMAIN todo' = {}
      BY <2>5 DEF Kinds, Creates, Moves, Tries, FindsNoNotifier, Writes, Loses, Reaches,
        Ripens, Restarts, Quiet
    <3> QED
      BY <2>5, <3>1, <3>2, <3>3
  <2>6. ASSUME Delivering("loop")', at'["loop"].id = id
        PROVE  Covers(id, at'["loop"].attempts)
    <3>1. CASE Delivering("loop") /\ at'["loop"] = at["loop"]
      <4>1. n <= m
        BY <2>1, <2>4, <3>1
      <4>2. m <= at["loop"].attempts + 1 + faults /\ at["loop"].attempts \in Nat
        BY <1>0, <1>1, <1>4, <2>0, <2>6, <3>1 DEF Shapes
      <4> QED
        BY <2>2, <2>00, <3>1, <4>1, <4>2
    <3>2. ASSUME (\E ok \in BOOLEAN : Tries("loop", ok)) \/ FindsNoNotifier("loop")
          PROVE  Covers(id, at'["loop"].attempts)
      <4>1. /\ Delivering("loop") /\ at["loop"].id = id
            /\ at'["loop"].attempts = at["loop"].attempts + 1
        BY <2>6, <3>2 DEF Tries, FindsNoNotifier, Delivering
      <4>2. m <= at["loop"].attempts + 1 + faults /\ at["loop"].attempts \in Nat
        BY <1>0, <1>1, <1>4, <2>0, <4>1 DEF Shapes
      <4> QED
        BY <2>3, <2>00, <4>1, <4>2
    <3>3. ASSUME NEW k \in Ids, Reaches(k), at'["loop"].pc = "send", at'["loop"].id = k,
                 at'["loop"].attempts = todo[k]
          PROVE  Covers(id, at'["loop"].attempts)
      <4>1. k = id /\ id \in DOMAIN todo
        BY <2>6, <3>3 DEF Reaches
      <4>2. n <= m
        BY <2>1, <2>4, <3>3 DEF Reaches
      <4>3. m <= todo[id] + 1 + faults /\ todo[id] \in Nat
        BY <1>1, <1>4, <2>0, <4>1 DEF Shapes
      <4> QED
        BY <2>2, <2>00, <3>3, <4>1, <4>2, <4>3
    <3> HIDE DEF Covers
    <3> QED
      BY <2>6, <3>1, <3>2, <3>3, LoopFrom
  <2>7. ASSUME ~ (at'["loop"].pc = "record" /\ at'["loop"].id = id)
        PROVE  Covers(id, rows'[id].attempts)
    <3>1. n <= m
      BY <2>1, <2>4, <2>7
    <3>2. rows[id].attempts \in Nat /\ rows'[id].attempts \in Nat
      BY <1>4 DEF Shapes
    <3>3. CASE at["loop"].pc = "record" /\ at["loop"].id = id
      <4>1. /\ m <= at["loop"].attempts + 1 + faults /\ at["loop"].attempts \in Nat
            /\ at["loop"].attempts <= rows[id].attempts + 1
        BY <1>0, <1>1, <1>4, <2>0, <3>3 DEF Delivering, Shapes, LoopCounts
      <4>2. CASE Writes("loop")
        <5>1. rows'[id].attempts = at["loop"].attempts
          BY <3>3, <4>2 DEF Writes
        <5> QED
          BY <2>2, <2>00, <3>1, <4>1, <5>1
      <4>3. CASE faults' = faults + 1 /\ UNCHANGED rows
        <5>1. PICK k \in Nat : k = at["loop"].attempts
          BY <4>1
        <5>2. PICK r \in Nat : r = rows[id].attempts
          BY <3>2
        <5>3. n <= r + 1 + faults'
          BY <1>0, <2>0, <2>00, <3>1, <4>1, <4>3, <5>1, <5>2
        <5> QED
          BY <2>00, <4>3, <5>2, <5>3
      <4> QED
        BY <1>4, <2>7, <3>3, <4>2, <4>3, CopyLeaves
    <3>4. CASE ~ (at["loop"].pc = "record" /\ at["loop"].id = id)
      <4>1. rows'[id].attempts >= rows[id].attempts
        BY <1>4, <3>4, AttemptsGrow DEF Writes
      <4>2. m <= rows[id].attempts + 1 + faults
        BY <1>1, <1>4, <2>0, <3>4
      <4>3. PICK r \in Nat : r = rows[id].attempts
        BY <3>2
      <4>4. PICK s \in Nat : s = rows'[id].attempts
        BY <3>2
      <4>5. n <= s + 1 + faults'
        BY <1>0, <2>0, <2>00, <3>1, <4>1, <4>2, <4>3, <4>4
      <4> QED
        BY <2>00, <4>4, <4>5
    <3> QED
      BY <3>3, <3>4
  <2> QED
    BY <2>5, <2>6, <2>7
<1> QED
  BY <1>3, <1>4

\* However first sends, the pending loop, lost updates and restarts
\* interleave, and however many workers there are, a channel is tried at most
\* max_retry_attempts times for a notification, once more for a first send
\* the loop overtook and once more for every lost count (processNotification,
\* GetPendingNotifications, UpdateNotificationHistory).
THEOREM SendsBoundedHolds == Spec => []SendsBounded
<1>1. Init => BoundInv
  <2> SUFFICES ASSUME Init PROVE BoundInv
    OBVIOUS
  <2>1. Types
    BY TypesInit
  <2>2. Ids = {} /\ DOMAIN todo = {} /\ \A a \in Actors : at[a].pc = "idle"
    BY RestingPlaces DEF Init, Ids
  <2>3. "loop" \in Actors /\ Creators \subseteq Actors
    BY ActorsKnown
  <2> QED
    BY <2>1, <2>2, <2>3
    DEF BoundInv, RowsCount, CreatorsCount, LoopCounts, SendsPaid, Delivering
<1>2. BoundInv /\ [Next]_vars => BoundInv'
  <2> SUFFICES ASSUME BoundInv, [Next]_vars PROVE BoundInv'
    OBVIOUS
  <2>1. Types /\ Shapes /\ RowsCount /\ CreatorsCount /\ LoopCounts /\ SendsPaid
    BY TypesGiveShapes DEF BoundInv
  <2>2. Kinds /\ Types'
    BY <2>1, StepKinds
  <2>3. Shapes'
    BY <2>2, TypesGiveShapes, PTL
  <2> QED
    BY <2>1, <2>2, <2>3, RowsCountStep, CreatorsStep, LoopStep, PaidStep DEF BoundInv
<1>3. BoundInv => SendsBounded
  <2> SUFFICES ASSUME BoundInv, NEW id \in Ids
               PROVE  rows[id].tried <= MaxAttempts + 1 + faults
    BY DEF SendsBounded
  <2>1. Shapes /\ RowsCount /\ LoopCounts /\ SendsPaid
    BY TypesGiveShapes DEF BoundInv
  <2>2. PICK k \in Nat : rows[id].tried + FirstSend(id) <= k + 1 + faults /\ k <= MaxAttempts
    <3>1. CASE at["loop"].pc = "record" /\ at["loop"].id = id
      BY <2>1, <3>1, ActorsKnown DEF SendsPaid, Paid, LoopCounts, Shapes, Delivering
    <3>2. CASE ~ (at["loop"].pc = "record" /\ at["loop"].id = id)
      BY <2>1, <3>2 DEF SendsPaid, Paid, RowsCount, Shapes
    <3> QED
      BY <3>1, <3>2
  <2>3. /\ rows[id].tried \in Nat /\ FirstSend(id) \in {0, 1} /\ faults \in Nat
        /\ MaxAttempts \in Nat
    BY <2>1, FirstSendRange DEF Shapes
  <2> QED
    BY <2>2, <2>3
<1> QED
  BY <1>1, <1>2, <1>3, PTL DEF Spec
=============================================================================
