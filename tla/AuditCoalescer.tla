--------------------------- MODULE AuditCoalescer ---------------------------
(***************************************************************************)
(* The coalescers in front of the server's audit log, server/src/internal/ *)
(* auth: audit_denials.go and its twin audit_failures.go, the eviction     *)
(* list of audit_eviction_list.go and the sweep of audit_coalesce.go.      *)
(*                                                                         *)
(* The first denial (or failure) of a key opens a window and is written to *)
(* the audit log; repeats within the window are only counted; the count    *)
(* reaches the log when the window is closed by a later repeat, when the   *)
(* entry is evicted, on the periodic sweep or at shutdown.  The writes are *)
(* transactions that may fail.                                             *)
(*                                                                         *)
(* Every operation runs under the store's lock s.mu from the decision to   *)
(* the last write, so each is one action.  Time is kept as the age of each *)
(* window (now - firstSeen): only differences of times are ever compared.  *)
(* "Event" stands for a denial in the one coalescer, a failure in the      *)
(* other.                                                                  *)
(***************************************************************************)
EXTENDS Integers, SequencesExt

CONSTANTS
    DenialKeys,   \* keys of the denial coalescer (denialKey)
    FailureKeys,  \* keys of the failure coalescer (failureKey)
    Window,       \* denialCoalesceWindow = failureCoalesceWindow
    MaxKeys,      \* maxDenialKeys = maxFailureKeys
    MaxAge,       \* bound: the age of the oldest entry
    MaxSeen       \* bound: events per key

Keys == DenialKeys \cup FailureKeys

ASSUME CoalescerAssumption ==
    /\ DenialKeys \cap FailureKeys = {}
    /\ Window \in Nat \ {0}
    /\ MaxKeys \in Nat \ {0}
    /\ MaxAge \in Nat /\ MaxAge >= Window
    /\ MaxSeen \in Nat

VARIABLES
    order,      \* coalescer -> its entries on the eviction list, oldest first
    age,        \* key -> now - firstSeen of its entry, 0 without an entry
    held,       \* key -> suppressed.count of its entry, 0 without an entry
    seen,       \* key -> events that have arrived
    written,    \* key -> events that rows of the audit log stand for
    reported,   \* key -> events reported to the caller (or the server log)
                \*   because their own row could not be written
    lost,       \* key -> repeats restore could only write to the server log
    rowAge      \* key -> time since its last event row, Window when longer

entryVars == <<order, age, held>>
ledgerVars == <<seen, written, reported, lost, rowAge>>
vars == <<entryVars, ledgerVars>>

Coalescers == {"denials", "failures"}

KeysOf(c) == IF c = "denials" THEN DenialKeys ELSE FailureKeys

Lowest(a, b) == IF a < b THEN a ELSE b

-----------------------------------------------------------------------------
(* The eviction list *)

\* k goes after the entries, from the oldest on, that are no younger.
insertOrdered(o, a, k) ==
    InsertAt(o, 1 + Cardinality({i \in DOMAIN o :
                                    \A j \in 1..i : a[o[j]] >= a[k]}), k)

\* Mutant: at the cap nothing but closed windows is dropped.
evicted_closed(o, a, keep) ==
    {o[i] : i \in {i \in DOMAIN o : \A j \in 1..i : a[o[j]] >= Window}}
        \ {keep}

\* The walk of evict: from the oldest entry on, up to the first one whose
\* window is open whilst the map is within its cap.
evicted(o, a, keep) ==
    LET dropped(j) == {i \in 1..(j - 1) : o[i] # keep}
        visited(i) == \A j \in 1..i :
                          \/ a[o[j]] >= Window
                          \/ Len(o) - Cardinality(dropped(j)) > MaxKeys
    IN  {o[i] : i \in {i \in DOMAIN o : visited(i)}} \ {keep}

\* Mutant: only the flush at shutdown drains anything.
drained_shutdown(o, all) == IF all THEN Range(o) ELSE {}

\* The walk of drain: up to the first open window, or over every entry.
drained(o, all) ==
    {o[i] : i \in {i \in DOMAIN o :
                      all \/ \A j \in 1..i : age[o[j]] >= Window}}

\* The entries of the list o that are in S, in their order: what unlinking
\* the others one by one leaves.
keeping(o, S) ==
    LET kept[i \in 0..Len(o)] == IF i = 0 THEN <<>>
                                 ELSE IF o[i] \in S
                                 THEN Append(kept[i - 1], o[i])
                                 ELSE kept[i - 1]
    IN  kept[Len(o)]

\* drop: the entries D leave the list o, and those of them that hold repeats
\* become summaries, oldest first.
summaries(c, D) == keeping(order[c], {j \in D : held[j] > 0})
without(o, D) == keeping(o, Range(o) \ D)

\* Mutant: the last slot is not used when entries are put back.
restorable_short(o, s) ==
    SubSeq(s, 1, Lowest(Len(s), IF Len(o) < MaxKeys - 1
                                THEN MaxKeys - 1 - Len(o) ELSE 0))

\* restore puts summaries back, oldest first, until the map is full.
restorable(o, s) ==
    SubSeq(s, 1, Lowest(Len(s), IF Len(o) < MaxKeys
                                THEN MaxKeys - Len(o) ELSE 0))

restore(o, a, s) ==
    LET r == restorable(o, s)
        put[i \in 0..Len(r)] == IF i = 0 THEN o
                                ELSE insertOrdered(put[i - 1], a, r[i])
    IN  put[Len(r)]

-----------------------------------------------------------------------------
Init ==
    /\ order = [c \in Coalescers |-> <<>>]
    /\ age = [k \in Keys |-> 0]
    /\ held = [k \in Keys |-> 0]
    /\ seen = [k \in Keys |-> 0]
    /\ written = [k \in Keys |-> 0]
    /\ reported = [k \in Keys |-> 0]
    /\ lost = [k \in Keys |-> 0]
    /\ rowAge = [k \in Keys |-> Window]

\* What is left once an operation has its lists o, ages a, repeats h and
\* written counts w, and has dropped the entries D[c] of each coalescer c:
\* their summaries are written in one transaction, or none is (ok is FALSE)
\* and they are put back, those that do not fit going to the server log.
settle(o, a, D, ok, h, w) ==
    LET s == [c \in Coalescers |-> summaries(c, D[c])]
        out == {k \in Keys : held[k] > 0 /\ \E c \in Coalescers : k \in D[c]}
        full == UNION {Range(s[c]) \ Range(restorable(o[c], s[c])) :
                          c \in Coalescers}
    IN  /\ order' = [c \in Coalescers |->
                        IF ok THEN o[c] ELSE restore(o[c], a, s[c])]
        /\ age' = [k \in Keys |->
                      IF \E c \in Coalescers : k \in Range(order'[c])
                      THEN a[k] ELSE 0]
        /\ held' = [k \in Keys |->
                       IF k \in out /\ (ok \/ k \in full) THEN 0 ELSE h[k]]
        /\ written' = [k \in Keys |->
                          w[k] + IF k \in out /\ ok THEN held[k] ELSE 0]
        /\ lost' = [k \in Keys |->
                       lost[k] + IF k \in out /\ ~ok /\ k \in full
                                 THEN held[k] ELSE 0]

\* writeAuditSummaries succeeds when there is nothing to write.
outcomes(D) ==
    {ok \in BOOLEAN : ok \/ \E c \in Coalescers : summaries(c, D[c]) # <<>>}

only(c, S) == [d \in Coalescers |-> IF d = c THEN S ELSE {}]

arrive(k) ==
    /\ seen[k] < MaxSeen
    /\ seen' = [seen EXCEPT ![k] = @ + 1]

-----------------------------------------------------------------------------
(* One event of key k: admit, evict, the summaries, then its own row *)

WindowOpen(c, k) == k \in Range(order[c]) /\ age[k] < Window

\* Within the window the event is counted, not written.
suppressEvent(c, k) ==
    /\ arrive(k)
    /\ WindowOpen(c, k)
    /\ LET D == evicted(order[c], age, k) IN
       \E ok \in outcomes(only(c, D)) :
          settle([order EXCEPT ![c] = without(@, D)], age, only(c, D), ok,
                 [held EXCEPT ![k] = @ + 1], written)
    /\ UNCHANGED <<reported, rowAge>>

\* The first event of a key, or the first after its window closed, opens a
\* window at the newest end of the list.
opened(c, k) == Append(without(order[c], {k}), k)
evictedBy(c, k) == evicted(opened(c, k), [age EXCEPT ![k] = 0], k)

\* Mutant: the row that closes a window does not count its own event.
closedCount_short(k) == held[k]

\* closed.count: the events the row stands for, 0 without repeats.
closedCount(k) == IF held[k] > 0 THEN held[k] + 1 ELSE 0

\* The event's own row is written.
writeEvent(c, k) ==
    /\ arrive(k)
    /\ ~WindowOpen(c, k)
    /\ \E ok \in outcomes(only(c, evictedBy(c, k))) :
          settle([order EXCEPT ![c] = without(opened(c, k), evictedBy(c, k))],
                 [age EXCEPT ![k] = 0], only(c, evictedBy(c, k)), ok,
                 [held EXCEPT ![k] = 0],
                 [written EXCEPT ![k] =
                     @ + IF closedCount(k) > 0 THEN closedCount(k) ELSE 1])
    /\ rowAge' = [rowAge EXCEPT ![k] = 0]
    /\ UNCHANGED reported

\* reopen: the window just opened is undone.  The window it closed is put
\* back when it held repeats; otherwise the entry is dropped.
reopen(o, k) ==
    IF closedCount(k) = 0 THEN without(o, {k})
    ELSE insertOrdered(without(o, {k}), age, k)

\* Mutant: the window stays open behind the row that was not written.
failEvent_stays(c, k) ==
    /\ arrive(k)
    /\ ~WindowOpen(c, k)
    /\ \E ok \in outcomes(only(c, evictedBy(c, k))) :
          settle([order EXCEPT ![c] = without(opened(c, k), evictedBy(c, k))],
                 [age EXCEPT ![k] = 0], only(c, evictedBy(c, k)), ok,
                 [held EXCEPT ![k] = closedCount(k)], written)
    /\ reported' = [reported EXCEPT ![k] =
                       @ + IF closedCount(k) = 0 THEN 1 ELSE 0]
    /\ UNCHANGED rowAge

\* The event's own row cannot be written: reopen, then restore; a denial is
\* reported to the caller, a failure to the server log.
failEvent(c, k) ==
    /\ arrive(k)
    /\ ~WindowOpen(c, k)
    /\ \E ok \in outcomes(only(c, evictedBy(c, k))) :
          settle([order EXCEPT ![c] =
                     reopen(without(opened(c, k), evictedBy(c, k)), k)],
                 age, only(c, evictedBy(c, k)), ok,
                 [held EXCEPT ![k] = closedCount(k)], written)
    /\ reported' = [reported EXCEPT ![k] =
                       @ + IF closedCount(k) = 0 THEN 1 ELSE 0]
    /\ UNCHANGED rowAge

coalesceDenial(k) ==
    \/ suppressEvent("denials", k)
    \/ writeEvent("denials", k)
    \/ failEvent("denials", k)

coalesceFailure(k) ==
    \/ suppressEvent("failures", k)
    \/ writeEvent("failures", k)
    \/ failEvent("failures", k)

-----------------------------------------------------------------------------
\* The periodic sweep (all = FALSE) and the flush at shutdown (all = TRUE):
\* the summaries of both coalescers share one transaction.
sweepCoalescedAudit(all, ok) ==
    LET D == [c \in Coalescers |-> drained(order[c], all)]
    IN  /\ ok \in outcomes(D)
        /\ settle([c \in Coalescers |-> without(order[c], D[c])], age, D, ok,
                  held, written)
        /\ UNCHANGED <<seen, reported, rowAge>>

\* Time passes.
Tick ==
    /\ \A c \in Coalescers : \A k \in Range(order[c]) : age[k] < MaxAge
    /\ age' = [k \in Keys |->
                  IF \E c \in Coalescers : k \in Range(order[c])
                  THEN age[k] + 1 ELSE 0]
    /\ rowAge' = [k \in Keys |-> Lowest(rowAge[k] + 1, Window)]
    /\ UNCHANGED <<order, held, seen, written, reported, lost>>

Next ==
    \/ \E k \in DenialKeys : coalesceDenial(k)
    \/ \E k \in FailureKeys : coalesceFailure(k)
    \/ \E all, ok \in BOOLEAN : sweepCoalescedAudit(all, ok)
    \/ Tick

Spec == Init /\ [][Next]_vars

(***************************************************************************)
(* Fairness: time passes, the cleanup ticker keeps calling the periodic    *)
(* sweep, and the audit transactions do not fail forever.                  *)
(***************************************************************************)
FairSpec == Spec /\ WF_vars(Tick) /\ SF_vars(sweepCoalescedAudit(FALSE, TRUE))

-----------------------------------------------------------------------------
(* Properties *)

\* Every denial and every failure is accounted for exactly once, whichever
\* transactions failed: a row stands for it, an entry still counts it, its
\* caller was told, or restore wrote it to the server log.
EventsAccounted ==
    \A k \in Keys :
        seen[k] = written[k] + held[k] + reported[k] + lost[k]

\* The map stays within its cap, with every write failing too.
WithinCap == \A c \in Coalescers : Len(order[c]) <= MaxKeys

\* "A refusal is never invisible": an open window stands behind a row that
\* was really written when it opened, also after a failed write, an eviction
\* that was undone or a flush that failed.
OpenWindowHasRow ==
    \A c \in Coalescers : \A k \in KeysOf(c) :
        WindowOpen(c, k) => rowAge[k] = age[k]

\* restore after reopen: a count is given up only when a new key's row was
\* written and took the last slot, and then the count of one key only.  A
\* sweep gives up nothing, nor does a store that fails every write.
LossNeedsRow ==
    [][LET L == {k \in Keys : lost'[k] # lost[k]} IN
       L # {} =>
          /\ Cardinality(L) = 1
          /\ \E c \in Coalescers : \E j \in KeysOf(c) :
                /\ j \notin Range(order[c])
                /\ written'[j] = written[j] + 1
                /\ L \subseteq KeysOf(c)
                /\ Len(order'[c]) = MaxKeys]_vars

\* Suppressed repeats reach the audit log (or the server log) although no
\* further event of the key arrives.
RepeatsReported == \A k \in Keys : held[k] > 0 ~> held[k] = 0

=============================================================================
