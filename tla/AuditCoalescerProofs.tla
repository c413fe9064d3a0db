------------------------ MODULE AuditCoalescerProofs ------------------------
(***************************************************************************)
(* What the coalescers promise, for every set of keys, every window and    *)
(* every cap, whichever transactions fail: no denial and no failure is     *)
(* lost or counted twice, the maps stay within their cap, an open window   *)
(* has a row behind it, and a count is given up only for a new key's row.  *)
(*                                                                         *)
(* The counts come first, since they balance whatever the lists hold.      *)
(* Then the lists: what keeping, insertOrdered and restore return, how     *)
(* much room an operation leaves for its summaries, and one step per       *)
(* operation.                                                              *)
(***************************************************************************)
EXTENDS AuditCoalescer, FiniteSetTheorems, WellFoundedInduction, TLAPS

-----------------------------------------------------------------------------
(* The counts *)

\* The inductive invariant: the counts are natural numbers and balance.
Counts ==
    /\ held \in [Keys -> Nat]
    /\ seen \in [Keys -> Nat]
    /\ written \in [Keys -> Nat]
    /\ reported \in [Keys -> Nat]
    /\ lost \in [Keys -> Nat]

Balanced == Counts /\ EventsAccounted

\* The key an event belongs to is never among the entries evict drops.
LEMMA KeepNotEvicted ==
    ASSUME NEW o, NEW a, NEW keep
    PROVE  keep \notin evicted(o, a, keep)
  BY DEF evicted

\* Writing the summaries, putting them back or giving them up moves the
\* repeats of an entry from one account to another; the key k whose own
\* counts the operation has changed is not among the entries dropped.
LEMMA SettleBalances ==
    ASSUME Counts, NEW o, NEW a, NEW D, NEW ok \in BOOLEAN,
           NEW h \in [Keys -> Nat], NEW w \in [Keys -> Nat],
           \A j \in Keys :
               (\E c \in Coalescers : j \in D[c])
               => h[j] = held[j] /\ w[j] = written[j],
           settle(o, a, D, ok, h, w)
    PROVE  /\ held' \in [Keys -> Nat]
           /\ written' \in [Keys -> Nat]
           /\ lost' \in [Keys -> Nat]
           /\ \A j \in Keys : written'[j] + held'[j] + lost'[j]
                              = w[j] + h[j] + lost[j]
<1> DEFINE s == [c \in Coalescers |-> summaries(c, D[c])]
           out == {k \in Keys :
                      held[k] > 0 /\ \E c \in Coalescers : k \in D[c]}
           full == UNION {Range(s[c]) \ Range(restorable(o[c], s[c])) :
                             c \in Coalescers}
<1>1. /\ held' = [k \in Keys |->
                     IF k \in out /\ (ok \/ k \in full) THEN 0 ELSE h[k]]
      /\ written' = [k \in Keys |->
                        w[k] + IF k \in out /\ ok THEN held[k] ELSE 0]
      /\ lost' = [k \in Keys |->
                     lost[k] + IF k \in out /\ ~ok /\ k \in full
                               THEN held[k] ELSE 0]
  BY Zenon DEF settle
<1>2. \A j \in out : h[j] = held[j] /\ w[j] = written[j]
  OBVIOUS
<1> HIDE DEF s, out, full
<1> QED
  BY <1>1, <1>2 DEF Counts

-----------------------------------------------------------------------------
(* One step per operation *)

\* The arithmetic of one key's accounts: d events arrive, t are reported.
LEMMA Books ==
    ASSUME NEW s \in Nat, NEW w \in Nat, NEW h \in Nat, NEW r \in Nat,
           NEW l \in Nat, NEW w2 \in Nat, NEW h2 \in Nat, NEW w1 \in Nat,
           NEW h1 \in Nat, NEW l1 \in Nat, NEW d \in Nat, NEW t \in Nat,
           s = w + h + r + l,
           w1 + h1 + l1 = w2 + h2 + l,
           w2 + h2 + t = w + h + d
    PROVE  s + d = w1 + h1 + (r + t) + l1
  OBVIOUS

\* The arithmetic of a key without a new event.
LEMMA BooksKept ==
    ASSUME NEW s \in Nat, NEW w \in Nat, NEW h \in Nat, NEW r \in Nat,
           NEW l \in Nat, NEW w1 \in Nat, NEW h1 \in Nat, NEW l1 \in Nat,
           s = w + h + r + l,
           w1 + h1 + l1 = w + h + l
    PROVE  s = w1 + h1 + r + l1
  OBVIOUS

\* One event of key k has moved the counts: h and w are held and written
\* after the event itself, told whether it was reported, and the summaries
\* have been settled.
Moved(k, told, h, w) ==
    /\ h \in [Keys -> Nat] /\ w \in [Keys -> Nat]
    /\ \A j \in Keys \ {k} : h[j] = held[j] /\ w[j] = written[j]
    /\ w[k] + h[k] + told = written[k] + held[k] + 1
    /\ held' \in [Keys -> Nat]
    /\ written' \in [Keys -> Nat]
    /\ lost' \in [Keys -> Nat]
    /\ \A j \in Keys : written'[j] + held'[j] + lost'[j]
                       = w[j] + h[j] + lost[j]
    /\ seen' \in [Keys -> Nat] /\ reported' \in [Keys -> Nat]
    /\ seen'[k] = seen[k] + 1 /\ reported'[k] = reported[k] + told
    /\ \A j \in Keys \ {k} : seen'[j] = seen[j] /\ reported'[j] = reported[j]

\* The books balance after an event.
LEMMA OneEvent ==
    ASSUME Balanced, NEW k \in Keys, NEW told \in Nat, NEW h, NEW w,
           Moved(k, told, h, w)
    PROVE  Balanced'
<1> USE DEF Moved
<1>1. Counts'
  BY DEF Balanced, Counts
<1>2. ASSUME NEW j \in Keys
      PROVE  seen'[j] = written'[j] + held'[j] + reported'[j] + lost'[j]
  <2>1. /\ seen[j] \in Nat /\ reported[j] \in Nat /\ lost[j] \in Nat
        /\ written[j] \in Nat /\ held[j] \in Nat
        /\ w[j] \in Nat /\ h[j] \in Nat
        /\ written'[j] \in Nat /\ held'[j] \in Nat /\ lost'[j] \in Nat
    BY DEF Balanced, Counts
  <2>2. seen[j] = written[j] + held[j] + reported[j] + lost[j]
    BY DEF Balanced, EventsAccounted
  <2>3. written'[j] + held'[j] + lost'[j] = w[j] + h[j] + lost[j]
    OBVIOUS
  <2>4. CASE j = k
    <3>1. seen'[j] = seen[j] + 1 /\ reported'[j] = reported[j] + told
      BY <2>4 DEF Balanced, Counts
    <3>2. w[j] + h[j] + told = written[j] + held[j] + 1
      BY <2>4
    <3>3. seen[j] + 1
          = written'[j] + held'[j] + (reported[j] + told) + lost'[j]
      BY <2>1, <2>2, <2>3, <3>2, Books
    <3> QED
      BY <3>1, <3>3
  <2>5. CASE j # k
    <3>1. seen'[j] = seen[j] /\ reported'[j] = reported[j]
      BY <2>5 DEF Balanced, Counts
    <3>2. written'[j] + held'[j] + lost'[j] = written[j] + held[j] + lost[j]
      BY <2>3, <2>5
    <3> QED
      BY <2>1, <2>2, <3>1, <3>2, BooksKept
  <2> QED
    BY <2>4, <2>5
<1> QED
  BY <1>1, <1>2 DEF Balanced, EventsAccounted

\* Every step of the specification keeps the books balanced.
LEMMA StepBalances == Balanced /\ [Next]_vars => Balanced'
<1> SUFFICES ASSUME Balanced, [Next]_vars PROVE Balanced'
  OBVIOUS
<1>0. Counts
  BY DEF Balanced
<1>1. ASSUME NEW c \in Coalescers, NEW k \in Keys, suppressEvent(c, k)
      PROVE  Balanced'
  <2> DEFINE D == evicted(order[c], age, k)
             h == [held EXCEPT ![k] = @ + 1]
             dropped == only(c, D)
             lists == [order EXCEPT ![c] = without(@, D)]
  <2>1. PICK ok \in BOOLEAN : settle(lists, age, dropped, ok, h, written)
    BY <1>1 DEF suppressEvent, outcomes
  <2>2. /\ h \in [Keys -> Nat] /\ written \in [Keys -> Nat]
        /\ \A j \in Keys \ {k} : h[j] = held[j]
        /\ h[k] = held[k] + 1
    BY <1>0 DEF Counts
  <2>3. \A j \in Keys : (\E d \in Coalescers : j \in dropped[d])
                        => h[j] = held[j] /\ written[j] = written[j]
    BY <2>2, KeepNotEvicted DEF only
  <2>4. /\ seen' \in [Keys -> Nat] /\ reported' \in [Keys -> Nat]
        /\ seen'[k] = seen[k] + 1 /\ reported'[k] = reported[k] + 0
        /\ \A j \in Keys \ {k} :
              seen'[j] = seen[j] /\ reported'[j] = reported[j]
    BY <1>0, <1>1 DEF suppressEvent, arrive, Counts
  <2>5. written[k] + h[k] + 0 = written[k] + held[k] + 1
    BY <1>0, <2>2 DEF Counts
  <2> HIDE DEF D, h, dropped, lists
  <2>6. /\ held' \in [Keys -> Nat]
        /\ written' \in [Keys -> Nat]
        /\ lost' \in [Keys -> Nat]
        /\ \A j \in Keys : written'[j] + held'[j] + lost'[j]
                           = written[j] + h[j] + lost[j]
    BY <1>0, <2>1, <2>2, <2>3, SettleBalances
  <2>7. \A j \in Keys \ {k} : h[j] = held[j] /\ written[j] = written[j]
    BY <2>2
  <2>8. 0 \in Nat
    OBVIOUS
  <2>9. Moved(k, 0, h, written)
    BY <2>2, <2>4, <2>5, <2>6, <2>7 DEF Moved
  <2> QED
    BY <2>8, <2>9, OneEvent
<1>2. ASSUME NEW c \in Coalescers, NEW k \in Keys, writeEvent(c, k)
      PROVE  Balanced'
  <2> DEFINE D == evictedBy(c, k)
             h == [held EXCEPT ![k] = 0]
             n == IF closedCount(k) > 0 THEN closedCount(k) ELSE 1
             w == [written EXCEPT ![k] = @ + n]
             dropped == only(c, D)
             ages == [age EXCEPT ![k] = 0]
             lists == [order EXCEPT ![c] = without(opened(c, k), D)]
  <2>1. PICK ok \in BOOLEAN : settle(lists, ages, dropped, ok, h, w)
    BY <1>2 DEF writeEvent, outcomes
  <2>2. n = held[k] + 1
    BY <1>0 DEF closedCount, Counts
  <2>3. /\ h \in [Keys -> Nat] /\ w \in [Keys -> Nat]
        /\ \A j \in Keys \ {k} : h[j] = held[j] /\ w[j] = written[j]
        /\ h[k] = 0 /\ w[k] = written[k] + held[k] + 1
    BY <1>0, <2>2 DEF Counts
  <2>4. \A j \in Keys : (\E d \in Coalescers : j \in dropped[d])
                        => h[j] = held[j] /\ w[j] = written[j]
    BY <2>3, KeepNotEvicted DEF only, evictedBy
  <2>5. /\ seen' \in [Keys -> Nat] /\ reported' \in [Keys -> Nat]
        /\ seen'[k] = seen[k] + 1 /\ reported'[k] = reported[k] + 0
        /\ \A j \in Keys \ {k} :
              seen'[j] = seen[j] /\ reported'[j] = reported[j]
    BY <1>0, <1>2 DEF writeEvent, arrive, Counts
  <2>6. w[k] + h[k] + 0 = written[k] + held[k] + 1
    BY <1>0, <2>3 DEF Counts
  <2> HIDE DEF D, h, w, n, dropped, ages, lists
  <2>7. /\ held' \in [Keys -> Nat]
        /\ written' \in [Keys -> Nat]
        /\ lost' \in [Keys -> Nat]
        /\ \A j \in Keys : written'[j] + held'[j] + lost'[j]
                           = w[j] + h[j] + lost[j]
    BY <1>0, <2>1, <2>3, <2>4, SettleBalances
  <2>8. 0 \in Nat
    OBVIOUS
  <2>9. Moved(k, 0, h, w)
    BY <2>3, <2>5, <2>6, <2>7 DEF Moved
  <2> QED
    BY <2>8, <2>9, OneEvent
<1>3. ASSUME NEW c \in Coalescers, NEW k \in Keys, failEvent(c, k)
      PROVE  Balanced'
  <2> DEFINE D == evictedBy(c, k)
             n == closedCount(k)
             h == [held EXCEPT ![k] = n]
             told == IF n = 0 THEN 1 ELSE 0
             dropped == only(c, D)
             lists == [order EXCEPT ![c] =
                          reopen(without(opened(c, k), D), k)]
  <2>1. PICK ok \in BOOLEAN : settle(lists, age, dropped, ok, h, written)
    BY <1>3 DEF failEvent, outcomes
  <2>2. n \in Nat /\ told \in Nat /\ n + told = held[k] + 1
    BY <1>0 DEF closedCount, Counts
  <2>3. /\ h \in [Keys -> Nat] /\ written \in [Keys -> Nat]
        /\ \A j \in Keys \ {k} : h[j] = held[j]
        /\ h[k] = n
    BY <1>0, <2>2 DEF Counts
  <2>4. \A j \in Keys : (\E d \in Coalescers : j \in dropped[d])
                        => h[j] = held[j] /\ written[j] = written[j]
    BY <2>3, KeepNotEvicted DEF only, evictedBy
  <2>5. /\ seen' \in [Keys -> Nat] /\ reported' \in [Keys -> Nat]
        /\ seen'[k] = seen[k] + 1 /\ reported'[k] = reported[k] + told
        /\ \A j \in Keys \ {k} :
              seen'[j] = seen[j] /\ reported'[j] = reported[j]
    BY <1>0, <1>3, <2>2 DEF failEvent, arrive, Counts
  <2> HIDE DEF D, h, n, told, dropped, lists
  <2>6. written[k] + h[k] + told = written[k] + held[k] + 1
    BY <1>0, <2>2, <2>3 DEF Counts
  <2>7. /\ held' \in [Keys -> Nat]
        /\ written' \in [Keys -> Nat]
        /\ lost' \in [Keys -> Nat]
        /\ \A j \in Keys : written'[j] + held'[j] + lost'[j]
                           = written[j] + h[j] + lost[j]
    BY <1>0, <2>1, <2>3, <2>4, SettleBalances
  <2>8. \A j \in Keys \ {k} : h[j] = held[j] /\ written[j] = written[j]
    BY <2>3
  <2>9. Moved(k, told, h, written)
    BY <2>3, <2>5, <2>6, <2>7, <2>8 DEF Moved
  <2> QED
    BY <2>2, <2>9, OneEvent
<1>4. ASSUME NEW all \in BOOLEAN, NEW ok \in BOOLEAN,
             sweepCoalescedAudit(all, ok)
      PROVE  Balanced'
  <2> DEFINE D == [c \in Coalescers |-> drained(order[c], all)]
             lists == [c \in Coalescers |-> without(order[c], D[c])]
  <2>1. settle(lists, age, D, ok, held, written)
    BY <1>4 DEF sweepCoalescedAudit
  <2>2. seen' = seen /\ reported' = reported
    BY <1>4 DEF sweepCoalescedAudit
  <2>3. held \in [Keys -> Nat] /\ written \in [Keys -> Nat]
    BY <1>0 DEF Counts
  <2> HIDE DEF D, lists
  <2>4. /\ held' \in [Keys -> Nat]
        /\ written' \in [Keys -> Nat]
        /\ lost' \in [Keys -> Nat]
        /\ \A j \in Keys : written'[j] + held'[j] + lost'[j]
                           = written[j] + held[j] + lost[j]
    BY <1>0, <2>1, <2>3, SettleBalances
  <2>5. Counts'
    BY <1>0, <2>2, <2>4 DEF Counts
  <2>6. ASSUME NEW j \in Keys
        PROVE  seen'[j] = written'[j] + held'[j] + reported'[j] + lost'[j]
    <3>1. seen[j] = written[j] + held[j] + reported[j] + lost[j]
      BY DEF Balanced, EventsAccounted
    <3>2. /\ written[j] \in Nat /\ held[j] \in Nat /\ lost[j] \in Nat
          /\ reported[j] \in Nat
          /\ written'[j] \in Nat /\ held'[j] \in Nat /\ lost'[j] \in Nat
      BY <1>0, <2>4 DEF Counts
    <3>3. seen[j] \in Nat
      BY <1>0 DEF Counts
    <3>4. written'[j] + held'[j] + lost'[j] = written[j] + held[j] + lost[j]
      BY <2>4
    <3>5. seen'[j] = seen[j] /\ reported'[j] = reported[j]
      BY <2>2
    <3> QED
      BY <3>1, <3>2, <3>3, <3>4, <3>5, BooksKept
  <2> QED
    BY <2>5, <2>6 DEF Balanced, EventsAccounted
<1>5. ASSUME Tick PROVE Balanced'
  BY <1>5 DEF Tick, Balanced, Counts, EventsAccounted
<1>6. ASSUME UNCHANGED vars PROVE Balanced'
  BY <1>6 DEF vars, entryVars, ledgerVars, Balanced, Counts, EventsAccounted
<1>7. DenialKeys \subseteq Keys /\ FailureKeys \subseteq Keys
      /\ "denials" \in Coalescers /\ "failures" \in Coalescers
  BY DEF Keys, Coalescers
<1> QED
  BY <1>1, <1>2, <1>3, <1>4, <1>5, <1>6, <1>7
     DEF Next, coalesceDenial, coalesceFailure

\* Every denial (coalesceDenial) and every failure (coalesceFailure) is in a
\* row, held, reported or logged as dropped, exactly once.
THEOREM EventSafety == Spec => []EventsAccounted
<1>1. Init => Balanced
  BY DEF Init, Balanced, Counts, EventsAccounted
<1>2. Balanced => EventsAccounted
  BY DEF Balanced
<1> QED
  BY <1>1, <1>2, StepBalances, PTL DEF Spec

-----------------------------------------------------------------------------
(* Induction over the natural numbers, for a set instead of a predicate *)

\* A set that holds 0 and with every number the next holds them all.
LEMMA SetInduction ==
    ASSUME NEW S, 0 \in S, \A n \in Nat : n \in S => n + 1 \in S
    PROVE  Nat \subseteq S
<1> SUFFICES ASSUME Nat \ S # {} PROVE FALSE
  OBVIOUS
<1>1. PICK R : R = OpToRel(<, Nat) /\ IsWellFoundedOn(R, Nat)
  BY NatLessThanWellFounded
<1>2. PICK x \in Nat \ S : \A y \in Nat \ S : ~ (<<y, x>> \in R)
  BY <1>1, WFMin
<1>3. x # 0 /\ x - 1 \in Nat /\ x - 1 < x
  OBVIOUS
<1>4. <<x - 1, x>> \in R
  BY <1>1, <1>3 DEF OpToRel
<1>5. x - 1 \in S
  BY <1>2, <1>3, <1>4
<1> QED
  BY <1>3, <1>5

-----------------------------------------------------------------------------
(* The entries of a list that are kept *)

\* f[i] is what is kept of the first i entries.
Keeps(f, n, o, S) ==
    f = [i \in 0..n |-> IF i = 0 THEN <<>>
                        ELSE IF o[i] \in S THEN Append(f[i - 1], o[i])
                        ELSE f[i - 1]]

\* One entry more, of a walk that ended with the list t.
Step(t, x, S) == IF x \in S THEN Append(t, x) ELSE t

\* The walk, one entry at a time.
LEMMA KeepsSteps ==
    ASSUME NEW o, NEW S, NEW n \in Nat, NEW f, Keeps(f, n, o, S)
    PROVE  f[0] = <<>> /\ \A i \in 1..n : f[i] = Step(f[i - 1], o[i], S)
<1>1. PICK h : h = [i \in 0..n |-> IF i = 0 THEN <<>>
                        ELSE IF o[i] \in S THEN Append(f[i - 1], o[i])
                        ELSE f[i - 1]]
  OBVIOUS
<1>2. h[0] = <<>>
  BY <1>1
<1>3. ASSUME NEW i \in 1..n PROVE h[i] = Step(f[i - 1], o[i], S)
  BY <1>1 DEF Step
<1>4. f = h
  BY <1>1 DEF Keeps
<1> QED
  BY <1>2, <1>3, <1>4

\* There is such a walk over any list.
LEMMA KeepsExists ==
    ASSUME NEW o, NEW S, NEW n \in Nat
    PROVE  \E f : Keeps(f, n, o, S)
<1> DEFINE Good == {m \in Nat : \E f : Keeps(f, m, o, S)}
<1>1. 0 \in Good
  <2>1. PICK f : f = [i \in 0..0 |-> <<>>]
    OBVIOUS
  <2>2. Keeps(f, 0, o, S)
    BY <2>1 DEF Keeps
  <2> QED
    BY <2>2
<1>2. ASSUME NEW m \in Nat, m \in Good PROVE m + 1 \in Good
  <2>1. PICK f : Keeps(f, m, o, S)
    BY <1>2
  <2>2. PICK g : g = [i \in 0..(m + 1) |->
                        IF i = m + 1 THEN Step(f[m], o[m + 1], S) ELSE f[i]]
    OBVIOUS
  <2>3. f[0] = <<>> /\ \A i \in 1..m : f[i] = Step(f[i - 1], o[i], S)
    BY <2>1, KeepsSteps
  <2>4. \A i \in 0..m : g[i] = f[i]
    BY <2>2
  <2>5. g[m + 1] = Step(f[m], o[m + 1], S)
    BY <2>2
  <2>6. PICK h : h = [i \in 0..(m + 1) |-> IF i = 0 THEN <<>>
                        ELSE IF o[i] \in S THEN Append(g[i - 1], o[i])
                        ELSE g[i - 1]]
    OBVIOUS
  <2>7. h[0] = <<>> /\ \A i \in 1..(m + 1) : h[i] = Step(g[i - 1], o[i], S)
    BY <2>6 DEF Step
  <2>8. ASSUME NEW i \in 0..(m + 1) PROVE g[i] = h[i]
    <3>1. CASE i = 0
      BY <2>3, <2>4, <2>7, <3>1
    <3>2. CASE i = m + 1
      <4>1. i - 1 = m /\ g[m] = f[m] /\ i \in 1..(m + 1)
        BY <2>4, <3>2
      <4> QED
        BY <2>5, <2>7, <3>2, <4>1
    <3>3. CASE i \in 1..m
      <4>1. g[i - 1] = f[i - 1] /\ g[i] = f[i] /\ i \in 1..(m + 1)
        BY <2>4, <3>3
      <4> QED
        BY <2>3, <2>7, <3>3, <4>1
    <3> QED
      BY <3>1, <3>2, <3>3
  <2>9. g = h
    <3>1. g = [i \in 0..(m + 1) |-> g[i]]
      BY <2>2
    <3>2. h = [i \in 0..(m + 1) |-> h[i]]
      BY <2>6
    <3> QED
      BY <2>8, <3>1, <3>2
  <2>10. Keeps(g, m + 1, o, S)
    BY <2>6, <2>9 DEF Keeps
  <2> QED
    BY <2>10
<1>3. Nat \subseteq Good
  <2> HIDE DEF Good
  <2> QED
    BY <1>1, <1>2, SetInduction
<1> QED
  BY <1>3

\* keeping returns what its walk ends with.
LEMMA KeepingRun ==
    ASSUME NEW o, NEW S, Len(o) \in Nat
    PROVE  \E f : /\ f[0] = <<>>
                  /\ \A i \in 1..Len(o) : f[i] = Step(f[i - 1], o[i], S)
                  /\ keeping(o, S) = f[Len(o)]
<1>1. PICK n \in Nat : n = Len(o)
  OBVIOUS
<1>2. \E f : Keeps(f, n, o, S)
  BY KeepsExists
<1>3. PICK f : f = CHOOSE h : Keeps(h, n, o, S)
  OBVIOUS
<1>4. Keeps(f, n, o, S)
  BY <1>2, <1>3
<1>5. f[0] = <<>> /\ \A i \in 1..n : f[i] = Step(f[i - 1], o[i], S)
  BY <1>4, KeepsSteps
<1>6. keeping(o, S) = f[n]
  BY <1>1, <1>3 DEF keeping, Keeps
<1> QED
  BY <1>1, <1>5, <1>6

\* What is kept of a list of members of T: the entries in S, no more of them.
LEMMA KeepingType ==
    ASSUME NEW T, NEW o \in Seq(T), NEW S
    PROVE  /\ keeping(o, S) \in Seq(T) /\ Len(keeping(o, S)) \in Nat
           /\ Len(keeping(o, S)) <= Len(o)
           /\ Range(keeping(o, S)) = Range(o) \cap S
<1>1. PICK n \in Nat : n = Len(o) /\ DOMAIN o = 1..n
  OBVIOUS
<1>2. PICK f : /\ f[0] = <<>> /\ \A i \in 1..n : f[i] = Step(f[i - 1], o[i], S)
               /\ keeping(o, S) = f[n]
  BY <1>1, KeepingRun
<1> DEFINE Fine(m) == /\ f[m] \in Seq(T) /\ Len(f[m]) <= m
                      /\ Range(f[m]) = {o[i] : i \in 1..m} \cap S
           Good == {m \in Nat : m <= n => Fine(m)}
<1>3. 0 \in Good
  <2>1. <<>> \in Seq(T) /\ Len(<<>>) = 0 /\ Range(<<>>) = {}
    BY DEF Range
  <2>2. {o[i] : i \in 1..0} = {}
    OBVIOUS
  <2>3. {} = {} \cap S /\ 0 <= 0
    OBVIOUS
  <2>4. Fine(0)
    BY <1>2, <2>1, <2>2, <2>3, Zenon
  <2> QED
    BY <2>4
<1>4. ASSUME NEW m \in Nat, m \in Good PROVE m + 1 \in Good
  <2> SUFFICES ASSUME m + 1 <= n PROVE Fine(m + 1)
    OBVIOUS
  <2>1. PICK t, x : t = f[m] /\ x = o[m + 1]
    OBVIOUS
  <2>2. /\ t \in Seq(T) /\ Len(t) <= m /\ Range(t) = {o[i] : i \in 1..m} \cap S
        /\ x \in T
    BY <1>1, <1>4, <2>1
  <2>3. f[m + 1] = Step(t, x, S)
    BY <1>1, <1>2, <2>1
  <2>4. {o[i] : i \in 1..(m + 1)} = {o[i] : i \in 1..m} \cup {x}
    BY <2>1
  <2>5. CASE x \in S
    <3>1. f[m + 1] = Append(t, x)
      BY <2>3, <2>5 DEF Step
    <3>2. /\ Append(t, x) \in Seq(T) /\ Len(Append(t, x)) = Len(t) + 1
          /\ Len(t) \in Nat /\ DOMAIN t = 1..Len(t)
          /\ DOMAIN Append(t, x) = 1..(Len(t) + 1)
          /\ Append(t, x)[Len(t) + 1] = x
          /\ \A i \in 1..Len(t) : Append(t, x)[i] = t[i]
      BY <2>2
    <3>3. Range(Append(t, x)) = Range(t) \cup {x}
      BY <3>2 DEF Range
    <3>4. Range(Append(t, x)) = {o[i] : i \in 1..(m + 1)} \cap S
      BY <2>2, <2>4, <2>5, <3>3
    <3>5. Len(Append(t, x)) <= m + 1
      BY <2>2, <3>2
    <3> QED
      BY <3>1, <3>2, <3>4, <3>5
  <2>6. CASE x \notin S
    <3>1. f[m + 1] = t
      BY <2>3, <2>6 DEF Step
    <3>2. Range(t) = {o[i] : i \in 1..(m + 1)} \cap S
      BY <2>2, <2>4, <2>6
    <3>3. Len(t) <= m + 1
      BY <2>2
    <3> QED
      BY <2>2, <3>1, <3>2, <3>3
  <2> QED
    BY <2>5, <2>6
<1>5. Nat \subseteq Good
  <2> HIDE DEF Good
  <2> QED
    BY <1>3, <1>4, SetInduction
<1>6. Fine(n)
  BY <1>5
<1>7. {o[i] : i \in 1..n} = Range(o)
  BY <1>1 DEF Range
<1> QED
  BY <1>1, <1>2, <1>6, <1>7

\* An entry more makes the list kept longer by one when it is kept.
LEMMA StepLen ==
    ASSUME NEW T, NEW t \in Seq(T), NEW x \in T, NEW S
    PROVE  /\ Step(t, x, S) \in Seq(T)
           /\ x \in S => Len(Step(t, x, S)) = Len(t) + 1
           /\ x \notin S => Len(Step(t, x, S)) = Len(t)
<1>1. CASE x \in S
  BY <1>1 DEF Step
<1>2. CASE x \notin S
  <2>1. Len(t) \in Nat
    OBVIOUS
  <2> QED
    BY <1>2, <2>1 DEF Step
<1> QED
  BY <1>1, <1>2

\* How long two disjoint selections f and g of the first m entries can be.
Apart(f, g, T, Z, m) ==
    /\ f \in Seq(T) /\ g \in Seq(T)
    /\ Len(f) + Len(g) <= m
    /\ (\E i \in 1..m : i \in Z) => Len(f) + Len(g) + 1 <= m

\* Entries kept by one of two disjoint sets and not by the other, and an entry
\* that neither keeps, are different entries.
LEMMA KeepingTwo ==
    ASSUME NEW T, NEW o \in Seq(T), NEW S, NEW U, S \cap U = {}, NEW z
    PROVE  /\ Len(keeping(o, S)) + Len(keeping(o, U)) <= Len(o)
           /\ z \in Range(o) /\ z \notin S /\ z \notin U
              => Len(keeping(o, S)) + Len(keeping(o, U)) + 1 <= Len(o)
<1>1. PICK n \in Nat : n = Len(o) /\ DOMAIN o = 1..n
  OBVIOUS
<1>2. PICK f : /\ f[0] = <<>> /\ \A i \in 1..n : f[i] = Step(f[i - 1], o[i], S)
               /\ keeping(o, S) = f[n]
  BY <1>1, KeepingRun
<1>3. PICK g : /\ g[0] = <<>> /\ \A i \in 1..n : g[i] = Step(g[i - 1], o[i], U)
               /\ keeping(o, U) = g[n]
  BY <1>1, KeepingRun
<1>4. PICK Z : Z = {i \in 1..n : o[i] \notin S /\ o[i] \notin U}
  OBVIOUS
<1> DEFINE Good == {m \in Nat : m <= n => Apart(f[m], g[m], T, Z, m)}
<1>5. 0 \in Good
  <2>1. <<>> \in Seq(T) /\ Len(<<>>) = 0
    OBVIOUS
  <2>2. Apart(<<>>, <<>>, T, Z, 0)
    BY <2>1 DEF Apart
  <2> QED
    BY <1>2, <1>3, <2>2
<1>6. ASSUME NEW m \in Nat, m \in Good PROVE m + 1 \in Good
  <2> SUFFICES ASSUME m + 1 <= n PROVE Apart(f[m + 1], g[m + 1], T, Z, m + 1)
    OBVIOUS
  <2>1. PICK t, u, x : t = f[m] /\ u = g[m] /\ x = o[m + 1]
    OBVIOUS
  <2>2. /\ t \in Seq(T) /\ u \in Seq(T) /\ Len(t) + Len(u) <= m /\ x \in T
        /\ (\E i \in 1..m : i \in Z) => Len(t) + Len(u) + 1 <= m
    <3>1. Apart(t, u, T, Z, m) /\ x \in T
      BY <1>1, <1>6, <2>1
    <3> QED
      BY <3>1 DEF Apart
  <2>3. PICK t1, u1 : t1 = f[m + 1] /\ u1 = g[m + 1]
    OBVIOUS
  <2>4. t1 = Step(t, x, S) /\ u1 = Step(u, x, U)
    BY <1>1, <1>2, <1>3, <2>1, <2>3
  <2>6. PICK a \in Nat, b \in Nat : a = Len(t) /\ b = Len(u)
    BY <2>2
  <2>5. /\ t1 \in Seq(T) /\ (x \in S => Len(t1) = a + 1) /\ (x \notin S => Len(t1) = a)
        /\ u1 \in Seq(T) /\ (x \in U => Len(u1) = b + 1) /\ (x \notin U => Len(u1) = b)
    <3>1. CASE x \in S
      <4>1. x \notin U
        BY <3>1
      <4>2. t1 = Append(t, x) /\ u1 = u
        BY <2>4, <3>1, <4>1 DEF Step
      <4> QED
        BY <2>2, <2>6, <3>1, <4>1, <4>2
    <3>2. CASE x \notin S /\ x \in U
      <4>1. t1 = t /\ u1 = Append(u, x)
        BY <2>4, <3>2 DEF Step
      <4> QED
        BY <2>2, <2>6, <3>2, <4>1
    <3>3. CASE x \notin S /\ x \notin U
      <4>1. t1 = t /\ u1 = u
        BY <2>4, <3>3 DEF Step
      <4> QED
        BY <2>2, <2>6, <3>3, <4>1
    <3> QED
      BY <3>1, <3>2, <3>3
  <2>7. m + 1 \in Z <=> (x \notin S /\ x \notin U)
    BY <1>1, <1>4, <2>1
  <2>8. Len(t1) + Len(u1) <= m + 1
    BY <2>2, <2>5, <2>6
  <2>9. ASSUME NEW i \in 1..(m + 1), i \in Z PROVE Len(t1) + Len(u1) + 1 <= m + 1
    <3>1. CASE i = m + 1
      BY <2>2, <2>5, <2>6, <2>7, <2>9, <3>1
    <3>2. CASE i # m + 1
      <4>1. i \in 1..m
        BY <3>2
      <4>2. a + b + 1 <= m
        BY <2>2, <2>6, <2>9, <4>1
      <4> QED
        BY <2>5, <2>6, <4>2
    <3> QED
      BY <3>1, <3>2
  <2>10. Apart(t1, u1, T, Z, m + 1)
    BY <2>5, <2>8, <2>9 DEF Apart
  <2> QED
    BY <2>3, <2>10
<1>7. Nat \subseteq Good
  <2> HIDE DEF Good
  <2> QED
    BY <1>5, <1>6, SetInduction
<1>8. Apart(f[n], g[n], T, Z, n)
  BY <1>7
<1>9. z \in Range(o) /\ z \notin S /\ z \notin U => \E i \in 1..n : i \in Z
  BY <1>1, <1>4 DEF Range
<1> QED
  BY <1>1, <1>2, <1>3, <1>8, <1>9 DEF Apart

\* An entry that is not kept makes the list shorter.
LEMMA KeepingOne ==
    ASSUME NEW T, NEW o \in Seq(T), NEW S, NEW z \in Range(o), z \notin S
    PROVE  Len(keeping(o, S)) + 1 <= Len(o)
<1>1. Len(keeping(o, S)) + Len(keeping(o, {})) + 1 <= Len(o)
  BY KeepingTwo
<1>2. Len(keeping(o, S)) \in Nat /\ Len(keeping(o, {})) \in Nat /\ Len(o) \in Nat
  BY KeepingType
<1> QED
  BY <1>1, <1>2

\* Nothing is kept of an empty list.
LEMMA KeepingEmpty == \A S : keeping(<<>>, S) = <<>>
<1> SUFFICES ASSUME NEW S PROVE keeping(<<>>, S) = <<>>
  OBVIOUS
<1>1. Len(<<>>) = 0
  OBVIOUS
<1> QED
  BY <1>1, KeepingRun

\* An entry added at the newest end is kept, or not, last.
LEMMA KeepingAppend ==
    ASSUME NEW T, NEW o \in Seq(T), NEW x \in T, NEW S
    PROVE  keeping(Append(o, x), S) = Step(keeping(o, S), x, S)
<1>1. PICK n \in Nat : n = Len(o) /\ DOMAIN o = 1..n
  OBVIOUS
<1>2. PICK q : q = Append(o, x)
  OBVIOUS
<1>3. Len(q) = n + 1 /\ Len(q) \in Nat /\ q[n + 1] = x /\ \A i \in 1..n : q[i] = o[i]
  BY <1>1, <1>2
<1>4. PICK f : /\ f[0] = <<>> /\ \A i \in 1..n : f[i] = Step(f[i - 1], o[i], S)
               /\ keeping(o, S) = f[n]
  BY <1>1, KeepingRun
<1>5. PICK g : /\ g[0] = <<>> /\ \A i \in 1..(n + 1) : g[i] = Step(g[i - 1], q[i], S)
               /\ keeping(q, S) = g[n + 1]
  <2>1. \E g : /\ g[0] = <<>> /\ \A i \in 1..Len(q) : g[i] = Step(g[i - 1], q[i], S)
               /\ keeping(q, S) = g[Len(q)]
    BY <1>3, KeepingRun
  <2> QED
    BY <1>3, <2>1
<1> DEFINE Good == {m \in Nat : m <= n => f[m] = g[m]}
<1>6. 0 \in Good
  BY <1>4, <1>5
<1>7. ASSUME NEW m \in Nat, m \in Good PROVE m + 1 \in Good
  <2> SUFFICES ASSUME m + 1 <= n PROVE f[m + 1] = g[m + 1]
    OBVIOUS
  <2>1. f[m] = g[m]
    BY <1>7
  <2>2. f[m + 1] = Step(f[m], o[m + 1], S)
    BY <1>4
  <2>3. g[m + 1] = Step(g[m], q[m + 1], S)
    BY <1>5
  <2>4. q[m + 1] = o[m + 1]
    BY <1>3
  <2> QED
    BY <2>1, <2>2, <2>3, <2>4
<1>8. Nat \subseteq Good
  <2> HIDE DEF Good
  <2> QED
    BY <1>6, <1>7, SetInduction
<1>9. f[n] = g[n]
  BY <1>8
<1>10. g[n + 1] = Step(g[n], x, S)
  BY <1>3, <1>5
<1> QED
  BY <1>2, <1>4, <1>5, <1>9, <1>10

\* Unlinking entries twice is unlinking both sets at once.
LEMMA KeepingTwice ==
    ASSUME NEW T, NEW o \in Seq(T), NEW S, NEW U
    PROVE  keeping(keeping(o, S), U) = keeping(o, S \cap U)
<1>1. PICK n \in Nat : n = Len(o) /\ DOMAIN o = 1..n
  OBVIOUS
<1>2. PICK f : /\ f[0] = <<>> /\ \A i \in 1..n : f[i] = Step(f[i - 1], o[i], S)
               /\ keeping(o, S) = f[n]
  BY <1>1, KeepingRun
<1>3. PICK V : V = S \cap U
  OBVIOUS
<1>4. PICK g : /\ g[0] = <<>> /\ \A i \in 1..n : g[i] = Step(g[i - 1], o[i], V)
               /\ keeping(o, V) = g[n]
  BY <1>1, KeepingRun
<1> DEFINE Fine(m) == f[m] \in Seq(T) /\ keeping(f[m], U) = g[m]
           Good == {m \in Nat : m <= n => Fine(m)}
<1>5. 0 \in Good
  <2>1. <<>> \in Seq(T)
    OBVIOUS
  <2>2. Fine(0)
    BY <1>2, <1>4, <2>1, KeepingEmpty
  <2> QED
    BY <2>2
<1>6. ASSUME NEW m \in Nat, m \in Good PROVE m + 1 \in Good
  <2> SUFFICES ASSUME m + 1 <= n PROVE Fine(m + 1)
    OBVIOUS
  <2>1. PICK t, u, x, t1, u1 : /\ t = f[m] /\ u = g[m] /\ x = o[m + 1]
                               /\ t1 = f[m + 1] /\ u1 = g[m + 1]
    OBVIOUS
  <2>2. t \in Seq(T) /\ keeping(t, U) = u /\ x \in T
    BY <1>1, <1>6, <2>1
  <2>3. t1 = Step(t, x, S) /\ u1 = Step(u, x, V)
    BY <1>1, <1>2, <1>4, <2>1
  <2>4. t1 \in Seq(T)
    BY <2>2, <2>3, StepLen
  <2>5. keeping(t1, U) = u1
    <3>1. CASE x \in S
      <4>1. t1 = Append(t, x) /\ u1 = Step(u, x, U)
        BY <1>3, <2>3, <3>1 DEF Step
      <4> QED
        BY <2>2, <4>1, KeepingAppend
    <3>2. CASE x \notin S
      BY <1>3, <2>2, <2>3, <3>2 DEF Step
    <3> QED
      BY <3>1, <3>2
  <2> QED
    BY <2>1, <2>4, <2>5
<1>7. Nat \subseteq Good
  <2> HIDE DEF Good
  <2> QED
    BY <1>5, <1>6, SetInduction
<1>8. Fine(n)
  BY <1>7
<1> QED
  BY <1>2, <1>3, <1>4, <1>8

-----------------------------------------------------------------------------
(* Entries that are put back *)

\* An entry put into a list, wherever, is all that is new in it.
LEMMA Inserted ==
    ASSUME NEW T, NEW o \in Seq(T), NEW k \in T, NEW p \in 1..(Len(o) + 1)
    PROVE  /\ InsertAt(o, p, k) \in Seq(T) /\ Len(InsertAt(o, p, k)) = Len(o) + 1
           /\ Range(InsertAt(o, p, k)) = Range(o) \cup {k}
<1>1. PICK n \in Nat : n = Len(o) /\ DOMAIN o = 1..n
  OBVIOUS
<1>2. p \in Nat /\ 1 <= p /\ p <= n + 1
  BY <1>1
<1>3. PICK l, r : l = SubSeq(o, 1, p - 1) /\ r = SubSeq(o, p, n)
  OBVIOUS
<1>4. /\ l \in Seq(T) /\ Len(l) = p - 1 /\ \A i \in 1..(p - 1) : l[i] = o[i]
  BY <1>1, <1>2, <1>3
<1>5. /\ r \in Seq(T) /\ Len(r) = n - p + 1 /\ \A i \in 1..(n - p + 1) : r[i] = o[p + i - 1]
  BY <1>1, <1>2, <1>3
<1>6. PICK q : q = InsertAt(o, p, k)
  OBVIOUS
<1>7. q = (l \o <<k>>) \o r
  BY <1>1, <1>3, <1>6 DEF InsertAt
<1>8. PICK m : m = l \o <<k>>
  OBVIOUS
<1>9. m \in Seq(T) /\ Len(m) = p /\ m[p] = k /\ \A i \in 1..(p - 1) : m[i] = o[i]
  BY <1>2, <1>4, <1>8
<1>10. /\ q \in Seq(T) /\ Len(q) = n + 1 /\ q[p] = k
       /\ \A i \in 1..(p - 1) : q[i] = o[i]
       /\ \A i \in (p + 1)..(n + 1) : q[i] = o[i - 1]
  <2>1. q = m \o r
    BY <1>7, <1>8
  <2>0. m \in Seq(T) /\ r \in Seq(T)
    BY <1>5, <1>9
  <2>2. q \in Seq(T) /\ Len(q) = Len(m) + Len(r)
    BY <2>0, <2>1
  <2>3. \A i \in 1..p : q[i] = m[i]
    BY <1>2, <1>5, <1>9, <2>1
  <2>4. ASSUME NEW i \in (p + 1)..(n + 1) PROVE q[i] = o[i - 1]
    <3>0. i \in (Len(m) + 1)..(Len(m) + Len(r)) /\ i - p \in 1..(n - p + 1)
      BY <1>2, <1>5, <1>9
    <3>1. q[i] = r[i - p] /\ i - p \in 1..(n - p + 1)
      BY <1>9, <2>0, <2>1, <3>0
    <3>2. r[i - p] = o[p + (i - p) - 1] /\ p + (i - p) - 1 = i - 1
      BY <1>2, <1>5, <3>1
    <3> QED
      BY <3>1, <3>2
  <2> QED
    BY <1>2, <1>5, <1>9, <2>2, <2>3, <2>4
<1>11. Range(q) = Range(o) \cup {k}
  <2>0. DOMAIN q = 1..(n + 1)
    BY <1>10
  <2>1. ASSUME NEW x \in Range(q) PROVE x \in Range(o) \cup {k}
    <3>1. PICK i \in 1..(n + 1) : x = q[i]
      BY <2>0, <2>1 DEF Range
    <3>2. CASE i < p
      <4>1. i \in 1..(p - 1) /\ i \in 1..n
        BY <1>2, <3>2
      <4> QED
        BY <1>1, <1>10, <3>1, <4>1 DEF Range
    <3>3. CASE i = p
      BY <1>10, <3>1, <3>3
    <3>4. CASE i > p
      <4>1. i \in (p + 1)..(n + 1) /\ i - 1 \in 1..n
        BY <1>2, <3>4
      <4> QED
        BY <1>1, <1>10, <3>1, <4>1 DEF Range
    <3> QED
      BY <1>2, <3>2, <3>3, <3>4
  <2>2. k \in Range(q)
    BY <1>2, <1>10, <2>0 DEF Range
  <2>3. ASSUME NEW x \in Range(o) PROVE x \in Range(q)
    <3>1. PICK i \in 1..n : x = o[i]
      BY <1>1, <2>3 DEF Range
    <3>2. CASE i < p
      <4>1. i \in 1..(p - 1) /\ i \in 1..(n + 1)
        BY <1>2, <3>2
      <4> QED
        BY <1>10, <2>0, <3>1, <4>1 DEF Range
    <3>3. CASE i >= p
      <4>1. i + 1 \in (p + 1)..(n + 1) /\ i + 1 \in 1..(n + 1) /\ (i + 1) - 1 = i
        BY <1>2, <3>3
      <4>2. q[i + 1] = x
        BY <1>10, <3>1, <4>1
      <4> QED
        BY <2>0, <4>1, <4>2 DEF Range
    <3> QED
      BY <1>2, <3>2, <3>3
  <2> QED
    BY <2>1, <2>2, <2>3
<1> QED
  BY <1>1, <1>6, <1>10, <1>11

\* insertOrdered puts k somewhere in the list.
LEMMA InsertedOrdered ==
    ASSUME NEW T, NEW o \in Seq(T), NEW k \in T, NEW a
    PROVE  /\ insertOrdered(o, a, k) \in Seq(T) /\ Len(insertOrdered(o, a, k)) = Len(o) + 1
           /\ Range(insertOrdered(o, a, k)) = Range(o) \cup {k}
<1>1. PICK n \in Nat : n = Len(o) /\ DOMAIN o = 1..n
  OBVIOUS
<1>2. PICK B : B = {i \in DOMAIN o : \A j \in 1..i : a[o[j]] >= a[k]}
  OBVIOUS
<1>3. IsFiniteSet(1..n) /\ Cardinality(1..n) = n
  <2>1. 1..n = 1..n /\ IsFiniteSet(1..n) /\ Cardinality(1..n) = IF 1 > n THEN 0 ELSE n - 1 + 1
    BY FS_Interval
  <2> QED
    BY <2>1
<1>4. B \in SUBSET (1..n)
  BY <1>1, <1>2
<1>5. Cardinality(B) \in Nat /\ Cardinality(B) <= n
  BY <1>3, <1>4, FS_Subset, FS_CardinalityType
<1>6. PICK p : p = 1 + Cardinality(B)
  OBVIOUS
<1>7. p \in 1..(Len(o) + 1)
  BY <1>1, <1>5, <1>6
<1>8. insertOrdered(o, a, k) = InsertAt(o, p, k)
  BY <1>2, <1>6 DEF insertOrdered
<1> QED
  BY <1>7, <1>8, Inserted

\* f[i] is the list o with the first i entries of r put back.
Puts(f, n, o, a, r) ==
    f = [i \in 0..n |-> IF i = 0 THEN o ELSE insertOrdered(f[i - 1], a, r[i])]

\* The same, entry by entry.
PutRun(f, n, o, a, r) ==
    f[0] = o /\ \A i \in 1..n : f[i] = insertOrdered(f[i - 1], a, r[i])

\* The walk, one entry at a time.
LEMMA PutsSteps ==
    ASSUME NEW o, NEW a, NEW r, NEW n \in Nat, NEW f, Puts(f, n, o, a, r)
    PROVE  PutRun(f, n, o, a, r)
<1>1. PICK h : h = [i \in 0..n |-> IF i = 0 THEN o ELSE insertOrdered(f[i - 1], a, r[i])]
  OBVIOUS
<1>2. h[0] = o
  BY <1>1
<1>3. ASSUME NEW i \in 1..n PROVE h[i] = insertOrdered(f[i - 1], a, r[i])
  BY <1>1
<1>4. f = h
  BY <1>1 DEF Puts
<1> QED
  BY <1>2, <1>3, <1>4 DEF PutRun

\* There is such a walk.
LEMMA PutsExists ==
    ASSUME NEW o, NEW a, NEW r, NEW n \in Nat
    PROVE  \E f : Puts(f, n, o, a, r)
<1> DEFINE Good == {m \in Nat : \E f : Puts(f, m, o, a, r)}
<1>1. 0 \in Good
  <2>1. PICK f : f = [i \in 0..0 |-> o]
    OBVIOUS
  <2>2. Puts(f, 0, o, a, r)
    BY <2>1 DEF Puts
  <2> QED
    BY <2>2
<1>2. ASSUME NEW m \in Nat, m \in Good PROVE m + 1 \in Good
  <2>1. PICK f : Puts(f, m, o, a, r)
    BY <1>2
  <2>2. PICK g : g = [i \in 0..(m + 1) |->
                        IF i = m + 1 THEN insertOrdered(f[m], a, r[m + 1]) ELSE f[i]]
    OBVIOUS
  <2>3. f[0] = o /\ \A i \in 1..m : f[i] = insertOrdered(f[i - 1], a, r[i])
    BY <2>1, PutsSteps DEF PutRun
  <2>4. \A i \in 0..m : g[i] = f[i]
    BY <2>2
  <2>5. g[m + 1] = insertOrdered(f[m], a, r[m + 1])
    BY <2>2
  <2>6. PICK h : h = [i \in 0..(m + 1) |->
                        IF i = 0 THEN o ELSE insertOrdered(g[i - 1], a, r[i])]
    OBVIOUS
  <2>7. h[0] = o /\ \A i \in 1..(m + 1) : h[i] = insertOrdered(g[i - 1], a, r[i])
    BY <2>6
  <2>8. ASSUME NEW i \in 0..(m + 1) PROVE g[i] = h[i]
    <3>1. CASE i = 0
      BY <2>3, <2>4, <2>7, <3>1
    <3>2. CASE i = m + 1
      <4>1. i - 1 = m /\ g[m] = f[m] /\ i \in 1..(m + 1)
        BY <2>4, <3>2
      <4> QED
        BY <2>5, <2>7, <3>2, <4>1
    <3>3. CASE i \in 1..m
      <4>1. g[i - 1] = f[i - 1] /\ g[i] = f[i] /\ i \in 1..(m + 1)
        BY <2>4, <3>3
      <4> QED
        BY <2>3, <2>7, <3>3, <4>1
    <3> QED
      BY <3>1, <3>2, <3>3
  <2>9. g = h
    <3>1. g = [i \in 0..(m + 1) |-> g[i]]
      BY <2>2
    <3>2. h = [i \in 0..(m + 1) |-> h[i]]
      BY <2>6
    <3> QED
      BY <2>8, <3>1, <3>2
  <2>10. Puts(g, m + 1, o, a, r)
    BY <2>6, <2>9 DEF Puts
  <2> QED
    BY <2>10
<1>3. Nat \subseteq Good
  <2> HIDE DEF Good
  <2> QED
    BY <1>1, <1>2, SetInduction
<1> QED
  BY <1>3

\* The list grows by the entries put back and by nothing else.
LEMMA PutsType ==
    ASSUME NEW T, NEW o \in Seq(T), NEW r \in Seq(T), NEW a, NEW f,
           PutRun(f, Len(r), o, a, r)
    PROVE  /\ f[Len(r)] \in Seq(T) /\ Len(f[Len(r)]) = Len(o) + Len(r)
           /\ Range(f[Len(r)]) = Range(o) \cup Range(r)
<1> PICK n \in Nat : n = Len(r)
  OBVIOUS
<1> DEFINE First(m) == {r[i] : i \in 1..m}
           Fine(m) == /\ f[m] \in Seq(T) /\ Len(f[m]) = Len(o) + m
                      /\ Range(f[m]) = Range(o) \cup First(m)
           Good == {m \in Nat : m <= n => Fine(m)}
<1>0. /\ Len(o) \in Nat /\ DOMAIN r = 1..n /\ f[0] = o
      /\ \A i \in 1..n : f[i] = insertOrdered(f[i - 1], a, r[i])
  BY DEF PutRun
<1>1. 0 \in Good
  <2>1. First(0) = {}
    OBVIOUS
  <2>2. Len(o) + 0 = Len(o)
    BY <1>0
  <2> HIDE DEF First
  <2>3. Fine(0)
    BY <1>0, <2>1, <2>2
  <2> QED
    BY <2>3
<1>2. ASSUME NEW m \in Nat, m \in Good PROVE m + 1 \in Good
  <2> SUFFICES ASSUME m + 1 <= n PROVE Fine(m + 1)
    OBVIOUS
  <2>1. PICK t, x, t1 : t = f[m] /\ x = r[m + 1] /\ t1 = f[m + 1]
    OBVIOUS
  <2>2. /\ t \in Seq(T) /\ Len(t) = Len(o) + m /\ Range(t) = Range(o) \cup First(m)
        /\ x \in T
    BY <1>0, <1>2, <2>1
  <2>3. t1 = insertOrdered(t, a, x)
    BY <1>0, <2>1
  <2>4. t1 \in Seq(T) /\ Len(t1) = Len(t) + 1 /\ Range(t1) = Range(t) \cup {x}
    BY <2>2, <2>3, InsertedOrdered
  <2>5. First(m + 1) = First(m) \cup {x}
    BY <2>1
  <2> HIDE DEF First
  <2>6. Len(t1) = Len(o) + (m + 1)
    BY <1>0, <2>2, <2>4
  <2>7. Range(t1) = Range(o) \cup First(m + 1)
    BY <2>2, <2>4, <2>5
  <2> QED
    BY <2>1, <2>4, <2>6, <2>7
<1>3. Nat \subseteq Good
  <2> HIDE DEF Good
  <2> QED
    BY <1>1, <1>2, SetInduction
<1>4. Fine(n)
  <2> HIDE DEF Fine
  <2>1. \A m \in Nat : m <= n => Fine(m)
    BY <1>3
  <2> QED
    BY <2>1
<1>5. First(n) = Range(r)
  BY <1>0 DEF Range
<1> QED
  BY <1>4, <1>5

\* Every entry that restore may put back is on the list afterwards.
LEMMA RestoredOf ==
    ASSUME NEW T, NEW o \in Seq(T), NEW s, NEW a, restorable(o, s) \in Seq(T)
    PROVE  /\ restore(o, a, s) \in Seq(T)
           /\ Len(restore(o, a, s)) = Len(o) + Len(restorable(o, s))
           /\ Range(restore(o, a, s)) = Range(o) \cup Range(restorable(o, s))
<1>1. PICK r : r = restorable(o, s)
  OBVIOUS
<1>2. PICK n \in Nat : n = Len(r) /\ r \in Seq(T)
  BY <1>1
<1>3. \E f : Puts(f, n, o, a, r)
  BY PutsExists
<1>4. PICK f : f = CHOOSE h : Puts(h, n, o, a, r)
  OBVIOUS
<1>5. Puts(f, n, o, a, r)
  BY <1>3, <1>4
<1>6. PutRun(f, n, o, a, r)
  BY <1>5, PutsSteps
<1>7. restore(o, a, s) = f[n]
  <2>1. restore(o, a, s)
          = (CHOOSE h : h = [i \in 0..Len(r) |->
                               IF i = 0 THEN o ELSE insertOrdered(h[i - 1], a, r[i])])[Len(r)]
    BY <1>1, Zenon DEF restore
  <2> QED
    BY <1>2, <1>4, <2>1 DEF Puts
<1>8. f[n] \in Seq(T) /\ Len(f[n]) = Len(o) + n /\ Range(f[n]) = Range(o) \cup Range(r)
  <2>1. PutRun(f, Len(r), o, a, r)
    BY <1>2, <1>6
  <2>2. /\ f[Len(r)] \in Seq(T) /\ Len(f[Len(r)]) = Len(o) + Len(r)
        /\ Range(f[Len(r)]) = Range(o) \cup Range(r)
    BY <1>2, <2>1, PutsType
  <2> QED
    BY <1>2, <2>2
<1> QED
  BY <1>1, <1>2, <1>7, <1>8

\* How much of the summaries s fits on the list o.
LEMMA Room ==
    ASSUME NEW T, NEW o \in Seq(T), NEW s \in Seq(T)
    PROVE  /\ restorable(o, s) \in Seq(T) /\ Len(restorable(o, s)) \in Nat
           /\ Range(restorable(o, s)) \subseteq Range(s)
           /\ Len(o) <= MaxKeys => Len(o) + Len(restorable(o, s)) <= MaxKeys
           /\ Len(o) + Len(s) <= MaxKeys => restorable(o, s) = s
           /\ Len(o) <= MaxKeys /\ Len(o) + Len(s) <= MaxKeys + 1 =>
                Range(s) \ Range(restorable(o, s)) \subseteq {s[Len(s)]}
           /\ Len(o) <= MaxKeys /\ ~(Range(s) \subseteq Range(restorable(o, s))) =>
                Len(o) + Len(restorable(o, s)) = MaxKeys
<1>1. PICK n \in Nat, l \in Nat : n = Len(s) /\ l = Len(o) /\ DOMAIN s = 1..n
  OBVIOUS
<1>2. MaxKeys \in Nat
  BY CoalescerAssumption
<1>3. PICK m : m = Lowest(n, IF l < MaxKeys THEN MaxKeys - l ELSE 0)
  OBVIOUS
<1>4. /\ m \in Nat /\ m <= n /\ (l <= MaxKeys => l + m <= MaxKeys)
      /\ (l + n <= MaxKeys => m = n)
      /\ (l <= MaxKeys /\ m # n => l + m = MaxKeys)
  BY <1>1, <1>2, <1>3 DEF Lowest
<1>5. PICK r : r = restorable(o, s)
  OBVIOUS
<1>6. r = SubSeq(s, 1, m)
  BY <1>1, <1>3, <1>5 DEF restorable
<1>7. r \in Seq(T) /\ Len(r) = m /\ DOMAIN r = 1..m /\ \A i \in 1..m : r[i] = s[i]
  BY <1>1, <1>4, <1>6
<1>8. Range(r) \subseteq Range(s)
  BY <1>1, <1>4, <1>7 DEF Range
<1>9. m = n => r = s
  <2> SUFFICES ASSUME m = n PROVE r = s
    OBVIOUS
  <2>1. r = SubSeq(s, 1, Len(s))
    BY <1>1, <1>6
  <2> QED
    BY <2>1
<1>10. ASSUME l <= MaxKeys, l + n <= MaxKeys + 1, NEW x \in Range(s), x \notin Range(r)
       PROVE  x = s[n]
  <2>1. PICK i \in 1..n : x = s[i]
    BY <1>1, <1>10 DEF Range
  <2>2. i \notin 1..m
    BY <1>7, <1>10, <2>1 DEF Range
  <2>3. m # n
    BY <2>1, <2>2
  <2>4. i = n
    BY <1>1, <1>2, <1>4, <1>10, <2>1, <2>2, <2>3
  <2> QED
    BY <2>1, <2>4
<1>11. ~(Range(s) \subseteq Range(r)) => m # n
  BY <1>9
<1> QED
  BY <1>1, <1>4, <1>5, <1>7, <1>8, <1>9, <1>10, <1>11

-----------------------------------------------------------------------------
(* The lists, the repeats they hold and the windows they keep open *)

\* Each list holds keys of its own coalescer and stays within the cap.
Lists ==
    /\ DOMAIN order = Coalescers
    /\ \A c \in Coalescers : order[c] \in Seq(KeysOf(c)) /\ Len(order[c]) <= MaxKeys

\* A key that holds repeats has an entry.
HeldListed ==
    \A c \in Coalescers : \A k \in KeysOf(c) : held[k] > 0 => k \in Range(order[c])

\* The ages of the windows and of the rows.
Ages == age \in [Keys -> Nat] /\ rowAge \in [Keys -> Nat]

\* The part of the inductive invariant about the lists.
Kept == Lists /\ HeldListed /\ Ages /\ OpenWindowHasRow

\* The entries dropped that hold repeats, and those of them that do not fit
\* when they are put back.
Out(D, k) == held[k] > 0 /\ \E c \in Coalescers : k \in D[c]

Full(o, D, c) ==
    Range(summaries(c, D[c])) \ Range(restorable(o[c], summaries(c, D[c])))

\* The lists, ages, repeats and losses that settle leaves.
LEMMA SettleParts ==
    ASSUME NEW o, NEW a, NEW D, NEW ok, NEW h, NEW w, settle(o, a, D, ok, h, w)
    PROVE  /\ order' = [c \in Coalescers |->
                          IF ok THEN o[c] ELSE restore(o[c], a, summaries(c, D[c]))]
           /\ age' = [k \in Keys |->
                        IF \E c \in Coalescers : k \in Range(order'[c]) THEN a[k] ELSE 0]
           /\ held' = [k \in Keys |->
                         IF Out(D, k) /\ (ok \/ \E c \in Coalescers : k \in Full(o, D, c))
                         THEN 0 ELSE h[k]]
           /\ lost' = [k \in Keys |->
                         lost[k] + IF Out(D, k) /\ ~ok
                                      /\ \E c \in Coalescers : k \in Full(o, D, c)
                                   THEN held[k] ELSE 0]
<1> DEFINE s == [c \in Coalescers |-> summaries(c, D[c])]
           out == {k \in Keys :
                      held[k] > 0 /\ \E c \in Coalescers : k \in D[c]}
           full == UNION {Range(s[c]) \ Range(restorable(o[c], s[c])) :
                             c \in Coalescers}
<1>1. /\ order' = [c \in Coalescers |->
                     IF ok THEN o[c] ELSE restore(o[c], a, s[c])]
      /\ age' = [k \in Keys |->
                   IF \E c \in Coalescers : k \in Range(order'[c]) THEN a[k] ELSE 0]
      /\ held' = [k \in Keys |->
                     IF k \in out /\ (ok \/ k \in full) THEN 0 ELSE h[k]]
      /\ lost' = [k \in Keys |->
                     lost[k] + IF k \in out /\ ~ok /\ k \in full
                               THEN held[k] ELSE 0]
  BY Zenon DEF settle
<1>2. \A c \in Coalescers : s[c] = summaries(c, D[c])
  OBVIOUS
<1>3. \A k \in Keys : k \in out <=> Out(D, k)
  BY DEF Out
<1>4. \A k : k \in full <=> \E c \in Coalescers : k \in Full(o, D, c)
  <2>1. \A k : k \in full
          <=> \E c \in Coalescers : k \in Range(s[c]) \ Range(restorable(o[c], s[c]))
    OBVIOUS
  <2> HIDE DEF s, full
  <2> QED
    BY <1>2, <2>1 DEF Full
<1> HIDE DEF s, out, full
<1> QED
  BY <1>1, <1>2, <1>3, <1>4

\* A key belongs to one coalescer.
LEMMA KeysApart ==
    ASSUME NEW c \in Coalescers, NEW d \in Coalescers, NEW k \in KeysOf(c), k \in KeysOf(d)
    PROVE  c = d /\ k \in Keys
BY CoalescerAssumption DEF Coalescers, KeysOf, Keys

\* Every key belongs to a coalescer.
LEMMA CoalescerKeys ==
    /\ \A k \in Keys : \E c \in Coalescers : k \in KeysOf(c)
    /\ \A c \in Coalescers : KeysOf(c) \subseteq Keys
BY DEF Coalescers, KeysOf, Keys

\* What an operation has prepared before it settles: lists within the cap
\* that still hold every key with repeats it has not dropped, and windows,
\* of the entries kept and of those dropped, with their row behind them.
Ready(o, a, D, h, rows) ==
    /\ \A c \in Coalescers : /\ o[c] \in Seq(KeysOf(c)) /\ Len(o[c]) <= MaxKeys
                             /\ D[c] \subseteq Range(order[c])
    /\ \A c \in Coalescers : \A k \in KeysOf(c) :
          h[k] > 0 /\ k \notin D[c] => k \in Range(o[c])
    /\ \A c \in Coalescers : \A k \in D[c] : h[k] = held[k]
    /\ \A c \in Coalescers : \A k \in Range(o[c]) \cup D[c] :
          a[k] < Window => rows[k] = a[k]
    /\ a \in [Keys -> Nat] /\ rows \in [Keys -> Nat] /\ h \in [Keys -> Nat]

\* The list of one coalescer once its summaries are written or put back.
LEMMA SettledList ==
    ASSUME Lists, NEW c \in Coalescers, NEW o \in Seq(KeysOf(c)), Len(o) <= MaxKeys,
           NEW D, NEW a, NEW ok \in BOOLEAN,
           NEW q, q = IF ok THEN o ELSE restore(o, a, summaries(c, D))
    PROVE  /\ q \in Seq(KeysOf(c)) /\ Len(q) <= MaxKeys
           /\ Range(o) \subseteq Range(q) /\ Range(q) \subseteq Range(o) \cup D
           /\ ~ok => Range(restorable(o, summaries(c, D))) \subseteq Range(q)
           /\ ~ok => Len(q) = Len(o) + Len(restorable(o, summaries(c, D)))
<1>1. PICK T, s : T = KeysOf(c) /\ s = summaries(c, D)
  OBVIOUS
<1>2. s \in Seq(T) /\ Range(s) \subseteq D
  <2>1. PICK S : S = {j \in D : held[j] > 0}
    OBVIOUS
  <2>2. s = keeping(order[c], S) /\ order[c] \in Seq(T) /\ S \subseteq D
    BY <1>1, <2>1 DEF summaries, Lists
  <2> QED
    BY <2>2, KeepingType
<1>3. PICK r : r = restorable(o, s)
  OBVIOUS
<1>4. r \in Seq(T) /\ Range(r) \subseteq Range(s) /\ Len(o) + Len(r) <= MaxKeys
  BY <1>1, <1>2, <1>3, Room
<1>5. CASE ok
  BY <1>5
<1>6. CASE ~ok
  <2>1. q = restore(o, a, s)
    BY <1>1, <1>6
  <2>2. q \in Seq(T) /\ Len(q) = Len(o) + Len(r) /\ Range(q) = Range(o) \cup Range(r)
    BY <1>1, <1>3, <1>4, <2>1, RestoredOf
  <2> QED
    BY <1>1, <1>2, <1>3, <1>4, <1>6, <2>2
<1> QED
  BY <1>5, <1>6

\* Writing the summaries, putting them back or giving them up keeps the lists
\* within the cap, the repeats on them and a row behind every open window.
LEMMA SettleLists ==
    ASSUME Counts, Lists, NEW o, NEW a, NEW D, NEW ok \in BOOLEAN, NEW h, NEW w,
           NEW rows, rows = rowAge', Ready(o, a, D, h, rows), settle(o, a, D, ok, h, w)
    PROVE  Lists' /\ HeldListed' /\ Ages' /\ OpenWindowHasRow'
<1>1. PICK q, g, e : q = order' /\ g = age' /\ e = held'
  OBVIOUS
<1>2. /\ q = [c \in Coalescers |->
                IF ok THEN o[c] ELSE restore(o[c], a, summaries(c, D[c]))]
      /\ g = [k \in Keys |-> IF \E c \in Coalescers : k \in Range(q[c]) THEN a[k] ELSE 0]
      /\ e = [k \in Keys |->
                IF Out(D, k) /\ (ok \/ \E c \in Coalescers : k \in Full(o, D, c))
                THEN 0 ELSE h[k]]
  BY <1>1, SettleParts
<1>3. ASSUME NEW c \in Coalescers
      PROVE  /\ q[c] \in Seq(KeysOf(c)) /\ Len(q[c]) <= MaxKeys
             /\ Range(o[c]) \subseteq Range(q[c])
             /\ Range(q[c]) \subseteq Range(o[c]) \cup D[c]
             /\ ~ok => Range(restorable(o[c], summaries(c, D[c]))) \subseteq Range(q[c])
  <2>1. PICK oc, dc, qc : oc = o[c] /\ dc = D[c] /\ qc = q[c]
    OBVIOUS
  <2>2. oc \in Seq(KeysOf(c)) /\ Len(oc) <= MaxKeys
    BY <2>1 DEF Ready
  <2>3. qc = IF ok THEN oc ELSE restore(oc, a, summaries(c, dc))
    BY <1>2, <2>1
  <2>4. /\ qc \in Seq(KeysOf(c)) /\ Len(qc) <= MaxKeys
        /\ Range(oc) \subseteq Range(qc) /\ Range(qc) \subseteq Range(oc) \cup dc
        /\ ~ok => Range(restorable(oc, summaries(c, dc))) \subseteq Range(qc)
    BY <2>2, <2>3, SettledList
  <2> QED
    BY <2>1, <2>4
<1>4. \A c \in Coalescers : /\ D[c] \subseteq KeysOf(c) /\ D[c] \subseteq Range(order[c])
                            /\ Range(q[c]) \subseteq KeysOf(c)
  <2>1. \A c \in Coalescers : /\ Range(order[c]) \subseteq KeysOf(c)
                              /\ D[c] \subseteq Range(order[c])
    BY DEF Lists, Ready, Range
  <2>2. \A c \in Coalescers : Range(q[c]) \subseteq KeysOf(c)
    BY <1>3 DEF Range
  <2> QED
    BY <2>1, <2>2
<1>5. ASSUME NEW c \in Coalescers, NEW k \in KeysOf(c), e[k] > 0
      PROVE  k \in Range(q[c])
  <2>1. k \in Keys
    BY CoalescerKeys
  <2>2. h[k] \in Nat /\ held[k] \in Nat
    BY <2>1 DEF Ready, Counts
  <2>3. ~(Out(D, k) /\ (ok \/ \E d \in Coalescers : k \in Full(o, D, d))) /\ e[k] = h[k]
    <3>1. e[k] # 0
      BY <1>5
    <3> QED
      BY <1>2, <2>1, <3>1
  <2>4. CASE Out(D, k)
    <3>1. ~ok /\ k \notin Full(o, D, c)
      BY <2>3, <2>4
    <3>2. PICK d \in Coalescers : k \in D[d]
      BY <2>4 DEF Out
    <3>3. c = d
      BY <1>4, <3>2, KeysApart
    <3>4. k \in Range(summaries(c, D[c]))
      <4>1. PICK S : S = {j \in D[c] : held[j] > 0}
        OBVIOUS
      <4>2. k \in S
        BY <2>4, <3>2, <3>3, <4>1 DEF Out
      <4>3. k \in Range(order[c])
        BY <1>4, <3>2, <3>3
      <4>4. order[c] \in Seq(KeysOf(c))
        BY DEF Lists
      <4>5. Range(keeping(order[c], S)) = Range(order[c]) \cap S
        BY <4>4, KeepingType
      <4> QED
        BY <4>1, <4>2, <4>3, <4>5 DEF summaries
    <3>5. k \in Range(restorable(o[c], summaries(c, D[c])))
      BY <3>1, <3>4 DEF Full
    <3> QED
      BY <1>3, <3>1, <3>5
  <2>5. CASE ~Out(D, k)
    <3>1. k \notin D[c]
      <4>1. SUFFICES ASSUME k \in D[c] PROVE FALSE
        OBVIOUS
      <4>2. h[k] = held[k]
        BY <4>1 DEF Ready
      <4>3. ~(held[k] > 0)
        BY <2>5, <4>1 DEF Out
      <4> QED
        BY <1>5, <2>2, <2>3, <4>2, <4>3
    <3>2. h[k] > 0
      BY <1>5, <2>3
    <3>3. k \in Range(o[c])
      BY <3>1, <3>2 DEF Ready
    <3> QED
      BY <1>3, <3>3
  <2> QED
    BY <2>4, <2>5
<1>6. g \in [Keys -> Nat] /\ rows \in [Keys -> Nat]
  <2>1. a \in [Keys -> Nat] /\ rows \in [Keys -> Nat]
    BY DEF Ready
  <2>2. 0 \in Nat
    OBVIOUS
  <2> QED
    BY <1>2, <2>1, <2>2
<1>7. ASSUME NEW c \in Coalescers, NEW k \in KeysOf(c), k \in Range(q[c]), g[k] < Window
      PROVE  rows[k] = g[k]
  <2>1. k \in Keys
    BY CoalescerKeys
  <2>2. g[k] = a[k]
    BY <1>2, <1>7, <2>1
  <2>3. k \in Range(o[c]) \cup D[c]
    BY <1>3, <1>7
  <2> QED
    BY <1>7, <2>2, <2>3 DEF Ready
<1>8. Lists'
  <2>1. DOMAIN q = Coalescers
    BY <1>2
  <2> QED
    BY <1>1, <1>3, <2>1 DEF Lists
<1>9. HeldListed'
  BY <1>1, <1>5 DEF HeldListed
<1>10. Ages'
  BY <1>1, <1>6 DEF Ages
<1>11. OpenWindowHasRow'
  BY <1>1, <1>7 DEF OpenWindowHasRow, WindowOpen
<1> QED
  BY <1>8, <1>9, <1>10, <1>11

\* Only entries that do not fit when they are put back are given up.
LEMMA SettleLoses ==
    ASSUME Counts, NEW o, NEW a, NEW D, NEW ok, NEW h, NEW w,
           settle(o, a, D, ok, h, w), NEW k \in Keys, lost'[k] # lost[k]
    PROVE  ~ok /\ \E c \in Coalescers : k \in Full(o, D, c)
<1>1. lost' = [j \in Keys |->
                 lost[j] + IF Out(D, j) /\ ~ok /\ \E c \in Coalescers : j \in Full(o, D, c)
                           THEN held[j] ELSE 0]
  BY SettleParts
<1>2. lost[k] \in Nat /\ lost[k] + 0 = lost[k]
  BY DEF Counts
<1> QED
  BY <1>1, <1>2

-----------------------------------------------------------------------------
(* The lists each operation settles *)

\* What is left of a list without the entries D.
LEMMA Dropped ==
    ASSUME NEW T, NEW o \in Seq(T), NEW D
    PROVE  /\ without(o, D) \in Seq(T) /\ Range(without(o, D)) = Range(o) \ D
           /\ Len(without(o, D)) \in Nat /\ Len(without(o, D)) <= Len(o)
<1>1. PICK S : S = Range(o) \ D
  OBVIOUS
<1>2. without(o, D) = keeping(o, S)
  BY <1>1 DEF without
<1>3. Range(o) \cap S = Range(o) \ D
  BY <1>1
<1> QED
  BY <1>2, <1>3, KeepingType

\* The summaries are keys of the coalescer.
LEMMA SummaryType ==
    ASSUME Lists, NEW c \in Coalescers, NEW D
    PROVE  summaries(c, D) \in Seq(KeysOf(c)) /\ Len(summaries(c, D)) \in Nat
<1>1. order[c] \in Seq(KeysOf(c))
  BY DEF Lists
<1> QED
  BY <1>1, KeepingType DEF summaries

\* Entries that leave a list make room for their own summaries.
LEMMA DroppedRoom ==
    ASSUME Lists, NEW c \in Coalescers, NEW D
    PROVE  Len(without(order[c], D)) + Len(summaries(c, D)) <= Len(order[c])
<1>1. PICK S, U, o : /\ o = order[c] /\ S = Range(o) \ D /\ U = {j \in D : held[j] > 0}
  OBVIOUS
<1>2. o \in Seq(KeysOf(c)) /\ S \cap U = {}
  BY <1>1 DEF Lists
<1>3. Len(keeping(o, S)) + Len(keeping(o, U)) <= Len(o)
  BY <1>2, KeepingTwo
<1> QED
  BY <1>1, <1>3 DEF without, summaries

\* The oldest entry is the first to go when the list is over its cap.
LEMMA OldestEvicted ==
    ASSUME NEW T, NEW p \in Seq(T), NEW a, NEW k, Len(p) > MaxKeys, p[1] # k
    PROVE  p[1] \in evicted(p, a, k)
<1>1. Len(p) \in Nat /\ MaxKeys \in Nat /\ DOMAIN p = 1..Len(p)
  BY CoalescerAssumption
<1>2. 1 \in DOMAIN p
  BY <1>1
<1>3. {i \in 1..(1 - 1) : p[i] # k} = {}
  OBVIOUS
<1>4. Cardinality({}) = 0
  BY FS_EmptySet
<1>5. Len(p) - Cardinality({i \in 1..(1 - 1) : p[i] # k}) > MaxKeys
  BY <1>1, <1>3, <1>4
<1>6. \A j \in 1..1 : \/ a[p[j]] >= Window
                      \/ Len(p) - Cardinality({i \in 1..(j - 1) : p[i] # k}) > MaxKeys
  <2>1. \A j \in 1..1 : j = 1
    OBVIOUS
  <2> QED
    BY <1>5, <2>1
<1>7. 1 \in {i \in DOMAIN p : \A j \in 1..i :
                \/ a[p[j]] >= Window
                \/ Len(p) - Cardinality({l \in 1..(j - 1) : p[l] # k}) > MaxKeys}
  BY <1>2, <1>6
<1> QED
  BY <1>7 DEF evicted

\* The list of a coalescer with the window of k just opened, and what evict
\* leaves of it.
LEMMA OpenedList ==
    ASSUME Lists, NEW c \in Coalescers, NEW k \in KeysOf(c),
           NEW D, D = evictedBy(c, k), NEW o, o = without(opened(c, k), D)
    PROVE  /\ o \in Seq(KeysOf(c)) /\ Len(o) <= MaxKeys /\ k \notin D
           /\ D \subseteq Range(order[c])
           /\ Range(o) = (Range(order[c]) \ D) \cup {k}
           /\ Len(o) + Len(summaries(c, D)) <= Len(order[c]) + 1
           /\ k \in Range(order[c]) => Len(o) + Len(summaries(c, D)) <= Len(order[c])
<1>1. PICK T, L, n : T = KeysOf(c) /\ L = order[c] /\ n = Len(L)
  OBVIOUS
<1>2. L \in Seq(T) /\ n \in Nat /\ n <= MaxKeys /\ MaxKeys \in Nat /\ MaxKeys >= 1 /\ k \in T
  BY <1>1, CoalescerAssumption DEF Lists
<1>3. PICK S1, W, P : S1 = Range(L) \ {k} /\ W = keeping(L, S1) /\ P = Append(W, k)
  OBVIOUS
<1>4. opened(c, k) = P
  BY <1>1, <1>3 DEF opened, without
<1>5. /\ W \in Seq(T) /\ Len(W) \in Nat /\ Len(W) <= n /\ Range(W) = Range(L) \ {k}
  <2>1. Range(L) \cap S1 = Range(L) \ {k}
    BY <1>3
  <2> QED
    BY <1>1, <1>2, <1>3, <2>1, KeepingType
<1>6. /\ P \in Seq(T) /\ Len(P) = Len(W) + 1 /\ DOMAIN P = 1..(Len(W) + 1)
      /\ P[Len(W) + 1] = k /\ \A i \in 1..Len(W) : P[i] = W[i]
  BY <1>2, <1>3, <1>5
<1>7. Range(P) = Range(W) \cup {k}
  BY <1>5, <1>6 DEF Range
<1>8. PICK a : D = evicted(P, a, k)
  BY <1>4 DEF evictedBy
<1>9. D \subseteq Range(P) /\ k \notin D
  BY <1>8 DEF evicted, Range
<1>10. D \subseteq Range(L)
  BY <1>5, <1>7, <1>9
<1>11. PICK S2 : S2 = Range(P) \ D
  OBVIOUS
<1>12. o = keeping(P, S2)
  BY <1>4, <1>11 DEF without
<1>13. o \in Seq(T) /\ Len(o) \in Nat /\ Len(o) <= Len(P) /\ Range(o) = (Range(L) \ D) \cup {k}
  <2>1. Range(P) \cap S2 = (Range(L) \ D) \cup {k}
    BY <1>5, <1>7, <1>9, <1>11
  <2> QED
    BY <1>6, <1>12, <2>1, KeepingType
<1>14. Len(o) <= MaxKeys
  <2>1. CASE Len(P) <= MaxKeys
    BY <1>2, <1>5, <1>6, <1>13, <2>1
  <2>2. CASE Len(P) > MaxKeys
    <3>1. 1 \in 1..Len(W) /\ 1 \in DOMAIN P /\ 1 \in DOMAIN W
      BY <1>2, <1>5, <1>6, <2>2
    <3>2. P[1] \in Range(W) /\ P[1] \in Range(P)
      BY <1>6, <3>1 DEF Range
    <3>3. P[1] # k
      BY <1>5, <3>2
    <3>4. P[1] \in D
      BY <1>6, <1>8, <2>2, <3>3, OldestEvicted
    <3>5. P[1] \notin S2
      BY <1>11, <3>4
    <3>6. Len(o) + 1 <= Len(P)
      BY <1>6, <1>12, <3>2, <3>5, KeepingOne
    <3> QED
      BY <1>2, <1>5, <1>6, <1>13, <3>6
  <2> QED
    BY <1>2, <1>5, <1>6, <2>1, <2>2
<1>15. PICK V, S3, u : /\ V = S1 \cap S2 /\ S3 = {j \in D : held[j] > 0}
                       /\ u = summaries(c, D)
  OBVIOUS
<1>16. Len(o) = Len(keeping(L, V)) + 1
  <2>1. keeping(P, S2) = Step(keeping(W, S2), k, S2)
    BY <1>2, <1>3, <1>5, KeepingAppend
  <2>2. k \in S2
    BY <1>7, <1>9, <1>11
  <2>3. keeping(W, S2) = keeping(L, V)
    BY <1>2, <1>3, <1>15, KeepingTwice
  <2>4. o = Append(keeping(L, V), k)
    BY <1>12, <2>1, <2>2, <2>3 DEF Step
  <2>5. keeping(L, V) \in Seq(T)
    BY <1>2, KeepingType
  <2> QED
    BY <1>2, <2>4, <2>5
<1>17. u = keeping(L, S3) /\ Len(u) \in Nat /\ Len(keeping(L, V)) \in Nat
  <2>1. u = keeping(L, S3)
    BY <1>1, <1>15 DEF summaries
  <2> QED
    BY <1>2, <2>1, KeepingType
<1>18. V \cap S3 = {} /\ k \notin V /\ k \notin S3
  BY <1>3, <1>9, <1>11, <1>15
<1>19. /\ Len(keeping(L, V)) + Len(keeping(L, S3)) <= Len(L)
       /\ k \in Range(L) => Len(keeping(L, V)) + Len(keeping(L, S3)) + 1 <= Len(L)
  BY <1>2, <1>18, KeepingTwo
<1>20. PICK x \in Nat, y \in Nat : x = Len(keeping(L, V)) /\ y = Len(u)
  BY <1>17
<1>21. /\ Len(o) + y <= n + 1
       /\ k \in Range(L) => Len(o) + y <= n
  <2>1. x + y <= n /\ (k \in Range(L) => x + y + 1 <= n) /\ Len(o) = x + 1
    BY <1>1, <1>16, <1>17, <1>19, <1>20
  <2> QED
    BY <1>2, <1>20, <2>1
<1> QED
  BY <1>1, <1>9, <1>10, <1>13, <1>14, <1>15, <1>20, <1>21

\* The window just opened is undone.
LEMMA ReopenedList ==
    ASSUME NEW T, NEW o \in Seq(T), NEW k \in T, k \in Range(o), NEW r, r = reopen(o, k)
    PROVE  /\ r \in Seq(T) /\ Len(r) <= Len(o)
           /\ Range(r) = IF closedCount(k) = 0 THEN Range(o) \ {k} ELSE Range(o)
           /\ closedCount(k) = 0 => Len(r) + 1 <= Len(o)
<1>1. PICK W : W = without(o, {k})
  OBVIOUS
<1>2. W \in Seq(T) /\ Range(W) = Range(o) \ {k} /\ Len(W) \in Nat /\ Len(o) \in Nat
  BY <1>1, Dropped
<1>3. Len(W) + 1 <= Len(o)
  <2>1. PICK S : S = Range(o) \ {k}
    OBVIOUS
  <2>2. k \notin S /\ W = keeping(o, S)
    BY <1>1, <2>1 DEF without
  <2> QED
    BY <2>2, KeepingOne
<1>4. CASE closedCount(k) = 0
  <2>1. r = W
    BY <1>1, <1>4 DEF reopen
  <2> QED
    BY <1>2, <1>3, <1>4, <2>1
<1>5. CASE closedCount(k) # 0
  <2>1. r = insertOrdered(W, age, k)
    BY <1>1, <1>5 DEF reopen
  <2>2. r \in Seq(T) /\ Len(r) = Len(W) + 1 /\ Range(r) = Range(W) \cup {k}
    BY <1>2, <2>1, InsertedOrdered
  <2>3. Range(r) = Range(o)
    BY <1>2, <2>2
  <2> QED
    BY <1>2, <1>3, <1>5, <2>2, <2>3
<1> QED
  BY <1>4, <1>5

-----------------------------------------------------------------------------
(* One step per operation *)

\* The row behind an open window, key by key.
LEMMA RowBehind ==
    ASSUME Kept, NEW c \in Coalescers, NEW j \in Range(order[c]), age[j] < Window
    PROVE  rowAge[j] = age[j]
<1>1. j \in KeysOf(c)
  BY DEF Kept, Lists, Range
<1> QED
  BY <1>1 DEF Kept, OpenWindowHasRow, WindowOpen

\* An event of k touches the list of its own coalescer and the counts and
\* ages of k alone.
LEMMA ReadyOne ==
    ASSUME Kept, NEW c \in Coalescers, NEW k \in KeysOf(c),
           NEW p \in Seq(KeysOf(c)), Len(p) <= MaxKeys,
           NEW E, E \subseteq Range(order[c]), k \notin E,
           NEW a \in [Keys -> Nat], NEW h \in [Keys -> Nat], NEW rows \in [Keys -> Nat],
           \A j \in Keys \ {k} : h[j] = held[j] /\ a[j] = age[j] /\ rows[j] = rowAge[j],
           Range(p) \subseteq Range(order[c]) \cup {k},
           Range(order[c]) \ (E \cup {k}) \subseteq Range(p),
           h[k] > 0 => k \in Range(p),
           k \in Range(p) /\ a[k] < Window => rows[k] = a[k],
           NEW o, o = [order EXCEPT ![c] = p], NEW D, D = only(c, E)
    PROVE  Ready(o, a, D, h, rows)
<1>1. /\ DOMAIN order = Coalescers /\ o[c] = p /\ D[c] = E
      /\ \A d \in Coalescers \ {c} : o[d] = order[d] /\ D[d] = {}
  BY DEF Kept, Lists, only
<1>2. \A d \in Coalescers : order[d] \in Seq(KeysOf(d)) /\ Len(order[d]) <= MaxKeys
  BY DEF Kept, Lists
<1>3. \A d \in Coalescers : Range(order[d]) \subseteq KeysOf(d) /\ KeysOf(d) \subseteq Keys
  BY <1>2, CoalescerKeys DEF Range
<1>4. \A d \in Coalescers \ {c} : k \notin KeysOf(d)
  BY KeysApart
<1>5. ASSUME NEW d \in Coalescers
      PROVE  /\ o[d] \in Seq(KeysOf(d)) /\ Len(o[d]) <= MaxKeys
             /\ D[d] \subseteq Range(order[d])
  BY <1>1, <1>2
<1>6. ASSUME NEW d \in Coalescers, NEW j \in KeysOf(d), h[j] > 0, j \notin D[d]
      PROVE  j \in Range(o[d])
  <2>1. j \in Keys
    BY CoalescerKeys
  <2>2. CASE j = k
    BY <1>1, <1>4, <1>6, <2>2
  <2>3. CASE j # k
    <3>1. held[j] > 0
      BY <1>6, <2>1, <2>3
    <3>2. j \in Range(order[d])
      BY <3>1 DEF Kept, HeldListed
    <3>3. CASE d = c
      BY <1>1, <1>6, <2>3, <3>2, <3>3
    <3>4. CASE d # c
      BY <1>1, <3>2, <3>4
    <3> QED
      BY <3>3, <3>4
  <2> QED
    BY <2>2, <2>3
<1>7. ASSUME NEW d \in Coalescers, NEW j \in D[d]
      PROVE  h[j] = held[j]
  <2>1. d = c /\ j \in E
    BY <1>1, <1>7
  <2>2. j \in Keys \ {k}
    BY <1>3, <2>1
  <2> QED
    BY <2>2
<1>8. ASSUME NEW d \in Coalescers, NEW j \in Range(o[d]) \cup D[d], a[j] < Window
      PROVE  rows[j] = a[j]
  <2>1. CASE d = c /\ j = k
    <3>1. k \in Range(p)
      BY <1>1, <1>8, <2>1
    <3> QED
      BY <1>8, <2>1, <3>1
  <2>2. CASE ~(d = c /\ j = k)
    <3>1. j \in Range(order[d])
      BY <1>1, <1>8, <2>2
    <3>2. j \in Keys \ {k}
      BY <1>3, <1>4, <2>2, <3>1
    <3>3. a[j] = age[j] /\ rows[j] = rowAge[j]
      BY <3>2
    <3>4. age[j] < Window
      BY <1>8, <3>3
    <3>5. rowAge[j] = age[j]
      BY <3>1, <3>4, RowBehind
    <3> QED
      BY <3>3, <3>5
  <2> QED
    BY <2>1, <2>2
<1> QED
  BY <1>5, <1>6, <1>7, <1>8 DEF Ready

\* Where every summary fits, none is given up.
LEMMA RoomForAll ==
    ASSUME Lists, NEW c \in Coalescers, NEW o, NEW D, o[c] \in Seq(KeysOf(c)),
           Len(o[c]) + Len(summaries(c, D[c])) <= MaxKeys
    PROVE  Full(o, D, c) = {}
<1>1. PICK p, s : p = o[c] /\ s = summaries(c, D[c])
  OBVIOUS
<1>2. p \in Seq(KeysOf(c)) /\ s \in Seq(KeysOf(c)) /\ Len(p) + Len(s) <= MaxKeys
  BY <1>1, SummaryType
<1>3. restorable(p, s) = s
  BY <1>2, Room
<1> QED
  BY <1>1, <1>3 DEF Full

\* A coalescer of which nothing is dropped gives up nothing.
LEMMA NothingDropped ==
    ASSUME Lists, NEW c \in Coalescers, NEW o, NEW D, D[c] = {}
    PROVE  Full(o, D, c) = {}
<1>1. PICK S : S = {j \in D[c] : held[j] > 0}
  OBVIOUS
<1>2. S = {} /\ order[c] \in Seq(KeysOf(c))
  BY <1>1 DEF Lists
<1>3. Range(keeping(order[c], S)) = {}
  BY <1>2, KeepingType
<1> QED
  BY <1>1, <1>3 DEF Full, summaries

\* An operation of one coalescer can give up entries of that one only.
LEMMA FullOfOne ==
    ASSUME Lists, NEW c \in Coalescers, NEW E, NEW o, NEW d \in Coalescers, d # c
    PROVE  Full(o, only(c, E), d) = {}
<1>1. PICK D : D = only(c, E)
  OBVIOUS
<1>2. D[d] = {}
  BY <1>1 DEF only
<1> QED
  BY <1>1, <1>2, NothingDropped

\* No count is given up.
NothingLost == \A j \in Keys : lost'[j] = lost[j]

\* An operation that leaves room for its summaries keeps the invariant and
\* gives up nothing.
LEMMA SettleWhole ==
    ASSUME Counts, Lists, NEW o, NEW a, NEW D, NEW ok \in BOOLEAN, NEW h, NEW w,
           NEW rows, rows = rowAge', Ready(o, a, D, h, rows), settle(o, a, D, ok, h, w),
           \A d \in Coalescers : Full(o, D, d) = {}
    PROVE  Kept' /\ NothingLost
<1>1. Kept'
  BY SettleLists DEF Kept
<1>2. ASSUME NEW j \in Keys, lost'[j] # lost[j] PROVE FALSE
  <2>1. \E d \in Coalescers : j \in Full(o, D, d)
    BY <1>2, SettleLoses
  <2> QED
    BY <2>1
<1> QED
  BY <1>1, <1>2 DEF NothingLost

\* A repeat that is only counted (admit, evict, restore).
LEMMA SuppressKeeps ==
    ASSUME Counts, Kept, NEW c \in Coalescers, NEW k \in KeysOf(c), suppressEvent(c, k)
    PROVE  Kept' /\ NothingLost
<1>1. PICK E : E = evicted(order[c], age, k)
  OBVIOUS
<1>2. PICK D, h, p, o : /\ D = only(c, E) /\ h = [held EXCEPT ![k] = @ + 1]
                        /\ p = without(order[c], E) /\ o = [order EXCEPT ![c] = p]
  OBVIOUS
<1>3. PICK ok \in BOOLEAN : settle(o, age, D, ok, h, written)
  BY <1>1, <1>2 DEF suppressEvent, outcomes
<1>4. rowAge' = rowAge /\ k \in Range(order[c]) /\ age[k] < Window
  BY DEF suppressEvent, WindowOpen
<1>5. order[c] \in Seq(KeysOf(c)) /\ Len(order[c]) <= MaxKeys /\ k \in Keys /\ Lists
      /\ DOMAIN order = Coalescers
  BY CoalescerKeys DEF Kept, Lists
<1>6. E \subseteq Range(order[c]) /\ k \notin E
  BY <1>1 DEF evicted, Range
<1>7. /\ p \in Seq(KeysOf(c)) /\ Range(p) = Range(order[c]) \ E
      /\ Len(p) \in Nat /\ Len(p) <= Len(order[c])
  BY <1>2, <1>5, Dropped
<1>8. Len(p) <= MaxKeys
  BY <1>5, <1>7, CoalescerAssumption
<1>9. Len(p) + Len(summaries(c, E)) <= MaxKeys
  <2>1. Len(p) + Len(summaries(c, E)) <= Len(order[c])
    BY <1>2, <1>5, DroppedRoom
  <2>2. Len(summaries(c, E)) \in Nat
    BY <1>5, SummaryType
  <2> QED
    BY <1>5, <1>7, <2>1, <2>2, CoalescerAssumption
<1>10. /\ age \in [Keys -> Nat] /\ rowAge \in [Keys -> Nat] /\ h \in [Keys -> Nat]
       /\ \A j \in Keys \ {k} : h[j] = held[j]
  BY <1>2, <1>5 DEF Kept, Ages, Counts
<1>11. rowAge[k] = age[k]
  BY <1>4, RowBehind
<1>12. k \in Range(p)
  BY <1>4, <1>6, <1>7
<1>13. Ready(o, age, D, h, rowAge)
  BY <1>2, <1>6, <1>7, <1>8, <1>10, <1>11, <1>12, ReadyOne
<1>14. o[c] = p /\ D[c] = E
  BY <1>2, <1>5 DEF only
<1>15. Full(o, D, c) = {}
  BY <1>5, <1>7, <1>9, <1>14, RoomForAll
<1>16. \A d \in Coalescers : Full(o, D, d) = {}
  BY <1>2, <1>5, <1>15, FullOfOne
<1> QED
  BY <1>3, <1>4, <1>5, <1>13, <1>16, SettleWhole

\* An event whose own row cannot be written (reopen, then restore): the
\* entry it undoes leaves room for every summary.
LEMMA FailKeeps ==
    ASSUME Counts, Kept, NEW c \in Coalescers, NEW k \in KeysOf(c), failEvent(c, k)
    PROVE  Kept' /\ NothingLost
<1>1. PICK E, n : E = evictedBy(c, k) /\ n = closedCount(k)
  OBVIOUS
<1>2. PICK q : q = without(opened(c, k), E)
  OBVIOUS
<1>3. PICK D, h, p, o : /\ D = only(c, E) /\ h = [held EXCEPT ![k] = n]
                        /\ p = reopen(q, k) /\ o = [order EXCEPT ![c] = p]
  OBVIOUS
<1>4. PICK ok \in BOOLEAN : settle(o, age, D, ok, h, written)
  BY <1>1, <1>2, <1>3 DEF failEvent, outcomes
<1>5. rowAge' = rowAge /\ ~WindowOpen(c, k)
  BY DEF failEvent
<1>6. /\ order[c] \in Seq(KeysOf(c)) /\ Len(order[c]) <= MaxKeys /\ Len(order[c]) \in Nat
      /\ k \in Keys /\ Lists /\ DOMAIN order = Coalescers /\ MaxKeys \in Nat
  BY CoalescerKeys, CoalescerAssumption DEF Kept, Lists
<1>7. /\ q \in Seq(KeysOf(c)) /\ Len(q) <= MaxKeys /\ k \notin E
      /\ E \subseteq Range(order[c])
      /\ Range(q) = (Range(order[c]) \ E) \cup {k}
      /\ Len(q) + Len(summaries(c, E)) <= Len(order[c]) + 1
      /\ k \in Range(order[c]) => Len(q) + Len(summaries(c, E)) <= Len(order[c])
  BY <1>1, <1>2, <1>6, OpenedList
<1>8. /\ p \in Seq(KeysOf(c)) /\ Len(p) <= Len(q)
      /\ Range(p) = IF n = 0 THEN Range(q) \ {k} ELSE Range(q)
      /\ n = 0 => Len(p) + 1 <= Len(q)
  BY <1>1, <1>3, <1>7, ReopenedList
<1>9. PICK lp \in Nat, lq \in Nat, ls \in Nat, lo \in Nat :
        /\ lp = Len(p) /\ lq = Len(q) /\ ls = Len(summaries(c, E)) /\ lo = Len(order[c])
  BY <1>6, <1>7, <1>8, SummaryType
<1>10. held[k] \in Nat /\ n \in Nat /\ (n = 0 <=> held[k] = 0)
  BY <1>1, <1>6 DEF closedCount, Counts
<1>11. n # 0 => k \in Range(order[c])
  BY <1>10 DEF Kept, HeldListed
<1>12. Len(p) <= MaxKeys
  BY <1>6, <1>7, <1>8, <1>9
<1>13. lp + ls <= MaxKeys
  <2>1. lo <= MaxKeys /\ lp <= lq /\ lq + ls <= lo + 1
        /\ (n = 0 => lp + 1 <= lq) /\ (n # 0 => lq + ls <= lo)
    BY <1>6, <1>7, <1>8, <1>9, <1>11
  <2> QED
    BY <1>6, <1>9, <2>1
<1>14. /\ age \in [Keys -> Nat] /\ rowAge \in [Keys -> Nat] /\ h \in [Keys -> Nat]
       /\ h[k] = n /\ \A j \in Keys \ {k} : h[j] = held[j]
  BY <1>3, <1>6, <1>10 DEF Kept, Ages, Counts
<1>15. k \in Range(p) => n # 0
  BY <1>8
<1>16. k \in Range(p) /\ age[k] < Window => rowAge[k] = age[k]
  BY <1>11, <1>15, RowBehind
<1>17. h[k] > 0 => k \in Range(p)
  BY <1>7, <1>8, <1>10, <1>14
<1>18. /\ Range(p) \subseteq Range(order[c]) \cup {k}
       /\ Range(order[c]) \ (E \cup {k}) \subseteq Range(p)
  BY <1>7, <1>8
<1>19. Ready(o, age, D, h, rowAge)
  BY <1>3, <1>7, <1>8, <1>12, <1>14, <1>16, <1>17, <1>18, ReadyOne
<1>20. o[c] = p /\ D[c] = E
  BY <1>3, <1>6 DEF only
<1>21. Full(o, D, c) = {}
  BY <1>6, <1>8, <1>9, <1>13, <1>20, RoomForAll
<1>22. \A d \in Coalescers : Full(o, D, d) = {}
  BY <1>3, <1>6, <1>21, FullOfOne
<1> QED
  BY <1>4, <1>5, <1>6, <1>19, <1>22, SettleWhole

\* The sweep and the flush (sweepCoalescedAudit).
LEMMA SweepKeeps ==
    ASSUME Counts, Kept, NEW all \in BOOLEAN, NEW ok \in BOOLEAN,
           sweepCoalescedAudit(all, ok)
    PROVE  Kept' /\ NothingLost
<1>1. PICK D : D = [c \in Coalescers |-> drained(order[c], all)]
  OBVIOUS
<1>2. PICK o : o = [c \in Coalescers |-> without(order[c], D[c])]
  OBVIOUS
<1>3. settle(o, age, D, ok, held, written) /\ rowAge' = rowAge
  BY <1>1, <1>2 DEF sweepCoalescedAudit
<1>4. Lists /\ MaxKeys \in Nat
  BY CoalescerAssumption DEF Kept
<1>5. ASSUME NEW c \in Coalescers
      PROVE  /\ o[c] \in Seq(KeysOf(c)) /\ Len(o[c]) <= MaxKeys
             /\ D[c] \subseteq Range(order[c])
             /\ Range(o[c]) = Range(order[c]) \ D[c]
             /\ Len(o[c]) + Len(summaries(c, D[c])) <= MaxKeys
  <2>1. PICK E, p, L : E = D[c] /\ p = o[c] /\ L = order[c]
    OBVIOUS
  <2>2. E = drained(L, all) /\ p = without(L, E)
    BY <1>1, <1>2, <2>1
  <2>3. E \subseteq Range(L)
    BY <2>2 DEF drained, Range
  <2>4. L \in Seq(KeysOf(c)) /\ Len(L) <= MaxKeys /\ Len(L) \in Nat
    BY <1>4, <2>1 DEF Lists
  <2>5. /\ p \in Seq(KeysOf(c)) /\ Range(p) = Range(L) \ E
        /\ Len(p) \in Nat /\ Len(p) <= Len(L)
    BY <2>2, <2>4, Dropped
  <2>6. Len(p) + Len(summaries(c, E)) <= Len(L) /\ Len(summaries(c, E)) \in Nat
    BY <1>4, <2>1, <2>2, DroppedRoom, SummaryType
  <2>7. Len(p) <= MaxKeys /\ Len(p) + Len(summaries(c, E)) <= MaxKeys
    BY <1>4, <2>4, <2>5, <2>6
  <2> QED
    BY <2>1, <2>3, <2>5, <2>7
<1>6. ASSUME NEW c \in Coalescers, NEW k \in KeysOf(c), held[k] > 0, k \notin D[c]
      PROVE  k \in Range(o[c])
  BY <1>5, <1>6 DEF Kept, HeldListed
<1>7. ASSUME NEW c \in Coalescers, NEW k \in Range(o[c]) \cup D[c], age[k] < Window
      PROVE  rowAge[k] = age[k]
  <2>1. k \in Range(order[c])
    BY <1>5
  <2> QED
    BY <1>7, <2>1, RowBehind
<1>8. age \in [Keys -> Nat] /\ rowAge \in [Keys -> Nat] /\ held \in [Keys -> Nat]
  BY DEF Kept, Ages, Counts
<1>9. Ready(o, age, D, held, rowAge)
  BY <1>5, <1>6, <1>7, <1>8 DEF Ready
<1>10. \A c \in Coalescers : Full(o, D, c) = {}
  BY <1>4, <1>5, RoomForAll
<1> QED
  BY <1>3, <1>4, <1>9, <1>10, SettleWhole

\* Time passes: a row grows older with the window it opened.
LEMMA TickKeeps == ASSUME Counts, Kept, Tick PROVE Kept' /\ NothingLost
<1>1. /\ order' = order /\ held' = held /\ lost' = lost
      /\ age' = [k \in Keys |-> IF \E c \in Coalescers : k \in Range(order[c])
                                THEN age[k] + 1 ELSE 0]
      /\ rowAge' = [k \in Keys |-> Lowest(rowAge[k] + 1, Window)]
  BY DEF Tick
<1>2. Lists' /\ HeldListed' /\ NothingLost
  BY <1>1 DEF Kept, Lists, HeldListed, NothingLost
<1>3. \A k \in Keys : age[k] \in Nat /\ rowAge[k] \in Nat
  BY DEF Kept, Ages
<1>4. Window \in Nat /\ Window >= 1
  BY CoalescerAssumption
<1>5. Ages'
  <2>1. \A k \in Keys : Lowest(rowAge[k] + 1, Window) \in Nat
    BY <1>3, <1>4 DEF Lowest
  <2> QED
    BY <1>1, <1>3, <2>1 DEF Ages
<1>6. ASSUME NEW c \in Coalescers, NEW k \in KeysOf(c),
             k \in Range(order'[c]), age'[k] < Window
      PROVE  rowAge'[k] = age'[k]
  <2>1. k \in Keys /\ k \in Range(order[c])
    BY <1>1, <1>6, CoalescerKeys
  <2>2. age'[k] = age[k] + 1 /\ rowAge'[k] = Lowest(rowAge[k] + 1, Window)
    BY <1>1, <2>1
  <2>3. age[k] < Window
    BY <1>3, <1>4, <1>6, <2>1, <2>2
  <2>4. rowAge[k] = age[k]
    BY <2>1, <2>3, RowBehind
  <2> QED
    BY <1>3, <1>4, <1>6, <2>1, <2>2, <2>4 DEF Lowest
<1>7. OpenWindowHasRow'
  BY <1>6 DEF OpenWindowHasRow, WindowOpen
<1> QED
  BY <1>2, <1>5, <1>7 DEF Kept

\* With the summaries put back, the counts of the log are those the operation
\* itself has written.
LEMMA SettleWritten ==
    ASSUME NEW o, NEW a, NEW D, NEW ok, NEW h, NEW w, settle(o, a, D, ok, h, w), ~ok,
           w \in [Keys -> Nat]
    PROVE  written' = w
<1> DEFINE out == {k \in Keys : held[k] > 0 /\ \E c \in Coalescers : k \in D[c]}
<1>1. written' = [k \in Keys |-> w[k] + IF k \in out /\ ok THEN held[k] ELSE 0]
  BY Zenon DEF settle
<1> HIDE DEF out
<1>2. \A k \in Keys : w[k] + 0 = w[k]
  OBVIOUS
<1>3. written' = [k \in Keys |-> w[k]]
  BY <1>1, <1>2
<1> QED
  BY <1>3

\* The counts given up by a step, and what a step that gives up any must do.
Given == {k \in Keys : lost'[k] # lost[k]}

NewRow(c, j) ==
    /\ j \notin Range(order[c])
    /\ written'[j] = written[j] + 1
    /\ Given \subseteq KeysOf(c)
    /\ Len(order'[c]) = MaxKeys

LossCovered ==
    Given # {} =>
        /\ Cardinality(Given) = 1
        /\ \E c \in Coalescers : \E j \in KeysOf(c) : NewRow(c, j)

\* An event whose own row is written: a new key may take the slot of the
\* last summary put back, and of no other.
LEMMA WriteKeeps ==
    ASSUME Counts, Kept, NEW c \in Coalescers, NEW k \in KeysOf(c), writeEvent(c, k)
    PROVE  Kept' /\ LossCovered
<1>1. PICK E, n : E = evictedBy(c, k)
                  /\ n = IF closedCount(k) > 0 THEN closedCount(k) ELSE 1
  OBVIOUS
<1>2. PICK p, a, h, w : /\ p = without(opened(c, k), E) /\ a = [age EXCEPT ![k] = 0]
                        /\ h = [held EXCEPT ![k] = 0] /\ w = [written EXCEPT ![k] = @ + n]
  OBVIOUS
<1>3. PICK D, o : D = only(c, E) /\ o = [order EXCEPT ![c] = p]
  OBVIOUS
<1>4. PICK ok \in BOOLEAN : settle(o, a, D, ok, h, w)
  BY <1>1, <1>2, <1>3 DEF writeEvent, outcomes
<1>5. PICK rows : rows = [rowAge EXCEPT ![k] = 0]
  OBVIOUS
<1>6. rowAge' = rows
  BY <1>5 DEF writeEvent
<1>7. /\ order[c] \in Seq(KeysOf(c)) /\ Len(order[c]) <= MaxKeys /\ Len(order[c]) \in Nat
      /\ k \in Keys /\ Lists /\ DOMAIN order = Coalescers /\ MaxKeys \in Nat
  BY CoalescerKeys, CoalescerAssumption DEF Kept, Lists
<1>8. /\ p \in Seq(KeysOf(c)) /\ Len(p) <= MaxKeys /\ k \notin E
      /\ E \subseteq Range(order[c])
      /\ Range(p) = (Range(order[c]) \ E) \cup {k}
      /\ Len(p) + Len(summaries(c, E)) <= Len(order[c]) + 1
      /\ k \in Range(order[c]) => Len(p) + Len(summaries(c, E)) <= Len(order[c])
  BY <1>1, <1>2, <1>7, OpenedList
<1>9. /\ a \in [Keys -> Nat] /\ rows \in [Keys -> Nat] /\ h \in [Keys -> Nat]
      /\ a[k] = 0 /\ rows[k] = 0 /\ h[k] = 0
      /\ \A j \in Keys \ {k} : h[j] = held[j] /\ a[j] = age[j] /\ rows[j] = rowAge[j]
  BY <1>2, <1>5, <1>7 DEF Kept, Ages, Counts
<1>10. /\ Range(p) \subseteq Range(order[c]) \cup {k}
       /\ Range(order[c]) \ (E \cup {k}) \subseteq Range(p)
       /\ (h[k] > 0 => k \in Range(p))
       /\ (k \in Range(p) /\ a[k] < Window => rows[k] = a[k])
  BY <1>8, <1>9
<1>11. Ready(o, a, D, h, rows)
  BY <1>3, <1>8, <1>9, <1>10, ReadyOne
<1>12. Kept'
  BY <1>4, <1>6, <1>7, <1>11, SettleLists DEF Kept
<1>13. o[c] = p /\ D[c] = E
  BY <1>3, <1>7 DEF only
<1>14. PICK s, r : s = summaries(c, E) /\ r = restorable(p, s)
  OBVIOUS
<1>15. /\ s \in Seq(KeysOf(c)) /\ Len(s) \in Nat /\ Len(p) \in Nat
       /\ Len(p) + Len(s) <= MaxKeys + 1
       /\ k \in Range(order[c]) => Len(p) + Len(s) <= MaxKeys
  <2>1. s \in Seq(KeysOf(c)) /\ Len(s) \in Nat /\ Len(p) \in Nat
    BY <1>7, <1>8, <1>14, SummaryType
  <2> QED
    BY <1>7, <1>8, <1>14, <2>1
<1>16. Full(o, D, c) = Range(s) \ Range(r)
  BY <1>13, <1>14 DEF Full
<1>17. \A d \in Coalescers \ {c} : Full(o, D, d) = {}
  BY <1>3, <1>7, FullOfOne
<1>18. ASSUME NEW j \in Given
       PROVE  ~ok /\ j \in Range(s) \ Range(r)
  <2>1. ~ok /\ \E d \in Coalescers : j \in Full(o, D, d)
    BY <1>4, SettleLoses DEF Given
  <2> QED
    BY <1>16, <1>17, <2>1
<1>19. SUFFICES ASSUME Given # {} PROVE LossCovered
  BY <1>12 DEF LossCovered
<1>20. PICK x : x \in Given
  BY <1>19
<1>21. ~ok /\ ~(Range(s) \subseteq Range(r))
  BY <1>18, <1>20
<1>22. k \notin Range(order[c])
  <2>1. SUFFICES ASSUME k \in Range(order[c]) PROVE FALSE
    OBVIOUS
  <2>2. r = s
    BY <1>8, <1>14, <1>15, <2>1, Room
  <2> QED
    BY <1>21, <2>2
<1>23. Given = {x}
  <2>1. Range(s) \ Range(r) \subseteq {s[Len(s)]}
    BY <1>8, <1>14, <1>15, Room
  <2> QED
    BY <1>18, <1>20, <2>1
<1>24. Cardinality(Given) = 1
  BY <1>23, FS_Singleton
<1>25. Given \subseteq KeysOf(c)
  <2>1. Range(s) \subseteq KeysOf(c)
    BY <1>15 DEF Range
  <2> QED
    BY <1>18, <2>1
<1>26. written'[k] = written[k] + 1
  <2>1. held[k] = 0
    <3>1. ~(held[k] > 0) /\ held[k] \in Nat
      BY <1>7, <1>22 DEF Kept, HeldListed, Counts
    <3> QED
      BY <3>1
  <2>2. n = 1
    BY <1>1, <2>1 DEF closedCount
  <2>3. w \in [Keys -> Nat] /\ w[k] = written[k] + 1
    BY <1>2, <1>7, <2>2 DEF Counts
  <2>4. written' = w
    BY <1>4, <1>21, <2>3, SettleWritten
  <2> QED
    BY <2>3, <2>4
<1>27. Len(order'[c]) = MaxKeys
  <2>1. PICK q : q = order'[c]
    OBVIOUS
  <2>2. order' = [d \in Coalescers |->
                    IF ok THEN o[d] ELSE restore(o[d], a, summaries(d, D[d]))]
    BY <1>4, SettleParts
  <2>3. q = IF ok THEN p ELSE restore(p, a, summaries(c, E))
    BY <1>13, <2>1, <2>2
  <2>4. Len(q) = Len(p) + Len(r)
    BY <1>7, <1>8, <1>14, <1>21, <2>3, SettledList
  <2>5. Len(p) + Len(r) = MaxKeys
    <3>1. /\ p \in Seq(KeysOf(c)) /\ s \in Seq(KeysOf(c)) /\ Len(p) <= MaxKeys
          /\ ~(Range(s) \subseteq Range(restorable(p, s)))
      BY <1>8, <1>14, <1>15, <1>21
    <3>2. Len(p) + Len(restorable(p, s)) = MaxKeys
      BY <3>1, Room, Zenon
    <3> QED
      BY <1>14, <3>2
  <2> QED
    BY <2>1, <2>4, <2>5
<1>28. NewRow(c, k)
  BY <1>22, <1>25, <1>26, <1>27 DEF NewRow
<1> QED
  BY <1>24, <1>28 DEF LossCovered

\* The same statement as the property's.
LEMMA LossStated ==
    ASSUME LossCovered
    PROVE  LET L == {k \in Keys : lost'[k] # lost[k]} IN
           L # {} =>
              /\ Cardinality(L) = 1
              /\ \E c \in Coalescers : \E j \in KeysOf(c) :
                    /\ j \notin Range(order[c])
                    /\ written'[j] = written[j] + 1
                    /\ L \subseteq KeysOf(c)
                    /\ Len(order'[c]) = MaxKeys
BY DEF LossCovered, NewRow, Given

\* A step that gives up nothing.
LEMMA NothingCovered == ASSUME NothingLost PROVE LossCovered
BY DEF NothingLost, LossCovered, Given

\* Every step keeps the lists and covers what it gives up.
LEMMA StepKeeps == ASSUME Counts, Kept, [Next]_vars PROVE Kept' /\ LossCovered
<1>1. ASSUME NEW c \in Coalescers, NEW k \in KeysOf(c),
             suppressEvent(c, k) \/ writeEvent(c, k) \/ failEvent(c, k)
      PROVE  Kept' /\ LossCovered
  <2>1. CASE suppressEvent(c, k)
    BY <2>1, SuppressKeeps, NothingCovered
  <2>2. CASE writeEvent(c, k)
    BY <2>2, WriteKeeps
  <2>3. CASE failEvent(c, k)
    BY <2>3, FailKeeps, NothingCovered
  <2> QED
    BY <1>1, <2>1, <2>2, <2>3
<1>2. ASSUME NEW k \in DenialKeys, coalesceDenial(k) PROVE Kept' /\ LossCovered
  <2>1. "denials" \in Coalescers /\ k \in KeysOf("denials")
    BY DEF Coalescers, KeysOf
  <2> QED
    BY <1>1, <1>2, <2>1 DEF coalesceDenial
<1>3. ASSUME NEW k \in FailureKeys, coalesceFailure(k) PROVE Kept' /\ LossCovered
  <2>1. "failures" \in Coalescers /\ k \in KeysOf("failures")
    BY DEF Coalescers, KeysOf
  <2> QED
    BY <1>1, <1>3, <2>1 DEF coalesceFailure
<1>4. ASSUME NEW all \in BOOLEAN, NEW ok \in BOOLEAN, sweepCoalescedAudit(all, ok)
      PROVE  Kept' /\ LossCovered
  BY <1>4, SweepKeeps, NothingCovered
<1>5. CASE Tick
  BY <1>5, TickKeeps, NothingCovered
<1>6. CASE UNCHANGED vars
  <2>1. UNCHANGED <<order, age, held, lost, rowAge>>
    BY <1>6 DEF vars, entryVars, ledgerVars
  <2>2. NothingLost
    BY <2>1 DEF NothingLost
  <2>3. Kept'
    BY <2>1 DEF Kept, Lists, HeldListed, Ages, OpenWindowHasRow, WindowOpen
  <2> QED
    BY <2>2, <2>3, NothingCovered
<1> QED
  BY <1>2, <1>3, <1>4, <1>5, <1>6 DEF Next

\* Empty lists.
LEMMA StartKept == Init => Counts /\ Kept
<1> SUFFICES ASSUME Init PROVE Counts /\ Kept
  OBVIOUS
<1> USE DEF Init
<1>1. Counts
  BY DEF Counts
<1>2. Window \in Nat /\ MaxKeys \in Nat /\ Window >= 1
  BY CoalescerAssumption
<1>3. \A c \in Coalescers : order[c] = <<>>
  OBVIOUS
<1>4. Lists
  <2>1. Len(<<>>) = 0 /\ \A T : <<>> \in Seq(T)
    OBVIOUS
  <2>2. DOMAIN order = Coalescers
    OBVIOUS
  <2> QED
    BY <1>2, <1>3, <2>1, <2>2 DEF Lists
<1>5. HeldListed
  BY CoalescerKeys DEF HeldListed
<1>6. Ages
  BY <1>2 DEF Ages
<1>7. OpenWindowHasRow
  BY <1>3 DEF OpenWindowHasRow, WindowOpen, Range
<1> QED
  BY <1>1, <1>4, <1>5, <1>6, <1>7 DEF Kept

\* The inductive invariant: the counts balance, the lists are within the cap,
\* hold every key with repeats, and every open window has its row.
THEOREM AlwaysKept == Spec => [](Balanced /\ Kept)
<1>1. Init => Balanced /\ Kept
  BY StartKept DEF Init, Balanced, Counts, EventsAccounted
<1>2. Balanced /\ Kept /\ [Next]_vars => Balanced' /\ Kept'
  BY StepBalances, StepKeeps DEF Balanced
<1> QED
  BY <1>1, <1>2, PTL DEF Spec

\* admit, evict and restore keep the maps within maxDenialKeys and
\* maxFailureKeys, with every write failing too.
THEOREM WithinCapHolds == Spec => []WithinCap
<1>1. Kept => WithinCap
  BY DEF Kept, Lists, WithinCap
<1> QED
  BY <1>1, AlwaysKept, PTL

\* An event is only suppressed behind a row that was really written when its
\* window opened (admit, reopen, restore).
THEOREM OpenWindowHasRowHolds == Spec => []OpenWindowHasRow
<1>1. Kept => OpenWindowHasRow
  BY DEF Kept
<1> QED
  BY <1>1, AlwaysKept, PTL

\* restore gives up a count only when a row of a new key has taken the last
\* slot, and then the count of one key (restore after evict).
THEOREM LossNeedsRowHolds == Spec => LossNeedsRow
<1> DEFINE Loss == LET L == {k \in Keys : lost'[k] # lost[k]} IN
                   L # {} =>
                      /\ Cardinality(L) = 1
                      /\ \E c \in Coalescers : \E j \in KeysOf(c) :
                            /\ j \notin Range(order[c])
                            /\ written'[j] = written[j] + 1
                            /\ L \subseteq KeysOf(c)
                            /\ Len(order'[c]) = MaxKeys
<1>1. Balanced /\ Kept /\ [Next]_vars => [Loss]_vars
  <2>1. Balanced /\ Kept /\ [Next]_vars => LossCovered
    BY StepKeeps DEF Balanced
  <2> QED
    BY <2>1, LossStated
<1> QED
  BY <1>1, AlwaysKept, PTL DEF Spec, LossNeedsRow

=============================================================================
