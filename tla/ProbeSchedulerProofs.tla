------------------------ MODULE ProbeSchedulerProofs ------------------------
(***************************************************************************)
(* Proofs about ProbeScheduler, for any connections, probes, intervals and *)
(* semaphore sizes: every permit of a connection and every global slot is  *)
(* held by exactly one goroutine that will give it back, so that both      *)
(* semaphores stay within their capacities, whatever reloads, edits and    *)
(* the shutdown do in between.                                             *)
(***************************************************************************)
EXTENDS ProbeScheduler, FiniteSetTheorems, TLAPS

\* What is in the semaphores, apart from their bounds.
PlainTypes ==
    /\ interval \in [Probes -> Intervals]
    /\ enabled \in [Probes -> BOOLEAN]
    /\ globalOn \in [Names -> BOOLEAN]
    /\ monitored \in [Conns -> BOOLEAN]
    /\ edits \in 0..MaxEdits
    /\ probesByConn \in [Probes -> Intervals \cup {0}]
    /\ known \subseteq Conns
    /\ rpc \in {"idle", "read"}
    /\ rows \in [Probes -> Intervals \cup {0}]
    /\ globals \subseteq Names
    /\ config \in [Goroutines -> Intervals \cup {0}]
    /\ stopped \in BOOLEAN

PCs == PermitPCs \cup {"none", "start", "delay", "acquire", "waiting", "loop"}

\* A goroutine that waits for or holds a permit knows which semaphore.
SemTypes ==
    /\ connSlots \in [Conns -> 0..MaxChans]
    /\ permits \in [Conns -> [1..MaxChans -> 0..MaxPerConn]]
    /\ probeSlots \in 0..MaxProbes
    /\ pc \in [Goroutines -> PCs]
    /\ slots \in [Goroutines -> 0..MaxChans]
    /\ \A g \in Goroutines :
          pc[g] \in PermitPCs \cup {"waiting"} => slots[g] \in 1..MaxChans

Holders(c, k) == {g \in Goroutines : connOf(g) = c /\ slots[g] = k
                                     /\ pc[g] \in PermitPCs}
Running == {g \in Goroutines : pc[g] \in SlotPCs}

LEMMA GoroutineConn == \A g \in Goroutines : connOf(g) \in Conns /\ probeOf(g) \in Probes
BY DEF Goroutines, Probes, connOf, probeOf

LEMMA FiniteGoroutines ==
    /\ \A c, k : IsFiniteSet(Holders(c, k)) /\ Cardinality(Holders(c, k)) \in Nat
    /\ IsFiniteSet(Running) /\ Cardinality(Running) \in Nat
<1>1. IsFiniteSet(Probes)
  BY SchedulerAssumption, FS_Product DEF Probes
<1>2. IsFiniteSet(1..MaxCopies)
  BY SchedulerAssumption, FS_Interval
<1>3. IsFiniteSet(Goroutines)
  BY <1>1, <1>2, FS_Product DEF Goroutines
<1> QED
  BY <1>3, FS_Subset, FS_CardinalityType DEF Holders, Running

-----------------------------------------------------------------------------
(* What a step does to the semaphores *)

\* Nobody takes or returns anything.
NoneMoves ==
    /\ UNCHANGED <<permits, probeSlots>>
    /\ \A g \in Goroutines :
          /\ pc'[g] \in PermitPCs <=> pc[g] \in PermitPCs
          /\ pc'[g] \in SlotPCs <=> pc[g] \in SlotPCs
          /\ pc[g] \in PermitPCs => slots'[g] = slots[g]

\* One goroutine takes or returns a permit of its semaphore or a global slot.
OneMoves ==
    \E g \in Goroutines :
      /\ pc' = [pc EXCEPT ![g] = pc'[g]]
      /\ \A h \in Goroutines \ {g} : slots'[h] = slots[h]
      /\ \/ /\ pc[g] = "waiting" /\ pc'[g] = "permitted" /\ slots'[g] = slots[g]
            /\ permits[connOf(g)][slots[g]] < MaxPerConn
            /\ permits' = [permits EXCEPT ![connOf(g)][slots[g]] = @ + 1]
            /\ probeSlots' = probeSlots
         \/ /\ pc[g] = "queued" /\ pc'[g] = "both" /\ slots'[g] = slots[g]
            /\ probeSlots < MaxProbes
            /\ probeSlots' = probeSlots + 1
            /\ permits' = permits
         \/ /\ pc[g] \in {"permitted", "queued"} /\ pc'[g] = "loop"
            /\ permits' = [permits EXCEPT ![connOf(g)][slots[g]] = @ - 1]
            /\ probeSlots' = probeSlots
         \/ /\ pc[g] \in SlotPCs /\ pc'[g] = "loop"
            /\ permits' = [permits EXCEPT ![connOf(g)][slots[g]] = @ - 1]
            /\ probeSlots' = probeSlots - 1

\* A goroutine only starts in a place that no goroutine occupies.
LEMMA StartedWereFree ==
    ASSUME SemTypes, NEW failed \in SUBSET Probes, loadConfigs(failed),
           NEW g \in Goroutines
    PROVE  \/ pc'[g] = pc[g]
           \/ pc[g] = "none" /\ pc'[g] = "start"
<1> DEFINE changed == {p \in visited \ failed : probesByConn[p] # loaded(p)}
           started == {<<p, CHOOSE i \in Free(p) : TRUE>> : p \in changed}
<1>1. pc'[g] = IF g \in started THEN "start" ELSE pc[g]
  BY DEF loadConfigs
<1>2. \A p \in changed : Free(p) # {}
  BY DEF loadConfigs
<1>3. ASSUME g \in started PROVE pc[g] = "none"
  <2> HIDE DEF changed
  <2>1. PICK p \in changed : g = <<p, CHOOSE i \in Free(p) : TRUE>>
    BY <1>3
  <2>2. (CHOOSE i \in Free(p) : TRUE) \in Free(p)
    BY <1>2
  <2> QED
    BY <2>1, <2>2 DEF Free
<1> QED
  BY <1>1, <1>3

LEMMA SemSteps == SemTypes /\ [Next]_vars => NoneMoves \/ OneMoves
<1> SUFFICES ASSUME SemTypes, [Next]_vars PROVE NoneMoves \/ OneMoves
  OBVIOUS
<1>1. CASE Operator \/ readConfigs \/ loadFails \/ Stop \/ UNCHANGED vars
  <2>1. UNCHANGED <<semVars, goVars>>
    BY <1>1 DEF Operator, SetInterval, SetEnabled, SetGlobal, SetMonitored, edit,
       readConfigs, loadFails, Stop, vars
  <2> QED
    BY <2>1 DEF NoneMoves, semVars, goVars
<1>2. ASSUME NEW failed \in SUBSET Probes, loadConfigs(failed) PROVE NoneMoves
  <2>1. UNCHANGED <<permits, probeSlots, slots>>
    BY <1>2 DEF loadConfigs
  <2>2. \A g \in Goroutines : \/ pc'[g] = pc[g]
                              \/ pc[g] = "none" /\ pc'[g] = "start"
    BY <1>2, StartedWereFree
  <2> QED
    BY <2>1, <2>2 DEF NoneMoves, PermitPCs, SlotPCs
<1>3. ASSUME NEW g \in Goroutines,
             \/ lookup(g) \/ lookupFails(g) \/ delayOver(g) \/ stopInDelay(g)
             \/ tick(g) \/ tickEnds(g) \/ stopLoop(g) \/ connSlotsFor(g)
             \/ queueForSlot(g) \/ stopBefore(g) \/ run(g)
      PROVE  NoneMoves
  <2>1. UNCHANGED <<permits, probeSlots>>
    BY <1>3 DEF lookup, lookupFails, delayOver, stopInDelay, tick, tickEnds,
       stopLoop, connSlotsFor, queueForSlot, stopBefore, run, move, exit, giveUp,
       semVars
  <2>2. /\ pc' = [pc EXCEPT ![g] = pc'[g]]
        /\ \A h \in Goroutines \ {g} : slots'[h] = slots[h]
        /\ pc[g] \in PermitPCs => slots'[g] = slots[g]
        /\ pc'[g] \in PermitPCs <=> pc[g] \in PermitPCs
        /\ pc'[g] \in SlotPCs <=> pc[g] \in SlotPCs
    BY <1>3 DEF lookup, lookupFails, delayOver, stopInDelay, tick, tickEnds,
       stopLoop, connSlotsFor, queueForSlot, stopBefore, run, move, exit, giveUp,
       Goto, SemTypes, PermitPCs, SlotPCs
  <2> QED
    BY <2>1, <2>2 DEF NoneMoves, SemTypes
<1>4. ASSUME NEW g \in Goroutines, takePermit(g) PROVE OneMoves
  BY <1>4 DEF takePermit, OneMoves, Goto, SemTypes
<1>5. ASSUME NEW g \in Goroutines, takeSlot(g) PROVE OneMoves
  BY <1>5 DEF takeSlot, OneMoves, Goto, SemTypes
<1>6. ASSUME NEW g \in Goroutines, stopWithPermit(g) PROVE OneMoves
  BY <1>6 DEF stopWithPermit, giveUp, releasePermit, OneMoves, Goto, SemTypes
<1>7. ASSUME NEW g \in Goroutines, stopWithBoth(g) \/ finish(g) PROVE OneMoves
  BY <1>7 DEF stopWithBoth, finish, releaseBoth, giveUp, releasePermit, OneMoves,
     Goto, SemTypes, SlotPCs
<1> QED
  BY <1>1, <1>2, <1>3, <1>4, <1>5, <1>6, <1>7 DEF Next, endReload, Goroutine

-----------------------------------------------------------------------------
(* Conservation *)

Conserved ==
    /\ probeSlots = Cardinality(Running)
    /\ \A c \in Conns : \A k \in 1..MaxChans :
          permits[c][k] = Cardinality(Holders(c, k))

\* Adding or removing one goroutine changes one count by one.
LEMMA ConservedStep ==
    ASSUME SemTypes, Conserved, NoneMoves \/ OneMoves
    PROVE  /\ Conserved'
           /\ permits' \in [Conns -> [1..MaxChans -> 0..MaxPerConn]]
           /\ probeSlots' \in 0..MaxProbes
<1>1. CASE NoneMoves
  <2>1. \A c, k : Holders(c, k)' = Holders(c, k)
    BY <1>1 DEF NoneMoves, Holders
  <2>2. Running' = Running
    BY <1>1 DEF NoneMoves, Running
  <2> QED
    BY <1>1, <2>1, <2>2 DEF NoneMoves, Conserved, SemTypes
<1>2. CASE OneMoves
  <2> PICK g \in Goroutines :
      /\ pc' = [pc EXCEPT ![g] = pc'[g]]
      /\ \A h \in Goroutines \ {g} : slots'[h] = slots[h]
      /\ \/ /\ pc[g] = "waiting" /\ pc'[g] = "permitted" /\ slots'[g] = slots[g]
            /\ permits[connOf(g)][slots[g]] < MaxPerConn
            /\ permits' = [permits EXCEPT ![connOf(g)][slots[g]] = @ + 1]
            /\ probeSlots' = probeSlots
         \/ /\ pc[g] = "queued" /\ pc'[g] = "both" /\ slots'[g] = slots[g]
            /\ probeSlots < MaxProbes
            /\ probeSlots' = probeSlots + 1
            /\ permits' = permits
         \/ /\ pc[g] \in {"permitted", "queued"} /\ pc'[g] = "loop"
            /\ permits' = [permits EXCEPT ![connOf(g)][slots[g]] = @ - 1]
            /\ probeSlots' = probeSlots
         \/ /\ pc[g] \in SlotPCs /\ pc'[g] = "loop"
            /\ permits' = [permits EXCEPT ![connOf(g)][slots[g]] = @ - 1]
            /\ probeSlots' = probeSlots - 1
    BY <1>2 DEF OneMoves
  <2>0. connOf(g) \in Conns /\ slots[g] \in 1..MaxChans
    BY GoroutineConn DEF SemTypes, PermitPCs, SlotPCs
  <2>1. PICK d \in Conns, l \in 1..MaxChans : d = connOf(g) /\ l = slots[g]
    BY <2>0
  <2>2. \A h \in Goroutines \ {g} : pc'[h] = pc[h] /\ slots'[h] = slots[h]
    BY DEF SemTypes
  <2>3. \A c, k : <<c, k>> # <<d, l>> => Holders(c, k)' = Holders(c, k)
    <3> SUFFICES ASSUME NEW c, NEW k, c # d \/ k # l
                 PROVE  Holders(c, k)' = Holders(c, k)
      OBVIOUS
    <3>1. pc'[g] \in PermitPCs => slots'[g] = slots[g]
      BY DEF PermitPCs
    <3>2. g \notin Holders(c, k) /\ g \notin Holders(c, k)'
      BY <2>1, <3>1 DEF Holders
    <3>3. \A h \in Goroutines \ {g} : h \in Holders(c, k)' <=> h \in Holders(c, k)
      BY <2>2 DEF Holders
    <3> QED
      BY <3>2, <3>3 DEF Holders
  <2>4. ASSUME NEW n \in Int, permits' = [permits EXCEPT ![d][l] = n]
        PROVE  /\ permits'[d][l] = n
               /\ \A c \in Conns : \A k \in 1..MaxChans :
                     <<c, k>> # <<d, l>> => permits'[c][k] = permits[c][k]
               /\ n \in 0..MaxPerConn =>
                     permits' \in [Conns -> [1..MaxChans -> 0..MaxPerConn]]
    BY <2>1, <2>4 DEF SemTypes
  <2>5. Cardinality(Holders(d, l)) \in Nat /\ permits[d][l] = Cardinality(Holders(d, l))
        /\ permits[d][l] \in 0..MaxPerConn /\ IsFiniteSet(Holders(d, l))
    <3>1. IsFiniteSet(Holders(d, l)) /\ Cardinality(Holders(d, l)) \in Nat
      BY ONLY FiniteGoroutines
    <3>2. permits[d][l] = Cardinality(Holders(d, l))
      BY ONLY Conserved, d \in Conns, l \in 1..MaxChans DEF Conserved
    <3>3. permits[d][l] \in 0..MaxPerConn
      BY ONLY SemTypes, d \in Conns, l \in 1..MaxChans DEF SemTypes
    <3> QED
      BY ONLY <3>1, <3>2, <3>3
  <2>6. Cardinality(Running) \in Nat /\ probeSlots = Cardinality(Running)
        /\ IsFiniteSet(Running) /\ probeSlots \in 0..MaxProbes
    BY FiniteGoroutines DEF Conserved, SemTypes
  <2>a. ASSUME NEW n \in 0..MaxPerConn, permits' = [permits EXCEPT ![d][l] = n],
               Cardinality(Holders(d, l)') = n
        PROVE  /\ \A c \in Conns : \A k \in 1..MaxChans :
                     permits'[c][k] = Cardinality(Holders(c, k)')
               /\ permits' \in [Conns -> [1..MaxChans -> 0..MaxPerConn]]
    <3>1. n \in Int
      BY SchedulerAssumption
    <3>2. ASSUME NEW c \in Conns, NEW k \in 1..MaxChans
          PROVE  permits'[c][k] = Cardinality(Holders(c, k)')
      <4>1. CASE c = d /\ k = l
        BY <2>4, <2>a, <3>1, <4>1
      <4>2. CASE ~(c = d /\ k = l)
        <5>1. permits'[c][k] = permits[c][k]
          BY <2>4, <2>a, <3>1, <4>2
        <5>2. Holders(c, k)' = Holders(c, k)
          BY <2>3, <4>2
        <5> QED
          BY <5>1, <5>2 DEF Conserved
      <4> QED
        BY <4>1, <4>2
    <3> QED
      BY <2>4, <2>a, <3>1, <3>2
  <2>7. ASSUME pc[g] = "waiting", pc'[g] = "permitted", slots'[g] = slots[g],
               permits[d][l] < MaxPerConn, probeSlots' = probeSlots,
               permits' = [permits EXCEPT ![d][l] = permits[d][l] + 1]
        PROVE  /\ Conserved'
               /\ permits' \in [Conns -> [1..MaxChans -> 0..MaxPerConn]]
               /\ probeSlots' \in 0..MaxProbes
    <3>1. Holders(d, l)' = Holders(d, l) \cup {g} /\ g \notin Holders(d, l)
      BY <2>1, <2>2, <2>7 DEF Holders, PermitPCs
    <3>2. Cardinality(Holders(d, l))' = Cardinality(Holders(d, l)) + 1
      BY <3>1, <2>5, FS_AddElement
    <3>3. Running' = Running
      BY <2>2, <2>7 DEF Running, SlotPCs
    <3>4. permits[d][l] + 1 \in 0..MaxPerConn
      BY <2>5, <2>7, SchedulerAssumption
    <3> QED
      BY <2>5, <2>6, <2>7, <2>a, <3>2, <3>3, <3>4 DEF Conserved
  <2>8. ASSUME pc[g] = "queued", pc'[g] = "both", slots'[g] = slots[g],
               probeSlots < MaxProbes, probeSlots' = probeSlots + 1,
               permits' = permits
        PROVE  /\ Conserved'
               /\ permits' \in [Conns -> [1..MaxChans -> 0..MaxPerConn]]
               /\ probeSlots' \in 0..MaxProbes
    <3>1. Running' = Running \cup {g} /\ g \notin Running
      BY <2>2, <2>8 DEF Running, SlotPCs
    <3>2. Cardinality(Running)' = Cardinality(Running) + 1
      BY <3>1, <2>6, FS_AddElement
    <3>3. Holders(d, l)' = Holders(d, l)
      BY <2>1, <2>2, <2>8 DEF Holders, PermitPCs
    <3>4. \A c, k : Holders(c, k)' = Holders(c, k)
      BY <2>3, <3>3
    <3>5. probeSlots' \in 0..MaxProbes
      BY <2>6, <2>8, SchedulerAssumption
    <3> QED
      BY <2>6, <2>8, <3>2, <3>4, <3>5 DEF Conserved, SemTypes
  <2>9. ASSUME pc[g] \in PermitPCs, pc'[g] = "loop",
               permits' = [permits EXCEPT ![d][l] = permits[d][l] - 1]
        PROVE  /\ \A c \in Conns : \A k \in 1..MaxChans :
                     permits'[c][k] = Cardinality(Holders(c, k)')
               /\ permits' \in [Conns -> [1..MaxChans -> 0..MaxPerConn]]
    <3>1. Holders(d, l)' = Holders(d, l) \ {g} /\ g \in Holders(d, l)
      BY <2>1, <2>2, <2>9 DEF Holders, PermitPCs
    <3>2. /\ Cardinality(Holders(d, l))' = Cardinality(Holders(d, l)) - 1
          /\ Cardinality(Holders(d, l))' \in Nat
      BY <3>1, <2>5, FS_RemoveElement, FiniteGoroutines, FS_CardinalityType, FS_Subset
    <3>3. permits[d][l] - 1 \in 0..MaxPerConn
      BY <2>5, <3>2, SchedulerAssumption
    <3> QED
      BY <2>5, <2>9, <2>a, <3>2, <3>3
  <2>10. ASSUME pc[g] \in {"permitted", "queued"}, pc'[g] = "loop",
                permits' = [permits EXCEPT ![d][l] = permits[d][l] - 1],
                probeSlots' = probeSlots
         PROVE  /\ Conserved'
                /\ permits' \in [Conns -> [1..MaxChans -> 0..MaxPerConn]]
                /\ probeSlots' \in 0..MaxProbes
    <3>1. Running' = Running
      BY <2>2, <2>10 DEF Running, SlotPCs
    <3>2. pc[g] \in PermitPCs
      BY <2>10 DEF PermitPCs
    <3> QED
      BY <2>6, <2>9, <2>10, <3>1, <3>2 DEF Conserved
  <2>11. ASSUME pc[g] \in SlotPCs, pc'[g] = "loop",
                permits' = [permits EXCEPT ![d][l] = permits[d][l] - 1],
                probeSlots' = probeSlots - 1
         PROVE  /\ Conserved'
                /\ permits' \in [Conns -> [1..MaxChans -> 0..MaxPerConn]]
                /\ probeSlots' \in 0..MaxProbes
    <3>1. Running' = Running \ {g} /\ g \in Running
      BY <2>2, <2>11 DEF Running, SlotPCs
    <3>2. /\ Cardinality(Running)' = Cardinality(Running) - 1
          /\ Cardinality(Running)' \in Nat
      BY <3>1, <2>6, FS_RemoveElement, FS_CardinalityType, FS_Subset
    <3>3. pc[g] \in PermitPCs
      BY <2>11 DEF PermitPCs, SlotPCs
    <3>4. probeSlots' \in 0..MaxProbes /\ probeSlots' = Cardinality(Running)'
      BY <2>6, <2>11, <3>2, SchedulerAssumption
    <3> QED
      BY <2>9, <2>11, <3>3, <3>4 DEF Conserved
  <2> QED
    BY <2>1, <2>7, <2>8, <2>10, <2>11
<1> QED
  BY <1>1, <1>2

-----------------------------------------------------------------------------
(* Types *)

LEMMA PlainStep == PlainTypes /\ [Next]_vars => PlainTypes'
<1> SUFFICES ASSUME PlainTypes, [Next]_vars PROVE PlainTypes'
  OBVIOUS
<1>1. CASE Operator
  <2>1. edits' \in 0..MaxEdits
        /\ UNCHANGED <<mapVars, goVars, reloadVars, stopped>>
    BY <1>1, SchedulerAssumption DEF Operator, SetInterval, SetEnabled, SetGlobal,
       SetMonitored, edit, PlainTypes
  <2>2. ASSUME NEW p \in Probes, SetInterval(p) \/ SetEnabled(p)
        PROVE  PlainTypes'
    BY <2>1, <2>2 DEF SetInterval, SetEnabled, PlainTypes, mapVars, goVars,
       reloadVars
  <2>3. ASSUME NEW n \in Names, SetGlobal(n) PROVE PlainTypes'
    BY <2>1, <2>3 DEF SetGlobal, PlainTypes, mapVars, goVars, reloadVars
  <2>4. ASSUME NEW c \in Conns, SetMonitored(c) PROVE PlainTypes'
    BY <2>1, <2>4 DEF SetMonitored, PlainTypes, mapVars, goVars, reloadVars
  <2> QED
    BY <1>1, <2>2, <2>3, <2>4 DEF Operator
<1>2. CASE readConfigs \/ loadFails
  BY <1>2 DEF readConfigs, loadFails, PlainTypes, rowVars, mapVars, goVars
<1>3. ASSUME NEW failed \in SUBSET Probes, loadConfigs(failed) PROVE PlainTypes'
  <2>1. \A p \in Probes : loaded(p) \in Intervals
    BY DEF loaded, PlainTypes
  <2>2. config' \in [Goroutines -> Intervals \cup {0}]
    BY <1>3, <2>1, GoroutineConn DEF loadConfigs, PlainTypes
  <2>3. probesByConn' \in [Probes -> Intervals \cup {0}] /\ known' \subseteq Conns
    BY <1>3, <2>1 DEF loadConfigs, PlainTypes
  <2>4. rows' \in [Probes -> Intervals \cup {0}] /\ globals' \subseteq Names
        /\ rpc' \in {"idle", "read"} /\ UNCHANGED <<rowVars, stopped>>
    BY <1>3 DEF loadConfigs
  <2> QED
    BY <2>2, <2>3, <2>4 DEF PlainTypes, rowVars
<1>4. ASSUME NEW g \in Goroutines, Goroutine(g) PROVE PlainTypes'
  <2>1. UNCHANGED <<rowVars, mapVars, reloadVars, stopped>>
    BY <1>4 DEF Goroutine, lookup, lookupFails, delayOver, stopInDelay, tick,
       tickEnds, stopLoop, connSlotsFor, takePermit, queueForSlot, takeSlot,
       stopBefore, stopWithPermit, stopWithBoth, run, finish, releaseBoth, move,
       exit, giveUp
  <2>2. config' = config \/ config' = [config EXCEPT ![g] = 0]
    BY <1>4 DEF Goroutine, lookup, lookupFails, delayOver, stopInDelay, tick,
       tickEnds, stopLoop, connSlotsFor, takePermit, queueForSlot, takeSlot,
       stopBefore, stopWithPermit, stopWithBoth, run, finish, releaseBoth, move,
       exit, giveUp
  <2> QED
    BY <2>1, <2>2 DEF PlainTypes, rowVars, mapVars, reloadVars
<1>5. CASE Stop \/ UNCHANGED vars
  BY <1>5 DEF Stop, vars, PlainTypes, rowVars, mapVars, goVars, reloadVars
<1> QED
  BY <1>1, <1>2, <1>3, <1>4, <1>5 DEF Next, endReload

\* Where the goroutines are and which semaphores they and the map refer to.
LEMMA PlaceStep ==
    SemTypes /\ [Next]_vars =>
      /\ connSlots' \in [Conns -> 0..MaxChans]
      /\ pc' \in [Goroutines -> PCs]
      /\ slots' \in [Goroutines -> 0..MaxChans]
      /\ \A g \in Goroutines :
            pc'[g] \in PermitPCs \cup {"waiting"} => slots'[g] \in 1..MaxChans
<1> DEFINE Goal ==
      /\ connSlots' \in [Conns -> 0..MaxChans]
      /\ pc' \in [Goroutines -> PCs]
      /\ slots' \in [Goroutines -> 0..MaxChans]
      /\ \A g \in Goroutines :
            pc'[g] \in PermitPCs \cup {"waiting"} => slots'[g] \in 1..MaxChans
<1> SUFFICES ASSUME SemTypes, [Next]_vars PROVE Goal
  OBVIOUS
<1>1. CASE Operator \/ readConfigs \/ loadFails \/ Stop \/ UNCHANGED vars
  <2>1. UNCHANGED <<semVars, goVars>>
    BY <1>1 DEF Operator, SetInterval, SetEnabled, SetGlobal, SetMonitored, edit,
       readConfigs, loadFails, Stop, vars
  <2> QED
    BY <2>1 DEF SemTypes, semVars, goVars
<1>2. ASSUME NEW failed \in SUBSET Probes, loadConfigs(failed) PROVE Goal
  <2>1. slots' = slots /\ DOMAIN pc' = Goroutines
        /\ pc' = [g \in Goroutines |-> pc'[g]]
    BY <1>2 DEF loadConfigs
  <2>2. \A g \in Goroutines : \/ pc'[g] = pc[g]
                              \/ pc[g] = "none" /\ pc'[g] = "start"
    BY <1>2, StartedWereFree
  <2>3. pc' \in [Goroutines -> PCs]
    BY <2>1, <2>2 DEF SemTypes, PCs
  <2>4. connSlots' \in [Conns -> 0..MaxChans]
    BY <1>2, SchedulerAssumption DEF loadConfigs, SemTypes
  <2> QED
    BY <2>1, <2>2, <2>3, <2>4 DEF SemTypes, PermitPCs
<1>3. ASSUME NEW g \in Goroutines, NEW place \in PCs, NEW chan \in 0..MaxChans,
             pc' = [pc EXCEPT ![g] = place],
             (slots' = slots /\ chan = slots[g]) \/ slots' = [slots EXCEPT ![g] = chan],
             place \in PermitPCs \cup {"waiting"} => chan \in 1..MaxChans,
             connSlots' \in [Conns -> 0..MaxChans]
      PROVE  Goal
  BY <1>3 DEF SemTypes
<1>4. ASSUME NEW g \in Goroutines, connSlotsFor(g) PROVE Goal
  <2>1. PICK k \in 1..MaxChans :
           /\ connSlots' = [connSlots EXCEPT ![connOf(g)] = k]
           /\ slots' = [slots EXCEPT ![g] = k]
    BY <1>4 DEF connSlotsFor
  <2>2. "waiting" \in PCs /\ k \in 0..MaxChans
        /\ connSlots' \in [Conns -> 0..MaxChans]
    BY <2>1, GoroutineConn, SchedulerAssumption DEF PCs, SemTypes
  <2> QED
    BY <1>3, <1>4, <2>1, <2>2 DEF connSlotsFor, Goto
<1>5. ASSUME NEW g \in Goroutines,
             \/ lookup(g) \/ delayOver(g) \/ tick(g) \/ takePermit(g)
             \/ queueForSlot(g) \/ takeSlot(g) \/ run(g)
      PROVE  Goal
  <2>1. slots' = slots /\ connSlots' = connSlots
    BY <1>5 DEF lookup, delayOver, tick, takePermit, queueForSlot, takeSlot, run,
       move, semVars
  <2>2. PICK place \in PCs :
           /\ pc' = [pc EXCEPT ![g] = place]
           /\ place \in PermitPCs => pc[g] \in PermitPCs \cup {"waiting"}
           /\ place # "waiting"
    BY <1>5 DEF lookup, delayOver, tick, takePermit, queueForSlot, takeSlot, run,
       move, Goto, PCs, PermitPCs
  <2> QED
    BY <2>1, <2>2, <1>3 DEF SemTypes
<1>6. ASSUME NEW g \in Goroutines,
             \/ lookupFails(g) \/ stopInDelay(g) \/ tickEnds(g) \/ stopLoop(g)
             \/ stopBefore(g) \/ stopWithPermit(g) \/ stopWithBoth(g) \/ finish(g)
      PROVE  Goal
  <2>1. slots' = [slots EXCEPT ![g] = 0] /\ connSlots' = connSlots
    BY <1>6 DEF lookupFails, stopInDelay, tickEnds, stopLoop, stopBefore,
       stopWithPermit, stopWithBoth, finish, releaseBoth, exit, giveUp, semVars
  <2>2. PICK place \in {"none", "loop"} : pc' = [pc EXCEPT ![g] = place]
    BY <1>6 DEF lookupFails, stopInDelay, tickEnds, stopLoop, stopBefore,
       stopWithPermit, stopWithBoth, finish, releaseBoth, exit, giveUp, Goto
  <2>3. place \in PCs /\ place \notin PermitPCs \cup {"waiting"}
        /\ 0 \in 0..MaxChans
    BY SchedulerAssumption DEF PCs, PermitPCs
  <2> QED
    BY <2>1, <2>2, <2>3, <1>3 DEF SemTypes
<1> QED
  BY <1>1, <1>2, <1>4, <1>5, <1>6 DEF Next, endReload, Goroutine

-----------------------------------------------------------------------------

Inv == PlainTypes /\ SemTypes /\ Conserved

LEMMA InitInv == Init => Inv
<1> SUFFICES ASSUME Init PROVE Inv
  OBVIOUS
<1>0. 0 \in 0..MaxChans /\ 0 \in 0..MaxPerConn /\ 0 \in 0..MaxProbes /\ 0 \in 0..MaxEdits
  BY SchedulerAssumption
<1>1. PlainTypes
  BY <1>0 DEF Init, PlainTypes
<1>2. SemTypes
  BY <1>0 DEF Init, SemTypes, PCs, PermitPCs
<1>3. Running = {} /\ \A c, k : Holders(c, k) = {}
  BY DEF Init, Running, Holders, PermitPCs, SlotPCs
<1>4. Conserved
  BY <1>3, FS_EmptySet DEF Init, Conserved
<1> QED
  BY <1>1, <1>2, <1>4 DEF Inv

LEMMA NextInv == Inv /\ [Next]_vars => Inv'
<1> SUFFICES ASSUME Inv, [Next]_vars PROVE Inv'
  OBVIOUS
<1>1. PlainTypes'
  BY PlainStep DEF Inv
<1>2. /\ Conserved'
      /\ permits' \in [Conns -> [1..MaxChans -> 0..MaxPerConn]]
      /\ probeSlots' \in 0..MaxProbes
  BY SemSteps, ConservedStep DEF Inv
<1>3. SemTypes'
  BY <1>2, PlaceStep DEF Inv, SemTypes
<1> QED
  BY <1>1, <1>2, <1>3 DEF Inv

\* The scheduler's state keeps its types; in particular no semaphore is ever
\* filled past its capacity or drained below zero (a receive that would block
\* for ever in releaseProbeSlot).
THEOREM TypeCorrect == Spec => []TypeOK
<1>1. Inv => TypeOK
  BY DEF Inv, PlainTypes, SemTypes, TypeOK, PCs
<1> QED
  BY <1>1, InitInv, NextInv, PTL DEF Spec

\* Every permit and every global slot belongs to one goroutine, also when a
\* reload prunes the semaphore of a connection whose probes are in flight.
THEOREM PermitsConservedHolds == Spec => []PermitsConserved
<1>1. Inv => PermitsConserved
  BY DEF Inv, Conserved, PermitsConserved, Running, Holders
<1> QED
  BY <1>1, InitInv, NextInv, PTL DEF Spec
=============================================================================
