------------------------ MODULE MonitoredPoolProofs ------------------------
(***************************************************************************)
(* Proofs about MonitoredPool, for every set of goroutines, keys and pool  *)
(* objects, every cap and every number of versions of the row.             *)
(*                                                                         *)
(*   TypeCorrect    the type invariant                                     *)
(*   SlotSafety     no path of GetConnectionForDatabase leaks or doubles   *)
(*                  a semaphore slot                                       *)
(*   BusySafety     connections in use or being opened stay within the cap *)
(*   PoolSafety     every open pool has exactly one owner that closes it   *)
(*   MappedSafety   the pools of the map never hold twice the cap           *)
(***************************************************************************)
EXTENDS MonitoredPool, FiniteSetTheorems, TLAPS

(***************************************************************************)
(* The strengthening.                                                      *)
(***************************************************************************)
\* A goroutine past the lookup refers to a pool object.
RefOK ==
    \A p \in Procs :
        /\ pc[p] \in {"create", "publish", "acquire", "opening", "pending",
                      "settled", "using"} => ref[p] \in Pools
        /\ pc[p] = "dial" => ref[p] = None

Types == TypeOK /\ RefOK

\* acquireWithinCap runs under the connection's lock.
LockHeld == \A p \in Procs : pc[p] \in LockPCs => lock = p

\* A goroutine that found no pool for its key still finds none when it
\* records the one it created: this is what the lock is for.
KeyFree ==
    \A p \in Procs :
        \/ pc[p] \in {"stat", "count", "room", "evict"} /\ ref[p] = None
        \/ pc[p] \in {"dial", "create", "publish"}
        => pools[key[p]] = None

\* Whoever removed pools closes them before its next acquisition or its end.
ClosingAt ==
    \A p \in Procs : closing[p] # {} => pc[p] \in {"slot", "ending"}

\* A pool under construction is open and known to its creator only.
BuildingOwned ==
    \A p \in Procs : pc[p] \in {"create", "publish"} =>
        /\ isOpen[ref[p]]
        /\ ref[p] \notin Mapped
        /\ \A x \in Procs \cup {Reloader} : ref[p] \notin closing[x]

\* Everything the ownership of a pool rests on.
OwnInv ==
    LockHeld /\ KeyFree /\ ClosingAt /\ BuildingOwned /\ PoolsAccounted

-----------------------------------------------------------------------------
(* Counting idle connections *)

\* A finite set of pools holds finitely many idle connections.
LEMMA IdleInType ==
    ASSUME TypeOK, NEW S \in SUBSET Pools
    PROVE  IdleIn(S) \in Nat
<1> DEFINE conns(o) == {o} \X (1..idle[o])
           f == [o \in S |-> conns(o)]
           T == {conns(o) : o \in S}
<1>1. IsFiniteSet(S)
  BY FS_Subset, PoolAssumption
<1>2. f \in Surjection(S, T)
  BY DEF Surjection
<1>3. IsFiniteSet(T)
  BY <1>1, <1>2, FS_Surjection
<1>4. ASSUME NEW c \in T PROVE IsFiniteSet(c)
  <2>1. PICK o \in S : c = {o} \X (1..idle[o])
    OBVIOUS
  <2>2. idle[o] \in Nat
    BY DEF TypeOK
  <2>3. IsFiniteSet({o})
    BY FS_Singleton
  <2>4. IsFiniteSet(1..idle[o])
    BY <2>2, FS_Interval
  <2> QED
    BY <2>1, <2>3, <2>4, FS_Product
<1>5. IsFiniteSet(UNION T)
  BY <1>3, <1>4, FS_UNION
<1> QED
  BY <1>5, FS_CardinalityType DEF IdleIn, IdleConns

\* The map holds pool objects only.
LEMMA MappedPools == TypeOK => Mapped \in SUBSET Pools
  BY DEF TypeOK, Mapped

-----------------------------------------------------------------------------
(* Type correctness *)

\* Every action keeps the types.
LEMMA TypeStep == Types /\ [Next]_vars => Types'
<1> SUFFICES ASSUME Types, [Next]_vars PROVE Types'
  OBVIOUS
<1> USE PoolAssumption DEF Types, TypeOK, RefOK, SlotPCs, poolVars, probeVars,
        reloadVars
<1>1. Types'
  <2>1. ASSUME UpdateConnection PROVE Types'
    BY <2>1 DEF UpdateConnection
  <2>2. ASSUME NEW p \in Procs, BeginProbe(p) PROVE Types'
    BY <2>2 DEF BeginProbe, Goto
  <2>3. ASSUME NEW p \in Procs, CheckConnectionUpdated(p) PROVE Types'
    BY <2>3 DEF CheckConnectionUpdated, Goto, Unmap
  <2>4. ASSUME NEW p \in Procs, NextDatabase(p) PROVE Types'
    BY <2>4 DEF NextDatabase, Goto
  <2>5. ASSUME NEW p \in Procs, EndProbe(p) PROVE Types'
    BY <2>5 DEF EndProbe, Goto
  <2>6. ASSUME NEW p \in Procs, RemovePool(p) PROVE Types'
    BY <2>6 DEF RemovePool, Goto, Unmap
  <2>7. ASSUME NEW p \in Procs, acquireSlot(p) PROVE Types'
    BY <2>7 DEF acquireSlot, Goto
  <2>8. ASSUME NEW p \in Procs, slotTimeout(p) PROVE Types'
    BY <2>8 DEF slotTimeout, Goto, AfterTimeout
  <2>9. ASSUME NEW p \in Procs, lockAndLookup(p) PROVE Types'
    BY <2>9 DEF lockAndLookup, Goto
  <2>10. ASSUME NEW p \in Procs, statPool(p) PROVE Types'
    BY <2>10 DEF statPool, Goto
  <2>11. ASSUME NEW p \in Procs, countIdle(p) PROVE Types'
    BY <2>11, IdleInType, MappedPools DEF countIdle, Goto
  <2>12. ASSUME NEW p \in Procs, compareRoom(p) PROVE Types'
    BY <2>12 DEF compareRoom, Goto
  <2>13. ASSUME NEW p \in Procs, evictFrom(p) PROVE Types'
    BY <2>13 DEF evictFrom, Goto
  <2>14. ASSUME NEW p \in Procs, evictDone(p) PROVE Types'
    BY <2>14 DEF evictDone, Goto
  <2>15. ASSUME NEW p \in Procs, dialPool(p) PROVE Types'
    BY <2>15 DEF dialPool, Goto
  <2>16. ASSUME NEW p \in Procs, dialOK(p) PROVE Types'
    BY <2>16 DEF dialOK, Goto
  <2>17. ASSUME NEW p \in Procs, dialFail(p) PROVE Types'
    <3> USE <2>17 DEF dialFail, Goto, failAcquire, AfterError
    <3>1. CASE pc[p] = "create"
      <4>1. isOpen' \in [Pools -> BOOLEAN]
        BY <3>1
      <4>2. ver' \in [Pools -> 0..MaxCfg]
        BY <3>1
      <4>3. RefOK'
        BY <3>1
      <4> QED
        BY <3>1, <4>1, <4>2, <4>3
    <3>2. CASE pc[p] # "create"
      BY <3>2
    <3> QED
      BY <3>1, <3>2
  <2>18. ASSUME NEW p \in Procs, publishPool(p) PROVE Types'
    BY <2>18 DEF publishPool, Goto
  <2>19. ASSUME NEW p \in Procs, acquireIdle(p) PROVE Types'
    BY <2>19 DEF acquireIdle, Goto
  <2>20. ASSUME NEW p \in Procs, acquireOpen(p) PROVE Types'
    BY <2>20 DEF acquireOpen, Goto
  <2>21. ASSUME NEW p \in Procs, acquireClosed(p) PROVE Types'
    BY <2>21 DEF acquireClosed, Goto, failAcquire, AfterClosedPool
  <2>22. ASSUME NEW p \in Procs, acquireExpired(p) PROVE Types'
    BY <2>22 DEF acquireExpired, Goto, expire, AfterTimeout
  <2>23. ASSUME NEW p \in Procs, openOK(p) PROVE Types'
    BY <2>23 DEF openOK, Goto
  <2>24. ASSUME NEW p \in Procs, openFail(p) PROVE Types'
    BY <2>24 DEF openFail, Goto, failAcquire, AfterError, expire, AfterTimeout
  <2>25. ASSUME NEW p \in Procs, openTimeout(p) PROVE Types'
    BY <2>25 DEF openTimeout, Goto
  <2>26. ASSUME NEW p \in Procs, ReturnConnection(p) PROVE Types'
    BY <2>26 DEF ReturnConnection, Goto
  <2>27. ASSUME NEW p \in Procs, releaseSlot(p) PROVE Types'
    BY <2>27 DEF releaseSlot, Goto
  <2>28. ASSUME NEW p \in Procs, constructed(p) PROVE Types'
    BY <2>28 DEF constructed, Goto
  <2>29. ASSUME NEW p \in Procs, releaseSlotAfterConstruction(p) PROVE Types'
    BY <2>29 DEF releaseSlotAfterConstruction, Goto
  <2>30. ASSUME NEW x \in Procs \cup {Reloader}, closePool(x) PROVE Types'
    BY <2>30 DEF closePool
  <2>31. ASSUME NEW x \in Procs \cup {Reloader}, closeReturns(x) PROVE Types'
    BY <2>31 DEF closeReturns
  <2>32. ASSUME NEW o \in Pools, idleExpires(o) PROVE Types'
    BY <2>32 DEF idleExpires
  <2>33. ASSUME SyncPools PROVE Types'
    BY <2>33 DEF SyncPools, Unmap
  <2>34. ASSUME InvalidateChangedPools PROVE Types'
    BY <2>34 DEF InvalidateChangedPools, Unmap
  <2>35. ASSUME Close PROVE Types'
    BY <2>35 DEF Close, Unmap
  <2>36. ASSUME Stop PROVE Types'
    BY <2>36 DEF Stop
  <2>37. CASE UNCHANGED vars
    BY <2>37 DEF vars, poolVars, probeVars, reloadVars
  <2>. QED
    BY <2>1, <2>2, <2>3, <2>4, <2>5, <2>6, <2>7, <2>8, <2>9, <2>10, <2>11,
       <2>12, <2>13, <2>14, <2>15, <2>16, <2>17, <2>18, <2>19, <2>20, <2>21,
       <2>22, <2>23, <2>24, <2>25, <2>26, <2>27, <2>28, <2>29, <2>30, <2>31,
       <2>32, <2>33, <2>34, <2>35, <2>36, <2>37 DEF Next, Probe, Get, GiveBack,
       Closer
<1> QED
  BY <1>1

\* An empty manager is well typed.
LEMMA TypesInit == Init => Types
<1> SUFFICES ASSUME Init PROVE TypeOK /\ RefOK
  BY DEF Types
<1> USE PoolAssumption DEF Init
<1>1. isOpen \in [Pools -> BOOLEAN] /\ down \in {"up", "stopping", "closed"}
  BY Zenon
<1>2. /\ updatedAt \in 0..MaxCfg /\ sem \in 0..Cap
      /\ cfg \in 1..MaxCfg /\ rsnap \in 0..MaxCfg
  OBVIOUS
<1>3. snap \in [Procs -> 0..MaxCfg] /\ ver \in [Pools -> 0..MaxCfg]
  OBVIOUS
<1>4. TypeOK
  BY <1>1, <1>2, <1>3 DEF TypeOK, SlotPCs
<1>5. RefOK
  BY DEF RefOK
<1> QED
  BY <1>4, <1>5

\* Every variable keeps its type; a goroutine works on a pool object from
\* the lookup of acquireWithinCap until it has returned its connection.
THEOREM TypeCorrect == Spec => []TypeOK
<1>1. Init => Types
  BY TypesInit
<1>2. Types => TypeOK
  BY DEF Types
<1> QED
  BY <1>1, <1>2, TypeStep, PTL DEF Spec

-----------------------------------------------------------------------------
(* Semaphore slots *)

\* What a step may do to the slots: nothing, or one goroutine takes one, or
\* one goroutine gives its own back.
SlotChange ==
    \/ sem' = sem /\ Holders' = Holders
    \/ \E p \in Procs \ Holders :
          sem' = sem + 1 /\ Holders' = Holders \cup {p}
    \/ \E p \in Holders : sem' = sem - 1 /\ Holders' = Holders \ {p}

\* Every action moves the semaphore and the set of slot holders together.
LEMMA SlotSteps == Types /\ [Next]_vars => SlotChange
<1> SUFFICES ASSUME Types, [Next]_vars PROVE SlotChange
  OBVIOUS
<1> USE DEF Types, TypeOK, RefOK, Holders, SlotPCs, SlotChange, poolVars,
        probeVars, reloadVars
<1>1. SlotChange
  <2>1. ASSUME UpdateConnection PROVE SlotChange
    BY <2>1 DEF UpdateConnection
  <2>2. ASSUME NEW p \in Procs, BeginProbe(p) PROVE SlotChange
    BY <2>2 DEF BeginProbe, Goto
  <2>3. ASSUME NEW p \in Procs, CheckConnectionUpdated(p) PROVE SlotChange
    BY <2>3 DEF CheckConnectionUpdated, Goto, Unmap
  <2>4. ASSUME NEW p \in Procs, NextDatabase(p) PROVE SlotChange
    BY <2>4 DEF NextDatabase, Goto
  <2>5. ASSUME NEW p \in Procs, EndProbe(p) PROVE SlotChange
    BY <2>5 DEF EndProbe, Goto
  <2>6. ASSUME NEW p \in Procs, RemovePool(p) PROVE SlotChange
    BY <2>6 DEF RemovePool, Goto, Unmap
  <2>7. ASSUME NEW p \in Procs, acquireSlot(p) PROVE SlotChange
    BY <2>7 DEF acquireSlot, Goto
  <2>8. ASSUME NEW p \in Procs, slotTimeout(p) PROVE SlotChange
    BY <2>8 DEF slotTimeout, Goto, AfterTimeout
  <2>9. ASSUME NEW p \in Procs, lockAndLookup(p) PROVE SlotChange
    BY <2>9 DEF lockAndLookup, Goto
  <2>10. ASSUME NEW p \in Procs, statPool(p) PROVE SlotChange
    BY <2>10 DEF statPool, Goto
  <2>11. ASSUME NEW p \in Procs, countIdle(p) PROVE SlotChange
    BY <2>11 DEF countIdle, Goto, Mapped
  <2>12. ASSUME NEW p \in Procs, compareRoom(p) PROVE SlotChange
    BY <2>12 DEF compareRoom, Goto
  <2>13. ASSUME NEW p \in Procs, evictFrom(p) PROVE SlotChange
    BY <2>13 DEF evictFrom, Goto
  <2>14. ASSUME NEW p \in Procs, evictDone(p) PROVE SlotChange
    BY <2>14 DEF evictDone, Goto
  <2>15. ASSUME NEW p \in Procs, dialPool(p) PROVE SlotChange
    BY <2>15 DEF dialPool, Goto
  <2>16. ASSUME NEW p \in Procs, dialOK(p) PROVE SlotChange
    BY <2>16 DEF dialOK, Goto
  <2>17. ASSUME NEW p \in Procs, dialFail(p) PROVE SlotChange
    BY <2>17 DEF dialFail, Goto, failAcquire, AfterError
  <2>18. ASSUME NEW p \in Procs, publishPool(p) PROVE SlotChange
    BY <2>18 DEF publishPool, Goto
  <2>19. ASSUME NEW p \in Procs, acquireIdle(p) PROVE SlotChange
    BY <2>19 DEF acquireIdle, Goto
  <2>20. ASSUME NEW p \in Procs, acquireOpen(p) PROVE SlotChange
    BY <2>20 DEF acquireOpen, Goto
  <2>21. ASSUME NEW p \in Procs, acquireClosed(p) PROVE SlotChange
    BY <2>21 DEF acquireClosed, Goto, failAcquire, AfterClosedPool
  <2>22. ASSUME NEW p \in Procs, acquireExpired(p) PROVE SlotChange
    BY <2>22 DEF acquireExpired, Goto, expire, AfterTimeout
  <2>23. ASSUME NEW p \in Procs, openOK(p) PROVE SlotChange
    BY <2>23 DEF openOK, Goto
  <2>24. ASSUME NEW p \in Procs, openFail(p) PROVE SlotChange
    BY <2>24 DEF openFail, Goto, failAcquire, AfterError, expire, AfterTimeout
  <2>25. ASSUME NEW p \in Procs, openTimeout(p) PROVE SlotChange
    BY <2>25 DEF openTimeout, Goto
  <2>26. ASSUME NEW p \in Procs, ReturnConnection(p) PROVE SlotChange
    BY <2>26 DEF ReturnConnection, Goto
  <2>27. ASSUME NEW p \in Procs, releaseSlot(p) PROVE SlotChange
    BY <2>27 DEF releaseSlot, Goto
  <2>28. ASSUME NEW p \in Procs, constructed(p) PROVE SlotChange
    BY <2>28 DEF constructed, Goto
  <2>29. ASSUME NEW p \in Procs, releaseSlotAfterConstruction(p) PROVE
     SlotChange
    BY <2>29 DEF releaseSlotAfterConstruction, Goto
  <2>30. ASSUME NEW x \in Procs \cup {Reloader}, closePool(x) PROVE SlotChange
    BY <2>30 DEF closePool
  <2>31. ASSUME NEW x \in Procs \cup {Reloader}, closeReturns(x) PROVE
     SlotChange
    BY <2>31 DEF closeReturns
  <2>32. ASSUME NEW o \in Pools, idleExpires(o) PROVE SlotChange
    BY <2>32 DEF idleExpires
  <2>33. ASSUME SyncPools PROVE SlotChange
    BY <2>33 DEF SyncPools, Unmap
  <2>34. ASSUME InvalidateChangedPools PROVE SlotChange
    BY <2>34 DEF InvalidateChangedPools, Unmap
  <2>35. ASSUME Close PROVE SlotChange
    BY <2>35 DEF Close, Unmap
  <2>36. ASSUME Stop PROVE SlotChange
    BY <2>36 DEF Stop
  <2>37. CASE UNCHANGED vars
    BY <2>37 DEF vars, poolVars, probeVars, reloadVars
  <2>. QED
    BY <2>1, <2>2, <2>3, <2>4, <2>5, <2>6, <2>7, <2>8, <2>9, <2>10, <2>11,
       <2>12, <2>13, <2>14, <2>15, <2>16, <2>17, <2>18, <2>19, <2>20, <2>21,
       <2>22, <2>23, <2>24, <2>25, <2>26, <2>27, <2>28, <2>29, <2>30, <2>31,
       <2>32, <2>33, <2>34, <2>35, <2>36, <2>37 DEF Next, Probe, Get, GiveBack,
       Closer
<1> QED
  BY <1>1

\* There are finitely many holders.
LEMMA HoldersFinite == IsFiniteSet(Holders) /\ Cardinality(Holders) \in Nat
<1>1. Holders \in SUBSET Procs
  BY DEF Holders
<1> QED
  BY <1>1, PoolAssumption, FS_Subset, FS_CardinalityType

\* Adding or removing one holder changes the cardinality by one.
LEMMA SlotStep == Types /\ SlotsConserved /\ [Next]_vars => SlotsConserved'
<1> SUFFICES ASSUME Types, SlotsConserved, SlotChange PROVE SlotsConserved'
  BY SlotSteps
<1>1. CASE sem' = sem /\ Holders' = Holders
  BY <1>1 DEF SlotsConserved
<1>2. ASSUME NEW p \in Procs \ Holders,
             sem' = sem + 1, Holders' = Holders \cup {p}
      PROVE  SlotsConserved'
  BY <1>2, HoldersFinite, FS_AddElement DEF SlotsConserved
<1>3. ASSUME NEW p \in Holders, sem' = sem - 1, Holders' = Holders \ {p}
      PROVE  SlotsConserved'
  BY <1>3, HoldersFinite, FS_RemoveElement DEF SlotsConserved
<1> QED
  BY <1>1, <1>2, <1>3 DEF SlotChange

\* The length of the semaphore is the number of goroutines that still have to
\* receive from it: no error or timeout path of GetConnectionForDatabase
\* keeps a slot for ever or releases one it does not hold.
THEOREM SlotSafety == Spec => []SlotsConserved
<1>1. Init => Types /\ SlotsConserved
  <2> SUFFICES ASSUME Init PROVE Types /\ SlotsConserved
    OBVIOUS
  <2>1. Types
    BY TypesInit
  <2>2. Holders = {}
    BY DEF Init, Holders, SlotPCs
  <2>3. SlotsConserved
    BY <2>2, FS_EmptySet DEF Init, SlotsConserved
  <2> QED
    BY <2>1, <2>3
<1> QED
  BY <1>1, TypeStep, SlotStep, PTL DEF Spec

\* Connections in use or being opened, in any pool, are at most the cap: the
\* fact evictIdleConnections builds on.
THEOREM BusySafety == Spec => []BusyWithinCap
<1>1. TypeOK /\ SlotsConserved => BusyWithinCap
  <2> SUFFICES ASSUME TypeOK, SlotsConserved PROVE BusyWithinCap
    OBVIOUS
  <2>1. Busy \in SUBSET Holders
    BY DEF Busy, Holders, SlotPCs
  <2>2. Cardinality(Busy) <= Cardinality(Holders)
    BY <2>1, HoldersFinite, FS_Subset
  <2>3. Cardinality(Busy) \in Nat
    BY <2>1, HoldersFinite, FS_Subset, FS_CardinalityType
  <2>4. Cardinality(Holders) <= Cap
    BY PoolAssumption DEF TypeOK, SlotsConserved
  <2> QED
    BY <2>2, <2>3, <2>4, HoldersFinite, PoolAssumption DEF BusyWithinCap
<1> QED
  BY <1>1, TypeCorrect, SlotSafety, PTL

-----------------------------------------------------------------------------
(* Ownership of pools *)

\* The steps that leave map, pools and lists of pools to close alone.
LEMMA QuietSteps ==
    ASSUME NEW p \in Procs,
           BeginProbe(p) \/ NextDatabase(p) \/ EndProbe(p) \/ acquireSlot(p)
             \/ lockAndLookup(p) \/ statPool(p) \/ countIdle(p) \/ compareRoom(p)
             \/ evictFrom(p) \/ evictDone(p) \/ releaseSlot(p)
    PROVE  pools' = pools /\ closing' = closing /\ isOpen' = isOpen
BY DEF BeginProbe, NextDatabase, EndProbe, acquireSlot, lockAndLookup, statPool,
  countIdle, compareRoom, evictFrom, evictDone, releaseSlot, poolVars

LEMMA SharedKept ==
    ASSUME NoPoolShared, pools' = pools, closing' = closing, isOpen' = isOpen
    PROVE  NoPoolShared'
BY DEF NoPoolShared, Mapped

LEMMA LostKept ==
    ASSUME NoPoolLost, pools' = pools, closing' = closing, isOpen' = isOpen,
           \A o \in Pools : Building(o) \subseteq Building(o)'
    PROVE  NoPoolLost'
<1> HIDE DEF Building
<1>1. Mapped' = Mapped
  BY DEF Mapped
<1> QED
  BY <1>1 DEF NoPoolLost

\* Removing every pool from the map hands them all to the one who does it.
LEMMA UnmapAllFacts ==
    ASSUME TypeOK, NEW x \in Procs \cup {Reloader}, Unmap(x, Keys)
    PROVE  /\ closing'[x] = Mapped
           /\ \A y \in (Procs \cup {Reloader}) \ {x} : closing'[y] = closing[y]
           /\ \A k \in Keys : pools'[k] = None
           /\ Mapped' = {}
<1>1. closing'[x] = Mapped
  BY DEF TypeOK, Unmap, Mapped
<1>2. \A y \in (Procs \cup {Reloader}) \ {x} : closing'[y] = closing[y]
  BY DEF TypeOK, Unmap
<1>3. \A k \in Keys : pools'[k] = None
  BY DEF Unmap
<1>4. Mapped' = {}
  BY <1>3 DEF Mapped
<1> QED
  BY <1>1, <1>2, <1>3, <1>4

LEMMA UnmapAllLost ==
    ASSUME TypeOK, NoPoolLost, NEW x \in Procs \cup {Reloader}, Unmap(x, Keys),
           closing[x] = {}, isOpen' = isOpen,
           \A o \in Pools : Building(o) \subseteq Building(o)'
    PROVE  NoPoolLost'
<1>1. /\ closing'[x] = Mapped
      /\ \A y \in (Procs \cup {Reloader}) \ {x} : closing'[y] = closing[y]
  BY UnmapAllFacts
<1> HIDE DEF Building, Mapped, Unmap
<1>2. SUFFICES ASSUME NEW o \in Pools, isOpen'[o], Building(o)' = {}
               PROVE  \E y \in Procs \cup {Reloader} : o \in closing'[y]
  BY DEF NoPoolLost
<1>3. isOpen[o] /\ Building(o) = {}
  BY <1>2
<1>4. o \in Mapped \/ \E y \in Procs \cup {Reloader} : o \in closing[y]
  BY <1>3 DEF NoPoolLost
<1>5. CASE o \in Mapped
  BY <1>1, <1>5, Zenon
<1>6. ASSUME NEW y \in Procs \cup {Reloader}, o \in closing[y]
      PROVE  o \in closing'[y]
  BY <1>1, <1>6
<1> QED
  BY <1>4, <1>5, <1>6

LEMMA UnmapAllShared ==
    ASSUME TypeOK, NoPoolShared, NEW x \in Procs \cup {Reloader}, Unmap(x, Keys)
    PROVE  NoPoolShared'
<1>1. /\ closing'[x] = Mapped
      /\ \A y \in (Procs \cup {Reloader}) \ {x} : closing'[y] = closing[y]
      /\ \A k \in Keys : pools'[k] = None
      /\ Mapped' = {}
  BY UnmapAllFacts
<1> HIDE DEF Mapped, Unmap
<1>2. /\ \A y \in Procs \cup {Reloader} : closing[y] \cap Mapped = {}
      /\ \A y, z \in Procs \cup {Reloader} :
            closing[y] \cap closing[z] # {} => y = z
  BY DEF NoPoolShared
<1>3. \A y, z \in Procs \cup {Reloader} : closing'[y] \cap closing'[z] # {} => y = z
  BY ONLY <1>1, <1>2
<1> QED
  BY ONLY <1>1, <1>3 DEF NoPoolShared

LEMMA UnmapAllBuilding ==
    ASSUME TypeOK, BuildingOwned, NEW x \in Procs \cup {Reloader}, Unmap(x, Keys),
           isOpen' = isOpen, ref' = ref,
           \A q \in Procs : pc'[q] \in {"create", "publish"} => pc'[q] = pc[q]
    PROVE  BuildingOwned'
<1>1. /\ closing'[x] = Mapped
      /\ \A y \in (Procs \cup {Reloader}) \ {x} : closing'[y] = closing[y]
      /\ Mapped' = {}
  BY UnmapAllFacts
<1> HIDE DEF Mapped, Unmap
<1>2. SUFFICES ASSUME NEW q \in Procs, pc'[q] \in {"create", "publish"}
               PROVE  /\ isOpen[ref[q]]
                      /\ \A y \in Procs \cup {Reloader} : ref[q] \notin closing'[y]
  BY <1>1 DEF BuildingOwned
<1>3. pc[q] \in {"create", "publish"}
  BY <1>2
<1>4. /\ isOpen[ref[q]] /\ ref[q] \notin Mapped
      /\ \A y \in Procs \cup {Reloader} : ref[q] \notin closing[y]
  BY <1>3 DEF BuildingOwned
<1> QED
  BY ONLY <1>1, <1>4

\* What the two callers that remove every pool at once do to the map.
LEMMA CheckUnmaps ==
    ASSUME TypeOK, ClosingAt, NEW p \in Procs, CheckConnectionUpdated(p)
    PROVE  /\ isOpen' = isOpen /\ ref' = ref /\ closing[p] = {}
           /\ \A q \in Procs : pc'[q] \in {"create", "publish"} => pc'[q] = pc[q]
           /\ \A o \in Pools : Building(o) \subseteq Building(o)'
           /\ (pools' = pools /\ closing' = closing) \/ Unmap(p, Keys)
<1>1. pc[p] = "check" /\ pc' = [pc EXCEPT ![p] = "slot"] /\ isOpen' = isOpen /\ ref' = ref
  BY DEF CheckConnectionUpdated, Goto
<1>2. closing[p] = {}
  BY <1>1 DEF ClosingAt
<1>3. pc'[p] = "slot" /\ \A q \in Procs \ {p} : pc'[q] = pc[q]
  BY <1>1 DEF TypeOK
<1>4. \A o \in Pools : Building(o) \subseteq Building(o)'
  BY ONLY <1>1, <1>3 DEF Building
<1>5. (pools' = pools /\ closing' = closing) \/ Unmap(p, Keys)
  BY DEF CheckConnectionUpdated
<1> QED
  BY <1>1, <1>2, <1>3, <1>4, <1>5

LEMMA SyncUnmaps ==
    ASSUME SyncPools
    PROVE  /\ isOpen' = isOpen /\ ref' = ref /\ pc' = pc /\ closing[Reloader] = {}
           /\ \A o \in Pools : Building(o) \subseteq Building(o)'
           /\ (pools' = pools /\ closing' = closing) \/ Unmap(Reloader, Keys)
<1>1. isOpen' = isOpen /\ ref' = ref /\ pc' = pc /\ closing[Reloader] = {}
  BY DEF SyncPools, probeVars
<1>2. \A o \in Pools : Building(o) \subseteq Building(o)'
  BY ONLY <1>1 DEF Building
<1>3. (pools' = pools /\ closing' = closing) \/ Unmap(Reloader, Keys)
  BY DEF SyncPools
<1> QED
  BY <1>1, <1>2, <1>3

\* A goroutine that takes a quiet step is not building a pool.
LEMMA QuietBuilding ==
    ASSUME TypeOK, NEW p \in Procs,
           BeginProbe(p) \/ NextDatabase(p) \/ EndProbe(p) \/ acquireSlot(p)
             \/ lockAndLookup(p) \/ statPool(p) \/ countIdle(p) \/ compareRoom(p)
             \/ evictFrom(p) \/ evictDone(p) \/ releaseSlot(p)
    PROVE  \A o \in Pools : Building(o) \subseteq Building(o)'
<1>1. pc[p] \notin {"create", "publish"}
  BY DEF BeginProbe, NextDatabase, EndProbe, acquireSlot, lockAndLookup, statPool,
    countIdle, compareRoom, evictFrom, evictDone, releaseSlot
<1>2. \A q \in Procs \ {p} : pc'[q] = pc[q]
  BY DEF BeginProbe, NextDatabase, EndProbe, acquireSlot, lockAndLookup, statPool,
    countIdle, compareRoom, evictFrom, evictDone, releaseSlot, Goto, TypeOK
<1>3. \A q \in Procs \ {p} : ref'[q] = ref[q]
  BY DEF BeginProbe, NextDatabase, EndProbe, acquireSlot, lockAndLookup, statPool,
    countIdle, compareRoom, evictFrom, evictDone, releaseSlot, TypeOK
<1> QED
  BY ONLY <1>1, <1>2, <1>3 DEF Building

\* Every action keeps the lock, the building pools and the owners in order.
LEMMA OwnStep == Types /\ OwnInv /\ [Next]_vars => OwnInv'
<1> SUFFICES ASSUME Types, OwnInv, [Next]_vars
             PROVE  OwnInv'
  OBVIOUS
<1> USE PoolAssumption DEF Types, TypeOK, RefOK, SlotPCs, LockPCs, poolVars,
        probeVars, reloadVars, OwnInv, LockHeld, KeyFree,
        ClosingAt, BuildingOwned, PoolsAccounted, NoPoolShared, NoPoolLost,
        Building, Mapped, Fresh
<1>1. OwnInv'
  <2>1. ASSUME UpdateConnection PROVE OwnInv'
    BY <2>1 DEF UpdateConnection
  <2>2. ASSUME NEW p \in Procs, BeginProbe(p) PROVE OwnInv'
    <3> USE <2>2 DEF BeginProbe, Goto
    <3>1. LockHeld'
      OBVIOUS
    <3>2. KeyFree'
      OBVIOUS
    <3>3. ClosingAt'
      OBVIOUS
    <3>4. BuildingOwned'
      OBVIOUS
    <3>5. NoPoolLost'
      <4>1. pools' = pools /\ closing' = closing /\ isOpen' = isOpen
        BY ONLY <2>2, p \in Procs, QuietSteps
      <4>2. NoPoolLost /\ TypeOK
        BY ONLY Types, OwnInv DEF Types, OwnInv, PoolsAccounted
      <4>3. \A o \in Pools : Building(o) \subseteq Building(o)'
        BY ONLY <2>2, <4>2, p \in Procs, QuietBuilding
      <4> QED
        BY ONLY <4>1, <4>2, <4>3, LostKept
    <3>6. NoPoolShared'
      <4>1. pools' = pools /\ closing' = closing /\ isOpen' = isOpen
        BY ONLY <2>2, p \in Procs, QuietSteps
      <4>2. NoPoolShared
        BY ONLY OwnInv DEF OwnInv, PoolsAccounted
      <4> QED
        BY ONLY <4>1, <4>2, SharedKept
    <3> QED
      BY <3>1, <3>2, <3>3, <3>4, <3>5, <3>6
  <2>3. ASSUME NEW p \in Procs, CheckConnectionUpdated(p) PROVE OwnInv'
    <3> USE <2>3 DEF CheckConnectionUpdated, Goto, Unmap
    <3>1. LockHeld'
      OBVIOUS
    <3>2. KeyFree'
      OBVIOUS
    <3>3. ClosingAt'
      OBVIOUS
    <3>4. BuildingOwned' /\ NoPoolLost' /\ NoPoolShared'
      <4>1. /\ TypeOK /\ ClosingAt /\ BuildingOwned
            /\ NoPoolLost /\ NoPoolShared
        BY ONLY Types, OwnInv DEF Types, OwnInv, PoolsAccounted
      <4>2. /\ isOpen' = isOpen /\ ref' = ref /\ closing[p] = {}
            /\ \A q \in Procs : pc'[q] \in {"create", "publish"} => pc'[q] = pc[q]
            /\ \A o \in Pools : Building(o) \subseteq Building(o)'
            /\ (pools' = pools /\ closing' = closing) \/ Unmap(p, Keys)
        BY ONLY <2>3, <4>1, p \in Procs, CheckUnmaps
      <4>3. CASE Unmap(p, Keys)
        <5>1. p \in Procs \cup {Reloader}
          BY ONLY p \in Procs
        <5> QED
          BY ONLY <4>1, <4>2, <4>3, <5>1, UnmapAllBuilding, UnmapAllLost,
            UnmapAllShared
      <4>4. CASE pools' = pools /\ closing' = closing
        <5>1. NoPoolLost' /\ NoPoolShared'
          BY ONLY <4>1, <4>2, <4>4, LostKept, SharedKept
        <5>2. BuildingOwned'
          BY ONLY <4>1, <4>2, <4>4 DEF BuildingOwned, Mapped
        <5> QED
          BY ONLY <5>1, <5>2
      <4> QED
        BY ONLY <4>2, <4>3, <4>4
    <3> QED
      BY ONLY <3>1, <3>2, <3>3, <3>4 DEF OwnInv, PoolsAccounted
  <2>4. ASSUME NEW p \in Procs, NextDatabase(p) PROVE OwnInv'
    <3> USE <2>4 DEF NextDatabase, Goto
    <3>1. LockHeld'
      OBVIOUS
    <3>2. KeyFree'
      OBVIOUS
    <3>3. ClosingAt'
      OBVIOUS
    <3>4. BuildingOwned'
      OBVIOUS
    <3>5. NoPoolLost'
      <4>1. pools' = pools /\ closing' = closing /\ isOpen' = isOpen
        BY ONLY <2>4, p \in Procs, QuietSteps
      <4>2. NoPoolLost /\ TypeOK
        BY ONLY Types, OwnInv DEF Types, OwnInv, PoolsAccounted
      <4>3. \A o \in Pools : Building(o) \subseteq Building(o)'
        BY ONLY <2>4, <4>2, p \in Procs, QuietBuilding
      <4> QED
        BY ONLY <4>1, <4>2, <4>3, LostKept
    <3>6. NoPoolShared'
      <4>1. pools' = pools /\ closing' = closing /\ isOpen' = isOpen
        BY ONLY <2>4, p \in Procs, QuietSteps
      <4>2. NoPoolShared
        BY ONLY OwnInv DEF OwnInv, PoolsAccounted
      <4> QED
        BY ONLY <4>1, <4>2, SharedKept
    <3> QED
      BY <3>1, <3>2, <3>3, <3>4, <3>5, <3>6
  <2>5. ASSUME NEW p \in Procs, EndProbe(p) PROVE OwnInv'
    <3> USE <2>5 DEF EndProbe, Goto
    <3>1. LockHeld'
      OBVIOUS
    <3>2. KeyFree'
      OBVIOUS
    <3>3. ClosingAt'
      OBVIOUS
    <3>4. BuildingOwned'
      OBVIOUS
    <3>5. NoPoolLost'
      <4>1. pools' = pools /\ closing' = closing /\ isOpen' = isOpen
        BY ONLY <2>5, p \in Procs, QuietSteps
      <4>2. NoPoolLost /\ TypeOK
        BY ONLY Types, OwnInv DEF Types, OwnInv, PoolsAccounted
      <4>3. \A o \in Pools : Building(o) \subseteq Building(o)'
        BY ONLY <2>5, <4>2, p \in Procs, QuietBuilding
      <4> QED
        BY ONLY <4>1, <4>2, <4>3, LostKept
    <3>6. NoPoolShared'
      <4>1. pools' = pools /\ closing' = closing /\ isOpen' = isOpen
        BY ONLY <2>5, p \in Procs, QuietSteps
      <4>2. NoPoolShared
        BY ONLY OwnInv DEF OwnInv, PoolsAccounted
      <4> QED
        BY ONLY <4>1, <4>2, SharedKept
    <3> QED
      BY <3>1, <3>2, <3>3, <3>4, <3>5, <3>6
  <2>6. ASSUME NEW p \in Procs, RemovePool(p) PROVE OwnInv'
    <3> USE <2>6 DEF RemovePool, Goto, Unmap
    <3>1. LockHeld'
      OBVIOUS
    <3>2. KeyFree'
      OBVIOUS
    <3>3. ClosingAt'
      OBVIOUS
    <3>4. BuildingOwned'
      OBVIOUS
    <3>5. NoPoolLost'
      OBVIOUS
    <3>6. NoPoolShared'
      OBVIOUS
    <3> QED
      BY <3>1, <3>2, <3>3, <3>4, <3>5, <3>6
  <2>7. ASSUME NEW p \in Procs, acquireSlot(p) PROVE OwnInv'
    <3> USE <2>7 DEF acquireSlot, Goto
    <3>1. LockHeld'
      OBVIOUS
    <3>2. KeyFree'
      OBVIOUS
    <3>3. ClosingAt'
      OBVIOUS
    <3>4. BuildingOwned'
      OBVIOUS
    <3>5. NoPoolLost'
      <4>1. pools' = pools /\ closing' = closing /\ isOpen' = isOpen
        BY ONLY <2>7, p \in Procs, QuietSteps
      <4>2. NoPoolLost /\ TypeOK
        BY ONLY Types, OwnInv DEF Types, OwnInv, PoolsAccounted
      <4>3. \A o \in Pools : Building(o) \subseteq Building(o)'
        BY ONLY <2>7, <4>2, p \in Procs, QuietBuilding
      <4> QED
        BY ONLY <4>1, <4>2, <4>3, LostKept
    <3>6. NoPoolShared'
      <4>1. pools' = pools /\ closing' = closing /\ isOpen' = isOpen
        BY ONLY <2>7, p \in Procs, QuietSteps
      <4>2. NoPoolShared
        BY ONLY OwnInv DEF OwnInv, PoolsAccounted
      <4> QED
        BY ONLY <4>1, <4>2, SharedKept
    <3> QED
      BY <3>1, <3>2, <3>3, <3>4, <3>5, <3>6
  <2>8. ASSUME NEW p \in Procs, slotTimeout(p) PROVE OwnInv'
    <3> USE <2>8 DEF slotTimeout, Goto, AfterTimeout
    <3>1. LockHeld'
      OBVIOUS
    <3>2. KeyFree'
      OBVIOUS
    <3>3. ClosingAt'
      OBVIOUS
    <3>4. BuildingOwned'
      OBVIOUS
    <3>5. NoPoolLost'
      OBVIOUS
    <3>6. NoPoolShared'
      OBVIOUS
    <3> QED
      BY <3>1, <3>2, <3>3, <3>4, <3>5, <3>6
  <2>9. ASSUME NEW p \in Procs, lockAndLookup(p) PROVE OwnInv'
    <3> USE <2>9 DEF lockAndLookup, Goto
    <3>1. LockHeld'
      OBVIOUS
    <3>2. KeyFree'
      OBVIOUS
    <3>3. ClosingAt'
      OBVIOUS
    <3>4. BuildingOwned'
      OBVIOUS
    <3>5. NoPoolLost'
      <4>1. pools' = pools /\ closing' = closing /\ isOpen' = isOpen
        BY ONLY <2>9, p \in Procs, QuietSteps
      <4>2. NoPoolLost /\ TypeOK
        BY ONLY Types, OwnInv DEF Types, OwnInv, PoolsAccounted
      <4>3. \A o \in Pools : Building(o) \subseteq Building(o)'
        BY ONLY <2>9, <4>2, p \in Procs, QuietBuilding
      <4> QED
        BY ONLY <4>1, <4>2, <4>3, LostKept
    <3>6. NoPoolShared'
      <4>1. pools' = pools /\ closing' = closing /\ isOpen' = isOpen
        BY ONLY <2>9, p \in Procs, QuietSteps
      <4>2. NoPoolShared
        BY ONLY OwnInv DEF OwnInv, PoolsAccounted
      <4> QED
        BY ONLY <4>1, <4>2, SharedKept
    <3> QED
      BY <3>1, <3>2, <3>3, <3>4, <3>5, <3>6
  <2>10. ASSUME NEW p \in Procs, statPool(p) PROVE OwnInv'
    <3> USE <2>10 DEF statPool, Goto
    <3>1. LockHeld'
      OBVIOUS
    <3>2. KeyFree'
      OBVIOUS
    <3>3. ClosingAt'
      OBVIOUS
    <3>4. BuildingOwned'
      OBVIOUS
    <3>5. NoPoolLost'
      <4>1. pools' = pools /\ closing' = closing /\ isOpen' = isOpen
        BY ONLY <2>10, p \in Procs, QuietSteps
      <4>2. NoPoolLost /\ TypeOK
        BY ONLY Types, OwnInv DEF Types, OwnInv, PoolsAccounted
      <4>3. \A o \in Pools : Building(o) \subseteq Building(o)'
        BY ONLY <2>10, <4>2, p \in Procs, QuietBuilding
      <4> QED
        BY ONLY <4>1, <4>2, <4>3, LostKept
    <3>6. NoPoolShared'
      <4>1. pools' = pools /\ closing' = closing /\ isOpen' = isOpen
        BY ONLY <2>10, p \in Procs, QuietSteps
      <4>2. NoPoolShared
        BY ONLY OwnInv DEF OwnInv, PoolsAccounted
      <4> QED
        BY ONLY <4>1, <4>2, SharedKept
    <3> QED
      BY <3>1, <3>2, <3>3, <3>4, <3>5, <3>6
  <2>11. ASSUME NEW p \in Procs, countIdle(p) PROVE OwnInv'
    <3> USE <2>11 DEF countIdle, Goto, Mapped
    <3>1. LockHeld'
      OBVIOUS
    <3>2. KeyFree'
      OBVIOUS
    <3>3. ClosingAt'
      OBVIOUS
    <3>4. BuildingOwned'
      OBVIOUS
    <3>5. NoPoolLost'
      <4>1. pools' = pools /\ closing' = closing /\ isOpen' = isOpen
        BY ONLY <2>11, p \in Procs, QuietSteps
      <4>2. NoPoolLost /\ TypeOK
        BY ONLY Types, OwnInv DEF Types, OwnInv, PoolsAccounted
      <4>3. \A o \in Pools : Building(o) \subseteq Building(o)'
        BY ONLY <2>11, <4>2, p \in Procs, QuietBuilding
      <4> QED
        BY ONLY <4>1, <4>2, <4>3, LostKept
    <3>6. NoPoolShared'
      <4>1. pools' = pools /\ closing' = closing /\ isOpen' = isOpen
        BY ONLY <2>11, p \in Procs, QuietSteps
      <4>2. NoPoolShared
        BY ONLY OwnInv DEF OwnInv, PoolsAccounted
      <4> QED
        BY ONLY <4>1, <4>2, SharedKept
    <3> QED
      BY <3>1, <3>2, <3>3, <3>4, <3>5, <3>6
  <2>12. ASSUME NEW p \in Procs, compareRoom(p) PROVE OwnInv'
    <3> USE <2>12 DEF compareRoom, Goto
    <3>1. LockHeld'
      OBVIOUS
    <3>2. KeyFree'
      OBVIOUS
    <3>3. ClosingAt'
      OBVIOUS
    <3>4. BuildingOwned'
      OBVIOUS
    <3>5. NoPoolLost'
      <4>1. pools' = pools /\ closing' = closing /\ isOpen' = isOpen
        BY ONLY <2>12, p \in Procs, QuietSteps
      <4>2. NoPoolLost /\ TypeOK
        BY ONLY Types, OwnInv DEF Types, OwnInv, PoolsAccounted
      <4>3. \A o \in Pools : Building(o) \subseteq Building(o)'
        BY ONLY <2>12, <4>2, p \in Procs, QuietBuilding
      <4> QED
        BY ONLY <4>1, <4>2, <4>3, LostKept
    <3>6. NoPoolShared'
      <4>1. pools' = pools /\ closing' = closing /\ isOpen' = isOpen
        BY ONLY <2>12, p \in Procs, QuietSteps
      <4>2. NoPoolShared
        BY ONLY OwnInv DEF OwnInv, PoolsAccounted
      <4> QED
        BY ONLY <4>1, <4>2, SharedKept
    <3> QED
      BY <3>1, <3>2, <3>3, <3>4, <3>5, <3>6
  <2>13. ASSUME NEW p \in Procs, evictFrom(p) PROVE OwnInv'
    <3> USE <2>13 DEF evictFrom, Goto
    <3>1. LockHeld'
      OBVIOUS
    <3>2. KeyFree'
      OBVIOUS
    <3>3. ClosingAt'
      OBVIOUS
    <3>4. BuildingOwned'
      OBVIOUS
    <3>5. NoPoolLost'
      <4>1. pools' = pools /\ closing' = closing /\ isOpen' = isOpen
        BY ONLY <2>13, p \in Procs, QuietSteps
      <4>2. NoPoolLost /\ TypeOK
        BY ONLY Types, OwnInv DEF Types, OwnInv, PoolsAccounted
      <4>3. \A o \in Pools : Building(o) \subseteq Building(o)'
        BY ONLY <2>13, <4>2, p \in Procs, QuietBuilding
      <4> QED
        BY ONLY <4>1, <4>2, <4>3, LostKept
    <3>6. NoPoolShared'
      <4>1. pools' = pools /\ closing' = closing /\ isOpen' = isOpen
        BY ONLY <2>13, p \in Procs, QuietSteps
      <4>2. NoPoolShared
        BY ONLY OwnInv DEF OwnInv, PoolsAccounted
      <4> QED
        BY ONLY <4>1, <4>2, SharedKept
    <3> QED
      BY <3>1, <3>2, <3>3, <3>4, <3>5, <3>6
  <2>14. ASSUME NEW p \in Procs, evictDone(p) PROVE OwnInv'
    <3> USE <2>14 DEF evictDone, Goto
    <3>1. LockHeld'
      OBVIOUS
    <3>2. KeyFree'
      OBVIOUS
    <3>3. ClosingAt'
      OBVIOUS
    <3>4. BuildingOwned'
      OBVIOUS
    <3>5. NoPoolLost'
      <4>1. pools' = pools /\ closing' = closing /\ isOpen' = isOpen
        BY ONLY <2>14, p \in Procs, QuietSteps
      <4>2. NoPoolLost /\ TypeOK
        BY ONLY Types, OwnInv DEF Types, OwnInv, PoolsAccounted
      <4>3. \A o \in Pools : Building(o) \subseteq Building(o)'
        BY ONLY <2>14, <4>2, p \in Procs, QuietBuilding
      <4> QED
        BY ONLY <4>1, <4>2, <4>3, LostKept
    <3>6. NoPoolShared'
      <4>1. pools' = pools /\ closing' = closing /\ isOpen' = isOpen
        BY ONLY <2>14, p \in Procs, QuietSteps
      <4>2. NoPoolShared
        BY ONLY OwnInv DEF OwnInv, PoolsAccounted
      <4> QED
        BY ONLY <4>1, <4>2, SharedKept
    <3> QED
      BY <3>1, <3>2, <3>3, <3>4, <3>5, <3>6
  <2>15. ASSUME NEW p \in Procs, dialPool(p) PROVE OwnInv'
    <3> USE <2>15 DEF dialPool, Goto
    <3>1. LockHeld'
      OBVIOUS
    <3>2. KeyFree'
      OBVIOUS
    <3>3. ClosingAt'
      OBVIOUS
    <3>4. BuildingOwned'
      OBVIOUS
    <3>5. NoPoolLost'
      OBVIOUS
    <3>6. NoPoolShared'
      OBVIOUS
    <3> QED
      BY <3>1, <3>2, <3>3, <3>4, <3>5, <3>6
  <2>16. ASSUME NEW p \in Procs, dialOK(p) PROVE OwnInv'
    <3> USE <2>16 DEF dialOK, Goto
    <3>1. LockHeld'
      OBVIOUS
    <3>2. KeyFree'
      OBVIOUS
    <3>3. ClosingAt'
      OBVIOUS
    <3>4. BuildingOwned'
      OBVIOUS
    <3>5. NoPoolLost'
      OBVIOUS
    <3>6. NoPoolShared'
      OBVIOUS
    <3> QED
      BY <3>1, <3>2, <3>3, <3>4, <3>5, <3>6
  <2>17. ASSUME NEW p \in Procs, dialFail(p) PROVE OwnInv'
    <3> USE <2>17 DEF dialFail, Goto, failAcquire, AfterError
    <3>1. LockHeld'
      OBVIOUS
    <3>2. KeyFree'
      OBVIOUS
    <3>3. ClosingAt'
      OBVIOUS
    <3>4. BuildingOwned'
      OBVIOUS
    <3>5. NoPoolLost'
      <4>1. CASE pc[p] = "create"
        <5> SUFFICES ASSUME NEW o \in Pools, isOpen'[o]
                     PROVE  \/ o \in Mapped'
                            \/ \E x \in Procs \cup {Reloader} : o \in closing'[x]
                            \/ Building(o)' # {}
          BY DEF NoPoolLost
        <5>1. o # ref[p] /\ isOpen[o]
          BY <4>1
        <5>2. p \notin Building(o) /\ Building(o) \subseteq Building(o)'
          BY <4>1, <5>1
        <5>3. Mapped' = Mapped /\ closing' = closing
          OBVIOUS
        <5>4. \/ o \in Mapped
              \/ \E x \in Procs \cup {Reloader} : o \in closing[x]
              \/ Building(o) # {}
          BY <5>1
        <5> HIDE DEF Building, Mapped
        <5> QED
          BY <5>2, <5>3, <5>4
      <4>2. CASE pc[p] = "dial"
        BY <4>2
      <4> QED
        BY <4>1, <4>2
    <3>6. NoPoolShared'
      OBVIOUS
    <3> QED
      BY <3>1, <3>2, <3>3, <3>4, <3>5, <3>6
  <2>18. ASSUME NEW p \in Procs, publishPool(p) PROVE OwnInv'
    <3> USE <2>18 DEF publishPool, Goto
    <3>1. LockHeld'
      OBVIOUS
    <3>2. KeyFree'
      OBVIOUS
    <3>3. ClosingAt'
      OBVIOUS
    <3>4. BuildingOwned'
      OBVIOUS
    <3>5. NoPoolLost'
      OBVIOUS
    <3>6. NoPoolShared'
      OBVIOUS
    <3> QED
      BY <3>1, <3>2, <3>3, <3>4, <3>5, <3>6
  <2>19. ASSUME NEW p \in Procs, acquireIdle(p) PROVE OwnInv'
    <3> USE <2>19 DEF acquireIdle, Goto
    <3>1. LockHeld'
      OBVIOUS
    <3>2. KeyFree'
      OBVIOUS
    <3>3. ClosingAt'
      OBVIOUS
    <3>4. BuildingOwned'
      OBVIOUS
    <3>5. NoPoolLost'
      OBVIOUS
    <3>6. NoPoolShared'
      OBVIOUS
    <3> QED
      BY <3>1, <3>2, <3>3, <3>4, <3>5, <3>6
  <2>20. ASSUME NEW p \in Procs, acquireOpen(p) PROVE OwnInv'
    <3> USE <2>20 DEF acquireOpen, Goto
    <3>1. LockHeld'
      OBVIOUS
    <3>2. KeyFree'
      OBVIOUS
    <3>3. ClosingAt'
      OBVIOUS
    <3>4. BuildingOwned'
      OBVIOUS
    <3>5. NoPoolLost'
      OBVIOUS
    <3>6. NoPoolShared'
      OBVIOUS
    <3> QED
      BY <3>1, <3>2, <3>3, <3>4, <3>5, <3>6
  <2>21. ASSUME NEW p \in Procs, acquireClosed(p) PROVE OwnInv'
    <3> USE <2>21 DEF acquireClosed, Goto, failAcquire, AfterClosedPool
    <3>1. LockHeld'
      OBVIOUS
    <3>2. KeyFree'
      OBVIOUS
    <3>3. ClosingAt'
      OBVIOUS
    <3>4. BuildingOwned'
      OBVIOUS
    <3>5. NoPoolLost'
      OBVIOUS
    <3>6. NoPoolShared'
      OBVIOUS
    <3> QED
      BY <3>1, <3>2, <3>3, <3>4, <3>5, <3>6
  <2>22. ASSUME NEW p \in Procs, acquireExpired(p) PROVE OwnInv'
    <3> USE <2>22 DEF acquireExpired, Goto, expire, AfterTimeout
    <3>1. LockHeld'
      OBVIOUS
    <3>2. KeyFree'
      OBVIOUS
    <3>3. ClosingAt'
      OBVIOUS
    <3>4. BuildingOwned'
      OBVIOUS
    <3>5. NoPoolLost'
      OBVIOUS
    <3>6. NoPoolShared'
      OBVIOUS
    <3> QED
      BY <3>1, <3>2, <3>3, <3>4, <3>5, <3>6
  <2>23. ASSUME NEW p \in Procs, openOK(p) PROVE OwnInv'
    <3> USE <2>23 DEF openOK, Goto
    <3>1. LockHeld'
      OBVIOUS
    <3>2. KeyFree'
      OBVIOUS
    <3>3. ClosingAt'
      OBVIOUS
    <3>4. BuildingOwned'
      OBVIOUS
    <3>5. NoPoolLost'
      OBVIOUS
    <3>6. NoPoolShared'
      OBVIOUS
    <3> QED
      BY <3>1, <3>2, <3>3, <3>4, <3>5, <3>6
  <2>24. ASSUME NEW p \in Procs, openFail(p) PROVE OwnInv'
    <3> USE <2>24 DEF openFail, Goto, failAcquire, AfterError, expire,
       AfterTimeout
    <3>1. LockHeld'
      OBVIOUS
    <3>2. KeyFree'
      OBVIOUS
    <3>3. ClosingAt'
      OBVIOUS
    <3>4. BuildingOwned'
      OBVIOUS
    <3>5. NoPoolLost'
      OBVIOUS
    <3>6. NoPoolShared'
      OBVIOUS
    <3> QED
      BY <3>1, <3>2, <3>3, <3>4, <3>5, <3>6
  <2>25. ASSUME NEW p \in Procs, openTimeout(p) PROVE OwnInv'
    <3> USE <2>25 DEF openTimeout, Goto
    <3>1. LockHeld'
      OBVIOUS
    <3>2. KeyFree'
      OBVIOUS
    <3>3. ClosingAt'
      OBVIOUS
    <3>4. BuildingOwned'
      OBVIOUS
    <3>5. NoPoolLost'
      OBVIOUS
    <3>6. NoPoolShared'
      OBVIOUS
    <3> QED
      BY <3>1, <3>2, <3>3, <3>4, <3>5, <3>6
  <2>26. ASSUME NEW p \in Procs, ReturnConnection(p) PROVE OwnInv'
    <3> USE <2>26 DEF ReturnConnection, Goto
    <3>1. LockHeld'
      OBVIOUS
    <3>2. KeyFree'
      OBVIOUS
    <3>3. ClosingAt'
      OBVIOUS
    <3>4. BuildingOwned'
      OBVIOUS
    <3>5. NoPoolLost'
      OBVIOUS
    <3>6. NoPoolShared'
      OBVIOUS
    <3> QED
      BY <3>1, <3>2, <3>3, <3>4, <3>5, <3>6
  <2>27. ASSUME NEW p \in Procs, releaseSlot(p) PROVE OwnInv'
    <3> USE <2>27 DEF releaseSlot, Goto
    <3>1. LockHeld'
      OBVIOUS
    <3>2. KeyFree'
      OBVIOUS
    <3>3. ClosingAt'
      OBVIOUS
    <3>4. BuildingOwned'
      OBVIOUS
    <3>5. NoPoolLost'
      <4>1. pools' = pools /\ closing' = closing /\ isOpen' = isOpen
        BY ONLY <2>27, p \in Procs, QuietSteps
      <4>2. NoPoolLost /\ TypeOK
        BY ONLY Types, OwnInv DEF Types, OwnInv, PoolsAccounted
      <4>3. \A o \in Pools : Building(o) \subseteq Building(o)'
        BY ONLY <2>27, <4>2, p \in Procs, QuietBuilding
      <4> QED
        BY ONLY <4>1, <4>2, <4>3, LostKept
    <3>6. NoPoolShared'
      <4>1. pools' = pools /\ closing' = closing /\ isOpen' = isOpen
        BY ONLY <2>27, p \in Procs, QuietSteps
      <4>2. NoPoolShared
        BY ONLY OwnInv DEF OwnInv, PoolsAccounted
      <4> QED
        BY ONLY <4>1, <4>2, SharedKept
    <3> QED
      BY <3>1, <3>2, <3>3, <3>4, <3>5, <3>6
  <2>28. ASSUME NEW p \in Procs, constructed(p) PROVE OwnInv'
    <3> USE <2>28 DEF constructed, Goto
    <3>1. LockHeld'
      OBVIOUS
    <3>2. KeyFree'
      OBVIOUS
    <3>3. ClosingAt'
      OBVIOUS
    <3>4. BuildingOwned'
      OBVIOUS
    <3>5. NoPoolLost'
      OBVIOUS
    <3>6. NoPoolShared'
      OBVIOUS
    <3> QED
      BY <3>1, <3>2, <3>3, <3>4, <3>5, <3>6
  <2>29. ASSUME NEW p \in Procs, releaseSlotAfterConstruction(p) PROVE OwnInv'
    <3> USE <2>29 DEF releaseSlotAfterConstruction, Goto
    <3>1. LockHeld'
      OBVIOUS
    <3>2. KeyFree'
      OBVIOUS
    <3>3. ClosingAt'
      OBVIOUS
    <3>4. BuildingOwned'
      OBVIOUS
    <3>5. NoPoolLost'
      OBVIOUS
    <3>6. NoPoolShared'
      OBVIOUS
    <3> QED
      BY <3>1, <3>2, <3>3, <3>4, <3>5, <3>6
  <2>30. ASSUME NEW x \in Procs \cup {Reloader}, closePool(x) PROVE OwnInv'
    <3> USE <2>30 DEF closePool
    <3>1. LockHeld'
      OBVIOUS
    <3>2. KeyFree'
      OBVIOUS
    <3>3. ClosingAt'
      OBVIOUS
    <3>4. BuildingOwned'
      OBVIOUS
    <3>5. NoPoolLost'
      OBVIOUS
    <3>6. NoPoolShared'
      OBVIOUS
    <3> QED
      BY <3>1, <3>2, <3>3, <3>4, <3>5, <3>6
  <2>31. ASSUME NEW x \in Procs \cup {Reloader}, closeReturns(x) PROVE OwnInv'
    <3> USE <2>31 DEF closeReturns
    <3>1. LockHeld'
      OBVIOUS
    <3>2. KeyFree'
      OBVIOUS
    <3>3. ClosingAt'
      OBVIOUS
    <3>4. BuildingOwned'
      OBVIOUS
    <3>5. NoPoolLost'
      OBVIOUS
    <3>6. NoPoolShared'
      OBVIOUS
    <3> QED
      BY <3>1, <3>2, <3>3, <3>4, <3>5, <3>6
  <2>32. ASSUME NEW o \in Pools, idleExpires(o) PROVE OwnInv'
    <3> USE <2>32 DEF idleExpires
    <3>1. LockHeld'
      OBVIOUS
    <3>2. KeyFree'
      OBVIOUS
    <3>3. ClosingAt'
      OBVIOUS
    <3>4. BuildingOwned'
      OBVIOUS
    <3>5. NoPoolLost'
      OBVIOUS
    <3>6. NoPoolShared'
      OBVIOUS
    <3> QED
      BY <3>1, <3>2, <3>3, <3>4, <3>5, <3>6
  <2>33. ASSUME SyncPools PROVE OwnInv'
    <3> USE <2>33 DEF SyncPools, Unmap
    <3>1. LockHeld'
      OBVIOUS
    <3>2. KeyFree'
      OBVIOUS
    <3>3. ClosingAt'
      OBVIOUS
    <3>4. BuildingOwned' /\ NoPoolLost' /\ NoPoolShared'
      <4>1. /\ TypeOK /\ ClosingAt /\ BuildingOwned
            /\ NoPoolLost /\ NoPoolShared
        BY ONLY Types, OwnInv DEF Types, OwnInv, PoolsAccounted
      <4>2. /\ isOpen' = isOpen /\ ref' = ref /\ closing[Reloader] = {}
            /\ \A q \in Procs : pc'[q] \in {"create", "publish"} => pc'[q] = pc[q]
            /\ \A o \in Pools : Building(o) \subseteq Building(o)'
            /\ (pools' = pools /\ closing' = closing) \/ Unmap(Reloader, Keys)
        BY ONLY <2>33, <4>1, SyncUnmaps
      <4>3. CASE Unmap(Reloader, Keys)
        <5>1. Reloader \in Procs \cup {Reloader}
          OBVIOUS
        <5> QED
          BY ONLY <4>1, <4>2, <4>3, <5>1, UnmapAllBuilding, UnmapAllLost,
            UnmapAllShared
      <4>4. CASE pools' = pools /\ closing' = closing
        <5>1. NoPoolLost' /\ NoPoolShared'
          BY ONLY <4>1, <4>2, <4>4, LostKept, SharedKept
        <5>2. BuildingOwned'
          BY ONLY <4>1, <4>2, <4>4 DEF BuildingOwned, Mapped
        <5> QED
          BY ONLY <5>1, <5>2
      <4> QED
        BY ONLY <4>2, <4>3, <4>4
    <3> QED
      BY ONLY <3>1, <3>2, <3>3, <3>4 DEF OwnInv, PoolsAccounted
  <2>34. ASSUME InvalidateChangedPools PROVE OwnInv'
    <3> USE <2>34 DEF InvalidateChangedPools, Unmap
    <3>1. LockHeld'
      OBVIOUS
    <3>2. KeyFree'
      OBVIOUS
    <3>3. ClosingAt'
      OBVIOUS
    <3>4. BuildingOwned'
      OBVIOUS
    <3>5. NoPoolLost'
      OBVIOUS
    <3>6. NoPoolShared'
      OBVIOUS
    <3> QED
      BY <3>1, <3>2, <3>3, <3>4, <3>5, <3>6
  <2>35. ASSUME Close PROVE OwnInv'
    <3> USE <2>35 DEF Close, Unmap
    <3>1. LockHeld'
      OBVIOUS
    <3>2. KeyFree'
      OBVIOUS
    <3>3. ClosingAt'
      OBVIOUS
    <3>4. BuildingOwned'
      OBVIOUS
    <3>5. NoPoolLost'
      OBVIOUS
    <3>6. NoPoolShared'
      OBVIOUS
    <3> QED
      BY <3>1, <3>2, <3>3, <3>4, <3>5, <3>6
  <2>36. ASSUME Stop PROVE OwnInv'
    BY <2>36 DEF Stop
  <2>37. CASE UNCHANGED vars
    BY <2>37 DEF vars, poolVars, probeVars, reloadVars
  <2>. QED
    BY <2>1, <2>2, <2>3, <2>4, <2>5, <2>6, <2>7, <2>8, <2>9, <2>10, <2>11,
       <2>12, <2>13, <2>14, <2>15, <2>16, <2>17, <2>18, <2>19, <2>20, <2>21,
       <2>22, <2>23, <2>24, <2>25, <2>26, <2>27, <2>28, <2>29, <2>30, <2>31,
       <2>32, <2>33, <2>34, <2>35, <2>36, <2>37 DEF Next, Probe, Get, GiveBack,
       Closer
<1> QED
  BY <1>1

\* Every open pool is in the map, under construction, or due to be closed by
\* the one goroutine that removed it, and in only one of these places: no
\* interleaving of acquisitions, RemovePool, CheckConnectionUpdated, SyncPools,
\* InvalidateChangedPools and Close leaks a pool or closes one in use by the
\* map.
THEOREM PoolSafety == Spec => []PoolsAccounted
<1>1. Init => Types /\ OwnInv
  <2> SUFFICES ASSUME Init PROVE OwnInv
    BY TypesInit
  <2>1. LockHeld /\ KeyFree /\ ClosingAt /\ BuildingOwned
    BY DEF Init, LockHeld, LockPCs, KeyFree, ClosingAt, BuildingOwned
  <2>2. PoolsAccounted
    BY DEF Init, PoolsAccounted, NoPoolLost, NoPoolShared, Mapped
  <2> QED
    BY <2>1, <2>2 DEF OwnInv
<1>2. OwnInv => PoolsAccounted
  BY DEF OwnInv
<1> QED
  BY <1>1, <1>2, TypeStep, OwnStep, PTL DEF Spec


-----------------------------------------------------------------------------
(* Counting the connections of a set of pools *)

\* The idle connections of the pools S when f gives their numbers.
ConnsOf(f, S) == UNION {{o} \X (1..f[o]) : o \in S}

Idles(f, S) == Cardinality(ConnsOf(f, S))

\* With the connections the goroutines B use or open in them, r[q] being the
\* pool of q.
Load(f, B, r, S) == Idles(f, S) + Cardinality({q \in B : r[q] \in S})

Numbers == [Pools -> Nat]

LEMMA ConnsFinite ==
    ASSUME NEW f \in Numbers, NEW S \in SUBSET Pools
    PROVE  IsFiniteSet(ConnsOf(f, S)) /\ Idles(f, S) \in Nat
<1> DEFINE conns(o) == {o} \X (1..f[o])
           g == [o \in S |-> conns(o)]
           T == {conns(o) : o \in S}
<1>1. IsFiniteSet(S)
  BY FS_Subset, PoolAssumption
<1>2. g \in Surjection(S, T)
  BY DEF Surjection
<1>3. IsFiniteSet(T)
  BY <1>1, <1>2, FS_Surjection
<1>4. ASSUME NEW c \in T PROVE IsFiniteSet(c)
  <2>1. PICK o \in S : c = {o} \X (1..f[o])
    OBVIOUS
  <2>2. f[o] \in Nat
    BY DEF Numbers
  <2>3. IsFiniteSet({o})
    BY FS_Singleton
  <2>4. IsFiniteSet(1..f[o])
    BY <2>2, FS_Interval
  <2> QED
    BY <2>1, <2>3, <2>4, FS_Product
<1>5. IsFiniteSet(UNION T)
  BY <1>3, <1>4, FS_UNION
<1> QED
  BY <1>5, FS_CardinalityType DEF ConnsOf, Idles

LEMMA ConnOf ==
    ASSUME NEW f, NEW S, NEW c
    PROVE  c \in ConnsOf(f, S) <=> \E o \in S : \E i \in 1..f[o] : c = <<o, i>>
BY DEF ConnsOf

\* Fewer pools with fewer idle connections hold fewer of them.
LEMMA IdlesFall ==
    ASSUME NEW f \in Numbers, NEW g \in Numbers,
           NEW S \in SUBSET Pools, NEW T \in SUBSET S, \A o \in T : g[o] <= f[o]
    PROVE  Idles(g, T) <= Idles(f, S)
<1>1. ConnsOf(g, T) \subseteq ConnsOf(f, S)
  <2> SUFFICES ASSUME NEW c \in ConnsOf(g, T) PROVE c \in ConnsOf(f, S)
    OBVIOUS
  <2>1. PICK o \in T : \E i \in 1..g[o] : c = <<o, i>>
    BY ConnOf
  <2>2. PICK i \in 1..g[o] : c = <<o, i>>
    BY <2>1
  <2>3. i \in 1..f[o] /\ o \in S
    BY DEF Numbers
  <2> QED
    BY <2>2, <2>3, ConnOf
<1> QED
  BY <1>1, ConnsFinite, FS_Subset DEF Idles

\* Taking n idle connections out of one of the pools.
LEMMA IdlesTaken ==
    ASSUME NEW f \in Numbers, NEW S \in SUBSET Pools, NEW o \in S,
           NEW n \in Nat, NEW g \in Numbers, f[o] = g[o] + n,
           \A x \in S \ {o} : g[x] = f[x]
    PROVE  Idles(f, S) = Idles(g, S) + n
<1>1. g \in Numbers /\ f[o] \in Nat /\ f[o] = g[o] + n /\ g[o] \in Nat
  BY DEF Numbers
<1>2. \A x \in S \ {o} : g[x] = f[x]
  OBVIOUS
<1> DEFINE A == (g[o] + 1)..f[o]
           R == {o} \X A
<1>3. IsFiniteSet(A) /\ Cardinality(A) = n
  <2>1. PICK a \in Int, b \in Int : a = g[o] + 1 /\ b = f[o]
    BY <1>1
  <2>2. /\ IsFiniteSet(a..b)
        /\ Cardinality(a..b) = IF a > b THEN 0 ELSE b - a + 1
    BY FS_Interval
  <2>3. (IF a > b THEN 0 ELSE b - a + 1) = n
    BY <1>1, <2>1
  <2> QED
    BY <2>1, <2>2, <2>3
<1>4. IsFiniteSet(R) /\ Cardinality(R) = n
  <2>1. IsFiniteSet({o}) /\ Cardinality({o}) = 1
    BY FS_Singleton
  <2> HIDE DEF A
  <2>2. IsFiniteSet({o} \X A) /\ Cardinality({o} \X A) = Cardinality({o}) * Cardinality(A)
    BY <1>3, <2>1, FS_Product
  <2> QED
    BY <1>3, <2>1, <2>2
<1>5. ConnsOf(f, S) = ConnsOf(g, S) \cup R
  <2>1. ASSUME NEW c \in ConnsOf(f, S) PROVE c \in ConnsOf(g, S) \cup R
    <3>1. PICK x \in S : \E i \in 1..f[x] : c = <<x, i>>
      BY <2>1, ConnOf
    <3>2. PICK i \in 1..f[x] : c = <<x, i>>
      BY <3>1
    <3>3. CASE x # o
      BY <1>2, <3>2, <3>3, ConnOf
    <3>4. CASE x = o /\ i <= g[o]
      <4>1. i \in 1..g[o]
        BY <1>1, <3>4
      <4> QED
        BY <3>2, <3>4, <4>1, ConnOf
    <3>5. CASE x = o /\ ~(i <= g[o])
      <4>1. i \in A
        BY <1>1, <3>5
      <4> QED
        BY <3>2, <3>5, <4>1
    <3> QED
      BY <3>3, <3>4, <3>5
  <2>2. ASSUME NEW c \in ConnsOf(g, S) PROVE c \in ConnsOf(f, S)
    <3>1. PICK x \in S : \E i \in 1..g[x] : c = <<x, i>>
      BY <2>2 DEF ConnsOf
    <3>2. PICK i \in 1..g[x] : c = <<x, i>>
      BY <3>1
    <3>3. i \in 1..f[x]
      <4>1. CASE x = o
        BY <1>1, <4>1
      <4>2. CASE x # o
        BY <1>2, <4>2
      <4> QED
        BY <4>1, <4>2
    <3> QED
      BY <3>2, <3>3, ConnOf
  <2>3. ASSUME NEW c \in R PROVE c \in ConnsOf(f, S)
    <3>1. PICK i \in A : c = <<o, i>>
      BY <2>3
    <3>2. i \in 1..f[o]
      BY <1>1
    <3> QED
      BY <3>1, <3>2, ConnOf
  <2> QED
    BY <2>1, <2>2, <2>3
<1>6. ConnsOf(g, S) \cap R = {}
  <2> SUFFICES ASSUME NEW c \in ConnsOf(g, S), c \in R PROVE FALSE
    OBVIOUS
  <2>1. PICK x \in S : \E i \in 1..g[x] : c = <<x, i>>
    BY DEF ConnsOf
  <2>2. PICK i \in 1..g[x] : c = <<x, i>>
    BY <2>1
  <2>3. PICK j \in A : c = <<o, j>>
    OBVIOUS
  <2>4. x = o /\ i = j
    BY <2>2, <2>3
  <2> QED
    BY <1>1, <2>4
<1>7. IsFiniteSet(ConnsOf(g, S)) /\ Idles(g, S) \in Nat
  BY <1>1, ConnsFinite
<1> HIDE DEF R
<1>8. Cardinality(ConnsOf(f, S)) = Cardinality(ConnsOf(g, S)) + n - Cardinality({})
  <2>1. Cardinality(ConnsOf(g, S) \cup R)
          = Cardinality(ConnsOf(g, S)) + Cardinality(R) - Cardinality(ConnsOf(g, S) \cap R)
    BY <1>4, <1>7, FS_Union
  <2> QED
    BY <1>4, <1>5, <1>6, <2>1
<1> QED
  BY <1>1, <1>7, <1>8, FS_EmptySet DEF Idles

\* Giving one back to one of them.
LEMMA IdlesGiven ==
    ASSUME NEW f \in Numbers, NEW S \in SUBSET Pools, NEW o \in S,
           NEW g, g = [f EXCEPT ![o] = f[o] + 1]
    PROVE  g \in Numbers /\ Idles(g, S) = Idles(f, S) + 1
<1>1. g \in Numbers /\ f[o] \in Nat /\ g[o] = f[o] + 1 /\ 1 \in Nat
  BY DEF Numbers
<1>2. \A x \in S \ {o} : f[x] = g[x]
  BY DEF Numbers
<1>3. Idles(g, S) = Idles(f, S) + 1
  BY ONLY <1>1, <1>2, f \in Numbers, S \in SUBSET Pools, o \in S, IdlesTaken
<1> QED
  BY ONLY <1>1, <1>3

\* One more pool.
LEMMA IdlesWith ==
    ASSUME NEW f \in Numbers, NEW S \in SUBSET Pools, NEW o \in Pools
    PROVE  Idles(f, S \cup {o}) <= Idles(f, S) + f[o]
<1> DEFINE R == {o} \X (1..f[o])
<1>0. f[o] \in Nat
  BY DEF Numbers
<1>1. IsFiniteSet(R) /\ Cardinality(R) = f[o]
  <2>1. IsFiniteSet(1..f[o]) /\ Cardinality(1..f[o]) = f[o]
    BY <1>0, FS_Interval
  <2>2. IsFiniteSet({o}) /\ Cardinality({o}) = 1
    BY FS_Singleton
  <2>3. Cardinality(R) = Cardinality({o}) * Cardinality(1..f[o]) /\ IsFiniteSet(R)
    BY <2>1, <2>2, FS_Product
  <2> QED
    BY <1>0, <2>1, <2>2, <2>3
<1>2. ConnsOf(f, S \cup {o}) = ConnsOf(f, S) \cup R
  BY DEF ConnsOf
<1>3. IsFiniteSet(ConnsOf(f, S)) /\ Idles(f, S) \in Nat
  BY ConnsFinite
<1> HIDE DEF R
<1>4. /\ Cardinality(ConnsOf(f, S) \cup R)
           = Idles(f, S) + f[o] - Cardinality(ConnsOf(f, S) \cap R)
  BY <1>1, <1>3, FS_Union DEF Idles
<1>5. Cardinality(ConnsOf(f, S) \cap R) \in Nat
  BY <1>3, FS_Subset, FS_CardinalityType
<1>6. Idles(f, S \cup {o})
        = Idles(f, S) + f[o] - Cardinality(ConnsOf(f, S) \cap R)
  BY <1>2, <1>4 DEF Idles
<1> QED
  BY <1>0, <1>3, <1>5, <1>6

LEMMA WorkersFinite ==
    ASSUME NEW B \in SUBSET Procs
    PROVE  IsFiniteSet(B) /\ Cardinality(B) \in Nat
BY PoolAssumption, FS_Subset, FS_CardinalityType

LEMMA LoadType ==
    ASSUME NEW f \in Numbers, NEW B \in SUBSET Procs, NEW r, NEW S \in SUBSET Pools
    PROVE  /\ Load(f, B, r, S) \in Nat
           /\ Load(f, B, r, S) <= Idles(f, S) + Cardinality(B)
<1> DEFINE W == {q \in B : r[q] \in S}
<1>1. W \in SUBSET B
  OBVIOUS
<1>2. IsFiniteSet(B) /\ Cardinality(B) \in Nat
  BY WorkersFinite
<1>3. Cardinality(W) \in Nat /\ Cardinality(W) <= Cardinality(B)
  BY <1>1, <1>2, FS_Subset, FS_CardinalityType
<1>4. Load(f, B, r, S) = Idles(f, S) + Cardinality(W)
  BY DEF Load
<1> HIDE DEF W
<1> QED
  BY <1>2, <1>3, <1>4, ConnsFinite

LEMMA LoadFalls ==
    ASSUME NEW f \in Numbers, NEW g \in Numbers,
           NEW S \in SUBSET Pools, NEW T \in SUBSET S, \A o \in T : g[o] <= f[o],
           NEW B \in SUBSET Procs, NEW C \in SUBSET B,
           NEW r, NEW s, \A q \in C : s[q] = r[q]
    PROVE  /\ Load(g, C, s, T) <= Load(f, B, r, S)
           /\ Idles(g, T) + Cardinality(C) <= Idles(f, S) + Cardinality(B)
<1> DEFINE V == {q \in B : r[q] \in S}
           W == {q \in C : s[q] \in T}
<1>1. W \in SUBSET V /\ V \in SUBSET Procs /\ W \in SUBSET Procs
  OBVIOUS
<1>2. /\ Cardinality(W) \in Nat /\ Cardinality(V) \in Nat
      /\ Cardinality(W) <= Cardinality(V)
  BY <1>1, WorkersFinite, FS_Subset
<1>3. /\ Cardinality(C) \in Nat /\ Cardinality(B) \in Nat
      /\ Cardinality(C) <= Cardinality(B)
  BY WorkersFinite, FS_Subset
<1>4. Idles(g, T) \in Nat /\ Idles(f, S) \in Nat /\ Idles(g, T) <= Idles(f, S)
  BY ConnsFinite, IdlesFall
<1>5. Load(g, C, s, T) = Idles(g, T) + Cardinality(W) /\
      Load(f, B, r, S) = Idles(f, S) + Cardinality(V)
  BY DEF Load
<1> HIDE DEF V, W
<1> QED
  BY <1>2, <1>3, <1>4, <1>5

\* It falls by one at least when one of the pools loses an idle connection.
LEMMA LoadDrops ==
    ASSUME NEW f \in Numbers, NEW g \in Numbers,
           NEW S \in SUBSET Pools, NEW T \in SUBSET S, \A o \in Pools : g[o] <= f[o],
           NEW B \in SUBSET Procs, NEW C \in SUBSET B,
           NEW r, NEW s, \A q \in C : s[q] = r[q],
           NEW o \in S, o \in T, g[o] < f[o]
    PROVE  Load(g, C, s, T) < Load(f, B, r, S)
<1>1. PICK h : h = [f EXCEPT ![o] = f[o] - 1]
  OBVIOUS
<1>2. f[o] \in Nat /\ g[o] \in Nat /\ 1 \in Nat /\ 1 <= f[o]
  BY DEF Numbers
<1>3. h \in Numbers /\ Idles(f, S) = Idles(h, S) + 1
  <2>1. h \in Numbers /\ f[o] = h[o] + 1
    BY <1>1, <1>2 DEF Numbers
  <2>2. \A x \in S \ {o} : h[x] = f[x]
    BY <1>1 DEF Numbers
  <2> QED
    BY <1>2, <2>1, <2>2, IdlesTaken
<1>4. \A x \in T : g[x] <= h[x]
  BY <1>1, <1>2 DEF Numbers
<1>5. Load(g, C, s, T) <= Load(h, B, r, S)
  BY <1>3, <1>4, LoadFalls
<1> DEFINE w == Cardinality({q \in B : r[q] \in S})
<1>6. Load(f, B, r, S) = Idles(f, S) + w /\ Load(h, B, r, S) = Idles(h, S) + w
  BY DEF Load
<1>7. /\ w \in Nat /\ Idles(h, S) \in Nat /\ Load(g, C, s, T) \in Nat
  <2>1. T \in SUBSET Pools /\ C \in SUBSET Procs
    OBVIOUS
  <2> QED
    BY <1>3, <2>1, ConnsFinite, WorkersFinite, LoadType
<1> HIDE DEF w
<1> QED
  BY <1>3, <1>5, <1>6, <1>7

\* A connection given back moves from the borrower to the idle ones.
LEMMA LoadHanded ==
    ASSUME NEW f \in Numbers, NEW g, NEW S \in SUBSET Pools,
           NEW B \in SUBSET Procs, NEW q \in B, NEW C, C = B \ {q},
           NEW r, NEW s, \A p \in C : s[p] = r[p],
           r[q] \in Pools, g = [f EXCEPT ![r[q]] = f[r[q]] + 1]
    PROVE  /\ g \in Numbers
           /\ Load(g, C, s, S) <= Load(f, B, r, S)
           /\ Idles(g, S) + Cardinality(C) <= Idles(f, S) + Cardinality(B)
<1>1. PICK o \in Pools : o = r[q]
  OBVIOUS
<1>2. g \in Numbers /\ f[o] \in Nat /\ g[o] = f[o] + 1
  BY <1>1 DEF Numbers
<1> DEFINE V == {p \in B : r[p] \in S}
           W == {p \in C : s[p] \in S}
<1>4. /\ Idles(f, S) \in Nat /\ Idles(g, S) \in Nat
      /\ Cardinality(B) \in Nat /\ Cardinality(C) = Cardinality(B) - 1
  BY <1>2, ConnsFinite, WorkersFinite, FS_RemoveElement
<1>5. Load(g, C, s, S) = Idles(g, S) + Cardinality(W) /\
      Load(f, B, r, S) = Idles(f, S) + Cardinality(V)
  BY DEF Load
<1>6. IsFiniteSet(V) /\ Cardinality(V) \in Nat
  BY WorkersFinite
<1>7. CASE o \in S
  <2>1. Idles(g, S) = Idles(f, S) + 1
    <3>1. g = [f EXCEPT ![o] = f[o] + 1]
      BY <1>1
    <3> QED
      BY <1>7, <3>1, IdlesGiven
  <2>2. W = V \ {q} /\ q \in V
    BY <1>1, <1>7
  <2> HIDE DEF V, W
  <2>3. Cardinality(W) = Cardinality(V) - 1
    BY <1>6, <2>2, FS_RemoveElement
  <2> QED
    BY <1>2, <1>4, <1>5, <1>6, <2>1, <2>3
<1>8. CASE o \notin S
  <2>1. \A x \in S : g[x] <= f[x]
    BY <1>1, <1>8 DEF Numbers
  <2>2. Idles(g, S) <= Idles(f, S)
    BY <1>2, <2>1, IdlesFall
  <2>3. W = V
    BY <1>1, <1>8
  <2> HIDE DEF V, W
  <2> QED
    BY <1>2, <1>4, <1>5, <1>6, <2>2, <2>3
<1> QED
  BY <1>7, <1>8

-----------------------------------------------------------------------------
(* The connections of the pools in the map *)

Connections(S) == Load(idle, Busy, ref, S)

\* What a goroutine in evictIdleConnections does not know of: the idle
\* connections of pools it has emptied, or that are not on its list, and
\* everybody's busy ones.
Uncounted(p) == Idles(idle, Mapped \ others[p]) + Cardinality(Busy)

\* What the holder of the connection's lock knows at each of its steps.  The
\* number of connections of the pools it counted does not grow, because only
\* the holder opens one; what is returned behind its back was busy.
RoomAt(p) ==
    /\ pc[p] \in {"stat", "count"} => pools[key[p]] \in {ref[p], None}
    /\ pc[p] = "count" =>
         Idles(idle, Mapped \cap {ref[p]}) + Cardinality(Busy) <= Cap - 1
    /\ pc[p] = "room" =>
         /\ Connections(Mapped \cup others[p]) <= excess[p] + Cap - 1
         /\ Uncounted(p) <= Cap - 1
    /\ pc[p] = "evict" =>
         /\ Connections(Mapped \cup others[p]) <= excess[p] + 2 * Cap - 2
         /\ (excess[p] <= 0) \/ (Uncounted(p) <= Cap - 1)
    /\ pc[p] \in {"dial", "create", "publish"} => Connections(Mapped) <= 2 * Cap - 2
    /\ pc[p] = "publish" => idle[ref[p]] <= 1
    /\ pc[p] = "acquire" =>
         \/ Connections(Mapped) <= 2 * Cap - 2
         \/ ref[p] \in Mapped => idle[ref[p]] > 0

\* A pool nobody else refers to is being built.
BuiltAlone ==
    \A p \in Procs : pc[p] \in {"create", "publish"} =>
        \A q \in Procs \ {p} : ref[q] # ref[p]

RoomInv ==
    /\ \A p \in Procs : RoomAt(p)
    /\ BuiltAlone
    /\ Connections(Mapped) <= 2 * Cap - 1

LEMMA OpenInIsConnections == OpenIn(Mapped) = Connections(Mapped)
<1>1. IdleIn(Mapped) = Idles(idle, Mapped)
  BY DEF IdleIn, IdleConns, Idles, ConnsOf
<1>2. UNION {Constructing(o) \cup Borrowers(o) : o \in Mapped}
        = {q \in Busy : ref[q] \in Mapped}
  BY DEF Constructing, Borrowers, Busy
<1> QED
  BY <1>1, <1>2 DEF OpenIn, Connections, Load

\* A step that opens no connection: fewer pools in the map, fewer idle and
\* fewer busy connections, or a busy one that becomes idle.
Calm ==
    /\ Mapped' \subseteq Mapped
    /\ \A o \in Pools : idle'[o] <= idle[o]
    /\ Busy' \subseteq Busy
    /\ \A q \in Busy' : ref'[q] = ref[q]

Hands(q) ==
    /\ Mapped' = Mapped
    /\ Busy' = Busy \ {q}
    /\ \A r \in Busy' : ref'[r] = ref[r]
    /\ ref[q] \in Pools
    /\ idle' = [idle EXCEPT ![ref[q]] = idle[ref[q]] + 1]

Background == Calm \/ \E q \in Busy : Hands(q)

LEMMA CountTypes ==
    ASSUME Types, Types'
    PROVE  /\ idle \in Numbers /\ idle' \in Numbers
           /\ Busy \in SUBSET Procs /\ Busy' \in SUBSET Procs
           /\ Mapped \in SUBSET Pools /\ Mapped' \in SUBSET Pools
           /\ \A p \in Procs : /\ others[p] \in SUBSET Pools /\ others'[p] \in SUBSET Pools
                               /\ excess[p] \in Int /\ excess'[p] \in Int
           /\ Cap \in Nat /\ Cap >= 1
<1>1. idle \in Numbers /\ idle' \in Numbers
  BY DEF Types, TypeOK, Numbers
<1>2. Busy \in SUBSET Procs /\ Busy' \in SUBSET Procs
  BY DEF Busy
<1>3. Mapped \in SUBSET Pools /\ Mapped' \in SUBSET Pools
  BY DEF Types, TypeOK, Mapped
<1>4. \A p \in Procs : /\ others[p] \in SUBSET Pools /\ others'[p] \in SUBSET Pools
                       /\ excess[p] \in Int /\ excess'[p] \in Int
  BY DEF Types, TypeOK
<1> QED
  BY <1>1, <1>2, <1>3, <1>4, PoolAssumption

LEMMA BackgroundKeeps ==
    ASSUME Types, Types', Background,
           NEW S \in SUBSET Pools, NEW T \in SUBSET S
    PROVE  /\ Load(idle', Busy', ref', T) <= Load(idle, Busy, ref, S)
           /\ Idles(idle', T) + Cardinality(Busy') <= Idles(idle, S) + Cardinality(Busy)
<1>0. /\ idle \in Numbers /\ idle' \in Numbers
      /\ Busy \in SUBSET Procs /\ Busy' \in SUBSET Procs /\ T \in SUBSET Pools
  BY CountTypes
<1>1. CASE Calm
  <2>1. Busy' \in SUBSET Busy /\ \A o \in T : idle'[o] <= idle[o]
    BY <1>0, <1>1 DEF Calm
  <2> QED
    BY <1>0, <1>1, <2>1, LoadFalls DEF Calm
<1>2. ASSUME NEW q \in Busy, Hands(q)
      PROVE  /\ Load(idle', Busy', ref', T) <= Load(idle, Busy, ref, S)
             /\ Idles(idle', T) + Cardinality(Busy') <= Idles(idle, S) + Cardinality(Busy)
  <2>1. /\ Load(idle', Busy', ref', T) <= Load(idle, Busy, ref, T)
        /\ Idles(idle', T) + Cardinality(Busy') <= Idles(idle, T) + Cardinality(Busy)
    BY <1>0, <1>2, LoadHanded DEF Hands
  <2>2. \A o \in T : idle[o] <= idle[o]
    BY <1>0 DEF Numbers
  <2>3. /\ Load(idle, Busy, ref, T) <= Load(idle, Busy, ref, S)
        /\ Idles(idle, T) + Cardinality(Busy) <= Idles(idle, S) + Cardinality(Busy)
    BY <1>0, <2>2, LoadFalls
  <2>4. /\ Load(idle', Busy', ref', T) \in Nat /\ Load(idle, Busy, ref, T) \in Nat
        /\ Load(idle, Busy, ref, S) \in Nat
    BY <1>0, LoadType
  <2>5. /\ Idles(idle', T) \in Nat /\ Idles(idle, T) \in Nat /\ Idles(idle, S) \in Nat
        /\ Cardinality(Busy) \in Nat /\ Cardinality(Busy') \in Nat
    BY <1>0, ConnsFinite, WorkersFinite
  <2> QED
    BY <2>1, <2>3, <2>4, <2>5
<1> QED
  BY <1>1, <1>2 DEF Background

\* A holder of a slot that is not busy leaves one less for the busy ones.
LEMMA BusyBelowCap ==
    ASSUME Types, SlotsConserved, NEW p \in Holders, p \notin Busy
    PROVE  Cardinality(Busy) \in Nat /\ Cardinality(Busy) <= Cap - 1 /\ sem >= 1
<1>1. Busy \in SUBSET (Holders \ {p})
  BY DEF Busy, Holders, SlotPCs
<1>2. /\ IsFiniteSet(Holders \ {p})
      /\ Cardinality(Holders \ {p}) = Cardinality(Holders) - 1
  BY HoldersFinite, FS_RemoveElement
<1>3. Cardinality(Busy) \in Nat /\ Cardinality(Busy) <= Cardinality(Holders \ {p})
  BY <1>1, <1>2, FS_Subset, FS_CardinalityType
<1>4. Cardinality(Holders) = sem /\ sem \in Nat /\ sem <= Cap /\ Cap \in Nat
  BY PoolAssumption DEF SlotsConserved, Types, TypeOK
<1> QED
  BY <1>2, <1>3, <1>4

\* The steps of the lock's holder that RoomInv follows.
Stage(p) ==
    \/ lockAndLookup(p) \/ statPool(p) \/ countIdle(p) \/ compareRoom(p)
    \/ evictFrom(p) \/ evictDone(p) \/ dialPool(p) \/ dialOK(p) \/ publishPool(p)
    \/ acquireIdle(p) \/ acquireOpen(p)

\* What a step of somebody else leaves alone for the holder of the lock.
HolderKept ==
    \A h \in Procs : pc'[h] \in LockPCs =>
        /\ pc'[h] = pc[h] /\ ref'[h] = ref[h] /\ key'[h] = key[h]
        /\ excess'[h] = excess[h] /\ others'[h] = others[h]
        /\ pools'[key[h]] \in {pools[key[h]], None}

RefsDrop == \A q \in Procs : ref'[q] \in {ref[q], None}

\* Whatever is not a stage opens nothing and leaves the holder alone.
LEMMA RoomSteps ==
    ASSUME Types, [Next]_vars
    PROVE  (Background /\ HolderKept /\ RefsDrop) \/ \E p \in Procs : Stage(p)
<1> USE PoolAssumption DEF Types, TypeOK, RefOK, SlotPCs, LockPCs, poolVars, probeVars,
        reloadVars, Mapped, Busy, Calm, HolderKept, RefsDrop
<1>1. ASSUME UpdateConnection PROVE Calm /\ HolderKept /\ RefsDrop
  <2> USE <1>1 DEF UpdateConnection
  <2>1. Calm
    OBVIOUS
  <2>2. HolderKept
    OBVIOUS
  <2>3. RefsDrop
    OBVIOUS
  <2> QED
    BY <2>1, <2>2, <2>3
<1>2. ASSUME NEW p \in Procs, BeginProbe(p) PROVE Calm /\ HolderKept /\ RefsDrop
  <2> USE <1>2 DEF BeginProbe, Goto
  <2>1. Calm
    OBVIOUS
  <2>2. HolderKept
    OBVIOUS
  <2>3. RefsDrop
    OBVIOUS
  <2> QED
    BY <2>1, <2>2, <2>3
<1>3. ASSUME NEW p \in Procs, CheckConnectionUpdated(p) PROVE Calm /\ HolderKept /\ RefsDrop
  <2> USE <1>3 DEF CheckConnectionUpdated, Goto, Unmap
  <2>1. Calm
    OBVIOUS
  <2>2. HolderKept
    OBVIOUS
  <2>3. RefsDrop
    OBVIOUS
  <2> QED
    BY <2>1, <2>2, <2>3
<1>4. ASSUME NEW p \in Procs, NextDatabase(p) PROVE Calm /\ HolderKept /\ RefsDrop
  <2> USE <1>4 DEF NextDatabase, Goto
  <2>1. Calm
    OBVIOUS
  <2>2. HolderKept
    OBVIOUS
  <2>3. RefsDrop
    OBVIOUS
  <2> QED
    BY <2>1, <2>2, <2>3
<1>5. ASSUME NEW p \in Procs, EndProbe(p) PROVE Calm /\ HolderKept /\ RefsDrop
  <2> USE <1>5 DEF EndProbe, Goto
  <2>1. Calm
    OBVIOUS
  <2>2. HolderKept
    OBVIOUS
  <2>3. RefsDrop
    OBVIOUS
  <2> QED
    BY <2>1, <2>2, <2>3
<1>6. ASSUME NEW p \in Procs, RemovePool(p) PROVE Calm /\ HolderKept /\ RefsDrop
  <2> USE <1>6 DEF RemovePool, Goto, Unmap
  <2>1. Calm
    OBVIOUS
  <2>2. HolderKept
    OBVIOUS
  <2>3. RefsDrop
    OBVIOUS
  <2> QED
    BY <2>1, <2>2, <2>3
<1>7. ASSUME NEW p \in Procs, acquireSlot(p) PROVE Calm /\ HolderKept /\ RefsDrop
  <2> USE <1>7 DEF acquireSlot, Goto
  <2>1. Calm
    OBVIOUS
  <2>2. HolderKept
    OBVIOUS
  <2>3. RefsDrop
    OBVIOUS
  <2> QED
    BY <2>1, <2>2, <2>3
<1>8. ASSUME NEW p \in Procs, slotTimeout(p) PROVE Calm /\ HolderKept /\ RefsDrop
  <2> USE <1>8 DEF slotTimeout, Goto, AfterTimeout
  <2>1. Calm
    OBVIOUS
  <2>2. HolderKept
    OBVIOUS
  <2>3. RefsDrop
    OBVIOUS
  <2> QED
    BY <2>1, <2>2, <2>3
<1>9. ASSUME NEW p \in Procs, dialFail(p) PROVE Calm /\ HolderKept /\ RefsDrop
  <2> USE <1>9 DEF dialFail, Goto, failAcquire, AfterError
  <2>1. Calm
    OBVIOUS
  <2>2. HolderKept
    OBVIOUS
  <2>3. RefsDrop
    OBVIOUS
  <2> QED
    BY <2>1, <2>2, <2>3
<1>10. ASSUME NEW p \in Procs, acquireClosed(p) PROVE Calm /\ HolderKept /\ RefsDrop
  <2> USE <1>10 DEF acquireClosed, Goto, failAcquire, AfterClosedPool
  <2>1. Calm
    OBVIOUS
  <2>2. HolderKept
    OBVIOUS
  <2>3. RefsDrop
    OBVIOUS
  <2> QED
    BY <2>1, <2>2, <2>3
<1>11. ASSUME NEW p \in Procs, acquireExpired(p) PROVE Calm /\ HolderKept /\ RefsDrop
  <2> USE <1>11 DEF acquireExpired, Goto, expire, AfterTimeout
  <2>1. Calm
    OBVIOUS
  <2>2. HolderKept
    OBVIOUS
  <2>3. RefsDrop
    OBVIOUS
  <2> QED
    BY <2>1, <2>2, <2>3
<1>12. ASSUME NEW p \in Procs, openOK(p) PROVE Calm /\ HolderKept /\ RefsDrop
  <2> USE <1>12 DEF openOK, Goto
  <2>1. Calm
    OBVIOUS
  <2>2. HolderKept
    OBVIOUS
  <2>3. RefsDrop
    OBVIOUS
  <2> QED
    BY <2>1, <2>2, <2>3
<1>13. ASSUME NEW p \in Procs, openFail(p) PROVE Calm /\ HolderKept /\ RefsDrop
  <2> USE <1>13 DEF openFail, Goto, failAcquire, AfterError, expire,
       AfterTimeout
  <2>1. Calm
    OBVIOUS
  <2>2. HolderKept
    OBVIOUS
  <2>3. RefsDrop
    OBVIOUS
  <2> QED
    BY <2>1, <2>2, <2>3
<1>14. ASSUME NEW p \in Procs, openTimeout(p) PROVE Calm /\ HolderKept /\ RefsDrop
  <2> USE <1>14 DEF openTimeout, Goto
  <2>1. Calm
    OBVIOUS
  <2>2. HolderKept
    OBVIOUS
  <2>3. RefsDrop
    OBVIOUS
  <2> QED
    BY <2>1, <2>2, <2>3
<1>15. ASSUME NEW p \in Procs, releaseSlot(p) PROVE Calm /\ HolderKept /\ RefsDrop
  <2> USE <1>15 DEF releaseSlot, Goto
  <2>1. Calm
    OBVIOUS
  <2>2. HolderKept
    OBVIOUS
  <2>3. RefsDrop
    OBVIOUS
  <2> QED
    BY <2>1, <2>2, <2>3
<1>16. ASSUME NEW p \in Procs, releaseSlotAfterConstruction(p) PROVE Calm /\ HolderKept /\ RefsDrop
  <2> USE <1>16 DEF releaseSlotAfterConstruction, Goto
  <2>1. Calm
    OBVIOUS
  <2>2. HolderKept
    OBVIOUS
  <2>3. RefsDrop
    OBVIOUS
  <2> QED
    BY <2>1, <2>2, <2>3
<1>17. ASSUME NEW x \in Procs \cup {Reloader}, closePool(x) PROVE Calm /\ HolderKept /\ RefsDrop
  <2> USE <1>17 DEF closePool
  <2>1. Calm
    OBVIOUS
  <2>2. HolderKept
    OBVIOUS
  <2>3. RefsDrop
    OBVIOUS
  <2> QED
    BY <2>1, <2>2, <2>3
<1>18. ASSUME NEW x \in Procs \cup {Reloader}, closeReturns(x) PROVE Calm /\ HolderKept /\ RefsDrop
  <2> USE <1>18 DEF closeReturns
  <2>1. Calm
    OBVIOUS
  <2>2. HolderKept
    OBVIOUS
  <2>3. RefsDrop
    OBVIOUS
  <2> QED
    BY <2>1, <2>2, <2>3
<1>19. ASSUME NEW o \in Pools, idleExpires(o) PROVE Calm /\ HolderKept /\ RefsDrop
  <2> USE <1>19 DEF idleExpires
  <2>1. Calm
    OBVIOUS
  <2>2. HolderKept
    OBVIOUS
  <2>3. RefsDrop
    OBVIOUS
  <2> QED
    BY <2>1, <2>2, <2>3
<1>20. ASSUME SyncPools PROVE Calm /\ HolderKept /\ RefsDrop
  <2> USE <1>20 DEF SyncPools, Unmap
  <2>1. Calm
    OBVIOUS
  <2>2. HolderKept
    OBVIOUS
  <2>3. RefsDrop
    OBVIOUS
  <2> QED
    BY <2>1, <2>2, <2>3
<1>21. ASSUME InvalidateChangedPools PROVE Calm /\ HolderKept /\ RefsDrop
  <2> USE <1>21 DEF InvalidateChangedPools, Unmap
  <2>1. Calm
    OBVIOUS
  <2>2. HolderKept
    OBVIOUS
  <2>3. RefsDrop
    OBVIOUS
  <2> QED
    BY <2>1, <2>2, <2>3
<1>22. ASSUME Close PROVE Calm /\ HolderKept /\ RefsDrop
  <2> USE <1>22 DEF Close, Unmap
  <2>1. Calm
    OBVIOUS
  <2>2. HolderKept
    OBVIOUS
  <2>3. RefsDrop
    OBVIOUS
  <2> QED
    BY <2>1, <2>2, <2>3
<1>23. ASSUME Stop PROVE Calm /\ HolderKept /\ RefsDrop
  <2> USE <1>23 DEF Stop
  <2>1. Calm
    OBVIOUS
  <2>2. HolderKept
    OBVIOUS
  <2>3. RefsDrop
    OBVIOUS
  <2> QED
    BY <2>1, <2>2, <2>3
<1>24. ASSUME UNCHANGED vars PROVE Calm /\ HolderKept /\ RefsDrop
  BY <1>24 DEF vars
<1>25. ASSUME NEW p \in Procs, ReturnConnection(p) PROVE Background /\ HolderKept /\ RefsDrop
  <2>1. p \in Busy /\ Busy' = Busy \ {p} /\ Mapped' = Mapped
    BY <1>25 DEF ReturnConnection, Goto
  <2>2. \A r \in Busy' : ref'[r] = ref[r]
    BY <1>25 DEF ReturnConnection, Goto
  <2>3. HolderKept /\ RefsDrop
    BY <1>25 DEF ReturnConnection, Goto
  <2>4. CASE idle' = [idle EXCEPT ![ref[p]] = @ + 1]
    BY <1>25, <2>1, <2>2, <2>3, <2>4 DEF ReturnConnection, Hands, Background
  <2>5. CASE UNCHANGED idle
    <3>1. \A o \in Pools : idle'[o] <= idle[o]
      BY <2>5
    <3> HIDE DEF Mapped, Busy, HolderKept, RefsDrop
    <3>2. Calm
      BY <2>1, <2>2, <3>1
    <3> QED
      BY <2>3, <3>2 DEF Background
  <2> QED
    BY <1>25, <2>4, <2>5 DEF ReturnConnection
<1>26. ASSUME NEW p \in Procs, constructed(p) PROVE Background /\ HolderKept /\ RefsDrop
  <2>1. p \in Busy /\ Busy' = Busy \ {p} /\ Mapped' = Mapped
    BY <1>26 DEF constructed, Goto
  <2>2. \A r \in Busy' : ref'[r] = ref[r]
    BY <1>26 DEF constructed, Goto
  <2>3. HolderKept /\ RefsDrop
    BY <1>26 DEF constructed, Goto
  <2>4. CASE idle' = [idle EXCEPT ![ref[p]] = @ + 1]
    BY <1>26, <2>1, <2>2, <2>3, <2>4 DEF constructed, Hands, Background
  <2>5. CASE UNCHANGED idle
    <3>1. \A o \in Pools : idle'[o] <= idle[o]
      BY <2>5
    <3> HIDE DEF Mapped, Busy, HolderKept, RefsDrop
    <3>2. Calm
      BY <2>1, <2>2, <3>1
    <3> QED
      BY <2>3, <3>2 DEF Background
  <2> QED
    BY <1>26, <2>4, <2>5 DEF constructed
<1> HIDE DEF Calm, HolderKept, RefsDrop, Busy, Mapped, Types, TypeOK, RefOK
<1> QED
  BY <1>1, <1>2, <1>3, <1>4, <1>5, <1>6, <1>7, <1>8, <1>9, <1>10, <1>11, <1>12, <1>13,
    <1>14, <1>15, <1>16, <1>17, <1>18, <1>19, <1>20, <1>21, <1>22, <1>23, <1>24, <1>25,
    <1>26
  DEF Background, Stage, Next, Probe, Get, GiveBack, Closer

\* Nobody else is under the lock when its holder takes a stage.
LEMMA StageAlone ==
    ASSUME Types, OwnInv, NEW p \in Procs, Stage(p), NEW h \in Procs \ {p}
    PROVE  pc'[h] = pc[h] /\ ref'[h] = ref[h] /\ pc'[h] \notin LockPCs
<1>1. pc'[h] = pc[h] /\ ref'[h] = ref[h]
  BY DEF Stage, Types, TypeOK, Goto, lockAndLookup, statPool, countIdle, compareRoom,
    evictFrom, evictDone, dialPool, dialOK, publishPool, acquireIdle, acquireOpen
<1>2. lock = None \/ pc[p] \in LockPCs
  BY DEF Stage, LockPCs, lockAndLookup, statPool, countIdle, compareRoom,
    evictFrom, evictDone, dialPool, dialOK, publishPool, acquireIdle, acquireOpen
<1>3. lock \in {None, p}
  BY <1>2 DEF OwnInv, LockHeld
<1>4. pc[h] \notin LockPCs
  BY <1>3, PoolAssumption DEF OwnInv, LockHeld
<1> QED
  BY <1>1, <1>4

\* Outside the lock nothing is claimed.
LEMMA RoomElsewhere ==
    ASSUME NEW p \in Procs, pc'[p] \notin LockPCs
    PROVE  RoomAt(p)'
BY DEF RoomAt, LockPCs

LEMMA BackgroundRoom ==
    ASSUME Types, Types', OwnInv, RoomInv, Background, HolderKept, RefsDrop
    PROVE  RoomInv'
<1>0. /\ idle \in Numbers /\ idle' \in Numbers
      /\ Busy \in SUBSET Procs /\ Busy' \in SUBSET Procs
      /\ Mapped \in SUBSET Pools /\ Mapped' \in SUBSET Pools
      /\ \A p \in Procs : /\ others[p] \in SUBSET Pools /\ others'[p] \in SUBSET Pools
                          /\ excess[p] \in Int /\ excess'[p] \in Int
      /\ Cap \in Nat /\ Cap >= 1
  BY CountTypes
<1>1. Mapped' \subseteq Mapped
  BY DEF Background, Calm, Hands
<1>2. ASSUME NEW S \in SUBSET Pools, NEW T \in SUBSET S
      PROVE  /\ Load(idle', Busy', ref', T) <= Load(idle, Busy, ref, S)
             /\ Idles(idle', T) + Cardinality(Busy') <= Idles(idle, S) + Cardinality(Busy)
             /\ Load(idle', Busy', ref', T) \in Nat /\ Load(idle, Busy, ref, S) \in Nat
             /\ Idles(idle', T) \in Nat /\ Idles(idle, S) \in Nat
             /\ Cardinality(Busy) \in Nat /\ Cardinality(Busy') \in Nat
  <2>1. T \in SUBSET Pools
    OBVIOUS
  <2>2. /\ Load(idle', Busy', ref', T) <= Load(idle, Busy, ref, S)
        /\ Idles(idle', T) + Cardinality(Busy') <= Idles(idle, S) + Cardinality(Busy)
    BY BackgroundKeeps
  <2>3. Load(idle', Busy', ref', T) \in Nat /\ Load(idle, Busy, ref, S) \in Nat
    BY <1>0, <2>1, LoadType
  <2>4. Idles(idle', T) \in Nat /\ Idles(idle, S) \in Nat
    BY <1>0, <2>1, ConnsFinite
  <2>5. Cardinality(Busy) \in Nat /\ Cardinality(Busy') \in Nat
    BY <1>0, WorkersFinite
  <2> QED
    BY <2>2, <2>3, <2>4, <2>5
<1>3. ASSUME NEW n \in Int, Connections(Mapped) <= n PROVE Connections(Mapped)' <= n
  <2>1. /\ Connections(Mapped) = Load(idle, Busy, ref, Mapped)
        /\ Connections(Mapped)' = Load(idle', Busy', ref', Mapped')
    BY DEF Connections
  <2> QED
    BY <1>0, <1>1, <1>2, <1>3, <2>1
<1>4. Connections(Mapped)' <= 2 * Cap - 1
  <2>1. 2 * Cap - 1 \in Int /\ Connections(Mapped) <= 2 * Cap - 1
    BY <1>0 DEF RoomInv
  <2> QED
    BY <1>3, <2>1
<1>5. BuiltAlone'
  <2> SUFFICES ASSUME NEW p \in Procs, pc'[p] \in {"create", "publish"},
                      NEW q \in Procs \ {p}
               PROVE  ref'[q] # ref'[p]
    BY DEF BuiltAlone
  <2>1. pc[p] = pc'[p] /\ ref'[p] = ref[p]
    BY DEF HolderKept, LockPCs
  <2>2. ref[p] \in Pools /\ ref[p] # None
    BY <2>1, PoolAssumption DEF Types, RefOK
  <2>3. ref[q] # ref[p]
    BY <2>1 DEF RoomInv, BuiltAlone
  <2> QED
    BY <2>1, <2>2, <2>3 DEF RefsDrop
<1>6. ASSUME NEW p \in Procs PROVE RoomAt(p)'
  <2>1. CASE pc'[p] \notin LockPCs
    BY <2>1, RoomElsewhere
  <2>2. CASE pc'[p] \in LockPCs
    <3>1. /\ pc'[p] = pc[p] /\ ref'[p] = ref[p] /\ key'[p] = key[p]
          /\ excess'[p] = excess[p] /\ others'[p] = others[p]
          /\ pools'[key[p]] \in {pools[key[p]], None}
      BY <2>2 DEF HolderKept
    <3>2. RoomAt(p)
      BY DEF RoomInv
    <3>3. pc[p] \in {"stat", "count"} => pools'[key'[p]] \in {ref'[p], None}
      BY <3>1, <3>2 DEF RoomAt
    <3>4. ASSUME pc[p] = "count"
          PROVE  Idles(idle', Mapped' \cap {ref'[p]}) + Cardinality(Busy') <= Cap - 1
      <4>1. PICK S \in SUBSET Pools : S = Mapped \cap {ref[p]}
        BY <1>0
      <4>2. PICK T \in SUBSET S : T = Mapped' \cap {ref'[p]}
        BY <1>1, <3>1, <4>1
      <4>3. Idles(idle, S) + Cardinality(Busy) <= Cap - 1
        BY <3>2, <3>4, <4>1 DEF RoomAt
      <4> QED
        BY <1>0, <1>2, <4>2, <4>3
    <3>5. ASSUME NEW n \in Int, Connections(Mapped \cup others[p]) <= n
          PROVE  Connections(Mapped \cup others[p])' <= n
      <4>1. PICK S \in SUBSET Pools : S = Mapped \cup others[p]
        BY <1>0
      <4>2. PICK T \in SUBSET S : T = Mapped' \cup others'[p]
        BY <1>1, <3>1, <4>1
      <4>3. /\ Connections(Mapped \cup others[p]) = Load(idle, Busy, ref, S)
            /\ Connections(Mapped \cup others[p])' = Load(idle', Busy', ref', T)
        BY <4>1, <4>2 DEF Connections
      <4> QED
        BY <1>2, <3>5, <4>3
    <3>6. ASSUME Uncounted(p) <= Cap - 1 PROVE Uncounted(p)' <= Cap - 1
      <4>1. PICK S \in SUBSET Pools : S = Mapped \ others[p]
        BY <1>0
      <4>2. PICK T \in SUBSET S : T = Mapped' \ others'[p]
        BY <1>1, <3>1, <4>1
      <4>3. /\ Uncounted(p) = Idles(idle, S) + Cardinality(Busy)
            /\ Uncounted(p)' = Idles(idle', T) + Cardinality(Busy')
        BY <4>1, <4>2 DEF Uncounted
      <4> QED
        BY <1>0, <1>2, <3>6, <4>3
    <3>7. ASSUME pc[p] = "room"
          PROVE  /\ Connections(Mapped \cup others[p])' <= excess'[p] + Cap - 1
                 /\ Uncounted(p)' <= Cap - 1
      <4>1. /\ Connections(Mapped \cup others[p]) <= excess[p] + Cap - 1
            /\ Uncounted(p) <= Cap - 1
        BY <3>2, <3>7 DEF RoomAt
      <4>2. excess[p] + Cap - 1 \in Int
        BY <1>0
      <4> QED
        BY <3>1, <3>5, <3>6, <4>1, <4>2
    <3>8. ASSUME pc[p] = "evict"
          PROVE  /\ Connections(Mapped \cup others[p])' <= excess'[p] + 2 * Cap - 2
                 /\ (excess'[p] <= 0) \/ (Uncounted(p)' <= Cap - 1)
      <4>1. /\ Connections(Mapped \cup others[p]) <= excess[p] + 2 * Cap - 2
            /\ (excess[p] <= 0) \/ (Uncounted(p) <= Cap - 1)
        BY <3>2, <3>8 DEF RoomAt
      <4>2. excess[p] + 2 * Cap - 2 \in Int
        BY <1>0
      <4> QED
        BY <3>1, <3>5, <3>6, <4>1, <4>2
    <3>9. ASSUME Connections(Mapped) <= 2 * Cap - 2
          PROVE  Connections(Mapped)' <= 2 * Cap - 2
      <4>1. 2 * Cap - 2 \in Int
        BY <1>0
      <4> QED
        BY <1>3, <3>9, <4>1
    <3>10. ASSUME pc[p] = "publish" PROVE idle'[ref'[p]] <= 1
      <4>1. ref[p] \in Pools /\ idle[ref[p]] <= 1 /\ p \notin Busy
        BY <3>2, <3>10 DEF RoomAt, Types, RefOK, Busy
      <4>2. CASE Calm
        BY <1>0, <3>1, <4>1, <4>2 DEF Calm, Numbers
      <4>3. ASSUME NEW q \in Busy, Hands(q) PROVE idle'[ref[p]] = idle[ref[p]]
        <5>1. q \in Procs \ {p}
          BY <1>0, <4>1
        <5>2. ref[q] # ref[p]
          BY <3>10, <5>1 DEF RoomInv, BuiltAlone
        <5> QED
          BY <1>0, <4>1, <4>3, <5>2 DEF Hands, Numbers
      <4> QED
        BY <3>1, <4>1, <4>2, <4>3 DEF Background
    <3>11. ASSUME pc[p] = "acquire"
           PROVE  \/ Connections(Mapped)' <= 2 * Cap - 2
                  \/ ref'[p] \in Mapped' => idle'[ref'[p]] > 0
      <4>1. CASE Connections(Mapped) <= 2 * Cap - 2
        BY <3>9, <4>1
      <4>2. CASE ref[p] \in Mapped' /\ idle'[ref[p]] = 0 /\ idle[ref[p]] > 0
        <5>1. PICK o \in Mapped : o = ref[p] /\ o \in Pools
          BY <1>0, <1>1, <4>2
        <5>2. Calm
          <6>1. ASSUME NEW q \in Busy, Hands(q) PROVE idle'[o] > 0
            BY <1>0, <4>2, <5>1, <6>1 DEF Hands, Numbers
          <6> QED
            BY <4>2, <5>1, <6>1 DEF Background
        <5>3. o \in Mapped' /\ Mapped' \in SUBSET Mapped /\ idle'[o] < idle[o]
          BY <1>1, <4>2, <5>1
        <5>4. Load(idle', Busy', ref', Mapped') < Load(idle, Busy, ref, Mapped)
          BY <1>0, <5>2, <5>3, LoadDrops DEF Calm
        <5>5. /\ Connections(Mapped) = Load(idle, Busy, ref, Mapped)
              /\ Connections(Mapped)' = Load(idle', Busy', ref', Mapped')
          BY DEF Connections
        <5>6. /\ Load(idle, Busy, ref, Mapped) \in Nat
              /\ Load(idle', Busy', ref', Mapped') \in Nat
          BY <1>0, LoadType
        <5>7. Connections(Mapped) <= 2 * Cap - 1
          BY DEF RoomInv
        <5> QED
          BY <1>0, <5>4, <5>5, <5>6, <5>7
      <4>3. CASE ref[p] \in Mapped' /\ ~ (idle'[ref[p]] = 0)
        BY <1>0, <3>1, <4>3 DEF Numbers
      <4>4. CASE ref[p] \notin Mapped'
        BY <3>1, <4>4
      <4>5. \/ Connections(Mapped) <= 2 * Cap - 2
            \/ ref[p] \in Mapped' => idle[ref[p]] > 0
        BY <1>1, <3>2, <3>11 DEF RoomAt
      <4> QED
        BY <4>1, <4>2, <4>3, <4>4, <4>5
    <3>12. pc[p] \in {"dial", "create", "publish"} => Connections(Mapped)' <= 2 * Cap - 2
      BY <3>2, <3>9 DEF RoomAt
    <3> QED
      BY <3>1, <3>3, <3>4, <3>7, <3>8, <3>10, <3>11, <3>12 DEF RoomAt
  <2> QED
    BY <2>1, <2>2
<1> QED
  BY <1>4, <1>5, <1>6 DEF RoomInv

-----------------------------------------------------------------------------
(* The stages of the lock's holder *)

\* The pools, the idle and the busy connections stay as they are.
Unmoved ==
    /\ Mapped' = Mapped /\ idle' = idle /\ Busy' = Busy
    /\ \A q \in Busy : ref'[q] = ref[q]

LEMMA UnmovedLoad ==
    ASSUME Types, Types', Unmoved, NEW S \in SUBSET Pools
    PROVE  Load(idle', Busy', ref', S) = Load(idle, Busy, ref, S)
<1>1. {q \in Busy' : ref'[q] \in S} = {q \in Busy : ref[q] \in S}
  BY DEF Unmoved
<1> QED
  BY <1>1 DEF Load, Unmoved

\* A stage that opens nothing: lookup, statistics, counting, and the end.
LEMMA QuietStage ==
    ASSUME Types, NEW p \in Procs,
           \/ lockAndLookup(p) \/ statPool(p) \/ countIdle(p)
           \/ compareRoom(p) \/ evictDone(p)
    PROVE  Unmoved /\ p \notin Busy /\ p \in Holders' /\ pools' = pools /\ key' = key
<1> USE DEF Types, TypeOK, Unmoved, Mapped, Busy, Holders, SlotPCs, poolVars, probeVars, Goto
<1>1. CASE lockAndLookup(p)
  BY <1>1 DEF lockAndLookup
<1>2. CASE statPool(p)
  BY <1>2 DEF statPool
<1>3. CASE countIdle(p)
  BY <1>3 DEF countIdle
<1>4. CASE compareRoom(p)
  BY <1>4 DEF compareRoom
<1>5. CASE evictDone(p)
  BY <1>5 DEF evictDone
<1> QED
  BY <1>1, <1>2, <1>3, <1>4, <1>5

\* It is enough to look at the goroutine that takes the stage.
LEMMA StageRoom ==
    ASSUME Types, Types', OwnInv, RoomInv, NEW p \in Procs, Stage(p),
           RoomAt(p)', Connections(Mapped)' <= 2 * Cap - 1,
           pc'[p] \in {"create", "publish"} => \A q \in Procs \ {p} : ref'[q] # ref'[p]
    PROVE  RoomInv'
<1>1. ASSUME NEW h \in Procs \ {p} PROVE RoomAt(h)' /\ pc'[h] \notin LockPCs
  BY StageAlone, RoomElsewhere
<1>2. BuiltAlone'
  BY <1>1 DEF BuiltAlone, LockPCs
<1>3. \A h \in Procs : RoomAt(h)'
  BY <1>1
<1> QED
  BY <1>2, <1>3 DEF RoomInv

LEMMA QuietStageRoom ==
    ASSUME Types, Types', SlotsConserved, SlotsConserved', OwnInv, RoomInv, NEW p \in Procs,
           \/ lockAndLookup(p) \/ statPool(p) \/ countIdle(p)
           \/ compareRoom(p) \/ evictDone(p)
    PROVE  RoomInv'
<1>0. /\ idle \in Numbers
      /\ Busy \in SUBSET Procs /\ Mapped \in SUBSET Pools
      /\ others[p] \in SUBSET Pools /\ others'[p] \in SUBSET Pools
      /\ excess[p] \in Int /\ excess'[p] \in Int
      /\ Cap \in Nat /\ Cap >= 1
  BY CountTypes
<1>1. Unmoved /\ p \notin Busy /\ p \in Holders' /\ pools' = pools /\ key' = key
  BY QuietStage
<1>2. \A S \in SUBSET Pools : Load(idle', Busy', ref', S) = Load(idle, Busy, ref, S)
  BY <1>1, UnmovedLoad
<1>3. Connections(Mapped)' = Connections(Mapped) /\ Connections(Mapped) \in Nat
  <2>1. Connections(Mapped)' = Load(idle', Busy', ref', Mapped')
    BY DEF Connections
  <2>2. Mapped' = Mapped
    BY <1>1 DEF Unmoved
  <2> QED
    BY <1>0, <1>2, <2>1, <2>2, LoadType DEF Connections
<1>4. Connections(Mapped)' <= 2 * Cap - 1
  BY <1>3 DEF RoomInv
<1>5. RoomAt(p) /\ Stage(p)
  BY DEF RoomInv, Stage
<1>6. Cardinality(Busy) \in Nat /\ Idles(idle, Mapped) \in Nat
  BY <1>0, WorkersFinite, ConnsFinite
<1>7. SUFFICES pc'[p] \notin {"create", "publish"} /\ RoomAt(p)'
  BY <1>4, <1>5, StageRoom
<1>8. CASE lockAndLookup(p)
  <2>1. pc'[p] = "stat" /\ pools'[key'[p]] = ref'[p]
    BY <1>1, <1>8 DEF lockAndLookup, Goto, Types, TypeOK
  <2> QED
    BY <2>1 DEF RoomAt
<1>9. CASE statPool(p)
  <2>1. pc[p] = "stat" /\ ref' = ref /\ pc'[p] \in {"count", "acquire"}
    BY <1>9 DEF statPool, Goto, Types, TypeOK
  <2>2. pools'[key'[p]] \in {ref'[p], None}
    BY <1>1, <1>5, <2>1 DEF RoomAt
  <2>3. CASE pc'[p] = "count"
    <3>1. ref[p] = None \/ idle[ref[p]] = 0
      BY <1>9, <2>1, <2>3 DEF statPool, Goto, Types, TypeOK
    <3>2. PICK S \in SUBSET Pools : S = Mapped \cap {ref[p]}
      BY <1>0
    <3>3. \A o \in S : idle[o] = 0
      BY <3>1, <3>2 DEF Mapped
    <3>4. ConnsOf(idle, S) = {}
      BY <3>3 DEF ConnsOf
    <3>5. Idles(idle, S) = 0
      BY <3>4, FS_EmptySet DEF Idles
    <3>6. Cardinality(Busy) <= Cap - 1
      <4>1. p \in Holders
        BY <2>1 DEF Holders, SlotPCs
      <4> QED
        BY <1>1, <4>1, BusyBelowCap
    <3>7. Idles(idle', Mapped' \cap {ref'[p]}) + Cardinality(Busy') <= Cap - 1
      BY <1>0, <1>1, <1>6, <2>1, <3>2, <3>5, <3>6 DEF Unmoved
    <3> QED
      BY <2>2, <2>3, <3>7 DEF RoomAt
  <2>4. CASE pc'[p] = "acquire"
    <3>1. ref[p] # None /\ idle[ref[p]] # 0
      BY <1>9, <2>1, <2>4 DEF statPool, Goto, Types, TypeOK
    <3>2. ref[p] \in Mapped => idle[ref[p]] > 0
      BY <1>0, <3>1 DEF Numbers
    <3>3. ref'[p] \in Mapped' => idle'[ref'[p]] > 0
      BY <1>1, <2>1, <3>2 DEF Unmoved
    <3> QED
      BY <2>4, <3>3 DEF RoomAt
  <2> QED
    BY <2>1, <2>3, <2>4
<1>10. CASE countIdle(p)
  <2>1. /\ pc[p] = "count" /\ pc'[p] = "room" /\ excess'[p] = IdleIn(Mapped)
        /\ others'[p] = Mapped \ {pools[key[p]]}
    BY <1>10 DEF countIdle, Goto, Types, TypeOK
  <2>2. excess'[p] = Idles(idle, Mapped)
    BY <2>1 DEF IdleIn, IdleConns, Idles, ConnsOf
  <2>3. Cardinality(Busy) <= Cap - 1
    <3>1. p \in Holders
      BY <2>1 DEF Holders, SlotPCs
    <3> QED
      BY <1>1, <3>1, BusyBelowCap
  <2>4. Load(idle, Busy, ref, Mapped) <= Idles(idle, Mapped) + Cardinality(Busy)
    BY <1>0, LoadType
  <2>5. Connections(Mapped \cup others[p])' <= excess'[p] + Cap - 1
    <3>1. Mapped' \cup others'[p] = Mapped
      BY <1>1, <2>1 DEF Unmoved
    <3>2. Connections(Mapped \cup others[p])' = Load(idle', Busy', ref', Mapped)
      BY <3>1 DEF Connections
    <3>3. Load(idle', Busy', ref', Mapped) = Load(idle, Busy, ref, Mapped)
      BY <1>0, <1>2
    <3>4. Load(idle, Busy, ref, Mapped) \in Nat
      BY <1>0, LoadType
    <3> QED
      BY <1>0, <1>6, <2>2, <2>3, <2>4, <3>2, <3>3, <3>4
  <2>6. Uncounted(p)' <= Cap - 1
    <3>1. PICK S \in SUBSET Pools : S = Mapped \cap {ref[p]}
      BY <1>0
    <3>2. PICK T \in SUBSET S : T = Mapped' \ others'[p]
      <4>1. pools[key[p]] \in {ref[p], None}
        BY <1>5, <2>1 DEF RoomAt
      <4>2. None \notin Mapped /\ Mapped' = Mapped
        BY <1>1 DEF Mapped, Unmoved
      <4> QED
        BY <2>1, <3>1, <4>1, <4>2
    <3>3. Idles(idle, S) + Cardinality(Busy) <= Cap - 1
      BY <1>5, <2>1, <3>1 DEF RoomAt
    <3>4. \A o \in T : idle[o] <= idle[o]
      BY <1>0 DEF Numbers
    <3>5. Idles(idle, T) <= Idles(idle, S)
      BY <1>0, <3>4, IdlesFall
    <3>6. Idles(idle, T) \in Nat /\ Idles(idle, S) \in Nat
      BY <1>0, ConnsFinite
    <3>7. Uncounted(p)' = Idles(idle, T) + Cardinality(Busy)
      BY <1>1, <3>2 DEF Uncounted, Unmoved
    <3> QED
      BY <1>0, <1>6, <3>3, <3>5, <3>6, <3>7
  <2> QED
    BY <2>1, <2>5, <2>6 DEF RoomAt
<1>11. CASE compareRoom(p)
  <2>1. /\ pc[p] = "room" /\ pc'[p] = "evict" /\ others' = others
        /\ excess'[p] = excess[p] - (Cap - sem)
    BY <1>11 DEF compareRoom, Goto, Types, TypeOK
  <2>2. sem >= 1 /\ sem \in Nat
    <3>1. p \in Holders
      BY <2>1 DEF Holders, SlotPCs
    <3> QED
      BY <1>1, <3>1, BusyBelowCap DEF Types, TypeOK
  <2>3. PICK S \in SUBSET Pools : S = Mapped \cup others[p]
    BY <1>0
  <2>4. Load(idle, Busy, ref, S) <= excess[p] + Cap - 1 /\ Load(idle, Busy, ref, S) \in Nat
    BY <1>0, <1>5, <2>1, <2>3, LoadType DEF RoomAt, Connections
  <2>5. Connections(Mapped \cup others[p])' = Load(idle, Busy, ref, S)
    <3>1. Mapped' \cup others'[p] = S
      BY <1>1, <2>1, <2>3 DEF Unmoved
    <3>2. Connections(Mapped \cup others[p])' = Load(idle', Busy', ref', S)
      BY <3>1 DEF Connections
    <3> QED
      BY <1>2, <3>2
  <2>6. Connections(Mapped \cup others[p])' <= excess'[p] + 2 * Cap - 2
    BY <1>0, <2>1, <2>2, <2>4, <2>5
  <2>7. Uncounted(p)' <= Cap - 1
    BY <1>1, <1>5, <2>1 DEF RoomAt, Uncounted, Unmoved
  <2> QED
    BY <2>1, <2>6, <2>7 DEF RoomAt
<1>12. CASE evictDone(p)
  <2>1. /\ pc[p] = "evict" /\ pc'[p] \in {"dial", "acquire"}
        /\ excess[p] <= 0 \/ others[p] = {}
    BY <1>12 DEF evictDone, Goto, Types, TypeOK
  <2>2. CASE excess[p] <= 0
    <3>1. PICK S \in SUBSET Pools : S = Mapped \cup others[p] /\ Mapped \in SUBSET S
      BY <1>0
    <3>2. Load(idle, Busy, ref, S) <= excess[p] + 2 * Cap - 2
      BY <1>5, <2>1, <3>1 DEF RoomAt, Connections
    <3>3. \A o \in Mapped : idle[o] <= idle[o]
      BY <1>0 DEF Numbers
    <3>4. Load(idle, Busy, ref, Mapped) <= Load(idle, Busy, ref, S)
      BY <1>0, <3>1, <3>3, LoadFalls
    <3>5. Load(idle, Busy, ref, Mapped) \in Nat /\ Load(idle, Busy, ref, S) \in Nat
      BY <1>0, LoadType
    <3>6. Connections(Mapped) = Load(idle, Busy, ref, Mapped)
      BY DEF Connections
    <3> QED
      BY <1>0, <1>3, <2>1, <2>2, <3>2, <3>4, <3>5, <3>6 DEF RoomAt
  <2>3. CASE ~ (excess[p] <= 0) /\ others[p] = {}
    <3>1. Uncounted(p) <= Cap - 1 /\ Mapped \ others[p] = Mapped
      BY <1>5, <2>1, <2>3 DEF RoomAt
    <3>2. Idles(idle, Mapped) + Cardinality(Busy) <= Cap - 1
      BY <3>1 DEF Uncounted
    <3>3. Connections(Mapped) <= Idles(idle, Mapped) + Cardinality(Busy)
      BY <1>0, LoadType DEF Connections
    <3>4. Connections(Mapped) <= 2 * Cap - 2
      BY <1>0, <1>3, <1>6, <3>2, <3>3
    <3> QED
      BY <1>3, <2>1, <3>4 DEF RoomAt
  <2> QED
    BY <2>1, <2>2, <2>3
<1> QED
  BY <1>8, <1>9, <1>10, <1>11, <1>12

\* One more busy goroutine adds one connection at most, none outside S.
LEMMA LoadJoined ==
    ASSUME NEW f \in Numbers, NEW S \in SUBSET Pools,
           NEW C \in SUBSET Procs, NEW p \in C, NEW B, B = C \ {p},
           NEW r, NEW s, \A q \in B : s[q] = r[q]
    PROVE  /\ Load(f, C, s, S) <= Load(f, B, r, S) + 1
           /\ s[p] \notin S => Load(f, C, s, S) = Load(f, B, r, S)
<1> DEFINE V == {q \in B : r[q] \in S}
           W == {q \in C : s[q] \in S}
<1>1. IsFiniteSet(V) /\ Cardinality(V) \in Nat /\ Idles(f, S) \in Nat
  BY WorkersFinite, ConnsFinite
<1>2. Load(f, C, s, S) = Idles(f, S) + Cardinality(W) /\
      Load(f, B, r, S) = Idles(f, S) + Cardinality(V)
  BY DEF Load
<1>3. CASE s[p] \in S
  <2>1. W = V \cup {p} /\ p \notin V
    BY <1>3
  <2> HIDE DEF V, W
  <2>2. Cardinality(W) = Cardinality(V) + 1
    BY <1>1, <2>1, FS_AddElement
  <2> QED
    BY <1>1, <1>2, <1>3, <2>2
<1>4. CASE s[p] \notin S
  <2>1. W = V
    BY <1>4
  <2> HIDE DEF V, W
  <2> QED
    BY <1>1, <1>2, <2>1
<1> QED
  BY <1>3, <1>4

LEMMA EvictRoom ==
    ASSUME Types, Types', OwnInv, RoomInv, NEW p \in Procs, evictFrom(p)
    PROVE  RoomInv'
<1>0. /\ idle \in Numbers /\ idle' \in Numbers
      /\ Busy \in SUBSET Procs /\ Mapped \in SUBSET Pools
      /\ others[p] \in SUBSET Pools /\ others'[p] \in SUBSET Pools
      /\ excess[p] \in Int /\ excess'[p] \in Int
      /\ Cap \in Nat /\ Cap >= 1
  BY CountTypes
<1>1. PICK o \in others[p] :
        LET n == IF idle[o] < excess[p] THEN idle[o] ELSE excess[p]
        IN  /\ idle' = [idle EXCEPT ![o] = @ - n]
            /\ excess' = [excess EXCEPT ![p] = @ - n]
            /\ others' = [others EXCEPT ![p] = @ \ {o}]
  BY DEF evictFrom
<1>2. PICK n \in Nat : n = IF idle[o] < excess[p] THEN idle[o] ELSE excess[p]
  BY <1>0 DEF evictFrom, Numbers
<1>3. o \in Pools /\ idle[o] \in Nat /\ n <= idle[o]
  BY <1>0, <1>2 DEF Numbers
<1>4. idle'[o] = idle[o] - n /\ \A x \in Pools \ {o} : idle'[x] = idle[x]
  BY <1>0, <1>1, <1>2, <1>3 DEF Numbers
<1>5. excess'[p] = excess[p] - n /\ others'[p] = others[p] \ {o}
  BY <1>1, <1>2 DEF Types, TypeOK
<1>6. /\ pc[p] = "evict" /\ pc'[p] = "evict" /\ Mapped' = Mapped /\ Busy' = Busy
      /\ ref' = ref /\ excess[p] > 0
  BY DEF evictFrom, Mapped, Busy
<1>7. RoomAt(p) /\ Stage(p)
  BY DEF RoomInv, Stage
<1>8. \A x \in Pools : idle'[x] <= idle[x]
  BY <1>0, <1>3, <1>4 DEF Numbers
<1>9. Background
  BY <1>6, <1>8 DEF Background, Calm
<1>10. Connections(Mapped)' <= 2 * Cap - 1
  <2>1. Load(idle', Busy', ref', Mapped) <= Load(idle, Busy, ref, Mapped)
    BY <1>0, <1>9, BackgroundKeeps
  <2>2. Load(idle', Busy', ref', Mapped) \in Nat /\ Load(idle, Busy, ref, Mapped) \in Nat
    BY <1>0, <1>6, LoadType
  <2>3. /\ Connections(Mapped)' = Load(idle', Busy', ref', Mapped)
        /\ Load(idle, Busy, ref, Mapped) <= 2 * Cap - 1
    BY <1>6 DEF Connections, RoomInv
  <2> QED
    BY <1>0, <2>1, <2>2, <2>3
<1>11. Connections(Mapped \cup others[p])' <= excess'[p] + 2 * Cap - 2
  <2>1. PICK S \in SUBSET Pools : S = Mapped \cup others[p] /\ o \in S
    BY <1>0
  <2>2. PICK T \in SUBSET S : T = Mapped' \cup others'[p]
    BY <1>5, <1>6, <2>1
  <2>3. Idles(idle, S) = Idles(idle', S) + n
    <3>1. idle[o] = idle'[o] + n
      BY <1>3, <1>4
    <3>2. \A x \in S \ {o} : idle'[x] = idle[x]
      BY <1>4
    <3> QED
      BY <1>0, <2>1, <3>1, <3>2, IdlesTaken
  <2>4. \A x \in T : idle'[x] <= idle'[x]
    BY <1>0 DEF Numbers
  <2>5. Load(idle', Busy, ref, T) <= Load(idle', Busy, ref, S)
    BY <1>0, <2>4, LoadFalls
  <2> DEFINE w == Cardinality({q \in Busy : ref[q] \in S})
  <2>6. /\ Load(idle, Busy, ref, S) = Idles(idle, S) + w
        /\ Load(idle', Busy, ref, S) = Idles(idle', S) + w
    BY DEF Load
  <2>7. w \in Nat /\ Idles(idle', S) \in Nat /\ Load(idle', Busy, ref, T) \in Nat
    BY <1>0, WorkersFinite, ConnsFinite, LoadType
  <2>8. /\ Load(idle, Busy, ref, S) <= excess[p] + 2 * Cap - 2
        /\ Connections(Mapped \cup others[p])' = Load(idle', Busy, ref, T)
    BY <1>6, <1>7, <2>1, <2>2 DEF RoomAt, Connections
  <2> HIDE DEF w
  <2> QED
    BY <1>0, <1>5, <2>3, <2>5, <2>6, <2>7, <2>8
<1>12. (excess'[p] <= 0) \/ (Uncounted(p)' <= Cap - 1)
  <2>1. CASE n # idle[o]
    BY <1>0, <1>2, <1>5, <2>1
  <2>2. CASE n = idle[o]
    <3>1. PICK S \in SUBSET Pools : S = Mapped \ others[p]
      BY <1>0
    <3>2. S \cup {o} \in SUBSET Pools
      BY <1>3
    <3>3. PICK T \in SUBSET (S \cup {o}) : T = Mapped' \ others'[p]
      BY <1>5, <1>6, <3>1
    <3>4. idle'[o] = 0
      BY <1>3, <1>4, <2>2
    <3>5. Idles(idle', S \cup {o}) <= Idles(idle', S) + idle'[o]
      BY <1>0, <1>3, IdlesWith
    <3>6. Idles(idle', T) <= Idles(idle', S \cup {o})
      <4>1. \A x \in T : idle'[x] <= idle'[x]
        BY <1>0, <3>2 DEF Numbers
      <4> QED
        BY <1>0, <3>2, <4>1, IdlesFall
    <3>7. Idles(idle', S) <= Idles(idle, S)
      <4>1. S \in SUBSET S /\ \A x \in S : idle'[x] <= idle[x]
        BY <1>8
      <4> QED
        BY <1>0, <4>1, IdlesFall
    <3>8. /\ Idles(idle', T) \in Nat /\ Idles(idle', S) \in Nat /\ Idles(idle, S) \in Nat
          /\ Idles(idle', S \cup {o}) \in Nat /\ Cardinality(Busy) \in Nat
      <4>1. T \in SUBSET Pools
        BY <3>2
      <4> QED
        BY <1>0, <3>2, <4>1, ConnsFinite, WorkersFinite
    <3>9. /\ Uncounted(p) = Idles(idle, S) + Cardinality(Busy)
          /\ Uncounted(p)' = Idles(idle', T) + Cardinality(Busy)
      BY <1>6, <3>1, <3>3 DEF Uncounted
    <3>10. Uncounted(p) <= Cap - 1
      BY <1>0, <1>6, <1>7 DEF RoomAt
    <3> QED
      BY <1>0, <3>4, <3>5, <3>6, <3>7, <3>8, <3>9, <3>10
  <2> QED
    BY <2>1, <2>2
<1>13. RoomAt(p)'
  BY <1>6, <1>11, <1>12 DEF RoomAt
<1> QED
  BY <1>6, <1>7, <1>10, <1>13, StageRoom

LEMMA DialRoom ==
    ASSUME Types, Types', OwnInv, RoomInv, NEW p \in Procs, dialPool(p) \/ dialOK(p)
    PROVE  RoomInv'
<1>0. /\ idle \in Numbers /\ idle' \in Numbers
      /\ Busy \in SUBSET Procs /\ Busy' \in SUBSET Procs /\ Mapped \in SUBSET Pools
      /\ Cap \in Nat /\ Cap >= 1
  BY CountTypes
<1>1. RoomAt(p) /\ Stage(p) /\ Mapped' = Mapped
  BY DEF RoomInv, Stage, dialPool, dialOK, Mapped
<1>2. Connections(Mapped) <= 2 * Cap - 2
  BY <1>1 DEF RoomAt, dialPool, dialOK
<1>3. /\ Connections(Mapped) = Load(idle, Busy, ref, Mapped)
      /\ Connections(Mapped)' = Load(idle', Busy', ref', Mapped)
      /\ Load(idle, Busy, ref, Mapped) \in Nat /\ Load(idle', Busy', ref', Mapped) \in Nat
  BY <1>0, <1>1, LoadType DEF Connections
<1>4. SUFFICES /\ Load(idle', Busy', ref', Mapped) <= Load(idle, Busy, ref, Mapped)
               /\ pc'[p] \in {"create", "publish"}
               /\ pc'[p] = "publish" => idle'[ref'[p]] <= 1
               /\ \A q \in Procs \ {p} : ref'[q] # ref'[p]
  <2>1. Connections(Mapped)' <= 2 * Cap - 2 /\ Connections(Mapped)' <= 2 * Cap - 1
    BY <1>0, <1>2, <1>3, <1>4
  <2>2. RoomAt(p)'
    BY <1>4, <2>1 DEF RoomAt
  <2> QED
    BY <1>1, <1>4, <2>1, <2>2, StageRoom
<1>5. CASE dialPool(p)
  <2>1. PICK o \in Pools : Fresh(o) /\ ref' = [ref EXCEPT ![p] = o]
    BY <1>5 DEF dialPool
  <2>2. o \notin Mapped /\ \A q \in Procs : ref[q] # o
    BY <2>1 DEF Fresh, OwnInv, PoolsAccounted, NoPoolShared, Mapped
  <2>3. ref'[p] = o /\ \A q \in Procs \ {p} : ref'[q] = ref[q]
    BY <2>1 DEF Types, TypeOK
  <2>4. /\ pc'[p] = "create" /\ idle' = idle /\ p \notin Busy
        /\ Busy' = Busy \cup {p}
    BY <1>5 DEF dialPool, Goto, Busy, Types, TypeOK
  <2>5. \A q \in Busy : ref'[q] = ref[q]
    BY <1>0, <2>3, <2>4
  <2>6. Load(idle', Busy', ref', Mapped) = Load(idle, Busy, ref, Mapped)
    <3>1. PICK f, B, C, S, r, s :
            f = idle /\ B = Busy /\ C = Busy' /\ S = Mapped /\ r = ref /\ s = ref'
      OBVIOUS
    <3>2. f \in Numbers /\ C \in SUBSET Procs /\ S \in SUBSET Pools /\ p \in C
      BY <1>0, <2>4, <3>1
    <3>3. s[p] \notin S
      BY <2>2, <2>3, <3>1
    <3>4. \A q \in B : s[q] = r[q]
      BY <2>5, <3>1
    <3>5. B = C \ {p}
      BY <2>4, <3>1
    <3>6. Load(f, C, s, S) = Load(f, B, r, S)
      BY <3>2, <3>3, <3>4, <3>5, LoadJoined
    <3> QED
      BY <2>4, <3>1, <3>6
  <2> QED
    BY <1>3, <2>2, <2>3, <2>4, <2>6
<1>6. CASE dialOK(p)
  <2>1. /\ pc[p] = "create" /\ pc'[p] = "publish" /\ ref' = ref
        /\ Busy' \subseteq Busy /\ ref[p] \in Pools
        /\ idle' = [idle EXCEPT ![ref[p]] = 1]
    BY <1>6 DEF dialOK, Goto, Busy, Types, TypeOK, RefOK
  <2>2. ref[p] \notin Mapped /\ \A q \in Procs \ {p} : ref[q] # ref[p]
    BY <2>1 DEF OwnInv, BuildingOwned, RoomInv, BuiltAlone
  <2>3. idle'[ref'[p]] = 1
    BY <1>0, <2>1 DEF Numbers
  <2>4. \A x \in Mapped : idle'[x] <= idle[x]
    BY <1>0, <2>1, <2>2 DEF Numbers
  <2>5. Load(idle', Busy', ref', Mapped) <= Load(idle, Busy, ref, Mapped)
    BY <1>0, <2>1, <2>4, LoadFalls
  <2> QED
    BY <2>1, <2>2, <2>3, <2>5
<1> QED
  BY <1>5, <1>6

LEMMA PublishRoom ==
    ASSUME Types, Types', OwnInv, RoomInv, NEW p \in Procs, publishPool(p)
    PROVE  RoomInv'
<1>0. /\ idle \in Numbers /\ Busy \in SUBSET Procs /\ Mapped \in SUBSET Pools
      /\ Mapped' \in SUBSET Pools /\ Cap \in Nat /\ Cap >= 1
  BY CountTypes
<1>1. /\ RoomAt(p) /\ Stage(p) /\ pc[p] = "publish" /\ pc'[p] = "acquire"
      /\ idle' = idle /\ ref' = ref /\ Busy' = Busy /\ p \notin Busy
  BY DEF RoomInv, Stage, publishPool, Goto, Busy, Types, TypeOK
<1>2. PICK o \in Pools : o = ref[p] /\ idle[o] <= 1 /\ idle[o] \in Nat
  BY <1>0, <1>1 DEF Types, RefOK, RoomAt, Numbers
<1>3. Mapped' \in SUBSET (Mapped \cup {o})
  BY <1>2 DEF publishPool, Mapped, Types, TypeOK
<1>4. \A q \in Busy : ref[q] # o
  BY <1>0, <1>1, <1>2 DEF RoomInv, BuiltAlone
<1>5. Connections(Mapped) <= 2 * Cap - 2
  BY <1>1 DEF RoomAt
<1>6. PICK S \in SUBSET Pools : S = Mapped \cup {o}
  BY <1>0
<1>7. {q \in Busy : ref[q] \in S} = {q \in Busy : ref[q] \in Mapped}
  BY <1>4, <1>6
<1>8. Idles(idle, S) <= Idles(idle, Mapped) + idle[o]
  BY <1>0, <1>6, IdlesWith
<1> DEFINE w == Cardinality({q \in Busy : ref[q] \in Mapped})
<1>9. /\ Load(idle, Busy, ref, S) = Idles(idle, S) + w
      /\ Connections(Mapped) = Idles(idle, Mapped) + w
  BY <1>7 DEF Load, Connections
<1>10. /\ w \in Nat /\ Idles(idle, S) \in Nat /\ Idles(idle, Mapped) \in Nat
       /\ Load(idle, Busy, ref, S) \in Nat
  BY <1>0, WorkersFinite, ConnsFinite, LoadType
<1>11. Connections(Mapped)' <= Load(idle, Busy, ref, S) /\ Connections(Mapped)' \in Nat
  <2>1. PICK T \in SUBSET S : T = Mapped'
    BY <1>3, <1>6
  <2>2. \A x \in T : idle[x] <= idle[x]
    BY <1>0 DEF Numbers
  <2>3. Load(idle, Busy, ref, T) <= Load(idle, Busy, ref, S)
    BY <1>0, <2>2, LoadFalls
  <2>4. Connections(Mapped)' = Load(idle, Busy, ref, T)
    BY <1>1, <2>1 DEF Connections
  <2> QED
    BY <1>0, <2>3, <2>4, LoadType
<1> HIDE DEF w
<1>12. Connections(Mapped)' <= 2 * Cap - 2 + idle[o]
  BY <1>0, <1>2, <1>5, <1>8, <1>9, <1>10, <1>11
<1>13. Connections(Mapped)' <= 2 * Cap - 1
  BY <1>0, <1>2, <1>11, <1>12
<1>14. \/ Connections(Mapped)' <= 2 * Cap - 2
       \/ ref'[p] \in Mapped' => idle'[ref'[p]] > 0
  BY <1>0, <1>1, <1>2, <1>11, <1>12
<1>15. RoomAt(p)'
  BY <1>1, <1>14 DEF RoomAt
<1> QED
  BY <1>1, <1>13, <1>15, StageRoom

LEMMA AcquireRoom ==
    ASSUME Types, Types', OwnInv, RoomInv, NEW p \in Procs, acquireIdle(p) \/ acquireOpen(p)
    PROVE  RoomInv'
<1>0. /\ idle \in Numbers /\ idle' \in Numbers
      /\ Busy \in SUBSET Procs /\ Busy' \in SUBSET Procs /\ Mapped \in SUBSET Pools
      /\ Cap \in Nat /\ Cap >= 1
  BY CountTypes
<1>1. /\ RoomAt(p) /\ Stage(p) /\ pc[p] = "acquire" /\ pc'[p] \in {"using", "opening"}
      /\ ref' = ref /\ Busy' = Busy \cup {p} /\ p \notin Busy /\ Mapped' = Mapped
      /\ ref[p] \in Pools
  BY DEF RoomInv, Stage, acquireIdle, acquireOpen, Goto, Busy, Types, TypeOK, RefOK, Mapped,
    poolVars
<1>2. RoomAt(p)'
  BY <1>1 DEF RoomAt
<1>3. /\ Connections(Mapped) = Load(idle, Busy, ref, Mapped)
      /\ Connections(Mapped)' = Load(idle', Busy', ref, Mapped)
      /\ Load(idle, Busy, ref, Mapped) \in Nat /\ Load(idle', Busy', ref, Mapped) \in Nat
      /\ Load(idle', Busy, ref, Mapped) \in Nat
  BY <1>0, <1>1, LoadType DEF Connections
<1>4. /\ Load(idle', Busy', ref, Mapped) <= Load(idle', Busy, ref, Mapped) + 1
      /\ ref[p] \notin Mapped =>
           Load(idle', Busy', ref, Mapped) = Load(idle', Busy, ref, Mapped)
  <2>1. PICK f, B, C, S, r, t :
          f = idle' /\ B = Busy /\ C = Busy' /\ S = Mapped /\ r = ref /\ t = ref
    OBVIOUS
  <2>2. f \in Numbers /\ C \in SUBSET Procs /\ S \in SUBSET Pools /\ p \in C
    BY <1>0, <1>1, <2>1
  <2>3. B = C \ {p} /\ \A q \in B : t[q] = r[q]
    BY <1>1, <2>1
  <2>4. /\ Load(f, C, t, S) <= Load(f, B, r, S) + 1
        /\ t[p] \notin S => Load(f, C, t, S) = Load(f, B, r, S)
    BY <2>2, <2>3, LoadJoined
  <2> QED
    BY <1>1, <2>1, <2>4
<1>5. Connections(Mapped) <= 2 * Cap - 1
  BY DEF RoomInv
<1>6. CASE acquireIdle(p)
  <2>1. idle' = [idle EXCEPT ![ref[p]] = idle[ref[p]] - 1] /\ idle[ref[p]] > 0
    BY <1>6 DEF acquireIdle
  <2>2. \A x \in Pools : idle'[x] <= idle[x]
    BY <1>0, <1>1, <2>1 DEF Numbers
  <2>3. idle'[ref[p]] < idle[ref[p]]
    BY <1>0, <1>1, <2>1 DEF Numbers
  <2>4. Load(idle', Busy, ref, Mapped) <= Load(idle, Busy, ref, Mapped)
    BY <1>0, <2>2, LoadFalls
  <2>5. ref[p] \in Mapped =>
          Load(idle', Busy, ref, Mapped) < Load(idle, Busy, ref, Mapped)
    BY <1>0, <2>2, <2>3, LoadDrops
  <2>6. Connections(Mapped)' <= 2 * Cap - 1
    BY <1>0, <1>3, <1>4, <1>5, <2>4, <2>5
  <2> QED
    BY <1>1, <1>2, <2>6, StageRoom
<1>7. CASE acquireOpen(p)
  <2>1. idle' = idle /\ idle[ref[p]] = 0
    BY <1>7 DEF acquireOpen, poolVars
  <2>2. Connections(Mapped) <= 2 * Cap - 2 \/ ref[p] \notin Mapped
    BY <1>1, <2>1 DEF RoomAt
  <2>3. Connections(Mapped)' <= 2 * Cap - 1
    BY <1>0, <1>3, <1>4, <1>5, <2>1, <2>2
  <2> QED
    BY <1>1, <1>2, <2>3, StageRoom
<1> QED
  BY <1>6, <1>7

\* However many goroutines acquire, return and time out at once, and however
\* often the row changes, the pools in the map never have more than twice the
\* cap less one connections open or being opened: evictIdleConnections may
\* count before the other slot holders return theirs, and no worse
\* (acquireWithinCap, evictIdleConnections, createPool).
THEOREM MappedSafety == Spec => []MappedWithinBound
<1> DEFINE Inv == Types /\ SlotsConserved /\ OwnInv /\ RoomInv
<1>1. Init => RoomInv
  <2> SUFFICES ASSUME Init PROVE RoomInv
    OBVIOUS
  <2>1. Mapped = {} /\ Busy = {} /\ \A p \in Procs : pc[p] = "idle"
    BY DEF Init, Mapped, Busy
  <2>2. ConnsOf(idle, {}) = {} /\ {q \in {} : ref[q] \in {}} = {}
    BY DEF ConnsOf
  <2>3. Connections(Mapped) = 0
    BY <2>1, <2>2, FS_EmptySet DEF Connections, Load, Idles
  <2> QED
    BY <2>1, <2>3, PoolAssumption DEF RoomInv, RoomAt, BuiltAlone
<1>2. Inv /\ [Next]_vars => RoomInv'
  <2> SUFFICES ASSUME Inv, [Next]_vars PROVE RoomInv'
    OBVIOUS
  <2>1. Types' /\ SlotsConserved'
    BY TypeStep, SlotStep
  <2>2. CASE Background /\ HolderKept /\ RefsDrop
    BY <2>1, <2>2, BackgroundRoom
  <2>3. ASSUME NEW p \in Procs, Stage(p) PROVE RoomInv'
    BY <2>1, <2>3, QuietStageRoom, EvictRoom, DialRoom, PublishRoom, AcquireRoom DEF Stage
  <2> QED
    BY <2>2, <2>3, RoomSteps
<1>3. RoomInv => MappedWithinBound
  BY OpenInIsConnections DEF RoomInv, MappedWithinBound
<1>4. Inv /\ [Next]_vars => Inv'
  BY <1>2, TypeStep, SlotStep, OwnStep
<1>5. Init => Types /\ SlotsConserved /\ OwnInv
  <2> SUFFICES ASSUME Init PROVE SlotsConserved /\ OwnInv
    BY TypesInit
  <2>1. Holders = {}
    BY DEF Init, Holders, SlotPCs
  <2>2. SlotsConserved
    BY <2>1, FS_EmptySet DEF Init, SlotsConserved
  <2>3. LockHeld /\ KeyFree /\ ClosingAt /\ BuildingOwned
    BY DEF Init, LockHeld, LockPCs, KeyFree, ClosingAt, BuildingOwned
  <2>4. PoolsAccounted
    BY DEF Init, PoolsAccounted, NoPoolLost, NoPoolShared, Mapped
  <2> QED
    BY <2>2, <2>3, <2>4 DEF OwnInv
<1> QED
  BY <1>1, <1>3, <1>4, <1>5, PTL DEF Spec
=============================================================================
