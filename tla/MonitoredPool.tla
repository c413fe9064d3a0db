--------------------------- MODULE MonitoredPool ---------------------------
(***************************************************************************)
(* The connection pools the collector keeps to ONE monitored server:       *)
(* collector/src/database/monitored_pool.go, driven as                     *)
(* collector/src/scheduler/scheduler.go drives it.                         *)
(*                                                                         *)
(* Every map of the manager is keyed by the connection ID (or by a pool    *)
(* key that belongs to one connection), and no operation mixes the entries *)
(* of two connections, so one connection is modelled: its semaphore, its   *)
(* lock, one pool per database visited (a "key"), and the updated_at       *)
(* recorded for its pools.                                                 *)
(*                                                                         *)
(* Probe goroutines interleave at every point where the code releases m.mu *)
(* or calls into pgxpool.  The pgxpool.Pool objects are external: an       *)
(* object is open or closed, holds a number of idle connections, and       *)
(* opens, hands out and destroys connections as pgxpool documents.         *)
(***************************************************************************)
EXTENDS Integers, FiniteSets

CONSTANTS
    Procs,      \* probe goroutines
    Reloader,   \* the goroutine of configReloadLoop (and main, at shutdown)
    Keys,       \* pool keys of the connection: the server pool and databases
    ServerKey,  \* the key of the server-level pool (databaseName = "")
    Pools,      \* identities for pgxpool.Pool objects (bound: live objects)
    None,       \* "no pool", "nobody holds the lock"
    Cap,        \* max_connections_per_server
    MaxCfg      \* bound: how many versions of the connection row exist

ASSUME PoolAssumption ==
    /\ IsFiniteSet(Procs) /\ IsFiniteSet(Pools)
    /\ Reloader \notin Procs
    /\ ServerKey \in Keys
    /\ None \notin Pools \cup Procs \cup {Reloader}
    /\ Cap \in Nat \ {0}
    /\ MaxCfg \in Nat \ {0}

VARIABLES
    cfg,        \* the version (updated_at) of the connection row
    pools,      \* m.pools: key -> pool object or None
    updatedAt,  \* m.poolUpdatedAt, 0 when absent
    sem,        \* len(semaphore)
    lock,       \* holder of the connection's lock
    pc,         \* where each probe goroutine is
    key,        \* the pool key of its current acquisition
    snap,       \* the version of the row it read for this execution, or 0
    ref,        \* the pool object it is working on, or None
    excess,     \* its local idle / excess in evictIdleConnections
    others,     \* its local list of other pools in evictIdleConnections
    after,      \* where it goes once it has given its slot back
    closing,    \* pools it removed from the map and has still to close
    isOpen,     \* pgxpool: object -> not closed
    idle,       \* pgxpool: object -> idle connections
    ver,        \* pgxpool: object -> version of the row it connects with,
                \*   0 once closed
    rpc,        \* where the reloader is
    rsnap,      \* version of the row it read, 0 when no longer monitored
    down        \* shutdown: "up", "stopping" once the context of every probe
                \*   is cancelled, "closed" once poolManager.Close is called

poolVars == <<pools, updatedAt, isOpen, idle, ver>>
probeVars == <<pc, key, snap, ref, excess, others, after>>
reloadVars == <<rpc, rsnap, down>>
vars == <<cfg, sem, lock, closing, poolVars, probeVars, reloadVars>>

-----------------------------------------------------------------------------
(* Derived state *)

\* The positions in which a goroutine owns one of the semaphore's slots.
SlotPCs == {"lock", "stat", "count", "room", "evict", "dial", "create",
            "publish", "acquire", "opening", "pending", "settled", "using",
            "giveback"}

Holders == {p \in Procs : pc[p] \in SlotPCs}

\* The positions under the connection's lock (acquireWithinCap).
LockPCs == {"stat", "count", "room", "evict", "dial", "create", "publish",
            "acquire", "opening"}

\* pool.Stat().ConstructingConns() > 0 is Constructing(o) # {}.
Constructing(o) ==
    {p \in Procs : ref[p] = o /\ pc[p] \in {"create", "opening", "pending"}}

Borrowers(o) == {p \in Procs : ref[p] = o /\ pc[p] = "using"}

\* pool.Stat().TotalConns()
Total(o) ==
    idle[o] + Cardinality(Constructing(o)) + Cardinality(Borrowers(o))

Mapped == {pools[k] : k \in Keys} \ {None}

\* The idle connections of the pools S, each as a pair <<pool, number>>.
IdleConns(S) == UNION {{o} \X (1..idle[o]) : o \in S}

IdleIn(S) == Cardinality(IdleConns(S))

\* The connections of the pools S that are open or being opened.
OpenIn(S) ==
    IdleIn(S) + Cardinality(UNION {Constructing(o) \cup Borrowers(o) : o \in S})

Goto(p, l) == pc' = [pc EXCEPT ![p] = l]

-----------------------------------------------------------------------------
Init ==
    /\ cfg = 1
    /\ pools = [k \in Keys |-> None]
    /\ updatedAt = 0
    /\ sem = 0
    /\ lock = None
    /\ pc = [p \in Procs |-> "idle"]
    /\ key = [p \in Procs |-> ServerKey]
    /\ snap = [p \in Procs |-> 0]
    /\ ref = [p \in Procs |-> None]
    /\ excess = [p \in Procs |-> 0]
    /\ others = [p \in Procs |-> {}]
    /\ after = [p \in Procs |-> "idle"]
    /\ closing = [x \in Procs \cup {Reloader} |-> {}]
    /\ isOpen = [o \in Pools |-> FALSE]
    /\ idle = [o \in Pools |-> 0]
    /\ ver = [o \in Pools |-> 0]
    /\ rpc = "idle"
    /\ rsnap = 0
    /\ down = "up"

-----------------------------------------------------------------------------
(* A probe execution: scheduler.executeProbeForConnection *)

\* The operator edits the connection: its row gets a new updated_at.
UpdateConnection ==
    /\ cfg < MaxCfg
    /\ cfg' = cfg + 1
    /\ UNCHANGED <<sem, lock, closing, poolVars, probeVars, reloadVars>>

\* A tick: the goroutine re-reads the row, then calls CheckConnectionUpdated.
BeginProbe(p) ==
    /\ pc[p] = "idle" /\ down = "up"
    /\ snap' = [snap EXCEPT ![p] = cfg]
    /\ key' = [key EXCEPT ![p] = ServerKey]
    /\ Goto(p, "check")
    /\ UNCHANGED <<cfg, sem, lock, closing, poolVars, ref, excess, others,
                   after, reloadVars>>

\* Takes the pools of the keys ks out of the map; caller x will close them.
Unmap(x, ks) ==
    /\ pools' = [k \in Keys |-> IF k \in ks THEN None ELSE pools[k]]
    /\ closing' = [closing EXCEPT ![x] = {pools[k] : k \in ks} \ {None}]

CheckConnectionUpdated(p) ==
    /\ pc[p] = "check"
    /\ Goto(p, "slot")
    /\ IF updatedAt \in {0, snap[p]}
       THEN UNCHANGED <<pools, closing, updatedAt>>
       ELSE Unmap(p, Keys) /\ updatedAt' = 0
    /\ UNCHANGED <<cfg, sem, lock, isOpen, idle, ver, key, snap, ref, excess,
                   others, after, reloadVars>>

\* A database-scoped probe moves on to the next database with the same row.
NextDatabase(p) ==
    /\ pc[p] = "between"
    /\ \E k \in Keys \ {ServerKey} : key' = [key EXCEPT ![p] = k]
    /\ Goto(p, "slot")
    /\ UNCHANGED <<cfg, sem, lock, closing, poolVars, snap, ref, excess,
                   others, after, reloadVars>>

\* The execution is over: after the last database, or after an error that
\* does not change the recorded connection error.
EndProbe(p) ==
    /\ pc[p] \in {"between", "failed", "ending"}
    /\ closing[p] = {}
    /\ Goto(p, "idle")
    /\ snap' = [snap EXCEPT ![p] = 0]
    /\ key' = [key EXCEPT ![p] = ServerKey]
    /\ UNCHANGED <<cfg, sem, lock, closing, poolVars, ref, excess, others,
                   after, reloadVars>>

\* A new connection error: the server-level pool is removed and closed.
RemovePool(p) ==
    /\ pc[p] = "failed" /\ closing[p] = {}
    /\ pools[ServerKey] # None
    /\ Unmap(p, {ServerKey})
    /\ updatedAt' = 0
    /\ Goto(p, "ending")
    /\ UNCHANGED <<cfg, sem, lock, isOpen, idle, ver, key, snap, ref, excess,
                   others, after, reloadVars>>

-----------------------------------------------------------------------------
(* GetConnectionForDatabase: the slot, then acquireWithinCap under the lock *)

\* Where a failed acquisition leads once the slot is back: a failure on the
\* server pool ends the execution (and may remove the pool), one on another
\* database is logged and the loop over the databases continues.
AfterError(p) == IF key[p] = ServerKey THEN "failed" ELSE "between"

\* When the context has ended the loop over the databases stops too.  Past
\* its deadline an execution returns without a look at the error; only one
\* that Stop has cancelled goes on as after any other error.
AfterTimeout(p) ==
    IF key[p] = ServerKey /\ down = "stopping" THEN "failed" ELSE "ending"

\* A "closed pool" error is not a connection error of this probe's own.
AfterClosedPool(p) == IF key[p] = ServerKey THEN "ending" ELSE "between"

\* Mutant: a slot is taken although the semaphore is full.
acquireSlot_unbounded(p) ==
    /\ pc[p] = "slot" /\ closing[p] = {}
    /\ sem' = sem + 1
    /\ Goto(p, "lock")
    /\ UNCHANGED <<cfg, lock, closing, poolVars, key, snap, ref, excess,
                   others, after, reloadVars>>

acquireSlot(p) ==
    /\ pc[p] = "slot" /\ closing[p] = {}
    /\ sem < Cap
    /\ sem' = sem + 1
    /\ Goto(p, "lock")
    /\ UNCHANGED <<cfg, lock, closing, poolVars, key, snap, ref, excess,
                   others, after, reloadVars>>

\* Mutant: the error path releases a slot that was never acquired.
slotTimeout_releases(p) ==
    /\ pc[p] = "slot" /\ closing[p] = {}
    /\ after' = [after EXCEPT ![p] = AfterTimeout(p)]
    /\ Goto(p, "giveback")
    /\ UNCHANGED <<cfg, sem, lock, closing, poolVars, key, snap, ref, excess,
                   others, reloadVars>>

\* ctx.Done() whilst waiting for a slot.
slotTimeout(p) ==
    /\ pc[p] = "slot" /\ closing[p] = {}
    /\ Goto(p, AfterTimeout(p))
    /\ UNCHANGED <<cfg, sem, lock, closing, poolVars, key, snap, ref, excess,
                   others, after, reloadVars>>

\* Mutant: the lookup and the creation are not under the connection's lock.
lockAndLookup_unlocked(p) ==
    /\ pc[p] = "lock"
    /\ lock' = p
    /\ ref' = [ref EXCEPT ![p] = pools[key[p]]]
    /\ Goto(p, "stat")
    /\ UNCHANGED <<cfg, sem, closing, poolVars, key, snap, excess, others,
                   after, reloadVars>>

\* The connection's lock, and the lookup of the pool under m.mu.
lockAndLookup(p) ==
    /\ pc[p] = "lock" /\ lock = None
    /\ lock' = p
    /\ ref' = [ref EXCEPT ![p] = pools[key[p]]]
    /\ Goto(p, "stat")
    /\ UNCHANGED <<cfg, sem, closing, poolVars, key, snap, excess, others,
                   after, reloadVars>>

\* !exists || pool.Stat().IdleConns() == 0
statPool(p) ==
    /\ pc[p] = "stat"
    /\ IF ref[p] = None \/ (ref[p] # None /\ idle[ref[p]] = 0)
       THEN Goto(p, "count")
       ELSE Goto(p, "acquire")
    /\ UNCHANGED <<cfg, sem, lock, closing, poolVars, key, snap, ref, excess,
                   others, after, reloadVars>>

\* evictIdleConnections, under m.mu: the idle connections of every pool in
\* the map.  A connection returned meanwhile may or may not be counted.
countIdle(p) ==
    /\ pc[p] = "count"
    /\ excess' = [excess EXCEPT ![p] = IdleIn(Mapped)]
    /\ others' = [others EXCEPT ![p] = Mapped \ {pools[key[p]]}]
    /\ Goto(p, "room")
    /\ UNCHANGED <<cfg, sem, lock, closing, poolVars, key, snap, ref, after,
                   reloadVars>>

\* excess := idle - (cap(sem) - len(sem)), after m.mu has been released.
compareRoom(p) ==
    /\ pc[p] = "room"
    /\ excess' = [excess EXCEPT ![p] = @ - (Cap - sem)]
    /\ Goto(p, "evict")
    /\ UNCHANGED <<cfg, sem, lock, closing, poolVars, key, snap, ref, others,
                   after, reloadVars>>

\* Mutant: every connection taken with AcquireAllIdle is released again.
evictFrom_nothing(p) ==
    /\ pc[p] = "evict"
    /\ excess[p] > 0
    /\ \E o \in others[p] : others' = [others EXCEPT ![p] = @ \ {o}]
    /\ UNCHANGED <<cfg, sem, lock, closing, poolVars, pc, key, snap, ref,
                   excess, after, reloadVars>>

\* AcquireAllIdle on one of the other pools: as many of its idle connections
\* as needed are hijacked and closed, the rest released again.
evictFrom(p) ==
    /\ pc[p] = "evict"
    /\ excess[p] > 0
    /\ \E o \in others[p] :
          LET n == IF idle[o] < excess[p] THEN idle[o] ELSE excess[p] IN
          /\ idle' = [idle EXCEPT ![o] = @ - n]
          /\ excess' = [excess EXCEPT ![p] = @ - n]
          /\ others' = [others EXCEPT ![p] = @ \ {o}]
    /\ UNCHANGED <<cfg, sem, lock, closing, pools, updatedAt, isOpen, ver,
                   pc, key, snap, ref, after, reloadVars>>

\* No excess or no other pool is left.
evictDone(p) ==
    /\ pc[p] = "evict"
    /\ excess[p] <= 0 \/ others[p] = {}
    /\ excess' = [excess EXCEPT ![p] = 0]
    /\ others' = [others EXCEPT ![p] = {}]
    /\ Goto(p, IF ref[p] = None THEN "dial" ELSE "acquire")
    /\ UNCHANGED <<cfg, sem, lock, closing, poolVars, key, snap, ref, after,
                   reloadVars>>

\* An object nobody refers to: a new pgxpool.Pool.
Fresh(o) ==
    /\ ~isOpen[o]
    /\ \A p \in Procs : ref[p] # o /\ o \notin others[p]
    /\ \A x \in Procs \cup {Reloader} : o \notin closing[x]

\* createMonitoredPool: a new pool opens the connection it tests itself with.
dialPool(p) ==
    /\ pc[p] = "dial"
    /\ \E o \in Pools :
          /\ Fresh(o)
          /\ isOpen' = [isOpen EXCEPT ![o] = TRUE]
          /\ ver' = [ver EXCEPT ![o] = snap[p]]
          /\ ref' = [ref EXCEPT ![p] = o]
    /\ Goto(p, "create")
    /\ UNCHANGED <<cfg, sem, lock, closing, pools, updatedAt, idle, key, snap,
                   excess, others, after, reloadVars>>

\* Connect and ping succeed; the test connection is released into the pool.
dialOK(p) ==
    /\ pc[p] = "create"
    /\ idle' = [idle EXCEPT ![ref[p]] = 1]
    /\ Goto(p, "publish")
    /\ UNCHANGED <<cfg, sem, lock, closing, pools, updatedAt, isOpen, ver,
                   key, snap, ref, excess, others, after, reloadVars>>

\* Leaving acquireWithinCap with an error: the deferred Unlock.
failAcquire(p, next) ==
    /\ lock' = None
    /\ ref' = [ref EXCEPT ![p] = None]
    /\ after' = [after EXCEPT ![p] = next]
    /\ Goto(p, "giveback")

\* The connection string cannot be built, or connect or ping fails or times
\* out: the new pool, if any, is closed before the error is returned.
dialFail(p) ==
    /\ pc[p] \in {"dial", "create"}
    /\ IF pc[p] = "create"
       THEN /\ isOpen' = [isOpen EXCEPT ![ref[p]] = FALSE]
            /\ ver' = [ver EXCEPT ![ref[p]] = 0]
       ELSE UNCHANGED <<isOpen, ver>>
    /\ failAcquire(p, AfterError(p))
    /\ UNCHANGED <<cfg, sem, closing, pools, updatedAt, idle, key, snap,
                   excess, others, reloadVars>>

\* createPool records the pool under m.mu.
publishPool(p) ==
    /\ pc[p] = "publish"
    /\ pools' = [pools EXCEPT ![key[p]] = ref[p]]
    /\ updatedAt' = snap[p]
    /\ Goto(p, "acquire")
    /\ UNCHANGED <<cfg, sem, lock, closing, isOpen, idle, ver, key, snap, ref,
                   excess, others, after, reloadVars>>

-----------------------------------------------------------------------------
(* pool.Acquire, still under the connection's lock *)

\* An idle connection is handed out; acquireWithinCap returns and unlocks.
acquireIdle(p) ==
    /\ pc[p] = "acquire"
    /\ isOpen[ref[p]] /\ idle[ref[p]] > 0
    /\ idle' = [idle EXCEPT ![ref[p]] = @ - 1]
    /\ lock' = None
    /\ Goto(p, "using")
    /\ UNCHANGED <<cfg, sem, closing, pools, updatedAt, isOpen, ver, key, snap,
                   ref, excess, others, after, reloadVars>>

\* None is idle: the pool starts to open one, up to its own MaxConns.
acquireOpen(p) ==
    /\ pc[p] = "acquire"
    /\ isOpen[ref[p]] /\ idle[ref[p]] = 0 /\ Total(ref[p]) < Cap
    /\ Goto(p, "opening")
    /\ UNCHANGED <<cfg, sem, lock, closing, poolVars, key, snap, ref, excess,
                   others, after, reloadVars>>

\* ErrClosedPool: the pool was removed and closed since the lookup.
acquireClosed(p) ==
    /\ pc[p] = "acquire" /\ ~isOpen[ref[p]]
    /\ failAcquire(p, AfterClosedPool(p))
    /\ UNCHANGED <<cfg, sem, closing, poolVars, key, snap, excess, others,
                   reloadVars>>

\* Whether the caller keeps its slot: ctx.Err() != nil and the pool has a
\* connection under construction, whichever acquisition started it.
expire(p) ==
    /\ lock' = None
    /\ after' = [after EXCEPT ![p] = AfterTimeout(p)]
    /\ IF Constructing(ref[p]) \ {p} # {}
       THEN Goto(p, "settled") /\ UNCHANGED ref
       ELSE Goto(p, "giveback") /\ ref' = [ref EXCEPT ![p] = None]

\* The context ends before Acquire starts anything.
acquireExpired(p) ==
    /\ pc[p] = "acquire"
    /\ expire(p)
    /\ UNCHANGED <<cfg, sem, closing, poolVars, key, snap, excess, others,
                   reloadVars>>

openOK(p) ==
    /\ pc[p] = "opening" /\ isOpen[ref[p]]
    /\ lock' = None
    /\ Goto(p, "using")
    /\ UNCHANGED <<cfg, sem, closing, poolVars, key, snap, ref, excess, others,
                   after, reloadVars>>

\* The server refuses the connection, or Close cancelled the construction.
openFail(p) ==
    /\ pc[p] = "opening"
    /\ failAcquire(p, AfterError(p)) \/ expire(p)
    /\ UNCHANGED <<cfg, sem, closing, poolVars, key, snap, excess, others,
                   reloadVars>>

\* Mutant: the slot is released at once, the construction still running.
openTimeout_releases(p) ==
    /\ pc[p] = "opening"
    /\ lock' = None
    /\ sem' = sem - 1
    /\ after' = [after EXCEPT ![p] = "ending"]
    /\ Goto(p, "pending")
    /\ UNCHANGED <<cfg, closing, poolVars, key, snap, ref, excess, others,
                   reloadVars>>

\* The context ends whilst the pool is opening the connection: Acquire
\* returns, the construction goes on, the slot passes to a goroutine running
\* releaseSlotAfterConstruction.
openTimeout(p) ==
    /\ pc[p] = "opening"
    /\ lock' = None
    /\ after' = [after EXCEPT ![p] = "ending"]
    /\ Goto(p, "pending")
    /\ UNCHANGED <<cfg, sem, closing, poolVars, key, snap, ref, excess, others,
                   reloadVars>>

\* The construction ends: the connection becomes idle, or is destroyed
\* because it failed or the pool was closed.
constructed(p) ==
    /\ pc[p] = "pending"
    /\ \/ isOpen[ref[p]] /\ idle' = [idle EXCEPT ![ref[p]] = @ + 1]
       \/ UNCHANGED idle
    /\ Goto(p, "settled")
    /\ UNCHANGED <<cfg, sem, lock, closing, pools, updatedAt, isOpen, ver, key,
                   snap, ref, excess, others, after, reloadVars>>

\* releaseSlotAfterConstruction finds no connection under construction.
releaseSlotAfterConstruction(p) ==
    /\ pc[p] = "settled"
    /\ Constructing(ref[p]) = {}
    /\ ref' = [ref EXCEPT ![p] = None]
    /\ Goto(p, "giveback")
    /\ UNCHANGED <<cfg, sem, lock, closing, poolVars, key, snap, excess,
                   others, after, reloadVars>>

-----------------------------------------------------------------------------
(* ReturnConnection, and every release of a slot *)

\* Mutant: executeProbeOnDatabase forgets to return its connection.
ReturnConnection_forgotten(p) ==
    /\ pc[p] = "using" /\ key[p] = ServerKey
    /\ \/ isOpen[ref[p]] /\ idle' = [idle EXCEPT ![ref[p]] = @ + 1]
       \/ UNCHANGED idle
    /\ ref' = [ref EXCEPT ![p] = None]
    /\ after' = [after EXCEPT ![p] = "between"]
    /\ Goto(p, "giveback")
    /\ UNCHANGED <<cfg, sem, lock, closing, pools, updatedAt, isOpen, ver, key,
                   snap, excess, others, reloadVars>>

\* conn.Release(): back to the pool, or destroyed when the pool is closed or
\* the connection is broken, busy or expired.
ReturnConnection(p) ==
    /\ pc[p] = "using"
    /\ \/ isOpen[ref[p]] /\ idle' = [idle EXCEPT ![ref[p]] = @ + 1]
       \/ UNCHANGED idle
    /\ ref' = [ref EXCEPT ![p] = None]
    /\ after' = [after EXCEPT ![p] = "between"]
    /\ Goto(p, "giveback")
    /\ UNCHANGED <<cfg, sem, lock, closing, pools, updatedAt, isOpen, ver, key,
                   snap, excess, others, reloadVars>>

\* <-sem
releaseSlot(p) ==
    /\ pc[p] = "giveback" /\ sem > 0
    /\ sem' = sem - 1
    /\ Goto(p, after[p])
    /\ after' = [after EXCEPT ![p] = "idle"]
    /\ key' = [key EXCEPT ![p] = ServerKey]
    /\ UNCHANGED <<cfg, lock, closing, poolVars, snap, ref, excess, others,
                   reloadVars>>

-----------------------------------------------------------------------------
(* Closing pools, outside every lock *)

\* pool.Close(): the pool refuses acquisitions and destroys its idle
\* connections.  The pools of one caller are closed one after the other.
closePool(x) ==
    /\ \A o \in closing[x] : isOpen[o]
    /\ \E o \in closing[x] :
          /\ isOpen' = [isOpen EXCEPT ![o] = FALSE]
          /\ idle' = [idle EXCEPT ![o] = 0]
          /\ ver' = [ver EXCEPT ![o] = 0]
    /\ UNCHANGED <<cfg, sem, lock, closing, pools, updatedAt, probeVars,
                   reloadVars>>

\* Close returns once every connection borrowed from the pool is back.
closeReturns(x) ==
    /\ \E o \in closing[x] :
          /\ ~isOpen[o]
          /\ Borrowers(o) = {} /\ Constructing(o) = {}
          /\ closing' = [closing EXCEPT ![x] = @ \ {o}]
    /\ UNCHANGED <<cfg, sem, lock, poolVars, probeVars, reloadVars>>

\* pgxpool's health check closes a connection idle for too long.
idleExpires(o) ==
    /\ idle[o] > 0
    /\ idle' = [idle EXCEPT ![o] = @ - 1]
    /\ UNCHANGED <<cfg, sem, lock, closing, pools, updatedAt, isOpen, ver,
                   probeVars, reloadVars>>

-----------------------------------------------------------------------------
(* The configuration reload (loadConfigs) and shutdown *)

\* The reload reads the connections, then SyncPools removes every pool of a
\* connection that is no longer monitored.
SyncPools ==
    /\ rpc = "idle" /\ down # "closed" /\ closing[Reloader] = {}
    /\ \/ rsnap' = cfg /\ UNCHANGED <<pools, updatedAt, closing>>
       \/ /\ rsnap' = 0
          /\ Unmap(Reloader, Keys)
          /\ updatedAt' = IF Mapped = {} THEN updatedAt ELSE 0
    /\ rpc' = "synced"
    /\ UNCHANGED <<cfg, sem, lock, isOpen, idle, ver, probeVars, down>>

\* Mutant: no hash is compared, only the removal of connections is noticed.
InvalidateChangedPools_never ==
    /\ rpc = "synced" /\ closing[Reloader] = {}
    /\ rpc' = "idle" /\ rsnap' = 0
    /\ UNCHANGED <<cfg, sem, lock, closing, poolVars, probeVars, down>>

\* Every pool built from other parameters is removed; updatedAt is kept.
InvalidateChangedPools ==
    /\ rpc = "synced" /\ closing[Reloader] = {}
    /\ Unmap(Reloader, {k \in Keys : rsnap # 0 /\ pools[k] # None
                                      /\ ver[pools[k]] # rsnap})
    /\ rpc' = "idle" /\ rsnap' = 0
    /\ UNCHANGED <<cfg, sem, lock, updatedAt, isOpen, idle, ver, probeVars,
                   down>>

\* The scheduler's Stop: no execution starts any more, and the contexts of
\* those in flight are cancelled, which each of them notices in its own time.
Stop ==
    /\ down = "up"
    /\ down' = "stopping"
    /\ UNCHANGED <<cfg, sem, lock, closing, poolVars, probeVars, rpc, rsnap>>

\* main: the scheduler has stopped, so no probe is running; slots may still
\* be held for connections under construction.
Close ==
    /\ down = "stopping" /\ rpc = "idle" /\ closing[Reloader] = {}
    /\ \A p \in Procs : pc[p] \in {"idle", "pending", "settled"}
    /\ Unmap(Reloader, Keys)
    /\ down' = "closed"
    /\ UNCHANGED <<cfg, sem, lock, updatedAt, isOpen, idle, ver, probeVars,
                   rpc, rsnap>>

-----------------------------------------------------------------------------
\* The steps of GetConnectionForDatabase up to the connection or the error.
Get(p) ==
    \/ acquireSlot(p) \/ slotTimeout(p) \/ lockAndLookup(p) \/ statPool(p)
    \/ countIdle(p) \/ compareRoom(p) \/ evictFrom(p) \/ evictDone(p)
    \/ dialPool(p) \/ dialOK(p) \/ dialFail(p) \/ publishPool(p)
    \/ acquireIdle(p) \/ acquireOpen(p) \/ acquireClosed(p)
    \/ acquireExpired(p) \/ openOK(p) \/ openFail(p) \/ openTimeout(p)

\* The steps that give a connection or a slot back.
GiveBack(p) ==
    \/ ReturnConnection(p) \/ releaseSlot(p) \/ constructed(p)
    \/ releaseSlotAfterConstruction(p)

Probe(p) ==
    \/ CheckConnectionUpdated(p) \/ NextDatabase(p) \/ EndProbe(p)
    \/ RemovePool(p) \/ Get(p) \/ GiveBack(p)

Closer(x) == closePool(x) \/ closeReturns(x)

Next ==
    \/ UpdateConnection
    \/ \E p \in Procs : BeginProbe(p) \/ Probe(p)
    \/ \E x \in Procs \cup {Reloader} : Closer(x)
    \/ \E o \in Pools : idleExpires(o)
    \/ SyncPools \/ InvalidateChangedPools \/ Stop \/ Close

Spec == Init /\ [][Next]_vars

(***************************************************************************)
(* Fairness.  A goroutine that can run eventually does; every wait of a    *)
(* probe is bounded by its execution context or by connect_timeout, so the *)
(* steps that end a wait are among them.  The connection's lock is a       *)
(* sync.Mutex, which is starvation free, hence strong fairness on taking   *)
(* it.  The list of databases a probe visits is finite, hence strong       *)
(* fairness on the end of an execution.  The reload runs on a ticker until *)
(* Stop; main then closes the pools once the last reload is over.          *)
(***************************************************************************)
FairSpec ==
    /\ Spec
    /\ \A p \in Procs : /\ WF_vars(Probe(p))
                        /\ SF_vars(EndProbe(p))
                        /\ SF_vars(lockAndLookup(p))
    /\ \A x \in Procs \cup {Reloader} : WF_vars(Closer(x))
    /\ WF_vars(down = "up" /\ SyncPools) /\ WF_vars(InvalidateChangedPools)
    /\ SF_vars(Close)

-----------------------------------------------------------------------------
(* Properties *)

TypeOK ==
    /\ cfg \in 1..MaxCfg
    /\ pools \in [Keys -> Pools \cup {None}]
    /\ updatedAt \in 0..MaxCfg
    /\ sem \in 0..Cap
    /\ lock \in Procs \cup {None}
    /\ pc \in [Procs -> SlotPCs \cup
                  {"idle", "check", "slot", "between", "failed", "ending"}]
    /\ key \in [Procs -> Keys]
    /\ snap \in [Procs -> 0..MaxCfg]
    /\ ref \in [Procs -> Pools \cup {None}]
    /\ excess \in [Procs -> Int]
    /\ others \in [Procs -> SUBSET Pools]
    /\ after \in [Procs -> {"idle", "between", "failed", "ending"}]
    /\ closing \in [Procs \cup {Reloader} -> SUBSET Pools]
    /\ isOpen \in [Pools -> BOOLEAN]
    /\ idle \in [Pools -> Nat]
    /\ ver \in [Pools -> 0..MaxCfg]
    /\ rpc \in {"idle", "synced"}
    /\ rsnap \in 0..MaxCfg
    /\ down \in {"up", "stopping", "closed"}

\* Slots are conserved on every path of GetConnectionForDatabase, the error
\* and timeout paths included: the semaphore's length is exactly the number
\* of goroutines that owe it a receive.
SlotsConserved == sem = Cardinality(Holders)

\* Connections in use, or being opened for a probe, in whatever pool, the
\* removed and closed ones included, never exceed the cap: every one belongs
\* to the holder of a slot (evictIdleConnections relies on this).
Busy == {p \in Procs : pc[p] \in {"create", "opening", "pending", "using"}}
BusyWithinCap == Cardinality(Busy) <= Cap

\* The goroutine that has created a pool and not yet recorded it in the map.
Building(o) == {p \in Procs : ref[p] = o /\ pc[p] \in {"create", "publish"}}

\* No pool is lost: an open pool is in the map, is being built, or will be
\* closed by whoever took it out of the map (RemovePool, SyncPools and the
\* others collect what they remove; createPool overwrites no entry).
NoPoolLost ==
    \A o \in Pools : isOpen[o] =>
        \/ o \in Mapped
        \/ \E x \in Procs \cup {Reloader} : o \in closing[x]
        \/ Building(o) # {}

\* No pool is in two places: two keys never share one, nobody closes a pool
\* in the map, and no pool is closed by two goroutines.
NoPoolShared ==
    /\ \A k, l \in Keys : pools[k] # None /\ pools[k] = pools[l] => k = l
    /\ \A x \in Procs \cup {Reloader} : closing[x] \cap Mapped = {}
    /\ \A x, y \in Procs \cup {Reloader} :
          closing[x] \cap closing[y] # {} => x = y
    /\ \A k \in Keys : pools[k] # None => isOpen[pools[k]]

\* Every pool object has exactly one owner that will close it, whatever the
\* interleaving of creation, removal and reload.
PoolsAccounted == NoPoolLost /\ NoPoolShared

\* The bound the eviction really guarantees for the pools in the map: the
\* idle count may be out of date by the Cap - 1 connections the other slot
\* holders can return before the slots are counted.
MappedWithinBound == OpenIn(Mapped) <= 2 * Cap - 1

\* Liveness: Close on a removed pool returns, though it waits for borrowers
\* that may in turn be waiting for a slot, the lock or another pool.
ClosesComplete ==
    \A x \in Procs \cup {Reloader} : closing[x] # {} ~> closing[x] = {}

\* Liveness: once the row no longer changes, no pool built from an older row
\* stays in use, whatever updated_at was recorded for it.
StalePoolsReplaced ==
    \A v \in 1..MaxCfg :
        <>[](cfg = v) =>
            <>[](\A k \in Keys : pools[k] # None => ver[pools[k]] = v)

=============================================================================
