--------------------------- MODULE ProbeScheduler ---------------------------
(***************************************************************************)
(* The collector's probe scheduler, collector/src/scheduler/scheduler.go:  *)
(* one goroutine per (connection, probe) pair that runs the probe at its   *)
(* interval, the two levels of counting semaphores an execution goes       *)
(* through, the reload that starts goroutines and prunes semaphores whilst *)
(* executions are in flight, and the shutdown.                             *)
(*                                                                         *)
(* What an execution does with the pools of its connection is the subject  *)
(* of MonitoredPool; here an execution only holds its slots for a while.   *)
(* Timers are abstracted: a delay or an interval may elapse at any time.   *)
(***************************************************************************)
EXTENDS Integers, FiniteSets

CONSTANTS
    Conns,       \* monitored connections
    Names,       \* probe names
    Intervals,   \* collection_interval_seconds, positive
    MaxProbes,   \* max_concurrent_probes
    MaxPerConn,  \* max_concurrent_probes_per_connection, after clamping
    MaxCopies,   \* bound: goroutines of one probe alive at once
    MaxChans,    \* bound: semaphores of one connection still referred to
    MaxEdits     \* bound: changes the operator makes

ASSUME SchedulerAssumption ==
    /\ IsFiniteSet(Conns) /\ IsFiniteSet(Names)
    /\ Intervals \subseteq Nat \ {0} /\ Intervals # {}
    /\ MaxProbes \in Nat \ {0}
    /\ MaxPerConn \in 1..MaxProbes
    /\ MaxCopies \in Nat \ {0} /\ MaxChans \in Nat \ {0} /\ MaxEdits \in Nat

Probes == Conns \X Names
Goroutines == Probes \X (1..MaxCopies)

probeOf(g) == g[1]
connOf(g) == g[1][1]
nameOf(p) == p[2]

VARIABLES
    interval,    \* probe_configs, server row: collection_interval_seconds
    enabled,     \* probe_configs, server row: is_enabled
    globalOn,    \* probe_configs, global row: is_enabled
    monitored,   \* connections: is_monitored, not deleted
    edits,       \* how many changes the operator has made
    probesByConn, \* probe -> interval it was created with, 0 when absent
    known,       \* the connections with an entry in probesByConn
    connSlots,   \* connection -> its semaphore, 0 before first use
    permits,     \* connection -> semaphore -> length
    probeSlots,  \* length of the global semaphore
    pc,          \* goroutine -> position, "none" when not running
    config,      \* goroutine -> interval of the probe it was started with
    slots,       \* goroutine -> semaphore it keeps for the release, or 0
    rpc,         \* where the reload is
    rows,        \* reload: intervals of the enabled server rows it read
    globals,     \* reload: names whose global row is enabled
    stopped      \* Stop has cancelled the context and closed shutdownChan

rowVars == <<interval, enabled, globalOn, monitored, edits>>
semVars == <<connSlots, permits, probeSlots>>
goVars == <<pc, config, slots>>
reloadVars == <<rpc, rows, globals>>
mapVars == <<probesByConn, known>>
vars == <<rowVars, mapVars, semVars, goVars, reloadVars, stopped>>

Goto(g, l) == pc' = [pc EXCEPT ![g] = l]

\* Positions in which a goroutine owns a permit of its connection, and those
\* in which it owns a global slot as well.
PermitPCs == {"permitted", "queued", "both", "running"}
SlotPCs == {"both", "running"}

Init ==
    /\ interval \in [Probes -> Intervals]
    /\ enabled = [p \in Probes |-> TRUE]
    /\ globalOn = [n \in Names |-> TRUE]
    /\ monitored = [c \in Conns |-> TRUE]
    /\ edits = 0
    /\ probesByConn = [p \in Probes |-> 0]
    /\ known = {}
    /\ connSlots = [c \in Conns |-> 0]
    /\ permits = [c \in Conns |-> [k \in 1..MaxChans |-> 0]]
    /\ probeSlots = 0
    /\ pc = [g \in Goroutines |-> "none"]
    /\ config = [g \in Goroutines |-> 0]
    /\ slots = [g \in Goroutines |-> 0]
    /\ rpc = "idle"
    /\ rows = [p \in Probes |-> 0]
    /\ globals = {}
    /\ stopped = FALSE

-----------------------------------------------------------------------------
(* The operator *)

edit ==
    /\ edits < MaxEdits
    /\ edits' = edits + 1
    /\ UNCHANGED <<mapVars, semVars, goVars, reloadVars, stopped>>

SetInterval(p) ==
    /\ edit
    /\ \E v \in Intervals \ {interval[p]} :
          interval' = [interval EXCEPT ![p] = v]
    /\ UNCHANGED <<enabled, globalOn, monitored>>

SetEnabled(p) ==
    /\ edit
    /\ enabled' = [enabled EXCEPT ![p] = ~@]
    /\ UNCHANGED <<interval, globalOn, monitored>>

SetGlobal(n) ==
    /\ edit
    /\ globalOn' = [globalOn EXCEPT ![n] = ~@]
    /\ UNCHANGED <<interval, enabled, monitored>>

SetMonitored(c) ==
    /\ edit
    /\ monitored' = [monitored EXCEPT ![c] = ~@]
    /\ UNCHANGED <<interval, enabled, globalOn>>

-----------------------------------------------------------------------------
(* loadConfigs *)

\* LoadProbeConfigs reads the enabled rows.
readConfigs ==
    /\ rpc = "idle" /\ ~stopped
    /\ rows' = [p \in Probes |-> IF enabled[p] THEN interval[p] ELSE 0]
    /\ globals' = {n \in Names : globalOn[n]}
    /\ rpc' = "read"
    /\ UNCHANGED <<rowVars, mapVars, semVars, goVars, stopped>>

\* The monitored connections cannot be read: the reload is abandoned.
loadFails ==
    /\ rpc = "read"
    /\ rpc' = "idle"
    /\ rows' = [p \in Probes |-> 0] /\ globals' = {}
    /\ UNCHANGED <<rowVars, mapVars, semVars, goVars, stopped>>

\* The pairs the loop visits: a global row is enabled and the connection is
\* monitored.  Without an enabled server row EnsureProbeConfig returns the
\* row as it is now, whether enabled or not, or fails.
visited == {p \in Probes : monitored[p[1]] /\ nameOf(p) \in globals}

loaded(p) == IF rows[p] # 0 THEN rows[p] ELSE interval[p]

Free(p) == {i \in 1..MaxCopies : pc[<<p, i>>] = "none"}

\* Under probesMutex: the probes and the semaphores of connections that are
\* no longer monitored are dropped; a probe that is new or whose interval
\* has changed gets a new goroutine.
loadConfigs(failed) ==
    LET gone == {c \in Conns : ~monitored[c]}
        changed == {p \in visited \ failed : probesByConn[p] # loaded(p)}
        started == {<<p, CHOOSE i \in Free(p) : TRUE>> : p \in changed}
    IN  /\ rpc = "read"
        /\ failed \subseteq {p \in visited : rows[p] = 0}
        /\ \A p \in changed : Free(p) # {}
        /\ probesByConn' = [p \in Probes |->
                               IF p[1] \in gone THEN 0
                               ELSE IF p \in changed THEN loaded(p)
                               ELSE probesByConn[p]]
        /\ connSlots' = [c \in Conns |->
                            IF c \in gone \cap known THEN 0 ELSE connSlots[c]]
        /\ known' = Conns \ gone
        /\ pc' = [g \in Goroutines |-> IF g \in started THEN "start" ELSE pc[g]]
        /\ config' = [g \in Goroutines |->
                         IF g \in started THEN loaded(probeOf(g)) ELSE config[g]]
        /\ rpc' = "idle"
        /\ rows' = [p \in Probes |-> 0] /\ globals' = {}
        /\ UNCHANGED <<rowVars, permits, probeSlots, slots, stopped>>

-----------------------------------------------------------------------------
(* scheduleProbeForConnection *)

exit(g) ==
    /\ Goto(g, "none")
    /\ config' = [config EXCEPT ![g] = 0]
    /\ slots' = [slots EXCEPT ![g] = 0]
    /\ UNCHANGED <<rowVars, mapVars, semVars, reloadVars, stopped>>

\* A step of goroutine g that only moves it.
move(g, l) ==
    /\ Goto(g, l)
    /\ UNCHANGED <<rowVars, mapVars, semVars, config, slots, reloadVars,
                   stopped>>

\* The connection is looked up; the initial delay or the jitter begins.
lookup(g) ==
    /\ pc[g] = "start"
    /\ monitored[connOf(g)]
    /\ move(g, "delay")

\* The lookup fails, the connection having gone or the datastore not
\* answering: the goroutine ends.
lookupFails(g) == pc[g] = "start" /\ exit(g)

\* The first execution, without a further look at the map.
delayOver(g) == pc[g] = "delay" /\ move(g, "acquire")

stopInDelay(g) == pc[g] = "delay" /\ stopped /\ exit(g)

\* Mutant: the interval is not compared.
unchangedProbe_exists(g) == probesByConn[probeOf(g)] # 0

\* The probe is still in the map with the interval of this goroutine.
unchangedProbe(g) == probesByConn[probeOf(g)] = config[g]

\* A tick: the goroutine goes on to an execution, ends when its probe was
\* removed or has another interval, or waits for the next tick when the
\* connection cannot be read (then nothing changes).
tick(g) ==
    /\ pc[g] = "loop"
    /\ unchangedProbe(g)
    /\ monitored[connOf(g)]
    /\ move(g, "acquire")

tickEnds(g) == pc[g] = "loop" /\ ~unchangedProbe(g) /\ exit(g)

\* Mutant: the loop only waits for its ticker.
stopLoop_never(g) == FALSE /\ exit(g)

stopLoop(g) == pc[g] = "loop" /\ stopped /\ exit(g)

-----------------------------------------------------------------------------
(* acquireProbeSlot, the execution and the release *)

freshChans(c) ==
    {k \in 1..MaxChans : k # connSlots[c] /\ \A g \in Goroutines :
                            connOf(g) = c => slots[g] # k}

\* connSlotsFor: the semaphore is created on first use.
connSlotsFor(g) ==
    LET c == connOf(g) IN
    /\ pc[g] = "acquire" /\ ~stopped
    /\ \E k \in 1..MaxChans :
          /\ IF connSlots[c] # 0 THEN k = connSlots[c] ELSE k \in freshChans(c)
          /\ connSlots' = [connSlots EXCEPT ![c] = k]
          /\ slots' = [slots EXCEPT ![g] = k]
    /\ Goto(g, "waiting")
    /\ UNCHANGED <<rowVars, mapVars, permits, probeSlots, config, reloadVars,
                   stopped>>

\* The scheduler is stopping: back to the loop with nothing held.
giveUp(g) ==
    /\ Goto(g, "loop")
    /\ slots' = [slots EXCEPT ![g] = 0]
    /\ UNCHANGED <<rowVars, mapVars, connSlots, config, reloadVars, stopped>>

releasePermit(g) == permits' = [permits EXCEPT ![connOf(g)][slots[g]] = @ - 1]

stopBefore(g) ==
    /\ pc[g] \in {"acquire", "waiting"} /\ stopped
    /\ giveUp(g)
    /\ UNCHANGED <<permits, probeSlots>>

takePermit(g) ==
    /\ pc[g] = "waiting"
    /\ permits[connOf(g)][slots[g]] < MaxPerConn
    /\ permits' = [permits EXCEPT ![connOf(g)][slots[g]] = @ + 1]
    /\ Goto(g, "permitted")
    /\ UNCHANGED <<rowVars, mapVars, connSlots, probeSlots, config, slots,
                   reloadVars, stopped>>

\* The recheck before queueing for the global slot.
queueForSlot(g) == pc[g] = "permitted" /\ ~stopped /\ move(g, "queued")

stopWithPermit(g) ==
    /\ pc[g] \in {"permitted", "queued"} /\ stopped
    /\ giveUp(g)
    /\ releasePermit(g)
    /\ UNCHANGED probeSlots

\* Mutant: the global semaphore does not bound anything.
takeSlot_unbounded(g) ==
    /\ pc[g] = "queued"
    /\ probeSlots' = probeSlots + 1
    /\ Goto(g, "both")
    /\ UNCHANGED <<rowVars, mapVars, connSlots, permits, config, slots,
                   reloadVars, stopped>>

takeSlot(g) ==
    /\ pc[g] = "queued"
    /\ probeSlots < MaxProbes
    /\ probeSlots' = probeSlots + 1
    /\ Goto(g, "both")
    /\ UNCHANGED <<rowVars, mapVars, connSlots, permits, config, slots,
                   reloadVars, stopped>>

\* The last recheck, then the execution.
run(g) == pc[g] = "both" /\ ~stopped /\ move(g, "running")

releaseBoth(g) ==
    /\ giveUp(g)
    /\ releasePermit(g)
    /\ probeSlots' = probeSlots - 1

stopWithBoth(g) == pc[g] = "both" /\ stopped /\ releaseBoth(g)

\* Mutant: the permit goes back to the semaphore the map has now.
finish_current(g) ==
    /\ pc[g] = "running"
    /\ giveUp(g)
    /\ permits' = [c \in Conns |-> [k \in 1..MaxChans |->
                      permits[c][k] - IF c = connOf(g) /\ k = connSlots[c]
                                         /\ permits[c][k] > 0 THEN 1 ELSE 0]]
    /\ probeSlots' = probeSlots - 1

\* Mutant: an execution without a timeout hangs with its server.
finish_hangs(g) ==
    /\ pc[g] = "running" /\ stopped
    /\ releaseBoth(g)

\* The execution ends, by monitored_max_wait_seconds at the latest; both are
\* released, to the semaphores they were taken from.
finish(g) == pc[g] = "running" /\ releaseBoth(g)

-----------------------------------------------------------------------------
\* Stop; the reload loop ends when it is not in the middle of a reload.
Stop ==
    /\ ~stopped
    /\ stopped' = TRUE
    /\ UNCHANGED <<rowVars, mapVars, semVars, goVars, reloadVars>>

Goroutine(g) ==
    \/ lookup(g) \/ lookupFails(g) \/ delayOver(g) \/ stopInDelay(g)
    \/ tick(g) \/ tickEnds(g) \/ stopLoop(g)
    \/ connSlotsFor(g) \/ takePermit(g) \/ queueForSlot(g) \/ takeSlot(g)
    \/ stopBefore(g) \/ stopWithPermit(g) \/ stopWithBoth(g)
    \/ run(g) \/ finish(g)

Operator ==
    \/ \E p \in Probes : SetInterval(p) \/ SetEnabled(p)
    \/ \E n \in Names : SetGlobal(n)
    \/ \E c \in Conns : SetMonitored(c)

endReload == loadFails \/ \E failed \in SUBSET Probes : loadConfigs(failed)

Next ==
    \/ Operator
    \/ readConfigs \/ endReload
    \/ \E g \in Goroutines : Goroutine(g)
    \/ Stop

Spec == Init /\ [][Next]_vars

(***************************************************************************)
(* Fairness.  A goroutine that can go on eventually does.  A channel hands *)
(* its capacity to senders in the order they came, hence strong fairness   *)
(* on taking a permit and a slot.  In the loop the shutdown channel stays  *)
(* ready whilst ticks come and go, and select picks a ready case at        *)
(* random, hence strong fairness on leaving the loop.  The reload runs on  *)
(* a ticker and does not fail forever.                                     *)
(***************************************************************************)
Fairness ==
    /\ \A g \in Goroutines :
          /\ WF_vars(Goroutine(g))
          /\ SF_vars(takePermit(g)) /\ SF_vars(takeSlot(g))
          /\ SF_vars(stopLoop(g))
    /\ WF_vars(readConfigs) /\ WF_vars(endReload)
    /\ SF_vars(loadConfigs({}))

FairSpec == Spec /\ Fairness

-----------------------------------------------------------------------------
(* Properties *)

TypeOK ==
    /\ interval \in [Probes -> Intervals]
    /\ enabled \in [Probes -> BOOLEAN]
    /\ globalOn \in [Names -> BOOLEAN]
    /\ monitored \in [Conns -> BOOLEAN]
    /\ edits \in 0..MaxEdits
    /\ probesByConn \in [Probes -> Intervals \cup {0}]
    /\ known \subseteq Conns
    /\ connSlots \in [Conns -> 0..MaxChans]
    /\ permits \in [Conns -> [1..MaxChans -> 0..MaxPerConn]]
    /\ probeSlots \in 0..MaxProbes
    /\ pc \in [Goroutines -> PermitPCs \cup
                  {"none", "start", "delay", "acquire", "waiting", "loop"}]
    /\ config \in [Goroutines -> Intervals \cup {0}]
    /\ slots \in [Goroutines -> 0..MaxChans]
    /\ rpc \in {"idle", "read"}
    /\ rows \in [Probes -> Intervals \cup {0}]
    /\ globals \subseteq Names
    /\ stopped \in BOOLEAN

\* Every permit and every slot is accounted for by one goroutine, also when
\* loadConfigs prunes the semaphore of a connection whose probes are still
\* in flight: "pruning the map ... cannot strand its permit".
PermitsConserved ==
    /\ probeSlots = Cardinality({g \in Goroutines : pc[g] \in SlotPCs})
    /\ \A c \in Conns : \A k \in 1..MaxChans :
          permits[c][k] = Cardinality({g \in Goroutines :
              connOf(g) = c /\ slots[g] = k /\ pc[g] \in PermitPCs})

\* The two levels cannot deadlock and starve nobody: a goroutine that waits
\* for its permit runs, or the scheduler stops.
WaitersServed ==
    \A g \in Goroutines :
        pc[g] \in {"waiting", "queued"} ~> (pc[g] = "running" \/ stopped)

\* Stop returns: every goroutine ends, wherever it was waiting.
StopCompletes ==
    stopped ~> (rpc = "idle" /\ \A g \in Goroutines : pc[g] = "none")

\* A changed interval takes effect: once it no longer changes, goroutines
\* with an older interval do not go on for ever.
IntervalTakesEffect ==
    \A p \in Probes : \A v \in Intervals :
        <>[](interval[p] = v /\ globalOn[nameOf(p)] /\ monitored[p[1]])
        => <>[](\A g \in Goroutines :
                   probeOf(g) = p /\ pc[g] # "none" => config[g] = v)

\* docs/developer-guide/collector/scheduler.md:413: each probe has a
\* goroutine managing its schedule.
ProbeHasGoroutine ==
    \A p \in Probes : probesByConn[p] # 0 /\ ~stopped =>
        \E g \in Goroutines :
            probeOf(g) = p /\ pc[g] # "none" /\ config[g] = probesByConn[p]

=============================================================================
