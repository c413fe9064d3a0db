----------------------------- MODULE AuditChain -----------------------------
(***************************************************************************)
(* The keyed hash chain of the RBAC audit log in auth.db, the file the     *)
(* server and the command line share (server/src/internal/auth/audit.go,   *)
(* audit_head.go, audit_tail.go, audit_reanchor.go, audit_verify.go).      *)
(*                                                                         *)
(* A database transaction (BEGIN IMMEDIATE) is one step; everything a      *)
(* command reads outside a transaction is a step per statement, so the     *)
(* server may write between two reads of -verify-audit-log or between the  *)
(* plan of -rechain-audit-log and the transaction that carries it out.     *)
(*                                                                         *)
(* A secret is a number.  A hash is the pair of the row it belongs to and  *)
(* the secret it was computed under, an HMAC the tuple of what it covers,  *)
(* and a digest the sequence of the hashes of the rows it covers: all      *)
(* three are injective, as SHA-256 is taken to be.  Rows carry no time:    *)
(* the retention cut may fall at any row.                                  *)
(***************************************************************************)
EXTENDS Naturals, Sequences, FiniteSets, FiniteSetsExt

CONSTANTS
    MaxId,      \* bound: ids issued to audit_events
    MaxSecret   \* bound: secrets, 1 .. MaxSecret, each used once

\* An inherited log has been issued up to three ids.
ASSUME BoundsAssumption ==
    MaxId \in Nat /\ MaxId >= 3 /\ MaxSecret \in Nat \ {0}

VARIABLES
    db,         \* auth.db: rows, sqlite_sequence, the two audit_tail slots
    secret,     \* the secret in secret_file
    up,         \* whether the server runs; it read the secret at its start
    cli         \* the -verify-audit-log or -rechain-audit-log command

vars == <<db, secret, up, cli>>

NoHash == <<>>              \* an empty prev_hash or oldest_retained_hash
None == [id |-> 0]          \* an absent slot, record or row
Secrets == 1 .. MaxSecret

Hash(r) == <<r.id, r.key>>
Row(id, key, prev, version, action, head, hist) ==
    [id |-> id, key |-> key, prev |-> prev, version |-> version,
     action |-> action, head |-> head, hist |-> hist]

(* Verification of single rows and anchors *)

\* The unkeyed version 1 rendering is never recomputed for verification.
auditRowVerifies(r, k) == r.version >= 2 /\ r.key = k

auditTailMAC(k, id, hash) == <<k, id, hash>>

auditTailCurrentMAC(k, id, hash, p) == <<k, id, hash, p.id, p.hash, p.mac>>

Slot(id, hash, mac, bound) ==
    [id |-> id, hash |-> hash, mac |-> mac, bound |-> bound]
Binding(p) == [id |-> p.id, hash |-> p.hash, mac |-> p.mac]

Newest(d) == d.rows[Len(d.rows)]

Names(slot, d) == /\ slot # None
                  /\ d.rows # <<>>
                  /\ slot.id = Newest(d).id
                  /\ slot.hash = Hash(Newest(d))

namesNewest(d) == Names(d.primary, d)

currentNamesNewest(d) == Names(d.current, d)

\* A primary anchor promoted from the current-key slot never verifies.
auditTailVerifies(d, k) ==
    /\ d.primary # None
    /\ d.primary.bound = None
    /\ d.primary.mac = auditTailMAC(k, d.primary.id, d.primary.hash)

primaryTailVerifiesUnder(d, k) ==
    d.primary.mac =
        IF d.primary.bound = None
        THEN auditTailMAC(k, d.primary.id, d.primary.hash)
        ELSE auditTailCurrentMAC(k, d.primary.id, d.primary.hash,
                                 d.primary.bound)

currentTailVerifies(d, k) ==
    /\ d.current # None /\ d.primary # None
    /\ d.current.mac = auditTailCurrentMAC(k, d.current.id, d.current.hash,
                                           d.primary)

(* Writing an event: recordAudit and the tail anchors *)

\* Mutant: the second change of secret is not foreseen.
planWithoutPromotion(d, k) ==
    IF namesNewest(d) /\ d.current = None /\ ~auditRowVerifies(Newest(d), k)
    THEN "advanceCurrent" ELSE "stay"

planAuditTailMoveAfterKeyChange(d, k) ==
    IF d.rows = <<>> \/ auditRowVerifies(Newest(d), k) THEN "stay"
    ELSE IF namesNewest(d) /\ d.current = None THEN "advanceCurrent"
    ELSE IF currentNamesNewest(d) THEN "promote"
    ELSE "stay"

planAuditTailMove(d, k) ==
    IF d.primary = None /\ d.rows = <<>>
    THEN IF d.seq = 0 THEN "advance" ELSE "stay"
    ELSE IF namesNewest(d) /\ auditTailVerifies(d, k) THEN "advance"
    ELSE IF currentNamesNewest(d) /\ currentTailVerifies(d, k)
         THEN "advanceCurrent"
    ELSE planAuditTailMoveAfterKeyChange(d, k)

writeAuditTail(d, k, ev) ==
    [d EXCEPT !.primary = Slot(ev.id, Hash(ev),
                               auditTailMAC(k, ev.id, Hash(ev)), None)]

writeAuditTailCurrent(d, k, ev, p) ==
    [d EXCEPT !.current = Slot(ev.id, Hash(ev),
                     auditTailCurrentMAC(k, ev.id, Hash(ev), p), None)]

\* Mutant: the re-chain leaves the anchors where they were.
resetNothing(d, k, ev) == d

resetAuditTail(d, k, ev) ==
    [writeAuditTail(d, k, ev) EXCEPT !.current = None]

applyAuditTailMove(d, k, move, before, ev) ==
    CASE move = "advance" -> writeAuditTail(d, k, ev)
      [] move = "advanceCurrent" ->
           writeAuditTailCurrent(d, k, ev, before.primary)
      [] move = "promote" ->
           writeAuditTailCurrent(
               [d EXCEPT !.primary = [before.current EXCEPT
                                        !.bound = Binding(before.primary)]],
               k, ev, before.current)
      [] OTHER -> d

\* Mutant: a new rendering written before the verifier knows it.
NextRowVersion4(d, k, action, head, hist) ==
    Row(d.seq + 1, k, IF d.rows = <<>> THEN NoHash ELSE Hash(Newest(d)),
        4, action, head, hist)

\* The row an event becomes: linked to the newest row, version 3, keyed.
NextRow(d, k, action, head, hist) ==
    Row(d.seq + 1, k, IF d.rows = <<>> THEN NoHash ELSE Hash(Newest(d)),
        3, action, head, hist)

recordAudit(d, k, action, head, hist) ==
    LET ev == NextRow(d, k, action, head, hist)
    IN  applyAuditTailMove([d EXCEPT !.rows = Append(@, ev), !.seq = ev.id],
                           k, planAuditTailMove(d, k), d, ev)

(* Opening the store *)

unkeyedRows(d) == {i \in DOMAIN d.rows : d.rows[i].version = 1}

checkAuditTail(d) ==
    IF d.seq = 0 THEN d.rows = <<>>
    ELSE d.seq = IF d.rows = <<>> THEN 0 ELSE Newest(d).id

auditTailSeedable(d, k) ==
    /\ d.primary = None
    /\ d.rows # <<>>
    /\ Newest(d).version = 2
    /\ checkAuditTail(d)
    /\ auditRowVerifies(Newest(d), k)

seedAuditTail(d, k) ==
    IF auditTailSeedable(d, k) THEN writeAuditTail(d, k, Newest(d)) ELSE d

(* The head of the log: anchor events, history and digests *)

Digest(rows) == [i \in DOMAIN rows |-> Hash(rows[i])]

inHistory(rec, r) == rec # None /\ rec.hist # None /\ r.id <= rec.hist.through

\* The rows are read in id order, so the history is the first of them.
historyRows(rows, rec) ==
    SubSeq(rows, 1, Max({0} \cup {i \in DOMAIN rows : inHistory(rec, rows[i])}))

historyMatches(rows, rec) ==
    rec # None /\ rec.hist # None
        => Digest(historyRows(rows, rec)) = rec.hist.digest

anchorRows(rows) == {i \in DOMAIN rows : rows[i].action # "change"}

\* The newest anchor that records a head, and the anchors read to find it.
findAuditAnchor(rows, k) ==
    LET heads == {i \in anchorRows(rows) : rows[i].head # NoHash}
        read  == {i \in anchorRows(rows) : \A h \in heads : i >= h}
    IN  [err       |-> \E i \in read : ~auditRowVerifies(rows[i], k),
         rec       |-> IF heads = {} THEN None ELSE rows[Max(heads)],
         purgeSeen |-> \E i \in read : rows[i].action = "purge"]

auditGenesisAllowed(r) == r.id = 1 \/ r.action = "purge"

\* auditHeadCheck over the rows outside the history, which all verify.
headCheck(rows, rec) ==
    LET seen  == {i \in anchorRows(rows) : ~inHistory(rec, rows[i])}
        heads == {i \in seen : rows[i].head # NoHash}
    IN  \/ rows = <<>>
        \/ heads # {} /\ Hash(rows[1]) = rows[Max(heads)].head
        \/ /\ heads = {}
           /\ rows[1].prev = NoHash => auditGenesisAllowed(rows[1])
           /\ rows[1].prev # NoHash
                => \E i \in seen : rows[i].action = "purge"

(* Verification *)

Links(rows, i) == i = 1 \/ rows[i].prev = Hash(rows[i - 1])

\* What auditChainWalk makes of the rows under the record rec: whether the
\* first row to fail fails its own hash only, and whether one verified
\* before it.
chainWalk(rows, k, rec) ==
    LET own     == {i \in DOMAIN rows : ~inHistory(rec, rows[i])}
        chained(i) == /\ Links(rows, i)
                      /\ \A j \in own : j < i
                            => rows[j].version <= rows[i].version
                      /\ rows[i].version >= 2
        bad     == {i \in own : ~chained(i) \/ ~auditRowVerifies(rows[i], k)}
    IN  [result    |-> IF bad = {} THEN "ok"
                       ELSE IF chained(Min(bad)) THEN "unverified"
                       ELSE "broken",
         keyProven |-> bad # {} /\ \E i \in own : i < Min(bad)]

\* The leading rows that fail under k, or 0 when the rows do not have the
\* shape a changed secret leaves.
rotatedRun(rows, k) ==
    LET fails == {i \in DOMAIN rows : ~auditRowVerifies(rows[i], k)}
    IN  IF /\ fails # {}
           /\ \A i \in DOMAIN rows : Links(rows, i)
           /\ fails = 1 .. Max(fails)
        THEN Max(fails) ELSE 0

auditTailAnchorPresent(d) ==
    /\ d.primary = None /\ d.rows # <<>> => Newest(d).version < 3
    /\ d.primary # None => d.rows # <<>>

auditTailBoundRow(d, b, id) ==
    {r \in {d.rows[i] : i \in DOMAIN d.rows} :
        b.id < id /\ r.id = b.id /\ Hash(r) = b.hash}

checkAuditTailBinding(d, id, b) ==
    b = None \/ auditTailBoundRow(d, b, id) # {}

verifyAuditTailCurrent(d, k, last) ==
    IF Newest(d).id = last.id THEN d.current = None
    ELSE currentNamesNewest(d) /\ currentTailVerifies(d, k)

checkRotatedAuditTail(d, k, last) ==
    \/ d.primary = None
    \/ namesNewest(d) /\ auditTailVerifies(d, k)
    \/ /\ d.primary.id = last.id /\ d.primary.hash = Hash(last)
       /\ ~auditTailVerifies(d, k)
       /\ verifyAuditTailCurrent(d, k, last)
       /\ checkAuditTailBinding(d, d.primary.id, d.primary.bound)
    \/ /\ ~(d.primary.id = last.id /\ d.primary.hash = Hash(last))
       /\ Newest(d).id = last.id
       /\ currentNamesNewest(d)
       /\ ~currentTailVerifies(d, k) /\ ~auditTailVerifies(d, k)
       /\ checkAuditTailBinding(d, d.current.id, Binding(d.primary))

verifyAuditTailAfterKeyChange(d, k, last) ==
    /\ checkAuditTail(d)
    /\ auditTailAnchorPresent(d)
    /\ checkRotatedAuditTail(d, k, last)

looksLikeKeyChange(d, k) ==
    LET run == rotatedRun(d.rows, k)
    IN  run # 0 /\ verifyAuditTailAfterKeyChange(d, k, d.rows[run])

verifyAuditTail(d, k) ==
    /\ checkAuditTail(d)
    /\ auditTailAnchorPresent(d)
    /\ d.primary # None => namesNewest(d) /\ auditTailVerifies(d, k)

(* verifyAuditLog read by read: the anchor, the rows, and then either the
   shape of the log or nothing more, the sequence and the tail anchors. *)
verifyAnchor(d, k) ==
    LET a == findAuditAnchor(d.rows, k) IN IF a.err THEN None ELSE a.rec

verifyRows(d, k, rec) ==
    LET w == chainWalk(d.rows, k, rec)
    IN  IF w.result = "unverified"
        THEN IF w.keyProven \/ rec # None THEN "broken" ELSE "shape"
        ELSE IF w.result = "broken" THEN "broken"
        ELSE IF historyMatches(d.rows, rec) /\ headCheck(d.rows, rec)
             THEN "sequence" ELSE "broken"

\* The verdict when nothing writes while the log is read.
verifyAuditLog(d, k) ==
    LET part == verifyRows(d, k, verifyAnchor(d, k))
    IN  CASE part = "broken" -> "broken"
          [] part = "shape" ->
               IF looksLikeKeyChange(d, k) THEN "mismatch" ELSE "broken"
          [] part = "sequence" ->
               IF verifyAuditTail(d, k) THEN "ok" ELSE "broken"

(* The retention purge *)

checkAuditAnchorLinks(rows, rec) ==
    \A i \in DOMAIN rows :
        rows[i] = rec => /\ Links(rows, i)
                         /\ i < Len(rows) => Links(rows, i + 1)

\* Mutant: a log without a recorded head must begin at its genesis.
purgeBeginsAtGenesis(r, a) ==
    IF a.rec # None THEN Hash(r) = a.rec.head
    ELSE r.prev = NoHash /\ auditGenesisAllowed(r)

\* Where the first row of the prefix must be.
purgeBegins(r, a) ==
    IF a.rec # None THEN Hash(r) = a.rec.head
    ELSE /\ ~a.purgeSeen => r.prev = NoHash
         /\ r.prev = NoHash => auditGenesisAllowed(r)

auditPurgeUnverified(d, k, anchorFound) ==
    IF ~anchorFound /\ looksLikeKeyChange(d, k) THEN "mismatch" ELSE "broken"

\* The rows a purge down to row number c reads, checked in id order.
prefixWalk(rows, k, a, c) ==
    LET read == {i \in DOMAIN rows : i <= c \/ inHistory(a.rec, rows[i])}
        own  == {i \in read : ~inHistory(a.rec, rows[i])}
        unverified == {i \in own : ~auditRowVerifies(rows[i], k)}
        misplaced  == {i \in read : IF i = 1 THEN ~purgeBegins(rows[1], a)
                                    ELSE i \in own /\ ~Links(rows, i)}
    IN  IF unverified = {} /\ misplaced = {}
        THEN IF historyMatches(rows, a.rec) THEN "ok" ELSE "broken"
        ELSE IF unverified # {} /\ (\A i \in misplaced : Min(unverified) <= i)
        THEN "unverified" ELSE "broken"

verifyAuditPurgePrefix(d, k, c) ==
    LET a == findAuditAnchor(d.rows, k)
        w == prefixWalk(d.rows, k, a, c)
    IN  IF a.err THEN auditPurgeUnverified(d, k, FALSE)
        ELSE IF a.rec # None /\ ~checkAuditAnchorLinks(d.rows, a.rec)
        THEN "broken"
        ELSE IF w = "unverified"
        THEN auditPurgeUnverified(d, k, a.rec # None)
        ELSE w

\* The part of the history that survives a purge down to row c.
keptHistory(rows, rec, c) ==
    LET kept == historyRows(SubSeq(rows, c, Len(rows)), rec)
    IN  IF kept = <<>> THEN None
        ELSE [id |-> 0, through |-> rec.hist.through, digest |-> Digest(kept)]

PurgeAuditEvents(d, k, c) ==
    LET rec == findAuditAnchor(d.rows, k).rec
    IN  recordAudit([d EXCEPT !.rows = SubSeq(@, c, Len(@))], k, "purge",
                    Hash(d.rows[c]), keptHistory(d.rows, rec, c))

(* The re-chain: re-hash of an unkeyed log, re-anchor of a keyed one *)

\* The history a re-anchor would accept, and the anchors beside it.
scanAuditForReanchor(d, k) ==
    LET bad == {i \in DOMAIN d.rows :
                    ~auditRowVerifies(d.rows[i], k) \/ ~Links(d.rows, i)}
        n   == IF bad = {} THEN 0 ELSE Max(bad)
    IN  [rows    |-> Len(d.rows), history |-> n,
         digest  |-> Digest(SubSeq(d.rows, 1, n)),
         head    |-> Hash(d.rows[1]),
         newest  |-> Hash(Newest(d)), primary |-> d.primary,
         current |-> d.current,
         failsAfterVerified |-> bad # 1 .. n]

proveAuditHistory(d, pk, n) ==
    LET rows == SubSeq(d.rows, 1, n)
    IN  chainWalk(rows, pk, None).result = "ok" /\ headCheck(rows, None)

proveAuditTailBinding(d, pk, id, b) ==
    \/ b = None
    \/ /\ auditTailBoundRow(d, b, id) # {}
       /\ \A r \in auditTailBoundRow(d, b, id) : ~auditRowVerifies(r, pk)

\* Mutant: the anchor must name the newest row, not the last of the history.
proveTailNamesNewest(d, k, pk, last) ==
    LET useCurrent == d.current # None /\ ~currentTailVerifies(d, k)
    IN  \/ ~useCurrent /\ (d.primary = None \/ auditTailVerifies(d, k))
        \/ IF useCurrent THEN currentTailVerifies(d, pk) /\ currentNamesNewest(d)
           ELSE primaryTailVerifiesUnder(d, pk) /\ namesNewest(d)

proveAuditReanchorTail(d, k, pk, last) ==
    LET useCurrent == d.current # None /\ ~currentTailVerifies(d, k)
        slot == IF useCurrent THEN d.current ELSE d.primary
    IN  \/ ~useCurrent /\ (d.primary = None \/ auditTailVerifies(d, k))
        \/ /\ IF useCurrent THEN currentTailVerifies(d, pk)
                            ELSE primaryTailVerifiesUnder(d, pk)
           /\ slot.id = last.id /\ slot.hash = Hash(last)
           /\ proveAuditTailBinding(d, pk, slot.id,
                  IF useCurrent THEN Binding(d.primary) ELSE slot.bound)

proveAuditReanchorPlan(d, k, pk, scan) ==
    /\ pk # 0 /\ scan.history > 0
    /\ scanAuditForReanchor(d, k) = scan
    /\ proveAuditHistory(d, pk, scan.history)
    /\ proveAuditReanchorTail(d, k, pk, d.rows[scan.history])

\* -confirm-rechain proceeds only on proof; an operator may always say yes.
confirmAuditReanchor(unattended, plan) ==
    unattended => /\ plan.keyMismatch
                  /\ plan.proven
                  /\ plan.scan.rows > plan.scan.history

reanchorAuditLogTx(d, k, plan) ==
    LET n  == plan.scan.history
        d1 == recordAudit(d, k, "rechain", Hash(d.rows[1]),
                  IF n = 0 THEN None
                  ELSE [id |-> 0, through |-> d.rows[n].id,
                        digest |-> Digest(SubSeq(d.rows, 1, n))])
    IN  resetAuditTail(d1, k, Newest(d1))

\* What the transaction of the re-anchor checks before it writes.
reanchorStillHolds(d, k, plan) ==
    /\ scanAuditForReanchor(d, k) = plan.scan
    /\ plan.keyMismatch =>
           verifyAuditTailAfterKeyChange(d, k, d.rows[plan.scan.history])

checkAuditRechainPlanStillHolds(d, plan) ==
    /\ Len(d.rows) = plan.events
    /\ plan.events > 0 => /\ d.rows[1].id = plan.lowest
                          /\ Newest(d).id = plan.highest

verifyLegacyAuditChain(d) == \A i \in DOMAIN d.rows : Links(d.rows, i)

\* Mutant: rows re-hashed, their links left at the old hashes.
rechainKeepingLinks(d, k) ==
    LET d1 == recordAudit([d EXCEPT !.rows = [i \in DOMAIN d.rows |->
                 [d.rows[i] EXCEPT !.key = k, !.version = 3]]], k, "rechain",
                 NoHash, None)
    IN  resetAuditTail(d1, k, Newest(d1))

rechainAuditLogTx(d, k) ==
    LET rehashed == [i \in DOMAIN d.rows |->
                       [d.rows[i] EXCEPT
                          !.key = k, !.version = 3,
                          !.prev = IF i = 1 THEN @
                                   ELSE <<d.rows[i - 1].id, k>>]]
        d1 == recordAudit([d EXCEPT !.rows = rehashed], k, "rechain", NoHash,
                          None)
    IN  resetAuditTail(d1, k, Newest(d1))

(* Initial states: a new log, or one inherited from an earlier release:
   wholly unkeyed, or keyed before audit_tail existed; either may already
   have been purged by a build whose purge event records no head. *)
Inherited(key, version, purged) ==
    IF purged
    THEN <<Row(2, key, <<1, key>>, version, "change", NoHash, None),
           Row(3, key, <<2, key>>, version, "purge", NoHash, None)>>
    ELSE <<Row(1, key, NoHash, version, "change", NoHash, None),
           Row(2, key, <<1, key>>, version, "change", NoHash, None)>>

InitialLogs == {<<>>} \cup {Inherited(0, 1, p) : p \in BOOLEAN}
                      \cup {Inherited(1, 2, p) : p \in BOOLEAN}

Idle == [pc |-> "idle", op |-> "none", prevKey |-> 0, rec |-> None,
         last |-> None, verdict |-> "none", plan |-> None]

Init ==
    /\ \E rows \in InitialLogs :
           db = [rows |-> rows, primary |-> None, current |-> None,
                 seq |-> IF rows = <<>> THEN 0 ELSE rows[2].id]
    /\ secret = 1
    /\ up = FALSE
    /\ cli = Idle

(* The server: it opens the store, records events, purges and stops *)

ServerStart ==
    /\ ~up /\ unkeyedRows(db) = {}
    /\ up' = TRUE
    /\ db' = seedAuditTail(db, secret)
    /\ UNCHANGED <<secret, cli>>

ServerStop ==
    /\ up /\ up' = FALSE
    /\ UNCHANGED <<db, secret, cli>>

ServerRecord ==
    /\ up /\ db.seq < MaxId
    /\ db' = recordAudit(db, secret, "change", NoHash, None)
    /\ UNCHANGED <<secret, up, cli>>

\* The cut is the oldest row inside the retention window, with rows below.
ServerPurge ==
    /\ up /\ db.seq < MaxId
    /\ \E c \in 2 .. Len(db.rows) :
           /\ verifyAuditPurgePrefix(db, secret, c) = "ok"
           /\ db' = PurgeAuditEvents(db, secret, c)
    /\ UNCHANGED <<secret, up, cli>>

\* The operator replaces secret_file, with neither process running.
RotateSecret ==
    /\ ~up /\ cli = Idle /\ secret < MaxSecret
    /\ secret' = secret + 1
    /\ UNCHANGED <<db, up, cli>>

(* The command line, a process of its own on the same file *)

\* A user, group or token command: it opens the store and records an event.
CliRecord ==
    /\ cli = Idle /\ unkeyedRows(db) = {} /\ db.seq < MaxId
    /\ db' = recordAudit(seedAuditTail(db, secret), secret, "change", NoHash,
                         None)
    /\ UNCHANGED <<secret, up, cli>>

VerifyCommand ==
    /\ cli = Idle /\ unkeyedRows(db) = {}
    /\ db' = seedAuditTail(db, secret)
    /\ cli' = [Idle EXCEPT !.op = "verify", !.pc = "anchor"]
    /\ UNCHANGED <<secret, up>>

\* prevKey is the secret -previous-secret-file holds, or 0.
RechainCommand ==
    /\ cli = Idle
    /\ db' = seedAuditTail(db, secret)
    /\ \E pk \in 0 .. secret - 1 :
           cli' = [Idle EXCEPT !.op = "rechain", !.pc = "plan",
                               !.prevKey = pk]
    /\ UNCHANGED <<secret, up>>

auditRechainPlan ==
    /\ cli.pc = "plan"
    /\ LET n      == Len(db.rows)
           rehash == unkeyedRows(db) # {}
       IN  IF rehash /\ unkeyedRows(db) # DOMAIN db.rows
           THEN cli' = Idle
           ELSE cli' = [cli EXCEPT
                    !.pc = IF rehash THEN "confirmRehash" ELSE "anchor",
                    !.plan = [events |-> n,
                              lowest |-> IF n = 0 THEN 0 ELSE db.rows[1].id,
                              highest |-> IF n = 0 THEN 0 ELSE Newest(db).id,
                              legacyOK |-> verifyLegacyAuditChain(db)]]
    /\ UNCHANGED <<db, secret, up>>

\* Verification ends with v: the re-chain goes on unless the log verifies.
Conclude(v) ==
    cli' = [cli EXCEPT
        !.pc = IF cli.op = "rechain" /\ v # "ok" THEN "scan" ELSE "done",
        !.verdict = v, !.rec = None, !.last = None]

VerifyAnchor ==
    /\ cli.pc = "anchor"
    /\ cli' = [cli EXCEPT !.pc = "rows", !.rec = verifyAnchor(db, secret)]
    /\ UNCHANGED <<db, secret, up>>

VerifyRows ==
    /\ cli.pc = "rows"
    /\ LET part == verifyRows(db, secret, cli.rec)
       IN  IF part = "broken" THEN Conclude("broken")
           ELSE cli' = [cli EXCEPT !.pc = part, !.rec = None]
    /\ UNCHANGED <<db, secret, up>>

VerifyShape ==
    /\ cli.pc = "shape"
    /\ LET run == rotatedRun(db.rows, secret)
       IN  IF run = 0 THEN Conclude("broken")
           ELSE cli' = [cli EXCEPT !.pc = "sequence", !.last = db.rows[run]]
    /\ UNCHANGED <<db, secret, up>>

VerifySequence ==
    /\ cli.pc = "sequence"
    /\ IF checkAuditTail(db) THEN cli' = [cli EXCEPT !.pc = "tail"]
       ELSE Conclude("broken")
    /\ UNCHANGED <<db, secret, up>>

VerifyTail ==
    /\ cli.pc = "tail"
    /\ Conclude(IF cli.last = None
                THEN IF /\ auditTailAnchorPresent(db)
                        /\ db.primary # None => /\ namesNewest(db)
                                                /\ auditTailVerifies(db, secret)
                     THEN "ok" ELSE "broken"
                ELSE IF /\ auditTailAnchorPresent(db)
                        /\ checkRotatedAuditTail(db, secret, cli.last)
                     THEN "mismatch" ELSE "broken")
    /\ UNCHANGED <<db, secret, up>>

\* auditReanchorPlan after verification: an empty log is refused.
auditReanchorPlan ==
    /\ cli.pc = "scan"
    /\ IF db.rows = <<>> THEN cli' = Idle
       ELSE LET scan == scanAuditForReanchor(db, secret)
            IN  cli' = [cli EXCEPT !.pc = "prove",
                    !.plan = [events |-> @.events, lowest |-> @.lowest,
                              highest |-> @.highest, scan |-> scan,
                              keyMismatch |-> /\ cli.verdict = "mismatch"
                                              /\ ~scan.failsAfterVerified,
                              proven |-> FALSE]]
    /\ UNCHANGED <<db, secret, up>>

ProveReanchor ==
    /\ cli.pc = "prove"
    /\ cli' = [cli EXCEPT !.pc = "confirm",
           !.plan.proven = proveAuditReanchorPlan(db, secret, cli.prevKey,
                                                  cli.plan.scan)]
    /\ UNCHANGED <<db, secret, up>>

\* The confirmed re-anchor, refused when the log is no longer the planned
\* one, and verified again once committed.
reanchorAuditLog ==
    /\ cli.pc = "confirm" /\ db.seq < MaxId
    /\ \E unattended \in BOOLEAN : confirmAuditReanchor(unattended, cli.plan)
    /\ IF /\ checkAuditRechainPlanStillHolds(db, cli.plan)
          /\ reanchorStillHolds(db, secret, cli.plan)
       THEN /\ db' = reanchorAuditLogTx(db, secret, cli.plan)
            /\ cli' = [Idle EXCEPT !.op = "recheck", !.pc = "anchor"]
       ELSE cli' = Idle /\ UNCHANGED db
    /\ UNCHANGED <<secret, up>>

\* The confirmed re-hash; -previous-secret-file is refused for it.
rechainAuditLog ==
    /\ cli.pc = "confirmRehash" /\ cli.prevKey = 0 /\ db.seq < MaxId
    /\ \E unattended \in BOOLEAN : unattended => cli.plan.legacyOK
    /\ cli' = Idle
    /\ IF checkAuditRechainPlanStillHolds(db, cli.plan)
       THEN db' = rechainAuditLogTx(db, secret)
       ELSE UNCHANGED db
    /\ UNCHANGED <<secret, up>>

\* The command ends: its verdict is printed, it is declined, or killed.
CliExit ==
    /\ cli # Idle /\ cli' = Idle
    /\ UNCHANGED <<db, secret, up>>

Next ==
    \/ ServerStart \/ ServerStop \/ ServerRecord \/ ServerPurge
    \/ RotateSecret
    \/ CliRecord \/ VerifyCommand \/ RechainCommand
    \/ auditRechainPlan \/ VerifyAnchor \/ VerifyRows \/ VerifyShape
    \/ VerifySequence \/ VerifyTail \/ auditReanchorPlan \/ ProveReanchor
    \/ reanchorAuditLog \/ rechainAuditLog \/ CliExit

Spec == Init /\ [][Next]_vars

-----------------------------------------------------------------------------
(* Properties *)

SlotOK(s) == s = None \/ (s.id \in 1 .. MaxId /\ s.hash[1] = s.id)

\* Types: ids rise within the bound, keys and versions are what a build
\* writes, and the slots name issued ids.
TypeOK ==
    /\ secret \in Secrets /\ up \in BOOLEAN
    /\ db.seq \in 0 .. MaxId
    /\ \A i \in DOMAIN db.rows :
           /\ db.rows[i].id \in 1 .. db.seq
           /\ db.rows[i].key \in 0 .. secret
           /\ db.rows[i].version \in 1 .. 3
    /\ SlotOK(db.primary) /\ SlotOK(db.current)
    /\ cli.pc \in {"idle", "plan", "anchor", "rows", "shape", "sequence",
                   "tail", "scan", "prove", "confirm", "confirmRehash",
                   "done"}

\* The chain is linear whoever writes it: every row links to the one before
\* it, across purges, re-chains and the two processes of PurgeAuditEvents and
\* the command line, and the newest row has the highest id ever issued.
ChainLinear ==
    /\ \A i \in DOMAIN db.rows : Links(db.rows, i)
    /\ checkAuditTail(db)

\* The rows that need an operator: signed under an earlier secret and not
\* accepted as history by an anchor signed under the one in use.
Outstanding ==
    {i \in DOMAIN db.rows :
        /\ db.rows[i].key # secret
        /\ \A j \in anchorRows(db.rows) :
              ~(db.rows[j].key = secret /\ inHistory(db.rows[j], db.rows[i]))}

\* Read at rest, a log only this code wrote is never reported as tampered
\* with: it verifies, unless a change of secret left rows outstanding, and
\* then it is reported as a key mismatch (verifyAuditLog,
\* classifyUnverifiedRow), through any number of rotations, promotions of
\* the tail anchor, purges and re-anchors.  The exception is seedAuditTail's:
\* a version 2 log whose secret changed before this build first opened it.
RotationIsNotTampering ==
    unkeyedRows(db) = {} /\ auditTailAnchorPresent(db) =>
        verifyAuditLog(db, secret) = IF Outstanding = {} THEN "ok"
                                     ELSE "mismatch"

\* The purge and the verifier judge a log alike, whatever the cut: a log that
\* verifies can always be purged, and one that does not never is, with the
\* same reason (verifyAuditPurgePrefix, verifyAuditLog).
PurgeAgreesWithVerifier ==
    up => \A c \in 2 .. Len(db.rows) :
              verifyAuditPurgePrefix(db, secret, c)
                  = verifyAuditLog(db, secret)

\* After a single change of secret the previous one proves the history: the
\* unattended re-anchor of the documentation is never refused for rows and
\* anchors the previous secret wrote (proveAuditReanchorPlan).
OneRotationIsProvable ==
    \A pk \in 1 .. secret - 1 :
        (/\ unkeyedRows(db) = {} /\ Outstanding # {}
         /\ \A i \in DOMAIN db.rows : db.rows[i].key \in {pk, secret})
        => proveAuditReanchorPlan(db, secret, pk,
                                  scanAuditForReanchor(db, secret))

\* A re-chain that commits leaves a log that verifies, even when the server
\* wrote while its plan waited for the operator (reanchorAuditLog: "the log
\* should now verify").
RechainRestores ==
    [][ cli.pc \in {"confirm", "confirmRehash"} /\ db' # db /\ cli' # cli
        => verifyAuditLog(db', secret) = "ok" ]_vars

\* -verify-audit-log reports tampering (status 2) only for a log that has been
\* tampered with, so never here, though the server writes whilst it reads
\* (save for seedAuditTail's exception).
StatusTwoIsReal ==
    cli.op = "verify" /\ auditTailAnchorPresent(db) => cli.verdict # "broken"
=============================================================================
