-------------------------- MODULE AuditChainProofs --------------------------
(***************************************************************************)
(* Proofs about AuditChain, for any number of rows and secrets: the types  *)
(* and the linearity of the chain (Inv), and then what the verifier, the   *)
(* purge and the re-chain make of the log (KeyInv): the rows stand in the  *)
(* order of the secrets that signed them, what an anchor does not accept   *)
(* is signed under its own secret, and the tail anchors name the last row  *)
(* of each of the last two secrets that wrote.                             *)
(***************************************************************************)
EXTENDS AuditChain, SequenceTheorems, WellFoundedInduction, TLAPS

(* Shapes *)

IsSeq(s) == \E S : s \in Seq(S)

IsRow(r) == r = Row(r.id, r.key, r.prev, r.version, r.action, r.head, r.hist)

IsSlot(s) == s = None \/ s = Slot(s.id, s.hash, s.mac, s.bound)

\* The log of a database d within the ids issued, under the secrets up to k.
LogOK(d, k) ==
    /\ IsSeq(d.rows)
    /\ d.seq \in Nat
    /\ \A i \in DOMAIN d.rows :
           /\ IsRow(d.rows[i])
           /\ d.rows[i].id \in 1 .. d.seq
           /\ d.rows[i].key \in 0 .. k
           /\ d.rows[i].version \in 1 .. 3

DbShape(d) ==
    d = [rows |-> d.rows, primary |-> d.primary, current |-> d.current,
         seq |-> d.seq]

SlotsOK(d) ==
    /\ IsSlot(d.primary) /\ IsSlot(d.current)
    /\ SlotOK(d.primary) /\ SlotOK(d.current)

DbOK(d, k) == DbShape(d) /\ LogOK(d, k) /\ d.seq <= MaxId /\ SlotsOK(d)

\* Every row links to the one before it, the newest has the last id issued.
Linear(d) ==
    /\ \A i \in DOMAIN d.rows : Links(d.rows, i)
    /\ checkAuditTail(d)

Stages == {"idle", "plan", "anchor", "rows", "shape", "sequence", "tail", "scan",
           "prove", "confirm", "confirmRehash", "done"}

CliOK(c) ==
    /\ c = [pc |-> c.pc, op |-> c.op, prevKey |-> c.prevKey, rec |-> c.rec,
            last |-> c.last, verdict |-> c.verdict, plan |-> c.plan]
    /\ c.pc \in Stages

Inv ==
    /\ secret \in Secrets /\ up \in BOOLEAN
    /\ DbOK(db, secret) /\ Linear(db)
    /\ CliOK(cli)

-----------------------------------------------------------------------------
(* Sequences of anything *)

LEMMA SeqFacts ==
    ASSUME NEW s, IsSeq(s)
    PROVE  /\ Len(s) \in Nat /\ DOMAIN s = 1 .. Len(s)
           /\ (s = <<>>) <=> (Len(s) = 0)
BY DEF IsSeq

LEMMA SeqAppend ==
    ASSUME NEW s, IsSeq(s), NEW e
    PROVE  /\ IsSeq(Append(s, e))
           /\ Len(Append(s, e)) = Len(s) + 1
           /\ Append(s, e)[Len(s) + 1] = e
           /\ \A i \in 1 .. Len(s) : Append(s, e)[i] = s[i]
<1>1. PICK S : s \in Seq(S)
  BY DEF IsSeq
<1>2. PICK T : T = S \cup {e}
  OBVIOUS
<1>3. s \in Seq(T) /\ e \in T
  BY <1>1, <1>2
<1> QED
  BY <1>3 DEF IsSeq

LEMMA SeqSuffix ==
    ASSUME NEW s, IsSeq(s), NEW c \in 2 .. Len(s)
    PROVE  /\ IsSeq(SubSeq(s, c, Len(s)))
           /\ Len(SubSeq(s, c, Len(s))) = Len(s) - c + 1
           /\ \A i \in 1 .. (Len(s) - c + 1) :
                 SubSeq(s, c, Len(s))[i] = s[c + i - 1]
<1>1. PICK S : s \in Seq(S)
  BY DEF IsSeq
<1>2. PICK n \in Nat : n = Len(s)
  BY <1>1
<1>3. /\ c \in Int /\ n \in Int /\ c <= n
      /\ \A i \in c .. n : s[i] \in S
  BY <1>1, <1>2
<1>4. /\ SubSeq(s, c, n) \in Seq(S)
      /\ Len(SubSeq(s, c, n)) = n - c + 1
      /\ \A i \in 1 .. n - c + 1 : SubSeq(s, c, n)[i] = s[c + i - 1]
  BY <1>3, SubSeqProperties
<1> QED
  BY <1>2, <1>4 DEF IsSeq

LEMMA SeqMapped ==
    ASSUME NEW s, IsSeq(s), NEW f, f = [i \in DOMAIN s |-> f[i]]
    PROVE  IsSeq(f) /\ Len(f) = Len(s)
<1>1. PICK n \in Nat : n = Len(s) /\ DOMAIN s = 1 .. n
  BY SeqFacts
<1>2. PICK S : S = {f[i] : i \in 1 .. n}
  OBVIOUS
<1>3. f \in [1 .. n -> S]
  BY <1>1, <1>2
<1>4. f \in Seq(S) /\ Len(f) = n
  BY <1>3
<1> QED
  BY <1>1, <1>4 DEF IsSeq

-----------------------------------------------------------------------------
(* Writing an event *)

\* A slot written for the row ev, or the current one with a binding.
LEMMA SlotsMade ==
    ASSUME NEW ev, ev.id \in 1 .. MaxId, NEW mac, NEW bound
    PROVE  /\ IsSlot(Slot(ev.id, Hash(ev), mac, bound))
           /\ SlotOK(Slot(ev.id, Hash(ev), mac, bound))
BY DEF IsSlot, SlotOK, Slot, Hash

LEMMA SlotBound ==
    ASSUME NEW s, IsSlot(s), SlotOK(s), s # None, NEW b
    PROVE  IsSlot([s EXCEPT !.bound = b]) /\ SlotOK([s EXCEPT !.bound = b])
<1>1. PICK i, h, m, o : s = Slot(i, h, m, o) /\ i \in 1 .. MaxId /\ h[1] = i
  BY DEF IsSlot, SlotOK, Slot
<1>2. [s EXCEPT !.bound = b] = Slot(i, h, m, b)
  BY <1>1 DEF Slot
<1> QED
  BY <1>1, <1>2 DEF IsSlot, SlotOK, Slot

LEMMA TailWritten ==
    ASSUME NEW d, DbShape(d), NEW k, NEW ev, ev.id \in 1 .. MaxId, NEW p
    PROVE  /\ LET r == writeAuditTail(d, k, ev)
              IN  /\ DbShape(r) /\ r.rows = d.rows /\ r.seq = d.seq
                  /\ IsSlot(r.primary) /\ SlotOK(r.primary) /\ r.current = d.current
           /\ LET r == writeAuditTailCurrent(d, k, ev, p)
              IN  /\ DbShape(r) /\ r.rows = d.rows /\ r.seq = d.seq
                  /\ IsSlot(r.current) /\ SlotOK(r.current) /\ r.primary = d.primary
<1>1. PICK rs, a, b, q : d = [rows |-> rs, primary |-> a, current |-> b, seq |-> q]
  BY DEF DbShape
<1>2. PICK s : /\ s = Slot(ev.id, Hash(ev), auditTailMAC(k, ev.id, Hash(ev)), None)
               /\ IsSlot(s) /\ SlotOK(s)
  BY SlotsMade
<1>3. PICK c : /\ c = Slot(ev.id, Hash(ev), auditTailCurrentMAC(k, ev.id, Hash(ev), p), None)
               /\ IsSlot(c) /\ SlotOK(c)
  BY SlotsMade
<1>4. writeAuditTail(d, k, ev) = [rows |-> rs, primary |-> s, current |-> b, seq |-> q]
  BY <1>1, <1>2 DEF writeAuditTail
<1>5. writeAuditTailCurrent(d, k, ev, p)
        = [rows |-> rs, primary |-> a, current |-> c, seq |-> q]
  BY <1>1, <1>3 DEF writeAuditTailCurrent
<1> QED
  BY <1>1, <1>2, <1>3, <1>4, <1>5 DEF DbShape

\* Moving the anchors leaves the rows alone and the slots well formed.
LEMMA TailMoved ==
    ASSUME NEW d, DbShape(d), SlotsOK(d), NEW k, NEW ev, ev.id \in 1 .. MaxId,
           NEW b, SlotsOK(b), NEW move, move = "promote" => b.current # None,
           NEW r, r = applyAuditTailMove(d, k, move, b, ev)
    PROVE  DbShape(r) /\ SlotsOK(r) /\ r.rows = d.rows /\ r.seq = d.seq
<1>1. CASE move = "advance"
  <2>1. r = writeAuditTail(d, k, ev)
    BY <1>1 DEF applyAuditTailMove
  <2> QED
    BY <2>1, TailWritten DEF SlotsOK
<1>2. CASE move = "advanceCurrent"
  <2>1. r = writeAuditTailCurrent(d, k, ev, b.primary)
    BY <1>2 DEF applyAuditTailMove
  <2> QED
    BY <2>1, TailWritten DEF SlotsOK
<1>3. CASE move = "promote"
  <2>1. PICK p : p = [b.current EXCEPT !.bound = Binding(b.primary)]
    OBVIOUS
  <2>2. IsSlot(p) /\ SlotOK(p)
    BY <1>3, <2>1, SlotBound DEF SlotsOK
  <2>3. PICK e : e = [d EXCEPT !.primary = p]
    OBVIOUS
  <2>4. DbShape(e) /\ e.rows = d.rows /\ e.seq = d.seq /\ e.primary = p
    BY <2>3 DEF DbShape
  <2>5. r = writeAuditTailCurrent(e, k, ev, b.current)
    BY <1>3, <2>1, <2>3 DEF applyAuditTailMove
  <2> QED
    BY <2>2, <2>4, <2>5, TailWritten DEF SlotsOK
<1>4. CASE move \notin {"advance", "advanceCurrent", "promote"}
  <2>1. r = d
    BY <1>4 DEF applyAuditTailMove
  <2> QED
    BY <2>1
<1> QED
  BY <1>1, <1>2, <1>3, <1>4

LEMMA PromotionHasCurrent ==
    ASSUME NEW d, NEW k, planAuditTailMove(d, k) = "promote"
    PROVE  d.current # None
BY DEF planAuditTailMove, planAuditTailMoveAfterKeyChange, currentNamesNewest, Names

LEMMA NewestRow ==
    ASSUME NEW d, NEW k \in Nat, LogOK(d, k), d.rows # <<>>
    PROVE  Len(d.rows) \in DOMAIN d.rows /\ Newest(d) = d.rows[Len(d.rows)]
BY SeqFacts DEF LogOK, Newest

\* An event is appended under the secret k, linked to the newest row.
LEMMA Recorded ==
    ASSUME NEW k \in Nat, NEW d, DbOK(d, k), Linear(d), d.seq < MaxId,
           NEW action, NEW head, NEW hist,
           NEW r, r = recordAudit(d, k, action, head, hist)
    PROVE  DbOK(r, k) /\ Linear(r) /\ r.rows # <<>>
<1>1. PICK n \in Nat : n = Len(d.rows) /\ DOMAIN d.rows = 1 .. n /\ (d.rows = <<>> <=> n = 0)
  BY SeqFacts DEF DbOK, LogOK
<1>2. PICK ev : ev = NextRow(d, k, action, head, hist)
  OBVIOUS
<1>3. /\ IsRow(ev) /\ ev.id = d.seq + 1 /\ ev.key = k /\ ev.version = 3
      /\ d.rows # <<>> => ev.prev = Hash(Newest(d))
  BY <1>2 DEF NextRow, Row, IsRow
<1>4. PICK a : a = [d EXCEPT !.rows = Append(d.rows, ev), !.seq = ev.id]
  OBVIOUS
<1>5. /\ DbShape(a) /\ SlotsOK(a)
      /\ a.rows = Append(d.rows, ev) /\ a.seq = d.seq + 1
  BY <1>3, <1>4 DEF DbOK, DbShape, SlotsOK
<1>6. r = applyAuditTailMove(a, k, planAuditTailMove(d, k), d, ev)
  BY <1>2, <1>4 DEF recordAudit
<1>7. ev.id \in 1 .. MaxId /\ d.seq \in Nat
  BY <1>3, BoundsAssumption DEF DbOK, LogOK
<1>8. PICK move : move = planAuditTailMove(d, k) /\ (move = "promote" => d.current # None)
  BY PromotionHasCurrent
<1>9. DbShape(r) /\ SlotsOK(r) /\ r.rows = Append(d.rows, ev) /\ r.seq = d.seq + 1
  BY <1>5, <1>6, <1>7, <1>8, TailMoved DEF DbOK
<1>10. /\ IsSeq(r.rows) /\ Len(r.rows) = n + 1 /\ r.rows[n + 1] = ev
       /\ \A i \in 1 .. n : r.rows[i] = d.rows[i]
  BY <1>1, <1>9, SeqAppend DEF DbOK, LogOK
<1>11. DOMAIN r.rows = 1 .. n + 1 /\ r.rows # <<>>
  BY <1>10, SeqFacts
<1>12. LogOK(r, k)
  <2>1. ASSUME NEW i \in 1 .. n
        PROVE  /\ IsRow(r.rows[i]) /\ r.rows[i].id \in 1 .. r.seq
               /\ r.rows[i].key \in 0 .. k /\ r.rows[i].version \in 1 .. 3
    <3>1. PICK x : x = d.rows[i] /\ x = r.rows[i]
      BY <1>10
    <3>2. PICK q \in Nat : q = d.seq /\ r.seq = q + 1
      BY <1>7, <1>9
    <3>3. IsRow(x) /\ x.id \in 1 .. q /\ x.key \in 0 .. k /\ x.version \in 1 .. 3
      BY <1>1, <3>1, <3>2 DEF DbOK, LogOK
    <3>4. x.id \in 1 .. q + 1
      BY <3>2, <3>3
    <3> QED
      BY <3>1, <3>2, <3>3, <3>4
  <2>2. /\ IsRow(ev) /\ ev.id \in 1 .. r.seq
        /\ ev.key \in 0 .. k /\ ev.version \in 1 .. 3
    BY <1>3, <1>7, <1>9
  <2> QED
    BY <1>7, <1>9, <1>10, <1>11, <2>1, <2>2 DEF LogOK
<1>13. DbOK(r, k)
  BY <1>3, <1>7, <1>9, <1>12 DEF DbOK
<1>14. \A i \in DOMAIN r.rows : Links(r.rows, i)
  <2>1. ASSUME NEW i \in 1 .. n PROVE Links(r.rows, i)
    <3>1. Links(d.rows, i)
      BY <1>1 DEF Linear
    <3>2. i # 1 => i - 1 \in 1 .. n
      OBVIOUS
    <3> QED
      BY <1>10, <3>1, <3>2 DEF Links
  <2>2. Links(r.rows, n + 1)
    <3>1. CASE n = 0
      BY <3>1 DEF Links
    <3>2. CASE n # 0
      <4>1. ev.prev = Hash(d.rows[n])
        BY <1>1, <1>3, <3>2 DEF Newest
      <4>2. n \in 1 .. n /\ (n + 1) - 1 = n
        BY <3>2
      <4> QED
        BY <1>10, <4>1, <4>2 DEF Links
    <3> QED
      BY <3>1, <3>2
  <2> QED
    BY <1>11, <2>1, <2>2
<1>15. checkAuditTail(r)
  BY <1>3, <1>7, <1>9, <1>10, <1>11 DEF checkAuditTail, Newest
<1> QED
  BY <1>11, <1>13, <1>14, <1>15 DEF Linear

\* The indices of the rows a purge keeps.
LEMMA CutIndices ==
    ASSUME NEW n \in Nat, NEW c \in Int, 2 <= c, c <= n,
           NEW m \in Nat, m = n - c + 1
    PROVE  /\ \A i \in 1 .. m : c + i - 1 \in 1 .. n /\ c + i - 1 # 1
           /\ \A i \in 1 .. m : i # 1 =>
                 i - 1 \in 1 .. m /\ c + (i - 1) - 1 = (c + i - 1) - 1
           /\ m \in 1 .. m /\ c + m - 1 = n
OBVIOUS

\* A purge first drops the rows below the cut.
LEMMA Cut ==
    ASSUME NEW k \in Nat, NEW d, DbOK(d, k), Linear(d), NEW c \in 2 .. Len(d.rows),
           NEW r, r = [d EXCEPT !.rows = SubSeq(@, c, Len(@))]
    PROVE  DbOK(r, k) /\ Linear(r) /\ r.seq = d.seq
<1>1. PICK n \in Nat : n = Len(d.rows) /\ DOMAIN d.rows = 1 .. n /\ (d.rows = <<>> <=> n = 0)
  BY SeqFacts DEF DbOK, LogOK
<1>2. /\ DbShape(r) /\ SlotsOK(r) /\ r.seq = d.seq
      /\ r.rows = SubSeq(d.rows, c, Len(d.rows))
  <2>1. PICK rs, a, b, q : d = [rows |-> rs, primary |-> a, current |-> b, seq |-> q]
    BY DEF DbOK, DbShape
  <2>2. PICK cut : cut = SubSeq(rs, c, Len(rs))
    OBVIOUS
  <2>3. r = [rows |-> cut, primary |-> a, current |-> b, seq |-> q]
    BY <2>1, <2>2
  <2> QED
    BY <2>1, <2>2, <2>3 DEF DbOK, DbShape, SlotsOK
<1>3. PICK m \in Nat : m = n - c + 1 /\ m >= 1 /\ m < n
  <2>1. c \in Int /\ 2 <= c /\ c <= n
    BY <1>1
  <2>2. n - c + 1 \in Nat /\ n - c + 1 >= 1 /\ n - c + 1 < n
    BY <2>1
  <2> QED
    BY <2>2
<1>4. /\ IsSeq(r.rows) /\ Len(r.rows) = m
      /\ \A i \in 1 .. m : r.rows[i] = d.rows[c + i - 1]
  BY <1>1, <1>2, <1>3, SeqSuffix DEF DbOK, LogOK
<1>5. DOMAIN r.rows = 1 .. m /\ r.rows # <<>>
  BY <1>3, <1>4, SeqFacts
<1>0. /\ \A i \in 1 .. m : c + i - 1 \in 1 .. n /\ c + i - 1 # 1
      /\ \A i \in 1 .. m : i # 1 =>
            i - 1 \in 1 .. m /\ c + (i - 1) - 1 = (c + i - 1) - 1
      /\ m \in 1 .. m /\ c + m - 1 = n
  <2>1. c \in Int /\ 2 <= c /\ c <= n
    BY <1>1
  <2> QED
    BY ONLY <2>1, <1>3, n \in Nat, m \in Nat, CutIndices
<1>6. \A i \in 1 .. m : c + i - 1 \in 1 .. n /\ c + i - 1 # 1
  BY ONLY <1>0
<1>7. LogOK(r, k)
  <2>1. \A j \in 1 .. n :
           /\ IsRow(d.rows[j]) /\ d.rows[j].id \in 1 .. d.seq
           /\ d.rows[j].key \in 0 .. k /\ d.rows[j].version \in 1 .. 3
    BY <1>1 DEF DbOK, LogOK
  <2>2. d.seq \in Nat
    BY DEF DbOK, LogOK
  <2>3. ASSUME NEW i \in 1 .. m
        PROVE  /\ IsRow(r.rows[i]) /\ r.rows[i].id \in 1 .. r.seq
               /\ r.rows[i].key \in 0 .. k /\ r.rows[i].version \in 1 .. 3
    <3>1. PICK j \in 1 .. n : j = c + i - 1 /\ r.rows[i] = d.rows[j]
      BY ONLY <1>4, <1>6, i \in 1 .. m
    <3> QED
      BY ONLY <1>2, <2>1, <3>1
  <2> QED
    BY ONLY <1>2, <1>4, <1>5, <2>2, <2>3 DEF LogOK
<1>8. ASSUME NEW i \in 1 .. m PROVE Links(r.rows, i)
  <2>1. CASE i # 1
    <3>1. i - 1 \in 1 .. m /\ c + (i - 1) - 1 = (c + i - 1) - 1
      BY ONLY <1>0, <2>1, i \in 1 .. m
    <3>2. d.rows[c + i - 1].prev = Hash(d.rows[(c + i - 1) - 1])
      BY <1>1, <1>6 DEF Linear, Links
    <3> QED
      BY <1>4, <3>1, <3>2 DEF Links
  <2> QED
    BY <2>1 DEF Links
<1>9. Newest(r) = Newest(d)
  <2>1. m \in 1 .. m /\ c + m - 1 = n
    BY ONLY <1>0
  <2>2. r.rows[m] = d.rows[n]
    BY ONLY <1>4, <2>1
  <2> QED
    BY ONLY <1>1, <1>4, <2>2 DEF Newest
<1>10. d.seq = Newest(d).id /\ d.seq # 0
  <2>1. d.rows # <<>>
    BY <1>1, <1>3
  <2>2. n \in DOMAIN d.rows
    BY <1>1, <1>3
  <2>3. Newest(d).id \in 1 .. d.seq /\ d.seq \in Nat
    BY <1>1, <2>2 DEF DbOK, LogOK, Newest
  <2> QED
    BY <2>1, <2>3 DEF Linear, checkAuditTail
<1>11. checkAuditTail(r)
  BY <1>2, <1>5, <1>9, <1>10 DEF checkAuditTail
<1> QED
  BY <1>2, <1>5, <1>7, <1>8, <1>11 DEF DbOK, Linear

\* Placing the anchors on the newest row, or nowhere.
LEMMA Anchored ==
    ASSUME NEW k \in Nat, NEW d, DbOK(d, k), Linear(d), d.rows # <<>>
    PROVE  /\ DbOK(writeAuditTail(d, k, Newest(d)), k)
           /\ Linear(writeAuditTail(d, k, Newest(d)))
           /\ DbOK(resetAuditTail(d, k, Newest(d)), k)
           /\ Linear(resetAuditTail(d, k, Newest(d)))
<1>1. PICK ev : ev = Newest(d) /\ ev.id \in 1 .. MaxId
  <2>1. Newest(d).id \in 1 .. d.seq /\ d.seq \in Nat /\ d.seq <= MaxId
    BY NewestRow DEF DbOK, LogOK
  <2>2. Newest(d).id \in 1 .. MaxId
    BY <2>1, BoundsAssumption
  <2> QED
    BY <2>2
<1>2. PICK w : w = writeAuditTail(d, k, ev)
  OBVIOUS
<1>3. /\ DbShape(w) /\ w.rows = d.rows /\ w.seq = d.seq
      /\ IsSlot(w.primary) /\ SlotOK(w.primary) /\ w.current = d.current
  BY <1>1, <1>2, TailWritten DEF DbOK
<1>4. PICK z : z = [w EXCEPT !.current = None]
  OBVIOUS
<1>5. /\ DbShape(z) /\ z.rows = d.rows /\ z.seq = d.seq
      /\ z.primary = w.primary /\ z.current = None
  BY <1>3, <1>4 DEF DbShape
<1>6. SlotsOK(w) /\ SlotsOK(z)
  BY <1>3, <1>5 DEF DbOK, SlotsOK, IsSlot, SlotOK
<1>7. DbOK(w, k) /\ DbOK(z, k)
  BY <1>3, <1>5, <1>6 DEF DbOK, LogOK
<1>8. Linear(w) /\ Linear(z)
  BY <1>3, <1>5 DEF Linear, checkAuditTail, Newest
<1> QED
  BY <1>1, <1>2, <1>4, <1>7, <1>8 DEF resetAuditTail

LEMMA Seeded ==
    ASSUME NEW k \in Nat, NEW d, DbOK(d, k), Linear(d)
    PROVE  /\ DbOK(seedAuditTail(d, k), k) /\ Linear(seedAuditTail(d, k))
           /\ seedAuditTail(d, k).seq = d.seq
<1>1. CASE auditTailSeedable(d, k)
  <2>1. d.rows # <<>>
    BY <1>1 DEF auditTailSeedable
  <2>2. seedAuditTail(d, k) = writeAuditTail(d, k, Newest(d))
    BY <1>1 DEF seedAuditTail
  <2>3. writeAuditTail(d, k, Newest(d)).seq = d.seq
    BY DEF writeAuditTail, DbOK, DbShape
  <2> QED
    BY <2>1, <2>2, <2>3, Anchored
<1>2. CASE ~auditTailSeedable(d, k)
  <2>1. seedAuditTail(d, k) = d
    BY <1>2 DEF seedAuditTail
  <2> QED
    BY <2>1
<1> QED
  BY <1>1, <1>2

\* The re-hash gives every row the hash and the link of the secret k.
RehashedRows(d, k) ==
    [i \in DOMAIN d.rows |->
        [d.rows[i] EXCEPT !.key = k, !.version = 3,
                          !.prev = IF i = 1 THEN @ ELSE <<d.rows[i - 1].id, k>>]]

\* r is d with its rows signed anew and nothing else changed.
RehashOf(d, k, r) ==
    /\ DOMAIN r.rows = DOMAIN d.rows
    /\ \A i \in DOMAIN d.rows :
          /\ r.rows[i].id = d.rows[i].id /\ r.rows[i].key = k
          /\ r.rows[i].version = 3 /\ r.rows[i].action = d.rows[i].action
          /\ r.rows[i].head = d.rows[i].head /\ r.rows[i].hist = d.rows[i].hist
          /\ i = 1 => r.rows[i].prev = d.rows[i].prev

LEMMA Rehashed ==
    ASSUME NEW k \in Nat, NEW d, DbOK(d, k), Linear(d),
           NEW rs, rs = RehashedRows(d, k), NEW r, r = [d EXCEPT !.rows = rs]
    PROVE  DbOK(r, k) /\ Linear(r) /\ r.seq = d.seq /\ RehashOf(d, k, r)
<1>1. PICK n \in Nat : n = Len(d.rows) /\ DOMAIN d.rows = 1 .. n /\ (d.rows = <<>> <=> n = 0)
  BY SeqFacts DEF DbOK, LogOK
<1>2. /\ DbShape(r) /\ SlotsOK(r) /\ r.seq = d.seq /\ r.rows = rs
  BY DEF DbOK, DbShape, SlotsOK
<1>0. \A i \in 1 .. n : i # 1 => i - 1 \in 1 .. n
  OBVIOUS
<1>3. ASSUME NEW i \in 1 .. n
      PROVE  /\ IsRow(rs[i]) /\ rs[i].id = d.rows[i].id /\ rs[i].key = k
             /\ rs[i].version = 3
             /\ i # 1 => rs[i].prev = <<d.rows[i - 1].id, k>>
             /\ i = 1 => rs[i].prev = d.rows[i].prev
             /\ rs[i].action = d.rows[i].action /\ rs[i].head = d.rows[i].head
             /\ rs[i].hist = d.rows[i].hist
  <2>1. PICK x : x = d.rows[i] /\ IsRow(x)
    BY <1>1 DEF DbOK, LogOK
  <2>2. PICK p : p = IF i = 1 THEN x.prev ELSE <<d.rows[i - 1].id, k>>
    OBVIOUS
  <2>3. rs[i] = [x EXCEPT !.key = k, !.version = 3, !.prev = p]
    <3>1. rs[i] = [x EXCEPT !.key = k, !.version = 3,
                            !.prev = IF i = 1 THEN @ ELSE <<d.rows[i - 1].id, k>>]
      BY <1>1, <2>1 DEF RehashedRows
    <3>2. CASE i = 1
      BY <2>2, <3>1, <3>2
    <3>3. CASE i # 1
      BY <2>2, <3>1, <3>3
    <3> QED
      BY <3>2, <3>3
  <2>4. PICK y : y = rs[i] /\ y = [x EXCEPT !.key = k, !.version = 3, !.prev = p]
    BY <2>3
  <2>5. /\ IsRow(y) /\ y.id = x.id /\ y.key = k /\ y.version = 3 /\ y.prev = p
        /\ y.action = x.action /\ y.head = x.head /\ y.hist = x.hist
    <3>1. y = [id |-> x.id, key |-> k, prev |-> p, version |-> 3,
               action |-> x.action, head |-> x.head, hist |-> x.hist]
      BY <2>1, <2>4 DEF IsRow, Row
    <3> QED
      BY <3>1 DEF IsRow, Row
  <2> QED
    BY <2>1, <2>2, <2>4, <2>5
<1>4. IsSeq(rs) /\ Len(rs) = n /\ DOMAIN rs = 1 .. n
  <2>1. rs = [i \in DOMAIN d.rows |-> rs[i]]
    BY DEF RehashedRows
  <2>2. PICK s, f : s = d.rows /\ f = rs /\ IsSeq(s) /\ f = [i \in DOMAIN s |-> f[i]]
    BY <2>1 DEF DbOK, LogOK
  <2>3. IsSeq(f) /\ Len(f) = Len(s)
    BY <2>2, SeqMapped
  <2> QED
    BY <1>1, <2>2, <2>3, SeqFacts
<1>5. LogOK(r, k)
  <2>1. ASSUME NEW i \in 1 .. n PROVE rs[i].id \in 1 .. d.seq
    BY <1>1, <1>3 DEF DbOK, LogOK
  <2>2. k \in 0 .. k /\ 3 \in 1 .. 3
    OBVIOUS
  <2>3. d.seq \in Nat
    BY DEF DbOK, LogOK
  <2> HIDE DEF IsRow
  <2> QED
    BY <1>2, <1>3, <1>4, <2>1, <2>2, <2>3 DEF LogOK
<1>6. ASSUME NEW i \in 1 .. n PROVE Links(rs, i)
  <2>1. CASE i # 1
    <3>1. i - 1 \in 1 .. n
      BY <1>0, <2>1
    <3>2. Hash(rs[i - 1]) = <<d.rows[i - 1].id, k>>
      BY <1>3, <3>1 DEF Hash
    <3> QED
      BY <1>3, <2>1, <3>2 DEF Links
  <2> QED
    BY <2>1 DEF Links
<1>7. checkAuditTail(r)
  <2>1. CASE n = 0
    <3>1. rs = <<>>
      BY <1>4, <2>1, SeqFacts
    <3> QED
      BY <1>1, <1>2, <2>1, <3>1 DEF Linear, checkAuditTail
  <2>2. CASE n # 0
    <3>1. n \in 1 .. n /\ d.rows # <<>>
      BY <1>1, <2>2
    <3>0. rs # <<>>
      BY <1>4, <2>2, SeqFacts
    <3>2. Newest(r).id = Newest(d).id
      BY <1>1, <1>2, <1>3, <1>4, <3>1 DEF Newest
    <3> QED
      BY <1>2, <3>0, <3>1, <3>2 DEF Linear, checkAuditTail
  <2> QED
    BY <2>1, <2>2
<1>8. DbOK(r, k) /\ Linear(r) /\ r.seq = d.seq
  BY <1>2, <1>4, <1>5, <1>6, <1>7 DEF DbOK, Linear
<1> QED
  BY <1>1, <1>2, <1>3, <1>4, <1>8 DEF RehashOf

-----------------------------------------------------------------------------
(* One step per operation *)

LEMMA InitOK == Init => Inv
<1> SUFFICES ASSUME Init PROVE Inv
  OBVIOUS
<1>1. secret = 1 /\ secret \in Secrets /\ up \in BOOLEAN /\ secret \in Nat
  <2>1. secret = 1 /\ up = FALSE
    BY DEF Init
  <2>2. 1 \in 1 .. MaxSecret
    BY BoundsAssumption
  <2> QED
    BY <2>1, <2>2 DEF Secrets
<1>2. CliOK(cli)
  BY DEF Init, Idle, CliOK, Stages
<1>3. PICK rows \in InitialLogs :
        db = [rows |-> rows, primary |-> None, current |-> None,
              seq |-> IF rows = <<>> THEN 0 ELSE rows[2].id]
  BY DEF Init
<1>4. DbShape(db) /\ SlotsOK(db) /\ db.rows = rows
  BY <1>3 DEF DbShape, SlotsOK, IsSlot, SlotOK
<1>5. CASE rows = <<>>
  <2>1. db.seq = 0 /\ db.rows = <<>>
    BY <1>3, <1>5
  <2>2. IsSeq(<<>>)
    <3>1. <<>> \in Seq({})
      OBVIOUS
    <3> QED
      BY <3>1 DEF IsSeq
  <2>3. DOMAIN db.rows = {}
    BY <2>1
  <2>4. DbOK(db, secret)
    BY <1>4, <2>1, <2>2, <2>3, BoundsAssumption DEF DbOK, LogOK
  <2>5. Linear(db)
    BY <2>1, <2>3 DEF Linear, checkAuditTail
  <2> QED
    BY <1>1, <1>2, <2>4, <2>5 DEF Inv
<1>6. ASSUME NEW key \in 0 .. 1, NEW version \in 1 .. 2, NEW first \in 1 .. 2,
             NEW prev, NEW action,
             rows = <<Row(first, key, prev, version, "change", NoHash, None),
                      Row(first + 1, key, <<first, key>>, version, action, NoHash, None)>>
      PROVE  DbOK(db, secret) /\ Linear(db)
  <2>1. PICK a, b : /\ a = Row(first, key, prev, version, "change", NoHash, None)
                    /\ b = Row(first + 1, key, <<first, key>>, version, action, NoHash, None)
    OBVIOUS
  <2>2. rows = <<a, b>>
    BY <1>6, <2>1
  <2>3. /\ IsRow(a) /\ a.id = first /\ a.key = key /\ a.version = version
        /\ IsRow(b) /\ b.id = first + 1 /\ b.key = key /\ b.version = version
        /\ b.prev = <<first, key>>
    BY <2>1 DEF IsRow, Row
  <2>4. IsSeq(rows) /\ rows # <<>> /\ Len(rows) = 2 /\ DOMAIN rows = {1, 2}
    <3>1. rows \in Seq({a, b})
      BY <2>2
    <3>2. Len(rows) = 2 /\ DOMAIN rows = 1 .. 2 /\ rows # <<>>
      BY <2>2
    <3>3. 1 .. 2 = {1, 2}
      OBVIOUS
    <3>4. IsSeq(rows)
      BY <3>1 DEF IsSeq
    <3> QED
      BY <3>2, <3>3, <3>4
  <2>5. rows[1] = a /\ rows[2] = b
    BY <2>2
  <2>6. db.seq = first + 1
    BY <1>3, <2>3, <2>4, <2>5
  <2>7. DbOK(db, secret)
    <3>1. /\ first \in 1 .. first + 1 /\ first + 1 \in 1 .. first + 1
          /\ key \in 0 .. secret /\ version \in 1 .. 3
      BY <1>1
    <3>2. \A i \in DOMAIN db.rows :
             /\ IsRow(db.rows[i]) /\ db.rows[i].id \in 1 .. db.seq
             /\ db.rows[i].key \in 0 .. secret /\ db.rows[i].version \in 1 .. 3
      BY <1>4, <2>3, <2>4, <2>5, <2>6, <3>1
    <3>3. db.seq \in Nat /\ db.seq <= MaxId
      BY <2>6, BoundsAssumption
    <3> QED
      BY <1>4, <2>4, <3>2, <3>3 DEF DbOK, LogOK
  <2>8. Links(db.rows, 1) /\ Links(db.rows, 2)
    BY <1>4, <2>3, <2>5 DEF Links, Hash
  <2>9. checkAuditTail(db)
    BY <1>4, <2>3, <2>4, <2>5, <2>6 DEF checkAuditTail, Newest
  <2> QED
    BY <1>4, <2>4, <2>7, <2>8, <2>9 DEF Linear
<1>7. ASSUME NEW key \in 0 .. 1, NEW version \in 1 .. 2, NEW p \in BOOLEAN,
             rows = Inherited(key, version, p)
      PROVE  DbOK(db, secret) /\ Linear(db)
  <2>1. CASE p
    <3>1. rows = <<Row(2, key, <<1, key>>, version, "change", NoHash, None),
                   Row(2 + 1, key, <<2, key>>, version, "purge", NoHash, None)>>
      BY <1>7, <2>1 DEF Inherited
    <3>2. 2 \in 1 .. 2
      OBVIOUS
    <3> QED
      BY <1>6, <3>1, <3>2
  <2>2. CASE ~p
    <3>1. rows = <<Row(1, key, NoHash, version, "change", NoHash, None),
                   Row(1 + 1, key, <<1, key>>, version, "change", NoHash, None)>>
      BY <1>7, <2>2 DEF Inherited
    <3>2. 1 \in 1 .. 2
      OBVIOUS
    <3> QED
      BY <1>6, <3>1, <3>2
  <2> QED
    BY <2>1, <2>2
<1>8. \/ rows = <<>>
      \/ \E p \in BOOLEAN : rows = Inherited(0, 1, p)
      \/ \E p \in BOOLEAN : rows = Inherited(1, 2, p)
  BY DEF InitialLogs
<1>9. 0 \in 0 .. 1 /\ 1 \in 0 .. 1 /\ 1 \in 1 .. 2 /\ 2 \in 1 .. 2
  OBVIOUS
<1>10. CASE rows # <<>>
  <2>1. DbOK(db, secret) /\ Linear(db)
    BY <1>7, <1>8, <1>9, <1>10
  <2> QED
    BY <1>1, <1>2, <2>1 DEF Inv
<1> QED
  BY <1>5, <1>10

\* The steps of the commands that only read: the database stays as it is.
LEMMA CliStep ==
    ASSUME Inv, db' = db, secret' = secret, up' \in BOOLEAN, CliOK(cli')
    PROVE  Inv'
<1>1. DbOK(db, secret) /\ Linear(db)
  BY DEF Inv
<1>2. PICK d, k : d = db /\ k = secret
  OBVIOUS
<1>3. DbOK(d, k) /\ Linear(d) /\ d = db' /\ k = secret'
  BY <1>1, <1>2
<1>4. DbOK(db', secret') /\ Linear(db')
  BY <1>3
<1> QED
  BY <1>4 DEF Inv

\* The steps that write it.
LEMMA DbStep ==
    ASSUME Inv, DbOK(db', secret), Linear(db'), secret' = secret, up' \in BOOLEAN,
           CliOK(cli')
    PROVE  Inv'
<1>1. DbOK(db', secret') /\ Linear(db')
  <2>1. PICK d, k : d = db' /\ k = secret /\ DbOK(d, k) /\ Linear(d) /\ k = secret'
    OBVIOUS
  <2> QED
    BY <2>1
<1> QED
  BY <1>1 DEF Inv

LEMMA IdleOK == CliOK(Idle)
BY DEF CliOK, Idle, Stages

\* The command moves to pc, with or without something new to remember.
LEMMA CliMoved ==
    ASSUME NEW c, CliOK(c), NEW pc \in Stages, NEW rec, NEW last, NEW verdict, NEW plan,
           NEW d,
           \/ d = [c EXCEPT !.pc = pc]
           \/ d = [c EXCEPT !.pc = pc, !.rec = rec]
           \/ d = [c EXCEPT !.pc = pc, !.last = last]
           \/ d = [c EXCEPT !.pc = pc, !.plan = plan]
           \/ d = [c EXCEPT !.pc = pc, !.verdict = verdict, !.rec = rec, !.last = last]
    PROVE  CliOK(d)
<1>1. \A o, k, r, l, v, q :
        CliOK([pc |-> pc, op |-> o, prevKey |-> k, rec |-> r, last |-> l,
               verdict |-> v, plan |-> q])
  BY DEF CliOK
<1>2. CASE d = [c EXCEPT !.pc = pc]
  <2>1. d = [pc |-> pc, op |-> c.op, prevKey |-> c.prevKey, rec |-> c.rec, last |-> c.last,
             verdict |-> c.verdict, plan |-> c.plan]
    BY <1>2 DEF CliOK
  <2> QED
    BY <1>1, <2>1
<1>3. CASE d = [c EXCEPT !.pc = pc, !.rec = rec]
  <2>1. d = [pc |-> pc, op |-> c.op, prevKey |-> c.prevKey, rec |-> rec, last |-> c.last,
             verdict |-> c.verdict, plan |-> c.plan]
    BY <1>3 DEF CliOK
  <2> QED
    BY <1>1, <2>1
<1>4. CASE d = [c EXCEPT !.pc = pc, !.last = last]
  <2>1. d = [pc |-> pc, op |-> c.op, prevKey |-> c.prevKey, rec |-> c.rec, last |-> last,
             verdict |-> c.verdict, plan |-> c.plan]
    BY <1>4 DEF CliOK
  <2> QED
    BY <1>1, <2>1
<1>5. CASE d = [c EXCEPT !.pc = pc, !.plan = plan]
  <2>1. d = [pc |-> pc, op |-> c.op, prevKey |-> c.prevKey, rec |-> c.rec, last |-> c.last,
             verdict |-> c.verdict, plan |-> plan]
    BY <1>5 DEF CliOK
  <2> QED
    BY <1>1, <2>1
<1>6. CASE d = [c EXCEPT !.pc = pc, !.verdict = verdict, !.rec = rec, !.last = last]
  <2>1. d = [pc |-> pc, op |-> c.op, prevKey |-> c.prevKey, rec |-> rec, last |-> last,
             verdict |-> verdict, plan |-> c.plan]
    BY <1>6 DEF CliOK
  <2> QED
    BY <1>1, <2>1
<1> QED
  BY <1>2, <1>3, <1>4, <1>5, <1>6

LEMMA NextOK == Inv /\ [Next]_vars => Inv'
<1> SUFFICES ASSUME Inv, [Next]_vars PROVE Inv'
  OBVIOUS
<1>0. /\ secret \in Nat /\ secret \in Secrets /\ up \in BOOLEAN
      /\ DbOK(db, secret) /\ Linear(db) /\ CliOK(cli)
  BY BoundsAssumption DEF Inv, Secrets
<1>1. ASSUME NEW d, DbOK(d, secret), Linear(d), d.seq < MaxId,
             NEW action, NEW head, NEW hist
      PROVE  LET r == recordAudit(d, secret, action, head, hist)
             IN  /\ DbOK(r, secret) /\ Linear(r)
                 /\ DbOK(resetAuditTail(r, secret, Newest(r)), secret)
                 /\ Linear(resetAuditTail(r, secret, Newest(r)))
  <2>1. PICK r : r = recordAudit(d, secret, action, head, hist)
    OBVIOUS
  <2>2. DbOK(r, secret) /\ Linear(r) /\ r.rows # <<>>
    BY <1>0, <1>1, <2>1, Recorded
  <2>3. /\ DbOK(resetAuditTail(r, secret, Newest(r)), secret)
        /\ Linear(resetAuditTail(r, secret, Newest(r)))
    BY <1>0, <2>2, Anchored
  <2> QED
    BY <2>1, <2>2, <2>3
<1>2. CASE ServerStart
  <2>1. db' = seedAuditTail(db, secret) /\ up' = TRUE /\ secret' = secret /\ cli' = cli
    BY <1>2 DEF ServerStart
  <2>2. DbOK(db', secret) /\ Linear(db')
    BY <1>0, <2>1, Seeded
  <2> QED
    BY <1>0, <2>1, <2>2, DbStep
<1>3. CASE ServerStop
  BY <1>0, <1>3, CliStep DEF ServerStop
<1>4. CASE ServerRecord
  <2>1. /\ db' = recordAudit(db, secret, "change", NoHash, None) /\ db.seq < MaxId
        /\ UNCHANGED <<secret, up, cli>>
    BY <1>4 DEF ServerRecord
  <2>2. DbOK(db', secret) /\ Linear(db')
    BY <1>0, <1>1, <2>1
  <2> QED
    BY <1>0, <2>1, <2>2, DbStep
<1>5. CASE ServerPurge
  <2>1. PICK c \in 2 .. Len(db.rows) : db' = PurgeAuditEvents(db, secret, c)
    BY <1>5 DEF ServerPurge
  <2>2. db.seq < MaxId /\ UNCHANGED <<secret, up, cli>>
    BY <1>5 DEF ServerPurge
  <2>3. PICK d : d = [db EXCEPT !.rows = SubSeq(@, c, Len(@))]
    OBVIOUS
  <2>4. DbOK(d, secret) /\ Linear(d) /\ d.seq = db.seq
    BY <1>0, <2>3, Cut
  <2>5. PICK head, hist : db' = recordAudit(d, secret, "purge", head, hist)
    BY <2>1, <2>3 DEF PurgeAuditEvents
  <2>6. DbOK(db', secret) /\ Linear(db')
    BY <1>1, <2>2, <2>4, <2>5
  <2> QED
    BY <1>0, <2>2, <2>6, DbStep
<1>6. CASE RotateSecret
  <2>1. /\ secret' = secret + 1 /\ secret < MaxSecret /\ db' = db /\ up' = up
        /\ cli' = cli
    BY <1>6 DEF RotateSecret
  <2>2. DbOK(db, secret + 1)
    BY <1>0 DEF DbOK, LogOK
  <2>3. PICK d, k : d = db /\ k = secret + 1 /\ d = db' /\ k = secret'
    BY <2>1
  <2>4. DbOK(d, k) /\ Linear(d)
    BY <1>0, <2>2, <2>3
  <2>5. DbOK(db', secret') /\ Linear(db')
    BY <2>3, <2>4
  <2>6. secret' \in Secrets
    BY <1>0, <2>1, BoundsAssumption DEF Secrets
  <2> QED
    BY <1>0, <2>1, <2>5, <2>6 DEF Inv
<1>7. CASE CliRecord
  <2>1. /\ db' = recordAudit(seedAuditTail(db, secret), secret, "change", NoHash, None)
        /\ db.seq < MaxId /\ UNCHANGED <<secret, up, cli>>
    BY <1>7 DEF CliRecord
  <2>2. PICK d : d = seedAuditTail(db, secret) /\ DbOK(d, secret) /\ Linear(d)
                 /\ d.seq = db.seq
    BY <1>0, Seeded
  <2>3. DbOK(db', secret) /\ Linear(db')
    BY <1>1, <2>1, <2>2
  <2> QED
    BY <1>0, <2>1, <2>3, DbStep
<1>8. CASE VerifyCommand
  <2>1. /\ db' = seedAuditTail(db, secret) /\ UNCHANGED <<secret, up>>
        /\ cli' = [Idle EXCEPT !.op = "verify", !.pc = "anchor"]
    BY <1>8 DEF VerifyCommand
  <2>2. DbOK(db', secret) /\ Linear(db')
    BY <1>0, <2>1, Seeded
  <2>3. CliOK(cli')
    BY <2>1 DEF CliOK, Idle, Stages
  <2> QED
    BY <1>0, <2>1, <2>2, <2>3, DbStep
<1>9. CASE RechainCommand
  <2>1. db' = seedAuditTail(db, secret) /\ UNCHANGED <<secret, up>>
    BY <1>9 DEF RechainCommand
  <2>2. PICK pk : cli' = [Idle EXCEPT !.op = "rechain", !.pc = "plan", !.prevKey = pk]
    BY <1>9 DEF RechainCommand
  <2>3. DbOK(db', secret) /\ Linear(db')
    BY <1>0, <2>1, Seeded
  <2>4. CliOK(cli')
    BY <2>2 DEF CliOK, Idle, Stages
  <2> QED
    BY <1>0, <2>1, <2>3, <2>4, DbStep
<1>10. CASE CliExit
  BY <1>0, <1>10, IdleOK, CliStep DEF CliExit
<1>11. CASE UNCHANGED vars
  BY <1>0, <1>11, CliStep DEF vars
<1>12. CASE auditRechainPlan
  <2>1. UNCHANGED <<db, secret, up>>
    BY <1>12 DEF auditRechainPlan
  <2>2. PICK plan : \/ cli' = Idle
                    \/ cli' = [cli EXCEPT !.pc = "confirmRehash", !.plan = plan]
                    \/ cli' = [cli EXCEPT !.pc = "anchor", !.plan = plan]
    BY <1>12 DEF auditRechainPlan
  <2>3. "confirmRehash" \in Stages /\ "anchor" \in Stages
    BY DEF Stages
  <2>4. CliOK(cli')
    BY <1>0, <2>2, <2>3, IdleOK, CliMoved
  <2> QED
    BY <1>0, <2>1, <2>4, CliStep
<1>13. ASSUME NEW v, Conclude(v) PROVE CliOK(cli')
  <2>1. PICK pc \in {"scan", "done"} :
          cli' = [cli EXCEPT !.pc = pc, !.verdict = v, !.rec = None, !.last = None]
    BY <1>13 DEF Conclude
  <2>2. pc \in Stages
    BY <2>1 DEF Stages
  <2> QED
    BY <1>0, <2>1, <2>2, CliMoved
<1>14. CASE VerifyAnchor
  <2>1. cli' = [cli EXCEPT !.pc = "rows", !.rec = verifyAnchor(db, secret)]
    BY <1>14 DEF VerifyAnchor
  <2>2. CliOK(cli')
    BY <1>0, <2>1, CliMoved DEF Stages
  <2> QED
    BY <1>0, <1>14, <2>2, CliStep DEF VerifyAnchor
<1>15. CASE VerifyRows
  <2>1. PICK part : part = verifyRows(db, secret, cli.rec)
    OBVIOUS
  <2>2. part \in {"broken", "shape", "sequence"}
    BY <2>1 DEF verifyRows
  <2>3. CASE part = "broken"
    BY <1>0, <1>13, <1>15, <2>1, <2>3, CliStep DEF VerifyRows
  <2>4. CASE part # "broken"
    <3>1. cli' = [cli EXCEPT !.pc = part, !.rec = None]
      BY <1>15, <2>1, <2>4 DEF VerifyRows
    <3>2. part \in Stages
      <4>1. part = "shape" \/ part = "sequence"
        BY <2>2, <2>4
      <4> QED
        BY <4>1 DEF Stages
    <3>3. CliOK(cli')
      BY <1>0, <3>1, <3>2, CliMoved
    <3> QED
      BY <1>0, <1>15, <3>3, CliStep DEF VerifyRows
  <2> QED
    BY <2>3, <2>4
<1>16. CASE VerifyShape
  <2>1. \/ Conclude("broken")
        \/ \E last : cli' = [cli EXCEPT !.pc = "sequence", !.last = last]
    BY <1>16 DEF VerifyShape
  <2>2. CliOK(cli')
    <3>1. "sequence" \in Stages
      BY DEF Stages
    <3> QED
      BY <1>0, <1>13, <2>1, <3>1, CliMoved
  <2> QED
    BY <1>0, <1>16, <2>2, CliStep DEF VerifyShape
<1>17. CASE VerifySequence
  <2>1. Conclude("broken") \/ cli' = [cli EXCEPT !.pc = "tail"]
    BY <1>17 DEF VerifySequence
  <2>2. CliOK(cli')
    BY <1>0, <1>13, <2>1, CliMoved DEF Stages
  <2> QED
    BY <1>0, <1>17, <2>2, CliStep DEF VerifySequence
<1>18. CASE VerifyTail
  <2>1. \E v : Conclude(v)
    BY <1>18 DEF VerifyTail
  <2> QED
    BY <1>0, <1>13, <1>18, <2>1, CliStep DEF VerifyTail
<1>19. CASE auditReanchorPlan
  <2>1. PICK plan : cli' = Idle \/ cli' = [cli EXCEPT !.pc = "prove", !.plan = plan]
    BY <1>19 DEF auditReanchorPlan
  <2>2. CliOK(cli')
    BY <1>0, <2>1, IdleOK, CliMoved DEF Stages
  <2> QED
    BY <1>0, <1>19, <2>2, CliStep DEF auditReanchorPlan
<1>20. CASE ProveReanchor
  <2>1. PICK proven : cli' = [cli EXCEPT !.pc = "confirm", !.plan.proven = proven]
    BY <1>20 DEF ProveReanchor
  <2>2. CliOK(cli')
    BY <1>0, <2>1 DEF CliOK, Stages
  <2> QED
    BY <1>0, <1>20, <2>2, CliStep DEF ProveReanchor
<1>21. CASE reanchorAuditLog
  <2>1. UNCHANGED <<secret, up>> /\ db.seq < MaxId
    BY <1>21 DEF reanchorAuditLog
  <2>2. CASE db' = db /\ cli' = Idle
    BY <1>0, <2>1, <2>2, IdleOK, CliStep
  <2>3. CASE /\ db' = reanchorAuditLogTx(db, secret, cli.plan)
             /\ cli' = [Idle EXCEPT !.op = "recheck", !.pc = "anchor"]
    <3>1. PICK head, hist, r : /\ r = recordAudit(db, secret, "rechain", head, hist)
                               /\ db' = resetAuditTail(r, secret, Newest(r))
      BY <2>3 DEF reanchorAuditLogTx
    <3>2. DbOK(db', secret) /\ Linear(db')
      BY <1>0, <1>1, <2>1, <3>1
    <3>3. CliOK(cli')
      BY <2>3 DEF CliOK, Idle, Stages
    <3> QED
      BY <1>0, <2>1, <3>2, <3>3, DbStep
  <2> QED
    BY <1>21, <2>2, <2>3 DEF reanchorAuditLog
<1>22. CASE rechainAuditLog
  <2>1. UNCHANGED <<secret, up>> /\ db.seq < MaxId /\ cli' = Idle
    BY <1>22 DEF rechainAuditLog
  <2>2. CASE db' = db
    BY <1>0, <2>1, <2>2, IdleOK, CliStep
  <2>3. CASE db' = rechainAuditLogTx(db, secret)
    <3>1. PICK rs, d : rs = RehashedRows(db, secret) /\ d = [db EXCEPT !.rows = rs]
      OBVIOUS
    <3>2. DbOK(d, secret) /\ Linear(d) /\ d.seq = db.seq
      BY <1>0, <3>1, Rehashed
    <3>3. PICK r : /\ r = recordAudit(d, secret, "rechain", NoHash, None)
                   /\ db' = resetAuditTail(r, secret, Newest(r))
      BY <2>3, <3>1 DEF rechainAuditLogTx, RehashedRows
    <3>4. DbOK(db', secret) /\ Linear(db')
      BY <1>1, <2>1, <3>2, <3>3
    <3> QED
      BY <1>0, <2>1, <3>4, IdleOK, DbStep
  <2> QED
    BY <1>22, <2>2, <2>3 DEF rechainAuditLog
<1> QED
  BY <1>2, <1>3, <1>4, <1>5, <1>6, <1>7, <1>8, <1>9, <1>10, <1>11, <1>12, <1>14,
     <1>15, <1>16, <1>17, <1>18, <1>19, <1>20, <1>21, <1>22 DEF Next

LEMMA InvHolds == Spec => []Inv
BY InitOK, NextOK, PTL DEF Spec

\* Ids, keys and versions of rows and anchors stay within what this code
\* writes, for any number of rows and secrets.
THEOREM TypeCorrect == Spec => []TypeOK
<1>1. Inv => TypeOK
  BY DEF Inv, DbOK, LogOK, SlotsOK, CliOK, Stages, TypeOK
<1> QED
  BY <1>1, InvHolds, PTL

\* Every row of the log links to the one before it and the newest row has the
\* last id that was issued, whichever process wrote, purged, re-hashed or
\* re-anchored it (recordAudit, PurgeAuditEvents, rechainAuditLogTx,
\* reanchorAuditLogTx).
THEOREM ChainLinearHolds == Spec => []ChainLinear
<1>1. Inv => ChainLinear
  BY DEF Inv, Linear, ChainLinear
<1> QED
  BY <1>1, InvHolds, PTL

-----------------------------------------------------------------------------
(* Numbers *)

LEMMA NatMin ==
    ASSUME NEW S \in SUBSET Nat, S # {}
    PROVE  \E x \in S : \A y \in S : x <= y
<1>0. \A y \in S : y \in Nat
  OBVIOUS
<1>1. PICK R : R = OpToRel(<, Nat) /\ IsWellFoundedOn(R, Nat)
  BY NatLessThanWellFounded
<1>2. PICK x \in S : \A y \in S : ~ (<<y, x>> \in R)
  BY <1>1, WFMin
<1>3. \A y \in S : y < x => <<y, x>> \in R
  BY <1>0, <1>1 DEF OpToRel
<1>4. \A y \in S : ~ (y < x)
  BY <1>2, <1>3
<1> QED
  BY <1>0, <1>4

LEMMA IntervalMax ==
    ASSUME NEW n \in Nat, NEW S \in SUBSET (0 .. n), S # {}
    PROVE  /\ Max(S) \in S
           /\ \A y \in S : y <= Max(S)
<1>1. PICK B : B = {x \in Nat : \A y \in S : y <= x}
  OBVIOUS
<1>2. n \in B
  BY <1>1
<1>3. PICK x \in B : \A y \in B : x <= y
  BY <1>1, <1>2, NatMin
<1>4. x \in S
  <2> SUFFICES ASSUME x \notin S PROVE FALSE
    OBVIOUS
  <2>0. x \in Nat /\ \A y \in S : y \in Nat /\ y <= x /\ y # x
    BY <1>1
  <2>1. \A y \in S : y <= x - 1
    BY <2>0
  <2>2. x - 1 \in Nat
    <3>1. PICK y : y \in S
      OBVIOUS
    <3> QED
      BY <2>0, <2>1, <3>1
  <2>3. x - 1 \in B
    BY <1>1, <2>1, <2>2
  <2> QED
    BY <1>1, <1>3, <2>3
<1>5. \E z \in S : \A y \in S : z >= y
  BY <1>1, <1>4
<1>6. Max(S) \in S /\ \A y \in S : Max(S) >= y
  BY <1>5 DEF Max
<1> QED
  BY <1>6

\* The largest number of a set that has one.
LEMMA MaxIs ==
    ASSUME NEW S \in SUBSET Nat, NEW m \in S, \A y \in S : y <= m
    PROVE  Max(S) = m
<1>0. \A y \in S : y \in Nat
  OBVIOUS
<1>1. \E z \in S : \A y \in S : z >= y
  BY <1>0
<1>2. Max(S) \in S /\ \A y \in S : Max(S) >= y
  BY <1>1 DEF Max
<1>3. Max(S) \in Nat /\ m \in Nat
  BY <1>2
<1> QED
  BY <1>2, <1>3

LEMMA MinIs ==
    ASSUME NEW S \in SUBSET Nat, NEW m \in S, \A y \in S : m <= y
    PROVE  Min(S) = m
<1>1. \E z \in S : \A y \in S : z <= y
  OBVIOUS
<1>2. Min(S) \in S /\ \A y \in S : Min(S) <= y
  BY <1>1 DEF Min
<1>3. Min(S) \in Nat /\ m \in Nat
  BY <1>2
<1> QED
  BY <1>2, <1>3

\* A set of indices that holds the ones before each of its own is a prefix.
LEMMA Prefix ==
    ASSUME NEW n \in Nat, NEW S \in SUBSET (1 .. n),
           \A i \in S : \A j \in 1 .. i : j \in S
    PROVE  \E m \in 0 .. n : S = 1 .. m
<1>1. PICK B : B = {x \in Nat : x >= 1 /\ x \notin S}
  OBVIOUS
<1>2. n + 1 \in B
  BY <1>1
<1>3. PICK x \in B : \A y \in B : x <= y
  BY <1>1, <1>2, NatMin
<1>4. x - 1 \in 0 .. n
  <2>1. x \in Nat /\ x >= 1 /\ x <= n + 1
    BY <1>1, <1>2, <1>3
  <2> QED
    BY <2>1
<1>7. x \in Nat /\ x >= 1 /\ x \notin S
  BY <1>1
<1>5. \A i \in 1 .. n : i \in S <=> i <= x - 1
  <2>1. ASSUME NEW i \in 1 .. n, i \in S PROVE i <= x - 1
    <3>1. x \in 1 .. i => x \in S
      BY <2>1
    <3> QED
      BY <1>7, <3>1
  <2>2. ASSUME NEW i \in 1 .. n, i <= x - 1 PROVE i \in S
    <3>1. i \in Nat /\ i >= 1 /\ i < x
      BY <1>7, <2>2
    <3>2. i \in B => x <= i
      BY <1>3
    <3> QED
      BY <1>1, <1>7, <3>1, <3>2
  <2> QED
    BY <2>1, <2>2
<1>6. PICK m \in 0 .. n : m = x - 1
  BY <1>4
<1>8. S \subseteq 1 .. m
  <2> SUFFICES ASSUME NEW i \in S PROVE i \in 1 .. m
    OBVIOUS
  <2>1. i \in 1 .. n /\ i <= m
    BY <1>5, <1>6
  <2> QED
    BY <2>1
<1>9. 1 .. m \subseteq S
  <2> SUFFICES ASSUME NEW i \in 1 .. m PROVE i \in S
    OBVIOUS
  <2>1. i \in 1 .. n /\ i <= m
    OBVIOUS
  <2> QED
    BY <1>5, <1>6, <2>1
<1> QED
  BY <1>8, <1>9

-----------------------------------------------------------------------------
(* The log under the secrets it has seen *)

\* Rows in the order of their ids, of the secrets and of the renderings.
Ordered(rows) ==
    \A i, j \in DOMAIN rows : i < j =>
        /\ rows[i].id < rows[j].id
        /\ rows[i].key <= rows[j].key
        /\ rows[i].version <= rows[j].version

\* The rows of a log signed under the secrets up to k, linked to one another.
RowsOK(rows, k) ==
    /\ IsSeq(rows)
    /\ \A i \in DOMAIN rows :
          /\ rows[i].id \in Nat /\ rows[i].id >= 1
          /\ rows[i].key \in 1 .. k /\ rows[i].version \in 2 .. 3
          /\ Links(rows, i)
    /\ Ordered(rows)

Heads(rows) == {i \in anchorRows(rows) : rows[i].head # NoHash}

NewestHead(rows, h) == h \in Heads(rows) /\ \A i \in Heads(rows) : i <= h

\* Only an anchor that records a head accepts rows, and only older ones.
HistoriesOK(rows) ==
    \A i \in DOMAIN rows : rows[i].hist # None =>
        /\ i \in Heads(rows)
        /\ rows[i].hist.through \in Nat /\ rows[i].hist.through < rows[i].id

\* The newest recorded head is the oldest row; what lies between was signed
\* under the anchor's own secret or is accepted by it, digest included.
HeadOK(rows) ==
    \A h \in DOMAIN rows : NewestHead(rows, h) =>
        /\ Hash(rows[1]) = rows[h].head
        /\ \A i \in DOMAIN rows : i < h =>
              inHistory(rows[h], rows[i]) \/ rows[i].key = rows[h].key
        /\ historyMatches(rows, rows[h])

\* A log without a recorded head begins at its genesis, or an older build
\* purged it and left its event.
GenesisOK(rows) ==
    rows # <<>> /\ Heads(rows) = {} =>
        IF rows[1].prev = NoHash THEN rows[1].id = 1
        ELSE \E i \in DOMAIN rows :
                rows[i].action = "purge" /\ rows[i].key = rows[1].key

KeyedLog(rows, k) ==
    RowsOK(rows, k) /\ HistoriesOK(rows) /\ HeadOK(rows) /\ GenesisOK(rows)

\* No row waits for an operator under the secret k.
Covered(rows, k) ==
    \/ \A i \in DOMAIN rows : rows[i].key = k
    \/ \E h \in DOMAIN rows : NewestHead(rows, h) /\ rows[h].key = k

LEMMA RowFacts ==
    ASSUME NEW R, NEW k \in Nat, RowsOK(R, k)
    PROVE  /\ Len(R) \in Nat /\ DOMAIN R = 1 .. Len(R)
           /\ \A i \in DOMAIN R :
                /\ R[i].id \in Nat /\ R[i].id >= 1 /\ R[i] # None
                /\ R[i].key \in Nat /\ R[i].key >= 1 /\ R[i].key <= k
                /\ R[i].version \in Nat /\ R[i].version >= 2
                /\ Links(R, i)
           /\ \A i, j \in DOMAIN R : i < j =>
                /\ R[i].id < R[j].id /\ R[i].key <= R[j].key
                /\ R[i].version <= R[j].version
<1>1. Len(R) \in Nat /\ DOMAIN R = 1 .. Len(R)
  BY SeqFacts DEF RowsOK
<1>2. ASSUME NEW i \in DOMAIN R
      PROVE  /\ R[i].id \in Nat /\ R[i].id >= 1 /\ R[i] # None
             /\ R[i].key \in Nat /\ R[i].key >= 1 /\ R[i].key <= k
             /\ R[i].version \in Nat /\ R[i].version >= 2
             /\ Links(R, i)
  <2>1. /\ R[i].id \in Nat /\ R[i].id >= 1
        /\ R[i].key \in 1 .. k /\ R[i].version \in 2 .. 3 /\ Links(R, i)
    BY DEF RowsOK
  <2>2. R[i] # None
    BY <2>1 DEF None
  <2> QED
    BY <2>1, <2>2
<1> QED
  BY <1>1, <1>2 DEF RowsOK, Ordered

LEMMA NewestHeadExists ==
    ASSUME NEW R, IsSeq(R), Heads(R) # {}
    PROVE  \E h \in DOMAIN R : NewestHead(R, h)
<1>1. PICK n \in Nat : n = Len(R) /\ DOMAIN R = 1 .. n
  BY SeqFacts
<1>2. Heads(R) \in SUBSET (0 .. n)
  BY <1>1 DEF Heads, anchorRows
<1>3. PICK h \in Heads(R) : \A i \in Heads(R) : i <= h
  BY <1>2, IntervalMax
<1> QED
  BY <1>3 DEF NewestHead, Heads, anchorRows

\* The anchor the verifier and the purge read.
LEMMA AnchorFound ==
    ASSUME NEW R, NEW k, IsSeq(R), NEW h \in DOMAIN R, NewestHead(R, h)
    PROVE  /\ findAuditAnchor(R, k).rec = R[h]
           /\ findAuditAnchor(R, k).err <=>
                 \E i \in anchorRows(R) : i >= h /\ ~auditRowVerifies(R[i], k)
<1>1. PICK n \in Nat : n = Len(R) /\ DOMAIN R = 1 .. n
  BY SeqFacts
<1>2. Heads(R) \in SUBSET Nat /\ h \in Heads(R) /\ \A i \in Heads(R) : i <= h
  BY <1>1 DEF Heads, anchorRows, NewestHead
<1>3. Max(Heads(R)) = h
  BY <1>2, MaxIs
<1>4. PICK read : read = {i \in anchorRows(R) : \A j \in Heads(R) : i >= j}
  OBVIOUS
<1>5. \A i \in anchorRows(R) : i \in Nat
  BY <1>1 DEF anchorRows
<1>6. \A i \in anchorRows(R) : i \in read <=> i >= h
  BY <1>2, <1>4, <1>5
<1>7. findAuditAnchor(R, k) =
        [err |-> \E i \in read : ~auditRowVerifies(R[i], k),
         rec |-> IF Heads(R) = {} THEN None ELSE R[Max(Heads(R))],
         purgeSeen |-> \E i \in read : R[i].action = "purge"]
  BY <1>4, Zenon DEF findAuditAnchor, Heads
<1>8. /\ findAuditAnchor(R, k).rec = R[h]
      /\ findAuditAnchor(R, k).err <=> \E i \in read : ~auditRowVerifies(R[i], k)
  BY <1>2, <1>3, <1>7
<1> QED
  BY <1>4, <1>6, <1>8

LEMMA NoAnchorFound ==
    ASSUME NEW R, NEW k, Heads(R) = {}
    PROVE  /\ findAuditAnchor(R, k).rec = None
           /\ findAuditAnchor(R, k).err <=>
                 \E i \in anchorRows(R) : ~auditRowVerifies(R[i], k)
           /\ findAuditAnchor(R, k).purgeSeen <=>
                 \E i \in anchorRows(R) : R[i].action = "purge"
<1>4. PICK read : read = {i \in anchorRows(R) : \A j \in Heads(R) : i >= j}
  OBVIOUS
<1>6. read = anchorRows(R)
  BY <1>4
<1>7. findAuditAnchor(R, k) =
        [err |-> \E i \in read : ~auditRowVerifies(R[i], k),
         rec |-> IF Heads(R) = {} THEN None ELSE R[Max(Heads(R))],
         purgeSeen |-> \E i \in read : R[i].action = "purge"]
  BY <1>4, Zenon DEF findAuditAnchor, Heads
<1> QED
  BY <1>6, <1>7

-----------------------------------------------------------------------------
(* Reading a log without rows outstanding *)

LEMMA OneNewestHead ==
    ASSUME NEW R, IsSeq(R), NEW g \in DOMAIN R, NEW h \in DOMAIN R,
           NewestHead(R, g), NewestHead(R, h)
    PROVE  g = h
<1>1. g \in Nat /\ h \in Nat
  BY SeqFacts
<1>2. g <= h /\ h <= g
  BY DEF NewestHead
<1> QED
  BY <1>1, <1>2

\* Every row the newest anchor does not accept as history verifies, and the
\* history is the one it accepted.
LEMMA CoveredRows ==
    ASSUME NEW R, NEW k \in Nat, KeyedLog(R, k), Covered(R, k),
           NEW rec, rec = findAuditAnchor(R, k).rec
    PROVE  /\ ~findAuditAnchor(R, k).err
           /\ \A i \in DOMAIN R : ~inHistory(rec, R[i]) => R[i].key = k
           /\ historyMatches(R, rec)
           /\ \/ rec = None /\ Heads(R) = {}
              \/ \E h \in DOMAIN R : /\ NewestHead(R, h) /\ rec = R[h]
                                     /\ R[h].key = k /\ rec # None
                                     /\ ~inHistory(rec, R[h])
<1>0. RowsOK(R, k) /\ IsSeq(R)
  BY DEF KeyedLog, RowsOK
<1>1. CASE Heads(R) = {}
  <2>1. \A i \in DOMAIN R : R[i].key = k
    BY <1>1 DEF Covered, NewestHead
  <2>2. \A i \in anchorRows(R) : auditRowVerifies(R[i], k)
    BY <1>0, <2>1, RowFacts DEF auditRowVerifies, anchorRows
  <2>3. rec = None /\ ~findAuditAnchor(R, k).err
    BY <1>1, <2>2, NoAnchorFound
  <2>4. historyMatches(R, rec)
    BY <2>3 DEF historyMatches
  <2> QED
    BY <1>1, <2>1, <2>3, <2>4
<1>2. CASE Heads(R) # {}
  <2>1. PICK h \in DOMAIN R : NewestHead(R, h)
    BY <1>0, <1>2, NewestHeadExists
  <2>2. R[h].key = k
    BY <1>0, <2>1, OneNewestHead DEF Covered
  <2>3. \A i \in DOMAIN R : i >= h => R[i].key = k
    <3> SUFFICES ASSUME NEW i \in DOMAIN R, i >= h PROVE R[i].key = k
      OBVIOUS
    <3>1. i \in Nat /\ h \in Nat /\ R[i].key \in Nat /\ R[i].key <= k
      BY <1>0, RowFacts
    <3>2. h < i => R[h].key <= R[i].key
      BY <1>0, RowFacts
    <3> QED
      BY <2>2, <3>1, <3>2
  <2>4. \A i \in anchorRows(R) : i >= h => auditRowVerifies(R[i], k)
    BY <1>0, <2>3, RowFacts DEF auditRowVerifies, anchorRows
  <2>5. rec = R[h] /\ ~findAuditAnchor(R, k).err
    BY <1>0, <2>1, <2>4, AnchorFound
  <2>6. /\ \A i \in DOMAIN R : i < h => inHistory(rec, R[i]) \/ R[i].key = k
        /\ historyMatches(R, rec)
    BY <2>1, <2>2, <2>5 DEF KeyedLog, HeadOK
  <2>7. rec # None
    BY <1>0, <2>5, RowFacts
  <2>8. ~inHistory(rec, R[h])
    <3>1. rec.hist # None => rec.hist.through \in Nat /\ rec.hist.through < R[h].id
      BY <2>5 DEF KeyedLog, HistoriesOK
    <3>2. R[h].id \in Nat
      BY <1>0, RowFacts
    <3> QED
      BY <3>1, <3>2 DEF inHistory
  <2>9. \A i \in DOMAIN R : i < h \/ i >= h
    BY <1>0, RowFacts
  <2> QED
    BY <2>1, <2>2, <2>3, <2>5, <2>6, <2>7, <2>8, <2>9
<1> QED
  BY <1>1, <1>2

\* A walk over rows that link, are in order and verify unless accepted.
LEMMA WalkOk ==
    ASSUME NEW R, NEW k \in Nat, NEW j \in Nat, RowsOK(R, j), NEW rec,
           \A i \in DOMAIN R : ~inHistory(rec, R[i]) => R[i].key = k
    PROVE  chainWalk(R, k, rec).result = "ok"
<1> DEFINE own == {i \in DOMAIN R : ~inHistory(rec, R[i])}
           chained(i) == /\ Links(R, i)
                         /\ \A m \in own : m < i => R[m].version <= R[i].version
                         /\ R[i].version >= 2
           bad == {i \in own : ~chained(i) \/ ~auditRowVerifies(R[i], k)}
<1>1. \A i \in own : chained(i) /\ auditRowVerifies(R[i], k)
  BY RowFacts DEF auditRowVerifies
<1>2. bad = {}
  BY <1>1
<1>3. chainWalk(R, k, rec).result =
        IF bad = {} THEN "ok" ELSE IF chained(Min(bad)) THEN "unverified" ELSE "broken"
  BY DEF chainWalk
<1> QED
  BY <1>2, <1>3

LEMMA HeadChecks ==
    ASSUME NEW R, NEW k \in Nat, KeyedLog(R, k), NEW rec,
           \/ rec = None /\ Heads(R) = {}
           \/ \E h \in DOMAIN R : NewestHead(R, h) /\ rec = R[h] /\ ~inHistory(rec, R[h])
    PROVE  headCheck(R, rec)
<1>0. IsSeq(R)
  BY DEF KeyedLog, RowsOK
<1> DEFINE seen == {i \in anchorRows(R) : ~inHistory(rec, R[i])}
           heads == {i \in seen : R[i].head # NoHash}
<1>1. headCheck(R, rec) <=>
        \/ R = <<>>
        \/ heads # {} /\ Hash(R[1]) = R[Max(heads)].head
        \/ /\ heads = {}
           /\ R[1].prev = NoHash => auditGenesisAllowed(R[1])
           /\ R[1].prev # NoHash => \E i \in seen : R[i].action = "purge"
  BY DEF headCheck
<1>2. heads \subseteq Heads(R)
  BY DEF Heads
<1>3. CASE rec = None /\ Heads(R) = {} /\ R # <<>>
  <2>1. heads = {}
    BY <1>2, <1>3
  <2>2. IF R[1].prev = NoHash THEN R[1].id = 1
        ELSE \E i \in DOMAIN R : R[i].action = "purge" /\ R[i].key = R[1].key
    BY <1>3 DEF KeyedLog, GenesisOK
  <2>3. seen = anchorRows(R)
    BY <1>3 DEF inHistory
  <2>4. R[1].prev # NoHash => \E i \in seen : R[i].action = "purge"
    BY <2>2, <2>3 DEF anchorRows
  <2>5. R[1].prev = NoHash => auditGenesisAllowed(R[1])
    BY <2>2 DEF auditGenesisAllowed
  <2> QED
    BY <1>1, <2>1, <2>4, <2>5
<1>4. ASSUME NEW h \in DOMAIN R, NewestHead(R, h), rec = R[h], ~inHistory(rec, R[h])
      PROVE  headCheck(R, rec)
  <2>1. h \in heads
    BY <1>4 DEF NewestHead, Heads
  <2>2. heads \in SUBSET Nat
    BY <1>0, SeqFacts DEF anchorRows
  <2>3. \A i \in heads : i <= h
    BY <1>2, <1>4 DEF NewestHead
  <2> HIDE DEF heads, seen
  <2>4. Max(heads) = h
    BY <2>1, <2>2, <2>3, MaxIs
  <2>5. Hash(R[1]) = R[h].head
    BY <1>4 DEF KeyedLog, HeadOK
  <2> QED
    BY <1>1, <2>1, <2>4, <2>5
<1> QED
  BY <1>1, <1>3, <1>4

\* The rows of a log without rows outstanding verify.
LEMMA CoveredVerifies ==
    ASSUME NEW d, NEW k \in Nat, KeyedLog(d.rows, k), Covered(d.rows, k)
    PROVE  verifyRows(d, k, verifyAnchor(d, k)) = "sequence"
<1>1. PICK R, rec : R = d.rows /\ rec = findAuditAnchor(R, k).rec
  OBVIOUS
<1>2. /\ ~findAuditAnchor(R, k).err
      /\ \A i \in DOMAIN R : ~inHistory(rec, R[i]) => R[i].key = k
      /\ historyMatches(R, rec)
      /\ \/ rec = None /\ Heads(R) = {}
         \/ \E h \in DOMAIN R : NewestHead(R, h) /\ rec = R[h] /\ ~inHistory(rec, R[h])
  BY <1>1, CoveredRows
<1>3. verifyAnchor(d, k) = rec
  BY <1>1, <1>2 DEF verifyAnchor
<1>4. chainWalk(R, k, rec).result = "ok"
  BY <1>1, <1>2, WalkOk DEF KeyedLog
<1>5. headCheck(R, rec)
  BY <1>1, <1>2, HeadChecks
<1> QED
  BY <1>1, <1>2, <1>3, <1>4, <1>5 DEF verifyRows

-----------------------------------------------------------------------------
(* Reading a log with rows outstanding *)

\* The first m rows are the ones of earlier secrets; every head is among them.
Run(R, k, m) ==
    /\ m \in 1 .. Len(R)
    /\ \A i \in DOMAIN R : R[i].key # k <=> i <= m
    /\ \A h \in Heads(R) : h <= m

LEMMA UncoveredRun ==
    ASSUME NEW R, NEW k \in Nat, KeyedLog(R, k), ~Covered(R, k)
    PROVE  \E m : Run(R, k, m)
<1>0. RowsOK(R, k) /\ IsSeq(R)
  BY DEF KeyedLog, RowsOK
<1>1. PICK n \in Nat : n = Len(R) /\ DOMAIN R = 1 .. n
  BY <1>0, SeqFacts
<1>2. PICK S : S = {i \in 1 .. n : R[i].key # k}
  OBVIOUS
<1>3. ASSUME NEW i \in S, NEW j \in 1 .. i PROVE j \in S
  <2>1. i \in 1 .. n /\ j \in 1 .. n /\ R[i].key # k
    BY <1>2
  <2>2. /\ R[i].key \in Nat /\ R[j].key \in Nat /\ R[i].key <= k
        /\ j < i => R[j].key <= R[i].key
    BY <1>0, <1>1, <2>1, RowFacts
  <2>3. j < i \/ j = i
    BY <2>1
  <2> QED
    BY <1>2, <2>1, <2>2, <2>3
<1>4. PICK m \in 0 .. n : S = 1 .. m
  BY <1>2, <1>3, Prefix
<1>5. S # {}
  BY <1>1, <1>2 DEF Covered
<1>6. m \in 1 .. n
  BY <1>4, <1>5
<1>7. \A i \in DOMAIN R : R[i].key # k <=> i <= m
  BY <1>1, <1>2, <1>4, <1>6
<1>8. ASSUME NEW g \in Heads(R) PROVE g <= m
  <2>1. PICK h \in DOMAIN R : NewestHead(R, h)
    BY <1>0, NewestHeadExists
  <2>2. h <= m
    BY <1>7, <2>1 DEF Covered
  <2>3. g <= h /\ g \in Nat /\ h \in Nat
    BY <1>1, <2>1 DEF NewestHead, Heads, anchorRows
  <2> QED
    BY <1>6, <2>2, <2>3
<1> QED
  BY <1>1, <1>6, <1>7, <1>8 DEF Run

LEMMA RunFacts ==
    ASSUME NEW R, IsSeq(R), NEW k, NEW m, Run(R, k, m)
    PROVE  /\ Len(R) \in Nat /\ DOMAIN R = 1 .. Len(R) /\ R # <<>>
           /\ m \in Nat /\ 1 <= m /\ m <= Len(R)
           /\ 1 \in DOMAIN R /\ m \in DOMAIN R
           /\ R[1].key # k /\ R[m].key # k
           /\ \A i \in 1 .. Len(R) : m < i => R[i].key = k
<1>1. Len(R) \in Nat /\ DOMAIN R = 1 .. Len(R) /\ (R = <<>> <=> Len(R) = 0)
  BY SeqFacts
<1>2. m \in 1 .. Len(R)
  BY DEF Run
<1>3. m \in Nat /\ 1 <= m /\ m <= Len(R) /\ 1 \in DOMAIN R /\ m \in DOMAIN R /\ R # <<>>
  BY <1>1, <1>2
<1> QED
  BY <1>1, <1>3 DEF Run

\* No anchor is taken, the walk stops at the first row.
LEMMA UncoveredVerifies ==
    ASSUME NEW d, NEW k \in Nat, KeyedLog(d.rows, k), NEW m, Run(d.rows, k, m)
    PROVE  verifyRows(d, k, verifyAnchor(d, k)) = "shape"
<1>1. PICK R : R = d.rows
  OBVIOUS
<1>0. RowsOK(R, k) /\ IsSeq(R)
  BY <1>1 DEF KeyedLog, RowsOK
<1>2. verifyAnchor(d, k) = None
  <2>1. CASE Heads(R) = {}
    BY <1>1, <2>1, NoAnchorFound DEF verifyAnchor
  <2>2. CASE Heads(R) # {}
    <3>1. PICK h \in DOMAIN R : NewestHead(R, h)
      BY <1>0, <2>2, NewestHeadExists
    <3>2. h \in anchorRows(R) /\ h >= h /\ R[h].key # k
      <4>1. h \in Nat /\ h \in Heads(R)
        BY <1>0, <3>1, SeqFacts DEF NewestHead
      <4> QED
        BY <1>1, <3>1, <4>1 DEF Run, Heads
    <3>3. findAuditAnchor(R, k).err
      BY <1>0, <3>1, <3>2, AnchorFound DEF auditRowVerifies
    <3> QED
      BY <1>1, <3>3 DEF verifyAnchor
  <2> QED
    BY <2>1, <2>2
<1> DEFINE own == {i \in DOMAIN R : ~inHistory(None, R[i])}
           chained(i) == /\ Links(R, i)
                         /\ \A j \in own : j < i => R[j].version <= R[i].version
                         /\ R[i].version >= 2
           bad == {i \in own : ~chained(i) \/ ~auditRowVerifies(R[i], k)}
<1>3. own = DOMAIN R
  BY DEF inHistory
<1>4. \A i \in DOMAIN R : chained(i)
  BY <1>0, <1>3, RowFacts
<1>5. \A i \in DOMAIN R : auditRowVerifies(R[i], k) <=> R[i].key = k
  BY <1>0, RowFacts DEF auditRowVerifies
<1>6. 1 \in DOMAIN R /\ R[1].key # k /\ \A i \in DOMAIN R : i \in Nat /\ 1 <= i
  BY <1>0, <1>1, RunFacts
<1>7. 1 \in bad /\ bad \in SUBSET Nat /\ \A i \in bad : 1 <= i
  BY <1>3, <1>4, <1>5, <1>6
<1>8. /\ chainWalk(R, k, None).result
            = IF bad = {} THEN "ok"
              ELSE IF chained(Min(bad)) THEN "unverified" ELSE "broken"
      /\ chainWalk(R, k, None).keyProven
            <=> (bad # {} /\ \E i \in own : i < Min(bad))
  BY DEF chainWalk
<1>10. chained(1)
  BY <1>4, <1>6
<1> HIDE DEF own, chained, bad
<1>9. Min(bad) = 1
  BY <1>7, MinIs
<1>11. ~ \E i \in own : i < 1
  BY <1>3, <1>6
<1>13. chained(Min(bad)) /\ bad # {}
  BY <1>7, <1>9, <1>10, Zenon
<1>14. ~ \E i \in own : i < Min(bad)
  BY <1>9, <1>11, Zenon
<1>12. /\ chainWalk(R, k, None).result = "unverified"
       /\ ~chainWalk(R, k, None).keyProven
  BY <1>8, <1>13, <1>14, Zenon
<1> QED
  BY <1>1, <1>2, <1>12 DEF verifyRows

LEMMA RotatedRun ==
    ASSUME NEW R, NEW k \in Nat, RowsOK(R, k), NEW m, Run(R, k, m)
    PROVE  rotatedRun(R, k) = m
<1> DEFINE fails == {i \in DOMAIN R : ~auditRowVerifies(R[i], k)}
<1>1. /\ Len(R) \in Nat /\ DOMAIN R = 1 .. Len(R)
      /\ m \in Nat /\ 1 <= m /\ m <= Len(R)
  BY RunFacts DEF RowsOK
<1>2. \A i \in DOMAIN R : ~auditRowVerifies(R[i], k) <=> i <= m
  BY RowFacts DEF auditRowVerifies, Run
<1>3. fails = 1 .. m
  BY <1>1, <1>2
<1>4. Max(1 .. m) = m
  <2>1. m \in 1 .. m /\ \A y \in 1 .. m : y <= m
    BY <1>1
  <2> QED
    BY <2>1, MaxIs
<1>5. \A i \in DOMAIN R : Links(R, i)
  BY RowFacts
<1>6. rotatedRun(R, k) = IF /\ fails # {}
                            /\ \A i \in DOMAIN R : Links(R, i)
                            /\ fails = 1 .. Max(fails)
                         THEN Max(fails) ELSE 0
  BY DEF rotatedRun
<1> HIDE DEF fails
<1>7. fails # {}
  BY <1>1, <1>3
<1> QED
  BY <1>3, <1>4, <1>5, <1>6, <1>7

-----------------------------------------------------------------------------
(* The tail anchors *)

\* Before any anchor was written: an empty log, one a build without anchors
\* left, or one whose secret changed before this build opened it.
NoAnchors(d) ==
    /\ d.primary = None /\ d.current = None
    /\ d.rows # <<>> =>
          /\ Heads(d.rows) = {}
          /\ \/ /\ Newest(d).version = 2
                /\ \A i \in DOMAIN d.rows : d.rows[i].key = Newest(d).key
             \/ Newest(d).version = 3 /\ d.rows[1].key # Newest(d).key

\* The primary anchor names the newest row.
OneAnchor(d) ==
    /\ d.rows # <<>>
    /\ d.primary = Slot(Newest(d).id, Hash(Newest(d)),
                        auditTailMAC(Newest(d).key, Newest(d).id, Hash(Newest(d))),
                        None)
    /\ d.current = None
    /\ Covered(d.rows, Newest(d).key)

\* An anchor at row p signed under that row's secret, directly or by promotion.
BoundOK(rows, p, s) ==
    \/ s.bound = None /\ s.mac = auditTailMAC(rows[p].key, s.id, s.hash)
    \/ /\ s.mac = auditTailCurrentMAC(rows[p].key, s.id, s.hash, s.bound)
       /\ \E q \in DOMAIN rows : /\ q < p /\ s.bound.id = rows[q].id
                                 /\ s.bound.hash = Hash(rows[q])
                                 /\ rows[q].key # rows[p].key

\* The primary anchor names the last row before the newest row's secret, the
\* current one names the newest row.
TwoAnchorsAt(d, p) ==
    /\ p \in DOMAIN d.rows /\ p < Len(d.rows)
    /\ \A i \in DOMAIN d.rows : p < i => d.rows[i].key = Newest(d).key
    /\ d.rows[p].key # Newest(d).key
    /\ \A h \in Heads(d.rows) : h <= p
    /\ d.primary.id = d.rows[p].id /\ d.primary.hash = Hash(d.rows[p])
    /\ BoundOK(d.rows, p, d.primary)
    /\ d.current = Slot(Newest(d).id, Hash(Newest(d)),
                        auditTailCurrentMAC(Newest(d).key, Newest(d).id,
                                            Hash(Newest(d)), d.primary), None)

Keyed(d, k) ==
    /\ KeyedLog(d.rows, k)
    /\ NoAnchors(d) \/ OneAnchor(d) \/ (\E p : TwoAnchorsAt(d, p))

LEMMA MacsDiffer ==
    /\ \A k, l, i, h : auditTailMAC(k, i, h) = auditTailMAC(l, i, h) <=> k = l
    /\ \A k, l, i, h, p : auditTailCurrentMAC(k, i, h, p) = auditTailCurrentMAC(l, i, h, p)
                            <=> k = l
BY DEF auditTailMAC, auditTailCurrentMAC

LEMMA SlotFields ==
    ASSUME NEW i, NEW h, NEW m, NEW b, i # 0
    PROVE  /\ Slot(i, h, m, b).id = i /\ Slot(i, h, m, b).hash = h
           /\ Slot(i, h, m, b).mac = m /\ Slot(i, h, m, b).bound = b
           /\ Slot(i, h, m, b) # None
BY DEF Slot, None

LEMMA NewestFacts ==
    ASSUME NEW d, NEW k \in Nat, RowsOK(d.rows, k), d.rows # <<>>
    PROVE  /\ Len(d.rows) \in DOMAIN d.rows /\ Newest(d) = d.rows[Len(d.rows)]
           /\ Len(d.rows) \in Nat /\ DOMAIN d.rows = 1 .. Len(d.rows)
           /\ 1 \in DOMAIN d.rows /\ Len(d.rows) >= 1
           /\ Newest(d).id \in Nat /\ Newest(d).id >= 1 /\ Newest(d).id # 0
           /\ Newest(d).key \in Nat /\ Newest(d).key <= k
           /\ \A i \in DOMAIN d.rows : d.rows[i].key \in Nat /\ d.rows[i].key <= Newest(d).key
<1>1. PICK R, n : R = d.rows /\ n = Len(R)
  OBVIOUS
<1>2. /\ n \in Nat /\ DOMAIN R = 1 .. n /\ n # 0
      /\ \A i \in DOMAIN R : /\ R[i].id \in Nat /\ R[i].id >= 1
                             /\ R[i].key \in Nat /\ R[i].key <= k
      /\ \A i, j \in DOMAIN R : i < j => R[i].key <= R[j].key
  <2>1. IsSeq(R) /\ RowsOK(R, k) /\ R # <<>>
    BY <1>1 DEF RowsOK
  <2>2. n # 0
    BY <1>1, <2>1, SeqFacts
  <2> QED
    BY <1>1, <2>1, <2>2, RowFacts
<1>3. n \in DOMAIN R /\ 1 \in DOMAIN R /\ n >= 1
  BY <1>2
<1>4. \A i \in DOMAIN R : i < n \/ i = n
  BY <1>2
<1>5. \A i \in DOMAIN R : R[i].key \in Nat /\ R[i].key <= R[n].key
  BY <1>2, <1>3, <1>4
<1>6. R[n].id \in Nat /\ R[n].id >= 1 /\ R[n].key \in Nat /\ R[n].key <= k
  BY <1>2, <1>3
<1>7. Newest(d) = R[n]
  BY <1>1 DEF Newest
<1> QED
  BY <1>1, <1>2, <1>3, <1>5, <1>6, <1>7

LEMMA OneAnchorFacts ==
    ASSUME NEW d, NEW k \in Nat, RowsOK(d.rows, k), OneAnchor(d)
    PROVE  /\ namesNewest(d) /\ d.primary # None /\ d.primary.bound = None
           /\ d.current = None
           /\ d.primary.id = Newest(d).id /\ d.primary.hash = Hash(Newest(d))
           /\ d.primary.mac = auditTailMAC(Newest(d).key, d.primary.id, d.primary.hash)
           /\ \A j : auditTailVerifies(d, j) <=> j = Newest(d).key
<1>1. PICK i, h, x : i = Newest(d).id /\ h = Hash(Newest(d)) /\ x = Newest(d).key
  OBVIOUS
<1>2. /\ i # 0 /\ d.primary = Slot(i, h, auditTailMAC(x, i, h), None) /\ d.current = None
      /\ d.rows # <<>>
  BY <1>1, NewestFacts DEF OneAnchor
<1>3. /\ d.primary.id = i /\ d.primary.hash = h /\ d.primary.bound = None
      /\ d.primary.mac = auditTailMAC(x, i, h) /\ d.primary # None
  BY <1>2, SlotFields
<1>4. \A j : auditTailVerifies(d, j) <=> j = x
  BY <1>3, MacsDiffer DEF auditTailVerifies
<1> QED
  BY <1>1, <1>2, <1>3, <1>4 DEF namesNewest, Names

LEMMA TwoAnchorsFacts ==
    ASSUME NEW d, NEW k \in Nat, RowsOK(d.rows, k), NEW p, TwoAnchorsAt(d, p)
    PROVE  /\ d.rows # <<>> /\ p \in DOMAIN d.rows /\ p \in Nat
           /\ 1 <= p /\ p < Len(d.rows)
           /\ d.rows[p].id \in Nat /\ d.rows[p].id < Newest(d).id
           /\ d.rows[p].key \in Nat /\ d.rows[p].key < Newest(d).key
           /\ d.primary # None
           /\ d.primary.id = d.rows[p].id /\ d.primary.hash = Hash(d.rows[p])
           /\ \A j : auditTailVerifies(d, j) => j = d.rows[p].key
           /\ d.current # None /\ currentNamesNewest(d) /\ ~namesNewest(d)
           /\ d.current.id = Newest(d).id /\ d.current.hash = Hash(Newest(d))
           /\ \A j : currentTailVerifies(d, j) <=> j = Newest(d).key
           /\ \A j : primaryTailVerifiesUnder(d, j) <=> j = d.rows[p].key
<1>0. PICK R, n : R = d.rows /\ n = Len(R)
  OBVIOUS
<1>1. /\ n \in Nat /\ DOMAIN R = 1 .. n /\ p \in DOMAIN R /\ p < n
  BY <1>0, RowFacts DEF TwoAnchorsAt
<1>2. p \in Nat /\ 1 <= p /\ n \in DOMAIN R /\ R # <<>> /\ Newest(d) = R[n]
  BY <1>0, <1>1 DEF Newest
<1>3. /\ R[p].id \in Nat /\ R[p].id >= 1 /\ R[n].id \in Nat /\ R[p].id < R[n].id
      /\ R[p].key \in Nat /\ R[n].key \in Nat /\ R[p].key <= R[n].key
  BY <1>0, <1>1, <1>2, RowFacts
<1>4. R[p].key < R[n].key
  BY <1>0, <1>2, <1>3 DEF TwoAnchorsAt
<1>5. /\ d.primary.id = R[p].id /\ d.primary.hash = Hash(R[p])
      /\ BoundOK(R, p, d.primary)
      /\ d.current = Slot(R[n].id, Hash(R[n]),
                        auditTailCurrentMAC(R[n].key, R[n].id, Hash(R[n]), d.primary), None)
  BY <1>0, <1>2 DEF TwoAnchorsAt
<1>6. d.primary # None
  BY <1>3, <1>5 DEF None
<1>7. /\ d.current # None /\ d.current.id = R[n].id /\ d.current.hash = Hash(R[n])
      /\ d.current.mac = auditTailCurrentMAC(R[n].key, R[n].id, Hash(R[n]), d.primary)
  <2>1. R[n].id # 0
    BY <1>3
  <2> QED
    BY <1>5, <2>1, SlotFields
<1>8. \A j : auditTailVerifies(d, j) => j = R[p].key
  <2> SUFFICES ASSUME NEW j, auditTailVerifies(d, j) PROVE j = R[p].key
    OBVIOUS
  <2>1. d.primary.bound = None /\ d.primary.mac = auditTailMAC(j, d.primary.id, d.primary.hash)
    BY DEF auditTailVerifies
  <2>2. ~ \E q \in DOMAIN R : d.primary.bound.id = R[q].id
    BY <1>0, <2>1, RowFacts DEF None
  <2>3. d.primary.mac = auditTailMAC(R[p].key, d.primary.id, d.primary.hash)
    BY <1>5, <2>2 DEF BoundOK
  <2> QED
    <3>1. PICK i, h, x : i = d.primary.id /\ h = d.primary.hash /\ x = R[p].key
      OBVIOUS
    <3>2. <<j, i, h>> = <<x, i, h>>
      BY <2>1, <2>3, <3>1, Zenon DEF auditTailMAC
    <3> QED
      BY <3>1, <3>2
<1>9. \A j : currentTailVerifies(d, j) <=> j = R[n].key
  BY <1>6, <1>7, MacsDiffer DEF currentTailVerifies
<1>10. currentNamesNewest(d) /\ ~namesNewest(d)
  BY <1>0, <1>2, <1>3, <1>5, <1>7 DEF currentNamesNewest, namesNewest, Names
<1>11. \A j : primaryTailVerifiesUnder(d, j) <=> j = R[p].key
  <2>1. CASE d.primary.bound = None
    <3>2. ~ \E q \in DOMAIN R : d.primary.bound.id = R[q].id
      BY <1>0, <2>1, RowFacts DEF None
    <3>3. d.primary.mac = auditTailMAC(R[p].key, d.primary.id, d.primary.hash)
      BY <1>5, <3>2 DEF BoundOK
    <3> QED
      BY <2>1, <3>3, MacsDiffer DEF primaryTailVerifiesUnder
  <2>2. CASE d.primary.bound # None
    <3>1. d.primary.mac = auditTailCurrentMAC(R[p].key, d.primary.id, d.primary.hash, d.primary.bound)
      BY <1>5, <2>2 DEF BoundOK
    <3> QED
      BY <2>2, <3>1, MacsDiffer DEF primaryTailVerifiesUnder
  <2> QED
    BY <2>1, <2>2
<1> QED
  BY <1>0, <1>1, <1>2, <1>3, <1>4, <1>5, <1>6, <1>7, <1>8, <1>9, <1>10, <1>11

LEMMA CoveredNewest ==
    ASSUME NEW d, NEW k \in Nat, RowsOK(d.rows, k), d.rows # <<>>, NEW j \in Nat,
           Covered(d.rows, j), j <= k
    PROVE  Newest(d).key >= j
<1>1. \A i \in DOMAIN d.rows : d.rows[i].key = j =>  Newest(d).key >= j
  BY NewestFacts
<1> QED
  BY <1>1, NewestFacts DEF Covered

LEMMA CoveredAnchors ==
    ASSUME NEW d, NEW k \in Nat, Keyed(d, k), Covered(d.rows, k), d.rows # <<>>
    PROVE  /\ Newest(d).key = k
           /\ NoAnchors(d) \/ OneAnchor(d)
<1>0. RowsOK(d.rows, k)
  BY DEF Keyed, KeyedLog
<1>1. Newest(d).key = k
  BY <1>0, NewestFacts, CoveredNewest
<1>2. ASSUME NEW p, TwoAnchorsAt(d, p) PROVE FALSE
  <2>1. PICK R : R = d.rows
    OBVIOUS
  <2>2. /\ p \in DOMAIN R /\ R[p].key \in Nat /\ R[p].key < k /\ p \in Nat
    BY <1>0, <1>1, <1>2, <2>1, TwoAnchorsFacts
  <2>3. PICK h \in DOMAIN R : NewestHead(R, h) /\ R[h].key = k
    BY <2>1, <2>2 DEF Covered
  <2>4. h <= p /\ h \in Nat
    BY <1>0, <1>2, <2>1, <2>3, RowFacts DEF TwoAnchorsAt, NewestHead
  <2>5. R[h].key <= R[p].key
    BY <1>0, <2>1, <2>2, <2>3, <2>4, RowFacts
  <2> QED
    BY <2>2, <2>3, <2>5
<1> QED
  BY <1>1, <1>2 DEF Keyed

\* The anchors of a log without rows outstanding verify.
LEMMA CoveredTail ==
    ASSUME NEW d, NEW k \in Nat, Keyed(d, k), Covered(d.rows, k), checkAuditTail(d),
           auditTailAnchorPresent(d)
    PROVE  verifyAuditTail(d, k)
<1>0. RowsOK(d.rows, k)
  BY DEF Keyed, KeyedLog
<1>1. CASE d.primary = None
  BY <1>1 DEF verifyAuditTail
<1>2. CASE d.primary # None
  <2>1. d.rows # <<>>
    BY <1>2 DEF auditTailAnchorPresent
  <2>2. Newest(d).key = k /\ OneAnchor(d)
    BY <1>2, <2>1, CoveredAnchors DEF NoAnchors
  <2> QED
    BY <1>0, <2>2, OneAnchorFacts DEF verifyAuditTail
<1> QED
  BY <1>1, <1>2

-----------------------------------------------------------------------------
(* The verdict *)

LEMMA RunEnds ==
    ASSUME NEW R, NEW k \in Nat, RowsOK(R, k), NEW m, Run(R, k, m), NEW p \in DOMAIN R,
           p < Len(R), R[p].key # R[Len(R)].key,
           \A i \in DOMAIN R : p < i => R[i].key = R[Len(R)].key
    PROVE  IF R[Len(R)].key = k THEN m = p ELSE m = Len(R)
<1>0. PICK n : n = Len(R)
  OBVIOUS
<1>1. /\ n \in Nat /\ DOMAIN R = 1 .. n
      /\ m \in Nat /\ 1 <= m /\ m <= n
  BY <1>0, RunFacts DEF RowsOK
<1>2. \A i \in DOMAIN R : R[i].key # k <=> i <= m
  BY DEF Run
<1>3. p \in Nat /\ p < n /\ n \in DOMAIN R /\ p + 1 \in DOMAIN R /\ p < p + 1
  BY <1>0, <1>1
<1>6. R[p].key # R[n].key /\ \A i \in DOMAIN R : p < i => R[i].key = R[n].key
  BY <1>0
<1>4. CASE R[n].key = k
  <2>1. p <= m
    BY <1>2, <1>4, <1>6
  <2>2. R[p + 1].key = k
    BY <1>3, <1>4, <1>6
  <2>3. ~(p + 1 <= m)
    BY <1>2, <1>3, <2>2
  <2>4. m = p
    BY <1>1, <1>3, <2>1, <2>3
  <2> QED
    BY <1>0, <1>4, <2>4
<1>5. CASE R[n].key # k
  <2>1. n <= m
    BY <1>2, <1>3, <1>5
  <2>2. m = n
    BY <1>1, <2>1
  <2> QED
    BY <1>0, <1>5, <2>2
<1> QED
  BY <1>4, <1>5

\* The anchors of a log with rows outstanding are the ones a change of secret
\* leaves.
LEMMA RotatedTail ==
    ASSUME NEW d, NEW k \in Nat, Keyed(d, k), NEW m, Run(d.rows, k, m)
    PROVE  checkRotatedAuditTail(d, k, d.rows[m])
<1>0. RowsOK(d.rows, k)
  BY DEF Keyed, KeyedLog
<1>1. PICK R, n : R = d.rows /\ n = Len(R)
  OBVIOUS
<1>2. /\ n \in Nat /\ DOMAIN R = 1 .. n /\ R # <<>> /\ m \in DOMAIN R /\ n \in DOMAIN R
      /\ m \in Nat /\ m <= n /\ R[m].key # k
      /\ \A i \in DOMAIN R : R[i].key # k <=> i <= m
  <2>1. /\ n \in Nat /\ DOMAIN R = 1 .. n /\ R # <<>> /\ m \in DOMAIN R
        /\ m \in Nat /\ 1 <= m /\ m <= n /\ R[m].key # k
    BY <1>0, <1>1, RunFacts DEF RowsOK
  <2> QED
    BY <1>1, <2>1 DEF Run
<1>3. CASE NoAnchors(d)
  BY <1>3 DEF NoAnchors, checkRotatedAuditTail
<1>4. CASE OneAnchor(d)
  <2>1. /\ namesNewest(d) /\ d.primary.bound = None /\ d.current = None
        /\ d.primary.id = Newest(d).id /\ d.primary.hash = Hash(Newest(d))
        /\ auditTailVerifies(d, k) <=> k = Newest(d).key
    BY <1>0, <1>4, OneAnchorFacts
  <2>2. CASE Newest(d).key = k
    BY <2>1, <2>2 DEF checkRotatedAuditTail
  <2>3. CASE Newest(d).key # k
    <3>1. Newest(d) = R[n]
      BY <1>1 DEF Newest
    <3>2. m = n
      BY <1>2, <2>3, <3>1
    <3>3. Newest(d) = d.rows[m]
      BY <1>1, <3>1, <3>2
    <3>4. verifyAuditTailCurrent(d, k, d.rows[m])
      BY <2>1, <3>3 DEF verifyAuditTailCurrent
    <3>5. checkAuditTailBinding(d, d.primary.id, d.primary.bound)
      BY <2>1 DEF checkAuditTailBinding
    <3>6. ~auditTailVerifies(d, k)
      BY <2>1, <2>3
    <3> QED
      BY <2>1, <3>3, <3>4, <3>5, <3>6 DEF checkRotatedAuditTail
  <2> QED
    BY <2>2, <2>3
<1>5. ASSUME NEW p, TwoAnchorsAt(d, p) PROVE checkRotatedAuditTail(d, k, d.rows[m])
  <2>1. /\ p \in DOMAIN R /\ p \in Nat /\ p < n /\ Newest(d) = R[n]
        /\ R[p].id \in Nat /\ R[n].id \in Nat /\ R[p].id < R[n].id
        /\ R[p].key \in Nat /\ R[n].key \in Nat /\ R[p].key < R[n].key
        /\ d.primary.id = R[p].id /\ d.primary.hash = Hash(R[p])
        /\ \A j : auditTailVerifies(d, j) => j = R[p].key
        /\ currentNamesNewest(d) /\ d.current.id = R[n].id
        /\ \A j : currentTailVerifies(d, j) <=> j = R[n].key
    <3>1. /\ p \in DOMAIN R /\ p \in Nat /\ p < n
          /\ R[p].id \in Nat /\ R[p].id < Newest(d).id
          /\ R[p].key \in Nat /\ R[p].key < Newest(d).key
          /\ d.primary.id = R[p].id /\ d.primary.hash = Hash(R[p])
          /\ \A j : auditTailVerifies(d, j) => j = R[p].key
          /\ currentNamesNewest(d) /\ d.current.id = Newest(d).id
          /\ \A j : currentTailVerifies(d, j) <=> j = Newest(d).key
      BY <1>0, <1>1, <1>5, TwoAnchorsFacts
    <3>2. Newest(d) = R[n] /\ R[n].id \in Nat /\ R[n].key \in Nat
      BY <1>0, <1>1, <1>2, NewestFacts
    <3> QED
      BY <3>1, <3>2
  <2>2. /\ \A i \in DOMAIN R : p < i => R[i].key = R[n].key
        /\ BoundOK(R, p, d.primary)
    BY <1>1, <1>5, <2>1 DEF TwoAnchorsAt
  <2>3. IF R[n].key = k THEN m = p ELSE m = n
    BY <1>0, <1>1, <2>1, <2>2, RunEnds
  <2>4. ~auditTailVerifies(d, k)
    <3>1. p <= m
      BY <1>2, <2>1, <2>3
    <3> QED
      BY <1>2, <2>1, <3>1
  <2>5. CASE R[n].key = k
    <3>1. m = p /\ currentTailVerifies(d, k)
      BY <2>1, <2>3, <2>5
    <3>2. verifyAuditTailCurrent(d, k, d.rows[m])
      BY <1>1, <2>1, <3>1 DEF verifyAuditTailCurrent
    <3>3. checkAuditTailBinding(d, d.primary.id, d.primary.bound)
      <4>1. CASE d.primary.bound = None
        BY <4>1 DEF checkAuditTailBinding
      <4>2. CASE d.primary.bound # None
        <5>1. PICK q \in DOMAIN R : /\ q < p /\ d.primary.bound.id = R[q].id
                                    /\ d.primary.bound.hash = Hash(R[q])
          BY <2>2, <4>2 DEF BoundOK
        <5>2. R[q].id < R[p].id
          BY <1>0, <1>1, <2>1, <5>1, RowFacts
        <5>3. R[q] \in auditTailBoundRow(d, d.primary.bound, d.primary.id)
          BY <1>1, <2>1, <5>1, <5>2 DEF auditTailBoundRow
        <5> QED
          BY <5>3 DEF checkAuditTailBinding
      <4> QED
        BY <4>1, <4>2
    <3> QED
      BY <1>1, <2>1, <2>4, <3>1, <3>2, <3>3 DEF checkRotatedAuditTail
  <2>6. CASE R[n].key # k
    <3>1. m = n /\ ~currentTailVerifies(d, k)
      BY <2>1, <2>3, <2>6
    <3>2. R[p] \in auditTailBoundRow(d, Binding(d.primary), d.current.id)
      BY <1>1, <2>1 DEF auditTailBoundRow, Binding
    <3>3. checkAuditTailBinding(d, d.current.id, Binding(d.primary))
      BY <3>2 DEF checkAuditTailBinding
    <3>4. d.rows[m] = R[n] /\ d.primary.id # d.rows[m].id
      BY <1>1, <2>1, <3>1
    <3> QED
      BY <2>1, <2>4, <3>1, <3>3, <3>4 DEF checkRotatedAuditTail
  <2> QED
    BY <2>5, <2>6
<1> QED
  BY <1>3, <1>4, <1>5 DEF Keyed

LEMMA KeyChangeSeen ==
    ASSUME NEW d, NEW k \in Nat, Keyed(d, k), checkAuditTail(d), NEW m, Run(d.rows, k, m)
    PROVE  looksLikeKeyChange(d, k) <=> auditTailAnchorPresent(d)
<1>0. RowsOK(d.rows, k) /\ IsSeq(d.rows)
  BY DEF Keyed, KeyedLog, RowsOK
<1>1. rotatedRun(d.rows, k) = m
  BY <1>0, RotatedRun
<1>2. m # 0
  BY <1>0, RunFacts
<1>3. checkRotatedAuditTail(d, k, d.rows[m])
  BY RotatedTail
<1>4. verifyAuditTailAfterKeyChange(d, k, d.rows[m]) <=> auditTailAnchorPresent(d)
  BY <1>3 DEF verifyAuditTailAfterKeyChange
<1>5. looksLikeKeyChange(d, k) <=>
        rotatedRun(d.rows, k) # 0
          /\ verifyAuditTailAfterKeyChange(d, k, d.rows[rotatedRun(d.rows, k)])
  BY DEF looksLikeKeyChange
<1> QED
  BY <1>1, <1>2, <1>4, <1>5

LEMMA CoveredVerdict ==
    ASSUME NEW d, NEW k \in Nat, Keyed(d, k), Covered(d.rows, k), checkAuditTail(d),
           auditTailAnchorPresent(d)
    PROVE  verifyAuditLog(d, k) = "ok"
<1>1. verifyRows(d, k, verifyAnchor(d, k)) = "sequence"
  BY CoveredVerifies DEF Keyed
<1>2. verifyAuditTail(d, k)
  BY CoveredTail
<1> QED
  BY <1>1, <1>2 DEF verifyAuditLog

LEMMA UncoveredVerdict ==
    ASSUME NEW d, NEW k \in Nat, Keyed(d, k), checkAuditTail(d), NEW m, Run(d.rows, k, m)
    PROVE  verifyAuditLog(d, k)
             = IF auditTailAnchorPresent(d) THEN "mismatch" ELSE "broken"
<1>1. verifyRows(d, k, verifyAnchor(d, k)) = "shape"
  BY UncoveredVerifies DEF Keyed
<1>2. looksLikeKeyChange(d, k) <=> auditTailAnchorPresent(d)
  BY KeyChangeSeen
<1> QED
  BY <1>1, <1>2 DEF verifyAuditLog

\* The rows of a run are outstanding.
LEMMA RunOutstanding ==
    ASSUME NEW m, KeyedLog(db.rows, secret), Run(db.rows, secret, m),
           NEW i \in DOMAIN db.rows, i <= m
    PROVE  i \in Outstanding
<1>1. db.rows[i].key # secret
  BY DEF Run
<1>2. ASSUME NEW j \in anchorRows(db.rows), db.rows[j].key = secret,
             inHistory(db.rows[j], db.rows[i])
      PROVE  FALSE
  <2>1. j \in DOMAIN db.rows /\ db.rows[j].hist # None
    BY <1>2 DEF anchorRows, inHistory
  <2>2. j \in Heads(db.rows)
    BY <2>1 DEF KeyedLog, HistoriesOK
  <2> QED
    BY <1>2, <2>1, <2>2 DEF Run
<1> QED
  BY <1>1, <1>2 DEF Outstanding

LEMMA OutstandingCovered ==
    ASSUME secret \in Nat, KeyedLog(db.rows, secret)
    PROVE  Outstanding = {} <=> Covered(db.rows, secret)
<1>0. RowsOK(db.rows, secret)
  BY DEF KeyedLog
<1>1. CASE Covered(db.rows, secret)
  <2> SUFFICES ASSUME NEW i \in Outstanding PROVE FALSE
    BY <1>1
  <2>1. i \in DOMAIN db.rows /\ db.rows[i].key # secret
    BY DEF Outstanding
  <2>2. PICK h \in DOMAIN db.rows : NewestHead(db.rows, h) /\ db.rows[h].key = secret
    BY <1>1, <2>1 DEF Covered
  <2>3. h < i => db.rows[h].key <= db.rows[i].key /\ db.rows[i].key \in Nat
                  /\ db.rows[i].key <= secret
    BY <1>0, <2>1, <2>2, RowFacts
  <2>4. i < h
    <3>1. i \in Nat /\ h \in Nat /\ i # h
      BY <1>0, <2>1, <2>2, RowFacts
    <3> QED
      BY <2>1, <2>2, <2>3, <3>1
  <2>5. inHistory(db.rows[h], db.rows[i]) \/ db.rows[i].key = db.rows[h].key
    BY <2>1, <2>2, <2>4 DEF KeyedLog, HeadOK
  <2>6. h \in anchorRows(db.rows)
    BY <2>2 DEF NewestHead, Heads
  <2> QED
    BY <2>1, <2>2, <2>5, <2>6 DEF Outstanding
<1>2. CASE ~Covered(db.rows, secret)
  <2>1. PICK m : Run(db.rows, secret, m)
    BY <1>2, UncoveredRun
  <2>2. 1 \in DOMAIN db.rows /\ 1 <= m
    BY <1>0, <2>1, RunFacts DEF RowsOK
  <2> QED
    BY <1>2, <2>1, <2>2, RunOutstanding
<1> QED
  BY <1>1, <1>2

LEMMA KeyedNotTampered ==
    ASSUME secret \in Nat, Keyed(db, secret), Linear(db)
    PROVE  RotationIsNotTampering
<1> SUFFICES ASSUME auditTailAnchorPresent(db)
             PROVE  verifyAuditLog(db, secret) = IF Outstanding = {} THEN "ok" ELSE "mismatch"
  BY DEF RotationIsNotTampering
<1>1. Outstanding = {} <=> Covered(db.rows, secret)
  BY OutstandingCovered DEF Keyed
<1>2. CASE Covered(db.rows, secret)
  BY <1>1, <1>2, CoveredVerdict DEF Linear
<1>3. CASE ~Covered(db.rows, secret)
  <2>1. PICK m : Run(db.rows, secret, m)
    BY <1>3, UncoveredRun DEF Keyed
  <2> QED
    BY <1>1, <1>3, <2>1, UncoveredVerdict DEF Linear
<1> QED
  BY <1>2, <1>3

-----------------------------------------------------------------------------
(* The purge *)

\* A log without rows outstanding may be purged, whatever the cut.
LEMMA CoveredPurges ==
    ASSUME NEW d, NEW k \in Nat, KeyedLog(d.rows, k), Covered(d.rows, k), NEW c
    PROVE  verifyAuditPurgePrefix(d, k, c) = "ok"
<1>1. PICK R, a : R = d.rows /\ a = findAuditAnchor(R, k)
  OBVIOUS
<1>0. RowsOK(R, k) /\ KeyedLog(R, k)
  BY <1>1 DEF KeyedLog
<1>2. /\ ~a.err
      /\ \A i \in DOMAIN R : ~inHistory(a.rec, R[i]) => R[i].key = k
      /\ historyMatches(R, a.rec)
      /\ \/ a.rec = None /\ Heads(R) = {}
         \/ \E h \in DOMAIN R : NewestHead(R, h) /\ a.rec = R[h] /\ a.rec # None
  BY <1>1, CoveredRows
<1>3. \A i \in DOMAIN R : Links(R, i) /\ (~inHistory(a.rec, R[i]) => auditRowVerifies(R[i], k))
  BY <1>0, <1>2, RowFacts DEF auditRowVerifies
<1>4. 1 \in DOMAIN R => purgeBegins(R[1], a)
  <2> SUFFICES ASSUME 1 \in DOMAIN R PROVE purgeBegins(R[1], a)
    OBVIOUS
  <2>1. CASE a.rec # None
    <3>1. PICK h \in DOMAIN R : NewestHead(R, h) /\ a.rec = R[h]
      BY <1>2, <2>1
    <3>2. Hash(R[1]) = R[h].head
      BY <1>0, <3>1 DEF KeyedLog, HeadOK
    <3> QED
      BY <2>1, <3>1, <3>2 DEF purgeBegins
  <2>2. CASE a.rec = None
    <3>1. Heads(R) = {} /\ R # <<>>
      BY <1>2, <2>2
    <3>2. IF R[1].prev = NoHash THEN R[1].id = 1
          ELSE \E i \in DOMAIN R : R[i].action = "purge" /\ R[i].key = R[1].key
      BY <1>0, <3>1 DEF KeyedLog, GenesisOK
    <3>3. R[1].prev # NoHash => a.purgeSeen
      <4>1. R[1].prev # NoHash => \E i \in anchorRows(R) : R[i].action = "purge"
        BY <3>2 DEF anchorRows
      <4> QED
        BY <1>1, <3>1, <4>1, NoAnchorFound
    <3>4. R[1].prev = NoHash => auditGenesisAllowed(R[1])
      BY <3>2 DEF auditGenesisAllowed
    <3> QED
      BY <2>2, <3>3, <3>4 DEF purgeBegins
  <2> QED
    BY <2>1, <2>2
<1> DEFINE read == {i \in DOMAIN R : i <= c \/ inHistory(a.rec, R[i])}
           own  == {i \in read : ~inHistory(a.rec, R[i])}
           unverified == {i \in own : ~auditRowVerifies(R[i], k)}
           misplaced  == {i \in read : IF i = 1 THEN ~purgeBegins(R[1], a)
                                       ELSE i \in own /\ ~Links(R, i)}
<1>5. unverified = {}
  BY <1>3
<1>6. misplaced = {}
  <2> SUFFICES ASSUME NEW i \in misplaced PROVE FALSE
    OBVIOUS
  <2>1. i \in DOMAIN R
    OBVIOUS
  <2> QED
    BY <1>3, <1>4, <2>1
<1>7. prefixWalk(R, k, a, c)
        = IF unverified = {} /\ misplaced = {}
          THEN IF historyMatches(R, a.rec) THEN "ok" ELSE "broken"
          ELSE IF unverified # {} /\ (\A i \in misplaced : Min(unverified) <= i)
          THEN "unverified" ELSE "broken"
  BY DEF prefixWalk
<1> HIDE DEF read, own, unverified, misplaced
<1>8. prefixWalk(R, k, a, c) = "ok"
  BY <1>2, <1>5, <1>6, <1>7
<1>9. checkAuditAnchorLinks(R, a.rec)
  <2>1. \A i \in DOMAIN R : i < Len(R) => i + 1 \in DOMAIN R
    BY <1>0, RowFacts
  <2> QED
    BY <1>3, <2>1 DEF checkAuditAnchorLinks
<1> QED
  BY <1>1, <1>2, <1>8, <1>9 DEF verifyAuditPurgePrefix

\* A log with rows outstanding is refused with the verifier's reason.
LEMMA UncoveredPurges ==
    ASSUME NEW d, NEW k \in Nat, KeyedLog(d.rows, k), NEW m, Run(d.rows, k, m),
           NEW c \in 2 .. Len(d.rows)
    PROVE  verifyAuditPurgePrefix(d, k, c)
             = IF looksLikeKeyChange(d, k) THEN "mismatch" ELSE "broken"
<1>1. PICK R, a : R = d.rows /\ a = findAuditAnchor(R, k)
  OBVIOUS
<1>0. RowsOK(R, k) /\ IsSeq(R) /\ Run(R, k, m)
  BY <1>1 DEF KeyedLog, RowsOK
<1>2. auditPurgeUnverified(d, k, FALSE)
        = IF looksLikeKeyChange(d, k) THEN "mismatch" ELSE "broken"
  BY DEF auditPurgeUnverified
<1>3. CASE a.err
  BY <1>1, <1>2, <1>3 DEF verifyAuditPurgePrefix
<1>4. CASE ~a.err
  <2>1. Heads(R) = {}
    <3> SUFFICES ASSUME Heads(R) # {} PROVE FALSE
      OBVIOUS
    <3>1. PICK h \in DOMAIN R : NewestHead(R, h)
      BY <1>0, NewestHeadExists
    <3>2. h \in anchorRows(R) /\ h >= h /\ R[h].key # k
      <4>1. h \in Nat /\ h \in Heads(R)
        BY <1>0, <3>1, SeqFacts DEF NewestHead
      <4> QED
        BY <1>0, <3>1, <4>1 DEF Run, Heads
    <3> QED
      BY <1>0, <1>1, <1>4, <3>1, <3>2, AnchorFound DEF auditRowVerifies
  <2>2. a.rec = None
    BY <1>1, <2>1, NoAnchorFound
  <2> DEFINE read == {i \in DOMAIN R : i <= c \/ inHistory(a.rec, R[i])}
             own  == {i \in read : ~inHistory(a.rec, R[i])}
             unverified == {i \in own : ~auditRowVerifies(R[i], k)}
             misplaced  == {i \in read : IF i = 1 THEN ~purgeBegins(R[1], a)
                                         ELSE i \in own /\ ~Links(R, i)}
  <2>3. /\ 1 \in DOMAIN R /\ R[1].key # k
        /\ \A i \in DOMAIN R : i \in Nat /\ 1 <= i
    BY <1>0, RunFacts
  <2>4. 1 \in unverified /\ unverified \in SUBSET Nat /\ \A i \in unverified : 1 <= i
    <3>1. 1 <= c
      OBVIOUS
    <3>2. 1 \in own
      BY <2>2, <2>3, <3>1 DEF inHistory
    <3> QED
      BY <2>3, <3>2 DEF auditRowVerifies
  <2>5. \A i \in misplaced : 1 <= i
    BY <2>3
  <2>6. prefixWalk(R, k, a, c)
        = IF unverified = {} /\ misplaced = {}
          THEN IF historyMatches(R, a.rec) THEN "ok" ELSE "broken"
          ELSE IF unverified # {} /\ (\A i \in misplaced : Min(unverified) <= i)
          THEN "unverified" ELSE "broken"
    BY DEF prefixWalk
  <2> HIDE DEF read, own, unverified, misplaced
  <2>7. Min(unverified) = 1 /\ unverified # {}
    BY <2>4, MinIs
  <2>8. prefixWalk(R, k, a, c) = "unverified"
    BY <2>5, <2>6, <2>7, Zenon
  <2> QED
    BY <1>1, <1>2, <1>4, <2>2, <2>8 DEF verifyAuditPurgePrefix
<1> QED
  BY <1>3, <1>4

\* While the server runs, an anchor exists unless the secret changed.
Opened(d, k) == d.primary = None /\ d.rows # <<>> => d.rows[1].key # k

\* A log without rows outstanding has its anchor by then.
LEMMA OpenedCovered ==
    ASSUME NEW d, NEW k \in Nat, Keyed(d, k), Opened(d, k), d.rows # <<>>,
           Covered(d.rows, k)
    PROVE  d.primary # None /\ OneAnchor(d) /\ auditTailAnchorPresent(d)
<1>0. RowsOK(d.rows, k)
  BY DEF Keyed, KeyedLog
<1>1. d.primary # None
  <2> SUFFICES ASSUME d.primary = None PROVE FALSE
    OBVIOUS
  <2>1. NoAnchors(d)
    BY <1>0, CoveredAnchors, OneAnchorFacts
  <2>2. d.rows[1].key # k /\ Heads(d.rows) = {} /\ 1 \in DOMAIN d.rows
    BY <1>0, <2>1, NewestFacts DEF Opened, NoAnchors
  <2> QED
    BY <2>2 DEF Covered, NewestHead
<1>2. OneAnchor(d)
  BY <1>1, CoveredAnchors DEF NoAnchors
<1> QED
  BY <1>1, <1>2 DEF auditTailAnchorPresent

LEMMA KeyedPurgeAgrees ==
    ASSUME secret \in Nat, Keyed(db, secret), Linear(db), up => Opened(db, secret)
    PROVE  PurgeAgreesWithVerifier
<1> SUFFICES ASSUME up, NEW c \in 2 .. Len(db.rows)
             PROVE  verifyAuditPurgePrefix(db, secret, c) = verifyAuditLog(db, secret)
  BY DEF PurgeAgreesWithVerifier
<1>0. IsSeq(db.rows) /\ KeyedLog(db.rows, secret) /\ checkAuditTail(db)
  BY DEF Keyed, KeyedLog, RowsOK, Linear
<1>1. db.rows # <<>>
  BY <1>0, SeqFacts
<1>2. CASE Covered(db.rows, secret)
  <2>1. auditTailAnchorPresent(db)
    BY <1>1, <1>2, OpenedCovered
  <2>2. verifyAuditLog(db, secret) = "ok"
    BY <1>0, <1>2, <2>1, CoveredVerdict
  <2>3. verifyAuditPurgePrefix(db, secret, c) = "ok"
    BY <1>0, <1>2, CoveredPurges
  <2> QED
    BY <2>2, <2>3
<1>3. CASE ~Covered(db.rows, secret)
  <2>1. PICK m : Run(db.rows, secret, m)
    BY <1>0, <1>3, UncoveredRun
  <2>2. verifyAuditLog(db, secret)
          = IF auditTailAnchorPresent(db) THEN "mismatch" ELSE "broken"
    BY <1>0, <2>1, UncoveredVerdict
  <2>3. verifyAuditPurgePrefix(db, secret, c)
          = IF looksLikeKeyChange(db, secret) THEN "mismatch" ELSE "broken"
    BY <1>0, <2>1, UncoveredPurges
  <2>4. looksLikeKeyChange(db, secret) <=> auditTailAnchorPresent(db)
    BY <1>0, <2>1, KeyChangeSeen
  <2> QED
    BY <2>2, <2>3, <2>4
<1> QED
  BY <1>2, <1>3

-----------------------------------------------------------------------------
(* The proof of a single change of secret *)

LEMMA SeqPrefix ==
    ASSUME NEW s, IsSeq(s), NEW m \in Nat, m <= Len(s)
    PROVE  /\ IsSeq(SubSeq(s, 1, m)) /\ Len(SubSeq(s, 1, m)) = m
           /\ DOMAIN SubSeq(s, 1, m) = 1 .. m
           /\ \A i \in 1 .. m : SubSeq(s, 1, m)[i] = s[i]
<1>1. PICK S : s \in Seq(S)
  BY DEF IsSeq
<1>2. PICK P : P = SubSeq(s, 1, m)
  OBVIOUS
<1>3. P = [i \in 1 .. m |-> s[i]]
  BY <1>1, <1>2
<1>4. P \in Seq(S) /\ Len(P) = m /\ DOMAIN P = 1 .. m
  BY <1>1, <1>3
<1> QED
  BY <1>2, <1>3, <1>4 DEF IsSeq

LEMMA PrefixRows ==
    ASSUME NEW R, NEW k \in Nat, RowsOK(R, k), NEW m \in Nat, m <= Len(R),
           NEW P, IsSeq(P), Len(P) = m, \A i \in 1 .. m : P[i] = R[i]
    PROVE  /\ RowsOK(P, k) /\ DOMAIN P = 1 .. m
           /\ \A i \in 1 .. m : P[i] = R[i] /\ i \in DOMAIN R
           /\ (\A h \in Heads(R) : h <= m) => Heads(P) = Heads(R)
<1>1. /\ IsSeq(P) /\ DOMAIN P = 1 .. m /\ Len(P) = m
      /\ \A i \in 1 .. m : P[i] = R[i]
  BY SeqFacts
<1>2. Len(R) \in Nat /\ DOMAIN R = 1 .. Len(R)
  BY RowFacts
<1>3. \A i \in 1 .. m : i \in DOMAIN R
  BY <1>2
<1>4. \A i \in DOMAIN P : Links(P, i)
  <2> SUFFICES ASSUME NEW i \in DOMAIN P PROVE Links(P, i)
    OBVIOUS
  <2>1. Links(R, i) /\ P[i] = R[i]
    BY <1>1, <1>3 DEF RowsOK
  <2>2. i # 1 => P[i - 1] = R[i - 1]
    <3>1. i # 1 => i - 1 \in 1 .. m
      BY <1>1
    <3> QED
      BY <1>1, <3>1
  <2> QED
    BY <2>1, <2>2 DEF Links
<1>5. RowsOK(P, k)
  <2>1. \A i \in DOMAIN P : P[i] = R[i] /\ i \in DOMAIN R
    BY <1>1, <1>3
  <2>2. \A i \in DOMAIN P : /\ P[i].id \in Nat /\ P[i].id >= 1
                            /\ P[i].key \in 1 .. k /\ P[i].version \in 2 .. 3
    BY <2>1 DEF RowsOK
  <2>3. Ordered(P)
    BY <2>1 DEF RowsOK, Ordered
  <2> QED
    BY <1>1, <1>4, <2>2, <2>3 DEF RowsOK
<1>6. ASSUME \A h \in Heads(R) : h <= m PROVE Heads(P) = Heads(R)
  <2>1. \A i \in 1 .. m : i \in Heads(P) <=> i \in Heads(R)
    BY <1>1, <1>3 DEF Heads, anchorRows
  <2>2. \A i \in Heads(P) : i \in 1 .. m
    BY <1>1 DEF Heads, anchorRows
  <2>3. \A i \in Heads(R) : i \in 1 .. m
    <3> SUFFICES ASSUME NEW i \in Heads(R) PROVE i \in 1 .. m
      OBVIOUS
    <3>1. i \in DOMAIN R /\ i <= m
      BY <1>6 DEF Heads, anchorRows
    <3> QED
      BY <1>2, <3>1
  <2> QED
    BY <2>1, <2>2, <2>3
<1> QED
  BY <1>1, <1>3, <1>5, <1>6

\* The rows of the run verify under the one secret they were signed with.
LEMMA HistoryProven ==
    ASSUME NEW d, NEW k \in Nat, KeyedLog(d.rows, k), NEW m, Run(d.rows, k, m),
           NEW pk \in Nat, \A i \in DOMAIN d.rows : d.rows[i].key \in {pk, k}
    PROVE  proveAuditHistory(d, pk, m)
<1>1. PICK R, P : R = d.rows /\ P = SubSeq(R, 1, m)
  OBVIOUS
<1>0. RowsOK(R, k) /\ IsSeq(R) /\ Run(R, k, m) /\ KeyedLog(R, k)
  BY <1>1 DEF KeyedLog, RowsOK
<1>2. m \in Nat /\ 1 <= m /\ m <= Len(R)
  BY <1>0, RunFacts
<1>3. /\ RowsOK(P, k) /\ DOMAIN P = 1 .. m
      /\ \A i \in 1 .. m : P[i] = R[i] /\ i \in DOMAIN R
      /\ Heads(P) = Heads(R)
  <2>1. \A h \in Heads(R) : h <= m
    BY <1>0 DEF Run
  <2>2. /\ RowsOK(P, k) /\ DOMAIN P = 1 .. m
        /\ \A i \in 1 .. m : P[i] = R[i] /\ i \in DOMAIN R
        /\ (\A h \in Heads(R) : h <= m) => Heads(P) = Heads(R)
    <3>1. IsSeq(P) /\ Len(P) = m /\ \A i \in 1 .. m : P[i] = R[i]
      BY <1>0, <1>1, <1>2, SeqPrefix
    <3> QED
      BY <1>0, <1>2, <3>1, PrefixRows
  <2> QED
    BY <2>1, <2>2
<1>4. \A i \in DOMAIN P : P[i].key = pk
  <2> SUFFICES ASSUME NEW i \in DOMAIN P PROVE P[i].key = pk
    OBVIOUS
  <2>1. P[i] = R[i] /\ i \in DOMAIN R /\ i <= m
    BY <1>2, <1>3
  <2> QED
    BY <1>0, <1>1, <2>1 DEF Run
<1>5. chainWalk(P, pk, None).result = "ok"
  BY <1>3, <1>4, WalkOk
<1>6. headCheck(P, None)
  <2> DEFINE seen == {i \in anchorRows(P) : ~inHistory(None, P[i])}
             heads == {i \in seen : P[i].head # NoHash}
  <2>1. seen = anchorRows(P) /\ heads = Heads(P)
    BY DEF inHistory, Heads
  <2>2. headCheck(P, None) <=>
          \/ P = <<>>
          \/ heads # {} /\ Hash(P[1]) = P[Max(heads)].head
          \/ /\ heads = {}
             /\ P[1].prev = NoHash => auditGenesisAllowed(P[1])
             /\ P[1].prev # NoHash => \E i \in seen : P[i].action = "purge"
    BY DEF headCheck
  <2> HIDE DEF seen, heads
  <2>3. P[1] = R[1]
    BY <1>2, <1>3
  <2>4. CASE Heads(R) # {}
    <3>1. PICK h \in DOMAIN R : NewestHead(R, h)
      BY <1>0, <2>4, NewestHeadExists
    <3>2. heads \in SUBSET Nat /\ h \in heads /\ \A i \in heads : i <= h
      <4>1. \A i \in Heads(P) : i \in 1 .. m
        BY <1>3 DEF Heads, anchorRows
      <4> QED
        BY <1>2, <1>3, <2>1, <3>1, <4>1 DEF NewestHead
    <3>3. Max(heads) = h
      BY <3>2, MaxIs
    <3>4. P[h] = R[h]
      <4>1. h \in DOMAIN P
        BY <1>3, <3>1 DEF NewestHead, Heads, anchorRows
      <4> QED
        BY <1>3, <4>1
    <3>5. Hash(R[1]) = R[h].head
      BY <1>0, <3>1 DEF KeyedLog, HeadOK
    <3> QED
      BY <2>2, <2>3, <3>2, <3>3, <3>4, <3>5
  <2>5. CASE Heads(R) = {}
    <3>1. R # <<>> /\ 1 \in DOMAIN R /\ R[1].key # k
      BY <1>0, RunFacts
    <3>2. IF R[1].prev = NoHash THEN R[1].id = 1
          ELSE \E i \in DOMAIN R : R[i].action = "purge" /\ R[i].key = R[1].key
      BY <1>0, <2>5, <3>1 DEF KeyedLog, GenesisOK
    <3>3. R[1].prev # NoHash => \E i \in seen : P[i].action = "purge"
      <4> SUFFICES ASSUME R[1].prev # NoHash PROVE \E i \in seen : P[i].action = "purge"
        OBVIOUS
      <4>1. PICK i \in DOMAIN R : R[i].action = "purge" /\ R[i].key = R[1].key
        BY <3>2
      <4>2. i \in 1 .. m
        <5>1. i <= m /\ i \in 1 .. Len(R)
          BY <1>0, <3>1, <4>1, RunFacts DEF Run
        <5> QED
          BY <1>2, <5>1
      <4>3. P[i] = R[i] /\ i \in DOMAIN P
        BY <1>3, <4>2
      <4>4. i \in anchorRows(P)
        BY <4>1, <4>3 DEF anchorRows
      <4> QED
        BY <2>1, <4>1, <4>3, <4>4
    <3>4. R[1].prev = NoHash => auditGenesisAllowed(R[1])
      BY <3>2 DEF auditGenesisAllowed
    <3>5. heads = {}
      BY <1>3, <2>1, <2>5
    <3> QED
      BY <2>2, <2>3, <3>3, <3>4, <3>5
  <2> QED
    BY <2>4, <2>5
<1> QED
  BY <1>1, <1>5, <1>6 DEF proveAuditHistory

\* So do the anchors it left.
LEMMA TailProven ==
    ASSUME NEW d, NEW k \in Nat, Keyed(d, k), NEW m, Run(d.rows, k, m),
           NEW pk \in Nat, pk < k, \A i \in DOMAIN d.rows : d.rows[i].key \in {pk, k}
    PROVE  proveAuditReanchorTail(d, k, pk, d.rows[m])
<1>1. PICK R, n : R = d.rows /\ n = Len(R)
  OBVIOUS
<1>0. RowsOK(R, k) /\ IsSeq(R) /\ Run(R, k, m) /\ RowsOK(d.rows, k)
  BY <1>1 DEF Keyed, KeyedLog, RowsOK
<1>2. /\ n \in Nat /\ DOMAIN R = 1 .. n /\ R # <<>> /\ m \in DOMAIN R /\ n \in DOMAIN R
      /\ m \in Nat /\ m <= n /\ R[m].key # k /\ Newest(d) = R[n]
      /\ \A i \in DOMAIN R : R[i].key # k <=> i <= m
  <2>1. /\ n \in Nat /\ DOMAIN R = 1 .. n /\ R # <<>> /\ m \in DOMAIN R
        /\ m \in Nat /\ 1 <= m /\ m <= n /\ R[m].key # k
    BY <1>0, <1>1, RunFacts
  <2> QED
    BY <1>0, <1>1, <2>1 DEF Run, Newest
<1>3. CASE NoAnchors(d)
  BY <1>3 DEF NoAnchors, proveAuditReanchorTail
<1>4. CASE OneAnchor(d)
  <2>1. /\ d.primary.bound = None /\ d.current = None
        /\ d.primary.id = Newest(d).id /\ d.primary.hash = Hash(Newest(d))
        /\ d.primary.mac = auditTailMAC(Newest(d).key, d.primary.id, d.primary.hash)
        /\ auditTailVerifies(d, k) <=> k = Newest(d).key
    BY <1>0, <1>4, OneAnchorFacts
  <2>2. CASE Newest(d).key = k
    BY <2>1, <2>2 DEF proveAuditReanchorTail
  <2>3. CASE Newest(d).key # k
    <3>1. m = n
      BY <1>2, <2>3
    <3>2. d.rows[m] = Newest(d) /\ Newest(d).key = pk
      BY <1>1, <1>2, <2>3, <3>1
    <3>3. primaryTailVerifiesUnder(d, pk)
      BY <2>1, <3>2 DEF primaryTailVerifiesUnder
    <3>4. proveAuditTailBinding(d, pk, d.primary.id, d.primary.bound)
      BY <2>1 DEF proveAuditTailBinding
    <3> QED
      BY <2>1, <3>2, <3>3, <3>4 DEF proveAuditReanchorTail
  <2> QED
    BY <2>2, <2>3
<1>5. ASSUME NEW p, TwoAnchorsAt(d, p) PROVE proveAuditReanchorTail(d, k, pk, d.rows[m])
  <2>1. /\ p \in DOMAIN R /\ p \in Nat /\ p < n
        /\ R[p].key \in Nat /\ R[p].key < Newest(d).key
        /\ d.primary.id = R[p].id /\ d.primary.hash = Hash(R[p])
        /\ \A j : currentTailVerifies(d, j) <=> j = Newest(d).key
        /\ \A j : primaryTailVerifiesUnder(d, j) <=> j = R[p].key
    <3>0. RowsOK(d.rows, k)
      BY <1>0
    <3>1. /\ p \in DOMAIN d.rows /\ p \in Nat /\ p < Len(d.rows)
          /\ d.rows[p].key \in Nat /\ d.rows[p].key < Newest(d).key
          /\ d.primary.id = d.rows[p].id /\ d.primary.hash = Hash(d.rows[p])
      BY <1>5, <3>0, TwoAnchorsFacts
    <3>2. /\ \A j : currentTailVerifies(d, j) <=> j = Newest(d).key
          /\ \A j : primaryTailVerifiesUnder(d, j) <=> j = d.rows[p].key
      BY <1>5, <3>0, TwoAnchorsFacts
    <3> QED
      BY <1>1, <3>1, <3>2
  <2>2. /\ \A i \in DOMAIN R : p < i => R[i].key = R[n].key
        /\ BoundOK(R, p, d.primary)
    BY <1>1, <1>2, <1>5 DEF TwoAnchorsAt
  <2>3. R[p].key = pk /\ R[n].key = k
    <3>1. R[p].key \in {pk, k} /\ R[n].key \in {pk, k}
      BY <1>1, <1>2, <2>1
    <3> QED
      BY <1>2, <2>1, <3>1
  <2>4. m = p
    BY <1>0, <1>1, <2>1, <2>2, <2>3, RunEnds
  <2>5. currentTailVerifies(d, k) /\ primaryTailVerifiesUnder(d, pk)
    BY <1>2, <2>1, <2>3
  <2>6. d.primary.bound = None
    <3> SUFFICES ASSUME d.primary.bound # None PROVE FALSE
      OBVIOUS
    <3>1. PICK q \in DOMAIN R : q < p /\ R[q].key # R[p].key
      BY <2>2 DEF BoundOK
    <3>2. R[q].key <= R[p].key /\ R[q].key \in {pk, k}
      BY <1>0, <1>1, <2>1, <3>1, RowFacts
    <3> QED
      BY <2>3, <3>1, <3>2
  <2>7. proveAuditTailBinding(d, pk, d.primary.id, d.primary.bound)
    BY <2>6 DEF proveAuditTailBinding
  <2> QED
    BY <1>1, <2>1, <2>4, <2>5, <2>7 DEF proveAuditReanchorTail
<1> QED
  BY <1>3, <1>4, <1>5 DEF Keyed

\* The rows a re-anchor would accept are the ones of the run.
LEMMA RunScanned ==
    ASSUME NEW d, NEW k \in Nat, RowsOK(d.rows, k), NEW m, Run(d.rows, k, m)
    PROVE  scanAuditForReanchor(d, k).history = m
<1>1. PICK R : R = d.rows
  OBVIOUS
<1>2. m \in Nat /\ 1 <= m /\ m <= Len(R) /\ Len(R) \in Nat /\ DOMAIN R = 1 .. Len(R)
  BY <1>1, RunFacts DEF RowsOK
<1> DEFINE bad == {i \in DOMAIN R : ~auditRowVerifies(R[i], k) \/ ~Links(R, i)}
<1>3. \A i \in DOMAIN R : ~auditRowVerifies(R[i], k) \/ ~Links(R, i) <=> i <= m
  BY <1>1, RowFacts DEF auditRowVerifies, Run
<1>4. m \in bad /\ bad \in SUBSET Nat /\ \A i \in bad : i <= m
  BY <1>2, <1>3
<1>5. scanAuditForReanchor(d, k).history = IF bad = {} THEN 0 ELSE Max(bad)
  BY <1>1 DEF scanAuditForReanchor
<1> HIDE DEF bad
<1>6. Max(bad) = m
  BY <1>4, MaxIs
<1> QED
  BY <1>4, <1>5, <1>6

LEMMA KeyedProvable ==
    ASSUME secret \in Nat, Keyed(db, secret)
    PROVE  OneRotationIsProvable
<1> SUFFICES ASSUME NEW pk \in 1 .. secret - 1, Outstanding # {},
                    \A i \in DOMAIN db.rows : db.rows[i].key \in {pk, secret}
             PROVE  proveAuditReanchorPlan(db, secret, pk, scanAuditForReanchor(db, secret))
  BY DEF OneRotationIsProvable
<1>0. KeyedLog(db.rows, secret) /\ RowsOK(db.rows, secret) /\ IsSeq(db.rows)
  BY DEF Keyed, KeyedLog, RowsOK
<1>1. PICK m : Run(db.rows, secret, m)
  BY <1>0, OutstandingCovered, UncoveredRun
<1>2. pk \in Nat /\ pk < secret /\ pk # 0 /\ m > 0
  BY <1>0, <1>1, RunFacts
<1>3. scanAuditForReanchor(db, secret).history = m
  BY <1>0, <1>1, RunScanned
<1>4. proveAuditHistory(db, pk, m)
  BY <1>0, <1>1, <1>2, HistoryProven
<1>5. proveAuditReanchorTail(db, secret, pk, db.rows[m])
  BY <1>1, <1>2, TailProven
<1> QED
  BY <1>2, <1>3, <1>4, <1>5 DEF proveAuditReanchorPlan

-----------------------------------------------------------------------------
(* Writing to the log *)

\* An anchor accepts the rows up to some row.
LEMMA HistoryExtent ==
    ASSUME NEW R, NEW k \in Nat, RowsOK(R, k), NEW rec,
           rec # None /\ rec.hist # None => rec.hist.through \in Nat
    PROVE  \E m \in Nat : /\ m <= Len(R)
                          /\ \A i \in DOMAIN R : inHistory(rec, R[i]) <=> i <= m
<1>1. PICK n \in Nat : n = Len(R) /\ DOMAIN R = 1 .. n
  BY RowFacts
<1>2. PICK S : S = {i \in 1 .. n : inHistory(rec, R[i])}
  OBVIOUS
<1>3. ASSUME NEW i \in S, NEW j \in 1 .. i PROVE j \in S
  <2>1. i \in 1 .. n /\ j \in 1 .. n /\ (j < i \/ j = i) /\ inHistory(rec, R[i])
    BY <1>2
  <2>2. rec.hist.through \in Nat /\ R[i].id <= rec.hist.through /\ rec # None /\ rec.hist # None
    BY <2>1 DEF inHistory
  <2>3. R[i].id \in Nat /\ R[j].id \in Nat /\ (j < i => R[j].id < R[i].id)
    BY <1>1, <2>1, RowFacts
  <2>4. R[j].id <= rec.hist.through
    BY <2>1, <2>2, <2>3
  <2> QED
    BY <1>2, <2>1, <2>2, <2>4 DEF inHistory
<1>4. PICK m \in 0 .. n : S = 1 .. m
  BY <1>2, <1>3, Prefix
<1>5. \A i \in DOMAIN R : inHistory(rec, R[i]) <=> i <= m
  BY <1>1, <1>2, <1>4
<1>6. m \in Nat /\ m <= n
  BY <1>4
<1> QED
  BY <1>1, <1>5, <1>6

\* The hashes its digest covers.
LEMMA HistoryDigest ==
    ASSUME NEW R, IsSeq(R), NEW rec, NEW m \in Nat, m <= Len(R),
           \A i \in DOMAIN R : inHistory(rec, R[i]) <=> i <= m
    PROVE  /\ Digest(historyRows(R, rec)) = [i \in 1 .. m |-> Hash(R[i])]
           /\ historyRows(R, rec) = <<>> <=> m = 0
<1>1. PICK n \in Nat : n = Len(R) /\ DOMAIN R = 1 .. n
  BY SeqFacts
<1>2. PICK S : S = {0} \cup {i \in DOMAIN R : inHistory(rec, R[i])}
  OBVIOUS
<1>3. S \in SUBSET Nat /\ m \in S /\ \A i \in S : i <= m
  <2>1. m = 0 \/ m \in DOMAIN R
    BY <1>1
  <2>2. \A i \in S : i = 0 \/ (i \in DOMAIN R /\ i <= m)
    BY <1>2
  <2>3. m \in S
    BY <1>2, <2>1
  <2>4. \A i \in S : i \in Nat /\ i <= m
    BY <1>1, <2>2
  <2> QED
    BY <2>3, <2>4
<1>4. Max(S) = m
  BY <1>3, MaxIs
<1>5. historyRows(R, rec) = SubSeq(R, 1, m)
  BY <1>2, <1>4 DEF historyRows
<1>6. PICK P : P = SubSeq(R, 1, m)
  OBVIOUS
<1>7. IsSeq(P) /\ Len(P) = m /\ DOMAIN P = 1 .. m /\ \A i \in 1 .. m : P[i] = R[i]
  BY <1>1, <1>6, SeqPrefix
<1>8. Digest(P) = [i \in 1 .. m |-> Hash(R[i])]
  BY <1>7 DEF Digest
<1>9. P = <<>> <=> m = 0
  BY <1>7, SeqFacts
<1> QED
  BY <1>5, <1>6, <1>8, <1>9

\* The rows after ev is appended, linked to the newest one.
NextOf(R, ev, k) ==
    /\ ev.id \in Nat /\ ev.id >= 1 /\ \A i \in DOMAIN R : R[i].id < ev.id
    /\ ev.key = k /\ ev.version = 3
    /\ R # <<>> => ev.prev = Hash(R[Len(R)])

Appended(R, n, ev, Q) ==
    /\ n \in Nat /\ n = Len(R)
    /\ IsSeq(Q) /\ Len(Q) = n + 1 /\ Q[n + 1] = ev
    /\ \A i \in 1 .. n : Q[i] = R[i]

LEMMA AppendRows ==
    ASSUME NEW R, NEW k \in Nat, k >= 1, RowsOK(R, k), NEW ev, NextOf(R, ev, k),
           NEW Q, NEW n, Appended(R, n, ev, Q)
    PROVE  /\ RowsOK(Q, k)
           /\ DOMAIN Q = 1 .. n + 1 /\ DOMAIN R = 1 .. n
           /\ \A i \in DOMAIN Q : i \in DOMAIN R \/ i = n + 1
           /\ n + 1 \in DOMAIN Q /\ Q # <<>>
           /\ \A i \in DOMAIN R : i \in DOMAIN Q /\ i \in Nat /\ i < n + 1 /\ Q[i] = R[i]
           /\ \A i \in DOMAIN R : i \in Heads(Q) <=> i \in Heads(R)
<1>0. /\ n \in Nat /\ n = Len(R) /\ IsSeq(Q) /\ Len(Q) = n + 1 /\ Q[n + 1] = ev
      /\ \A i \in 1 .. n : Q[i] = R[i]
  BY DEF Appended
<1> USE <1>0
<1>1. /\ DOMAIN Q = 1 .. n + 1 /\ DOMAIN R = 1 .. n /\ n + 1 \in DOMAIN Q
      /\ Q # <<>>
  BY RowFacts, SeqFacts
<1>2. \A i \in DOMAIN Q : i \in DOMAIN R \/ i = n + 1
  BY <1>1
<1>3. \A i \in DOMAIN R : i \in DOMAIN Q /\ i \in Nat /\ i < n + 1 /\ Q[i] = R[i]
  BY <1>1
<1>4. \A i \in DOMAIN R : i \in Heads(Q) <=> i \in Heads(R)
  BY <1>3 DEF Heads, anchorRows
<1>5. ASSUME NEW i \in DOMAIN Q
      PROVE  /\ Q[i].id \in Nat /\ Q[i].id >= 1
             /\ Q[i].key \in 1 .. k /\ Q[i].version \in 2 .. 3
             /\ Links(Q, i)
  <2>1. CASE i \in DOMAIN R
    <3>1. /\ R[i].id \in Nat /\ R[i].id >= 1
          /\ R[i].key \in 1 .. k /\ R[i].version \in 2 .. 3 /\ Links(R, i)
      BY <2>1 DEF RowsOK
    <3>2. i # 1 => i - 1 \in 1 .. n
      BY <1>1, <2>1
    <3>3. Links(Q, i)
      BY <1>3, <2>1, <3>1, <3>2 DEF Links
    <3> QED
      BY <1>3, <2>1, <3>1, <3>3
  <2>2. CASE i = n + 1
    <3>1. Q[i].id \in Nat /\ Q[i].id >= 1 /\ Q[i].key \in 1 .. k /\ Q[i].version \in 2 .. 3
      BY <2>2 DEF NextOf
    <3>2. CASE n = 0
      BY <2>2, <3>1, <3>2 DEF Links
    <3>3. CASE n # 0
      <4>1. n \in 1 .. n /\ (n + 1) - 1 = n /\ R # <<>>
        BY <3>3, SeqFacts DEF RowsOK
      <4>2. ev.prev = Hash(R[n])
        BY <4>1 DEF NextOf
      <4>3. Links(Q, i)
        BY <2>2, <4>1, <4>2 DEF Links
      <4> QED
        BY <3>1, <4>3
    <3> QED
      BY <3>2, <3>3
  <2> QED
    BY <1>2, <2>1, <2>2
<1>6. Ordered(Q)
  <2> SUFFICES ASSUME NEW i \in DOMAIN Q, NEW j \in DOMAIN Q, i < j
               PROVE  /\ Q[i].id < Q[j].id /\ Q[i].key <= Q[j].key
                      /\ Q[i].version <= Q[j].version
    BY DEF Ordered
  <2>1. i \in DOMAIN R
    BY <1>1
  <2>2. CASE j \in DOMAIN R
    BY <1>3, <2>1, <2>2 DEF RowsOK, Ordered
  <2>3. CASE j = n + 1
    <3>1. R[i].id < ev.id /\ R[i].key \in 1 .. k /\ R[i].version \in 2 .. 3
      BY <2>1 DEF NextOf, RowsOK
    <3>2. ev.key = k /\ ev.version = 3
      BY DEF NextOf
    <3>3. Q[i] = R[i] /\ Q[j] = ev
      BY <1>3, <2>1, <2>3
    <3> QED
      BY <3>1, <3>2, <3>3
  <2> QED
    BY <1>2, <2>2, <2>3
<1>7. RowsOK(Q, k)
  BY <1>5, <1>6 DEF RowsOK
<1> QED
  BY <1>1, <1>2, <1>3, <1>4, <1>7

\* An event without a head leaves the heads and what they accept alone.
LEMMA AppendUnheaded ==
    ASSUME NEW R, NEW k \in Nat, k >= 1, KeyedLog(R, k), NEW ev, NextOf(R, ev, k),
           NEW Q, NEW n, Appended(R, n, ev, Q),
           ev.head = NoHash, ev.hist = None,
           R = <<>> => ev.prev = NoHash /\ ev.id = 1
    PROVE  /\ KeyedLog(Q, k) /\ Heads(Q) = Heads(R)
           /\ Covered(R, k) => Covered(Q, k)
<1>0. RowsOK(R, k) /\ IsSeq(R)
  BY DEF KeyedLog, RowsOK
<1>1. /\ RowsOK(Q, k)
      /\ DOMAIN Q = 1 .. n + 1 /\ DOMAIN R = 1 .. n
      /\ \A i \in DOMAIN Q : i \in DOMAIN R \/ i = n + 1
      /\ n + 1 \in DOMAIN Q /\ Q # <<>>
      /\ \A i \in DOMAIN R : i \in DOMAIN Q /\ i \in Nat /\ i < n + 1 /\ Q[i] = R[i]
      /\ \A i \in DOMAIN R : i \in Heads(Q) <=> i \in Heads(R)
  BY <1>0, AppendRows
<1>7. /\ n \in Nat /\ n = Len(R) /\ IsSeq(Q) /\ Len(Q) = n + 1 /\ Q[n + 1] = ev
      /\ \A i \in 1 .. n : Q[i] = R[i]
  BY DEF Appended
<1> USE <1>7
<1>2. Heads(Q) = Heads(R)
  <2>1. n + 1 \notin Heads(Q)
    BY DEF Heads
  <2>2. \A i \in Heads(Q) : i \in DOMAIN Q
    BY DEF Heads, anchorRows
  <2>3. \A i \in Heads(R) : i \in DOMAIN R
    BY DEF Heads, anchorRows
  <2> QED
    BY <1>1, <2>1, <2>2, <2>3
<1>3. HistoriesOK(Q)
  BY <1>1, <1>2 DEF HistoriesOK, KeyedLog
<1>4. HeadOK(Q)
  <2> SUFFICES ASSUME NEW h \in DOMAIN Q, NewestHead(Q, h)
               PROVE  /\ Hash(Q[1]) = Q[h].head
                      /\ \A i \in DOMAIN Q : i < h =>
                            inHistory(Q[h], Q[i]) \/ Q[i].key = Q[h].key
                      /\ historyMatches(Q, Q[h])
    BY DEF HeadOK
  <2>1. h \in DOMAIN R /\ NewestHead(R, h) /\ Q[h] = R[h]
    BY <1>1, <1>2 DEF NewestHead, Heads, anchorRows
  <2>2. /\ Hash(R[1]) = R[h].head
        /\ \A i \in DOMAIN R : i < h => inHistory(R[h], R[i]) \/ R[i].key = R[h].key
        /\ historyMatches(R, R[h])
    BY <2>1 DEF KeyedLog, HeadOK
  <2>3. 1 \in DOMAIN R
    BY <1>1, <2>1
  <2>4. \A i \in DOMAIN Q : i < h => i \in DOMAIN R
    BY <1>1, <2>1
  <2>5. PICK rec : rec = R[h]
    OBVIOUS
  <2>6. rec.hist # None => rec.hist.through \in Nat /\ rec.hist.through < rec.id
    BY <2>1, <2>5 DEF KeyedLog, HistoriesOK
  <2>7. ~inHistory(rec, ev)
    <3>1. rec.id \in Nat /\ ev.id \in Nat /\ rec.id < ev.id
      BY <1>0, <2>1, <2>5, RowFacts DEF NextOf
    <3> QED
      BY <2>6, <3>1 DEF inHistory
  <2>8. PICK m \in Nat : /\ m <= n
                         /\ \A i \in DOMAIN R : inHistory(rec, R[i]) <=> i <= m
    BY <1>0, <2>6, HistoryExtent
  <2>9. \A i \in DOMAIN Q : inHistory(rec, Q[i]) <=> i <= m
    BY <1>1, <2>7, <2>8
  <2>10. Digest(historyRows(R, rec)) = [i \in 1 .. m |-> Hash(R[i])]
    BY <1>0, <2>8, HistoryDigest
  <2>11. Digest(historyRows(Q, rec)) = [i \in 1 .. m |-> Hash(Q[i])]
    <3>1. m <= Len(Q)
      BY <2>8
    <3> QED
      BY <2>9, <3>1, HistoryDigest
  <2>12. [i \in 1 .. m |-> Hash(Q[i])] = [i \in 1 .. m |-> Hash(R[i])]
    <3>1. \A i \in 1 .. m : Q[i] = R[i]
      BY <1>1, <2>8
    <3> QED
      BY <3>1
  <2>13. historyMatches(Q, rec)
    BY <2>2, <2>5, <2>10, <2>11, <2>12 DEF historyMatches
  <2> QED
    BY <1>1, <2>1, <2>2, <2>3, <2>4, <2>5, <2>13
<1>5. GenesisOK(Q)
  <2> SUFFICES ASSUME Heads(Q) = {}
               PROVE  IF Q[1].prev = NoHash THEN Q[1].id = 1
                      ELSE \E i \in DOMAIN Q :
                              Q[i].action = "purge" /\ Q[i].key = Q[1].key
    BY DEF GenesisOK
  <2>1. CASE R = <<>>
    <3>1. n = 0
      BY <1>0, <2>1, SeqFacts
    <3> QED
      BY <2>1, <3>1
  <2>2. CASE R # <<>>
    <3>1. 1 \in DOMAIN R /\ Q[1] = R[1]
      <4>1. n # 0
        BY <1>0, <2>2, SeqFacts
      <4> QED
        BY <1>1, <4>1
    <3>2. IF R[1].prev = NoHash THEN R[1].id = 1
          ELSE \E i \in DOMAIN R : R[i].action = "purge" /\ R[i].key = R[1].key
      BY <1>2, <2>2 DEF KeyedLog, GenesisOK
    <3> QED
      BY <1>1, <3>1, <3>2
  <2> QED
    BY <2>1, <2>2
<1>6. ASSUME Covered(R, k) PROVE Covered(Q, k)
  <2>1. CASE \A i \in DOMAIN R : R[i].key = k
    <3>1. \A i \in DOMAIN Q : Q[i].key = k
      BY <1>1, <2>1 DEF NextOf
    <3> QED
      BY <3>1 DEF Covered
  <2>2. ASSUME NEW h \in DOMAIN R, NewestHead(R, h), R[h].key = k PROVE Covered(Q, k)
    <3>1. h \in DOMAIN Q /\ NewestHead(Q, h) /\ Q[h].key = k
      BY <1>1, <1>2, <2>2 DEF NewestHead
    <3> QED
      BY <3>1 DEF Covered
  <2> QED
    BY <1>6, <2>1, <2>2 DEF Covered
<1> QED
  BY <1>1, <1>2, <1>3, <1>4, <1>5, <1>6 DEF KeyedLog

\* A purge or a re-anchor records the oldest row, and the rows it accepts.
LEMMA AppendHead ==
    ASSUME NEW R, NEW k \in Nat, k >= 1, RowsOK(R, k), HistoriesOK(R), R # <<>>,
           NEW ev, NextOf(R, ev, k), NEW Q, NEW n, Appended(R, n, ev, Q),
           ev.action # "change", ev.head = Hash(R[1]), ev.head # NoHash,
           \A i \in DOMAIN R : R[i].key # k => ev.hist # None /\ R[i].id <= ev.hist.through,
           NEW m \in Nat, m <= n,
           ev.hist # None =>
              /\ ev.hist.through \in Nat /\ ev.hist.through < ev.id
              /\ \A i \in DOMAIN R : R[i].id <= ev.hist.through <=> i <= m
              /\ ev.hist.digest = [i \in 1 .. m |-> Hash(R[i])]
    PROVE  KeyedLog(Q, k) /\ Covered(Q, k)
<1>0. /\ n \in Nat /\ n = Len(R) /\ IsSeq(Q) /\ Len(Q) = n + 1 /\ Q[n + 1] = ev
      /\ \A i \in 1 .. n : Q[i] = R[i]
  BY DEF Appended
<1>1. /\ RowsOK(Q, k)
      /\ DOMAIN Q = 1 .. n + 1 /\ DOMAIN R = 1 .. n
      /\ \A i \in DOMAIN Q : i \in DOMAIN R \/ i = n + 1
      /\ n + 1 \in DOMAIN Q /\ Q # <<>>
      /\ \A i \in DOMAIN R : i \in DOMAIN Q /\ i \in Nat /\ i < n + 1 /\ Q[i] = R[i]
      /\ \A i \in DOMAIN R : i \in Heads(Q) <=> i \in Heads(R)
  BY AppendRows
<1>2. n + 1 \in Heads(Q)
  BY <1>0, <1>1 DEF Heads, anchorRows
<1>3. \A i \in DOMAIN Q : i <= n + 1 /\ i \in Nat
  BY <1>0, <1>1
<1>4. NewestHead(Q, n + 1) /\ \A h \in DOMAIN Q : NewestHead(Q, h) => h = n + 1
  <2>1. NewestHead(Q, n + 1)
    BY <1>2, <1>3 DEF NewestHead, Heads, anchorRows
  <2> QED
    BY <1>0, <1>1, <2>1, OneNewestHead
<1>5. HistoriesOK(Q)
  <2> SUFFICES ASSUME NEW i \in DOMAIN Q, Q[i].hist # None
               PROVE  /\ i \in Heads(Q) /\ Q[i].hist.through \in Nat
                      /\ Q[i].hist.through < Q[i].id
    BY DEF HistoriesOK
  <2>1. CASE i \in DOMAIN R
    BY <1>1, <2>1 DEF HistoriesOK
  <2>2. CASE i = n + 1
    BY <1>0, <1>2, <2>2
  <2> QED
    BY <1>1, <2>1, <2>2
<1>6. HeadOK(Q)
  <2> SUFFICES /\ Hash(Q[1]) = ev.head
               /\ \A i \in DOMAIN Q : i < n + 1 => inHistory(ev, Q[i]) \/ Q[i].key = ev.key
               /\ historyMatches(Q, ev)
    BY <1>0, <1>4 DEF HeadOK
  <2>0. ev # None /\ ev.key = k
    BY DEF NextOf, None
  <2>1. Hash(Q[1]) = ev.head
    <3>1. n # 0
      BY <1>0, SeqFacts DEF RowsOK
    <3>2. 1 \in DOMAIN R
      BY <1>0, <1>1, <3>1
    <3> QED
      BY <1>1, <3>2
  <2>2. ASSUME NEW i \in DOMAIN Q, i < n + 1 PROVE inHistory(ev, Q[i]) \/ Q[i].key = ev.key
    <3>1. i \in DOMAIN R /\ Q[i] = R[i]
      BY <1>0, <1>1, <1>3, <2>2
    <3> QED
      BY <2>0, <3>1 DEF inHistory
  <2>3. historyMatches(Q, ev)
    <3> SUFFICES ASSUME ev.hist # None PROVE Digest(historyRows(Q, ev)) = ev.hist.digest
      BY DEF historyMatches
    <3>1. \A i \in DOMAIN Q : inHistory(ev, Q[i]) <=> i <= m
      <4>1. \A i \in DOMAIN R : inHistory(ev, Q[i]) <=> i <= m
        BY <1>1, <2>0 DEF inHistory
      <4>2. ~inHistory(ev, Q[n + 1])
        <5>1. ev.hist.through \in Nat /\ ev.hist.through < ev.id /\ ev.id \in Nat
          BY DEF NextOf
        <5> QED
          BY <1>0, <5>1 DEF inHistory
      <4>3. ~(n + 1 <= m)
        BY <1>0
      <4> QED
        BY <1>1, <4>1, <4>2, <4>3
    <3>2. m <= Len(Q)
      BY <1>0
    <3>0. IsSeq(Q) /\ m \in Nat
      BY <1>0
    <3>3. Digest(historyRows(Q, ev)) = [i \in 1 .. m |-> Hash(Q[i])]
      BY <3>0, <3>1, <3>2, HistoryDigest
    <3>4. [i \in 1 .. m |-> Hash(Q[i])] = [i \in 1 .. m |-> Hash(R[i])]
      <4>1. \A i \in 1 .. m : Q[i] = R[i]
        BY <1>0
      <4> QED
        BY <4>1
    <3> QED
      BY <3>3, <3>4
  <2> QED
    BY <2>1, <2>2, <2>3
<1>7. GenesisOK(Q)
  BY <1>2 DEF GenesisOK
<1>8. Covered(Q, k)
  BY <1>0, <1>1, <1>4 DEF Covered, NextOf
<1> QED
  BY <1>1, <1>5, <1>6, <1>7, <1>8 DEF KeyedLog

\* What recordAudit makes of the database d: the event ev is appended, the
\* anchors move.
RecordedAs(d, k, ev, move, r) ==
    /\ Appended(d.rows, Len(d.rows), ev, r.rows) /\ NextOf(d.rows, ev, k)
    /\ d.rows = <<>> => ev.prev = NoHash /\ ev.id = 1
    /\ Newest(r) = ev /\ r.rows # <<>>
    /\ move = "advance" =>
          /\ r.primary = Slot(ev.id, Hash(ev), auditTailMAC(k, ev.id, Hash(ev)), None)
          /\ r.current = d.current
    /\ move = "advanceCurrent" =>
          /\ r.primary = d.primary
          /\ r.current = Slot(ev.id, Hash(ev),
                              auditTailCurrentMAC(k, ev.id, Hash(ev), d.primary), None)
    /\ move = "promote" =>
          /\ r.primary = [d.current EXCEPT !.bound = Binding(d.primary)]
          /\ r.current = Slot(ev.id, Hash(ev),
                              auditTailCurrentMAC(k, ev.id, Hash(ev), d.current), None)
    /\ move = "stay" => r.primary = d.primary /\ r.current = d.current

LEMMA Recording ==
    ASSUME NEW k \in Nat, NEW d, DbOK(d, k), Linear(d), NEW action, NEW head, NEW hist,
           NEW ev, ev = NextRow(d, k, action, head, hist),
           NEW move, move = planAuditTailMove(d, k),
           NEW r, r = recordAudit(d, k, action, head, hist)
    PROVE  /\ RecordedAs(d, k, ev, move, r)
           /\ ev.action = action /\ ev.head = head /\ ev.hist = hist
<1>1. PICK rs, p, c, q : d = [rows |-> rs, primary |-> p, current |-> c, seq |-> q]
  BY DEF DbOK, DbShape
<1>2. IsSeq(rs) /\ q \in Nat /\ \A i \in DOMAIN rs : rs[i].id \in 1 .. q
  BY <1>1 DEF DbOK, LogOK
<1>3. /\ ev.id = q + 1 /\ ev.key = k /\ ev.version = 3 /\ ev.action = action
      /\ ev.head = head /\ ev.hist = hist
      /\ ev.prev = IF rs = <<>> THEN NoHash ELSE Hash(rs[Len(rs)])
  BY <1>1 DEF NextRow, Row, Newest
<1>4. PICK a : a = [rows |-> Append(rs, ev), primary |-> p, current |-> c, seq |-> ev.id]
  OBVIOUS
<1>5. r = applyAuditTailMove(a, k, move, d, ev)
  <2>1. PICK b : b = [d EXCEPT !.rows = Append(d.rows, ev), !.seq = ev.id]
    OBVIOUS
  <2>2. b = a
    <3>1. PICK x : x = Append(rs, ev) /\ x = Append(d.rows, ev)
      BY <1>1
    <3>2. PICK i : i = ev.id
      OBVIOUS
    <3>3. b = [d EXCEPT !.rows = x, !.seq = i]
      BY <2>1, <3>1, <3>2
    <3>4. b = [rows |-> x, primary |-> p, current |-> c, seq |-> i]
      BY <1>1, <3>3
    <3> QED
      BY <1>4, <3>1, <3>2, <3>4
  <2>3. r = applyAuditTailMove(b, k, planAuditTailMove(d, k), d, ev)
    BY <2>1 DEF recordAudit
  <2> QED
    BY <2>2, <2>3
<1>6. PICK sp, sc : /\ sp = Slot(ev.id, Hash(ev), auditTailMAC(k, ev.id, Hash(ev)), None)
                    /\ sc = [x \in {p, c} |-> Slot(ev.id, Hash(ev),
                                auditTailCurrentMAC(k, ev.id, Hash(ev), x), None)]
  OBVIOUS
<1>7. /\ move \in {"advance", "advanceCurrent", "promote", "stay"}
  BY DEF planAuditTailMove, planAuditTailMoveAfterKeyChange
<1>8. /\ r.rows = Append(rs, ev)
      /\ move = "advance" => r.primary = sp /\ r.current = c
      /\ move = "advanceCurrent" => r.primary = p /\ r.current = sc[p]
      /\ move = "promote" => r.primary = [c EXCEPT !.bound = Binding(p)] /\ r.current = sc[c]
      /\ move = "stay" => r.primary = p /\ r.current = c
  <2>0. d.primary = p /\ d.current = c
    BY <1>1
  <2>1. CASE move = "advance"
    <3>1. r = writeAuditTail(a, k, ev)
      BY <1>5, <2>1 DEF applyAuditTailMove
    <3>2. r = [rows |-> Append(rs, ev), primary |-> sp, current |-> c, seq |-> ev.id]
      BY <1>4, <1>6, <3>1 DEF writeAuditTail
    <3> QED
      BY <2>1, <3>2
  <2>2. CASE move = "advanceCurrent"
    <3>1. r = writeAuditTailCurrent(a, k, ev, p)
      BY <1>5, <2>0, <2>2 DEF applyAuditTailMove
    <3>2. r = [rows |-> Append(rs, ev), primary |-> p, current |-> sc[p], seq |-> ev.id]
      BY <1>4, <1>6, <3>1 DEF writeAuditTailCurrent
    <3> QED
      BY <2>2, <3>2
  <2>3. CASE move = "promote"
    <3>0. PICK b : b = [c EXCEPT !.bound = Binding(p)]
      OBVIOUS
    <3>1. r = writeAuditTailCurrent([a EXCEPT !.primary = b], k, ev, c)
      BY <1>5, <2>0, <2>3, <3>0 DEF applyAuditTailMove
    <3>2. r = [rows |-> Append(rs, ev), primary |-> b, current |-> sc[c], seq |-> ev.id]
      BY <1>4, <1>6, <3>1 DEF writeAuditTailCurrent
    <3> QED
      BY <2>3, <3>0, <3>2
  <2>4. CASE move = "stay"
    <3>1. r = a
      BY <1>5, <2>4 DEF applyAuditTailMove
    <3> QED
      BY <1>4, <2>4, <3>1
  <2> QED
    BY <1>7, <2>1, <2>2, <2>3, <2>4
<1>9. PICK n \in Nat : n = Len(rs) /\ DOMAIN rs = 1 .. n /\ (rs = <<>> <=> n = 0)
  BY <1>2, SeqFacts
<1>10. Appended(rs, n, ev, r.rows)
  BY <1>2, <1>8, <1>9, SeqAppend DEF Appended
<1>11. NextOf(rs, ev, k)
  <2>1. \A i \in DOMAIN rs : rs[i].id < ev.id
    BY <1>2, <1>3
  <2> QED
    BY <1>2, <1>3, <2>1 DEF NextOf
<1>12. rs = <<>> => ev.prev = NoHash /\ ev.id = 1
  <2>1. rs = <<>> => q = 0
    BY <1>1 DEF Linear, checkAuditTail
  <2> QED
    BY <1>3, <2>1
<1>13. Newest(r) = ev /\ r.rows # <<>>
  <2>1. IsSeq(r.rows) /\ Len(r.rows) = n + 1 /\ r.rows[n + 1] = ev
    BY <1>10 DEF Appended
  <2>2. r.rows # <<>>
    BY <1>9, <2>1, SeqFacts
  <2> QED
    BY <2>1, <2>2 DEF Newest
<1> QED
  BY <1>1, <1>3, <1>6, <1>8, <1>9, <1>10, <1>11, <1>12, <1>13 DEF RecordedAs

\* An event written where no anchor is: the log is new, or stays without one.
LEMMA RecordUnanchored ==
    ASSUME NEW k \in Nat, k >= 1, NEW d, DbOK(d, k), Linear(d), Keyed(d, k), Opened(d, k),
           NoAnchors(d),
           NEW r, r = recordAudit(d, k, "change", NoHash, None)
    PROVE  Keyed(r, k) /\ Opened(r, k)
<1>1. PICK ev, move : /\ ev = NextRow(d, k, "change", NoHash, None)
                      /\ move = planAuditTailMove(d, k)
  OBVIOUS
<1>2. PICK R, Q, n : R = d.rows /\ Q = r.rows /\ n = Len(R)
  OBVIOUS
<1>3. /\ Appended(R, n, ev, Q) /\ NextOf(R, ev, k)
      /\ ev.action = "change" /\ ev.head = NoHash /\ ev.hist = None
      /\ R = <<>> => ev.prev = NoHash /\ ev.id = 1
      /\ Newest(r) = ev /\ Q # <<>>
      /\ move = "advance" =>
            /\ r.primary = Slot(ev.id, Hash(ev), auditTailMAC(k, ev.id, Hash(ev)), None)
            /\ r.current = d.current
      /\ move = "stay" => r.primary = d.primary /\ r.current = d.current
  <2>1. /\ RecordedAs(d, k, ev, move, r)
        /\ ev.action = "change" /\ ev.head = NoHash /\ ev.hist = None
    BY <1>1, Recording
  <2> QED
    BY <1>2, <2>1 DEF RecordedAs
<1>4. KeyedLog(R, k) /\ IsSeq(R)
  BY <1>2 DEF Keyed, KeyedLog, RowsOK
<1>5. /\ KeyedLog(Q, k) /\ Heads(Q) = Heads(R)
      /\ Covered(R, k) => Covered(Q, k)
  BY <1>3, <1>4, AppendUnheaded
<1>6. ev.key = k /\ ev.version = 3 /\ ev.id # 0
  BY <1>3 DEF NextOf
<1>7. d.primary = None /\ d.current = None
  BY DEF NoAnchors
<1>8. CASE R = <<>>
  <2>1. d.seq = 0
    BY <1>2, <1>8 DEF Linear, checkAuditTail
  <2>2. move = "advance"
    BY <1>1, <1>2, <1>7, <1>8, <2>1 DEF planAuditTailMove
  <2>3. Covered(R, k)
    BY <1>4, <1>8, SeqFacts DEF Covered
  <2>4. r.primary = Slot(ev.id, Hash(ev), auditTailMAC(k, ev.id, Hash(ev)), None)
        /\ r.current = None
    BY <1>3, <1>7, <2>2
  <2>5. OneAnchor(r)
    BY <1>2, <1>3, <1>5, <1>6, <2>3, <2>4 DEF OneAnchor
  <2>6. r.primary # None
    BY <1>6, <2>4, SlotFields
  <2> QED
    BY <1>2, <1>5, <2>5, <2>6 DEF Keyed, Opened
<1>9. CASE R # <<>>
  <2>1. move = "stay"
    BY <1>1, <1>2, <1>7, <1>9 DEF planAuditTailMove, planAuditTailMoveAfterKeyChange,
                                  namesNewest, currentNamesNewest, Names
  <2>2. r.primary = None /\ r.current = None
    BY <1>3, <1>7, <2>1
  <2>3. Q[1] = R[1]
    <3>1. n # 0
      BY <1>2, <1>4, <1>9, SeqFacts
    <3> QED
      BY <1>3, <3>1 DEF Appended
  <2>4. Q[1].key # k
    BY <1>2, <1>7, <1>9, <2>3 DEF Opened
  <2>5. NoAnchors(r)
    BY <1>2, <1>3, <1>5, <1>6, <1>9, <2>2, <2>4 DEF NoAnchors
  <2> QED
    BY <1>2, <1>5, <2>4, <2>5 DEF Keyed, Opened
<1> QED
  BY <1>8, <1>9

\* The primary anchor follows the log, or stays where the secret changed.
LEMMA RecordAnchored ==
    ASSUME NEW k \in Nat, k >= 1, NEW d, DbOK(d, k), Linear(d), Keyed(d, k),
           OneAnchor(d),
           NEW r, r = recordAudit(d, k, "change", NoHash, None)
    PROVE  Keyed(r, k) /\ Opened(r, k)
<1>1. PICK ev, move : /\ ev = NextRow(d, k, "change", NoHash, None)
                      /\ move = planAuditTailMove(d, k)
  OBVIOUS
<1>2. PICK R, Q, n : R = d.rows /\ Q = r.rows /\ n = Len(R)
  OBVIOUS
<1>3. /\ Appended(R, n, ev, Q) /\ NextOf(R, ev, k)
      /\ ev.action = "change" /\ ev.head = NoHash /\ ev.hist = None
      /\ R = <<>> => ev.prev = NoHash /\ ev.id = 1
      /\ Newest(r) = ev /\ Q # <<>>
      /\ move = "advance" =>
            /\ r.primary = Slot(ev.id, Hash(ev), auditTailMAC(k, ev.id, Hash(ev)), None)
            /\ r.current = d.current
      /\ move = "advanceCurrent" =>
            /\ r.primary = d.primary
            /\ r.current = Slot(ev.id, Hash(ev),
                                auditTailCurrentMAC(k, ev.id, Hash(ev), d.primary), None)
  <2>1. /\ RecordedAs(d, k, ev, move, r)
        /\ ev.action = "change" /\ ev.head = NoHash /\ ev.hist = None
    BY <1>1, Recording
  <2> QED
    BY <1>2, <2>1 DEF RecordedAs
<1>4. KeyedLog(R, k) /\ RowsOK(R, k) /\ RowsOK(d.rows, k) /\ R # <<>>
  BY <1>2 DEF Keyed, KeyedLog, OneAnchor
<1>5. /\ KeyedLog(Q, k) /\ Heads(Q) = Heads(R)
      /\ Covered(R, k) => Covered(Q, k)
  BY <1>3, <1>4, AppendUnheaded
<1>6. ev.key = k /\ ev.id # 0
  BY <1>3 DEF NextOf
<1>7. /\ namesNewest(d) /\ d.primary # None /\ d.primary.bound = None /\ d.current = None
      /\ d.primary.id = Newest(d).id /\ d.primary.hash = Hash(Newest(d))
      /\ d.primary.mac = auditTailMAC(Newest(d).key, d.primary.id, d.primary.hash)
      /\ \A j : auditTailVerifies(d, j) <=> j = Newest(d).key
  BY <1>4, OneAnchorFacts
<1>8. CASE Newest(d).key = k
  <2>1. move = "advance"
    BY <1>1, <1>7, <1>8 DEF planAuditTailMove
  <2>2. r.primary = Slot(ev.id, Hash(ev), auditTailMAC(k, ev.id, Hash(ev)), None)
        /\ r.current = None
    BY <1>3, <1>7, <2>1
  <2>3. Covered(Q, k)
    BY <1>2, <1>5, <1>8 DEF OneAnchor
  <2>5. OneAnchor(r)
    BY <1>2, <1>3, <1>6, <2>2, <2>3 DEF OneAnchor
  <2>6. r.primary # None
    BY <1>6, <2>2, SlotFields
  <2> QED
    BY <1>2, <1>5, <2>5, <2>6 DEF Keyed, Opened
<1>9. CASE Newest(d).key # k
  <2>1. move = "advanceCurrent"
    BY <1>1, <1>2, <1>4, <1>7, <1>9 DEF planAuditTailMove, planAuditTailMoveAfterKeyChange,
                           auditRowVerifies, currentNamesNewest, Names
  <2>2. /\ r.primary = d.primary
        /\ r.current = Slot(ev.id, Hash(ev),
                            auditTailCurrentMAC(k, ev.id, Hash(ev), d.primary), None)
    BY <1>3, <2>1
  <2>3. /\ n \in DOMAIN R /\ n \in Nat /\ n >= 1 /\ Newest(d) = R[n] /\ DOMAIN R = 1 .. n
    BY <1>2, <1>4, NewestFacts
  <2>4. /\ Len(Q) = n + 1 /\ Q[n + 1] = ev /\ \A i \in 1 .. n : Q[i] = R[i]
        /\ DOMAIN Q = 1 .. n + 1
    BY <1>3, SeqFacts DEF Appended
  <2>5. Q[n] = R[n] /\ n \in DOMAIN Q /\ n < Len(Q)
    BY <2>3, <2>4
  <2>6. \A i \in DOMAIN Q : n < i => Q[i].key = Newest(r).key
    <3>1. \A i \in DOMAIN Q : n < i => i = n + 1
      BY <2>3, <2>4
    <3> QED
      BY <1>3, <2>4, <3>1
  <2>7. \A h \in Heads(Q) : h <= n
    BY <1>5, <2>3 DEF Heads, anchorRows
  <2>8. BoundOK(Q, n, d.primary)
    BY <1>7, <2>3, <2>5 DEF BoundOK
  <2>9. TwoAnchorsAt(r, n)
    BY <1>2, <1>3, <1>6, <1>7, <1>9, <2>2, <2>3, <2>5, <2>6, <2>7, <2>8 DEF TwoAnchorsAt
  <2> QED
    BY <1>2, <1>5, <1>7, <2>2, <2>9 DEF Keyed, Opened
<1> QED
  BY <1>8, <1>9

\* The current anchor follows the log; a second change of secret promotes it.
LEMMA RecordRotated ==
    ASSUME NEW k \in Nat, k >= 1, NEW d, DbOK(d, k), Linear(d), Keyed(d, k),
           NEW p, TwoAnchorsAt(d, p),
           NEW r, r = recordAudit(d, k, "change", NoHash, None)
    PROVE  Keyed(r, k) /\ Opened(r, k)
<1>1. PICK ev, move : /\ ev = NextRow(d, k, "change", NoHash, None)
                      /\ move = planAuditTailMove(d, k)
  OBVIOUS
<1>2. PICK R, Q, n : R = d.rows /\ Q = r.rows /\ n = Len(R)
  OBVIOUS
<1>3. /\ Appended(R, n, ev, Q) /\ NextOf(R, ev, k)
      /\ ev.action = "change" /\ ev.head = NoHash /\ ev.hist = None
      /\ R = <<>> => ev.prev = NoHash /\ ev.id = 1
      /\ Newest(r) = ev /\ Q # <<>>
      /\ move = "advanceCurrent" =>
            /\ r.primary = d.primary
            /\ r.current = Slot(ev.id, Hash(ev),
                                auditTailCurrentMAC(k, ev.id, Hash(ev), d.primary), None)
      /\ move = "promote" =>
            /\ r.primary = [d.current EXCEPT !.bound = Binding(d.primary)]
            /\ r.current = Slot(ev.id, Hash(ev),
                                auditTailCurrentMAC(k, ev.id, Hash(ev), d.current), None)
  <2>1. /\ RecordedAs(d, k, ev, move, r)
        /\ ev.action = "change" /\ ev.head = NoHash /\ ev.hist = None
    BY <1>1, Recording
  <2> QED
    BY <1>2, <2>1 DEF RecordedAs
<1>4. KeyedLog(R, k) /\ RowsOK(R, k) /\ RowsOK(d.rows, k)
  BY <1>2 DEF Keyed, KeyedLog
<1>5. KeyedLog(Q, k) /\ Heads(Q) = Heads(R)
  BY <1>3, <1>4, AppendUnheaded
<1>6. ev.key = k /\ ev.id # 0
  BY <1>3 DEF NextOf
<1>7. /\ d.rows # <<>> /\ p \in DOMAIN d.rows /\ p \in Nat
      /\ 1 <= p /\ p < Len(d.rows)
      /\ d.rows[p].key \in Nat /\ d.rows[p].key < Newest(d).key
      /\ d.primary # None
      /\ d.primary.id = d.rows[p].id /\ d.primary.hash = Hash(d.rows[p])
      /\ d.current # None /\ currentNamesNewest(d) /\ ~namesNewest(d)
      /\ d.current.id = Newest(d).id /\ d.current.hash = Hash(Newest(d))
      /\ \A j : currentTailVerifies(d, j) <=> j = Newest(d).key
  BY <1>4, TwoAnchorsFacts
<1>8. /\ R # <<>> /\ p \in DOMAIN R /\ p < n
      /\ R[p].key \in Nat /\ R[p].key < Newest(d).key
      /\ d.primary.id = R[p].id /\ d.primary.hash = Hash(R[p])
  BY <1>2, <1>7
<1>9. /\ n \in DOMAIN R /\ n \in Nat /\ n >= 1 /\ Newest(d) = R[n] /\ DOMAIN R = 1 .. n
      /\ R[n].key \in Nat /\ R[n].id \in Nat
  BY <1>2, <1>4, <1>7, NewestFacts
<1>10. /\ Len(Q) = n + 1 /\ Q[n + 1] = ev /\ \A i \in DOMAIN R : Q[i] = R[i] /\ i \in DOMAIN Q
       /\ DOMAIN Q = 1 .. n + 1
  BY <1>3, <1>9, SeqFacts DEF Appended
<1>11. /\ \A i \in DOMAIN R : p < i => R[i].key = R[n].key
       /\ \A h \in Heads(R) : h <= p
       /\ BoundOK(R, p, d.primary)
       /\ d.current = Slot(R[n].id, Hash(R[n]),
                 auditTailCurrentMAC(R[n].key, R[n].id, Hash(R[n]), d.primary), None)
  BY <1>2, <1>9 DEF TwoAnchorsAt
<1>12. CASE R[n].key = k
  <2>1. move = "advanceCurrent"
    BY <1>1, <1>2, <1>7, <1>9, <1>12 DEF planAuditTailMove
  <2>2. /\ r.primary = d.primary
        /\ r.current = Slot(ev.id, Hash(ev),
                            auditTailCurrentMAC(k, ev.id, Hash(ev), d.primary), None)
    BY <1>3, <2>1
  <2>3. \A i \in DOMAIN Q : p < i => Q[i].key = ev.key
    <3>1. \A i \in DOMAIN Q : i \in DOMAIN R \/ i = n + 1
      BY <1>9, <1>10
    <3> QED
      BY <1>6, <1>10, <1>11, <1>12, <3>1
  <2>4. BoundOK(Q, p, d.primary)
    BY <1>8, <1>10, <1>11 DEF BoundOK
  <2>5. p \in DOMAIN Q /\ p < Len(Q) /\ Q[p] = R[p]
    BY <1>7, <1>8, <1>9, <1>10
  <2>6. Q[p].key # ev.key
    BY <1>6, <1>8, <1>9, <1>12, <2>5
  <2>9. TwoAnchorsAt(r, p)
    BY <1>2, <1>3, <1>5, <1>6, <1>8, <1>11, <2>2, <2>3, <2>4, <2>5, <2>6 DEF TwoAnchorsAt
  <2> QED
    BY <1>2, <1>5, <1>7, <2>2, <2>9 DEF Keyed, Opened
<1>13. CASE R[n].key # k
  <2>1. move = "promote"
    BY <1>1, <1>2, <1>7, <1>9, <1>13 DEF planAuditTailMove, planAuditTailMoveAfterKeyChange,
                            auditRowVerifies
  <2>2. /\ r.primary = [d.current EXCEPT !.bound = Binding(d.primary)]
        /\ r.current = Slot(ev.id, Hash(ev),
                            auditTailCurrentMAC(k, ev.id, Hash(ev), d.current), None)
    BY <1>3, <2>1
  <2>3. PICK i, h, mac, b : /\ i = R[n].id /\ h = Hash(R[n]) /\ b = Binding(d.primary)
                            /\ mac = auditTailCurrentMAC(R[n].key, i, h, d.primary)
    OBVIOUS
  <2>4. d.current = Slot(i, h, mac, None)
    BY <1>11, <2>3
  <2>5. r.primary = Slot(i, h, mac, b)
    BY <2>2, <2>3, <2>4 DEF Slot
  <2>6. i # 0
    BY <1>4, <1>9, <2>3, RowFacts
  <2>7. /\ r.primary # None /\ r.primary.id = i /\ r.primary.hash = h
        /\ r.primary.mac = mac /\ r.primary.bound = b
        /\ d.current.id = i /\ d.current.hash = h /\ d.current.mac = mac
    BY <2>4, <2>5, <2>6, SlotFields
  <2>8. b.id = R[p].id /\ b.hash = Hash(R[p]) /\ b.mac = d.primary.mac
    BY <1>8, <2>3 DEF Binding
  <2>9. mac = auditTailCurrentMAC(R[n].key, i, h, b)
    BY <1>8, <2>3, <2>8 DEF auditTailCurrentMAC
  <2>10. Q[n] = R[n] /\ n \in DOMAIN Q /\ n < Len(Q) /\ Q[p] = R[p] /\ p \in DOMAIN Q
    BY <1>8, <1>9, <1>10
  <2>11. BoundOK(Q, n, r.primary)
    <3>1. Q[p].key # Q[n].key
      BY <1>8, <1>9, <2>10
    <3> QED
      BY <1>8, <2>7, <2>8, <2>9, <2>10, <3>1 DEF BoundOK
  <2>12. r.current = Slot(ev.id, Hash(ev),
                          auditTailCurrentMAC(k, ev.id, Hash(ev), r.primary), None)
    BY <2>2, <2>7 DEF auditTailCurrentMAC
  <2>13. \A j \in DOMAIN Q : n < j => Q[j].key = ev.key
    <3>1. \A j \in DOMAIN Q : n < j => j = n + 1
      BY <1>9, <1>10
    <3> QED
      BY <1>10, <3>1
  <2>14. \A g \in Heads(Q) : g <= n
    BY <1>5, <1>9 DEF Heads, anchorRows
  <2>15. r.primary.id = Q[n].id /\ r.primary.hash = Hash(Q[n]) /\ Q[n].key # ev.key
    BY <1>6, <1>13, <2>3, <2>7, <2>10
  <2>16. TwoAnchorsAt(r, n)
    BY <1>2, <1>3, <1>6, <2>10, <2>11, <2>12, <2>13, <2>14, <2>15 DEF TwoAnchorsAt
  <2> QED
    BY <1>2, <1>5, <2>7, <2>16 DEF Keyed, Opened
<1> QED
  BY <1>12, <1>13

LEMMA RecordKeyed ==
    ASSUME NEW k \in Nat, k >= 1, NEW d, DbOK(d, k), Linear(d), Keyed(d, k), Opened(d, k),
           NEW r, r = recordAudit(d, k, "change", NoHash, None)
    PROVE  Keyed(r, k) /\ Opened(r, k)
BY RecordUnanchored, RecordAnchored, RecordRotated DEF Keyed

\* Opening the store anchors a log that has none, if it verifies.
LEMMA SeedKeyed ==
    ASSUME NEW k \in Nat, NEW d, DbOK(d, k), Linear(d), Keyed(d, k),
           NEW r, r = seedAuditTail(d, k)
    PROVE  Keyed(r, k) /\ Opened(r, k) /\ r.rows = d.rows
<1>0. RowsOK(d.rows, k) /\ KeyedLog(d.rows, k) /\ checkAuditTail(d)
  BY DEF Keyed, KeyedLog, Linear
<1>1. CASE auditTailSeedable(d, k)
  <2>1. r = writeAuditTail(d, k, Newest(d))
    BY <1>1 DEF seedAuditTail
  <2>2. /\ d.primary = None /\ d.rows # <<>> /\ Newest(d).version = 2 /\ Newest(d).key = k
    BY <1>1 DEF auditTailSeedable, auditRowVerifies
  <2>3. NoAnchors(d)
    BY <1>0, <2>2, OneAnchorFacts, TwoAnchorsFacts DEF Keyed
  <2>4. d.current = None /\ \A i \in DOMAIN d.rows : d.rows[i].key = k
    BY <2>2, <2>3 DEF NoAnchors
  <2>5. PICK s : s = Slot(Newest(d).id, Hash(Newest(d)),
                          auditTailMAC(k, Newest(d).id, Hash(Newest(d))), None)
    OBVIOUS
  <2>6. r.rows = d.rows /\ r.primary = s /\ r.current = d.current
    <3>1. r = [d EXCEPT !.primary = s]
      BY <2>1, <2>5 DEF writeAuditTail
    <3> QED
      BY <3>1 DEF DbOK, DbShape
  <2>7. Newest(r) = Newest(d)
    BY <2>6 DEF Newest
  <2>8. s # None
    BY <1>0, <2>2, <2>5, NewestFacts, SlotFields
  <2>9. OneAnchor(r)
    BY <2>2, <2>4, <2>5, <2>6, <2>7 DEF OneAnchor, Covered
  <2> QED
    BY <1>0, <2>6, <2>8, <2>9 DEF Keyed, Opened
<1>2. CASE ~auditTailSeedable(d, k)
  <2>1. r = d
    BY <1>2 DEF seedAuditTail
  <2>2. Opened(d, k)
    <3> SUFFICES ASSUME d.primary = None, d.rows # <<>>, d.rows[1].key = k PROVE FALSE
      BY DEF Opened
    <3>1. NoAnchors(d)
      BY <1>0, OneAnchorFacts, TwoAnchorsFacts DEF Keyed
    <3>2. Newest(d).key = k
      <4>1. /\ Newest(d).key \in Nat /\ Newest(d).key <= k
            /\ d.rows[1].key <= Newest(d).key
        BY <1>0, NewestFacts
      <4> QED
        BY <4>1
    <3>3. Newest(d).version = 2
      BY <3>1, <3>2 DEF NoAnchors
    <3> QED
      BY <1>0, <1>2, <3>2, <3>3 DEF auditTailSeedable, auditRowVerifies
  <2> QED
    BY <2>1, <2>2
<1> QED
  BY <1>1, <1>2

-----------------------------------------------------------------------------
(* The purge, the re-anchor and the re-hash *)

\* The rows a purge keeps.
Suffix(R, n, c, S) ==
    /\ n \in Nat /\ n = Len(R) /\ c \in Int /\ 2 <= c /\ c <= n
    /\ IsSeq(S) /\ Len(S) = n - c + 1
    /\ \A i \in 1 .. (n - c + 1) : S[i] = R[c + i - 1]

LEMMA SuffixRows ==
    ASSUME NEW R, NEW k \in Nat, RowsOK(R, k), HistoriesOK(R), NEW n, NEW c, NEW S,
           Suffix(R, n, c, S)
    PROVE  /\ RowsOK(S, k) /\ HistoriesOK(S) /\ S # <<>> /\ S[1] = R[c]
           /\ \A i \in DOMAIN S : \E j \in DOMAIN R : S[i] = R[j]
           /\ S[Len(S)] = R[n]
<1>0. /\ n \in Nat /\ n = Len(R) /\ c \in Int /\ 2 <= c /\ c <= n
      /\ IsSeq(S) /\ Len(S) = n - c + 1
      /\ \A i \in 1 .. (n - c + 1) : S[i] = R[c + i - 1]
  BY DEF Suffix
<1>1. PICK m \in Nat : m = n - c + 1 /\ m >= 1
  <2>1. n - c + 1 \in Nat /\ n - c + 1 >= 1
    BY <1>0
  <2> QED
    BY <2>1
<1>2. DOMAIN S = 1 .. m /\ Len(S) = m /\ S # <<>> /\ DOMAIN R = 1 .. n
  BY <1>0, <1>1, SeqFacts, RowFacts
<1>3. /\ \A i \in 1 .. m : c + i - 1 \in 1 .. n /\ c + i - 1 # 1
      /\ \A i \in 1 .. m : i # 1 =>
            i - 1 \in 1 .. m /\ c + (i - 1) - 1 = (c + i - 1) - 1
      /\ m \in 1 .. m /\ c + m - 1 = n
  BY ONLY m \in Nat, <1>0, <1>1, CutIndices
<1>4. PICK f : f = [i \in 1 .. m |-> c + i - 1]
  OBVIOUS
<1>5. /\ \A i \in 1 .. m : f[i] \in DOMAIN R /\ S[i] = R[f[i]] /\ f[i] # 1
      /\ \A i \in 1 .. m : i # 1 => i - 1 \in 1 .. m /\ f[i - 1] = f[i] - 1
      /\ f[m] = n
  BY <1>0, <1>1, <1>2, <1>3, <1>4
<1>6. \A i, j \in 1 .. m : i < j => f[i] < f[j]
  BY <1>0, <1>4
<1>7. S[1] = R[c] /\ S[Len(S)] = R[n]
  <2>1. 1 \in 1 .. m /\ f[1] = c /\ m \in 1 .. m
    BY <1>0, <1>1, <1>4
  <2> QED
    BY <1>2, <1>5, <2>1
<1>8. \A i \in DOMAIN S : Links(S, i)
  <2> SUFFICES ASSUME NEW i \in 1 .. m, i # 1 PROVE S[i].prev = Hash(S[i - 1])
    BY <1>2 DEF Links
  <2>1. Links(R, f[i]) /\ f[i] # 1 /\ S[i] = R[f[i]]
    BY <1>5 DEF RowsOK
  <2>2. i - 1 \in 1 .. m /\ f[i - 1] = f[i] - 1
    BY <1>5
  <2>3. S[i - 1] = R[f[i] - 1]
    BY <1>5, <2>2
  <2> QED
    BY <2>1, <2>3 DEF Links
<1>9. RowsOK(S, k)
  <2>1. \A i \in DOMAIN S : /\ S[i].id \in Nat /\ S[i].id >= 1
                            /\ S[i].key \in 1 .. k /\ S[i].version \in 2 .. 3
    BY <1>2, <1>5 DEF RowsOK
  <2>2. ASSUME NEW i \in 1 .. m, NEW j \in 1 .. m, i < j
        PROVE  /\ S[i].id < S[j].id /\ S[i].key <= S[j].key
               /\ S[i].version <= S[j].version
    <3>1. PICK x, y \in DOMAIN R : x < y /\ S[i] = R[x] /\ S[j] = R[y]
      BY <1>5, <1>6, <2>2
    <3> QED
      BY <3>1, RowFacts
  <2>3. Ordered(S)
    BY <1>2, <2>2 DEF Ordered
  <2> QED
    BY <1>0, <1>8, <2>1, <2>3 DEF RowsOK
<1>10. HistoriesOK(S)
  BY <1>2, <1>5 DEF HistoriesOK, Heads, anchorRows
<1> QED
  BY <1>2, <1>5, <1>7, <1>9, <1>10

LEMMA HashSome == \A r : Hash(r) # NoHash
BY DEF Hash, NoHash

LEMMA HistSome == \A t, g : /\ [id |-> 0, through |-> t, digest |-> g] # None
                            /\ [id |-> 0, through |-> t, digest |-> g].through = t
                            /\ [id |-> 0, through |-> t, digest |-> g].digest = g
<1>1. ASSUME NEW t, NEW g PROVE [id |-> 0, through |-> t, digest |-> g] # None
  <2>1. DOMAIN [id |-> 0, through |-> t, digest |-> g] # DOMAIN None
    BY DEF None
  <2> QED
    BY <2>1
<1> QED
  BY <1>1

\* What a purge keeps of the accepted rows: the first m of the rows S.
Kept(S, rec, hist, m) ==
    /\ m \in Nat /\ m <= Len(S)
    /\ hist = None => \A i \in DOMAIN S : ~inHistory(rec, S[i])
    /\ hist # None =>
          /\ rec # None /\ rec.hist # None /\ hist.through = rec.hist.through
          /\ \A i \in DOMAIN S : S[i].id <= hist.through <=> i <= m
          /\ hist.digest = [i \in 1 .. m |-> Hash(S[i])]

LEMMA KeptHistory ==
    ASSUME NEW S, NEW k \in Nat, RowsOK(S, k),
           NEW rec, rec # None /\ rec.hist # None => rec.hist.through \in Nat,
           NEW kept, kept = historyRows(S, rec),
           NEW hist, hist = IF kept = <<>> THEN None
                            ELSE [id |-> 0, through |-> rec.hist.through,
                                  digest |-> Digest(kept)]
    PROVE  \E m : Kept(S, rec, hist, m)
<1>1. PICK m \in Nat : /\ m <= Len(S)
                       /\ \A i \in DOMAIN S : inHistory(rec, S[i]) <=> i <= m
  BY HistoryExtent
<1>2. Digest(kept) = [i \in 1 .. m |-> Hash(S[i])] /\ (kept = <<>> <=> m = 0)
  BY <1>1, HistoryDigest DEF RowsOK
<1>4. Len(S) \in Nat /\ DOMAIN S = 1 .. Len(S)
  BY RowFacts
<1>5. CASE m = 0
  <2>1. hist = None
    BY <1>2, <1>5
  <2>2. \A i \in DOMAIN S : ~(i <= m)
    BY <1>4, <1>5
  <2> QED
    BY <1>1, <2>1, <2>2 DEF Kept
<1>6. CASE m # 0
  <2>1. 1 \in DOMAIN S /\ 1 <= m
    BY <1>1, <1>4, <1>6
  <2>2. rec # None /\ rec.hist # None
    BY <1>1, <2>1 DEF inHistory
  <2>3. /\ hist # None /\ hist.through = rec.hist.through
        /\ hist.digest = [i \in 1 .. m |-> Hash(S[i])]
    <3>1. PICK t, g : t = rec.hist.through /\ g = Digest(kept)
      OBVIOUS
    <3>2. hist = [id |-> 0, through |-> t, digest |-> g]
      BY <1>2, <1>6, <3>1
    <3>3. hist # None /\ hist.through = t /\ hist.digest = g
      BY <3>2, HistSome
    <3> QED
      BY <1>2, <3>1, <3>3
  <2>4. \A i \in DOMAIN S : S[i].id <= hist.through <=> i <= m
    BY <1>1, <2>2, <2>3 DEF inHistory
  <2> QED
    BY <1>1, <2>2, <2>3, <2>4 DEF Kept
<1> QED
  BY <1>5, <1>6

LEMMA PurgeKeyed ==
    ASSUME NEW k \in Nat, k >= 1, NEW d, DbOK(d, k), Linear(d), Keyed(d, k), Opened(d, k),
           NEW c \in 2 .. Len(d.rows), verifyAuditPurgePrefix(d, k, c) = "ok",
           NEW r, r = PurgeAuditEvents(d, k, c)
    PROVE  Keyed(r, k) /\ Opened(r, k) /\ r.rows # <<>>
<1>1. PICK R, n : R = d.rows /\ n = Len(R)
  OBVIOUS
<1>2. KeyedLog(R, k) /\ RowsOK(R, k) /\ RowsOK(d.rows, k) /\ HistoriesOK(R) /\ IsSeq(R)
  BY <1>1 DEF Keyed, KeyedLog, RowsOK
<1>3. n \in Nat /\ c \in Int /\ 2 <= c /\ c <= n /\ DOMAIN R = 1 .. n /\ R # <<>>
  BY <1>1, <1>2, SeqFacts
<1>4. Covered(R, k)
  <2> SUFFICES ASSUME ~Covered(R, k) PROVE FALSE
    OBVIOUS
  <2>1. PICK m : Run(R, k, m)
    BY <1>2, UncoveredRun
  <2> QED
    BY <1>1, <1>2, <2>1, UncoveredPurges
<1>5. OneAnchor(d) /\ Newest(d).key = k
  BY <1>1, <1>3, <1>4, OpenedCovered, CoveredAnchors
<1>6. PICK e, S : e = [d EXCEPT !.rows = SubSeq(@, c, Len(@))] /\ S = SubSeq(R, c, Len(R))
  OBVIOUS
<1>7. DbOK(e, k) /\ Linear(e) /\ e.seq = d.seq
  BY <1>6, Cut
<1>8. e.rows = S /\ e.primary = d.primary /\ e.current = d.current
  <2>1. PICK rs, a, b, q : d = [rows |-> rs, primary |-> a, current |-> b, seq |-> q]
    BY DEF DbOK, DbShape
  <2>2. rs = R /\ S = SubSeq(rs, c, Len(rs))
    BY <1>1, <1>6, <2>1
  <2>3. e = [rows |-> S, primary |-> a, current |-> b, seq |-> q]
    BY <1>6, <2>1, <2>2
  <2> QED
    BY <2>1, <2>3
<1>9. /\ RowsOK(S, k) /\ HistoriesOK(S) /\ S # <<>> /\ S[1] = R[c]
      /\ \A i \in DOMAIN S : \E j \in DOMAIN R : S[i] = R[j]
      /\ S[Len(S)] = R[n]
  <2>1. /\ IsSeq(S) /\ Len(S) = n - c + 1
        /\ \A i \in 1 .. (n - c + 1) : S[i] = R[c + i - 1]
    BY <1>1, <1>2, <1>6, SeqSuffix
  <2>2. Suffix(R, n, c, S)
    BY <1>1, <1>3, <2>1 DEF Suffix
  <2> QED
    BY <1>2, <2>2, SuffixRows
<1>10. Newest(e) = Newest(d)
  BY <1>1, <1>8, <1>9 DEF Newest
<1>11. planAuditTailMove(e, k) = "advance"
  <2>1. namesNewest(d) /\ d.primary # None /\ auditTailVerifies(d, k)
    BY <1>2, <1>5, OneAnchorFacts
  <2>2. namesNewest(e) /\ auditTailVerifies(e, k)
    BY <1>8, <1>9, <1>10, <2>1 DEF namesNewest, Names, auditTailVerifies
  <2> QED
    BY <1>8, <1>9, <2>2 DEF planAuditTailMove
<1>12. PICK rec, hist, head, ev, move :
          /\ rec = findAuditAnchor(R, k).rec /\ hist = keptHistory(R, rec, c)
          /\ head = Hash(R[c])
          /\ ev = NextRow(e, k, "purge", head, hist) /\ move = planAuditTailMove(e, k)
  OBVIOUS
<1>13. r = recordAudit(e, k, "purge", head, hist)
  BY <1>1, <1>6, <1>12 DEF PurgeAuditEvents
<1>14. /\ RecordedAs(e, k, ev, move, r)
       /\ ev.action = "purge" /\ ev.head = head /\ ev.hist = hist
  BY <1>7, <1>12, <1>13, Recording
<1>15. /\ Appended(S, Len(S), ev, r.rows) /\ NextOf(S, ev, k) /\ Newest(r) = ev /\ r.rows # <<>>
       /\ r.primary = Slot(ev.id, Hash(ev), auditTailMAC(k, ev.id, Hash(ev)), None)
       /\ r.current = None
  <2>1. d.current = None
    BY <1>5 DEF OneAnchor
  <2>2. move = "advance"
    BY <1>11, <1>12
  <2> QED
    BY <1>8, <1>14, <2>1, <2>2 DEF RecordedAs
<1>16. /\ \A i \in DOMAIN R : ~inHistory(rec, R[i]) => R[i].key = k
       /\ rec = None \/ \E h \in DOMAIN R : rec = R[h]
  BY <1>2, <1>4, <1>12, CoveredRows
<1>17. ev.id \in Nat /\ \A i \in DOMAIN R : R[i].id \in Nat /\ R[i].id < ev.id
  <2>1. ev.id = d.seq + 1 /\ d.seq \in Nat
    BY <1>7, <1>12 DEF NextRow, Row, DbOK, LogOK
  <2>2. \A i \in DOMAIN R : R[i].id \in 1 .. d.seq
    BY <1>1 DEF DbOK, LogOK
  <2> QED
    BY <2>1, <2>2
<1>18. rec # None /\ rec.hist # None => rec.hist.through \in Nat /\ rec.hist.through < ev.id
  <2> SUFFICES ASSUME rec # None, rec.hist # None
               PROVE  rec.hist.through \in Nat /\ rec.hist.through < ev.id
    OBVIOUS
  <2>1. PICK h \in DOMAIN R : rec = R[h]
    BY <1>16
  <2>2. rec.hist.through \in Nat /\ rec.hist.through < rec.id
    BY <1>2, <2>1 DEF HistoriesOK
  <2> QED
    BY <1>17, <2>1, <2>2
<1>19. PICK m : Kept(S, rec, hist, m)
  <2>1. rec # None /\ rec.hist # None => rec.hist.through \in Nat
    BY <1>18
  <2>2. PICK kept : kept = historyRows(S, rec)
    OBVIOUS
  <2>3. hist = IF kept = <<>> THEN None
               ELSE [id |-> 0, through |-> rec.hist.through, digest |-> Digest(kept)]
    BY <1>6, <1>12, <2>2, Zenon DEF keptHistory
  <2> QED
    BY <1>9, <2>1, <2>2, <2>3, KeptHistory
<1>20. \A i \in DOMAIN S : S[i].key # k => hist # None /\ S[i].id <= hist.through
  <2> SUFFICES ASSUME NEW i \in DOMAIN S, S[i].key # k
               PROVE  hist # None /\ S[i].id <= hist.through
    OBVIOUS
  <2>1. inHistory(rec, S[i])
    BY <1>9, <1>16
  <2> QED
    BY <1>19, <2>1 DEF inHistory, Kept
<1>21. KeyedLog(r.rows, k) /\ Covered(r.rows, k)
  <2>1. ev.head = Hash(S[1]) /\ ev.head # NoHash
    BY <1>9, <1>12, <1>14, HashSome
  <2>2. hist # None =>
              /\ hist.through \in Nat /\ hist.through < ev.id
              /\ \A i \in DOMAIN S : S[i].id <= hist.through <=> i <= m
              /\ hist.digest = [i \in 1 .. m |-> Hash(S[i])]
    BY <1>18, <1>19 DEF Kept
  <2>4. m \in Nat /\ m <= Len(S)
    BY <1>19 DEF Kept
  <2>3. ev.action # "change"
    BY <1>14
  <2> QED
    BY <1>9, <1>14, <1>15, <1>20, <2>1, <2>2, <2>3, <2>4, AppendHead
<1>22. ev.key = k /\ ev.id # 0
  BY <1>15 DEF NextOf
<1>23. OneAnchor(r) /\ r.primary # None
  BY <1>15, <1>21, <1>22, SlotFields DEF OneAnchor
<1> QED
  BY <1>15, <1>21, <1>23 DEF Keyed, Opened

\* The re-chain places the primary anchor on the newest row, whatever it was.
LEMMA ResetAnchors ==
    ASSUME NEW k \in Nat, NEW d, DbOK(d, k), KeyedLog(d.rows, k), Covered(d.rows, k),
           d.rows # <<>>, Newest(d).key = k,
           NEW r, r = resetAuditTail(d, k, Newest(d))
    PROVE  Keyed(r, k) /\ OneAnchor(r) /\ Opened(r, k) /\ r.rows = d.rows
<1>1. PICK s : s = Slot(Newest(d).id, Hash(Newest(d)),
                        auditTailMAC(k, Newest(d).id, Hash(Newest(d))), None)
  OBVIOUS
<1>2. r.rows = d.rows /\ r.primary = s /\ r.current = None
  <2>1. r = [[d EXCEPT !.primary = s] EXCEPT !.current = None]
    BY <1>1 DEF resetAuditTail, writeAuditTail
  <2> QED
    BY <2>1 DEF DbOK, DbShape
<1>3. Newest(r) = Newest(d)
  BY <1>2 DEF Newest
<1>4. s # None
  <2>1. RowsOK(d.rows, k)
    BY DEF KeyedLog
  <2>2. Newest(d).id # 0
    BY <2>1, NewestFacts
  <2> QED
    BY <1>1, <2>2, SlotFields
<1>5. OneAnchor(r)
  BY <1>1, <1>2, <1>3 DEF OneAnchor
<1> QED
  BY <1>2, <1>4, <1>5 DEF Keyed, Opened

\* The rows of earlier secrets are the first ones, and the scan's history.
LEMMA ScanExtent ==
    ASSUME NEW d, NEW k \in Nat, RowsOK(d.rows, k)
    PROVE  \E m \in Nat : /\ m <= Len(d.rows) /\ scanAuditForReanchor(d, k).history = m
                          /\ \A i \in DOMAIN d.rows : d.rows[i].key # k <=> i <= m
<1>1. PICK R, n : R = d.rows /\ n = Len(R)
  OBVIOUS
<1>2. RowsOK(R, k) /\ n \in Nat /\ DOMAIN R = 1 .. n
  BY <1>1, RowFacts
<1>3. PICK bad : bad = {i \in DOMAIN R : ~auditRowVerifies(R[i], k) \/ ~Links(R, i)}
  OBVIOUS
<1>4. \A i \in DOMAIN R : i \in bad <=> R[i].key # k
  BY <1>2, <1>3, RowFacts DEF auditRowVerifies
<1>5. ASSUME NEW i \in bad, NEW j \in 1 .. i PROVE j \in bad
  <2>1. i \in 1 .. n /\ j \in 1 .. n /\ R[i].key # k /\ (j < i \/ j = i)
    BY <1>2, <1>3, <1>4
  <2>2. /\ R[i].key \in Nat /\ R[j].key \in Nat /\ R[i].key <= k
        /\ j < i => R[j].key <= R[i].key
    BY <1>2, <2>1, RowFacts
  <2>3. R[j].key # k
    BY <2>1, <2>2
  <2> QED
    BY <1>2, <1>4, <2>1, <2>3
<1>6. bad \in SUBSET (1 .. n)
  BY <1>2, <1>3
<1>7. PICK m \in 0 .. n : bad = 1 .. m
  BY <1>2, <1>5, <1>6, Prefix
<1>8. m \in Nat /\ m <= n
  BY <1>2, <1>7
<1>9. scanAuditForReanchor(d, k).history = IF bad = {} THEN 0 ELSE Max(bad)
  BY <1>1, <1>3 DEF scanAuditForReanchor
<1>10. scanAuditForReanchor(d, k).history = m
  <2>1. CASE m = 0
    BY <1>7, <1>9, <2>1
  <2>2. CASE m # 0
    <3>1. m \in bad /\ bad \in SUBSET Nat /\ \A y \in bad : y <= m
      BY <1>7, <1>8, <2>2
    <3>2. Max(bad) = m
      BY <3>1, MaxIs
    <3> QED
      BY <1>9, <3>1, <3>2
  <2> QED
    BY <2>1, <2>2
<1>11. \A i \in DOMAIN R : R[i].key # k <=> i <= m
  BY <1>2, <1>4, <1>7, <1>8
<1> QED
  BY <1>1, <1>8, <1>10, <1>11

\* A re-anchor accepts every row of an earlier secret.
LEMMA ReanchorKeyed ==
    ASSUME NEW k \in Nat, k >= 1, NEW d, DbOK(d, k), Linear(d), Keyed(d, k), d.rows # <<>>,
           d.seq < MaxId,
           NEW plan, plan.scan = scanAuditForReanchor(d, k),
           NEW r, r = reanchorAuditLogTx(d, k, plan)
    PROVE  /\ Keyed(r, k) /\ OneAnchor(r) /\ Opened(r, k) /\ Covered(r.rows, k)
           /\ r.rows # <<>>
<1>1. PICK R, n : R = d.rows /\ n = Len(R)
  OBVIOUS
<1>2. KeyedLog(R, k) /\ RowsOK(R, k) /\ HistoriesOK(R) /\ RowsOK(d.rows, k) /\ IsSeq(R)
  BY <1>1 DEF Keyed, KeyedLog, RowsOK
<1>3. n \in Nat /\ DOMAIN R = 1 .. n /\ 1 \in DOMAIN R /\ R # <<>>
  BY <1>1, <1>2, NewestFacts
<1>4. PICK m \in Nat : /\ m <= n /\ plan.scan.history = m
                       /\ \A i \in DOMAIN R : R[i].key # k <=> i <= m
  <2>1. \E m \in Nat : /\ m <= Len(d.rows) /\ scanAuditForReanchor(d, k).history = m
                       /\ \A i \in DOMAIN d.rows : d.rows[i].key # k <=> i <= m
    BY <1>2, ScanExtent
  <2> QED
    BY <1>1, <2>1
<1>5. PICK hist, head, ev, move, e :
          /\ hist = IF m = 0 THEN None
                    ELSE [id |-> 0, through |-> R[m].id, digest |-> Digest(SubSeq(R, 1, m))]
          /\ head = Hash(R[1])
          /\ ev = NextRow(d, k, "rechain", head, hist) /\ move = planAuditTailMove(d, k)
          /\ e = recordAudit(d, k, "rechain", head, hist)
  OBVIOUS
<1>6. r = resetAuditTail(e, k, Newest(e))
  BY <1>1, <1>4, <1>5, Zenon DEF reanchorAuditLogTx
<1>7. DbOK(e, k)
  BY <1>5, Recorded
<1>8. /\ RecordedAs(d, k, ev, move, e)
      /\ ev.action = "rechain" /\ ev.head = head /\ ev.hist = hist
  BY <1>5, Recording
<1>9. /\ Appended(R, n, ev, e.rows) /\ NextOf(R, ev, k) /\ Newest(e) = ev /\ e.rows # <<>>
  BY <1>1, <1>8 DEF RecordedAs
<1>10. Digest(SubSeq(R, 1, m)) = [i \in 1 .. m |-> Hash(R[i])]
  <2>1. PICK P : P = SubSeq(R, 1, m)
    OBVIOUS
  <2>2. DOMAIN P = 1 .. m /\ \A i \in 1 .. m : P[i] = R[i]
    BY <1>1, <1>2, <1>4, <2>1, SeqPrefix
  <2> QED
    BY <2>1, <2>2 DEF Digest
<1>11. /\ m = 0 => hist = None
       /\ m # 0 => /\ hist # None /\ hist.through = R[m].id
                   /\ hist.digest = [i \in 1 .. m |-> Hash(R[i])]
  <2>1. CASE m = 0
    BY <1>5, <2>1
  <2>2. CASE m # 0
    <3>1. PICK t, g : t = R[m].id /\ g = Digest(SubSeq(R, 1, m))
      OBVIOUS
    <3>2. hist = [id |-> 0, through |-> t, digest |-> g]
      BY <1>5, <2>2, <3>1
    <3>3. hist # None /\ hist.through = t /\ hist.digest = g
      BY <3>2, HistSome
    <3> QED
      BY <1>10, <2>2, <3>1, <3>3
  <2> QED
    BY <2>1, <2>2
<1>12. ASSUME m # 0
       PROVE  /\ R[m].id \in Nat /\ R[m].id < ev.id
              /\ \A i \in DOMAIN R : R[i].id <= R[m].id <=> i <= m
  <2>1. m \in DOMAIN R
    BY <1>3, <1>4, <1>12
  <2>2. R[m].id \in Nat /\ R[m].id < ev.id
    BY <1>2, <1>9, <2>1, RowFacts DEF NextOf
  <2>3. ASSUME NEW i \in DOMAIN R PROVE R[i].id <= R[m].id <=> i <= m
    <3>1. /\ R[i].id \in Nat /\ (i < m => R[i].id < R[m].id) /\ (m < i => R[m].id < R[i].id)
      BY <1>2, <2>1, <2>3, RowFacts
    <3>2. i \in Nat
      BY <1>3, <2>3
    <3> QED
      BY <2>2, <3>1, <3>2
  <2> QED
    BY <2>2, <2>3
<1>13. \A i \in DOMAIN R : R[i].key # k => hist # None /\ R[i].id <= hist.through
  <2> SUFFICES ASSUME NEW i \in DOMAIN R, R[i].key # k
               PROVE  hist # None /\ R[i].id <= hist.through
    OBVIOUS
  <2>1. i <= m /\ i \in Nat /\ i >= 1
    BY <1>3, <1>4
  <2>2. m # 0
    BY <2>1
  <2> QED
    BY <1>11, <1>12, <2>1, <2>2
<1>14. KeyedLog(e.rows, k) /\ Covered(e.rows, k)
  <2>1. ev.head = Hash(R[1]) /\ ev.head # NoHash /\ ev.action # "change"
    BY <1>5, <1>8, HashSome
  <2>2. hist # None =>
              /\ hist.through \in Nat /\ hist.through < ev.id
              /\ \A i \in DOMAIN R : R[i].id <= hist.through <=> i <= m
              /\ hist.digest = [i \in 1 .. m |-> Hash(R[i])]
    BY <1>11, <1>12
  <2> QED
    BY <1>2, <1>3, <1>4, <1>8, <1>9, <1>13, <2>1, <2>2, AppendHead
<1>15. Newest(e).key = k
  BY <1>9 DEF NextOf
<1>16. Keyed(r, k) /\ OneAnchor(r) /\ Opened(r, k) /\ r.rows = e.rows
  BY <1>6, <1>7, <1>9, <1>14, <1>15, ResetAnchors
<1> QED
  BY <1>9, <1>14, <1>16

\* A log of the unkeyed rendering, as an earlier release left it.
Legacy(d) ==
    /\ d.rows # <<>> /\ d.primary = None /\ d.current = None
    /\ \A i \in DOMAIN d.rows :
          /\ d.rows[i].version = 1 /\ d.rows[i].head = NoHash /\ d.rows[i].hist = None
          /\ d.rows[i].key = d.rows[1].key
    /\ \A i, j \in DOMAIN d.rows : i < j => d.rows[i].id < d.rows[j].id
    /\ GenesisOK(d.rows)

\* The re-hash signs every row of it under the secret in use.
LEMMA RehashKeyed ==
    ASSUME NEW k \in Nat, k >= 1, NEW d, DbOK(d, k), Linear(d), Legacy(d), d.seq < MaxId,
           NEW r, r = rechainAuditLogTx(d, k)
    PROVE  /\ Keyed(r, k) /\ OneAnchor(r) /\ Opened(r, k) /\ Covered(r.rows, k)
           /\ r.rows # <<>>
<1>1. PICK rs, b : rs = RehashedRows(d, k) /\ b = [d EXCEPT !.rows = rs]
  OBVIOUS
<1>2. DbOK(b, k) /\ Linear(b) /\ b.seq = d.seq /\ RehashOf(d, k, b)
  BY <1>1, Rehashed
<1>3. PICK R, Z, n : R = d.rows /\ Z = b.rows /\ n = Len(Z)
  OBVIOUS
<1>4. IsSeq(Z) /\ IsSeq(R) /\ R # <<>>
  BY <1>2, <1>3 DEF DbOK, LogOK, Legacy
<1>5. /\ DOMAIN R = DOMAIN Z /\ 1 \in DOMAIN Z
      /\ \A i \in DOMAIN Z :
            /\ Z[i].id = R[i].id /\ Z[i].key = k /\ Z[i].version = 3
            /\ Z[i].action = R[i].action /\ Z[i].head = NoHash /\ Z[i].hist = None
            /\ i = 1 => Z[i].prev = R[i].prev
  <2>1. DOMAIN R = DOMAIN Z /\ 1 \in DOMAIN R
    <3>1. Len(R) \in Nat /\ Len(R) # 0 /\ DOMAIN R = 1 .. Len(R)
      BY <1>4, SeqFacts
    <3> QED
      BY <1>2, <1>3, <3>1 DEF RehashOf
  <2>2. \A i \in DOMAIN R : R[i].head = NoHash /\ R[i].hist = None
    BY <1>3 DEF Legacy
  <2> QED
    BY <1>2, <1>3, <2>1, <2>2 DEF RehashOf
<1>6. Heads(Z) = {} /\ Z # <<>>
  BY <1>5 DEF Heads, anchorRows
<1>7. RowsOK(Z, k)
  <2>1. \A i \in DOMAIN Z : /\ Z[i].id \in Nat /\ Z[i].id >= 1 /\ Links(Z, i)
    BY <1>2, <1>3 DEF DbOK, LogOK, Linear
  <2>2. \A i, j \in DOMAIN Z : i < j => R[i].id < R[j].id
    BY <1>3, <1>5 DEF Legacy
  <2>3. Ordered(Z)
    <3>1. 3 <= 3 /\ k <= k
      OBVIOUS
    <3> QED
      BY <1>5, <2>2, <3>1 DEF Ordered
  <2>4. k \in 1 .. k /\ 3 \in 2 .. 3
    OBVIOUS
  <2> QED
    BY <1>4, <1>5, <2>1, <2>3, <2>4 DEF RowsOK
<1>8. HistoriesOK(Z) /\ HeadOK(Z)
  BY <1>5, <1>6 DEF HistoriesOK, HeadOK, NewestHead
<1>9. GenesisOK(Z)
  <2>1. IF R[1].prev = NoHash THEN R[1].id = 1
        ELSE \E i \in DOMAIN R : R[i].action = "purge"
    <3>1. Heads(R) = {}
      BY <1>3 DEF Legacy, Heads, anchorRows
    <3> QED
      BY <1>3, <1>4, <3>1 DEF Legacy, GenesisOK
  <2> QED
    BY <1>5, <2>1 DEF GenesisOK
<1>10. KeyedLog(Z, k) /\ Covered(Z, k)
  BY <1>5, <1>7, <1>8, <1>9 DEF KeyedLog, Covered
<1>11. PICK ev, move, e : /\ ev = NextRow(b, k, "rechain", NoHash, None)
                          /\ move = planAuditTailMove(b, k)
                          /\ e = recordAudit(b, k, "rechain", NoHash, None)
  OBVIOUS
<1>12. r = resetAuditTail(e, k, Newest(e))
  BY <1>1, <1>11, Zenon DEF rechainAuditLogTx, RehashedRows
<1>13. DbOK(e, k)
  BY <1>2, <1>11, Recorded
<1>14. /\ RecordedAs(b, k, ev, move, e)
       /\ ev.action = "rechain" /\ ev.head = NoHash /\ ev.hist = None
  BY <1>2, <1>11, Recording
<1>15. /\ Appended(Z, n, ev, e.rows) /\ NextOf(Z, ev, k) /\ Newest(e) = ev /\ e.rows # <<>>
  BY <1>3, <1>14 DEF RecordedAs
<1>16. KeyedLog(e.rows, k) /\ Covered(e.rows, k)
  BY <1>6, <1>10, <1>14, <1>15, AppendUnheaded
<1>17. Newest(e).key = k
  BY <1>15 DEF NextOf
<1>18. Keyed(r, k) /\ OneAnchor(r) /\ Opened(r, k) /\ r.rows = e.rows
  BY <1>12, <1>13, <1>15, <1>16, <1>17, ResetAnchors
<1> QED
  BY <1>15, <1>16, <1>18

LEMMA RotateKeyed ==
    ASSUME NEW k \in Nat, NEW d, Keyed(d, k)
    PROVE  Keyed(d, k + 1)
<1>1. 1 .. k \subseteq 1 .. k + 1
  OBVIOUS
<1>2. RowsOK(d.rows, k + 1)
  BY <1>1 DEF Keyed, KeyedLog, RowsOK
<1> QED
  BY <1>2 DEF Keyed, KeyedLog

-----------------------------------------------------------------------------
(* The invariant: keyed with its anchors, or not yet re-hashed *)

KeyedState(d, k, c, u) ==
    /\ Keyed(d, k)
    /\ c # "confirmRehash"
    /\ u => Opened(d, k)
    /\ c \in {"prove", "confirm"} => d.rows # <<>>

LegacyState(d, c, u) == Legacy(d) /\ ~u /\ c \in {"idle", "plan", "confirmRehash"}

KeyInv == KeyedState(db, secret, cli.pc, up) \/ LegacyState(db, cli.pc, up)

LEMMA LegacyUnkeyed ==
    ASSUME NEW d, IsSeq(d.rows), Legacy(d)
    PROVE  unkeyedRows(d) # {} /\ \A k : seedAuditTail(d, k) = d
<1>1. PICK R, n : R = d.rows /\ n = Len(R)
  OBVIOUS
<1>2. n \in Nat /\ n # 0 /\ DOMAIN R = 1 .. n
  BY <1>1, SeqFacts DEF Legacy
<1>3. 1 \in DOMAIN R /\ n \in DOMAIN R
  BY <1>2
<1>4. R[1].version = 1 /\ R[n].version = 1
  BY <1>1, <1>3 DEF Legacy
<1>5. unkeyedRows(d) # {}
  BY <1>1, <1>3, <1>4 DEF unkeyedRows
<1>6. Newest(d).version # 2
  BY <1>1, <1>4 DEF Newest
<1>7. \A k : ~auditTailSeedable(d, k)
  BY <1>6 DEF auditTailSeedable
<1> QED
  BY <1>5, <1>7 DEF seedAuditTail

LEMMA KeyedUnkeyed ==
    ASSUME NEW d, NEW k \in Nat, Keyed(d, k)
    PROVE  unkeyedRows(d) = {}
<1>1. \A i \in DOMAIN d.rows : d.rows[i].version \in 2 .. 3
  BY DEF Keyed, KeyedLog, RowsOK
<1>2. \A i \in DOMAIN d.rows : d.rows[i].version # 1
  BY <1>1
<1> QED
  BY <1>2 DEF unkeyedRows

\* The two inherited rows, of either rendering, and the empty log.
LEMMA KeyInit == Init => KeyInv
<1> SUFFICES ASSUME Init PROVE KeyInv
  OBVIOUS
<1>1. secret = 1 /\ up = FALSE /\ cli.pc = "idle" /\ secret \in Nat
  BY DEF Init, Idle
<1>2. PICK rows \in InitialLogs :
        db = [rows |-> rows, primary |-> None, current |-> None,
              seq |-> IF rows = <<>> THEN 0 ELSE rows[2].id]
  BY DEF Init
<1>3. db.rows = rows /\ db.primary = None /\ db.current = None
  BY <1>2
<1>4. Inv
  BY InitOK
<1>5. CASE rows = <<>>
  <2>1. DOMAIN db.rows = {} /\ IsSeq(db.rows)
    BY <1>3, <1>4, <1>5 DEF Inv, DbOK, LogOK
  <2>2. Heads(db.rows) = {}
    BY <2>1 DEF Heads, anchorRows
  <2>3. KeyedLog(db.rows, secret)
    BY <1>3, <1>5, <2>1, <2>2
       DEF KeyedLog, RowsOK, Ordered, HistoriesOK, HeadOK, GenesisOK
  <2>4. NoAnchors(db)
    BY <1>3, <1>5 DEF NoAnchors
  <2> QED
    BY <1>1, <2>3, <2>4 DEF KeyInv, KeyedState, Keyed
<1>6. ASSUME NEW key \in 0 .. 1, NEW version \in 1 .. 2, NEW first \in 1 .. 2,
             NEW prev, NEW action,
             version = key + 1,
             (prev = NoHash /\ first = 1) \/ (prev # NoHash /\ action = "purge"),
             rows = <<Row(first, key, prev, version, "change", NoHash, None),
                      Row(first + 1, key, <<first, key>>, version, action, NoHash, None)>>
      PROVE  KeyInv
  <2>1. PICK a, b : /\ a = Row(first, key, prev, version, "change", NoHash, None)
                    /\ b = Row(first + 1, key, <<first, key>>, version, action, NoHash, None)
    OBVIOUS
  <2>2. rows = <<a, b>>
    BY <1>6, <2>1
  <2>3. /\ a.id = first /\ a.key = key /\ a.version = version /\ a.head = NoHash
        /\ a.hist = None /\ a.prev = prev
        /\ b.id = first + 1 /\ b.key = key /\ b.version = version /\ b.head = NoHash
        /\ b.hist = None /\ b.action = action
    BY <2>1 DEF Row
  <2>4. PICK R : R = db.rows
    OBVIOUS
  <2>5. R # <<>> /\ Len(R) = 2 /\ DOMAIN R = {1, 2} /\ R[1] = a /\ R[2] = b
    <3>1. R = <<a, b>>
      BY <1>3, <2>2, <2>4
    <3>2. Len(R) = 2 /\ DOMAIN R = 1 .. 2 /\ R # <<>> /\ R[1] = a /\ R[2] = b
      BY <3>1
    <3>3. 1 .. 2 = {1, 2}
      OBVIOUS
    <3> QED
      BY <3>2, <3>3
  <2>6. Heads(R) = {}
    BY <2>3, <2>5 DEF Heads, anchorRows
  <2>7. IsSeq(R) /\ \A i \in DOMAIN R : Links(R, i)
    BY <1>4, <2>4 DEF Inv, DbOK, LogOK, Linear
  <2>8. GenesisOK(R)
    BY <1>6, <2>3, <2>5 DEF GenesisOK
  <2>9. \A i, j \in DOMAIN R : i < j =>
           R[i].id < R[j].id /\ R[i].key <= R[j].key /\ R[i].version <= R[j].version
    <3> SUFFICES ASSUME NEW i \in DOMAIN R, NEW j \in DOMAIN R, i < j
                   PROVE  R[i].id < R[j].id /\ R[i].key <= R[j].key /\ R[i].version <= R[j].version
      OBVIOUS
    <3>2. i = 1 /\ j = 2
      BY <2>5
    <3>3. first < first + 1 /\ key <= key /\ version <= version
      OBVIOUS
    <3> QED
      BY <2>3, <2>5, <3>2, <3>3
  <2>10. Newest(db) = b
    BY <2>4, <2>5 DEF Newest
  <2>11. CASE key = 0
    <3>1. \A i \in DOMAIN R : /\ R[i].version = 1 /\ R[i].head = NoHash /\ R[i].hist = None
                              /\ R[i].key = R[1].key
      BY <1>6, <2>3, <2>5, <2>11
    <3>2. Legacy(db)
      BY <1>3, <2>4, <2>5, <2>8, <2>9, <3>1 DEF Legacy
    <3> QED
      BY <1>1, <3>2 DEF KeyInv, LegacyState
  <2>12. CASE key = 1
    <3>0. version = 2
      BY <1>6, <2>12
    <3>1. \A i \in DOMAIN R : /\ R[i].id \in Nat /\ R[i].id >= 1
                              /\ R[i].key \in 1 .. secret /\ R[i].version \in 2 .. 3
      <4>1. /\ first \in Nat /\ first >= 1 /\ first + 1 \in Nat /\ first + 1 >= 1
            /\ key \in 1 .. secret /\ version \in 2 .. 3
        BY <1>1, <2>12, <3>0
      <4> QED
        BY <2>3, <2>5, <4>1
    <3>2. RowsOK(R, secret)
      BY <2>7, <2>9, <3>1 DEF RowsOK, Ordered
    <3>3. HistoriesOK(R) /\ HeadOK(R)
      BY <2>3, <2>5, <2>6 DEF HistoriesOK, HeadOK, NewestHead
    <3>4. KeyedLog(db.rows, secret)
      BY <2>4, <2>8, <3>2, <3>3 DEF KeyedLog
    <3>5. NoAnchors(db)
      <4>1. \A i \in DOMAIN R : R[i].key = b.key
        BY <2>3, <2>5
      <4> QED
        BY <1>3, <2>3, <2>4, <2>6, <2>10, <3>0, <4>1 DEF NoAnchors
    <3> QED
      BY <1>1, <3>4, <3>5 DEF KeyInv, KeyedState, Keyed
  <2> QED
    BY <2>11, <2>12
<1>7. ASSUME NEW key \in 0 .. 1, NEW version \in 1 .. 2, version = key + 1, NEW p \in BOOLEAN,
             rows = Inherited(key, version, p)
      PROVE  KeyInv
  <2>1. CASE p
    <3>1. rows = <<Row(2, key, <<1, key>>, version, "change", NoHash, None),
                   Row(2 + 1, key, <<2, key>>, version, "purge", NoHash, None)>>
      BY <1>7, <2>1 DEF Inherited
    <3>2. 2 \in 1 .. 2 /\ <<1, key>> # NoHash
      BY DEF NoHash
    <3>3. PICK prev, first : prev = <<1, key>> /\ first = 2
      OBVIOUS
    <3> QED
      BY <1>6, <1>7, <3>1, <3>2, <3>3
  <2>2. CASE ~p
    <3>1. rows = <<Row(1, key, NoHash, version, "change", NoHash, None),
                   Row(1 + 1, key, <<1, key>>, version, "change", NoHash, None)>>
      BY <1>7, <2>2 DEF Inherited
    <3>2. 1 \in 1 .. 2
      OBVIOUS
    <3>3. PICK prev, first, action : prev = NoHash /\ first = 1 /\ action = "change"
      OBVIOUS
    <3> QED
      <4>1. /\ rows = <<Row(first, key, prev, version, "change", NoHash, None),
                      Row(first + 1, key, <<first, key>>, version, action, NoHash, None)>>
            /\ first \in 1 .. 2
        BY <3>1, <3>2, <3>3
      <4> QED
        BY <1>6, <1>7, <3>3, <4>1
  <2> QED
    BY <2>1, <2>2
<1>8. \/ rows = <<>>
      \/ \E p \in BOOLEAN : rows = Inherited(0, 1, p)
      \/ \E p \in BOOLEAN : rows = Inherited(1, 2, p)
  BY DEF InitialLogs
<1>9. 0 \in 0 .. 1 /\ 1 \in 0 .. 1 /\ 1 \in 1 .. 2 /\ 2 \in 1 .. 2 /\ 1 = 0 + 1 /\ 2 = 1 + 1
  OBVIOUS
<1> QED
  BY <1>5, <1>7, <1>8, <1>9

LEMMA KeyStep ==
    ASSUME NEW d, NEW k, NEW c, NEW u, d = db', k = secret', c = cli'.pc, u = up',
           KeyedState(d, k, c, u) \/ LegacyState(d, c, u)
    PROVE  KeyInv'
<1>1. KeyedState(db', secret', cli'.pc, up') \/ LegacyState(db', cli'.pc, up')
  OBVIOUS
<1> QED
  BY <1>1 DEF KeyInv

\* The stages of the verification, which a re-chain passes only on a keyed log.
Checks == {"anchor", "rows", "shape", "sequence", "tail", "scan", "done"}

\* A step of a command that reads, of either kind of log.
LEMMA KeyRead ==
    ASSUME KeyInv, db' = db, secret' = secret, up' = up,
           \/ cli'.pc = "idle"
           \/ cli.pc \in Checks /\ cli'.pc \in Checks
           \/ cli.pc \in Checks /\ cli'.pc = "prove" /\ db.rows # <<>>
           \/ cli.pc \in {"prove", "confirm"} /\ cli'.pc = "confirm"
    PROVE  KeyInv'
<1>1. PICK d, k, c, u : d = db /\ k = secret /\ c = cli'.pc /\ u = up
  OBVIOUS
<1>2. KeyedState(d, k, cli.pc, u) \/ LegacyState(d, cli.pc, u)
  BY <1>1 DEF KeyInv
<1>3. KeyedState(d, k, c, u) \/ LegacyState(d, c, u)
  BY <1>1, <1>2 DEF KeyedState, LegacyState, Checks
<1> QED
  BY <1>1, <1>3, KeyStep

\* The commit of a re-anchor, planned on this very log, and of a re-hash.
LEMMA ReanchorStep ==
    ASSUME Inv, KeyInv, reanchorAuditLog, db' # db
    PROVE  /\ Keyed(db', secret) /\ OneAnchor(db') /\ Opened(db', secret)
           /\ Covered(db'.rows, secret) /\ db'.rows # <<>>
<1>1. PICK d, k, plan, r : d = db /\ k = secret /\ plan = cli.plan /\ r = db'
  OBVIOUS
<1>2. k \in Nat /\ k >= 1 /\ DbOK(d, k) /\ Linear(d)
  BY <1>1, BoundsAssumption DEF Inv, Secrets
<1>3. /\ cli.pc = "confirm" /\ d.seq < MaxId /\ plan.scan = scanAuditForReanchor(d, k)
      /\ r = reanchorAuditLogTx(d, k, plan)
  BY <1>1 DEF reanchorAuditLog, reanchorStillHolds
<1>4. Keyed(d, k) /\ d.rows # <<>>
  BY <1>1, <1>3 DEF KeyInv, KeyedState, LegacyState
<1>5. /\ Keyed(r, k) /\ OneAnchor(r) /\ Opened(r, k) /\ Covered(r.rows, k)
      /\ r.rows # <<>>
  BY <1>2, <1>3, <1>4, ReanchorKeyed
<1> QED
  BY <1>1, <1>5

LEMMA RehashStep ==
    ASSUME Inv, KeyInv, rechainAuditLog, db' # db
    PROVE  /\ Keyed(db', secret) /\ OneAnchor(db') /\ Opened(db', secret)
           /\ Covered(db'.rows, secret) /\ db'.rows # <<>>
<1>1. PICK d, k, r : d = db /\ k = secret /\ r = db'
  OBVIOUS
<1>2. k \in Nat /\ k >= 1 /\ DbOK(d, k) /\ Linear(d)
  BY <1>1, BoundsAssumption DEF Inv, Secrets
<1>3. cli.pc = "confirmRehash" /\ d.seq < MaxId /\ r = rechainAuditLogTx(d, k)
  BY <1>1 DEF rechainAuditLog
<1>4. Legacy(d)
  BY <1>1, <1>3 DEF KeyInv, KeyedState, LegacyState
<1>5. /\ Keyed(r, k) /\ OneAnchor(r) /\ Opened(r, k) /\ Covered(r.rows, k)
      /\ r.rows # <<>>
  BY <1>2, <1>3, <1>4, RehashKeyed
<1> QED
  BY <1>1, <1>5

\* A write of either process to a keyed log.
LEMMA KeyWrite ==
    ASSUME NEW d, d = db', Keyed(d, secret), Opened(d, secret), d.rows # <<>> \/ d.rows = db.rows,
           KeyedState(db, secret, cli.pc, up), secret' = secret, cli' = cli
    PROVE  KeyInv'
<1>1. PICK k, c, u : k = secret /\ c = cli.pc /\ u = up'
  OBVIOUS
<1>2. KeyedState(d, k, c, u)
  BY <1>1 DEF KeyedState
<1>3. k = secret' /\ c = cli'.pc
  BY <1>1
<1> QED
  BY <1>1, <1>2, <1>3, KeyStep

\* Opening the store by a command, which leaves pc where it starts.
LEMMA KeyOpen ==
    ASSUME Inv, KeyInv, db' = seedAuditTail(db, secret), secret' = secret, up' = up,
           cli = Idle,
           cli'.pc = "plan" \/ (cli'.pc = "anchor" /\ unkeyedRows(db) = {})
    PROVE  KeyInv'
<1>1. PICK d, k, r, c, u : d = db /\ k = secret /\ r = db' /\ c = cli'.pc /\ u = up
  OBVIOUS
<1>2. k \in Nat /\ DbOK(d, k) /\ Linear(d) /\ r = seedAuditTail(d, k) /\ IsSeq(d.rows)
  BY <1>1 DEF Inv, Secrets, DbOK, LogOK
<1>3. c # "prove" /\ c # "confirm" /\ c # "confirmRehash"
  BY <1>1
<1>4. CASE Legacy(d) /\ ~u
  <2>1. r = d /\ c = "plan"
    BY <1>1, <1>2, <1>4, LegacyUnkeyed
  <2> QED
    BY <1>1, <1>4, <2>1, KeyStep DEF LegacyState
<1>5. CASE Keyed(d, k)
  <2>1. Keyed(r, k) /\ Opened(r, k)
    BY <1>2, <1>5, SeedKeyed
  <2>2. KeyedState(r, k, c, u)
    BY <1>3, <2>1 DEF KeyedState
  <2> QED
    BY <1>1, <2>2, KeyStep
<1> QED
  BY <1>1, <1>4, <1>5 DEF KeyInv, KeyedState, LegacyState

LEMMA KeyNext == Inv /\ KeyInv /\ [Next]_vars => KeyInv'
<1> SUFFICES ASSUME Inv, KeyInv, [Next]_vars PROVE KeyInv'
  OBVIOUS
<1>0. /\ secret \in Nat /\ secret >= 1 /\ up \in BOOLEAN
      /\ DbOK(db, secret) /\ Linear(db) /\ CliOK(cli) /\ IsSeq(db.rows)
  BY BoundsAssumption DEF Inv, Secrets, DbOK, LogOK
<1>1. KeyedState(db, secret, cli.pc, up) \/ LegacyState(db, cli.pc, up)
  BY DEF KeyInv
<1>2. unkeyedRows(db) = {} => KeyedState(db, secret, cli.pc, up)
  BY <1>0, <1>1, LegacyUnkeyed DEF LegacyState
<1>3. Idle.pc = "idle"
  BY DEF Idle
<1>4. CASE ServerStart
  <2>1. /\ db' = seedAuditTail(db, secret) /\ secret' = secret /\ cli' = cli
        /\ KeyedState(db, secret, cli.pc, up)
    BY <1>2, <1>4 DEF ServerStart
  <2>2. PICK d, r : d = db /\ r = db'
    OBVIOUS
  <2>3. Keyed(d, secret) /\ DbOK(d, secret) /\ Linear(d)
    BY <1>0, <2>1, <2>2 DEF KeyedState
  <2>4. Keyed(r, secret) /\ Opened(r, secret) /\ r.rows = d.rows
    BY <1>0, <2>1, <2>2, <2>3, SeedKeyed
  <2> QED
    BY <2>1, <2>2, <2>4, KeyWrite
<1>5. CASE ServerStop
  <2>1. UNCHANGED <<db, secret, cli>> /\ up' = FALSE /\ KeyedState(db, secret, cli.pc, up)
    BY <1>1, <1>5 DEF ServerStop, LegacyState
  <2>2. PICK d, k, c, u : d = db /\ k = secret /\ c = cli.pc /\ u = FALSE
    OBVIOUS
  <2>3. KeyedState(d, k, c, u)
    BY <2>1, <2>2 DEF KeyedState
  <2>4. d = db' /\ k = secret' /\ c = cli'.pc /\ u = up'
    BY <2>1, <2>2
  <2> QED
    BY <2>3, <2>4, KeyStep
<1>6. CASE ServerRecord
  <2>1. /\ db' = recordAudit(db, secret, "change", NoHash, None) /\ db.seq < MaxId
        /\ secret' = secret /\ cli' = cli /\ up
    BY <1>6 DEF ServerRecord
  <2>2. KeyedState(db, secret, cli.pc, up)
    BY <1>1, <2>1 DEF LegacyState
  <2>3. PICK d, r : d = db /\ r = db'
    OBVIOUS
  <2>4. Keyed(d, secret) /\ Opened(d, secret) /\ DbOK(d, secret) /\ Linear(d)
    BY <1>0, <2>1, <2>2, <2>3 DEF KeyedState
  <2>5. Keyed(r, secret) /\ Opened(r, secret)
    BY <1>0, <2>1, <2>3, <2>4, RecordKeyed
  <2>6. r.rows # <<>>
    BY <1>0, <2>1, <2>3, <2>4, Recorded
  <2> QED
    BY <2>1, <2>2, <2>3, <2>5, <2>6, KeyWrite
<1>7. CASE ServerPurge
  <2>1. PICK c \in 2 .. Len(db.rows) : /\ verifyAuditPurgePrefix(db, secret, c) = "ok"
                                       /\ db' = PurgeAuditEvents(db, secret, c)
    BY <1>7 DEF ServerPurge
  <2>2. secret' = secret /\ cli' = cli /\ up
    BY <1>7 DEF ServerPurge
  <2>3. KeyedState(db, secret, cli.pc, up)
    BY <1>1, <2>2 DEF LegacyState
  <2>4. PICK d, r : d = db /\ r = db'
    OBVIOUS
  <2>5. Keyed(d, secret) /\ Opened(d, secret) /\ DbOK(d, secret) /\ Linear(d)
    BY <1>0, <2>2, <2>3, <2>4 DEF KeyedState
  <2>6. Keyed(r, secret) /\ Opened(r, secret) /\ r.rows # <<>>
    BY <1>0, <2>1, <2>4, <2>5, PurgeKeyed
  <2> QED
    BY <2>2, <2>3, <2>4, <2>6, KeyWrite
<1>8. CASE RotateSecret
  <2>1. ~up /\ secret' = secret + 1 /\ UNCHANGED <<db, up, cli>>
    BY <1>8 DEF RotateSecret
  <2>2. PICK d, k, c, u : d = db /\ k = secret + 1 /\ c = cli.pc /\ u = up
    OBVIOUS
  <2>3. KeyedState(d, k, c, u) \/ LegacyState(d, c, u)
    <3>1. CASE KeyedState(db, secret, cli.pc, up)
      <4>1. Keyed(db, secret)
        BY <3>1 DEF KeyedState
      <4>2. Keyed(d, k)
        BY <1>0, <2>2, <4>1, RotateKeyed
      <4> QED
        BY <2>1, <2>2, <3>1, <4>2 DEF KeyedState
    <3> QED
      BY <1>1, <2>2, <3>1
  <2>4. d = db' /\ k = secret' /\ c = cli'.pc /\ u = up'
    BY <2>1, <2>2
  <2> QED
    BY <2>3, <2>4, KeyStep
<1>9. CASE CliRecord
  <2>1. /\ db' = recordAudit(seedAuditTail(db, secret), secret, "change", NoHash, None)
        /\ db.seq < MaxId /\ secret' = secret /\ cli' = cli
        /\ KeyedState(db, secret, cli.pc, up)
    BY <1>2, <1>9 DEF CliRecord
  <2>2. PICK d, s, r : d = db /\ s = seedAuditTail(d, secret) /\ r = db'
    OBVIOUS
  <2>3. Keyed(d, secret) /\ DbOK(d, secret) /\ Linear(d)
    BY <1>0, <2>1, <2>2 DEF KeyedState
  <2>4. DbOK(s, secret) /\ Linear(s) /\ s.seq = d.seq
    BY <1>0, <2>2, <2>3, Seeded
  <2>5. Keyed(s, secret) /\ Opened(s, secret)
    BY <1>0, <2>2, <2>3, SeedKeyed
  <2>6. r = recordAudit(s, secret, "change", NoHash, None) /\ s.seq < MaxId
    BY <2>1, <2>2, <2>4
  <2>7. Keyed(r, secret) /\ Opened(r, secret)
    BY <1>0, <2>4, <2>5, <2>6, RecordKeyed
  <2>8. r.rows # <<>>
    BY <1>0, <2>4, <2>6, Recorded
  <2> QED
    BY <2>1, <2>2, <2>7, <2>8, KeyWrite
<1>10. CASE VerifyCommand
  <2>1. cli'.pc = "anchor"
    BY <1>10 DEF VerifyCommand, Idle
  <2> QED
    BY <1>10, <2>1, KeyOpen DEF VerifyCommand
<1>11. CASE RechainCommand
  <2>1. cli'.pc = "plan"
    BY <1>11 DEF RechainCommand, Idle
  <2> QED
    BY <1>11, <2>1, KeyOpen DEF RechainCommand
<1>12. CASE CliExit
  BY <1>3, <1>12, KeyRead DEF CliExit
<1>13. CASE UNCHANGED vars
  <2>1. PICK d, k, c, u : d = db /\ k = secret /\ c = cli.pc /\ u = up
    OBVIOUS
  <2>2. d = db' /\ k = secret' /\ c = cli'.pc /\ u = up'
    BY <1>13, <2>1 DEF vars
  <2> QED
    BY <1>1, <2>1, <2>2, KeyStep
<1>14. CASE auditRechainPlan
  <2>1. UNCHANGED <<db, secret, up>> /\ cli.pc = "plan"
    BY <1>14 DEF auditRechainPlan
  <2>2. \/ cli' = Idle
        \/ /\ unkeyedRows(db) # {}
           /\ \E plan : cli' = [cli EXCEPT !.pc = "confirmRehash", !.plan = plan]
        \/ /\ unkeyedRows(db) = {}
           /\ \E plan : cli' = [cli EXCEPT !.pc = "anchor", !.plan = plan]
    BY <1>14 DEF auditRechainPlan
  <2>3. \/ cli'.pc = "idle"
        \/ unkeyedRows(db) # {} /\ cli'.pc = "confirmRehash"
        \/ unkeyedRows(db) = {} /\ cli'.pc = "anchor"
    BY <1>0, <1>3, <2>2 DEF CliOK
  <2>4. PICK d, k, c, u : d = db /\ k = secret /\ c = cli'.pc /\ u = up
    OBVIOUS
  <2>5. KeyedState(d, k, c, u) \/ LegacyState(d, c, u)
    <3>1. CASE KeyedState(db, secret, cli.pc, up)
      <4>1. Keyed(db, secret)
        BY <3>1 DEF KeyedState
      <4>2. unkeyedRows(db) = {}
        BY <1>0, <4>1, KeyedUnkeyed
      <4> QED
        BY <2>3, <2>4, <3>1, <4>2 DEF KeyedState
    <3>2. CASE LegacyState(db, cli.pc, up)
      <4>1. unkeyedRows(db) # {}
        BY <1>0, <3>2, LegacyUnkeyed DEF LegacyState
      <4> QED
        BY <2>3, <2>4, <3>2, <4>1 DEF LegacyState
    <3> QED
      BY <1>1, <3>1, <3>2
  <2> QED
    BY <2>1, <2>4, <2>5, KeyStep
<1>15. ASSUME NEW v, Conclude(v) PROVE cli'.pc \in Checks
  <2>1. PICK pc \in {"scan", "done"} :
          cli' = [cli EXCEPT !.pc = pc, !.verdict = v, !.rec = None, !.last = None]
    BY <1>15 DEF Conclude
  <2>2. cli'.pc = pc
    BY <1>0, <2>1 DEF CliOK
  <2> QED
    BY <2>1, <2>2 DEF Checks
<1>16. CASE VerifyAnchor
  <2>1. cli' = [cli EXCEPT !.pc = "rows", !.rec = verifyAnchor(db, secret)]
    BY <1>16 DEF VerifyAnchor
  <2>2. cli'.pc = "rows"
    BY <1>0, <2>1 DEF CliOK
  <2>3. cli'.pc \in Checks /\ cli.pc \in Checks
    BY <1>16, <2>2 DEF VerifyAnchor, Checks
  <2> QED
    BY <1>16, <2>3, KeyRead DEF VerifyAnchor
<1>17. CASE VerifyRows
  <2>1. PICK part : part = verifyRows(db, secret, cli.rec)
    OBVIOUS
  <2>2. part \in {"broken", "shape", "sequence"}
    BY <2>1 DEF verifyRows
  <2>3. Conclude("broken") \/ (part # "broken" /\ cli' = [cli EXCEPT !.pc = part, !.rec = None])
    BY <1>17, <2>1 DEF VerifyRows
  <2>4. cli'.pc \in Checks
    <3>1. CASE part # "broken" /\ cli' = [cli EXCEPT !.pc = part, !.rec = None]
      <4>1. cli'.pc = part
        BY <1>0, <3>1 DEF CliOK
      <4> QED
        BY <2>2, <3>1, <4>1 DEF Checks
    <3> QED
      BY <1>15, <2>3, <3>1
  <2>5. cli.pc \in Checks
    BY <1>17 DEF VerifyRows, Checks
  <2> QED
    BY <1>17, <2>4, <2>5, KeyRead DEF VerifyRows
<1>18. CASE VerifyShape
  <2>1. \/ Conclude("broken")
        \/ \E last : cli' = [cli EXCEPT !.pc = "sequence", !.last = last]
    BY <1>18 DEF VerifyShape
  <2>2. Conclude("broken") \/ cli'.pc = "sequence"
    BY <1>0, <2>1 DEF CliOK
  <2>3. cli'.pc \in Checks /\ cli.pc \in Checks
    BY <1>15, <1>18, <2>2 DEF VerifyShape, Checks
  <2> QED
    BY <1>18, <2>3, KeyRead DEF VerifyShape
<1>19. CASE VerifySequence
  <2>1. Conclude("broken") \/ cli' = [cli EXCEPT !.pc = "tail"]
    BY <1>19 DEF VerifySequence
  <2>2. Conclude("broken") \/ cli'.pc = "tail"
    BY <1>0, <2>1 DEF CliOK
  <2>3. cli'.pc \in Checks /\ cli.pc \in Checks
    BY <1>15, <1>19, <2>2 DEF VerifySequence, Checks
  <2> QED
    BY <1>19, <2>3, KeyRead DEF VerifySequence
<1>20. CASE VerifyTail
  <2>1. \E v : Conclude(v)
    BY <1>20 DEF VerifyTail
  <2>2. cli'.pc \in Checks /\ cli.pc \in Checks
    BY <1>15, <1>20, <2>1 DEF VerifyTail, Checks
  <2> QED
    BY <1>20, <2>2, KeyRead DEF VerifyTail
<1>21. CASE auditReanchorPlan
  <2>1. \/ cli' = Idle
        \/ /\ db.rows # <<>>
           /\ \E plan : cli' = [cli EXCEPT !.pc = "prove", !.plan = plan]
    BY <1>21 DEF auditReanchorPlan
  <2>2. cli'.pc = "idle" \/ (db.rows # <<>> /\ cli'.pc = "prove")
    BY <1>0, <1>3, <2>1 DEF CliOK
  <2>3. cli.pc \in Checks
    BY <1>21 DEF auditReanchorPlan, Checks
  <2> QED
    BY <1>21, <2>2, <2>3, KeyRead DEF auditReanchorPlan
<1>22. CASE ProveReanchor
  <2>1. PICK proven : cli' = [cli EXCEPT !.pc = "confirm", !.plan.proven = proven]
    BY <1>22 DEF ProveReanchor
  <2>2. cli'.pc = "confirm"
    BY <1>0, <2>1 DEF CliOK
  <2> QED
    BY <1>22, <2>2, KeyRead DEF ProveReanchor
<1>23. ASSUME db' # db, reanchorAuditLog \/ rechainAuditLog
       PROVE  KeyInv'
  <2>1. PICK r, k, c, u : r = db' /\ k = secret /\ c = cli'.pc /\ u = up
    OBVIOUS
  <2>2. secret' = secret /\ up' = up /\ c \in {"idle", "anchor"}
    BY <1>3, <1>23, <2>1 DEF reanchorAuditLog, rechainAuditLog, Idle
  <2>3. Keyed(r, k) /\ Opened(r, k)
    BY <1>23, <2>1, ReanchorStep, RehashStep
  <2>4. KeyedState(r, k, c, u)
    BY <2>2, <2>3 DEF KeyedState
  <2> QED
    BY <2>1, <2>2, <2>4, KeyStep
<1>24. CASE reanchorAuditLog \/ rechainAuditLog
  <2>1. CASE db' = db
    <3>1. CASE cli' = Idle
      BY <1>3, <1>24, <2>1, <3>1, KeyRead DEF reanchorAuditLog, rechainAuditLog
    <3>2. CASE cli' # Idle
      <4>1. reanchorAuditLog /\ cli.pc = "confirm" /\ cli'.pc = "anchor"
            /\ UNCHANGED <<secret, up>>
        BY <1>24, <3>2 DEF reanchorAuditLog, rechainAuditLog, Idle
      <4>2. PICK d, k, c, u : d = db /\ k = secret /\ c = cli'.pc /\ u = up
        OBVIOUS
      <4>3. KeyedState(d, k, c, u)
        BY <1>1, <4>1, <4>2 DEF KeyedState, LegacyState
      <4> QED
        BY <2>1, <4>1, <4>2, <4>3, KeyStep
    <3> QED
      BY <3>1, <3>2
  <2> QED
    BY <1>23, <1>24, <2>1
<1> QED
  BY <1>4, <1>5, <1>6, <1>7, <1>8, <1>9, <1>10, <1>11, <1>12, <1>13, <1>14,
     <1>16, <1>17, <1>18, <1>19, <1>20, <1>21, <1>22, <1>24 DEF Next

LEMMA KeyInvHolds == Spec => [](Inv /\ KeyInv)
<1>1. Init => Inv /\ KeyInv
  BY InitOK, KeyInit
<1>2. (Inv /\ KeyInv) /\ [Next]_vars => (Inv /\ KeyInv)'
  BY NextOK, KeyNext
<1> QED
  BY <1>1, <1>2, PTL DEF Spec

\* What the invariant says of the unkeyed log: nothing is asked of it yet.
LEMMA KeyCases ==
    ASSUME Inv, KeyInv
    PROVE  /\ secret \in Nat /\ Linear(db)
           /\ \/ Keyed(db, secret) /\ (up => Opened(db, secret))
              \/ unkeyedRows(db) # {} /\ ~up
<1>1. secret \in Nat /\ Linear(db) /\ IsSeq(db.rows)
  BY DEF Inv, Secrets, DbOK, LogOK
<1> QED
  BY <1>1, LegacyUnkeyed DEF KeyInv, KeyedState, LegacyState

\* A log that only this code wrote is never reported as tampered with: read
\* at rest it verifies, or, when a change of secret left rows no anchor of
\* the secret in use accepts, it is a key mismatch (verifyAuditLog,
\* classifyUnverifiedRow), for any number of rows, rotations, promotions of
\* the tail anchor, purges and re-anchors.
THEOREM RotationIsNotTamperingHolds == Spec => []RotationIsNotTampering
<1>1. Inv /\ KeyInv => RotationIsNotTampering
  BY KeyCases, KeyedNotTampered DEF RotationIsNotTampering
<1> QED
  BY <1>1, KeyInvHolds, PTL

\* Wherever the retention cut falls, the purge of a running server and
\* -verify-audit-log come to the same verdict on the log
\* (verifyAuditPurgePrefix, verifyAuditLog).
THEOREM PurgeAgreesWithVerifierHolds == Spec => []PurgeAgreesWithVerifier
<1>1. Inv /\ KeyInv => PurgeAgreesWithVerifier
  BY KeyCases, KeyedPurgeAgrees DEF PurgeAgreesWithVerifier
<1> QED
  BY <1>1, KeyInvHolds, PTL

\* When the rows outstanding are all of one earlier secret, that secret proves
\* them and the tail anchors, so the unattended re-anchor is not refused
\* (proveAuditReanchorPlan, scanAuditForReanchor).
THEOREM OneRotationIsProvableHolds == Spec => []OneRotationIsProvable
<1>1. Inv /\ KeyInv => OneRotationIsProvable
  BY KeyCases, KeyedProvable DEF OneRotationIsProvable
<1> QED
  BY <1>1, KeyInvHolds, PTL

\* Only a re-chain both writes the log and ends the command that waited for
\* the operator's answer, and the log it leaves verifies, whatever the server
\* wrote in the meantime (reanchorAuditLogTx, rechainAuditLogTx).
THEOREM RechainRestoresHolds == Spec => RechainRestores
<1> DEFINE Step == cli.pc \in {"confirm", "confirmRehash"} /\ db' # db /\ cli' # cli
                     => verifyAuditLog(db', secret) = "ok"
<1>1. Inv /\ KeyInv /\ Inv' /\ [Next]_vars => [Step]_vars
  <2> SUFFICES ASSUME Inv, KeyInv, Inv', Next, cli.pc \in {"confirm", "confirmRehash"},
                      db' # db, cli' # cli
               PROVE  verifyAuditLog(db', secret) = "ok"
    OBVIOUS
  <2>1. cli # Idle
    BY DEF Idle
  <2>2. reanchorAuditLog \/ rechainAuditLog
    BY <2>1 DEF Next, ServerStart, ServerStop, ServerRecord, ServerPurge, RotateSecret,
         CliRecord, VerifyCommand, RechainCommand, auditRechainPlan, VerifyAnchor,
         VerifyRows, VerifyShape, VerifySequence, VerifyTail, auditReanchorPlan,
         ProveReanchor, CliExit
  <2>3. PICK r, k : r = db' /\ k = secret
    OBVIOUS
  <2>4. /\ Keyed(r, k) /\ OneAnchor(r) /\ Opened(r, k) /\ Covered(r.rows, k)
        /\ r.rows # <<>>
    BY <2>2, <2>3, ReanchorStep, RehashStep
  <2>5. k \in Nat /\ checkAuditTail(r)
    BY <2>3 DEF Inv, Secrets, Linear
  <2>6. auditTailAnchorPresent(r)
    BY <2>4, <2>5, OpenedCovered
  <2> QED
    BY <2>3, <2>4, <2>5, <2>6, CoveredVerdict
<1> QED
  BY <1>1, KeyInvHolds, PTL DEF Spec, RechainRestores

=============================================================================
