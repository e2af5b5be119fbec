--------------------------- MODULE HistoryProofs ---------------------------
(***************************************************************************)
(* Proofs about the contents of the store, for any handles, ops, faults,   *)
(* ring size and compaction settings: every handle serves a prefix of one  *)
(* history, numbered without a gap, and what a commit was told Ok for      *)
(* stays in it.                                                            *)
(*                                                                         *)
(* The findings show how this can fail: a torn tail as long as a record, a *)
(* log replaced under a tail read, an fsync that fails after the record is *)
(* in the file.  Sheltered excludes these three and nothing else.          *)
(***************************************************************************)
EXTENDS GraphStoreProofs

\* A torn tail and any number of whole ops are told apart by their length.
NoTornAlias ==
  \A m, n \in {0} \cup TornLens : \A k \in Nat : k > 0 => m # n + OpLen * k

Sheltered == ~TailRace /\ NoTornAlias /\ "sync" \notin AppendFaults

----------------------------------------------------------------------------
(* The invariant, part by part: over the files b and w, and a handle at    *)
(* step p that serves g, numbers from n, has seen s, probes q and has      *)
(* staged ops.                                                             *)

\* Entries numbered from n + 1 on, none missing.
Dense(log, n) == \A i \in 1..Len(log) : log[i].seq = n + i

\* A generation without a gap.
Whole(g) == g.applied = Len(g.ops) /\ Dense(g.log, g.applied)

\* v is a beginning of hist.
Begins(v, hist) == Len(v) <= Len(hist) /\ \A i \in 1..Len(v) : v[i] = hist[i]

\* The log holds what the history has from n + 1 on.
LogFits(log, n, hist) ==
  /\ Dense(log, n)
  /\ n + Len(log) <= Len(hist)
  /\ \A i \in 1..Len(log) : log[i].op = hist[n + i]

\* What opening the directory with these files would serve.
History(b, w) == View(Build(b, w))

\* The history is the base and, if it is the base's, the log; a log left over
\* from an older base holds nothing else.
FilesOK(b, w) ==
  /\ b.applied = Len(b.ops)
  /\ w.gen <= b.gen
  /\ w.gen = b.gen => Dense(w.log, b.applied)
  /\ \E n \in Nat : n <= Len(History(b, w)) /\ LogFits(w.log, n, History(b, w))
  /\ w.log # <<>> => w.log[Len(w.log)].end
  /\ w.torn \in {0} \cup TornLens
  /\ w.synced <= Len(w.log)

LiveAt(p, q) == p \notin Closed /\ (p \in Loading => ~q.opening)

\* A handle serves something once it is open, and has seen nothing before.
LiveOK(p, g, s, q) == (LiveAt(p, q) <=> g # None) /\ (g = None => s.stamp = None)

\* What a handle serves begins the history and is of a base that was.
OpenOK(b, w, g, n) ==
  g # None =>
    /\ Whole(g) /\ Begins(View(g), History(b, w))
    /\ n = Len(View(g)) + 1
    /\ g.gen <= b.gen
    /\ g.gen = b.gen => g.applied = b.applied

\* The entries of the log up to pos are served, and no gap is before them.
Reached(g, log, pos) ==
  /\ pos <= Len(log)
  /\ pos > 0 => log[pos].end /\ log[pos].seq <= Len(View(g))
  /\ log # <<>> => log[1].seq <= Len(View(g)) + 1

\* A length a log of at most n entries can have had.
LenUpTo(len, n) == \E l \in 0..n, t \in {0} \cup TornLens : len = OpLen * l + t

\* The stamp names these files.
Names(stamp, b, w) == stamp.base = b.gen /\ stamp.wal.ino = w.ino

\* At most one log replaces the one a base was folded from, so a stamp with
\* the base's generation and the log's inode names this log.
SeenOK(b, w, g, s) ==
  s.stamp # None =>
    /\ Names(s.stamp, b, w) =>
         /\ s.current <=> w.gen = b.gen
         /\ b.applied <= Len(View(g))
         /\ Reached(g, w.log, s.pos)
         /\ s.current => LenUpTo(s.stamp.wal.len, s.pos)
    /\ s.stamp.base = b.gen /\ w.gen < b.gen => s.stamp.wal.ino = w.ino

\* A base some load mapped, and the log that is now.
MapFits(m, b, w) ==
  /\ m.applied = Len(m.ops) /\ Begins(m.ops, History(b, w))
  /\ m.gen = b.gen => m.applied = b.applied
  /\ m.gen = w.gen => Dense(w.log, m.applied) /\ m.applied + Len(w.log) = Len(History(b, w))
  /\ w.gen < m.gen => m.gen = b.gen

\* Between a reload's stats and its read: the log it will read by path is
\* the one it has read before, grown, or belongs to the base it maps.
ProbeOK(b, w, p, g, s, q) ==
  /\ p = "stat" /\ ~q.opening =>
       /\ q.stat = b.gen \/ w.gen < b.gen
       /\ s.stamp # None /\ q.stat = s.stamp.base /\ w.ino = s.stamp.wal.ino =>
            Reached(g, w.log, s.pos)
  /\ p = "tail" =>
       /\ q.stamp.base = b.gen \/ w.gen < b.gen
       /\ s.stamp # None /\ s.stamp.base = q.stamp.base
       /\ s.stamp.wal.ino = w.ino /\ q.stamp.wal.ino = w.ino
       /\ Reached(g, w.log, s.pos)
  /\ p \in {"tail", "map", "read"} =>
       /\ Names(q.stamp, b, w) => LenUpTo(q.stamp.wal.len, Len(w.log))
       /\ q.stamp.base = b.gen /\ w.gen < b.gen => q.stamp.wal.ino = w.ino
  /\ p = "read" =>
       /\ MapFits(q.map, b, w)
       /\ ~q.opening =>
            /\ g.gen <= q.map.gen
            /\ g.gen = q.map.gen => g.applied = q.map.applied

\* One that has caught up under the lock serves all there is, but for its
\* own record once that is written.
LockOK(b, w, p, g, n, s, ops) ==
  /\ p \in Appending \cup {"fold"} =>
       /\ w.gen = b.gen
       /\ p # "writing" => w.torn = 0
  /\ p \in Appending => Names(s.stamp, b, w)
  /\ p \in {"txn", "append", "writing", "fold", "swap"} => Len(View(g)) = Len(History(b, w))
  /\ p \in {"txn", "append", "writing"} => s.pos = Len(w.log)
  /\ p = "written" =>
       /\ Len(w.log) = s.pos + Len(ops)
       /\ Len(History(b, w)) = Len(View(g)) + Len(ops)
       /\ \A i \in 1..Len(ops) : w.log[s.pos + i] = Sealed(n, ops)[i]
  /\ p = "swap" => w.gen < b.gen

HandleOK(b, w, p, g, n, s, q, ops) ==
  /\ LiveOK(p, g, s, q)
  /\ OpenOK(b, w, g, n)
  /\ SeenOK(b, w, g, s)
  /\ ProbeOK(b, w, p, g, s, q)
  /\ LockOK(b, w, p, g, n, s, ops)

FilesInv ==
  /\ base = None /\ wal # None => wal.log = <<>> /\ wal.torn = 0 /\ wal.synced = 0
  /\ base # None => FilesOK(base, wal)

HandleInv(k) == HandleOK(base, wal, pc[k], served[k], nextSeq[k], seen[k], probe[k], staged[k])

HistInv == FilesInv /\ \A k \in Handles : HandleInv(k)

\* What a handle acknowledged, it serves.
AckInv ==
  \A a \in acked : a.by # None =>
    /\ served[a.by] # None
    /\ a.entry.seq \in 1..Len(View(served[a.by]))
    /\ View(served[a.by])[a.entry.seq] = a.entry.op

\* How much of the history no power loss takes.
Safe(b, w) == b.applied + (IF w.gen = b.gen THEN w.synced ELSE 0)

SafeInv ==
  \A a \in acked :
    /\ base # None /\ a.entry.seq \in 1..Safe(base, wal)
    /\ Recovered[a.entry.seq] = a.entry.op

----------------------------------------------------------------------------
(* What the operators on generations and logs compute. *)

\* A generation shows its base's ops, then those of its log.
LEMMA ViewIs ==
  ASSUME NEW g \in Generation
  PROVE  /\ View(g) \in Seq(Ops) /\ Len(View(g)) = Len(g.ops) + Len(g.log)
         /\ \A i \in 1..Len(g.ops) : View(g)[i] = g.ops[i]
         /\ \A i \in 1..Len(g.log) : View(g)[Len(g.ops) + i] = g.log[i].op
<1>1. /\ g.ops \in Seq(Ops) /\ OpsOf(g.log) \in Seq(Ops) /\ g.log \in Seq(Entry)
  BY OpsOfType DEF Generation
<1>2. Len(OpsOf(g.log)) = Len(g.log) /\ \A i \in 1..Len(g.log) : OpsOf(g.log)[i] = g.log[i].op
  BY <1>1 DEF OpsOf
<1>3. PICK ops \in Seq(Ops), more \in Seq(Ops), log \in Seq(Entry) :
        ops = g.ops /\ more = OpsOf(g.log) /\ log = g.log
  BY <1>1
<1>4. View(g) = ops \o more
  BY <1>3 DEF View
<1>5. /\ ops \o more \in Seq(Ops) /\ Len(ops \o more) = Len(ops) + Len(more)
      /\ \A i \in 1..Len(ops) : (ops \o more)[i] = ops[i]
      /\ \A i \in 1..Len(more) : (ops \o more)[Len(ops) + i] = more[i]
  OBVIOUS
<1>6. Len(more) = Len(log) /\ \A i \in 1..Len(log) : more[i] = log[i].op
  BY <1>2, <1>3
<1> QED
  BY <1>3, <1>4, <1>5, <1>6

\* A generation without a gap ends on the number of ops it shows.
LEMMA LastSeqIs ==
  ASSUME NEW g \in Generation, Whole(g)
  PROVE  LastSeq(g) = Len(View(g)) /\ FirstFree(g) = Len(View(g)) + 1
<1>1. Len(View(g)) = Len(g.ops) + Len(g.log)
  BY ViewIs
<1>2. g.ops \in Seq(Ops) /\ g.log \in Seq(Entry) /\ g.applied \in Nat
  BY DEF Generation
<1>3. PICK log \in Seq(Entry), n \in Nat : log = g.log /\ n = g.applied
  BY <1>2
<1>4. n = Len(g.ops) /\ \A i \in 1..Len(log) : log[i].seq = n + i
  BY <1>3 DEF Whole, Dense
<1>5. CASE log = <<>>
  <2>1. Len(log) = 0
    BY <1>5
  <2> QED
    BY <1>1, <1>3, <1>4, <1>5, <2>1 DEF LastSeq, FirstFree
<1>6. CASE log # <<>>
  <2>1. Len(log) \in Nat /\ Len(log) \in 1..Len(log)
    BY <1>6
  <2>2. log[Len(log)].seq = n + Len(log)
    BY <1>4, <2>1
  <2>3. LastSeq(g) = Max2(n, log[Len(log)].seq)
    BY <1>3, <1>6 DEF LastSeq
  <2>4. LastSeq(g) = n + Len(log)
    BY <2>1, <2>2, <2>3 DEF Max2
  <2> QED
    BY <1>1, <1>3, <1>4, <2>4 DEF FirstFree
<1> QED
  BY <1>5, <1>6

\* It shows at least what its base folds.
LEMMA AppliedShown ==
  ASSUME NEW g \in Generation, Whole(g)
  PROVE  g.applied <= Len(View(g))
<1>1. PICK ops \in Seq(Ops), log \in Seq(Entry) : ops = g.ops /\ log = g.log
  BY DEF Generation
<1>2. Len(View(g)) = Len(ops) + Len(log) /\ g.applied = Len(ops)
  BY <1>1, ViewIs DEF Whole
<1>3. Len(ops) \in Nat /\ Len(log) \in Nat
  OBVIOUS
<1> QED
  BY <1>2, <1>3

\* Of a log numbered from n + 1 on, the entries above v are the last ones,
\* and no entry before pos is among them.
LEMMA AboveIs ==
  ASSUME NEW log \in Seq(Entry), NEW n \in Nat, Dense(log, n), NEW v \in Nat, n <= v,
         NEW pos \in 0..Len(log), pos > 0 => n + pos <= v
  PROVE  Above(log, pos, v) =
           IF v - n >= Len(log) THEN <<>> ELSE SubSeq(log, v - n + 1, Len(log))
<1> DEFINE later == {i \in pos + 1..Len(log) : log[i].seq > v}
           first == CHOOSE i \in later : \A j \in later : i <= j
<1>1. later = {i \in pos + 1..Len(log) : n + i > v}
  BY DEF Dense
<1>2. Above(log, pos, v) = IF later = {} THEN <<>> ELSE SubSeq(log, first, Len(log))
  BY DEF Above
<1>3. CASE v - n >= Len(log)
  <2>1. later = {}
    BY <1>1, <1>3
  <2> QED
    BY <1>2, <1>3, <2>1
<1>4. CASE v - n < Len(log)
  <2>1. v - n + 1 \in later /\ \A j \in later : v - n + 1 <= j
    <3>1. PICK l \in Nat, f \in Nat : l = Len(log) /\ f = v - n + 1
      OBVIOUS
    <3>2. f <= l /\ pos + 1 <= f /\ n + f = v + 1
      BY <1>4, <3>1
    <3>3. f \in pos + 1..l /\ n + f > v
      BY <3>2
    <3>4. \A j \in pos + 1..l : n + j > v => f <= j
      BY <3>2
    <3> HIDE DEF later
    <3> QED
      BY <1>1, <3>1, <3>3, <3>4
  <2>2. first \in later /\ \A j \in later : first <= j
    BY <2>1
  <2>3. \A j \in later : j \in Nat
    OBVIOUS
  <2> HIDE DEF first, later
  <2>4. first = v - n + 1
    BY <2>1, <2>2, <2>3
  <2> QED
    BY <1>2, <1>4, <2>1, <2>4
<1> QED
  BY <1>3, <1>4

\* A beginning of a beginning is one, and of two beginnings the shorter one
\* begins the other.
LEMMA BeginsBegins ==
  ASSUME NEW u \in Seq(Ops), NEW v \in Seq(Ops), NEW w \in Seq(Ops)
  PROVE  /\ Begins(u, v) /\ Begins(v, w) => Begins(u, w)
         /\ Begins(u, w) /\ Begins(v, w) /\ Len(u) <= Len(v) => Begins(u, v)
         /\ Begins(u, u)
  BY DEF Begins

\* A beginning as long as the whole is the whole.
LEMMA BeginsAll ==
  ASSUME NEW u \in Seq(Ops), NEW v \in Seq(Ops), Begins(u, v), Len(u) = Len(v)
  PROVE  u = v
  BY DEF Begins

\* Beginnings are prefixes.
LEMMA BeginsIsPrefix ==
  ASSUME NEW u \in Seq(Ops), NEW v \in Seq(Ops), Begins(u, v)
  PROVE  IsPrefix(u, v)
<1>1. Len(u) <= Len(v) /\ Len(u) \in Nat /\ \A i \in 1..Len(u) : v[i] \in Ops
  BY DEF Begins
<1>2. /\ SubSeq(v, 1, Len(u)) \in Seq(Ops) /\ Len(SubSeq(v, 1, Len(u))) = Len(u)
      /\ \A i \in 1..Len(u) : SubSeq(v, 1, Len(u))[i] = v[i]
  BY <1>1
<1>3. SubSeq(v, 1, Len(u)) = u
  BY <1>1, <1>2 DEF Begins
<1> QED
  BY <1>1, <1>3 DEF IsPrefix

\* Publishing on g, which begins the history, what it lacks of a log that
\* fits the history: it then shows what both have.
LEMMA PublishIs ==
  ASSUME NEW g \in Generation, Whole(g), NEW hist \in Seq(Ops), Begins(View(g), hist),
         NEW log \in Seq(Entry), NEW n \in Nat, LogFits(log, n, hist), n <= Len(View(g)),
         NEW pos \in 0..Len(log), pos > 0 => n + pos <= Len(View(g))
  PROVE  LET p == Publish(g, Above(log, pos, LastSeq(g)))
         IN  /\ p \in Generation /\ Whole(p) /\ Begins(View(p), hist)
             /\ Len(View(p)) = Max2(Len(View(g)), n + Len(log))
             /\ p.gen = g.gen /\ p.applied = g.applied
<1> DEFINE new == Above(log, pos, LastSeq(g))
           p   == Publish(g, new)
<1>1. PICK ops \in Seq(Ops), old \in Seq(Entry), v \in Nat, view \in Seq(Ops) :
        ops = g.ops /\ old = g.log /\ view = View(g) /\ v = Len(view)
  <2>1. g.ops \in Seq(Ops) /\ g.log \in Seq(Entry) /\ View(g) \in Seq(Ops)
    BY ViewIs DEF Generation
  <2>2. Len(View(g)) \in Nat
    BY <2>1
  <2> QED
    BY <2>1, <2>2
<1>2. /\ v = Len(ops) + Len(old) /\ g.applied = Len(ops)
      /\ \A i \in 1..Len(ops) : view[i] = ops[i]
      /\ \A i \in 1..Len(old) : view[Len(ops) + i] = old[i].op
  BY <1>1, ViewIs DEF Whole
<1>3. \A i \in 1..Len(old) : old[i].seq = Len(ops) + i
  BY <1>1, <1>2 DEF Whole, Dense
<1>4. v <= Len(hist) /\ \A i \in 1..v : view[i] = hist[i]
  BY <1>1 DEF Begins
<1>5. /\ Dense(log, n) /\ n + Len(log) <= Len(hist) /\ n <= v
      /\ \A i \in 1..Len(log) : log[i].seq = n + i /\ log[i].op = hist[n + i]
  BY <1>1 DEF LogFits, Dense
<1>6. LastSeq(g) = v /\ (pos > 0 => n + pos <= v)
  BY <1>1, LastSeqIs
<1>7. new = IF v - n >= Len(log) THEN <<>> ELSE SubSeq(log, v - n + 1, Len(log))
  BY <1>5, <1>6, AboveIs
<1>8. PICK add \in Seq(Entry) :
        /\ add = new
        /\ v - n >= Len(log) => Len(add) = 0
        /\ v - n < Len(log) => Len(add) = n + Len(log) - v
        /\ \A i \in 1..Len(add) : add[i].seq = v + i /\ add[i].op = hist[v + i]
  <2> HIDE DEF new
  <2>1. CASE v - n >= Len(log)
    <3>1. new = <<>> /\ Len(new) = 0 /\ new \in Seq(Entry)
      BY <1>7, <2>1
    <3>2. \A i \in 1..Len(new) : FALSE
      BY <3>1
    <3>3. ~(v - n < Len(log))
      BY <2>1
    <3> QED
      BY <3>1, <3>2, <3>3, Zenon
  <2>2. CASE v - n < Len(log)
    <3>1. PICK f \in 1..Len(log) : f = v - n + 1
      <4>1. PICK l \in Nat : l = Len(log)
        OBVIOUS
      <4>2. v - n + 1 \in 1..l
        BY <1>5, <2>2, <4>1
      <4> QED
        BY <4>1, <4>2
    <3>2. new = SubSeq(log, f, Len(log))
      BY <1>7, <2>2, <3>1
    <3>3. \A i \in f..Len(log) : log[i] \in Entry
      BY <3>1
    <3>4. /\ SubSeq(log, f, Len(log)) \in Seq(Entry)
          /\ Len(SubSeq(log, f, Len(log))) = Len(log) - f + 1
          /\ \A i \in 1..Len(log) - f + 1 : SubSeq(log, f, Len(log))[i] = log[f + i - 1]
      BY <3>1, <3>3, SubSeqProperties
    <3>5. PICK add \in Seq(Entry) : add = new
      BY <3>2, <3>4
    <3>6. Len(add) = Len(log) - f + 1 /\ \A i \in 1..Len(add) : add[i] = log[f + i - 1]
      BY <3>2, <3>4, <3>5
    <3>7. \A i \in 1..Len(add) : f + i - 1 \in 1..Len(log) /\ n + (f + i - 1) = v + i
      BY <3>1, <3>6
    <3>8. \A i \in 1..Len(add) : add[i].seq = v + i /\ add[i].op = hist[v + i]
      BY <1>5, <3>6, <3>7
    <3>9. Len(add) = n + Len(log) - v
      BY <3>1, <3>6
    <3> QED
      BY <2>2, <3>5, <3>8, <3>9
  <2> QED
    BY <2>1, <2>2
<1>9. PICK all \in Seq(Entry) :
        /\ all = old \o add /\ Len(all) = Len(old) + Len(add)
        /\ \A i \in 1..Len(old) : all[i] = old[i]
        /\ \A i \in 1..Len(add) : all[Len(old) + i] = add[i]
  <2>1. /\ old \o add \in Seq(Entry) /\ Len(old \o add) = Len(old) + Len(add)
        /\ \A i \in 1..Len(old) : (old \o add)[i] = old[i]
        /\ \A i \in 1..Len(add) : (old \o add)[Len(old) + i] = add[i]
    OBVIOUS
  <2> QED
    BY <2>1
<1>10. /\ p \in Generation /\ p.gen = g.gen /\ p.applied = g.applied /\ p.ops = ops
       /\ p.log = all
  <2> HIDE DEF new
  <2>1. p \in Generation
    BY <1>8, PublishType
  <2> QED
    BY <1>1, <1>8, <1>9, <2>1 DEF Publish, Generation
<1> HIDE DEF p
<1>11. \A i \in 1..Len(all) :
         i \in 1..Len(old) \/ (i - Len(old) \in 1..Len(add) /\ i = Len(old) + (i - Len(old)))
  BY <1>9
<1>12. \A i \in 1..Len(all) : all[i].seq = Len(ops) + i /\ all[i].op = hist[Len(ops) + i]
  <2> SUFFICES ASSUME NEW i \in 1..Len(all)
               PROVE  all[i].seq = Len(ops) + i /\ all[i].op = hist[Len(ops) + i]
    OBVIOUS
  <2>1. CASE i \in 1..Len(old)
    <3>1. Len(ops) + i \in 1..v
      BY <1>2, <2>1
    <3> QED
      BY <1>2, <1>3, <1>4, <1>9, <2>1, <3>1
  <2>2. CASE i - Len(old) \in 1..Len(add)
    <3>1. PICK j \in 1..Len(add) : i = Len(old) + j
      <4>1. i = Len(old) + (i - Len(old))
        OBVIOUS
      <4> QED
        BY <2>2, <4>1
    <3>2. Len(ops) + i = v + j
      BY <1>2, <3>1
    <3> QED
      BY <1>8, <1>9, <3>1, <3>2
  <2> QED
    BY <1>11, <2>1, <2>2
<1>13. Whole(p)
  BY <1>2, <1>10, <1>12 DEF Whole, Dense
<1>14. PICK shown \in Seq(Ops) :
         /\ shown = View(p) /\ Len(shown) = Len(ops) + Len(all)
         /\ \A i \in 1..Len(ops) : shown[i] = ops[i]
         /\ \A i \in 1..Len(all) : shown[Len(ops) + i] = all[i].op
  BY <1>10, ViewIs
<1>15. Len(shown) = Max2(v, n + Len(log)) /\ Len(shown) <= Len(hist)
  <2>1. Len(shown) = v + Len(add)
    BY <1>2, <1>9, <1>14
  <2>2. CASE v - n >= Len(log)
    BY <1>4, <1>5, <1>8, <2>1, <2>2 DEF Max2
  <2>3. CASE v - n < Len(log)
    BY <1>4, <1>5, <1>8, <2>1, <2>3 DEF Max2
  <2> QED
    BY <2>2, <2>3
<1>16. \A i \in 1..Len(shown) : shown[i] = hist[i]
  <2> SUFFICES ASSUME NEW i \in 1..Len(shown)
               PROVE  shown[i] = hist[i]
    OBVIOUS
  <2>1. CASE i <= Len(ops)
    <3>1. i \in 1..Len(ops) /\ i \in 1..v
      BY <1>2, <2>1
    <3> QED
      BY <1>2, <1>4, <1>14, <3>1
  <2>2. CASE i > Len(ops)
    <3>1. PICK j \in 1..Len(all) : i = Len(ops) + j
      <4>1. i - Len(ops) \in 1..Len(all) /\ i = Len(ops) + (i - Len(ops))
        BY <1>14, <2>2
      <4> QED
        BY <4>1
    <3> QED
      BY <1>12, <1>14, <3>1
  <2> QED
    BY <2>1, <2>2
<1>17. Begins(View(p), hist)
  BY <1>14, <1>15, <1>16 DEF Begins
<1> QED
  BY <1>1, <1>10, <1>13, <1>14, <1>15, <1>17 DEF p

\* A generation built from files that fit: the base, then the whole log if
\* it is the base's.
LEMMA BuildIs ==
  ASSUME NEW b \in BaseFile, NEW w \in WalFile, b.applied = Len(b.ops),
         w.gen = b.gen => Dense(w.log, b.applied)
  PROVE  /\ Build(b, w) \in Generation /\ Build(b, w) # None /\ Whole(Build(b, w))
         /\ Build(b, w).gen = b.gen /\ Build(b, w).applied = b.applied
         /\ Build(b, w).ops = b.ops
         /\ History(b, w) \in Seq(Ops)
         /\ \A i \in 1..b.applied : History(b, w)[i] = b.ops[i]
         /\ w.gen = b.gen =>
              /\ Len(History(b, w)) = b.applied + Len(w.log)
              /\ \A i \in 1..Len(w.log) : History(b, w)[b.applied + i] = w.log[i].op
         /\ w.gen # b.gen => History(b, w) = b.ops /\ Len(History(b, w)) = b.applied
<1> DEFINE g == Build(b, w)
<1>1. g \in Generation /\ g # None
  BY BuildType
<1>2. w # None /\ w.log \in Seq(Entry) /\ b.applied \in Nat /\ b.ops \in Seq(Ops)
  BY NoneIsNoRecord DEF WalFile, BaseFile
<1>3. g.gen = b.gen /\ g.applied = b.applied /\ g.ops = b.ops
  BY DEF Build
<1>4. CASE w.gen = b.gen
  <2>1. g.log = Above(w.log, 0, b.applied)
    BY <1>2, <1>4 DEF Build, LogCurrent
  <2>2. PICK log \in Seq(Entry), n \in Nat : log = w.log /\ n = b.applied
    BY <1>2
  <2>3. Dense(log, n)
    BY <1>4, <2>2
  <2>4. Above(log, 0, n) = IF n - n >= Len(log) THEN <<>> ELSE SubSeq(log, n - n + 1, Len(log))
    <3>1. n <= n /\ 0 \in 0..Len(log) /\ ~(0 > 0)
      OBVIOUS
    <3> QED
      BY <2>3, <3>1, AboveIs
  <2>5. Above(log, 0, n) = log
    <3>1. CASE Len(log) = 0
      BY <2>4, <3>1
    <3>2. CASE Len(log) > 0
      <4>1. n - n + 1 = 1 /\ ~(n - n >= Len(log))
        BY <3>2
      <4>2. SubSeq(log, 1, Len(log)) = log
        OBVIOUS
      <4> QED
        BY <2>4, <4>1, <4>2
    <3> QED
      BY <3>1, <3>2
  <2>6. g.log = log
    BY <2>1, <2>2, <2>5
  <2>7. Whole(g)
    BY <1>3, <2>2, <2>3, <2>6 DEF Whole
  <2> HIDE DEF g
  <2>8. /\ View(g) \in Seq(Ops) /\ Len(View(g)) = b.applied + Len(log)
        /\ \A i \in 1..b.applied : View(g)[i] = b.ops[i]
        /\ \A i \in 1..Len(log) : View(g)[b.applied + i] = log[i].op
    BY <1>1, <1>3, <2>6, ViewIs
  <2> QED
    BY <1>1, <1>3, <1>4, <2>2, <2>7, <2>8 DEF g, History
<1>5. CASE w.gen # b.gen
  <2>1. g.log = <<>>
    BY <1>5 DEF Build, LogCurrent
  <2>2. Whole(g)
    BY <1>3, <2>1 DEF Whole, Dense
  <2> HIDE DEF g
  <2>3. /\ View(g) \in Seq(Ops) /\ Len(View(g)) = Len(b.ops) + 0
        /\ \A i \in 1..Len(b.ops) : View(g)[i] = b.ops[i]
    BY <1>1, <1>3, <2>1, ViewIs
  <2>4. Len(View(g)) = Len(b.ops)
    BY <1>2, <2>3
  <2>5. View(g) = b.ops
    BY <1>2, <2>3, <2>4
  <2> QED
    BY <1>1, <1>2, <1>3, <1>5, <2>2, <2>3, <2>4, <2>5 DEF g, History
<1> QED
  BY <1>4, <1>5

----------------------------------------------------------------------------
(* What a step may do to the files, power loss and creation apart. *)

\* The log keeps its records: only its torn tail or its synced mark changes.
Rests(b, w, b2, w2) ==
  /\ b2 = b /\ w2.ino = w.ino /\ w2.gen = w.gen /\ w2.log = w.log
  /\ w2.torn \in {0} \cup TornLens
  /\ w.synced <= w2.synced /\ w2.synced <= Len(w2.log)

\* A record is appended to the base's log, numbered on.
Grows(b, w, b2, w2) ==
  /\ b2 = b /\ w2.ino = w.ino /\ w2.gen = w.gen /\ w.gen = b.gen
  /\ w2.torn = 0 /\ w2.synced = w.synced
  /\ \E rec \in Seq(Entry) :
       /\ w2.log = w.log \o rec /\ Dense(rec, b.applied + Len(w.log))
       /\ rec # <<>> => rec[Len(rec)].end

\* The history becomes a newer base.
Folds(b, w, b2, w2) ==
  /\ w2 = w /\ w.gen = b.gen /\ b.gen < b2.gen
  /\ b2.ops = History(b, w) /\ b2.applied = Len(History(b, w))

\* The base, which has none, gets a log.
Renews(b, w, b2, w2) == b2 = b /\ w.gen < b.gen /\ w2 = FreshWal(w, b.gen)

Moves(b, w, b2, w2) ==
  \/ Rests(b, w, b2, w2) \/ Grows(b, w, b2, w2)
  \/ Folds(b, w, b2, w2) \/ Renews(b, w, b2, w2)

\* Nothing but an append changes the history.
LEMMA RestedFiles ==
  ASSUME NEW b \in BaseFile, NEW w \in WalFile, NEW b2 \in BaseFile, NEW w2 \in WalFile,
         FilesOK(b, w), Rests(b, w, b2, w2)
  PROVE  FilesOK(b2, w2) /\ History(b2, w2) = History(b, w)
<1>1. w # None /\ w2 # None
  BY NoneIsNoRecord
<1>2. Build(b2, w2) = Build(b, w)
  BY <1>1 DEF Build, LogCurrent, Rests
<1>3. History(b2, w2) = History(b, w)
  BY <1>2 DEF History
<1> QED
  BY <1>3 DEF FilesOK, Rests

LEMMA GrownFiles ==
  ASSUME NEW b \in BaseFile, NEW w \in WalFile, NEW b2 \in BaseFile, NEW w2 \in WalFile,
         FilesOK(b, w), Grows(b, w, b2, w2)
  PROVE  /\ FilesOK(b2, w2) /\ Begins(History(b, w), History(b2, w2))
         /\ Len(History(b2, w2)) = b.applied + Len(w2.log)
<1>1. PICK rec \in Seq(Entry) :
        /\ w2.log = w.log \o rec /\ Dense(rec, b.applied + Len(w.log))
        /\ rec # <<>> => rec[Len(rec)].end
  BY DEF Grows
<1>2. PICK log \in Seq(Entry), log2 \in Seq(Entry), n \in Nat :
        log = w.log /\ log2 = w2.log /\ n = b.applied
  BY DEF WalFile, BaseFile
<1>3. /\ log2 = log \o rec /\ Len(log2) = Len(log) + Len(rec)
      /\ \A i \in 1..Len(log) : log2[i] = log[i]
      /\ \A i \in 1..Len(rec) : log2[Len(log) + i] = rec[i]
  BY <1>1, <1>2
<1>4. /\ b2 = b /\ w2.gen = b.gen /\ w.gen = b.gen /\ b.applied = Len(b.ops)
      /\ Dense(log, n)
  BY <1>2 DEF Grows, FilesOK
<1>5. Dense(log2, n)
  <2> SUFFICES ASSUME NEW i \in 1..Len(log2)
               PROVE  log2[i].seq = n + i
    BY DEF Dense
  <2>1. CASE i \in 1..Len(log)
    BY <1>3, <1>4, <2>1 DEF Dense
  <2>2. CASE i \notin 1..Len(log)
    <3>1. i - Len(log) \in 1..Len(rec) /\ i = Len(log) + (i - Len(log))
      BY <1>3, <2>2
    <3>2. PICK j \in 1..Len(rec) : i = Len(log) + j
      BY <3>1
    <3>3. rec[j].seq = n + Len(log) + j
      BY <1>1, <1>2 DEF Dense
    <3> QED
      BY <1>3, <3>2, <3>3
  <2> QED
    BY <2>1, <2>2
<1>6. PICK H \in Seq(Ops) :
        /\ H = History(b, w) /\ Len(H) = n + Len(log)
        /\ \A i \in 1..n : H[i] = b.ops[i]
        /\ \A i \in 1..Len(log) : H[n + i] = log[i].op
  BY <1>2, <1>4, BuildIs
<1>7. PICK H2 \in Seq(Ops) :
        /\ H2 = History(b2, w2) /\ Len(H2) = n + Len(log2)
        /\ \A i \in 1..n : H2[i] = b.ops[i]
        /\ \A i \in 1..Len(log2) : H2[n + i] = log2[i].op
  BY <1>2, <1>4, <1>5, BuildIs
<1>8. \A i \in 1..Len(H) : H[i] = H2[i]
  <2> SUFFICES ASSUME NEW i \in 1..Len(H)
               PROVE  H[i] = H2[i]
    OBVIOUS
  <2>1. CASE i \in 1..n
    BY <1>6, <1>7, <2>1
  <2>2. CASE i \notin 1..n
    <3>1. i - n \in 1..Len(log) /\ i = n + (i - n)
      BY <1>6, <2>2
    <3>2. PICK j \in 1..Len(log) : i = n + j
      BY <3>1
    <3>3. j \in 1..Len(log2)
      BY <1>3
    <3> QED
      BY <1>3, <1>6, <1>7, <3>2, <3>3
  <2> QED
    BY <2>1, <2>2
<1>9. Begins(H, H2)
  BY <1>3, <1>6, <1>7, <1>8 DEF Begins
<1>10. LogFits(log2, n, H2) /\ n <= Len(H2)
  BY <1>5, <1>7 DEF LogFits
<1>11. log2 # <<>> => log2[Len(log2)].end
  <2>1. CASE rec = <<>>
    <3>1. log2 = log
      BY <1>3, <2>1
    <3> QED
      BY <1>2, <3>1 DEF FilesOK
  <2>2. CASE rec # <<>>
    <3>1. Len(rec) \in 1..Len(rec)
      BY <2>2
    <3>2. log2[Len(log2)] = rec[Len(rec)]
      BY <1>3, <3>1
    <3> QED
      BY <1>1, <2>2, <3>2
  <2> QED
    BY <2>1, <2>2
<1>12. w2.torn = 0 /\ w2.synced <= Len(log2)
  <2>1. w2.synced = w.synced /\ w.synced <= Len(log) /\ w.synced \in Nat /\ w2.torn = 0
    BY <1>2 DEF Grows, FilesOK, WalFile
  <2> QED
    BY <1>3, <2>1
<1>13. w2.gen <= b2.gen
  BY <1>4 DEF BaseFile
<1>14. FilesOK(b2, w2)
  BY <1>2, <1>4, <1>5, <1>7, <1>10, <1>11, <1>12, <1>13 DEF FilesOK
<1> QED
  BY <1>2, <1>6, <1>7, <1>9, <1>14

LEMMA FoldedFiles ==
  ASSUME NEW b \in BaseFile, NEW w \in WalFile, NEW b2 \in BaseFile, NEW w2 \in WalFile,
         FilesOK(b, w), Folds(b, w, b2, w2)
  PROVE  FilesOK(b2, w2) /\ History(b2, w2) = History(b, w)
<1>1. /\ w2 = w /\ w.gen = b.gen /\ b.gen < b2.gen /\ w.gen \in Nat /\ b2.gen \in Nat
      /\ b2.ops = History(b, w) /\ b2.applied = Len(b2.ops)
  BY DEF Folds, WalFile, BaseFile
<1>2. w2.gen # b2.gen /\ w2.gen <= b2.gen
  BY <1>1
<1>3. History(b2, w2) = b2.ops
  BY <1>1, <1>2, BuildIs
<1> QED
  BY <1>1, <1>2, <1>3 DEF FilesOK

LEMMA RenewedFiles ==
  ASSUME NEW b \in BaseFile, NEW w \in WalFile, NEW b2 \in BaseFile, NEW w2 \in WalFile,
         FilesOK(b, w), Renews(b, w, b2, w2)
  PROVE  /\ FilesOK(b2, w2) /\ History(b2, w2) = History(b, w)
         /\ w2.log = <<>> /\ w2.gen = b.gen /\ w2.ino # w.ino /\ w2.torn = 0
<1>1. /\ b2 = b /\ w.gen < b.gen /\ w.gen \in Nat /\ b.gen \in Nat
      /\ b.applied = Len(b.ops) /\ b.applied \in Nat /\ b.ops \in Seq(Ops)
  BY DEF Renews, WalFile, BaseFile, FilesOK
<1>2. w # None /\ w.ino \in {0, 1}
  BY NoneIsNoRecord DEF WalFile
<1>3. /\ w2.log = <<>> /\ w2.gen = b.gen /\ w2.ino # w.ino /\ w2.torn = 0 /\ w2.synced = 0
  BY <1>2 DEF Renews, FreshWal
<1>4. Len(w2.log) = 0 /\ \A n \in Nat : Dense(w2.log, n)
  BY <1>3 DEF Dense
<1>5. w.gen # b.gen
  BY <1>1
<1>6. History(b, w) = b.ops
  BY <1>1, <1>5, BuildIs
<1>7. /\ History(b2, w2) \in Seq(Ops) /\ Len(History(b2, w2)) = b.applied + 0
      /\ \A i \in 1..b.applied : History(b2, w2)[i] = b.ops[i]
  BY <1>1, <1>3, <1>4, BuildIs
<1>8. History(b2, w2) = b.ops
  BY <1>1, <1>7
<1>9. LogFits(w2.log, 0, History(b2, w2)) /\ 0 <= Len(History(b2, w2))
  BY <1>1, <1>4, <1>7 DEF LogFits
<1>10. FilesOK(b2, w2)
  BY <1>1, <1>3, <1>4, <1>9 DEF FilesOK
<1> QED
  BY <1>3, <1>6, <1>8, <1>10

\* Doing nothing is such a step.
LEMMA StillMoves ==
  ASSUME NEW b \in BaseFile, NEW w \in WalFile, FilesOK(b, w)
  PROVE  Moves(b, w, b, w)
<1>1. w.synced <= w.synced /\ w.synced <= Len(w.log) /\ w.torn \in {0} \cup TornLens
  BY DEF FilesOK, WalFile
<1> QED
  BY <1>1 DEF Moves, Rests

\* Every such step leaves files that fit, and only adds to the history.
LEMMA MovedFiles ==
  ASSUME NEW b \in BaseFile, NEW w \in WalFile, NEW b2 \in BaseFile, NEW w2 \in WalFile,
         FilesOK(b, w), Moves(b, w, b2, w2)
  PROVE  /\ FilesOK(b2, w2) /\ Begins(History(b, w), History(b2, w2))
         /\ History(b, w) \in Seq(Ops) /\ History(b2, w2) \in Seq(Ops)
         /\ b.gen <= b2.gen
         /\ b.gen = b2.gen => b.applied = b2.applied
<1>1. FilesOK(b2, w2)
  BY RestedFiles, GrownFiles, FoldedFiles, RenewedFiles DEF Moves
<1>2. History(b, w) \in Seq(Ops) /\ History(b2, w2) \in Seq(Ops)
  BY <1>1, BuildIs DEF FilesOK
<1>3. Begins(History(b, w), History(b2, w2))
  BY <1>2, RestedFiles, GrownFiles, FoldedFiles, RenewedFiles, BeginsBegins DEF Moves
<1>4. b.gen <= b2.gen /\ (b.gen = b2.gen => b.applied = b2.applied)
  BY DEF Moves, Rests, Grows, Folds, Renews, BaseFile
<1> QED
  BY <1>1, <1>2, <1>3, <1>4

\* What is served goes on beginning the history.
LEMMA OpenMoved ==
  ASSUME NEW b \in BaseFile, NEW w \in WalFile, NEW b2 \in BaseFile, NEW w2 \in WalFile,
         FilesOK(b, w), Moves(b, w, b2, w2),
         NEW g \in {None} \cup Generation, NEW n \in Nat, OpenOK(b, w, g, n)
  PROVE  OpenOK(b2, w2, g, n)
<1> SUFFICES ASSUME g # None
             PROVE  OpenOK(b2, w2, g, n)
  BY DEF OpenOK
<1>1. View(g) \in Seq(Ops)
  BY ViewIs
<1>2. Begins(View(g), History(b2, w2))
  BY <1>1, MovedFiles, BeginsBegins DEF OpenOK
<1>3. g.gen <= b2.gen /\ (g.gen = b2.gen => g.applied = b2.applied)
  <2>1. /\ g.gen \in Nat /\ b.gen \in Nat /\ b2.gen \in Nat /\ g.gen <= b.gen
        /\ g.gen = b.gen => g.applied = b.applied
    BY DEF OpenOK, Generation, BaseFile
  <2>2. b.gen <= b2.gen /\ (b.gen = b2.gen => b.applied = b2.applied)
    BY MovedFiles
  <2> QED
    BY <2>1, <2>2
<1> QED
  BY <1>2, <1>3 DEF OpenOK

\* What StoreInv says of the stamps of a handle.
Known(b, p, s, q) ==
  /\ s.stamp # None =>
       /\ s.stamp \in Stamp /\ s.stamp.wal \in WalId
       /\ s.stamp.base <= s.gen /\ s.gen <= b.gen
  /\ p = "stat" => q.stat <= b.gen
  /\ p \in {"tail", "map", "read"} =>
       q.stamp \in Stamp /\ q.stamp.wal \in WalId /\ q.stamp.base <= b.gen
  /\ p = "read" =>
       q.map \in BaseFile /\ q.stamp.base <= q.map.gen /\ q.map.gen <= b.gen

LEMMA KnownHolds ==
  ASSUME StoreInv, base # None, NEW k \in Handles
  PROVE  Known(base, pc[k], seen[k], probe[k])
  BY DEF StoreInv, TypeOK, Defined, Generations, Known, Seen, Probe, Stamp

\* Reading on in a log that grew starts where it did.
LEMMA ReachedGrows ==
  ASSUME NEW b \in BaseFile, NEW w \in WalFile, NEW b2 \in BaseFile, NEW w2 \in WalFile,
         FilesOK(b, w), Grows(b, w, b2, w2), NEW g \in Generation, NEW pos \in Nat,
         Reached(g, w.log, pos), b.applied <= Len(View(g))
  PROVE  Reached(g, w2.log, pos)
<1>1. PICK rec \in Seq(Entry) : w2.log = w.log \o rec
  BY DEF Grows
<1>2. PICK log \in Seq(Entry), log2 \in Seq(Entry), n \in Nat, v \in Nat :
        log = w.log /\ log2 = w2.log /\ n = b.applied /\ v = Len(View(g))
  <2>1. View(g) \in Seq(Ops)
    BY ViewIs
  <2>2. Len(View(g)) \in Nat
    BY <2>1
  <2> QED
    BY <2>2 DEF WalFile, BaseFile
<1>3. /\ Len(log) <= Len(log2) /\ \A i \in 1..Len(log) : log2[i] = log[i]
  BY <1>1, <1>2
<1>4. log2 # <<>> => log2[1].seq <= v + 1
  <2>1. Dense(log2, n)
    BY <1>2, GrownFiles DEF FilesOK, Grows
  <2>2. log2 # <<>> => 1 \in 1..Len(log2)
    OBVIOUS
  <2>3. log2 # <<>> => log2[1].seq = n + 1
    BY <2>1, <2>2 DEF Dense
  <2> QED
    BY <1>2, <2>3
<1>5. pos <= Len(log) /\ (pos > 0 => log[pos].end /\ log[pos].seq <= v)
  BY <1>2 DEF Reached
<1>6. pos > 0 => pos \in 1..Len(log)
  BY <1>5
<1>7. pos <= Len(log2) /\ (pos > 0 => log2[pos].end /\ log2[pos].seq <= v)
  BY <1>3, <1>5, <1>6
<1> QED
  BY <1>2, <1>4, <1>7 DEF Reached

\* A log can have had more lengths once it has more entries.
LEMMA LenUpToGrows ==
  ASSUME NEW len, NEW m \in Nat, NEW n \in Nat, m <= n, LenUpTo(len, m)
  PROVE  LenUpTo(len, n)
<1>1. PICK l \in 0..m, t \in {0} \cup TornLens : len = OpLen * l + t
  BY DEF LenUpTo
<1>2. l \in 0..n
  OBVIOUS
<1> QED
  BY <1>1, <1>2 DEF LenUpTo

\* A stamp that names the files goes on naming what was seen, or ceases to.
LEMMA SeenMoved ==
  ASSUME NEW b \in BaseFile, NEW w \in WalFile, NEW b2 \in BaseFile, NEW w2 \in WalFile,
         FilesOK(b, w), Moves(b, w, b2, w2),
         NEW p, NEW q, NEW g \in Generation, NEW s \in Seen, Known(b, p, s, q), SeenOK(b, w, g, s)
  PROVE  SeenOK(b2, w2, g, s)
<1> SUFFICES ASSUME s.stamp # None
             PROVE  SeenOK(b2, w2, g, s)
  BY DEF SeenOK
<1>1. /\ s.stamp.base \in Nat /\ s.stamp.base <= b.gen /\ b.gen \in Nat /\ b2.gen \in Nat
      /\ w.gen \in Nat /\ w2.gen \in Nat /\ s.pos \in Nat
      /\ w.ino \in {0, 1} /\ w2.ino \in {0, 1} /\ s.stamp.wal.ino \in {0, 1}
  <2>1. b.gen \in Nat /\ b2.gen \in Nat
    BY DEF BaseFile
  <2>2. w.gen \in Nat /\ w2.gen \in Nat /\ w.ino \in {0, 1} /\ w2.ino \in {0, 1}
    BY DEF WalFile
  <2>3. s.pos \in Nat /\ s.gen \in Nat
    BY DEF Seen
  <2>7. s.stamp \in Stamp /\ s.stamp.wal \in WalId /\ s.stamp.base <= s.gen /\ s.gen <= b.gen
    BY DEF Known
  <2>5. s.stamp.base \in Nat /\ s.stamp.wal \in WalId
    BY <2>7 DEF Stamp
  <2>4. s.stamp.base <= b.gen
    BY <2>1, <2>3, <2>5, <2>7
  <2>6. s.stamp.wal.ino \in {0, 1}
    BY <2>5 DEF WalId
  <2> QED
    BY <2>1, <2>2, <2>3, <2>4, <2>5, <2>6
<1>2. CASE Rests(b, w, b2, w2)
  BY <1>2 DEF Rests, SeenOK, Names
<1>3. CASE Grows(b, w, b2, w2)
  <2>1. /\ b2 = b /\ w2.ino = w.ino /\ w2.gen = w.gen /\ w.gen = b.gen
    BY <1>3 DEF Grows
  <2>2. Names(s.stamp, b, w) => Reached(g, w2.log, s.pos)
    BY <1>1, <1>3, ReachedGrows DEF SeenOK
  <2> QED
    BY <1>1, <2>1, <2>2 DEF SeenOK, Names
<1>4. CASE Folds(b, w, b2, w2)
  <2>1. s.stamp.base # b2.gen
    BY <1>1, <1>4 DEF Folds
  <2> QED
    BY <2>1 DEF SeenOK, Names
<1>5. CASE Renews(b, w, b2, w2)
  <2>1. b2 = b /\ w.gen < b.gen /\ w2.gen = b.gen /\ w2.ino # w.ino
    BY <1>5, RenewedFiles DEF Renews
  <2>2. ~Names(s.stamp, b2, w2) /\ ~(w2.gen < b2.gen)
    BY <1>1, <2>1 DEF SeenOK, Names
  <2> QED
    BY <2>2 DEF SeenOK
<1> QED
  BY <1>2, <1>3, <1>4, <1>5 DEF Moves

\* A mapped base fits the files through every step.
LEMMA MapMoved ==
  ASSUME NEW b \in BaseFile, NEW w \in WalFile, NEW b2 \in BaseFile, NEW w2 \in WalFile,
         FilesOK(b, w), Moves(b, w, b2, w2),
         NEW m \in BaseFile, m.gen <= b.gen, MapFits(m, b, w)
  PROVE  MapFits(m, b2, w2)
<1>1. /\ m.gen \in Nat /\ b.gen \in Nat /\ b2.gen \in Nat /\ w.gen \in Nat /\ w2.gen \in Nat
      /\ m.ops \in Seq(Ops) /\ m.applied = Len(m.ops) /\ m.applied \in Nat
  BY DEF BaseFile, WalFile, MapFits
<1>2. Begins(m.ops, History(b2, w2))
  BY <1>1, MovedFiles, BeginsBegins DEF MapFits
<1>3. m.gen = b2.gen => m.applied = b2.applied
  BY <1>1, MovedFiles DEF MapFits
<1>4. CASE Rests(b, w, b2, w2)
  <2>1. History(b2, w2) = History(b, w) /\ w2.log = w.log /\ w2.gen = w.gen /\ b2 = b
    BY <1>4, RestedFiles DEF Rests
  <2> QED
    BY <2>1 DEF MapFits
<1>5. CASE Grows(b, w, b2, w2)
  <2>1. b2 = b /\ w2.gen = w.gen /\ w.gen = b.gen
    BY <1>5 DEF Grows
  <2>2. Len(History(b2, w2)) = b.applied + Len(w2.log) /\ FilesOK(b2, w2)
    BY <1>5, GrownFiles
  <2>3. m.gen = w2.gen => Dense(w2.log, m.applied) /\ m.applied + Len(w2.log) = Len(History(b2, w2))
    BY <1>1, <2>1, <2>2 DEF MapFits, FilesOK
  <2> QED
    BY <1>1, <1>2, <1>3, <2>1, <2>3 DEF MapFits
<1>6. CASE Folds(b, w, b2, w2)
  <2>1. History(b2, w2) = History(b, w) /\ w2 = w /\ w.gen = b.gen
    BY <1>6, FoldedFiles DEF Folds
  <2>2. ~(w2.gen < m.gen)
    BY <1>1, <2>1
  <2> QED
    BY <1>1, <1>2, <1>3, <2>1, <2>2 DEF MapFits
<1>7. CASE Renews(b, w, b2, w2)
  <2>1. /\ b2 = b /\ w2.gen = b.gen /\ w.gen < b.gen /\ w2.log = <<>>
        /\ History(b2, w2) = History(b, w)
    BY <1>7, RenewedFiles DEF Renews
  <2>2. Len(w2.log) = 0 /\ Dense(w2.log, m.applied)
    BY <2>1 DEF Dense
  <2>3. Len(History(b, w)) = b.applied
    BY <1>1, <2>1, BuildIs DEF FilesOK
  <2> QED
    BY <1>1, <1>2, <1>3, <2>1, <2>2, <2>3 DEF MapFits
<1> QED
  BY <1>4, <1>5, <1>6, <1>7 DEF Moves

\* So does what a load in progress relies on, if no log is replaced between
\* a reload's stats and its tail read.
LEMMA ProbeMoved ==
  ASSUME NEW b \in BaseFile, NEW w \in WalFile, NEW b2 \in BaseFile, NEW w2 \in WalFile,
         FilesOK(b, w), Moves(b, w, b2, w2),
         NEW p \in Steps, NEW g \in {None} \cup Generation, NEW s \in Seen, NEW q \in Probe,
         LiveOK(p, g, s, q), Known(b, p, s, q), SeenOK(b, w, g, s), ProbeOK(b, w, p, g, s, q),
         Renews(b, w, b2, w2) => p # "tail" /\ (p = "stat" => q.opening)
  PROVE  ProbeOK(b2, w2, p, g, s, q)
<1> DEFINE Rereads == p = "stat" /\ ~q.opening
           Stamped == p \in {"tail", "map", "read"}
<1>1. /\ b.gen \in Nat /\ b2.gen \in Nat /\ w.gen \in Nat /\ w2.gen \in Nat /\ b.gen <= b2.gen
      /\ w.ino \in {0, 1} /\ w2.ino \in {0, 1} /\ s.pos \in Nat /\ q.stat \in Nat
  BY MovedFiles DEF BaseFile, WalFile, Seen, Probe
<1>2. /\ s.stamp # None => s.stamp.base \in Nat /\ s.stamp.base <= b.gen
      /\ Stamped => /\ q.stamp.base \in Nat /\ q.stamp.base <= b.gen /\ q.stamp.wal.ino \in {0, 1}
  BY DEF Known, Stamp, WalId, BaseFile, Seen
<1>3. Rereads \/ p = "tail" => g \in Generation
  <2>1. p = "tail" /\ ~q.opening => g # None
    BY DEF LiveOK, LiveAt, Closed, Loading
  <2>2. p = "tail" => s.stamp # None
    BY DEF ProbeOK
  <2>3. Rereads => g # None
    BY DEF LiveOK, LiveAt, Closed, Loading
  <2>4. p = "tail" => g # None
    BY <2>2 DEF LiveOK
  <2> QED
    BY <2>3, <2>4
<1>4. p = "read" => MapFits(q.map, b2, w2)
  BY MapMoved DEF ProbeOK, Known
<1>5. CASE Rests(b, w, b2, w2)
  BY <1>4, <1>5 DEF Rests, ProbeOK, Names
<1>6. CASE Grows(b, w, b2, w2)
  <2>1. /\ b2 = b /\ w2.ino = w.ino /\ w2.gen = w.gen /\ w.gen = b.gen
        /\ Len(w.log) <= Len(w2.log) /\ Len(w.log) \in Nat /\ Len(w2.log) \in Nat
    BY <1>6 DEF Grows, WalFile
  <2>2. ~(w.gen < b.gen)
    BY <1>1, <2>1
  <2>3. Rereads /\ s.stamp # None /\ q.stat = s.stamp.base /\ w.ino = s.stamp.wal.ino =>
          Reached(g, w2.log, s.pos)
    BY <1>1, <1>3, <1>6, <2>2, ReachedGrows DEF ProbeOK, SeenOK, Names
  <2>4. p = "tail" => Reached(g, w2.log, s.pos)
    BY <1>1, <1>3, <1>6, <2>2, ReachedGrows DEF ProbeOK, SeenOK, Names
  <2>5. Stamped /\ Names(q.stamp, b, w) => LenUpTo(q.stamp.wal.len, Len(w2.log))
    BY <2>1, LenUpToGrows DEF ProbeOK
  <2> QED
    BY <1>4, <2>1, <2>2, <2>3, <2>4, <2>5 DEF ProbeOK, Names
<1>7. CASE Folds(b, w, b2, w2)
  <2>1. w2 = w /\ w.gen = b.gen /\ b.gen < b2.gen
    BY <1>7 DEF Folds
  <2>2. w2.gen < b2.gen /\ (Stamped => q.stamp.base # b2.gen)
    BY <1>1, <1>2, <2>1
  <2> QED
    BY <1>4, <2>1, <2>2 DEF ProbeOK, Names
<1>8. CASE Renews(b, w, b2, w2)
  <2>1. b2 = b /\ w.gen < b.gen /\ w2.gen = b.gen /\ w2.ino # w.ino
    BY <1>8, RenewedFiles DEF Renews
  <2>2. Stamped => ~Names(q.stamp, b2, w2)
    BY <1>1, <1>2, <2>1 DEF ProbeOK, Names
  <2>3. p # "tail" /\ ~Rereads /\ ~(w2.gen < b2.gen)
    BY <1>1, <1>8, <2>1
  <2> QED
    BY <1>4, <2>2, <2>3 DEF ProbeOK
<1> QED
  BY <1>5, <1>6, <1>7, <1>8 DEF Moves

\* A handle that is not under the lock keeps its part of the invariant.
LEMMA HandleMoved ==
  ASSUME NEW b \in BaseFile, NEW w \in WalFile, NEW b2 \in BaseFile, NEW w2 \in WalFile,
         FilesOK(b, w), Moves(b, w, b2, w2),
         NEW p \in Steps, NEW g \in {None} \cup Generation, NEW n \in Nat, NEW s \in Seen,
         NEW q \in Probe, NEW ops, p \notin UnderLock,
         Known(b, p, s, q), HandleOK(b, w, p, g, n, s, q, ops),
         Renews(b, w, b2, w2) => p # "tail" /\ (p = "stat" => q.opening)
  PROVE  HandleOK(b2, w2, p, g, n, s, q, ops)
<1>1. OpenOK(b2, w2, g, n) /\ ProbeOK(b2, w2, p, g, s, q)
  BY OpenMoved, ProbeMoved DEF HandleOK
<1>2. SeenOK(b2, w2, g, s)
  <2>1. CASE g = None
    BY <2>1 DEF HandleOK, LiveOK, SeenOK
  <2>2. CASE g # None
    BY <2>2, SeenMoved DEF HandleOK
  <2> QED
    BY <2>1, <2>2
<1>3. LockOK(b2, w2, p, g, n, s, ops)
  BY DEF LockOK, UnderLock, Appending
<1> QED
  BY <1>1, <1>2, <1>3 DEF HandleOK

----------------------------------------------------------------------------
(* What a load leaves served. *)

\* The whole history, of a base that was.
Full(g, b, w) ==
  /\ g \in Generation /\ g # None
  /\ OpenOK(b, w, g, Len(View(g)) + 1)
  /\ Len(View(g)) = Len(History(b, w))

\* A log's place in the history is given by any of its numbers.
LEMMA LogFitsOnce ==
  ASSUME NEW log \in Seq(Entry), NEW m \in Nat, NEW n \in Nat, NEW hist \in Seq(Ops),
         LogFits(log, n, hist), Dense(log, m), m + Len(log) <= Len(hist)
  PROVE  LogFits(log, m, hist)
<1>1. CASE log = <<>>
  BY <1>1 DEF LogFits
<1>2. CASE log # <<>>
  <2>1. 1 \in 1..Len(log)
    BY <1>2
  <2>2. log[1].seq = n + 1 /\ log[1].seq = m + 1
    BY <2>1 DEF LogFits, Dense
  <2>3. m = n
    BY <2>2
  <2> QED
    BY <2>3
<1> QED
  BY <1>1, <1>2

\* Against the base it is read for, the log is the rest of the history.
LEMMA MapLog ==
  ASSUME NEW b \in BaseFile, NEW w \in WalFile, FilesOK(b, w),
         NEW m \in BaseFile, MapFits(m, b, w), m.gen <= b.gen, w.gen <= m.gen
  PROVE  /\ m.applied \in Nat /\ m.applied = Len(m.ops)
         /\ w.gen = m.gen =>
              /\ Dense(w.log, m.applied) /\ LogFits(w.log, m.applied, History(b, w))
              /\ Len(History(b, w)) = m.applied + Len(w.log)
         /\ w.gen # m.gen => Len(History(b, w)) = m.applied
<1>1. /\ m.applied \in Nat /\ b.applied \in Nat /\ w.log \in Seq(Entry)
      /\ m.gen \in Nat /\ w.gen \in Nat /\ b.gen \in Nat
  BY DEF BaseFile, WalFile
<1>2. PICK H \in Seq(Ops) : H = History(b, w)
  BY BuildIs DEF FilesOK
<1>3. CASE w.gen = m.gen
  <2>1. PICK n \in Nat : LogFits(w.log, n, H)
    BY <1>2 DEF FilesOK
  <2>2. Dense(w.log, m.applied) /\ m.applied + Len(w.log) = Len(H)
    BY <1>2, <1>3 DEF MapFits
  <2>3. m.applied + Len(w.log) <= Len(H)
    BY <2>2
  <2>4. LogFits(w.log, m.applied, H)
    BY <1>1, <2>1, <2>2, <2>3, LogFitsOnce
  <2> QED
    BY <1>1, <1>2, <1>3, <2>2, <2>4 DEF MapFits
<1>4. CASE w.gen # m.gen
  <2>1. m.gen = b.gen /\ m.applied = b.applied /\ w.gen # b.gen
    BY <1>1, <1>4 DEF MapFits
  <2>2. Len(History(b, w)) = b.applied
    BY <2>1, BuildIs DEF FilesOK
  <2> QED
    BY <1>1, <1>4, <2>1, <2>2 DEF MapFits
<1> QED
  BY <1>3, <1>4

\* A generation built from a mapped base and a log no newer is all there is.
LEMMA BuildFull ==
  ASSUME NEW b \in BaseFile, NEW w \in WalFile, FilesOK(b, w),
         NEW m \in BaseFile, MapFits(m, b, w), m.gen <= b.gen, w.gen <= m.gen
  PROVE  Full(Build(m, w), b, w)
<1>1. PICK n \in Nat, H \in Seq(Ops), ops \in Seq(Ops), log \in Seq(Entry) :
        n = m.applied /\ H = History(b, w) /\ ops = m.ops /\ log = w.log
  <2>1. m.applied \in Nat /\ m.ops \in Seq(Ops) /\ w.log \in Seq(Entry)
    BY DEF BaseFile, WalFile
  <2>2. History(b, w) \in Seq(Ops)
    BY BuildIs DEF FilesOK
  <2> QED
    BY <2>1, <2>2
<1>2. /\ n = Len(ops) /\ Begins(ops, H)
      /\ w.gen = m.gen => LogFits(log, n, H) /\ Len(H) = n + Len(log)
      /\ w.gen # m.gen => Len(H) = n
  BY <1>1, MapLog DEF MapFits
<1>3. PICK g \in Generation, V \in Seq(Ops) : g = Build(m, w) /\ V = View(g)
  BY BuildType, ViewIs
<1>4. /\ g # None /\ Whole(g) /\ g.gen = m.gen /\ g.applied = n
      /\ \A i \in 1..n : V[i] = ops[i]
      /\ w.gen = m.gen =>
           /\ Len(V) = n + Len(log)
           /\ \A i \in 1..Len(log) : V[n + i] = log[i].op
      /\ w.gen # m.gen => Len(V) = n
  BY <1>1, <1>3, MapLog, BuildIs DEF History
<1>5. Len(V) = Len(H)
  BY <1>2, <1>4
<1>6. \A i \in 1..Len(V) : V[i] = H[i]
  <2> SUFFICES ASSUME NEW i \in 1..Len(V)
               PROVE  V[i] = H[i]
    OBVIOUS
  <2>1. CASE i \in 1..n
    BY <1>2, <1>4, <2>1 DEF Begins
  <2>2. CASE i \notin 1..n
    <3>1. w.gen = m.gen
      BY <1>4, <2>2
    <3>2. i - n \in 1..Len(log) /\ i = n + (i - n)
      BY <1>4, <2>2, <3>1
    <3>3. PICK j \in 1..Len(log) : i = n + j
      BY <3>2
    <3> QED
      BY <1>2, <1>4, <3>1, <3>3 DEF LogFits
  <2> QED
    BY <2>1, <2>2
<1>7. Begins(V, H)
  BY <1>5, <1>6 DEF Begins
<1>8. g.gen <= b.gen /\ (g.gen = b.gen => g.applied = b.applied)
  BY <1>1, <1>4 DEF MapFits
<1> QED
  BY <1>1, <1>3, <1>4, <1>5, <1>7, <1>8 DEF Full, OpenOK

\* So is the served generation with that log published on it, if it has all
\* the mapped base folds.
LEMMA ApplyFull ==
  ASSUME NEW b \in BaseFile, NEW w \in WalFile, FilesOK(b, w),
         NEW m \in BaseFile, MapFits(m, b, w), m.gen <= b.gen, w.gen <= m.gen,
         NEW g \in Generation, g # None, NEW n, OpenOK(b, w, g, n), m.applied <= Len(View(g))
  PROVE  Full(ApplyLog(g, m, w), b, w)
<1>1. PICK k \in Nat, H \in Seq(Ops), log \in Seq(Entry), V \in Seq(Ops) :
        k = m.applied /\ H = History(b, w) /\ log = w.log /\ V = View(g)
  <2>1. m.applied \in Nat /\ w.log \in Seq(Entry)
    BY DEF BaseFile, WalFile
  <2>2. History(b, w) \in Seq(Ops) /\ View(g) \in Seq(Ops)
    BY BuildIs, ViewIs DEF FilesOK
  <2> QED
    BY <2>1, <2>2
<1>2. /\ w.gen = m.gen => LogFits(log, k, H) /\ Len(H) = k + Len(log)
      /\ w.gen # m.gen => Len(H) = k
  BY <1>1, MapLog
<1>3. Whole(g) /\ Begins(V, H) /\ Len(V) <= Len(H) /\ k <= Len(V)
  BY <1>1 DEF OpenOK, Begins
<1>4. CASE w.gen = m.gen
  <2>1. w # None
    BY NoneIsNoRecord
  <2>2. PICK r : r = ApplyLog(g, m, w)
    OBVIOUS
  <2>3. r = Publish(g, Above(log, 0, LastSeq(g)))
    BY <1>1, <1>4, <2>1, <2>2 DEF ApplyLog, LogCurrent
  <2>4. 0 \in 0..Len(log) /\ ~(0 > 0)
    OBVIOUS
  <2>5. /\ r \in Generation /\ Whole(r) /\ Begins(View(r), H)
        /\ Len(View(r)) = Max2(Len(V), k + Len(log))
        /\ r.gen = g.gen /\ r.applied = g.applied
    <3>1. Whole(g) /\ Begins(View(g), H) /\ LogFits(log, k, H) /\ k <= Len(View(g))
      BY <1>1, <1>2, <1>3, <1>4
    <3> QED
      BY <1>1, <2>3, <2>4, <3>1, PublishIs
  <2>6. Len(View(r)) = Len(H)
    BY <1>2, <1>3, <1>4, <2>5 DEF Max2
  <2>7. r # None
    BY <2>5, NoneIsNoRecord
  <2> QED
    BY <1>1, <2>2, <2>5, <2>6, <2>7 DEF Full, OpenOK
<1>5. CASE w.gen # m.gen
  <2>1. ApplyLog(g, m, w) = g
    BY <1>5 DEF ApplyLog, LogCurrent
  <2>2. Len(V) = Len(H)
    BY <1>2, <1>3, <1>5
  <2> QED
    BY <1>1, <2>1, <2>2 DEF Full, OpenOK
<1> QED
  BY <1>4, <1>5

\* A generation that is all there is has every entry of the log.
LEMMA FullReached ==
  ASSUME NEW b \in BaseFile, NEW w \in WalFile, FilesOK(b, w), NEW g, Full(g, b, w)
  PROVE  /\ Reached(g, w.log, 0) /\ Reached(g, w.log, Len(w.log))
         /\ b.applied <= Len(View(g))
<1>1. PICK H \in Seq(Ops), log \in Seq(Entry), v \in Nat :
        H = History(b, w) /\ log = w.log /\ v = Len(View(g))
  <2>1. w.log \in Seq(Entry) /\ History(b, w) \in Seq(Ops) /\ View(g) \in Seq(Ops)
    BY BuildIs, ViewIs DEF FilesOK, WalFile, Full
  <2>2. Len(View(g)) \in Nat
    BY <2>1
  <2> QED
    BY <2>1, <2>2
<1>2. PICK n \in Nat : n + Len(log) <= v /\ Dense(log, n)
  BY <1>1 DEF FilesOK, LogFits, Full
<1>3. log # <<>> => Len(log) > 0 /\ log[1].seq = n + 1 /\ log[Len(log)].seq = n + Len(log)
  BY <1>2 DEF Dense
<1>4. Len(log) > 0 => log # <<>>
  OBVIOUS
<1>5. log # <<>> => log[1].seq <= v + 1 /\ log[Len(log)].seq <= v /\ log[Len(log)].end
  BY <1>1, <1>2, <1>3 DEF FilesOK
<1>6. b.applied <= v
  <2>1. CASE w.gen = b.gen
    <3>1. Len(H) = b.applied + Len(log) /\ v = Len(H) /\ b.applied \in Nat
      BY <1>1, <2>1, BuildIs DEF FilesOK, Full, BaseFile
    <3> QED
      BY <3>1
  <2>2. CASE w.gen # b.gen
    <3>1. Len(H) = b.applied /\ v = Len(H)
      BY <1>1, <2>2, BuildIs DEF FilesOK, Full
    <3> QED
      BY <3>1
  <2> QED
    BY <2>1, <2>2
<1>7. Reached(g, log, 0) /\ Reached(g, log, Len(log))
  BY <1>1, <1>4, <1>5 DEF Reached
<1> QED
  BY <1>1, <1>6, <1>7

\* A tail read from where a handle has been goes to the log's end without a
\* gap; of the base's own log it makes all there is.
LEMMA TailIs ==
  ASSUME NEW b \in BaseFile, NEW w \in WalFile, FilesOK(b, w),
         NEW g \in Generation, g # None, NEW n, OpenOK(b, w, g, n),
         NEW s \in Seen, Reached(g, w.log, s.pos)
  PROVE  LET r == TailRead(g, s, w)
         IN  /\ r.pos = Len(w.log) /\ r.served \in Generation /\ r.served # None
             /\ OpenOK(b, w, r.served, Len(View(r.served)) + 1)
             /\ Len(View(g)) <= Len(View(r.served))
             /\ r.served.gen = g.gen /\ r.served.applied = g.applied
             /\ Reached(r.served, w.log, Len(w.log))
             /\ b.applied <= Len(View(g)) => Full(r.served, b, w)
<1>1. PICK H \in Seq(Ops), log \in Seq(Entry), v \in Nat, pos \in Nat :
        H = History(b, w) /\ log = w.log /\ v = Len(View(g)) /\ pos = s.pos
  <2>1. w.log \in Seq(Entry) /\ History(b, w) \in Seq(Ops) /\ View(g) \in Seq(Ops) /\ s.pos \in Nat
    BY BuildIs, ViewIs DEF FilesOK, WalFile, Seen
  <2>2. Len(View(g)) \in Nat
    BY <2>1
  <2> QED
    BY <2>1, <2>2
<1>2. /\ pos <= Len(log)
      /\ pos > 0 => log[pos].end /\ log[pos].seq <= v
      /\ log # <<>> => log[1].seq <= v + 1
  BY <1>1 DEF Reached
<1>3. Whole(g) /\ Begins(View(g), H) /\ v <= Len(H)
  BY <1>1 DEF OpenOK, Begins
<1>4. PICK k \in Nat : LogFits(log, k, H) /\ k <= v /\ (pos > 0 => k + pos <= v)
  <2>1. PICK m \in Nat : m <= Len(H) /\ LogFits(log, m, H)
    BY <1>1 DEF FilesOK
  <2>2. CASE log = <<>>
    <3>1. LogFits(log, 0, H) /\ 0 <= v /\ ~(pos > 0)
      BY <1>2, <2>2 DEF LogFits, Dense
    <3> QED
      BY <3>1
  <2>3. CASE log # <<>>
    <3>1. Dense(log, m) /\ 1 \in 1..Len(log)
      BY <2>1, <2>3 DEF LogFits
    <3>2. log[1].seq = m + 1 /\ (pos > 0 => log[pos].seq = m + pos)
      BY <1>2, <3>1 DEF Dense
    <3> QED
      BY <1>2, <2>1, <2>3, <3>2
  <2> QED
    BY <2>2, <2>3
<1>5. PICK r : r = Publish(g, Above(log, pos, LastSeq(g)))
  OBVIOUS
<1>6. pos \in 0..Len(log)
  BY <1>2
<1>7. /\ r \in Generation /\ Whole(r) /\ Begins(View(r), H)
      /\ Len(View(r)) = Max2(v, k + Len(log))
      /\ r.gen = g.gen /\ r.applied = g.applied
  <2>1. k <= Len(View(g)) /\ (pos > 0 => k + pos <= Len(View(g)))
    BY <1>1, <1>4
  <2>2. /\ r \in Generation /\ Whole(r) /\ Begins(View(r), H)
        /\ Len(View(r)) = Max2(Len(View(g)), k + Len(log))
        /\ r.gen = g.gen /\ r.applied = g.applied
    BY <1>3, <1>4, <1>5, <1>6, <2>1, PublishIs
  <2> QED
    BY <1>1, <2>2
<1>8. r # None
  BY <1>7, NoneIsNoRecord
<1>9. TailRead(g, s, w) = [served |-> r, pos |-> Len(log)]
  BY <1>1, <1>2, <1>5 DEF TailRead, AtBoundary
<1>10. PICK v2 \in Nat : v2 = Len(View(r)) /\ v <= v2 /\ k + Len(log) <= v2
  <2>1. View(r) \in Seq(Ops)
    BY <1>7, ViewIs
  <2>2. Len(View(r)) \in Nat
    BY <2>1
  <2> QED
    BY <1>7, <2>2 DEF Max2
<1>11. OpenOK(b, w, r, Len(View(r)) + 1)
  BY <1>1, <1>7 DEF OpenOK
<1>12. Reached(r, log, Len(log))
  <2>1. log # <<>> => log[1].seq <= v2 + 1
    <3>1. log # <<>> => log[1] \in Entry
      OBVIOUS
    <3>2. log # <<>> => log[1].seq \in Nat
      BY <3>1 DEF Entry
    <3> QED
      BY <1>2, <1>10, <3>2
  <2>2. Len(log) > 0 => log[Len(log)].end
    BY <1>1 DEF FilesOK
  <2>3. Len(log) > 0 => log[Len(log)].seq = k + Len(log)
    BY <1>4 DEF LogFits, Dense
  <2> QED
    BY <1>10, <2>1, <2>2, <2>3 DEF Reached
<1>13. b.applied <= v => v2 = Len(H)
  <2> SUFFICES ASSUME b.applied <= v
               PROVE  v2 = Len(H)
    OBVIOUS
  <2>1. b.applied \in Nat /\ v2 <= Len(H)
    BY <1>7, <1>10 DEF BaseFile, Begins
  <2>2. CASE w.gen # b.gen
    <3>1. Len(H) = b.applied
      BY <1>1, <2>2, BuildIs DEF FilesOK
    <3> QED
      BY <1>10, <2>1, <3>1
  <2>3. CASE w.gen = b.gen
    <3>1. Len(H) = b.applied + Len(log) /\ Dense(log, b.applied)
      BY <1>1, <2>3, BuildIs DEF FilesOK
    <3>2. CASE Len(log) = 0
      BY <1>10, <2>1, <3>1, <3>2
    <3>3. CASE Len(log) > 0
      <4>1. 1 \in 1..Len(log)
        BY <3>3
      <4>2. log[1].seq = b.applied + 1 /\ log[1].seq = k + 1
        BY <1>4, <3>1, <4>1 DEF Dense, LogFits
      <4> QED
        BY <1>10, <2>1, <3>1, <4>2
    <3> QED
      BY <3>2, <3>3
  <2> QED
    BY <2>2, <2>3
<1>14. b.applied <= v => Full(r, b, w)
  BY <1>1, <1>7, <1>8, <1>10, <1>11, <1>13 DEF Full
<1> QED
  BY <1>1, <1>7, <1>8, <1>9, <1>10, <1>11, <1>12, <1>14

----------------------------------------------------------------------------
(* What stamps say. *)

\* A stamp taken of these files, or of what they were.
StampFits(stamp, b, w) ==
  /\ Names(stamp, b, w) => LenUpTo(stamp.wal.len, Len(w.log))
  /\ stamp.base = b.gen /\ w.gen < b.gen => stamp.wal.ino = w.ino

\* The stamp of the files names them.
LEMMA StampIs ==
  ASSUME NEW b \in BaseFile, NEW w \in WalFile, FilesOK(b, w), NEW stat
  PROVE  LET stamp == [base |-> stat, wal |-> WalStat(w)]
         IN  StampFits(stamp, b, w) /\ stamp.wal.ino = w.ino /\ stamp.wal.len = FileLen(w)
<1>1. w # None /\ Len(w.log) \in 0..Len(w.log)
  BY NoneIsNoRecord DEF WalFile
<1>2. WalStat(w).ino = w.ino /\ WalStat(w).len = OpLen * Len(w.log) + w.torn
  BY <1>1 DEF WalStat, FileLen
<1>3. LenUpTo(WalStat(w).len, Len(w.log))
  BY <1>1, <1>2 DEF LenUpTo, FilesOK
<1> QED
  BY <1>2, <1>3 DEF StampFits, FileLen

\* What a full load has seen of the log.
LEMMA SeenOfIs ==
  ASSUME NEW stamp, NEW m, NEW w \in WalFile
  PROVE  /\ SeenOf(stamp, m, w).stamp = stamp
         /\ SeenOf(stamp, m, w).current <=> w.gen = m.gen
         /\ w.gen = m.gen => SeenOf(stamp, m, w).pos = Len(w.log)
         /\ w.gen # m.gen => SeenOf(stamp, m, w).pos = 0
<1>1. w # None
  BY NoneIsNoRecord
<1> QED
  BY <1>1 DEF SeenOf, LogCurrent

\* What a full load leaves seen is right.
LEMMA SeenFull ==
  ASSUME NEW b \in BaseFile, NEW w \in WalFile, FilesOK(b, w), NEW g, Full(g, b, w),
         NEW m \in BaseFile, m.gen <= b.gen, NEW stamp \in Stamp, stamp.base <= m.gen,
         StampFits(stamp, b, w)
  PROVE  SeenOK(b, w, g, SeenOf(stamp, m, w))
<1>1. stamp.base \in Nat /\ m.gen \in Nat /\ b.gen \in Nat
  BY DEF Stamp, BaseFile
<1>2. /\ SeenOf(stamp, m, w).stamp = stamp
      /\ SeenOf(stamp, m, w).current <=> w.gen = m.gen
      /\ w.gen = m.gen => SeenOf(stamp, m, w).pos = Len(w.log)
      /\ w.gen # m.gen => SeenOf(stamp, m, w).pos = 0
  BY SeenOfIs
<1>3. Names(stamp, b, w) => m.gen = b.gen
  BY <1>1 DEF Names
<1> QED
  BY <1>2, <1>3, FullReached DEF SeenOK, StampFits

\* No torn tail makes a shorter log as long as this one.
LEMMA LenTells ==
  ASSUME NoTornAlias, NEW w \in WalFile, w.torn \in {0} \cup TornLens,
         NEW pos \in Nat, pos <= Len(w.log), LenUpTo(FileLen(w), pos)
  PROVE  pos = Len(w.log)
<1>1. PICK l \in 0..pos, t \in {0} \cup TornLens : FileLen(w) = OpLen * l + t
  BY DEF LenUpTo
<1>2. PICK n \in Nat, torn \in Nat : n = Len(w.log) /\ torn = w.torn
  BY DEF WalFile
<1>3. OpLen * n + torn = OpLen * l + t /\ OpLen \in Nat /\ t \in Nat
  BY <1>1, <1>2, ConstantsOK DEF FileLen
<1>4. ASSUME l < n
      PROVE  FALSE
  <2>1. PICK k \in Nat : k > 0 /\ n = l + k
    <3>1. n - l \in Nat /\ n - l > 0 /\ n = l + (n - l)
      BY <1>4
    <3> QED
      BY <3>1
  <2>2. OpLen * (l + k) = OpLen * l + OpLen * k /\ OpLen * l \in Nat /\ OpLen * k \in Nat
    BY <1>3
  <2>3. t = torn + OpLen * k
    BY <1>3, <2>1, <2>2
  <2> QED
    BY <1>2, <2>1, <2>3 DEF NoTornAlias
<1> QED
  BY <1>2, <1>4

\* A handle whose stamp is that of the files has all there is.
LEMMA EqualStamp ==
  ASSUME NoTornAlias, NEW b \in BaseFile, NEW w \in WalFile, FilesOK(b, w),
         NEW g \in Generation, g # None, NEW n, OpenOK(b, w, g, n),
         NEW s \in Seen, s.stamp = StampOf(b, w), SeenOK(b, w, g, s)
  PROVE  /\ Full(g, b, w) /\ (s.current <=> w.gen = b.gen)
         /\ s.current => s.pos = Len(w.log)
<1>1. /\ s.stamp # None /\ s.stamp.base = b.gen
  BY StampOfType
<1>2. s.stamp.wal.ino = w.ino /\ s.stamp.wal.len = FileLen(w)
  BY StampIs DEF StampOf
<1>3. /\ s.current <=> w.gen = b.gen
      /\ b.applied <= Len(View(g)) /\ Reached(g, w.log, s.pos)
      /\ s.current => LenUpTo(FileLen(w), s.pos)
  BY <1>1, <1>2 DEF SeenOK, Names
<1>4. s.current => s.pos = Len(w.log)
  BY <1>3, LenTells DEF Reached, FilesOK, Seen
<1>5. Full(g, b, w)
  <2>1. PICK H \in Seq(Ops), v \in Nat, a \in Nat :
          H = History(b, w) /\ v = Len(View(g)) /\ a = b.applied
    <3>1. History(b, w) \in Seq(Ops) /\ View(g) \in Seq(Ops) /\ b.applied \in Nat
      BY BuildIs, ViewIs DEF FilesOK, BaseFile
    <3>2. Len(View(g)) \in Nat
      BY <3>1
    <3> QED
      BY <3>1, <3>2
  <2>2. v <= Len(H) /\ a <= v
    BY <1>3, <2>1 DEF OpenOK, Begins
  <2>3. CASE w.gen # b.gen
    <3>1. Len(H) = a
      BY <2>1, <2>3, BuildIs DEF FilesOK
    <3> QED
      BY <2>1, <2>2, <3>1 DEF Full, OpenOK
  <2>4. CASE w.gen = b.gen
    <3>1. PICK log \in Seq(Entry) : log = w.log
      BY DEF WalFile
    <3>2. Len(H) = a + Len(log) /\ Dense(log, a)
      BY <2>1, <2>4, <3>1, BuildIs DEF FilesOK
    <3>3. Len(log) > 0 => log[Len(log)].seq <= v
      BY <1>3, <1>4, <2>1, <2>4, <3>1 DEF Reached
    <3>4. Len(log) > 0 => log[Len(log)].seq = a + Len(log)
      BY <3>2 DEF Dense
    <3>5. v = Len(H)
      BY <2>2, <3>2, <3>3, <3>4
    <3> QED
      BY <2>1, <3>5 DEF Full, OpenOK
  <2> QED
    BY <2>3, <2>4
<1> QED
  BY <1>3, <1>4, <1>5

----------------------------------------------------------------------------
(* Every action keeps HistInv. *)

\* Nothing of any other handle changes.
Elsewhere(h) ==
  \A k \in Handles \ {h} :
    /\ pc'[k] = pc[k] /\ served'[k] = served[k] /\ nextSeq'[k] = nextSeq[k]
    /\ seen'[k] = seen[k] /\ probe'[k] = probe[k] /\ staged'[k] = staged[k]

\* A step of h that leaves the files alone.
LEMMA StillStep ==
  ASSUME HistInv, NEW h \in Handles, Elsewhere(h), UNCHANGED files, HandleInv(h)'
  PROVE  HistInv'
<1>1. FilesInv'
  BY DEF HistInv, FilesInv, files
<1>2. ASSUME NEW k \in Handles \ {h}
      PROVE  HandleInv(k)'
  BY <1>2 DEF HistInv, HandleInv, Elsewhere, files
<1> QED
  BY <1>1, <1>2 DEF HistInv

\* The files there are once there is a base.
LEMMA FilesThere ==
  ASSUME StoreInv, base # None
  PROVE  base \in BaseFile /\ wal \in WalFile /\ wal # None
  BY DEF StoreInv, TypeOK, Defined

LEMMA StillHolds ==
  ASSUME StoreInv, HistInv, base # None, UNCHANGED <<base, wal>>
  PROVE  Moves(base, wal, base', wal')
  BY FilesThere, StillMoves DEF HistInv, FilesInv

\* A step of h, nobody else being under the lock, that moves the files.
LEMMA MoveStep ==
  ASSUME StoreInv, HistInv, ~TailRace, base # None, NEW h \in Handles, Elsewhere(h),
         \A k \in Handles \ {h} : pc[k] \notin UnderLock,
         base' \in BaseFile, wal' \in WalFile, Moves(base, wal, base', wal'),
         Renews(base, wal, base', wal') => MayReplaceLog,
         HandleInv(h)'
  PROVE  HistInv'
<1>1. base \in BaseFile /\ wal \in WalFile /\ FilesOK(base, wal)
  BY FilesThere DEF HistInv, FilesInv
<1>2. base' # None
  BY NoneIsNoRecord
<1>3. FilesInv'
  BY <1>1, <1>2, MovedFiles DEF FilesInv
<1>4. ASSUME NEW k \in Handles \ {h}
      PROVE  HandleInv(k)'
  <2>1. /\ pc[k] \in Steps /\ served[k] \in {None} \cup Generation /\ nextSeq[k] \in Nat
        /\ seen[k] \in Seen /\ probe[k] \in Probe /\ pc[k] \notin UnderLock
    BY DEF StoreInv, TypeOK
  <2>2. /\ Known(base, pc[k], seen[k], probe[k])
        /\ HandleOK(base, wal, pc[k], served[k], nextSeq[k], seen[k], probe[k], staged[k])
    BY KnownHolds DEF HistInv, HandleInv
  <2>3. Renews(base, wal, base', wal') => pc[k] # "tail" /\ (pc[k] = "stat" => probe[k].opening)
    BY DEF MayReplaceLog
  <2>4. HandleOK(base', wal', pc[k], served[k], nextSeq[k], seen[k], probe[k], staged[k])
    BY <1>1, <2>1, <2>2, <2>3, HandleMoved
  <2> QED
    BY <2>4 DEF HandleInv, Elsewhere
<1> QED
  BY <1>3, <1>4 DEF HistInv

\* Whoever is under the lock is alone there.
LEMMA Alone ==
  ASSUME StoreInv, NEW h \in Handles, pc[h] \in UnderLock \/ lock = None
  PROVE  \A k \in Handles \ {h} : pc[k] \notin UnderLock
  BY NoneIsFresh DEF StoreInv, Exclusive

\* A closed handle has nothing to keep.
LEMMA ClosedOK ==
  ASSUME NEW b, NEW w, NEW p \in Closed, NEW g, g = None, NEW n, NEW s, s.stamp = None,
         NEW q, NEW ops
  PROVE  HandleOK(b, w, p, g, n, s, q, ops)
  BY DEF HandleOK, LiveOK, LiveAt, OpenOK, SeenOK, ProbeOK, LockOK, Closed, Loading, Appending

\* One between calls has what it serves and has seen.
LEMMA IdleOK ==
  ASSUME NEW b, NEW w, NEW p \in {"idle", "mend", "sync"}, NEW g, g # None, NEW n, NEW s, NEW q,
         NEW ops, OpenOK(b, w, g, n), SeenOK(b, w, g, s)
  PROVE  HandleOK(b, w, p, g, n, s, q, ops)
  BY DEF HandleOK, LiveOK, LiveAt, ProbeOK, LockOK, Closed, Loading, Appending

\* A live handle serves something.
LEMMA LiveServes ==
  ASSUME HistInv, NEW h \in Handles, pc[h] \notin Closed,
         pc[h] \in Loading => ~probe[h].opening
  PROVE  /\ served[h] # None
         /\ OpenOK(base, wal, served[h], nextSeq[h]) /\ SeenOK(base, wal, served[h], seen[h])
  BY DEF HistInv, HandleInv, HandleOK, LiveOK, LiveAt

\* A closed one does not.
LEMMA ClosedServesNot ==
  ASSUME HistInv, NEW h \in Handles, pc[h] \in Closed \/ (pc[h] \in Loading /\ probe[h].opening)
  PROVE  served[h] = None /\ seen[h].stamp = None
  BY DEF HistInv, HandleInv, HandleOK, LiveOK, LiveAt

\* Without a base every handle is closed.
LEMMA NoBaseClosed ==
  ASSUME StoreInv, HistInv, base = None, NEW k \in Handles
  PROVE  pc[k] \in Closed /\ served[k] = None /\ seen[k].stamp = None
<1>1. pc[k] \in Closed
  BY DEF StoreInv, Defined
<1> QED
  BY <1>1, ClosedServesNot

\* A step of h that returns to the caller, or goes on to the lock, with what
\* it serves and has seen as it was.
LEMMA QuietStep ==
  ASSUME StoreInv, HistInv, NEW h \in Handles, pc[h] \notin Closed,
         pc[h] \in Loading => ~probe[h].opening,
         pc'[h] \in {"idle", "mend", "sync"},
         UNCHANGED <<base, wal, served, seen, nextSeq>>, Elsewhere(h)
  PROVE  HistInv'
<1>1. HandleOK(base, wal, pc'[h], served[h], nextSeq[h], seen[h], probe'[h], staged'[h])
  BY LiveServes, IdleOK
<1>2. HandleInv(h)'
  BY <1>1 DEF HandleInv
<1> QED
  BY <1>2, StillStep DEF files

\* Calls that end without reading or writing.
LEMMA QuietHist ==
  ASSUME StoreInv, HistInv, NEW h \in Handles,
         \/ Discard(h)
         \/ \E for \in {"commit", "transact", "compact"} : Acquire(h, for)
         \/ TxnAbort(h) \/ AppendRefused(h) \/ CompactFail(h)
  PROVE  HistInv'
<1> USE DEF files, memory, batch, ghosts, Goto, Return, Fail
<1>1. pc[h] \in {"idle", "txn", "append", "fold", "swap"}
  BY DEF Discard, Acquire, TxnAbort, AppendRefused, CompactFail
<1>2. pc[h] \notin Closed /\ pc[h] \notin Loading
  BY <1>1 DEF Closed, Loading
<1>3. pc'[h] \in {"idle", "sync"}
  BY DEF Discard, Acquire, TxnAbort, AppendRefused, CompactFail, StoreInv, TypeOK
<1>4. UNCHANGED <<base, wal, served, seen, nextSeq>>
  BY DEF Discard, Acquire, TxnAbort, AppendRefused, CompactFail
<1>5. Elsewhere(h)
  BY DEF Discard, Acquire, TxnAbort, AppendRefused, CompactFail, StoreInv, TypeOK, Elsewhere
<1> QED
  BY <1>2, <1>3, <1>4, <1>5, QuietStep

\* Staging, between calls or in a transaction's body.
LEMMA StageHist ==
  ASSUME StoreInv, HistInv, NEW h \in Handles, NEW op \in Ops, Stage(h, op)
  PROVE  HistInv'
<1>1. /\ pc[h] = "idle" \/ pc[h] = "txn"
      /\ UNCHANGED <<base, wal, pc, served, seen, nextSeq, probe>>
  BY DEF Stage, files, memory
<1>2. Elsewhere(h)
  BY <1>1 DEF Stage, StoreInv, TypeOK, Elsewhere
<1>3. HandleOK(base, wal, pc[h], served[h], nextSeq[h], seen[h], probe[h], staged'[h])
  BY <1>1 DEF HistInv, HandleInv, HandleOK, LockOK
<1>4. HandleInv(h)'
  BY <1>1, <1>3 DEF HandleInv
<1> QED
  BY <1>1, <1>2, <1>4, StillStep DEF files

\* The body returned Ok.
LEMMA TxnEndHist ==
  ASSUME StoreInv, HistInv, NEW h \in Handles, TxnEnd(h)
  PROVE  HistInv'
<1>1. /\ pc[h] = "txn" /\ UNCHANGED <<base, wal, served, seen, nextSeq, probe, staged>>
      /\ pc'[h] \in {"append", "idle"}
  BY DEF TxnEnd, Goto, Return, files, memory, StoreInv, TypeOK
<1>2. Elsewhere(h)
  BY <1>1 DEF TxnEnd, Goto, Return, StoreInv, TypeOK, Elsewhere
<1>3. CASE pc'[h] = "idle"
  BY <1>1, <1>2, <1>3, QuietStep DEF Closed, Loading
<1>4. CASE pc'[h] = "append"
  <2>1. HandleOK(base, wal, "append", served[h], nextSeq[h], seen[h], probe[h], staged[h])
    BY <1>1 DEF HistInv, HandleInv, HandleOK, LiveOK, LiveAt, ProbeOK, LockOK,
                Closed, Loading, Appending
  <2>2. HandleInv(h)'
    BY <1>1, <1>4, <2>1 DEF HandleInv
  <2> QED
    BY <1>1, <1>2, <2>2, StillStep DEF files
<1> QED
  BY <1>1, <1>3, <1>4

\* A step from no base: all handles stay closed.
LEMMA ClosedStep ==
  ASSUME StoreInv, HistInv, base = None, FilesInv',
         \A k \in Handles : pc'[k] \in Closed, UNCHANGED <<served, seen>>
  PROVE  HistInv'
<1>1. ASSUME NEW k \in Handles
      PROVE  HandleInv(k)'
  <2>1. served'[k] = None /\ seen'[k].stamp = None /\ pc'[k] \in Closed
    BY NoBaseClosed
  <2> QED
    BY <2>1, ClosedOK DEF HandleInv
<1> QED
  BY <1>1 DEF HistInv

\* Store::create, step by step.
LEMMA CreateHist ==
  ASSUME StoreInv, HistInv, NEW h \in Handles, Create(h)
  PROVE  HistInv'
<1>1. pc[h] \in Closed /\ pc'[h] \in Closed /\ UNCHANGED <<served, seen, nextSeq, probe, staged>>
  BY DEF Create, CreateBegin, CreateLock, CreateBase, Goto, memory, batch, Closed, StoreInv, TypeOK
<1>2. \A k \in Handles \ {h} : pc'[k] = pc[k]
  BY DEF Create, CreateBegin, CreateLock, CreateBase, Goto, StoreInv, TypeOK
<1>3. CASE UNCHANGED <<base, wal>>
  <2>1. served[h] = None /\ seen[h].stamp = None
    BY <1>1, ClosedServesNot
  <2>2. HandleInv(h)'
    BY <1>1, <2>1, ClosedOK DEF HandleInv
  <2>3. Elsewhere(h)
    BY <1>1, <1>2 DEF Elsewhere
  <2> QED
    BY <1>3, <2>2, <2>3, StillStep DEF files
<1>4. CASE base = None /\ UNCHANGED base /\ wal' = IF wal = None THEN FreshWal(None, 1) ELSE wal
  <2>1. FilesInv'
    BY <1>4 DEF HistInv, FilesInv, FreshWal
  <2>2. \A k \in Handles : pc'[k] \in Closed
    BY <1>1, <1>2, <1>4, NoBaseClosed
  <2> QED
    BY <1>1, <1>4, <2>1, <2>2, ClosedStep
<1>5. CASE CreateBase(h)
  <2>1. /\ base = None /\ base' = EmptyBase /\ wal' = wal /\ wal # None /\ wal \in WalFile
        /\ wal.gen = 1
    BY <1>5 DEF CreateBase, StoreInv, TypeOK, Defined, Generations
  <2>2. wal.log = <<>> /\ wal.torn = 0 /\ wal.synced = 0
    BY <2>1 DEF HistInv, FilesInv
  <2>3. EmptyBase \in BaseFile /\ EmptyBase.gen = 1 /\ EmptyBase.applied = 0 /\ EmptyBase.ops = <<>>
    BY DEF EmptyBase, BaseFile
  <2>4. EmptyBase # None
    BY <2>3, NoneIsNoRecord
  <2>5. Len(wal.log) = 0 /\ Len(EmptyBase.ops) = 0
    BY <2>2, <2>3
  <2>6. Dense(wal.log, 0)
    BY <2>5 DEF Dense
  <2>7. History(EmptyBase, wal) \in Seq(Ops) /\ Len(History(EmptyBase, wal)) = 0 + 0
    BY <2>1, <2>3, <2>5, <2>6, BuildIs
  <2>8. LogFits(wal.log, 0, History(EmptyBase, wal)) /\ 0 <= Len(History(EmptyBase, wal))
    BY <2>5, <2>6, <2>7 DEF LogFits
  <2>9. FilesOK(EmptyBase, wal)
    BY <2>1, <2>2, <2>3, <2>5, <2>6, <2>8 DEF FilesOK
  <2>10. FilesInv'
    BY <2>1, <2>4, <2>9 DEF FilesInv
  <2>11. \A k \in Handles : pc'[k] \in Closed
    BY <1>1, <1>2, <2>1, NoBaseClosed
  <2> QED
    BY <1>1, <2>1, <2>10, <2>11, ClosedStep
<1> QED
  BY <1>3, <1>4, <1>5 DEF Create, CreateBegin, CreateLock, files

\* open_with or reload_if_stale begins.
LEMMA StatBaseHist ==
  ASSUME StoreInv, HistInv, NEW h \in Handles, StatBase(h)
  PROVE  HistInv'
<1> DEFINE q == [NoProbe EXCEPT !.opening = pc[h] = "closed", !.stat = base.gen]
<1>1. /\ pc[h] \in {"closed", "idle"} /\ base # None
      /\ UNCHANGED <<base, wal, served, seen, nextSeq, staged>>
      /\ pc'[h] = "stat" /\ probe'[h] = q
  BY DEF StatBase, Goto, files, memory, batch, StoreInv, TypeOK, Defined, Closed
<1>2. Elsewhere(h)
  BY <1>1 DEF StatBase, Goto, StoreInv, TypeOK, Elsewhere
<1>3. q.opening = (pc[h] = "closed") /\ q.stat = base.gen
  BY DEF NoProbe
<1> HIDE DEF q
<1>4. CASE pc[h] = "closed"
  <2>1. served[h] = None /\ seen[h].stamp = None /\ q.opening
    BY <1>3, <1>4, ClosedServesNot DEF Closed
  <2>2. HandleOK(base, wal, "stat", served[h], nextSeq[h], seen[h], q, staged[h])
    BY <2>1 DEF HandleOK, LiveOK, LiveAt, OpenOK, SeenOK, ProbeOK, LockOK, Closed, Loading, Appending
  <2>3. HandleInv(h)'
    BY <1>1, <2>2 DEF HandleInv
  <2> QED
    BY <1>1, <1>2, <2>3, StillStep DEF files
<1>5. CASE pc[h] = "idle"
  <2>1. /\ served[h] # None /\ ~q.opening
        /\ OpenOK(base, wal, served[h], nextSeq[h]) /\ SeenOK(base, wal, served[h], seen[h])
    BY <1>3, <1>5, LiveServes DEF Closed, Loading
  <2>2. ProbeOK(base, wal, "stat", served[h], seen[h], q)
    BY <1>3, <2>1 DEF ProbeOK, SeenOK, Names
  <2>3. HandleOK(base, wal, "stat", served[h], nextSeq[h], seen[h], q, staged[h])
    BY <2>1, <2>2 DEF HandleOK, LiveOK, LiveAt, LockOK, Closed, Loading, Appending
  <2>4. HandleInv(h)'
    BY <1>1, <2>3 DEF HandleInv
  <2> QED
    BY <1>1, <1>2, <2>4, StillStep DEF files
<1> QED
  BY <1>1, <1>4, <1>5

\* Stat of the log, and what the two stats call for.
LEMMA StatWalHist ==
  ASSUME StoreInv, HistInv, NEW h \in Handles, StatWal(h)
  PROVE  HistInv'
<1> DEFINE now == [base |-> probe[h].stat, wal |-> WalStat(wal)]
           q == [probe[h] EXCEPT !.stamp = now]
<1>1. /\ pc[h] = "stat" /\ base # None /\ probe[h] \in Probe
      /\ UNCHANGED <<base, wal, served, seen, nextSeq, staged>>
  BY DEF StatWal, files, memory, batch, StoreInv, TypeOK, Defined, Closed
<1>2. Elsewhere(h)
  BY <1>1 DEF StatWal, Goto, StoreInv, TypeOK, Elsewhere
<1>3. base \in BaseFile /\ wal \in WalFile /\ FilesOK(base, wal)
  BY <1>1, FilesThere DEF HistInv, FilesInv
<1>4. /\ StampFits(now, base, wal) /\ now.wal.ino = wal.ino /\ now.base = probe[h].stat
  BY <1>3, StampIs
<1>5. \/ pc'[h] = "idle" /\ ~probe[h].opening
      \/ pc'[h] = "tail" /\ probe'[h] = q /\ ~probe[h].opening /\ OnlyGrew(seen[h], now)
      \/ pc'[h] = "map" /\ probe'[h] = q
  BY <1>1 DEF StatWal, Goto, StoreInv, TypeOK
<1>6. q.opening = probe[h].opening /\ q.stamp = now
  BY <1>1 DEF Probe
<1> HIDE DEF now, q
<1>7. HandleOK(base, wal, "stat", served[h], nextSeq[h], seen[h], probe[h], staged[h])
  BY <1>1 DEF HistInv, HandleInv
<1>8. CASE pc'[h] = "idle" /\ ~probe[h].opening
  BY <1>1, <1>2, <1>8, QuietStep DEF Closed
<1>9. CASE pc'[h] = "map" /\ probe'[h] = q
  <2>1. HandleOK(base, wal, "map", served[h], nextSeq[h], seen[h], q, staged[h])
    BY <1>4, <1>6, <1>7 DEF HandleOK, LiveOK, LiveAt, ProbeOK, LockOK, StampFits,
                            Closed, Loading, Appending
  <2>2. HandleInv(h)'
    BY <1>1, <1>9, <2>1 DEF HandleInv
  <2> QED
    BY <1>1, <1>2, <2>2, StillStep DEF files
<1>10. CASE /\ pc'[h] = "tail" /\ probe'[h] = q /\ ~probe[h].opening
            /\ OnlyGrew(seen[h], now)
  <2>1. /\ seen[h].stamp # None /\ seen[h].stamp.base = now.base
        /\ seen[h].stamp.wal.ino = wal.ino
    BY <1>4, <1>10 DEF OnlyGrew
  <2>2. /\ probe[h].stat = base.gen \/ wal.gen < base.gen
        /\ Reached(served[h], wal.log, seen[h].pos)
    BY <1>4, <1>7, <1>10, <2>1 DEF HandleOK, ProbeOK
  <2>3. ProbeOK(base, wal, "tail", served[h], seen[h], q)
    BY <1>4, <1>6, <2>1, <2>2 DEF ProbeOK, StampFits
  <2>4. HandleOK(base, wal, "tail", served[h], nextSeq[h], seen[h], q, staged[h])
    BY <1>6, <1>7, <2>3 DEF HandleOK, LiveOK, LiveAt, LockOK, Closed, Loading, Appending
  <2>5. HandleInv(h)'
    BY <1>1, <1>10, <2>4 DEF HandleInv
  <2> QED
    BY <1>1, <1>2, <2>5, StillStep DEF files
<1> QED
  BY <1>5, <1>8, <1>9, <1>10

\* The base as it is now fits the files.
LEMMA BaseFits ==
  ASSUME NEW b \in BaseFile, NEW w \in WalFile, FilesOK(b, w)
  PROVE  MapFits(b, b, w)
<1>1. /\ History(b, w) \in Seq(Ops) /\ b.applied = Len(b.ops)
      /\ \A i \in 1..b.applied : History(b, w)[i] = b.ops[i]
      /\ w.gen = b.gen => Len(History(b, w)) = b.applied + Len(w.log)
      /\ w.gen # b.gen => Len(History(b, w)) = b.applied
  BY BuildIs DEF FilesOK
<1>2. PICK H \in Seq(Ops), ops \in Seq(Ops), n \in Nat, log \in Seq(Entry) :
        H = History(b, w) /\ ops = b.ops /\ n = b.applied /\ log = w.log
  BY <1>1 DEF BaseFile, WalFile
<1>3. n = Len(ops) /\ \A i \in 1..n : H[i] = ops[i]
  BY <1>1, <1>2
<1>4. Len(H) = n + Len(log) \/ Len(H) = n
  BY <1>1, <1>2
<1>5. n <= Len(H)
  BY <1>4
<1>6. Begins(ops, H)
  BY <1>3, <1>5 DEF Begins
<1> QED
  BY <1>1, <1>2, <1>6 DEF MapFits, FilesOK

\* The base is mapped.
LEMMA MapBaseHist ==
  ASSUME StoreInv, HistInv, NEW h \in Handles, MapBase(h)
  PROVE  HistInv'
<1> DEFINE q == [probe[h] EXCEPT !.map = base]
<1>1. /\ pc[h] = "map" /\ base # None /\ probe[h] \in Probe
      /\ UNCHANGED <<base, wal, served, seen, nextSeq, staged>>
      /\ pc'[h] = "read" /\ probe'[h] = q
  BY DEF MapBase, Goto, files, memory, batch, StoreInv, TypeOK, Defined, Closed
<1>2. Elsewhere(h)
  BY <1>1 DEF MapBase, Goto, StoreInv, TypeOK, Elsewhere
<1>3. MapFits(base, base, wal)
  BY <1>1, FilesThere, BaseFits DEF HistInv, FilesInv
<1>4. q.opening = probe[h].opening /\ q.stamp = probe[h].stamp /\ q.map = base
  BY <1>1 DEF Probe
<1> HIDE DEF q
<1>5. HandleOK(base, wal, "map", served[h], nextSeq[h], seen[h], probe[h], staged[h])
  BY <1>1 DEF HistInv, HandleInv
<1>6. HandleOK(base, wal, "read", served[h], nextSeq[h], seen[h], q, staged[h])
  BY <1>3, <1>4, <1>5 DEF HandleOK, LiveOK, LiveAt, OpenOK, ProbeOK, LockOK,
                          Closed, Loading, Appending
<1>7. HandleInv(h)'
  BY <1>1, <1>6 DEF HandleInv
<1> QED
  BY <1>1, <1>2, <1>7, StillStep DEF files

\* The counters after a load: the next number follows what is served.
LEMMA NextAfter ==
  ASSUME NEW b, NEW w, NEW g \in Generation, g # None, NEW n, OpenOK(b, w, g, n),
         NEW r \in Generation, r # None, OpenOK(b, w, r, Len(View(r)) + 1),
         Len(View(g)) <= Len(View(r))
  PROVE  Max2(n, FirstFree(r)) = Len(View(r)) + 1
<1>1. FirstFree(r) = Len(View(r)) + 1
  BY LastSeqIs DEF OpenOK
<1>2. View(g) \in Seq(Ops) /\ View(r) \in Seq(Ops)
  BY ViewIs
<1>3. Len(View(g)) \in Nat /\ Len(View(r)) \in Nat /\ n = Len(View(g)) + 1
  BY <1>2 DEF OpenOK
<1> QED
  BY <1>1, <1>3 DEF Max2

\* reload_wal_tail.
LEMMA ReloadTailHist ==
  ASSUME StoreInv, HistInv, NEW h \in Handles, ReloadTail(h)
  PROVE  HistInv'
<1> DEFINE r == TailRead(served[h], seen[h], wal)
           s == [seen[h] EXCEPT !.stamp = probe[h].stamp, !.pos = r.pos]
<1>1. /\ pc[h] = "tail" /\ base # None /\ served[h] # None
      /\ served[h] \in Generation /\ seen[h] \in Seen /\ ~probe[h].opening
      /\ UNCHANGED <<base, wal, staged>>
  BY DEF ReloadTail, files, batch, StoreInv, TypeOK, Defined, Live, Closed, Loading
<1>2. /\ pc'[h] = "idle" /\ served'[h] = r.served /\ seen'[h] = s
      /\ nextSeq'[h] = Max2(nextSeq[h], FirstFree(r.served))
  BY DEF ReloadTail, Adopt, Goto, StoreInv, TypeOK
<1>3. Elsewhere(h)
  BY <1>1 DEF ReloadTail, Adopt, Goto, StoreInv, TypeOK, Elsewhere
<1>4. base \in BaseFile /\ wal \in WalFile /\ FilesOK(base, wal)
  BY <1>1, FilesThere DEF HistInv, FilesInv
<1>5. HandleOK(base, wal, "tail", served[h], nextSeq[h], seen[h], probe[h], staged[h])
  BY <1>1 DEF HistInv, HandleInv
<1>6. /\ OpenOK(base, wal, served[h], nextSeq[h]) /\ SeenOK(base, wal, served[h], seen[h])
      /\ Reached(served[h], wal.log, seen[h].pos)
      /\ seen[h].stamp # None /\ seen[h].stamp.base = probe[h].stamp.base
      /\ seen[h].stamp.wal.ino = wal.ino
      /\ StampFits(probe[h].stamp, base, wal)
  BY <1>5 DEF HandleOK, ProbeOK, StampFits
<1>7. /\ r.pos = Len(wal.log) /\ r.served \in Generation /\ r.served # None
      /\ OpenOK(base, wal, r.served, Len(View(r.served)) + 1)
      /\ Len(View(served[h])) <= Len(View(r.served))
      /\ Reached(r.served, wal.log, Len(wal.log))
      /\ base.applied <= Len(View(served[h])) => Full(r.served, base, wal)
  BY <1>1, <1>4, <1>6, TailIs
<1>8. /\ s.stamp = probe[h].stamp /\ s.pos = Len(wal.log) /\ s.current = seen[h].current
  BY <1>1, <1>7 DEF Seen
<1> HIDE DEF r, s
<1>9. nextSeq'[h] = Len(View(r.served)) + 1
  BY <1>1, <1>2, <1>6, <1>7, NextAfter
<1>10. SeenOK(base, wal, r.served, s)
  <2> SUFFICES ASSUME s.stamp # None, Names(s.stamp, base, wal)
               PROVE  /\ s.current <=> wal.gen = base.gen
                      /\ base.applied <= Len(View(r.served))
    BY <1>6, <1>7, <1>8 DEF SeenOK, StampFits
  <2>1. Names(seen[h].stamp, base, wal)
    BY <1>6, <1>8 DEF Names
  <2>2. (seen[h].current <=> wal.gen = base.gen) /\ base.applied <= Len(View(served[h]))
    BY <1>6, <2>1 DEF SeenOK
  <2> QED
    BY <1>4, <1>7, <1>8, <2>2, FullReached
<1>11. HandleOK(base, wal, "idle", r.served, nextSeq'[h], s, probe'[h], staged[h])
  BY <1>7, <1>9, <1>10, IdleOK
<1>12. HandleInv(h)'
  BY <1>1, <1>2, <1>11 DEF HandleInv
<1> QED
  BY <1>1, <1>3, <1>12, StillStep DEF files

\* Whichever way install_or_apply goes, all there is is served.
LEMMA InstallFull ==
  ASSUME StoreInv, NEW h \in Handles, served[h] # None, base \in BaseFile, wal \in WalFile,
         FilesOK(base, wal), OpenOK(base, wal, served[h], nextSeq[h]),
         NEW m \in BaseFile, MapFits(m, base, wal), m.gen <= base.gen, wal.gen <= m.gen,
         served[h].gen = m.gen => served[h].applied = m.applied,
         NEW s, InstallOrApply(h, m, wal, s)
  PROVE  /\ Full(served'[h], base, wal) /\ nextSeq'[h] = Len(View(served'[h])) + 1
         /\ seen'[h] = s
         /\ \A k \in Handles \ {h} :
              served'[k] = served[k] /\ nextSeq'[k] = nextSeq[k] /\ seen'[k] = seen[k]
<1>1. PICK g \in Generation, n \in Nat : g = served[h] /\ n = nextSeq[h]
  BY DEF StoreInv, TypeOK
<1>2. g # None /\ OpenOK(base, wal, g, n) /\ LastSeq(g) = Len(View(g)) /\ Len(View(g)) \in Nat
  <2>1. View(g) \in Seq(Ops)
    BY ViewIs
  <2> QED
    BY <1>1, <2>1, LastSeqIs DEF OpenOK
<1>3. PICK r : Adopt(h, r, s) /\ Full(r, base, wal)
  <2>1. CASE m.applied <= Len(View(g)) /\ Adopt(h, ApplyLog(g, m, wal), s)
    BY <1>2, <2>1, ApplyFull
  <2>2. CASE Adopt(h, Build(m, wal), s)
    BY <2>2, BuildFull
  <2>3. CASE m.gen = g.gen /\ Adopt(h, ApplyLog(g, m, wal), s)
    <3>1. m.applied <= Len(View(g))
      BY <1>1, <1>2, <2>3, AppliedShown DEF OpenOK
    <3> QED
      BY <2>1, <2>3, <3>1
  <2> QED
    BY <1>1, <1>2, <2>1, <2>2, <2>3 DEF InstallOrApply
<1>4. /\ served'[h] = r /\ seen'[h] = s /\ nextSeq'[h] = Max2(n, FirstFree(r))
      /\ \A k \in Handles \ {h} :
           served'[k] = served[k] /\ nextSeq'[k] = nextSeq[k] /\ seen'[k] = seen[k]
  BY <1>1, <1>3 DEF Adopt, StoreInv, TypeOK
<1>5. Len(View(g)) <= Len(View(r))
  BY <1>2, <1>3 DEF OpenOK, Begins, Full
<1>6. Max2(n, FirstFree(r)) = Len(View(r)) + 1
  BY <1>2, <1>3, <1>5, NextAfter DEF Full
<1> QED
  BY <1>3, <1>4, <1>6

\* A step of h that ends a load with all there is and the stamp it took.
LEMMA FullStep ==
  ASSUME StoreInv, HistInv, base # None, NEW h \in Handles, pc[h] = "read",
         NEW m \in BaseFile, m.gen <= base.gen, probe[h].stamp.base <= m.gen,
         Full(served'[h], base, wal), nextSeq'[h] = Len(View(served'[h])) + 1,
         seen'[h] = SeenOf(probe[h].stamp, m, wal), pc'[h] \in {"idle", "mend"},
         UNCHANGED <<base, wal>>, Elsewhere(h)
  PROVE  HistInv'
<1>1. base \in BaseFile /\ wal \in WalFile /\ FilesOK(base, wal)
  BY FilesThere DEF HistInv, FilesInv
<1>2. probe[h].stamp \in Stamp
  BY KnownHolds DEF Known
<1>3. StampFits(probe[h].stamp, base, wal)
  BY DEF HistInv, HandleInv, HandleOK, ProbeOK, StampFits
<1>4. SeenOK(base, wal, served'[h], seen'[h])
  BY <1>1, <1>2, <1>3, SeenFull
<1>5. HandleOK(base, wal, pc'[h], served'[h], nextSeq'[h], seen'[h], probe'[h], staged'[h])
  BY <1>4, IdleOK DEF Full
<1>6. HandleInv(h)'
  BY <1>5 DEF HandleInv
<1> QED
  BY <1>6, StillStep DEF files

\* A load that assembles a handle serves all there is.
LEMMA AssembleFull ==
  ASSUME StoreInv, NEW h \in Handles, base \in BaseFile, wal \in WalFile, FilesOK(base, wal),
         NEW m \in BaseFile, MapFits(m, base, wal), m.gen <= base.gen, wal.gen <= m.gen,
         NEW stamp, Assemble(h, m, wal, stamp)
  PROVE  /\ Full(served'[h], base, wal) /\ nextSeq'[h] = Len(View(served'[h])) + 1
         /\ seen'[h] = SeenOf(stamp, m, wal)
         /\ \A k \in Handles \ {h} :
              served'[k] = served[k] /\ nextSeq'[k] = nextSeq[k] /\ seen'[k] = seen[k]
<1>1. Full(Build(m, wal), base, wal)
  BY BuildFull
<1>2. FirstFree(Build(m, wal)) = Len(View(Build(m, wal))) + 1
  BY <1>1, LastSeqIs DEF Full, OpenOK
<1> QED
  BY <1>1, <1>2 DEF Assemble, StoreInv, TypeOK

\* The log is read whole.
LEMMA LoadReadHist ==
  ASSUME StoreInv, HistInv, NEW h \in Handles, LoadRead(h)
  PROVE  HistInv'
<1> DEFINE m == probe[h].map
<1>1. /\ pc[h] = "read" /\ base # None /\ wal.gen <= m.gen
      /\ UNCHANGED <<base, wal, staged>> /\ probe' = [probe EXCEPT ![h] = NoProbe]
  <2>1. pc[h] = "read" /\ base # None /\ ~LogNewer(m, wal)
    BY DEF LoadRead, StoreInv, Defined, Closed
  <2>2. wal # None /\ wal.gen \in Nat /\ m.gen \in Nat
    BY <2>1, FilesThere, KnownHolds DEF Known, WalFile, BaseFile
  <2> QED
    BY <2>1, <2>2 DEF LoadRead, files, batch, LogNewer
<1>2. base \in BaseFile /\ wal \in WalFile /\ FilesOK(base, wal)
  BY <1>1, FilesThere DEF HistInv, FilesInv
<1>3. m \in BaseFile /\ probe[h].stamp.base <= m.gen /\ m.gen <= base.gen
  BY <1>1, KnownHolds DEF Known
<1>4. /\ MapFits(m, base, wal)
      /\ ~probe[h].opening => (served[h].gen = m.gen => served[h].applied = m.applied)
  BY <1>1 DEF HistInv, HandleInv, HandleOK, ProbeOK
<1>5. CASE /\ Assemble(h, m, wal, probe[h].stamp)
           /\ \E to \in {"idle", "mend"} : pc' = [pc EXCEPT ![h] = to]
  <2>1. /\ Full(served'[h], base, wal) /\ nextSeq'[h] = Len(View(served'[h])) + 1
        /\ seen'[h] = SeenOf(probe[h].stamp, m, wal)
        /\ \A k \in Handles \ {h} :
             served'[k] = served[k] /\ nextSeq'[k] = nextSeq[k] /\ seen'[k] = seen[k]
    BY <1>1, <1>2, <1>3, <1>4, <1>5, AssembleFull
  <2>2. pc'[h] \in {"idle", "mend"} /\ Elsewhere(h)
    BY <1>1, <1>5, <2>1 DEF StoreInv, TypeOK, Elsewhere
  <2> HIDE DEF m
  <2> QED
    BY <1>1, <1>3, <2>1, <2>2, FullStep
<1>6. CASE /\ ~probe[h].opening /\ pc' = [pc EXCEPT ![h] = "idle"]
           /\ InstallOrApply(h, m, wal, SeenOf(probe[h].stamp, m, wal))
  <2>1. served[h] # None /\ OpenOK(base, wal, served[h], nextSeq[h])
    BY <1>1, <1>6, LiveServes DEF Closed
  <2>2. /\ Full(served'[h], base, wal) /\ nextSeq'[h] = Len(View(served'[h])) + 1
        /\ seen'[h] = SeenOf(probe[h].stamp, m, wal)
        /\ \A k \in Handles \ {h} :
             served'[k] = served[k] /\ nextSeq'[k] = nextSeq[k] /\ seen'[k] = seen[k]
    BY <1>1, <1>2, <1>3, <1>4, <1>6, <2>1, InstallFull
  <2>3. pc'[h] \in {"idle", "mend"} /\ Elsewhere(h)
    BY <1>1, <1>6, <2>2 DEF StoreInv, TypeOK, Elsewhere
  <2> HIDE DEF m
  <2> QED
    BY <1>1, <1>3, <2>2, <2>3, FullStep
<1>7. CASE ~probe[h].opening /\ UNCHANGED memory /\ pc' = [pc EXCEPT ![h] = "idle"]
  <2>1. pc'[h] = "idle" /\ Elsewhere(h)
    BY <1>1, <1>7 DEF memory, StoreInv, TypeOK, Elsewhere
  <2> QED
    BY <1>1, <1>7, <2>1, QuietStep DEF memory, Closed
<1> QED
  BY <1>5, <1>6, <1>7 DEF LoadRead, Goto

\* A log newer than the base mapped.
LEMMA LoadAgainHist ==
  ASSUME StoreInv, HistInv, NEW h \in Handles, LoadAgain(h)
  PROVE  HistInv'
<1>1. /\ pc[h] = "read" /\ base # None /\ UNCHANGED <<base, wal, staged>> /\ probe[h] \in Probe
  BY DEF LoadAgain, files, batch, StoreInv, TypeOK, Defined, Closed
<1>2. base \in BaseFile /\ wal \in WalFile /\ FilesOK(base, wal)
  BY <1>1, FilesThere DEF HistInv, FilesInv
<1>3. HandleOK(base, wal, "read", served[h], nextSeq[h], seen[h], probe[h], staged[h])
  BY <1>1 DEF HistInv, HandleInv
<1>4. CASE /\ pc' = [pc EXCEPT ![h] = "map"] /\ UNCHANGED memory
           /\ probe' = [probe EXCEPT ![h].map = None, ![h].tries = @ + 1]
  <2>1. /\ pc'[h] = "map" /\ probe'[h].opening = probe[h].opening
        /\ probe'[h].stamp = probe[h].stamp
    BY <1>1, <1>4 DEF StoreInv, TypeOK, Probe
  <2>2. HandleOK(base, wal, "map", served[h], nextSeq[h], seen[h], probe'[h], staged[h])
    BY <1>3, <2>1 DEF HandleOK, LiveOK, LiveAt, ProbeOK, LockOK, Closed, Loading, Appending
  <2>3. HandleInv(h)'
    BY <1>1, <1>4, <2>1, <2>2 DEF HandleInv, memory
  <2>4. Elsewhere(h)
    BY <1>1, <1>4 DEF memory, StoreInv, TypeOK, Elsewhere
  <2> QED
    BY <1>1, <2>3, <2>4, StillStep DEF files
<1>5. CASE /\ pc' = [pc EXCEPT ![h] = IF probe[h].opening THEN "closed" ELSE "idle"]
           /\ probe' = [probe EXCEPT ![h] = NoProbe] /\ UNCHANGED memory
  <2>1. Elsewhere(h)
    BY <1>1, <1>5 DEF memory, StoreInv, TypeOK, Elsewhere
  <2>2. CASE ~probe[h].opening
    <3>1. pc'[h] = "idle"
      BY <1>5, <2>2 DEF StoreInv, TypeOK
    <3> QED
      BY <1>1, <1>5, <2>1, <2>2, <3>1, QuietStep DEF memory, Closed
  <2>3. CASE probe[h].opening
    <3>1. pc'[h] = "closed"
      BY <1>5, <2>3 DEF StoreInv, TypeOK
    <3>2. served'[h] = None /\ seen'[h].stamp = None
      BY <1>1, <1>5, <2>3, ClosedServesNot DEF memory, Loading
    <3>3. HandleInv(h)'
      BY <3>1, <3>2, ClosedOK DEF HandleInv, Closed
    <3> QED
      BY <1>1, <2>1, <3>3, StillStep DEF files
  <2> QED
    BY <2>2, <2>3
<1>6. CASE /\ Assemble(h, base, wal, probe[h].stamp)
           /\ \E to \in {"idle", "mend"} : pc' = [pc EXCEPT ![h] = to]
           /\ probe' = [probe EXCEPT ![h] = NoProbe]
  <2>1. /\ MapFits(base, base, wal) /\ base.gen <= base.gen /\ wal.gen <= base.gen
        /\ probe[h].stamp.base <= base.gen
    BY <1>1, <1>2, BaseFits, KnownHolds DEF FilesOK, BaseFile, Known
  <2>2. /\ Full(served'[h], base, wal) /\ nextSeq'[h] = Len(View(served'[h])) + 1
        /\ seen'[h] = SeenOf(probe[h].stamp, base, wal)
        /\ \A k \in Handles \ {h} :
             served'[k] = served[k] /\ nextSeq'[k] = nextSeq[k] /\ seen'[k] = seen[k]
    BY <1>1, <1>2, <1>6, <2>1, AssembleFull
  <2>3. pc'[h] \in {"idle", "mend"} /\ Elsewhere(h)
    BY <1>1, <1>6, <2>2 DEF StoreInv, TypeOK, Elsewhere
  <2> QED
    BY <1>1, <1>2, <2>1, <2>2, <2>3, FullStep
<1> QED
  BY <1>4, <1>5, <1>6 DEF LoadAgain, Goto

\* A cut to where the records end takes nothing but the torn tail.
LEMMA CutToEnd ==
  ASSUME NEW b, NEW w \in WalFile, w.synced <= Len(w.log), NEW pos, pos = Len(w.log)
  PROVE  /\ CutTo(w, pos) \in WalFile /\ Rests(b, w, b, CutTo(w, pos))
         /\ CutTo(w, pos).torn = 0
<1>1. PICK log \in Seq(Entry), n \in Nat : log = w.log /\ n = Len(log) /\ n = pos
  <2>1. w.log \in Seq(Entry)
    BY DEF WalFile
  <2>2. Len(w.log) \in Nat
    BY <2>1
  <2> QED
    BY <2>1, <2>2
<1>2. CutTo(w, pos) \in WalFile
  BY <1>1, CutToType
<1>3. Min2(pos, Len(w.log)) = n /\ SubSeq(log, 1, n) = log
  BY <1>1 DEF Min2
<1>4. CutTo(w, pos) = [w EXCEPT !.log = log, !.torn = 0, !.synced = n]
  BY <1>1, <1>3 DEF CutTo
<1>5. /\ CutTo(w, pos).ino = w.ino /\ CutTo(w, pos).gen = w.gen /\ CutTo(w, pos).log = w.log
      /\ CutTo(w, pos).torn = 0 /\ CutTo(w, pos).synced = n
  BY <1>1, <1>4 DEF WalFile
<1>6. n <= Len(log) /\ w.synced <= n
  BY <1>1
<1> QED
  BY <1>1, <1>2, <1>5, <1>6 DEF Rests

\* repair by a handle that has caught up: the log is the base's and whole,
\* and the stamp names it.
LEMMA RepairIs ==
  ASSUME base \in BaseFile, wal \in WalFile, FilesOK(base, wal),
         NEW s \in Seen, s.stamp = StampOf(base, wal), s.gen = base.gen,
         s.current <=> wal.gen = base.gen, s.current => s.pos = Len(wal.log),
         NEW w2, w2 = RepairedWal(s), NEW s2, s2 = RepairedSeen(s)
  PROVE  /\ w2 \in WalFile
         /\ Rests(base, wal, base, w2) \/ (~s.current /\ Renews(base, wal, base, w2))
         /\ w2.gen = base.gen /\ w2.torn = 0
         /\ s2.stamp # None /\ Names(s2.stamp, base, w2) /\ s2.pos = Len(w2.log)
         /\ s2.current /\ LenUpTo(s2.stamp.wal.len, s2.pos)
<1>1. /\ s.stamp \in Stamp /\ s.stamp # None /\ s.stamp.base = base.gen
      /\ s.stamp.wal.ino = wal.ino /\ s.stamp.wal.len = FileLen(wal) /\ s.stamp.wal \in WalId
  <2>1. s.stamp \in Stamp /\ s.stamp # None /\ s.stamp.base = base.gen
    BY StampOfType
  <2>2. s.stamp.wal.ino = wal.ino /\ s.stamp.wal.len = FileLen(wal)
    BY StampIs DEF StampOf
  <2>3. s.stamp.wal \in WalId
    BY WalStatType DEF StampOf
  <2> QED
    BY <2>1, <2>2, <2>3
<1>2. PICK n \in Nat, torn \in Nat : n = Len(wal.log) /\ torn = wal.torn /\ wal.synced <= n
  BY DEF WalFile, FilesOK
<1>3. OpLen * n \in Nat /\ FileLen(wal) = OpLen * n + torn
  BY <1>2, ConstantsOK DEF FileLen
<1>4. CASE s.current
  <2>1. wal.gen = base.gen /\ s.pos = n
    BY <1>2, <1>4
  <2>2. w2 \in WalFile /\ Rests(base, wal, base, w2) /\ w2.torn = 0
    <3>1. CASE s.stamp.wal.len > OpLen * s.pos
      <4>1. w2 = CutTo(wal, s.pos)
        BY <1>4, <3>1 DEF RepairedWal
      <4> QED
        BY <1>2, <2>1, <4>1, CutToEnd
    <3>2. CASE ~(s.stamp.wal.len > OpLen * s.pos)
      <4>1. w2 = wal
        BY <1>4, <3>2 DEF RepairedWal
      <4>2. torn = 0
        BY <1>1, <1>3, <2>1, <3>2
      <4>3. wal.synced <= wal.synced
        BY DEF WalFile
      <4> QED
        BY <1>2, <4>1, <4>2, <4>3 DEF Rests
    <3> QED
      BY <3>1, <3>2
  <2>3. w2.gen = base.gen /\ w2.ino = wal.ino /\ Len(w2.log) = n
    BY <1>2, <2>1, <2>2 DEF Rests
  <2> DEFINE len == Min2(s.stamp.wal.len, OpLen * s.pos)
             id  == [s.stamp.wal EXCEPT !.len = len]
             st  == [s.stamp EXCEPT !.wal = id]
  <2>4. len = OpLen * n
    BY <1>1, <1>3, <2>1 DEF Min2
  <2> HIDE DEF len
  <2>5. id \in WalId /\ id.ino = wal.ino /\ id.len = len
    BY <1>1, <1>3, <2>4 DEF WalId
  <2> HIDE DEF id
  <2>6. st \in Stamp /\ st.wal = id /\ st.base = base.gen
    BY <1>1, <2>5 DEF Stamp
  <2>7. st # None
    BY <2>6, NoneIsNoRecord
  <2>8. s2 = [s EXCEPT !.stamp = st]
    BY <1>4 DEF RepairedSeen, Seen, st, id, len
  <2> HIDE DEF st
  <2>9. s2.stamp = st /\ s2.pos = s.pos /\ s2.current = s.current
    BY <2>6, <2>8 DEF Seen
  <2>10. LenUpTo(OpLen * n, n)
    <3>1. n \in 0..n /\ OpLen * n = OpLen * n + 0
      BY <1>3
    <3> QED
      BY <3>1 DEF LenUpTo
  <2> QED
    BY <1>4, <2>1, <2>2, <2>3, <2>4, <2>5, <2>6, <2>7, <2>9, <2>10 DEF Names
<1>5. CASE ~s.current
  <2>1. wal.gen < base.gen
    BY <1>5 DEF FilesOK, WalFile, BaseFile
  <2>2. w2 = FreshWal(wal, base.gen)
    BY <1>5 DEF RepairedWal
  <2>3. w2 \in WalFile
    BY <2>2, FreshWalType DEF BaseFile
  <2>4. Renews(base, wal, base, w2)
    BY <2>1, <2>2 DEF Renews
  <2>5. /\ FilesOK(base, w2) /\ w2.log = <<>> /\ w2.gen = base.gen /\ w2.torn = 0
    BY <2>3, <2>4, RenewedFiles
  <2>6. Len(w2.log) = 0
    BY <2>5
  <2>7. s2 = [stamp |-> StampOf(base, w2), pos |-> 0, current |-> TRUE, gen |-> s.gen]
    BY <1>5, <2>2 DEF RepairedSeen
  <2>8. s2.stamp # None /\ s2.stamp.base = base.gen
    BY <2>3, <2>7, StampOfType
  <2>9. StampFits(s2.stamp, base, w2) /\ s2.stamp.wal.ino = w2.ino
    BY <2>3, <2>5, <2>7, StampIs DEF StampOf
  <2>10. s2.pos = 0 /\ s2.current
    BY <2>7
  <2> QED
    BY <1>5, <2>3, <2>4, <2>5, <2>6, <2>8, <2>9, <2>10 DEF Names, StampFits
<1> QED
  BY <1>4, <1>5

\* catch_up under the lock serves all there is, and has seen all of the log
\* if it is the base's.
LEMMA CaughtUp ==
  ASSUME NoTornAlias, StoreInv, base # None, NEW h \in Handles, served[h] # None,
         base \in BaseFile, wal \in WalFile, FilesOK(base, wal),
         OpenOK(base, wal, served[h], nextSeq[h]), SeenOK(base, wal, served[h], seen[h]),
         SyncRepair(h), NEW s, s = CaughtSeen(h, StampOf(base, wal))
  PROVE  /\ s \in Seen /\ s.stamp = StampOf(base, wal) /\ s.gen = base.gen
         /\ s.current <=> wal.gen = base.gen
         /\ s.current => s.pos = Len(wal.log)
         /\ seen'[h] = RepairedSeen(s)
         /\ Full(served'[h], base, wal) /\ nextSeq'[h] = Len(View(served'[h])) + 1
         /\ \A k \in Handles \ {h} :
              served'[k] = served[k] /\ nextSeq'[k] = nextSeq[k] /\ seen'[k] = seen[k]
<1>1. PICK now \in Stamp :
        /\ now = StampOf(base, wal) /\ now # None /\ now.base = base.gen
        /\ now.wal.ino = wal.ino
  <2>1. StampOf(base, wal) \in Stamp /\ StampOf(base, wal) # None /\ StampOf(base, wal).base = base.gen
    BY StampOfType
  <2>2. StampOf(base, wal).wal.ino = wal.ino
    BY StampIs DEF StampOf
  <2> QED
    BY <2>1, <2>2
<1>2. s \in Seen /\ s.stamp = now /\ s.gen = base.gen
  BY <1>1, CaughtSeenType
<1>3. PICK g \in Generation, n \in Nat, o \in Seen : g = served[h] /\ n = nextSeq[h] /\ o = seen[h]
  BY DEF StoreInv, TypeOK
<1>4. g # None /\ OpenOK(base, wal, g, n) /\ SeenOK(base, wal, g, o)
  BY <1>3
<1>5. ASSUME NEW r \in Generation, r # None, Full(r, base, wal), Adopt(h, r, RepairedSeen(s))
      PROVE  /\ Full(served'[h], base, wal) /\ nextSeq'[h] = Len(View(served'[h])) + 1
             /\ seen'[h] = RepairedSeen(s)
             /\ \A k \in Handles \ {h} :
                  served'[k] = served[k] /\ nextSeq'[k] = nextSeq[k] /\ seen'[k] = seen[k]
  <2>1. /\ served'[h] = r /\ nextSeq'[h] = Max2(n, FirstFree(r)) /\ seen'[h] = RepairedSeen(s)
        /\ \A k \in Handles \ {h} :
             served'[k] = served[k] /\ nextSeq'[k] = nextSeq[k] /\ seen'[k] = seen[k]
    BY <1>3, <1>5 DEF Adopt, StoreInv, TypeOK
  <2>2. Len(View(g)) <= Len(View(r))
    BY <1>4, <1>5 DEF OpenOK, Begins, Full
  <2>3. Max2(n, FirstFree(r)) = Len(View(r)) + 1
    BY <1>4, <1>5, <2>2, NextAfter DEF Full
  <2> QED
    BY <1>5, <2>1, <2>3
<1>6. CASE o.stamp = now /\ Adopt(h, g, RepairedSeen(s))
  <2>1. s = o
    BY <1>1, <1>3, <1>6 DEF CaughtSeen
  <2>2. /\ Full(g, base, wal) /\ (s.current <=> wal.gen = base.gen)
        /\ s.current => s.pos = Len(wal.log)
    BY <1>1, <1>4, <1>6, <2>1, EqualStamp
  <2> QED
    BY <1>1, <1>2, <1>4, <1>5, <1>6, <2>2
<1>7. CASE /\ o.stamp # now /\ OnlyGrew(o, now)
           /\ Adopt(h, TailRead(g, o, wal).served, RepairedSeen(s))
  <2>1. PICK r : r = TailRead(g, o, wal)
    OBVIOUS
  <2>2. Names(o.stamp, base, wal) /\ o.stamp # None
    BY <1>1, <1>7 DEF OnlyGrew, Names
  <2>3. /\ o.current <=> wal.gen = base.gen
        /\ base.applied <= Len(View(g)) /\ Reached(g, wal.log, o.pos)
    BY <1>4, <2>2 DEF SeenOK
  <2>4. /\ r.pos = Len(wal.log) /\ r.served \in Generation /\ r.served # None
        /\ Full(r.served, base, wal)
    BY <1>4, <2>1, <2>3, TailIs
  <2>5. s = [o EXCEPT !.stamp = now, !.pos = r.pos]
    BY <1>1, <1>3, <1>7, <2>1 DEF CaughtSeen
  <2>6. s.pos = Len(wal.log) /\ s.current = o.current
    BY <2>4, <2>5 DEF Seen
  <2>7. Adopt(h, r.served, RepairedSeen(s))
    BY <1>7, <2>1
  <2> QED
    BY <1>1, <1>2, <1>5, <2>3, <2>4, <2>6, <2>7
<1>8. CASE /\ o.stamp # now /\ ~OnlyGrew(o, now)
           /\ InstallOrApply(h, base, wal, RepairedSeen(s))
  <2>1. s = SeenOf(now, base, wal)
    BY <1>1, <1>3, <1>8 DEF CaughtSeen
  <2>2. /\ SeenOf(now, base, wal).current <=> wal.gen = base.gen
        /\ wal.gen = base.gen => SeenOf(now, base, wal).pos = Len(wal.log)
    BY SeenOfIs
  <2>3. (s.current <=> wal.gen = base.gen) /\ (s.current => s.pos = Len(wal.log))
    BY <2>1, <2>2
  <2>4. /\ MapFits(base, base, wal) /\ base.gen <= base.gen /\ wal.gen <= base.gen
        /\ g.gen = base.gen => g.applied = base.applied
    BY <1>4, BaseFits DEF FilesOK, BaseFile, OpenOK
  <2>5. /\ Full(served'[h], base, wal) /\ nextSeq'[h] = Len(View(served'[h])) + 1
        /\ seen'[h] = RepairedSeen(s)
        /\ \A k \in Handles \ {h} :
             served'[k] = served[k] /\ nextSeq'[k] = nextSeq[k] /\ seen'[k] = seen[k]
    BY <1>3, <1>4, <1>8, <2>4, InstallFull
  <2> QED
    BY <1>1, <1>2, <2>3, <2>5
<1> QED
  BY <1>1, <1>3, <1>6, <1>7, <1>8 DEF SyncRepair

\* sync(repair = true): all there is is served, the log is the base's and
\* whole, and the handle is at its end.
LEMMA SyncedIs ==
  ASSUME NoTornAlias, StoreInv, HistInv, base # None, NEW h \in Handles,
         pc[h] \in {"sync", "mend"}, SyncRepair(h)
  PROVE  /\ wal' \in WalFile /\ FilesOK(base, wal') /\ Moves(base, wal, base, wal')
         /\ Renews(base, wal, base, wal') => MayReplaceLog
         /\ wal'.gen = base.gen /\ wal'.torn = 0
         /\ Full(served'[h], base, wal') /\ nextSeq'[h] = Len(View(served'[h])) + 1
         /\ SeenOK(base, wal', served'[h], seen'[h])
         /\ Names(seen'[h].stamp, base, wal') /\ seen'[h].pos = Len(wal'.log)
         /\ \A k \in Handles \ {h} :
              served'[k] = served[k] /\ nextSeq'[k] = nextSeq[k] /\ seen'[k] = seen[k]
<1>1. base \in BaseFile /\ wal \in WalFile /\ FilesOK(base, wal)
  BY FilesThere DEF HistInv, FilesInv
<1>2. /\ served[h] # None
      /\ OpenOK(base, wal, served[h], nextSeq[h]) /\ SeenOK(base, wal, served[h], seen[h])
  BY LiveServes DEF Closed, Loading
<1>3. PICK s : s = CaughtSeen(h, StampOf(base, wal))
  OBVIOUS
<1>4. /\ s \in Seen /\ s.stamp = StampOf(base, wal) /\ s.gen = base.gen
      /\ s.current <=> wal.gen = base.gen
      /\ s.current => s.pos = Len(wal.log)
      /\ seen'[h] = RepairedSeen(s)
      /\ Full(served'[h], base, wal) /\ nextSeq'[h] = Len(View(served'[h])) + 1
      /\ \A k \in Handles \ {h} :
           served'[k] = served[k] /\ nextSeq'[k] = nextSeq[k] /\ seen'[k] = seen[k]
  BY <1>1, <1>2, <1>3, CaughtUp
<1>5. wal' = RepairedWal(s) /\ (~s.current => MayReplaceLog)
  BY <1>3 DEF SyncRepair
<1>6. PICK w2, s2, g2 : w2 = wal' /\ s2 = seen'[h] /\ g2 = served'[h]
  OBVIOUS
<1>7. /\ w2 \in WalFile
      /\ Rests(base, wal, base, w2) \/ (~s.current /\ Renews(base, wal, base, w2))
      /\ w2.gen = base.gen /\ w2.torn = 0
      /\ s2.stamp # None /\ Names(s2.stamp, base, w2) /\ s2.pos = Len(w2.log)
      /\ s2.current /\ LenUpTo(s2.stamp.wal.len, s2.pos)
  BY <1>1, <1>4, <1>5, <1>6, RepairIs
<1>8. Moves(base, wal, base, w2)
  BY <1>7 DEF Moves
<1>9. Renews(base, wal, base, w2) => MayReplaceLog
  <2>1. Renews(base, wal, base, w2) => wal.gen < base.gen
    BY DEF Renews
  <2>2. wal.gen < base.gen => ~s.current
    BY <1>1, <1>4 DEF WalFile, BaseFile
  <2> QED
    BY <1>5, <2>1, <2>2
<1>10. FilesOK(base, w2) /\ History(base, w2) = History(base, wal)
  BY <1>1, <1>7, RestedFiles, RenewedFiles
<1>11. Full(g2, base, w2)
  BY <1>4, <1>6, <1>10 DEF Full, OpenOK
<1>12. SeenOK(base, w2, g2, s2)
  <2>1. Reached(g2, w2.log, s2.pos) /\ base.applied <= Len(View(g2))
    BY <1>1, <1>7, <1>10, <1>11, FullReached
  <2> QED
    BY <1>7, <2>1 DEF SeenOK, Names
<1> QED
  BY <1>4, <1>6, <1>7, <1>8, <1>9, <1>10, <1>11, <1>12

\* repair_now at open.
LEMMA MendHist ==
  ASSUME Sheltered, StoreInv, HistInv, NEW h \in Handles, Mend(h)
  PROVE  HistInv' /\ Moves(base, wal, base', wal')
<1>1. /\ pc[h] = "mend" /\ base # None /\ pc'[h] = "idle" /\ UNCHANGED <<base, staged, probe>>
      /\ pc' = [pc EXCEPT ![h] = "idle"]
  BY DEF Mend, Goto, batch, StoreInv, TypeOK, Defined, Closed
<1>2. CASE UNCHANGED <<wal, memory>>
  <2>1. Elsewhere(h)
    BY <1>1, <1>2 DEF memory, StoreInv, TypeOK, Elsewhere
  <2>2. Moves(base, wal, base', wal')
    BY <1>1, <1>2, StillHolds
  <2> QED
    BY <1>1, <1>2, <2>1, <2>2, QuietStep DEF memory, Closed, Loading
<1>3. CASE lock = None /\ SyncRepair(h)
  <2>1. /\ wal' \in WalFile /\ FilesOK(base, wal') /\ Moves(base, wal, base, wal')
        /\ Renews(base, wal, base, wal') => MayReplaceLog
        /\ Full(served'[h], base, wal') /\ nextSeq'[h] = Len(View(served'[h])) + 1
        /\ SeenOK(base, wal', served'[h], seen'[h])
        /\ \A k \in Handles \ {h} :
             served'[k] = served[k] /\ nextSeq'[k] = nextSeq[k] /\ seen'[k] = seen[k]
    BY <1>1, <1>3, SyncedIs DEF Sheltered
  <2>2. Elsewhere(h)
    BY <1>1, <2>1 DEF StoreInv, TypeOK, Elsewhere
  <2>3. HandleOK(base, wal', "idle", served'[h], nextSeq'[h], seen'[h], probe[h], staged[h])
    BY <2>1, IdleOK DEF Full
  <2>4. HandleInv(h)'
    BY <1>1, <2>3 DEF HandleInv
  <2>5. \A k \in Handles \ {h} : pc[k] \notin UnderLock
    BY <1>3, Alone
  <2>6. base' \in BaseFile /\ base' = base
    BY <1>1, FilesThere
  <2> QED
    BY <1>1, <2>1, <2>2, <2>4, <2>5, <2>6, MoveStep DEF Sheltered
<1> QED
  BY <1>2, <1>3 DEF Mend

\* sync, then append, run the transaction's body, or fold.
LEMMA SyncHist ==
  ASSUME Sheltered, StoreInv, HistInv, NEW h \in Handles, Sync(h)
  PROVE  HistInv' /\ Moves(base, wal, base', wal')
<1>1. /\ pc[h] = "sync" /\ base # None /\ UNCHANGED <<base, staged, probe>>
      /\ goal[h] \in {"commit", "transact", "compact"}
  BY DEF Sync, StoreInv, TypeOK, Defined, Closed
<1>2. CASE Return(h) /\ UNCHANGED <<wal, memory>>
  <2>1. pc'[h] = "idle" /\ Elsewhere(h)
    BY <1>1, <1>2 DEF Return, Goto, memory, StoreInv, TypeOK, Elsewhere
  <2>2. Moves(base, wal, base', wal')
    BY <1>1, <1>2, StillHolds
  <2> QED
    BY <1>1, <1>2, <2>1, <2>2, QuietStep DEF memory, Closed, Loading
<1>3. CASE /\ SyncRepair(h)
           /\ Goto(h, CASE goal[h] = "commit"   -> "append"
                        [] goal[h] = "transact" -> "txn"
                        [] goal[h] = "compact"  -> "fold")
  <2>1. /\ wal' \in WalFile /\ FilesOK(base, wal') /\ Moves(base, wal, base, wal')
        /\ Renews(base, wal, base, wal') => MayReplaceLog
        /\ wal'.gen = base.gen /\ wal'.torn = 0
        /\ Full(served'[h], base, wal') /\ nextSeq'[h] = Len(View(served'[h])) + 1
        /\ SeenOK(base, wal', served'[h], seen'[h])
        /\ Names(seen'[h].stamp, base, wal') /\ seen'[h].pos = Len(wal'.log)
        /\ \A k \in Handles \ {h} :
             served'[k] = served[k] /\ nextSeq'[k] = nextSeq[k] /\ seen'[k] = seen[k]
    BY <1>1, <1>3, SyncedIs DEF Sheltered
  <2>2. PICK to \in {"append", "txn", "fold"} : pc' = [pc EXCEPT ![h] = to]
    BY <1>1, <1>3 DEF Goto
  <2>3. pc'[h] = to /\ Elsewhere(h)
    BY <1>1, <2>1, <2>2 DEF StoreInv, TypeOK, Elsewhere
  <2>4. HandleOK(base, wal', to, served'[h], nextSeq'[h], seen'[h], probe[h], staged[h])
    BY <2>1 DEF HandleOK, LiveOK, LiveAt, ProbeOK, LockOK, Full, Closed, Loading, Appending
  <2>5. HandleInv(h)'
    BY <1>1, <2>3, <2>4 DEF HandleInv
  <2>6. \A k \in Handles \ {h} : pc[k] \notin UnderLock
    BY <1>1, Alone DEF UnderLock
  <2>7. base' \in BaseFile /\ base' = base
    BY <1>1, FilesThere
  <2> QED
    BY <1>1, <2>1, <2>3, <2>5, <2>6, <2>7, MoveStep DEF Sheltered
<1> QED
  BY <1>2, <1>3 DEF Sync

\* What is known of the handle that holds the lock.
LEMMA HolderIs ==
  ASSUME StoreInv, HistInv, NEW h \in Handles, pc[h] \in UnderLock \ {"create_base"}
  PROVE  /\ base # None /\ base \in BaseFile /\ wal \in WalFile /\ FilesOK(base, wal)
         /\ served[h] # None /\ served[h] \in Generation /\ nextSeq[h] \in Nat
         /\ seen[h] \in Seen /\ staged[h] \in Seq(Ops) /\ probe[h] \in Probe
         /\ OpenOK(base, wal, served[h], nextSeq[h])
         /\ SeenOK(base, wal, served[h], seen[h])
         /\ Known(base, pc[h], seen[h], probe[h])
         /\ LockOK(base, wal, pc[h], served[h], nextSeq[h], seen[h], staged[h])
         /\ \A k \in Handles \ {h} : pc[k] \notin UnderLock
<1>1. base # None
  BY DEF StoreInv, Defined, UnderLock, Appending, Closed
<1>2. pc[h] \notin Closed \cup Loading
  BY DEF UnderLock, Appending, Closed, Loading
<1>3. /\ served[h] # None /\ OpenOK(base, wal, served[h], nextSeq[h])
      /\ SeenOK(base, wal, served[h], seen[h])
  BY <1>2, LiveServes
<1>4. FilesOK(base, wal) /\ base \in BaseFile /\ wal \in WalFile
  BY <1>1, FilesThere DEF HistInv, FilesInv
<1>5. Known(base, pc[h], seen[h], probe[h])
  BY <1>1, KnownHolds
<1>6. LockOK(base, wal, pc[h], served[h], nextSeq[h], seen[h], staged[h])
  BY DEF HistInv, HandleInv, HandleOK
<1>7. \A k \in Handles \ {h} : pc[k] \notin UnderLock
  BY Alone
<1>8. /\ served[h] \in Generation /\ nextSeq[h] \in Nat
      /\ seen[h] \in Seen /\ staged[h] \in Seq(Ops) /\ probe[h] \in Probe
  BY <1>3 DEF StoreInv, TypeOK
<1> QED
  BY <1>1, <1>3, <1>4, <1>5, <1>6, <1>7, <1>8

\* The holder's step from p to p2, on files that move.
LEMMA HolderStep ==
  ASSUME Sheltered, StoreInv, HistInv, NEW h \in Handles, pc[h] \in UnderLock \ {"create_base"},
         Elsewhere(h), base' \in BaseFile, wal' \in WalFile, Moves(base, wal, base', wal'),
         Renews(base, wal, base', wal') => MayReplaceLog, HandleInv(h)'
  PROVE  HistInv' /\ Moves(base, wal, base', wal')
  BY HolderIs, MoveStep DEF Sheltered

\* Part of the record is in the file.
LEMMA WritePartHist ==
  ASSUME Sheltered, StoreInv, HistInv, NEW h \in Handles, NEW n \in TornLens, WritePart(h, n)
  PROVE  HistInv' /\ Moves(base, wal, base', wal')
<1>1. /\ pc[h] = "append" /\ pc' = [pc EXCEPT ![h] = "writing"]
      /\ wal' = [wal EXCEPT !.torn = n]
      /\ UNCHANGED <<base, served, seen, nextSeq, staged, probe>>
  BY DEF WritePart, Goto, memory, batch
<1>2. pc[h] \in UnderLock \ {"create_base"}
  BY <1>1 DEF UnderLock, Appending
<1>3. PICK b \in BaseFile, w \in WalFile, g \in Generation, x \in Nat, s \in Seen, q \in Probe,
             ops \in Seq(Ops) :
        /\ b = base /\ w = wal /\ g = served[h] /\ x = nextSeq[h] /\ s = seen[h] /\ q = probe[h]
        /\ ops = staged[h]
        /\ FilesOK(b, w) /\ g # None /\ OpenOK(b, w, g, x) /\ SeenOK(b, w, g, s)
        /\ Known(b, "append", s, q) /\ LockOK(b, w, "append", g, x, s, ops)
  <2>1. /\ base \in BaseFile /\ wal \in WalFile /\ served[h] \in Generation /\ nextSeq[h] \in Nat
        /\ seen[h] \in Seen /\ staged[h] \in Seq(Ops) /\ probe[h] \in Probe
        /\ FilesOK(base, wal) /\ served[h] # None /\ OpenOK(base, wal, served[h], nextSeq[h])
        /\ SeenOK(base, wal, served[h], seen[h])
        /\ Known(base, "append", seen[h], probe[h])
        /\ LockOK(base, wal, "append", served[h], nextSeq[h], seen[h], staged[h])
    BY <1>1, <1>2, HolderIs
  <2> QED
    BY <2>1
<1>4. PICK w2 \in WalFile : w2 = wal' /\ w2 = [w EXCEPT !.torn = n]
  <2>1. n \in Nat
    BY ConstantsOK
  <2>2. [w EXCEPT !.torn = n] \in WalFile
    BY <2>1 DEF WalFile
  <2> QED
    BY <1>1, <1>3, <2>2
<1>5. Rests(b, w, b, w2)
  <2>1. /\ w2.ino = w.ino /\ w2.gen = w.gen /\ w2.log = w.log /\ w2.torn = n
        /\ w2.synced = w.synced
    BY <1>4 DEF WalFile
  <2>2. w.synced <= w.synced /\ w.synced <= Len(w.log)
    BY <1>3 DEF WalFile, FilesOK
  <2> QED
    BY <2>1, <2>2 DEF Rests
<1>6. Moves(b, w, b, w2) /\ History(b, w2) = History(b, w)
  BY <1>3, <1>5, RestedFiles DEF Moves
<1>7. OpenOK(b, w2, g, x) /\ SeenOK(b, w2, g, s)
  BY <1>3, <1>6, OpenMoved, SeenMoved
<1>8. LockOK(b, w2, "writing", g, x, s, ops)
  BY <1>3, <1>5, <1>6 DEF LockOK, Rests, Names, Appending
<1>9. HandleOK(b, w2, "writing", g, x, s, q, ops)
  BY <1>3, <1>7, <1>8 DEF HandleOK, LiveOK, LiveAt, ProbeOK, Closed, Loading
<1>10. Elsewhere(h) /\ pc'[h] = "writing"
  BY <1>1 DEF Elsewhere, StoreInv, TypeOK
<1>11. HandleInv(h)'
  BY <1>1, <1>3, <1>4, <1>9, <1>10 DEF HandleInv
<1>12. Renews(base, wal, base', wal') => MayReplaceLog
  <2>1. b.gen \in Nat /\ w.gen = b.gen
    BY <1>3 DEF BaseFile, LockOK, Appending
  <2> QED
    BY <1>1, <1>3, <2>1 DEF Renews
<1> QED
  BY <1>1, <1>2, <1>3, <1>4, <1>6, <1>10, <1>11, <1>12, HolderStep

\* A record is numbered on, and ends.
LEMMA SealedIs ==
  ASSUME NEW n \in Nat, NEW ops \in Seq(Ops)
  PROVE  /\ Sealed(n + 1, ops) \in Seq(Entry) /\ Len(Sealed(n + 1, ops)) = Len(ops)
         /\ Dense(Sealed(n + 1, ops), n)
         /\ Sealed(n + 1, ops) # <<>> => Sealed(n + 1, ops)[Len(ops)].end
         /\ \A i \in 1..Len(ops) : Sealed(n + 1, ops)[i].op = ops[i]
<1>1. n + 1 \in Nat \ {0}
  OBVIOUS
<1>2. Sealed(n + 1, ops) \in Seq(Entry) /\ Len(Sealed(n + 1, ops)) = Len(ops)
  BY <1>1, SealedType
<1>3. \A i \in 1..Len(ops) :
        Sealed(n + 1, ops)[i] = [seq |-> n + 1 + i - 1, op |-> ops[i], end |-> i = Len(ops)]
  BY DEF Sealed
<1>4. PICK rec \in Seq(Entry) : rec = Sealed(n + 1, ops)
  BY <1>2
<1>5. ASSUME NEW i \in 1..Len(ops)
      PROVE  rec[i].op = ops[i] /\ rec[i].seq = n + i /\ (i = Len(ops) => rec[i].end)
  <2>1. rec[i] = [seq |-> n + 1 + i - 1, op |-> ops[i], end |-> i = Len(ops)]
    BY <1>3, <1>4
  <2>2. rec[i].op = ops[i] /\ rec[i].seq = n + 1 + i - 1 /\ rec[i].end = (i = Len(ops))
    BY <2>1
  <2>3. rec[i].seq = n + i
    BY <2>2
  <2>4. i = Len(ops) => rec[i].end
    BY <2>2, Zenon
  <2> QED
    BY <2>2, <2>3, <2>4
<1>6. Len(rec) = Len(ops)
  BY <1>2, <1>4
<1>7. rec # <<>> => rec[Len(ops)].end
  <2>1. rec # <<>> => Len(rec) \in 1..Len(rec)
    OBVIOUS
  <2> QED
    BY <1>5, <1>6, <2>1
<1> QED
  BY <1>4, <1>5, <1>6, <1>7 DEF Dense

\* The whole record, written by a handle that serves all there is, numbers on
\* where the history ends.
LEMMA WroteAll ==
  ASSUME NEW b \in BaseFile, NEW w \in WalFile, FilesOK(b, w), NEW g \in Generation, g # None,
         NEW x \in Nat, OpenOK(b, w, g, x), NEW s \in Seen, SeenOK(b, w, g, s),
         NEW p \in {"append", "writing"}, NEW q, Known(b, p, s, q),
         NEW ops \in Seq(Ops), LockOK(b, w, p, g, x, s, ops),
         NEW w2, w2 = Appended(IF p = "writing" THEN [w EXCEPT !.torn = 0] ELSE w, Sealed(x, ops))
  PROVE  /\ w2 \in WalFile /\ Grows(b, w, b, w2)
         /\ HandleOK(b, w2, "written", g, x, s, q, ops)
<1>1. PICK H \in Seq(Ops), log \in Seq(Entry), a \in Nat, v \in Nat :
        H = History(b, w) /\ log = w.log /\ a = b.applied /\ v = Len(View(g))
  <2>1. History(b, w) \in Seq(Ops) /\ w.log \in Seq(Entry) /\ b.applied \in Nat
    BY BuildIs DEF FilesOK, WalFile, BaseFile
  <2>2. View(g) \in Seq(Ops)
    BY ViewIs
  <2>3. Len(View(g)) \in Nat
    BY <2>2
  <2> QED
    BY <2>1, <2>3
<1>2. w.gen = b.gen /\ Names(s.stamp, b, w) /\ v = Len(H) /\ s.pos = Len(log)
      /\ (p # "writing" => w.torn = 0)
  BY <1>1 DEF LockOK, Appending
<1>3. Len(H) = a + Len(log) /\ x = v + 1
  BY <1>1, <1>2, BuildIs DEF FilesOK, OpenOK
<1>4. PICK rec \in Seq(Entry) :
        /\ rec = Sealed(x, ops) /\ Len(rec) = Len(ops) /\ Dense(rec, v)
        /\ rec # <<>> => rec[Len(rec)].end
  BY <1>3, SealedIs
<1>5. /\ w2 \in WalFile /\ w2.log = log \o rec /\ w2.torn = 0
      /\ w2.ino = w.ino /\ w2.gen = w.gen /\ w2.synced = w.synced
  <2>1. PICK o \in WalFile :
          /\ o = IF p = "writing" THEN [w EXCEPT !.torn = 0] ELSE w
          /\ o.torn = 0 /\ o.log = log /\ o.ino = w.ino /\ o.gen = w.gen /\ o.synced = w.synced
    <3>1. /\ [w EXCEPT !.torn = 0] \in WalFile
          /\ [w EXCEPT !.torn = 0].torn = 0 /\ [w EXCEPT !.torn = 0].log = log
          /\ [w EXCEPT !.torn = 0].ino = w.ino /\ [w EXCEPT !.torn = 0].gen = w.gen
          /\ [w EXCEPT !.torn = 0].synced = w.synced
      BY <1>1 DEF WalFile
    <3> QED
      BY <1>1, <1>2, <3>1
  <2>2. w2 = Appended(o, rec) /\ w2 \in WalFile
    BY <1>4, <2>1, AppendedType
  <2>3. w2 = [o EXCEPT !.log = log \o rec]
    BY <2>1, <2>2 DEF Appended
  <2> QED
    BY <2>1, <2>2, <2>3 DEF WalFile
<1>6. Grows(b, w, b, w2)
  <2>1. Dense(rec, a + Len(log))
    BY <1>2, <1>3, <1>4
  <2> QED
    BY <1>1, <1>2, <1>4, <1>5, <2>1 DEF Grows
<1>7. Moves(b, w, b, w2)
  BY <1>6 DEF Moves
<1>8. OpenOK(b, w2, g, x) /\ SeenOK(b, w2, g, s)
  BY <1>5, <1>7, OpenMoved, SeenMoved
<1>9. Len(History(b, w2)) = a + Len(w2.log)
  BY <1>1, <1>5, <1>6, GrownFiles
<1>10. /\ Len(w2.log) = Len(log) + Len(ops)
       /\ \A i \in 1..Len(ops) : w2.log[Len(log) + i] = rec[i]
  <2>1. /\ Len(log \o rec) = Len(log) + Len(rec)
        /\ \A i \in 1..Len(rec) : (log \o rec)[Len(log) + i] = rec[i]
    OBVIOUS
  <2> QED
    BY <1>4, <1>5, <2>1
<1>11. LockOK(b, w2, "written", g, x, s, ops)
  <2>1. Len(w2.log) = s.pos + Len(ops) /\ \A i \in 1..Len(ops) : w2.log[s.pos + i] = Sealed(x, ops)[i]
    BY <1>2, <1>4, <1>10
  <2>2. Len(History(b, w2)) = Len(View(g)) + Len(ops)
    BY <1>1, <1>2, <1>3, <1>9, <1>10
  <2>3. w2.gen = b.gen /\ w2.torn = 0 /\ Names(s.stamp, b, w2)
    BY <1>2, <1>5 DEF Names
  <2> QED
    BY <2>1, <2>2, <2>3 DEF LockOK
<1> QED
  BY <1>5, <1>6, <1>8, <1>11 DEF HandleOK, LiveOK, LiveAt, ProbeOK, Closed, Loading

\* All of the record is in the file.
LEMMA WriteAllHist ==
  ASSUME Sheltered, StoreInv, HistInv, NEW h \in Handles, WriteAll(h)
  PROVE  HistInv' /\ Moves(base, wal, base', wal')
<1>1. /\ pc[h] \in {"append", "writing"} /\ pc' = [pc EXCEPT ![h] = "written"]
      /\ wal' = Appended(IF pc[h] = "writing" THEN [wal EXCEPT !.torn = 0] ELSE wal,
                         Sealed(nextSeq[h], staged[h]))
      /\ UNCHANGED <<base, served, seen, nextSeq, staged, probe>>
  BY DEF WriteAll, Goto, memory, batch
<1>2. pc[h] \in UnderLock \ {"create_base"}
  BY <1>1 DEF UnderLock, Appending
<1>3. /\ base \in BaseFile /\ wal \in WalFile /\ served[h] \in Generation /\ nextSeq[h] \in Nat
      /\ seen[h] \in Seen /\ staged[h] \in Seq(Ops) /\ probe[h] \in Probe
      /\ FilesOK(base, wal) /\ served[h] # None /\ OpenOK(base, wal, served[h], nextSeq[h])
      /\ SeenOK(base, wal, served[h], seen[h])
      /\ Known(base, pc[h], seen[h], probe[h])
      /\ LockOK(base, wal, pc[h], served[h], nextSeq[h], seen[h], staged[h])
  BY <1>2, HolderIs
<1>4. /\ wal' \in WalFile /\ Grows(base, wal, base, wal')
      /\ HandleOK(base, wal', "written", served[h], nextSeq[h], seen[h], probe[h], staged[h])
  BY <1>1, <1>3, WroteAll
<1>5. Elsewhere(h) /\ pc'[h] = "written"
  BY <1>1 DEF Elsewhere, StoreInv, TypeOK
<1>6. HandleInv(h)'
  BY <1>1, <1>4, <1>5 DEF HandleInv
<1>7. Moves(base, wal, base', wal') /\ base' \in BaseFile
  BY <1>1, <1>3, <1>4 DEF Moves
<1>8. Renews(base, wal, base', wal') => MayReplaceLog
  <2>1. base.gen \in Nat /\ wal.gen = base.gen
    BY <1>3, <1>4 DEF BaseFile, Grows
  <2> QED
    BY <2>1 DEF Renews
<1> QED
  BY <1>2, <1>4, <1>5, <1>6, <1>7, <1>8, HolderStep

\* The append failed part way: the log is cut back to where it was, or the
\* torn record stays.
LEMMA AppendFailHist ==
  ASSUME Sheltered, StoreInv, HistInv, NEW h \in Handles, AppendFail(h)
  PROVE  HistInv' /\ Moves(base, wal, base', wal')
<1>1. /\ pc[h] = "writing" /\ pc' = [pc EXCEPT ![h] = "idle"]
      /\ wal' = CutTo(wal, seen[h].pos) \/ wal' = wal
      /\ seen' = [seen EXCEPT ![h].stamp = None]
      /\ staged' = [staged EXCEPT ![h] = Kept(h)]
      /\ UNCHANGED <<base, served, nextSeq, probe>>
  BY DEF AppendFail, Fail, Return, Goto, Sheltered
<1>2. pc[h] \in UnderLock \ {"create_base"}
  BY <1>1 DEF UnderLock, Appending
<1>3. /\ base \in BaseFile /\ wal \in WalFile /\ served[h] \in Generation /\ nextSeq[h] \in Nat
      /\ FilesOK(base, wal) /\ served[h] # None /\ OpenOK(base, wal, served[h], nextSeq[h])
      /\ LockOK(base, wal, "writing", served[h], nextSeq[h], seen[h], staged[h])
  BY <1>1, <1>2, HolderIs
<1>4. seen[h].pos = Len(wal.log) /\ wal.gen = base.gen
  BY <1>3 DEF LockOK, Appending
<1>5. wal' \in WalFile /\ Rests(base, wal, base, wal')
  <2>1. wal.synced <= Len(wal.log) /\ wal.torn \in {0} \cup TornLens
    BY <1>3 DEF FilesOK
  <2>2. wal.synced <= wal.synced
    BY <1>3 DEF WalFile
  <2>3. Rests(base, wal, base, wal)
    BY <2>1, <2>2 DEF Rests
  <2>4. /\ CutTo(wal, seen[h].pos) \in WalFile
        /\ Rests(base, wal, base, CutTo(wal, seen[h].pos))
    BY <1>3, <1>4, <2>1, CutToEnd
  <2> QED
    BY <1>1, <1>3, <2>3, <2>4
<1>6. Moves(base, wal, base, wal')
  BY <1>5 DEF Moves
<1>7. OpenOK(base, wal', served[h], nextSeq[h])
  BY <1>3, <1>5, <1>6, OpenMoved
<1>8. seen'[h].stamp = None /\ pc'[h] = "idle" /\ Elsewhere(h)
  BY <1>1 DEF StoreInv, TypeOK, Seen, Elsewhere
<1>9. SeenOK(base, wal', served[h], seen'[h])
  BY <1>8 DEF SeenOK
<1>10. HandleOK(base, wal', "idle", served[h], nextSeq[h], seen'[h], probe[h], staged'[h])
  BY <1>3, <1>7, <1>9, IdleOK
<1>11. HandleInv(h)'
  BY <1>1, <1>8, <1>10 DEF HandleInv
<1>12. Renews(base, wal, base', wal') => MayReplaceLog
  <2>1. base.gen \in Nat
    BY <1>3 DEF BaseFile
  <2> QED
    BY <1>4, <2>1 DEF Renews
<1> QED
  BY <1>1, <1>2, <1>3, <1>5, <1>6, <1>8, <1>11, <1>12, HolderStep

\* Records of the same entries are the same.
LEMMA SameEntries ==
  ASSUME NEW u \in Seq(Entry), NEW v \in Seq(Entry), Len(u) = Len(v),
         \A i \in 1..Len(u) : u[i] = v[i]
  PROVE  u = v
  OBVIOUS

\* Publishing its own record, the handle serves all there is.
LEMMA OwnRecord ==
  ASSUME NEW b \in BaseFile, NEW w \in WalFile, FilesOK(b, w), NEW g \in Generation, g # None,
         NEW x \in Nat, OpenOK(b, w, g, x), NEW s \in Seen, NEW ops \in Seq(Ops),
         LockOK(b, w, "written", g, x, s, ops)
  PROVE  /\ Full(Publish(g, Sealed(x, ops)), b, w)
         /\ Len(View(Publish(g, Sealed(x, ops)))) = Len(View(g)) + Len(ops)
         /\ \A i \in 1..Len(ops) : View(Publish(g, Sealed(x, ops)))[Len(View(g)) + i] = ops[i]
<1>1. PICK H \in Seq(Ops), log \in Seq(Entry), a \in Nat, view \in Seq(Ops), v \in Nat, pos \in Nat :
        /\ H = History(b, w) /\ log = w.log /\ a = b.applied /\ view = View(g) /\ v = Len(view)
        /\ pos = s.pos
  <2>1. History(b, w) \in Seq(Ops) /\ w.log \in Seq(Entry) /\ b.applied \in Nat /\ s.pos \in Nat
    BY BuildIs DEF FilesOK, WalFile, BaseFile, Seen
  <2>2. View(g) \in Seq(Ops)
    BY ViewIs
  <2>3. Len(View(g)) \in Nat
    BY <2>2
  <2> QED
    BY <2>1, <2>2, <2>3
<1>2. /\ w.gen = b.gen /\ Len(log) = pos + Len(ops) /\ Len(H) = v + Len(ops)
      /\ \A i \in 1..Len(ops) : log[pos + i] = Sealed(x, ops)[i]
  BY <1>1 DEF LockOK, Appending
<1>3. /\ Whole(g) /\ Begins(view, H) /\ x = v + 1
      /\ g.gen <= b.gen /\ (g.gen = b.gen => g.applied = b.applied)
  BY <1>1 DEF OpenOK
<1>4. Len(H) = a + Len(log) /\ Dense(log, a) /\ LogFits(log, a, H)
  <2>1. /\ Dense(log, a) /\ Len(H) = a + Len(log)
        /\ \A i \in 1..Len(log) : H[a + i] = log[i].op
    BY <1>1, <1>2, BuildIs DEF FilesOK
  <2> QED
    BY <2>1 DEF LogFits
<1>5. v = a + pos /\ pos \in 0..Len(log) /\ a <= v
  <2>1. Len(ops) \in Nat /\ Len(log) \in Nat
    OBVIOUS
  <2>2. PICK m \in Nat, l \in Nat : m = Len(ops) /\ l = Len(log)
    BY <2>1
  <2>3. l = pos + m /\ a + l = v + m
    BY <1>2, <1>4, <2>2
  <2>4. v = a + pos /\ pos \in 0..l /\ a <= v
    BY <2>3
  <2> QED
    BY <2>2, <2>4
<1>6. PICK rec \in Seq(Entry) : rec = Sealed(x, ops) /\ Len(rec) = Len(ops)
  BY <1>3, SealedIs
<1>7. Above(log, pos, v) = rec
  <2>1. Above(log, pos, v) = IF v - a >= Len(log) THEN <<>> ELSE SubSeq(log, v - a + 1, Len(log))
    <3>1. pos > 0 => a + pos <= v
      BY <1>5
    <3> QED
      BY <1>4, <1>5, <3>1, AboveIs
  <2>2. CASE Len(ops) = 0
    <3>1. rec = <<>> /\ v - a >= Len(log)
      BY <1>2, <1>5, <1>6, <2>2
    <3> QED
      BY <2>1, <3>1
  <2>3. CASE Len(ops) # 0
    <3>1. Above(log, pos, v) = SubSeq(log, pos + 1, Len(log))
      <4>1. v - a = pos /\ ~(v - a >= Len(log))
        BY <1>2, <1>5, <2>3
      <4> QED
        BY <2>1, <4>1
    <3>2. \A i \in pos + 1..Len(log) : log[i] \in Entry
      BY <1>5
    <3>3. PICK sub \in Seq(Entry) : sub = SubSeq(log, pos + 1, Len(log))
      <4>1. SubSeq(log, pos + 1, Len(log)) \in Seq(Entry)
        BY <3>2, <1>5
      <4> QED
        BY <4>1
    <3>4. Len(sub) = Len(ops) /\ \A i \in 1..Len(ops) : sub[i] = log[pos + i]
      BY <1>2, <1>5, <2>3, <3>3
    <3>5. \A i \in 1..Len(ops) : sub[i] = rec[i]
      BY <1>2, <1>6, <3>4
    <3>6. Len(sub) = Len(rec) /\ \A i \in 1..Len(sub) : sub[i] = rec[i]
      BY <1>6, <3>4, <3>5
    <3>7. sub = rec
      BY <3>6, SameEntries
    <3> QED
      BY <3>1, <3>3, <3>7
  <2> QED
    BY <2>2, <2>3
<1>8. LastSeq(g) = v
  BY <1>1, <1>3, LastSeqIs
<1>9. PICK r : r = Publish(g, Above(log, pos, LastSeq(g)))
  OBVIOUS
<1>10. /\ r \in Generation /\ Whole(r) /\ Begins(View(r), H)
       /\ Len(View(r)) = Max2(v, a + Len(log)) /\ r.gen = g.gen /\ r.applied = g.applied
  <2>1. /\ a <= Len(View(g)) /\ (pos > 0 => a + pos <= Len(View(g)))
        /\ Begins(View(g), H) /\ Len(View(g)) = v
    BY <1>1, <1>3, <1>5
  <2> QED
    BY <1>3, <1>4, <1>5, <1>9, <2>1, PublishIs
<1>11. r = Publish(g, Sealed(x, ops)) /\ r # None
  BY <1>6, <1>7, <1>8, <1>9, <1>10, NoneIsNoRecord
<1>12. Len(View(r)) = Len(H) /\ Len(View(r)) = v + Len(ops)
  BY <1>2, <1>4, <1>5, <1>10 DEF Max2
<1>13. ASSUME NEW i \in 1..Len(ops) PROVE View(r)[v + i] = ops[i]
  <2>1. PICK k \in Nat : k = Len(ops) /\ i \in 1..k
    OBVIOUS
  <2>2. pos + i \in 1..Len(log) /\ v + i = a + (pos + i) /\ v + i \in 1..(v + k)
    BY <1>2, <1>5, <2>1
  <2>3. PICK j \in 1..Len(log) : j = pos + i /\ v + i = a + j
    BY <2>2
  <2>4. H[a + j] = log[j].op
    BY <1>4 DEF LogFits
  <2>5. log[j] = Sealed(v + 1, ops)[i]
    BY <1>2, <1>3, <2>3
  <2>6. Sealed(v + 1, ops)[i].op = ops[i]
    BY SealedIs
  <2>7. View(r)[v + i] = H[v + i]
    BY <1>10, <1>12, <2>1, <2>2 DEF Begins
  <2> QED
    BY <2>3, <2>4, <2>5, <2>6, <2>7
<1> QED
  BY <1>1, <1>3, <1>10, <1>11, <1>12, <1>13 DEF Full, OpenOK

\* The stamp moves on with the record.
LEMMA OwnStamp ==
  ASSUME NEW b \in BaseFile, NEW w \in WalFile, FilesOK(b, w), NEW g \in Generation,
         NEW s \in Seen, s.stamp # None, s.stamp \in Stamp, s.stamp.wal \in WalId,
         SeenOK(b, w, g, s), NEW x, NEW ops \in Seq(Ops), LockOK(b, w, "written", g, x, s, ops),
         NEW r, Full(r, b, w),
         NEW s2, s2 = [s EXCEPT !.pos = s.pos + Len(ops), !.stamp = [s.stamp EXCEPT !.wal =
                         [s.stamp.wal EXCEPT !.len = s.stamp.wal.len + OpLen * Len(ops)]]]
  PROVE  SeenOK(b, w, r, s2)
<1>1. PICK k \in Nat, pos \in Nat, len \in Nat :
        k = Len(ops) /\ pos = s.pos /\ len = s.stamp.wal.len
  BY DEF Seen, WalId
<1>2. PICK id \in WalId : /\ id = [s.stamp.wal EXCEPT !.len = len + OpLen * k]
                          /\ id.ino = s.stamp.wal.ino /\ id.len = len + OpLen * k
  <2>1. PICK m \in Nat : m = len + OpLen * k
    <3>1. PICK o \in Nat : o = OpLen
      BY ConstantsOK
    <3>2. PICK z \in Nat : z = o * k
      OBVIOUS
    <3>3. len + z \in Nat
      OBVIOUS
    <3> QED
      BY <3>1, <3>2, <3>3
  <2>2. /\ [s.stamp.wal EXCEPT !.len = m] \in WalId
        /\ [s.stamp.wal EXCEPT !.len = m].ino = s.stamp.wal.ino
        /\ [s.stamp.wal EXCEPT !.len = m].len = m
    BY <2>1 DEF WalId
  <2> QED
    BY <2>1, <2>2
<1>3. PICK st \in Stamp : st = [s.stamp EXCEPT !.wal = id] /\ st.wal = id /\ st.base = s.stamp.base
  <2>1. /\ [s.stamp EXCEPT !.wal = id] \in Stamp /\ [s.stamp EXCEPT !.wal = id].wal = id
        /\ [s.stamp EXCEPT !.wal = id].base = s.stamp.base
    BY DEF Stamp
  <2> QED
    BY <2>1
<1>4. s2 = [s EXCEPT !.pos = pos + k, !.stamp = st]
  <2>1. [s.stamp.wal EXCEPT !.len = s.stamp.wal.len + OpLen * Len(ops)] = id
    BY <1>1, <1>2
  <2>2. [s.stamp EXCEPT !.wal = [s.stamp.wal EXCEPT !.len = s.stamp.wal.len + OpLen * Len(ops)]] = st
    BY <1>3, <2>1
  <2> QED
    BY <1>1, <2>2
<1>5. s2.pos = pos + k /\ s2.stamp = st /\ s2.current = s.current
  BY <1>4 DEF Seen
<1>6. w.gen = b.gen /\ Names(s.stamp, b, w) /\ Len(w.log) = pos + k
  BY <1>1 DEF LockOK, Appending
<1>7. (s.current <=> w.gen = b.gen) /\ (s.current => LenUpTo(len, pos))
  BY <1>1, <1>6 DEF SeenOK
<1>8. Reached(r, w.log, Len(w.log)) /\ b.applied <= Len(View(r))
  BY FullReached
<1>9. LenUpTo(len + OpLen * k, pos + k)
  <2>1. PICK l \in 0..pos, t \in {0} \cup TornLens : len = OpLen * l + t
    BY <1>6, <1>7 DEF LenUpTo
  <2>2. l + k \in 0..(pos + k) /\ l \in Nat
    OBVIOUS
  <2>3. OpLen \in Nat /\ t \in Nat
    BY ConstantsOK
  <2>4. OpLen * l + t + OpLen * k = OpLen * (l + k) + t
    BY <2>2, <2>3
  <2> QED
    BY <2>1, <2>2, <2>4 DEF LenUpTo
<1>10. b.gen \in Nat
  BY DEF BaseFile
<1> QED
  BY <1>2, <1>3, <1>5, <1>6, <1>7, <1>8, <1>9, <1>10 DEF SeenOK, Names

\* The commit returns Ok: its record is published and the stamp moved on.
LEMMA AppendOkIs ==
  ASSUME StoreInv, HistInv, NEW h \in Handles, AppendOk(h)
  PROVE  /\ pc[h] = "written" /\ pc'[h] \in {"idle", "fold"}
         /\ UNCHANGED <<base, probe>> /\ wal' \in WalFile
         /\ wal' = IF SyncDue(h) THEN [wal EXCEPT !.synced = Len(wal.log)] ELSE wal
         /\ Rests(base, wal, base, wal')
         /\ Full(served'[h], base, wal') /\ nextSeq'[h] = Len(View(served'[h])) + 1
         /\ Len(View(served'[h])) = Len(View(served[h])) + Len(staged[h])
         /\ \A i \in 1..Len(staged[h]) :
              View(served'[h])[Len(View(served[h])) + i] = staged[h][i]
         /\ SeenOK(base, wal', served'[h], seen'[h])
         /\ Elsewhere(h)
<1>1. /\ pc[h] = "written"
      /\ wal' = IF SyncDue(h) THEN [wal EXCEPT !.synced = Len(wal.log)] ELSE wal
      /\ served' = [served EXCEPT ![h] = Publish(served[h], Sealed(nextSeq[h], staged[h]))]
      /\ nextSeq' = [nextSeq EXCEPT ![h] = nextSeq[h] + Len(Sealed(nextSeq[h], staged[h]))]
      /\ staged' = [staged EXCEPT ![h] = <<>>]
      /\ UNCHANGED <<base, probe>>
      /\ pc' = [pc EXCEPT ![h] = "idle"] \/ pc' = [pc EXCEPT ![h] = "fold"]
  BY DEF AppendOk, Return, Goto
<1>2. pc[h] \in UnderLock \ {"create_base"}
  BY <1>1 DEF UnderLock, Appending
<1>3. /\ base \in BaseFile /\ wal \in WalFile /\ served[h] \in Generation /\ nextSeq[h] \in Nat
      /\ seen[h] \in Seen /\ staged[h] \in Seq(Ops) /\ probe[h] \in Probe
      /\ FilesOK(base, wal) /\ served[h] # None /\ OpenOK(base, wal, served[h], nextSeq[h])
      /\ SeenOK(base, wal, served[h], seen[h])
      /\ LockOK(base, wal, "written", served[h], nextSeq[h], seen[h], staged[h])
  BY <1>1, <1>2, HolderIs
<1>4. seen[h].stamp # None /\ seen[h].stamp \in Stamp /\ seen[h].stamp.wal \in WalId
  BY <1>1 DEF StoreInv, TypeOK, Defined, Appending, Seen, Stamp
<1>5. Len(Sealed(nextSeq[h], staged[h])) = Len(staged[h]) /\ nextSeq[h] = Len(View(served[h])) + 1
  <2>1. nextSeq[h] = Len(View(served[h])) + 1
    BY <1>3 DEF OpenOK
  <2>2. View(served[h]) \in Seq(Ops)
    BY <1>3, ViewIs
  <2>3. Len(View(served[h])) \in Nat
    BY <2>2
  <2> QED
    BY <1>3, <2>1, <2>3, SealedIs
<1> DEFINE n  == Len(staged[h])
           id == [seen[h].stamp.wal EXCEPT !.len = seen[h].stamp.wal.len + OpLen * n]
           st == [seen[h].stamp EXCEPT !.wal = id]
           s  == [seen[h] EXCEPT !.pos = seen[h].pos + n, !.stamp = st]
<1>6. seen' = [seen EXCEPT ![h] = s]
  <2>1. seen' = [seen EXCEPT ![h] = [seen[h] EXCEPT !.pos = @ + Len(Sealed(nextSeq[h], staged[h])),
                    !.stamp.wal.len = @ + OpLen * Len(Sealed(nextSeq[h], staged[h]))]]
    BY DEF AppendOk, StoreInv, TypeOK, Seen
  <2>2. seen' = [seen EXCEPT ![h] = [seen[h] EXCEPT !.pos = @ + n, !.stamp.wal.len = @ + OpLen * n]]
    BY <1>5, <2>1
  <2> QED
    BY <1>3, <2>2 DEF Seen
<1>7. PICK r \in Generation, k \in Nat :
        /\ r = Publish(served[h], Sealed(nextSeq[h], staged[h])) /\ k = n
        /\ Full(r, base, wal) /\ Len(View(r)) = Len(View(served[h])) + n
        /\ \A i \in 1..n : View(r)[Len(View(served[h])) + i] = staged[h][i]
  <2>1. /\ Full(Publish(served[h], Sealed(nextSeq[h], staged[h])), base, wal)
        /\ Len(View(Publish(served[h], Sealed(nextSeq[h], staged[h])))) = Len(View(served[h])) + n
        /\ \A i \in 1..n : View(Publish(served[h], Sealed(nextSeq[h], staged[h])))
                              [Len(View(served[h])) + i] = staged[h][i]
    BY <1>3, OwnRecord
  <2>2. n \in Nat
    BY <1>3
  <2> QED
    BY <2>1, <2>2 DEF Full
<1>8. SeenOK(base, wal, r, s)
  BY <1>3, <1>4, <1>7, OwnStamp
<1> HIDE DEF s, n
<1>9. wal' \in WalFile /\ Rests(base, wal, base, wal')
  <2>1. PICK w \in WalFile, m \in Nat : w = wal /\ m = Len(wal.log)
    BY <1>3 DEF WalFile
  <2>2. /\ [w EXCEPT !.synced = m] \in WalFile
        /\ [w EXCEPT !.synced = m].synced = m /\ [w EXCEPT !.synced = m].log = w.log
        /\ [w EXCEPT !.synced = m].ino = w.ino /\ [w EXCEPT !.synced = m].gen = w.gen
        /\ [w EXCEPT !.synced = m].torn = w.torn
    BY DEF WalFile
  <2>3. w.synced <= m /\ w.synced <= w.synced /\ m <= m /\ w.torn \in {0} \cup TornLens
    BY <1>3, <2>1 DEF FilesOK, WalFile
  <2> QED
    BY <1>1, <2>1, <2>2, <2>3 DEF Rests
<1>10. Moves(base, wal, base, wal') /\ History(base, wal') = History(base, wal)
  BY <1>3, <1>9, RestedFiles DEF Moves
<1>11. Full(r, base, wal')
  BY <1>7, <1>10 DEF Full, OpenOK
<1>12. SeenOK(base, wal', r, s)
  BY <1>8, <1>9 DEF SeenOK, Rests, Names
<1>13. served'[h] = r /\ seen'[h] = s /\ nextSeq'[h] = nextSeq[h] + Len(staged[h])
       /\ pc'[h] \in {"idle", "fold"}
  BY <1>1, <1>5, <1>6, <1>7 DEF StoreInv, TypeOK
<1>14. nextSeq'[h] = Len(View(r)) + 1
  <2>1. View(served[h]) \in Seq(Ops)
    BY <1>3, ViewIs
  <2>2. Len(View(served[h])) \in Nat /\ Len(staged[h]) \in Nat
    BY <1>3, <2>1
  <2>3. Len(View(r)) = Len(View(served[h])) + Len(staged[h])
    BY <1>7 DEF n
  <2>4. nextSeq'[h] = (Len(View(served[h])) + 1) + Len(staged[h])
    BY <1>5, <1>13
  <2>5. PICK i \in Nat, j \in Nat : i = Len(View(served[h])) /\ j = Len(staged[h])
    BY <2>2
  <2>6. nextSeq'[h] = (i + 1) + j
    BY <2>4, <2>5
  <2>7. Len(View(r)) = i + j
    BY <2>3, <2>5
  <2>8. (i + 1) + j = (i + j) + 1
    OBVIOUS
  <2> QED
    BY <2>6, <2>7, <2>8
<1>15. Elsewhere(h)
  BY <1>1, <1>6 DEF StoreInv, TypeOK, Elsewhere
<1> QED
  BY <1>1, <1>7, <1>9, <1>11, <1>12, <1>13, <1>14, <1>15 DEF n

LEMMA AppendOkHist ==
  ASSUME Sheltered, StoreInv, HistInv, NEW h \in Handles, AppendOk(h)
  PROVE  HistInv' /\ Moves(base, wal, base', wal')
<1>1. /\ pc[h] = "written" /\ pc'[h] \in {"idle", "fold"}
      /\ UNCHANGED <<base, probe>> /\ wal' \in WalFile
      /\ Rests(base, wal, base, wal')
      /\ Full(served'[h], base, wal') /\ nextSeq'[h] = Len(View(served'[h])) + 1
      /\ SeenOK(base, wal', served'[h], seen'[h]) /\ Elsewhere(h)
  BY AppendOkIs
<1>2. pc[h] \in UnderLock \ {"create_base"}
  BY <1>1 DEF UnderLock, Appending
<1>3. /\ base \in BaseFile /\ wal \in WalFile /\ FilesOK(base, wal)
      /\ wal.gen = base.gen /\ wal.torn = 0
  BY <1>1, <1>2, HolderIs DEF LockOK, Appending
<1>4. wal'.gen = base.gen /\ wal'.torn = 0
  <2>1. wal' = wal \/ wal' = [wal EXCEPT !.synced = Len(wal.log)]
    BY DEF AppendOk
  <2> QED
    BY <1>3, <2>1 DEF WalFile
<1>5. HandleOK(base, wal', "idle", served'[h], nextSeq'[h], seen'[h], probe[h], staged'[h])
  BY <1>1, IdleOK DEF Full
<1>6. HandleOK(base, wal', "fold", served'[h], nextSeq'[h], seen'[h], probe[h], staged'[h])
  BY <1>1, <1>4 DEF HandleOK, LiveOK, LiveAt, ProbeOK, LockOK, Full, Closed, Loading, Appending
<1>7. HandleInv(h)'
  BY <1>1, <1>5, <1>6 DEF HandleInv
<1>8. Renews(base, wal, base', wal') => MayReplaceLog
  <2>1. base.gen \in Nat
    BY <1>3 DEF BaseFile
  <2> QED
    BY <1>3, <2>1 DEF Renews
<1>9. Moves(base, wal, base', wal') /\ base' \in BaseFile
  BY <1>1, <1>3 DEF Moves
<1> QED
  BY <1>1, <1>2, <1>7, <1>8, <1>9, HolderStep

\* The base a handle renders that serves all there is: the history.
LEMMA FoldHist ==
  ASSUME Sheltered, StoreInv, HistInv, NEW h \in Handles, Fold(h)
  PROVE  HistInv' /\ Moves(base, wal, base', wal')
<1>1. /\ pc[h] = "fold" /\ pc' = [pc EXCEPT ![h] = "swap"]
      /\ base' = FoldedBase(h, served[h])
      /\ UNCHANGED <<wal, served, seen, nextSeq, staged, probe>>
  BY DEF Fold, Goto, batch
<1>2. pc[h] \in UnderLock \ {"create_base"}
  BY <1>1 DEF UnderLock
<1>3. /\ base \in BaseFile /\ wal \in WalFile /\ served[h] \in Generation /\ nextSeq[h] \in Nat
      /\ seen[h] \in Seen /\ staged[h] \in Seq(Ops) /\ probe[h] \in Probe
      /\ FilesOK(base, wal) /\ served[h] # None /\ OpenOK(base, wal, served[h], nextSeq[h])
      /\ SeenOK(base, wal, served[h], seen[h])
      /\ Known(base, pc[h], seen[h], probe[h])
      /\ LockOK(base, wal, "fold", served[h], nextSeq[h], seen[h], staged[h])
  BY <1>1, <1>2, HolderIs
<1>4. /\ FoldedBase(h, served[h]) \in BaseFile
      /\ FoldedBase(h, served[h]).gen = NewGeneration(h) /\ base.gen < NewGeneration(h)
  BY <1>1, FoldedBaseType
<1>5. PICK b \in BaseFile : b = base'
  BY <1>1, <1>4
<1>6. wal.gen = base.gen /\ Len(View(served[h])) = Len(History(base, wal))
  BY <1>3 DEF LockOK
<1>7. View(served[h]) = History(base, wal)
  <2>1. View(served[h]) \in Seq(Ops) /\ History(base, wal) \in Seq(Ops)
    BY <1>3, ViewIs, BuildIs DEF FilesOK
  <2>2. Begins(View(served[h]), History(base, wal))
    BY <1>3 DEF OpenOK
  <2> QED
    BY <1>6, <2>1, <2>2, BeginsAll
<1>8. b.ops = History(base, wal) /\ b.applied = Len(History(base, wal)) /\ base.gen < b.gen
  <2>1. b.ops = View(served[h]) /\ b.applied = nextSeq[h] - 1
    BY <1>1, <1>5 DEF FoldedBase
  <2>2. nextSeq[h] = Len(History(base, wal)) + 1
    BY <1>3, <1>6 DEF OpenOK
  <2>3. History(base, wal) \in Seq(Ops)
    BY <1>3, BuildIs DEF FilesOK
  <2>4. Len(History(base, wal)) \in Nat
    BY <2>3
  <2> QED
    BY <1>1, <1>4, <1>5, <1>7, <2>1, <2>2, <2>4
<1>9. Folds(base, wal, b, wal)
  BY <1>6, <1>8 DEF Folds
<1>10. Moves(base, wal, b, wal) /\ History(b, wal) = History(base, wal)
  BY <1>3, <1>9, FoldedFiles DEF Moves
<1>11. OpenOK(b, wal, served[h], nextSeq[h]) /\ SeenOK(b, wal, served[h], seen[h])
  BY <1>3, <1>10, OpenMoved, SeenMoved
<1>12. LockOK(b, wal, "swap", served[h], nextSeq[h], seen[h], staged[h])
  BY <1>6, <1>8, <1>10 DEF LockOK, Appending
<1>13. HandleOK(b, wal, "swap", served[h], nextSeq[h], seen[h], probe[h], staged[h])
  BY <1>3, <1>11, <1>12 DEF HandleOK, LiveOK, LiveAt, ProbeOK, Closed, Loading
<1>14. Elsewhere(h) /\ pc'[h] = "swap"
  BY <1>1 DEF Elsewhere, StoreInv, TypeOK
<1>15. HandleInv(h)'
  BY <1>1, <1>5, <1>13, <1>14 DEF HandleInv
<1>16. Renews(base, wal, base', wal') => MayReplaceLog
  <2>1. base.gen \in Nat
    BY <1>3 DEF BaseFile
  <2> QED
    BY <1>6, <2>1 DEF Renews
<1> QED
  BY <1>1, <1>2, <1>3, <1>5, <1>10, <1>14, <1>15, <1>16, HolderStep

\* The fresh log; the new generation is served, or the old one goes on being.
LEMMA SwapHist ==
  ASSUME Sheltered, StoreInv, HistInv, NEW h \in Handles, Swap(h)
  PROVE  HistInv' /\ Moves(base, wal, base', wal')
<1>1. /\ pc[h] = "swap" /\ MayReplaceLog /\ pc' = [pc EXCEPT ![h] = "idle"]
      /\ wal' = FreshWal(wal, base.gen)
      /\ nextSeq' = [nextSeq EXCEPT ![h] = base.applied + 1]
      /\ UNCHANGED <<base, staged, probe>>
  BY DEF Swap, Return, Goto
<1>2. pc[h] \in UnderLock \ {"create_base"}
  BY <1>1 DEF UnderLock
<1>3. /\ base \in BaseFile /\ wal \in WalFile /\ served[h] \in Generation /\ nextSeq[h] \in Nat
      /\ FilesOK(base, wal) /\ served[h] # None /\ OpenOK(base, wal, served[h], nextSeq[h])
      /\ LockOK(base, wal, "swap", served[h], nextSeq[h], seen[h], staged[h])
  BY <1>1, <1>2, HolderIs
<1>4. wal.gen < base.gen /\ Len(View(served[h])) = Len(History(base, wal))
  BY <1>3 DEF LockOK
<1>5. PICK w \in WalFile : w = wal'
  BY <1>1, <1>3, FreshWalType DEF BaseFile
<1>6. Renews(base, wal, base, w)
  BY <1>1, <1>4, <1>5 DEF Renews
<1>7. /\ FilesOK(base, w) /\ History(base, w) = History(base, wal) /\ w.gen = base.gen
      /\ w.log = <<>>
  BY <1>3, <1>6, RenewedFiles
<1>8. Moves(base, wal, base, w)
  BY <1>6 DEF Moves
<1>9. Len(History(base, w)) = base.applied
  <2>1. Len(History(base, w)) = base.applied + Len(w.log)
    BY <1>3, <1>7, BuildIs DEF FilesOK
  <2>2. Len(w.log) = 0 /\ base.applied \in Nat
    BY <1>3, <1>7 DEF BaseFile
  <2> QED
    BY <2>1, <2>2
<1>10. nextSeq'[h] = base.applied + 1 /\ pc'[h] = "idle"
  BY <1>1 DEF StoreInv, TypeOK
<1>11. CASE /\ served' = [served EXCEPT ![h] = Build(base, wal')]
            /\ seen' = [seen EXCEPT ![h] = SeenOf(StampOf(base, wal'), base, wal')]
  <2>1. served'[h] = Build(base, w) /\ seen'[h] = SeenOf(StampOf(base, w), base, w) /\ Elsewhere(h)
    BY <1>1, <1>5, <1>11 DEF StoreInv, TypeOK, Elsewhere
  <2>2. MapFits(base, base, w) /\ base.gen <= base.gen /\ w.gen <= base.gen
    BY <1>3, <1>7, BaseFits DEF BaseFile
  <2>3. Full(Build(base, w), base, w)
    BY <1>3, <1>7, <2>2, BuildFull
  <2>4. PICK st \in Stamp : st = StampOf(base, w) /\ st.base <= base.gen /\ StampFits(st, base, w)
    <3>1. StampOf(base, w) \in Stamp /\ StampOf(base, w).base = base.gen
      BY <1>3, StampOfType
    <3>2. StampFits(StampOf(base, w), base, w)
      BY <1>3, <1>7, StampIs DEF StampOf
    <3> QED
      BY <2>2, <3>1, <3>2
  <2>5. SeenOK(base, w, Build(base, w), SeenOf(st, base, w))
    BY <1>3, <1>7, <2>2, <2>3, <2>4, SeenFull
  <2>6. OpenOK(base, w, Build(base, w), base.applied + 1) /\ Build(base, w) # None
    BY <1>9, <2>3 DEF Full
  <2>7. HandleOK(base, w, "idle", Build(base, w), base.applied + 1,
                 SeenOf(st, base, w), probe[h], staged[h])
    BY <2>5, <2>6, IdleOK
  <2>8. HandleInv(h)'
    BY <1>1, <1>5, <1>10, <2>1, <2>4, <2>7 DEF HandleInv
  <2> QED
    BY <1>1, <1>2, <1>3, <1>5, <1>8, <2>1, <2>8, HolderStep
<1>12. CASE seen' = [seen EXCEPT ![h] = NothingSeen] /\ UNCHANGED served
  <2>1. served'[h] = served[h] /\ seen'[h] = NothingSeen /\ Elsewhere(h)
    BY <1>1, <1>12 DEF StoreInv, TypeOK, Elsewhere
  <2>2. OpenOK(base, w, served[h], base.applied + 1)
    <3>1. nextSeq[h] = base.applied + 1
      BY <1>3, <1>4, <1>7, <1>9 DEF OpenOK
    <3>2. OpenOK(base, w, served[h], nextSeq[h])
      BY <1>3, <1>8, OpenMoved
    <3> QED
      BY <3>1, <3>2
  <2>3. SeenOK(base, w, served[h], NothingSeen)
    BY DEF SeenOK, NothingSeen
  <2>4. HandleOK(base, w, "idle", served[h], base.applied + 1, NothingSeen, probe[h], staged[h])
    BY <1>3, <2>2, <2>3, IdleOK
  <2>5. HandleInv(h)'
    BY <1>1, <1>5, <1>10, <2>1, <2>4 DEF HandleInv
  <2> QED
    BY <1>1, <1>2, <1>3, <1>5, <1>8, <2>1, <2>5, HolderStep
<1> QED
  BY <1>11, <1>12 DEF Swap

\* A process dies.
LEMMA CrashHist ==
  ASSUME HistInv, StoreInv, NEW h \in Handles, Crash(h)
  PROVE  HistInv'
<1>1. /\ UNCHANGED files
      /\ pc' = [pc EXCEPT ![h] = "closed"] /\ served' = [served EXCEPT ![h] = None]
      /\ seen' = [seen EXCEPT ![h] = NothingSeen] /\ nextSeq' = [nextSeq EXCEPT ![h] = 0]
      /\ staged' = [staged EXCEPT ![h] = <<>>] /\ probe' = [probe EXCEPT ![h] = NoProbe]
  BY DEF Crash, Forget
<1>2. Elsewhere(h)
  BY <1>1 DEF Elsewhere, StoreInv, TypeOK
<1>3. pc'[h] \in Closed /\ served'[h] = None /\ seen'[h].stamp = None
  BY <1>1 DEF StoreInv, TypeOK, Closed, NothingSeen
<1>4. HandleOK(base', wal', pc'[h], served'[h], nextSeq'[h], seen'[h], probe'[h], staged'[h])
  BY <1>3, ClosedOK
<1>5. HandleInv(h)'
  BY <1>4 DEF HandleInv
<1> QED
  BY <1>1, <1>2, <1>5, StillStep

\* The end of the log that was not synced is gone, whole records of it.
LEMMA CutFiles ==
  ASSUME NEW b \in BaseFile, NEW w \in WalFile, FilesOK(b, w), NEW n \in Nat, w.synced <= n,
         AtBoundary(w.log, n), NEW t \in {0} \cup TornLens,
         NEW w2 \in WalFile, w2.log = SubSeq(w.log, 1, n), w2.torn = t,
         w2.gen = w.gen, w2.synced = w.synced
  PROVE  /\ FilesOK(b, w2) /\ Safe(b, w2) = Safe(b, w)
         /\ Safe(b, w) <= Len(History(b, w2)) /\ Safe(b, w) <= Len(History(b, w))
         /\ \A i \in 1..Safe(b, w) : History(b, w2)[i] = History(b, w)[i]
<1>1. PICK log \in Seq(Entry), a \in Nat, c \in Nat, m \in Nat :
        log = w.log /\ a = b.applied /\ c = w.synced /\ m = n /\ c <= m /\ m <= Len(log)
  BY DEF WalFile, BaseFile, AtBoundary
<1>2. PICK cut \in Seq(Entry) :
        /\ cut = SubSeq(log, 1, m) /\ Len(cut) = m /\ \A i \in 1..m : cut[i] = log[i]
  <2>1. \A i \in 1..m : log[i] \in Entry
    BY <1>1
  <2>2. SubSeq(log, 1, m) \in Seq(Entry)
    BY <1>1, <2>1
  <2>3. Len(SubSeq(log, 1, m)) = m /\ \A i \in 1..m : SubSeq(log, 1, m)[i] = log[i]
    BY <1>1
  <2> QED
    BY <2>2, <2>3
<1>3. w2.log = cut /\ w2.torn = t /\ w2.gen = w.gen /\ w2.synced = c
  BY <1>1, <1>2
<1>4. /\ b.applied = Len(b.ops) /\ w.gen <= b.gen /\ (w.gen = b.gen => Dense(log, a))
      /\ log # <<>> => log[Len(log)].end
  BY <1>1 DEF FilesOK
<1>5. w.gen = b.gen => Dense(cut, a)
  BY <1>1, <1>2, <1>4 DEF Dense
<1>6. cut # <<>> => cut[Len(cut)].end
  <2> SUFFICES ASSUME cut # <<>> PROVE cut[Len(cut)].end
    OBVIOUS
  <2>1. m > 0 /\ m \in 1..m
    BY <1>2
  <2>2. log[m].end
    BY <1>1, <2>1 DEF AtBoundary
  <2> QED
    BY <1>2, <2>1, <2>2
<1>7. PICK H \in Seq(Ops), H2 \in Seq(Ops) : H = History(b, w) /\ H2 = History(b, w2)
  BY <1>1, <1>3, <1>4, <1>5, BuildIs
<1>8. CASE w.gen = b.gen
  <2>1. /\ Len(H) = a + Len(log) /\ \A i \in 1..Len(log) : H[a + i] = log[i].op
        /\ \A i \in 1..a : H[i] = b.ops[i]
    BY <1>1, <1>4, <1>7, <1>8, BuildIs
  <2>2. /\ Len(H2) = a + m /\ \A i \in 1..m : H2[a + i] = cut[i].op
        /\ \A i \in 1..a : H2[i] = b.ops[i]
    <3>1. w2.gen = b.gen /\ Dense(w2.log, b.applied)
      BY <1>1, <1>3, <1>5, <1>8
    <3>2. /\ Len(H2) = b.applied + Len(w2.log)
          /\ \A i \in 1..Len(w2.log) : H2[b.applied + i] = w2.log[i].op
          /\ \A i \in 1..b.applied : H2[i] = b.ops[i]
      BY <1>4, <1>7, <3>1, BuildIs
    <3> QED
      BY <1>1, <1>2, <1>3, <3>2
  <2>3. Safe(b, w) = a + c /\ Safe(b, w2) = a + c
    BY <1>1, <1>3, <1>8 DEF Safe
  <2>4. ASSUME NEW i \in 1..(a + c) PROVE H2[i] = H[i]
    <3>1. CASE i <= a
      BY <2>1, <2>2, <3>1
    <3>2. CASE i > a
      <4>0. PICK l \in Nat : l = Len(log) /\ c <= m /\ m <= l
        BY <1>1
      <4>1. i - a \in 1..m /\ i - a \in 1..Len(log) /\ i = a + (i - a)
        BY <3>2, <4>0
      <4>2. PICK j \in 1..m : j \in 1..Len(log) /\ i = a + j
        BY <4>1
      <4> QED
        BY <1>2, <2>1, <2>2, <4>2
    <3> QED
      BY <3>1, <3>2
  <2>5. LogFits(cut, a, H2) /\ a <= Len(H2)
    BY <1>2, <1>5, <1>8, <2>2 DEF LogFits
  <2>6. FilesOK(b, w2)
    BY <1>1, <1>2, <1>3, <1>4, <1>5, <1>6, <1>7, <2>5 DEF FilesOK
  <2>7. a + c <= Len(H) /\ a + c <= Len(H2)
    BY <1>1, <2>1, <2>2
  <2> QED
    BY <1>7, <2>3, <2>4, <2>6, <2>7
<1>9. CASE w.gen # b.gen
  <2>1. H = b.ops /\ H2 = b.ops /\ Len(H) = a
    BY <1>1, <1>3, <1>4, <1>7, <1>9, BuildIs
  <2>2. Safe(b, w) = a /\ Safe(b, w2) = a
    BY <1>1, <1>3, <1>9 DEF Safe
  <2>3. PICK k \in Nat : k <= Len(H) /\ LogFits(log, k, H)
    BY <1>1, <1>7 DEF FilesOK
  <2>4. LogFits(cut, k, H2) /\ k <= Len(H2)
    <3>1. /\ \A i \in 1..Len(log) : log[i].seq = k + i /\ log[i].op = H[k + i]
          /\ k + Len(log) <= Len(H)
      BY <2>3 DEF LogFits, Dense
    <3>2. \A i \in 1..Len(cut) : cut[i].seq = k + i /\ cut[i].op = H2[k + i]
      BY <1>1, <1>2, <2>1, <3>1
    <3>3. k + Len(cut) <= Len(H2)
      BY <1>1, <1>2, <2>1, <3>1
    <3> QED
      BY <2>1, <2>3, <3>2, <3>3 DEF LogFits, Dense
  <2>5. FilesOK(b, w2)
    BY <1>1, <1>2, <1>3, <1>4, <1>5, <1>6, <1>7, <2>4 DEF FilesOK
  <2> QED
    BY <1>7, <2>1, <2>2, <2>5
<1> QED
  BY <1>8, <1>9

\* Power goes.
LEMMA PowerLossHist ==
  ASSUME StoreInv, HistInv, PowerLoss
  PROVE  /\ HistInv'
         /\ base # None => /\ Safe(base, wal') = Safe(base, wal)
                           /\ Safe(base, wal) <= Len(History(base, wal'))
                           /\ Safe(base, wal) <= Len(History(base, wal))
                           /\ \A i \in 1..Safe(base, wal) : History(base, wal')[i] = History(base, wal)[i]
<1>1. /\ base' = base /\ wal # None
      /\ pc' = [h \in Handles |-> "closed"] /\ served' = [h \in Handles |-> None]
      /\ seen' = [h \in Handles |-> NothingSeen]
  BY DEF PowerLoss
<1>2. ASSUME NEW k \in Handles PROVE HandleInv(k)'
  <2>1. pc'[k] \in Closed /\ served'[k] = None /\ seen'[k].stamp = None
    BY <1>1 DEF Closed, NothingSeen
  <2>2. HandleOK(base', wal', pc'[k], served'[k], nextSeq'[k], seen'[k], probe'[k], staged'[k])
    BY <2>1, ClosedOK
  <2> QED
    BY <2>2 DEF HandleInv
<1>3. PICK n \in wal.synced..Len(wal.log), t \in {0} \cup TornLens :
        /\ AtBoundary(wal.log, n) /\ (t > 0 => n < Len(wal.log) \/ wal.torn > 0)
        /\ wal' = [wal EXCEPT !.log = SubSeq(wal.log, 1, n), !.torn = t]
  BY DEF PowerLoss
<1>4. wal \in WalFile
  BY <1>1 DEF StoreInv, TypeOK
<1>5. CASE base = None
  <2>1. wal.log = <<>> /\ wal.torn = 0 /\ wal.synced = 0
    BY <1>1, <1>5 DEF HistInv, FilesInv
  <2>2. n = 0
    BY <1>3, <2>1
  <2>3. t = 0
    <3>1. t \in Nat /\ Len(wal.log) = 0
      BY <2>1, ConstantsOK
    <3> QED
      BY <1>3, <2>1, <2>2, <3>1
  <2>4. wal'.log = SubSeq(wal.log, 1, 0) /\ wal'.torn = 0 /\ wal'.synced = 0
    BY <1>3, <1>4, <2>1, <2>2, <2>3 DEF WalFile
  <2>5. wal'.log = <<>>
    BY <2>1, <2>4
  <2> QED
    BY <1>1, <1>2, <1>5, <2>4, <2>5 DEF HistInv, FilesInv
<1>6. CASE base # None
  <2>1. base \in BaseFile /\ FilesOK(base, wal)
    BY <1>6, FilesThere DEF HistInv, FilesInv
  <2>2. wal' \in WalFile
    <3>1. StoreInv' /\ base' # None
      BY <1>1, <1>6, PowerLossInv
    <3> QED
      BY <3>1 DEF StoreInv, TypeOK, Defined
  <2>3. /\ FilesOK(base, wal') /\ Safe(base, wal') = Safe(base, wal)
        /\ Safe(base, wal) <= Len(History(base, wal'))
        /\ Safe(base, wal) <= Len(History(base, wal))
        /\ \A i \in 1..Safe(base, wal) : History(base, wal')[i] = History(base, wal)[i]
    <3>1. PICK b \in BaseFile, w \in WalFile, w2 \in WalFile : b = base /\ w = wal /\ w2 = wal'
      BY <1>4, <2>1, <2>2
    <3>2. /\ FilesOK(b, w) /\ n \in Nat /\ w.synced <= n /\ AtBoundary(w.log, n)
          /\ w2.log = SubSeq(w.log, 1, n) /\ w2.torn = t /\ w2.gen = w.gen /\ w2.synced = w.synced
      BY <1>3, <2>1, <3>1 DEF WalFile
    <3>3. /\ FilesOK(b, w2) /\ Safe(b, w2) = Safe(b, w)
          /\ Safe(b, w) <= Len(History(b, w2)) /\ Safe(b, w) <= Len(History(b, w))
          /\ \A i \in 1..Safe(b, w) : History(b, w2)[i] = History(b, w)[i]
      BY <3>2, CutFiles
    <3> QED
      BY <3>1, <3>3
  <2> QED
    BY <1>1, <1>2, <1>6, <2>3 DEF HistInv, FilesInv
<1> QED
  BY <1>5, <1>6

----------------------------------------------------------------------------
(* HistInv is an invariant of the sheltered store. *)

LEMMA InitHist ==
  ASSUME Init
  PROVE  HistInv
<1>1. ASSUME NEW k \in Handles PROVE HandleInv(k)
  <2>1. pc[k] \in Closed /\ served[k] = None /\ seen[k].stamp = None
    BY DEF Init, Closed, NothingSeen
  <2> QED
    BY <2>1, ClosedOK DEF HandleInv
<1>2. FilesInv
  <2>1. CASE Fresh
    BY <2>1 DEF Init, FilesInv
  <2>2. CASE ~Fresh
    <3>1. PICK b \in BaseFile, w \in WalFile :
            /\ b = base /\ w = wal /\ b.gen = 1 /\ b.applied = 0 /\ b.ops = <<>>
            /\ w.gen = 1 /\ w.log = <<>> /\ w.torn = 0 /\ w.synced = 0
      <4>1. /\ EmptyBase \in BaseFile /\ EmptyBase.gen = 1 /\ EmptyBase.applied = 0
            /\ EmptyBase.ops = <<>>
        BY DEF EmptyBase, BaseFile
      <4>2. /\ FreshWal(None, 1) \in WalFile /\ FreshWal(None, 1).gen = 1
            /\ FreshWal(None, 1).log = <<>> /\ FreshWal(None, 1).torn = 0
            /\ FreshWal(None, 1).synced = 0
        BY FreshWalType DEF FreshWal
      <4> QED
        BY <2>2, <4>1, <4>2 DEF Init
    <3>2. Len(b.ops) = 0 /\ Len(w.log) = 0
      BY <3>1
    <3>3. Dense(w.log, 0)
      BY <3>2 DEF Dense
    <3>4. History(b, w) \in Seq(Ops) /\ Len(History(b, w)) = 0 + 0
      BY <3>1, <3>2, <3>3, BuildIs
    <3>5. LogFits(w.log, 0, History(b, w)) /\ 0 <= Len(History(b, w))
      BY <3>2, <3>3, <3>4 DEF LogFits
    <3>6. FilesOK(b, w)
      BY <3>1, <3>2, <3>3, <3>5 DEF FilesOK
    <3>7. base # None
      BY <3>1, NoneIsNoRecord
    <3> QED
      BY <3>1, <3>6, <3>7 DEF FilesInv
  <2> QED
    BY <2>1, <2>2
<1> QED
  BY <1>1, <1>2 DEF HistInv

LEMMA StepHist ==
  ASSUME Sheltered, StoreInv, HistInv, [Next]_vars
  PROVE  HistInv'
<1>1. CASE UNCHANGED vars
  BY <1>1 DEF vars, HistInv, FilesInv, HandleInv
<1>2. CASE PowerLoss
  BY <1>2, PowerLossHist
<1>3. ASSUME NEW h \in Handles, Load(h) PROVE HistInv'
  BY <1>3, StatBaseHist, StatWalHist, ReloadTailHist, MapBaseHist, LoadReadHist, LoadAgainHist,
     MendHist DEF Load
<1>4. ASSUME NEW h \in Handles, Write(h) PROVE HistInv'
  BY <1>4, StageHist, QuietHist, SyncHist, TxnEndHist, WriteAllHist, WritePartHist,
     AppendFailHist, AppendOkHist DEF Write
<1>5. ASSUME NEW h \in Handles, Compact(h) PROVE HistInv'
  BY <1>5, FoldHist, SwapHist, QuietHist DEF Compact
<1> QED
  BY <1>1, <1>2, <1>3, <1>4, <1>5, CreateHist, CrashHist DEF Next

\* Under the three hypotheses of Sheltered: the directory holds one history,
\* numbered without a gap, every handle serves a beginning of it, and every
\* stamp, probe and lock says of it what the code relies on.
THEOREM HistoryInvariant ==
  ASSUME Sheltered
  PROVE  Spec => [](StoreInv /\ HistInv)
<1>1. Init => StoreInv /\ HistInv
  BY InitStoreInv, InitHist
<1>2. StoreInv /\ HistInv /\ [Next]_vars => StoreInv' /\ HistInv'
  BY StepStoreInv, StepHist
<1> QED
  BY <1>1, <1>2, PTL DEF Spec

----------------------------------------------------------------------------
(* What the invariant says of every state. *)

\* What a handle serves, and the history it begins.
LEMMA ServedIs ==
  ASSUME StoreInv, HistInv, NEW h \in Handles, served[h] # None
  PROVE  /\ base # None /\ base \in BaseFile /\ wal \in WalFile /\ FilesOK(base, wal)
         /\ served[h] \in Generation /\ OpenOK(base, wal, served[h], nextSeq[h])
         /\ View(served[h]) \in Seq(Ops) /\ History(base, wal) \in Seq(Ops)
         /\ Begins(View(served[h]), History(base, wal)) /\ nextSeq[h] = Len(View(served[h])) + 1
<1>1. base # None
  BY NoBaseClosed
<1>2. base \in BaseFile /\ wal \in WalFile /\ FilesOK(base, wal)
  BY <1>1, FilesThere DEF HistInv, FilesInv
<1>3. served[h] \in Generation
  BY DEF StoreInv, TypeOK
<1>4. OpenOK(base, wal, served[h], nextSeq[h])
  BY DEF HistInv, HandleInv, HandleOK
<1>5. View(served[h]) \in Seq(Ops) /\ History(base, wal) \in Seq(Ops)
  BY <1>2, <1>3, ViewIs, BuildIs DEF FilesOK
<1> QED
  BY <1>1, <1>2, <1>3, <1>4, <1>5 DEF OpenOK

LEMMA PrefixHolds ==
  ASSUME StoreInv, HistInv
  PROVE  ServedPrefix
<1>1. ASSUME NEW h \in Handles, Open(h)
      PROVE  IsPrefix(View(served[h]), History(base, wal))
  <2>1. served[h] # None
    BY <1>1 DEF Open
  <2>2. /\ View(served[h]) \in Seq(Ops) /\ History(base, wal) \in Seq(Ops)
        /\ Begins(View(served[h]), History(base, wal))
    BY <2>1, ServedIs
  <2> QED
    BY <2>2, BeginsIsPrefix
<1> QED
  BY <1>1 DEF ServedPrefix, Recovered, History

LEMMA DenseHolds ==
  ASSUME StoreInv, HistInv
  PROVE  SequencesDense
  BY DEF HistInv, FilesInv, FilesOK, Dense, SequencesDense

LEMMA TxnHolds ==
  ASSUME StoreInv, HistInv
  PROVE  TxnReadsLatest
<1> SUFFICES ASSUME NEW h \in Handles, pc[h] = "txn"
             PROVE  View(served[h]) = History(base, wal)
  BY DEF TxnReadsLatest, Recovered, History
<1>1. pc[h] \in UnderLock \ {"create_base"}
  BY DEF UnderLock, Appending
<1>2. served[h] # None /\ LockOK(base, wal, "txn", served[h], nextSeq[h], seen[h], staged[h])
  BY <1>1, HolderIs
<1>3. Len(View(served[h])) = Len(History(base, wal))
  BY <1>2 DEF LockOK
<1> QED
  BY <1>2, <1>3, ServedIs, BeginsAll

LEMMA StampHolds ==
  ASSUME NoTornAlias, StoreInv, HistInv
  PROVE  EqualStampNothingNew
<1> SUFFICES ASSUME NEW h \in Handles, served[h] # None, seen[h].stamp = StampOf(base, wal)
             PROVE  View(served[h]) = History(base, wal)
  BY DEF EqualStampNothingNew, Recovered, History, Open
<1>1. /\ base \in BaseFile /\ wal \in WalFile /\ FilesOK(base, wal)
      /\ served[h] \in Generation /\ OpenOK(base, wal, served[h], nextSeq[h])
      /\ View(served[h]) \in Seq(Ops) /\ History(base, wal) \in Seq(Ops)
      /\ Begins(View(served[h]), History(base, wal))
  BY ServedIs
<1>2. seen[h] \in Seen /\ SeenOK(base, wal, served[h], seen[h])
  BY DEF StoreInv, TypeOK, HistInv, HandleInv, HandleOK
<1>3. Full(served[h], base, wal)
  BY <1>1, <1>2, EqualStamp
<1> QED
  BY <1>1, <1>3, BeginsAll DEF Full

\* One generation number, one base.
LEMMA SameBase ==
  ASSUME NEW b \in BaseFile, NEW w \in WalFile, FilesOK(b, w), NEW g \in Generation, g # None,
         NEW n, OpenOK(b, w, g, n), g.gen = b.gen
  PROVE  g.ops = b.ops /\ g.applied = b.applied
<1>1. PICK u \in Seq(Ops), v \in Seq(Ops), H \in Seq(Ops), view \in Seq(Ops) :
        u = g.ops /\ v = b.ops /\ H = History(b, w) /\ view = View(g)
  <2>1. g.ops \in Seq(Ops) /\ b.ops \in Seq(Ops) /\ History(b, w) \in Seq(Ops) /\ View(g) \in Seq(Ops)
    BY ViewIs, BuildIs DEF FilesOK, Generation, BaseFile
  <2> QED
    BY <2>1
<1>2. g.applied = b.applied /\ Whole(g) /\ Begins(view, H)
  BY <1>1 DEF OpenOK
<1>3. Len(u) = g.applied /\ Len(v) = b.applied
  BY <1>1, <1>2 DEF Whole, FilesOK
<1>4. Len(u) = Len(v)
  BY <1>2, <1>3
<1>5. \A i \in 1..Len(v) : H[i] = v[i]
  BY <1>1, <1>3, BuildIs DEF FilesOK
<1>6. Len(u) <= Len(view) /\ \A i \in 1..Len(u) : view[i] = u[i]
  <2>1. PICK k \in Nat : k = Len(g.log)
    BY DEF Generation
  <2>2. Len(View(g)) = Len(g.ops) + Len(g.log) /\ \A i \in 1..Len(g.ops) : View(g)[i] = g.ops[i]
    BY ViewIs
  <2>3. Len(view) = Len(u) + k
    BY <1>1, <2>1, <2>2
  <2>4. \A i \in 1..Len(u) : view[i] = u[i]
    BY <1>1, <2>2
  <2>5. Len(u) \in Nat
    OBVIOUS
  <2> QED
    BY <2>3, <2>4, <2>5
<1>7. \A i \in 1..Len(u) : u[i] = v[i]
  BY <1>2, <1>4, <1>5, <1>6 DEF Begins
<1>8. Begins(u, v)
  BY <1>4, <1>7 DEF Begins
<1> QED
  BY <1>1, <1>2, <1>4, <1>8, BeginsAll

LEMMA NamesHolds ==
  ASSUME StoreInv, HistInv
  PROVE  GenerationNamesBase
<1> SUFFICES ASSUME NEW h \in Handles, served[h] # None, served[h].gen = base.gen
             PROVE  served[h].ops = base.ops /\ served[h].applied = base.applied
  BY DEF GenerationNamesBase, Open
<1> QED
  BY ServedIs, SameBase

\* What a handle serves is a prefix of the committed history.
THEOREM ServedPrefixTheorem ==
  ASSUME Sheltered
  PROVE  Spec => []ServedPrefix
<1>1. StoreInv /\ HistInv => ServedPrefix
  BY PrefixHolds
<1> QED
  BY <1>1, HistoryInvariant, PTL

\* Sequence numbers are dense along base and log.
THEOREM SequencesDenseTheorem ==
  ASSUME Sheltered
  PROVE  Spec => []SequencesDense
<1>1. StoreInv /\ HistInv => SequencesDense
  BY DenseHolds
<1> QED
  BY <1>1, HistoryInvariant, PTL

\* While a transaction's body runs it reads the whole committed state.
THEOREM TxnReadsLatestTheorem ==
  ASSUME Sheltered
  PROVE  Spec => []TxnReadsLatest
<1>1. StoreInv /\ HistInv => TxnReadsLatest
  BY TxnHolds
<1> QED
  BY <1>1, HistoryInvariant, PTL

\* The two stats that make a reload or a commit skip reading never lie.
THEOREM EqualStampTheorem ==
  ASSUME Sheltered
  PROVE  Spec => []EqualStampNothingNew
<1>1. StoreInv /\ HistInv => EqualStampNothingNew
  BY StampHolds DEF Sheltered
<1> QED
  BY <1>1, HistoryInvariant, PTL

\* A handle serving the generation on disk serves that base.
THEOREM GenerationNamesBaseTheorem ==
  ASSUME Sheltered
  PROVE  Spec => []GenerationNamesBase
<1>1. StoreInv /\ HistInv => GenerationNamesBase
  BY NamesHolds
<1> QED
  BY <1>1, HistoryInvariant, PTL

----------------------------------------------------------------------------
(* What the invariant says of every step. *)

\* Once there is a base, every step but a power loss moves the files.
LEMMA FilesStep ==
  ASSUME Sheltered, StoreInv, HistInv, base # None, [Next]_vars, ~PowerLoss
  PROVE  /\ base \in BaseFile /\ wal \in WalFile /\ base' \in BaseFile /\ wal' \in WalFile
         /\ base' # None /\ FilesOK(base, wal) /\ Moves(base, wal, base', wal')
<1>1. base \in BaseFile /\ wal \in WalFile /\ FilesOK(base, wal)
  BY FilesThere DEF HistInv, FilesInv
<1>2. StoreInv'
  BY StepStoreInv
<1>3. ASSUME UNCHANGED vars PROVE Moves(base, wal, base', wal')
  BY <1>3, StillHolds DEF vars
<1>4. ASSUME NEW h \in Handles, Create(h) PROVE Moves(base, wal, base', wal')
  <2>1. pc[h] # "create_base"
    BY DEF StoreInv, Generations
  <2>2. UNCHANGED <<base, wal>>
    BY <1>4, <2>1 DEF Create, CreateBegin, CreateLock, CreateBase, files
  <2> QED
    BY <2>2, StillHolds
<1>5. ASSUME NEW h \in Handles, Load(h) PROVE Moves(base, wal, base', wal')
  <2>1. CASE Mend(h)
    BY <2>1, MendHist
  <2>2. CASE ~Mend(h)
    <3>1. UNCHANGED <<base, wal>>
      BY <1>5, <2>2 DEF Load, StatBase, StatWal, ReloadTail, MapBase, LoadRead, LoadAgain, files
    <3> QED
      BY <3>1, StillHolds
  <2> QED
    BY <2>1, <2>2
<1>6. ASSUME NEW h \in Handles, Write(h) PROVE Moves(base, wal, base', wal')
  <2>1. CASE Sync(h) \/ WriteAll(h) \/ AppendFail(h) \/ AppendOk(h) \/ \E n \in TornLens : WritePart(h, n)
    BY <2>1, SyncHist, WriteAllHist, AppendFailHist, AppendOkHist, WritePartHist
  <2>2. CASE \/ \E op \in Ops : Stage(h, op)
             \/ Discard(h)
             \/ \E for \in {"commit", "transact", "compact"} : Acquire(h, for)
             \/ TxnAbort(h) \/ TxnEnd(h) \/ AppendRefused(h)
    <3>1. UNCHANGED <<base, wal>>
      BY <2>2 DEF Stage, Discard, Acquire, TxnAbort, TxnEnd, AppendRefused, files
    <3> QED
      BY <3>1, StillHolds
  <2> QED
    BY <1>6, <2>1, <2>2 DEF Write
<1>7. ASSUME NEW h \in Handles, Compact(h) PROVE Moves(base, wal, base', wal')
  <2>1. CASE CompactFail(h)
    <3>1. UNCHANGED <<base, wal>>
      BY <2>1 DEF CompactFail, files
    <3> QED
      BY <3>1, StillHolds
  <2> QED
    BY <1>7, <2>1, FoldHist, SwapHist DEF Compact
<1>8. ASSUME NEW h \in Handles, Crash(h) PROVE Moves(base, wal, base', wal')
  <2>1. UNCHANGED <<base, wal>>
    BY <1>8 DEF Crash, files
  <2> QED
    BY <2>1, StillHolds
<1>9. Moves(base, wal, base', wal')
  BY <1>3, <1>4, <1>5, <1>6, <1>7, <1>8 DEF Next
<1>10. base' # None
  <2>1. CASE UNCHANGED vars
    BY <2>1 DEF vars
  <2>2. CASE Next
    BY <2>2, StepRises
  <2> QED
    BY <2>1, <2>2
<1>11. base' \in BaseFile /\ wal' \in WalFile
  BY <1>2, <1>10 DEF StoreInv, TypeOK, Defined
<1> QED
  BY <1>1, <1>9, <1>10, <1>11

\* Unless it dies, an open handle stays open and its numbers never fall.
LEMMA ServesOn ==
  ASSUME Sheltered, StoreInv, HistInv, [Next]_vars, ~PowerLoss,
         NEW k \in Handles, served[k] # None, ~Crash(k)
  PROVE  served'[k] # None /\ nextSeq[k] <= nextSeq'[k]
<1> DEFINE On    == served'[k] # None /\ nextSeq[k] <= nextSeq'[k]
           Ready == {"idle", "mend", "append", "txn", "fold"}
<1>1. nextSeq[k] \in Nat /\ nextSeq[k] <= nextSeq[k] /\ nextSeq'[k] \in Nat
  BY StepStoreInv DEF StoreInv, TypeOK
<1>2. pc'[k] \in Ready => served'[k] # None
  <2>1. LiveOK(pc'[k], served'[k], seen'[k], probe'[k])
    BY StepHist DEF HistInv, HandleInv, HandleOK
  <2> QED
    BY <2>1 DEF LiveOK, LiveAt, Closed, Loading
<1>3. LiveAt(pc[k], probe[k])
  BY DEF HistInv, HandleInv, HandleOK, LiveOK
<1>4. served'[k] = served[k] /\ nextSeq'[k] = nextSeq[k] => On
  BY <1>1
<1>5. ASSUME NEW h \in Handles, NEW g, NEW s, Adopt(h, g, s), pc'[h] \in Ready PROVE On
  <2>1. CASE k = h
    <3>1. nextSeq'[k] = Max2(nextSeq[k], FirstFree(g))
      BY <1>5, <2>1 DEF Adopt, StoreInv, TypeOK
    <3>2. nextSeq[k] <= nextSeq'[k]
      BY <1>1, <3>1 DEF Max2
    <3> QED
      BY <1>2, <1>5, <2>1, <3>2
  <2>2. CASE k # h
    <3>1. served'[k] = served[k] /\ nextSeq'[k] = nextSeq[k]
      BY <1>5, <2>2 DEF Adopt, StoreInv, TypeOK
    <3> QED
      BY <1>4, <3>1
  <2> QED
    BY <2>1, <2>2
<1>6. ASSUME NEW h \in Handles, NEW b, NEW s, InstallOrApply(h, b, wal, s), pc'[h] \in Ready PROVE On
  BY <1>5, <1>6 DEF InstallOrApply
<1>7. ASSUME NEW h \in Handles, NEW b, NEW st, Assemble(h, b, wal, st), k # h PROVE On
  <2>1. served'[k] = served[k] /\ nextSeq'[k] = nextSeq[k]
    BY <1>7 DEF Assemble, StoreInv, TypeOK
  <2> QED
    BY <1>4, <2>1
<1>8. ASSUME NEW h \in Handles, SyncRepair(h), pc'[h] \in Ready PROVE On
  BY <1>5, <1>6, <1>8 DEF SyncRepair
<1>9. UNCHANGED <<served, nextSeq>> => On
  BY <1>4
<1>10. ASSUME NEW h \in Handles, pc[h] = "read", probe[h].opening PROVE k # h
  BY <1>3, <1>10 DEF LiveAt, Loading
<1> HIDE DEF On
<1>11. ASSUME NEW h \in Handles, ReloadTail(h) \/ LoadRead(h) \/ LoadAgain(h) PROVE On
  <2>1. CASE ReloadTail(h)
    <3>1. pc'[h] = "idle"
      BY <2>1 DEF ReloadTail, Goto, StoreInv, TypeOK
    <3> QED
      BY <1>5, <2>1, <3>1 DEF ReloadTail
  <2>2. CASE LoadRead(h)
    <3>1. pc[h] = "read"
      BY <2>2 DEF LoadRead
    <3>2. ~probe[h].opening => pc'[h] = "idle"
      BY <2>2 DEF LoadRead, Goto, StoreInv, TypeOK
    <3>3. CASE probe[h].opening
      BY <1>7, <1>10, <2>2, <3>1, <3>3 DEF LoadRead
    <3>4. CASE ~probe[h].opening
      BY <1>6, <1>9, <2>2, <3>2, <3>4 DEF LoadRead, memory
    <3> QED
      BY <3>3, <3>4
  <2>3. CASE LoadAgain(h)
    <3>1. pc[h] = "read"
      BY <2>3 DEF LoadAgain
    <3> QED
      BY <1>7, <1>9, <1>10, <2>3, <3>1 DEF LoadAgain, memory
  <2> QED
    BY <1>11, <2>1, <2>2, <2>3
<1>12. ASSUME NEW h \in Handles, Mend(h) PROVE On
  <2>1. pc'[h] = "idle"
    BY <1>12 DEF Mend, Goto, StoreInv, TypeOK
  <2> QED
    BY <1>8, <1>9, <1>12, <2>1 DEF Mend, memory
<1>13. ASSUME NEW h \in Handles, Sync(h) PROVE On
  <2>1. CASE SyncRepair(h) /\ ~UNCHANGED memory
    <3>1. goal[h] \in {"commit", "transact", "compact"}
      BY <1>13 DEF Sync, StoreInv, TypeOK, Defined
    <3>2. pc'[h] \in {"append", "txn", "fold"}
      BY <1>13, <2>1, <3>1 DEF Sync, Goto, StoreInv, TypeOK
    <3> QED
      BY <1>8, <2>1, <3>2
  <2> QED
    BY <1>9, <1>13, <2>1 DEF Sync, memory
<1>14. ASSUME NEW h \in Handles, AppendOk(h) PROVE On
  <2>1. CASE k = h
    <3>1. /\ pc'[h] \in {"idle", "fold"} /\ nextSeq'[h] = Len(View(served'[h])) + 1
          /\ Len(View(served'[h])) = Len(View(served[h])) + Len(staged[h])
          /\ nextSeq[h] = Len(View(served[h])) + 1 /\ View(served[h]) \in Seq(Ops)
      BY <1>14, <2>1, AppendOkIs, ServedIs
    <3>6. staged[h] \in Seq(Ops)
      BY DEF StoreInv, TypeOK
    <3>7. Len(View(served[h])) \in Nat
      BY <3>1
    <3>2. Len(View(served[h])) \in Nat /\ Len(staged[h]) \in Nat
      BY <3>6, <3>7
    <3>3. PICK i \in Nat, j \in Nat : i = Len(View(served[h])) /\ j = Len(staged[h])
      BY <3>2
    <3>4. nextSeq[h] = i + 1 /\ nextSeq'[h] = (i + j) + 1
      BY <3>1, <3>3
    <3>5. i + 1 <= (i + j) + 1
      OBVIOUS
    <3> QED
      BY <1>2, <2>1, <3>1, <3>4, <3>5 DEF On
  <2>2. CASE k # h
    <3>1. served'[k] = served[k] /\ nextSeq'[k] = nextSeq[k]
      BY <1>14, <2>2, AppendOkIs DEF Elsewhere
    <3> QED
      BY <1>4, <3>1
  <2> QED
    BY <2>1, <2>2
<1>15. ASSUME NEW h \in Handles, Swap(h) PROVE On
  <2>1. pc[h] = "swap" /\ pc'[h] = "idle" /\ nextSeq' = [nextSeq EXCEPT ![h] = base.applied + 1]
    BY <1>15 DEF Swap, Return, Goto, StoreInv, TypeOK
  <2>2. CASE k = h
    <3>1. pc[h] \in UnderLock \ {"create_base"}
      BY <2>1 DEF UnderLock
    <3>2. /\ base \in BaseFile /\ wal \in WalFile /\ FilesOK(base, wal)
          /\ OpenOK(base, wal, served[h], nextSeq[h])
          /\ LockOK(base, wal, "swap", served[h], nextSeq[h], seen[h], staged[h])
      BY <2>1, <3>1, HolderIs
    <3>3. wal.gen < base.gen /\ Len(View(served[h])) = Len(History(base, wal))
      BY <3>2 DEF LockOK
    <3>4. wal.gen # base.gen
      BY <3>2, <3>3 DEF WalFile, BaseFile
    <3>5. Len(History(base, wal)) = base.applied
      BY <3>2, <3>4, BuildIs DEF FilesOK
    <3>6. nextSeq[h] = base.applied + 1
      BY <2>2, <3>2, <3>3, <3>5 DEF OpenOK
    <3>7. nextSeq'[h] = nextSeq[h]
      BY <2>1, <3>6 DEF StoreInv, TypeOK
    <3> QED
      BY <1>1, <1>2, <2>1, <2>2, <3>7 DEF On
  <2>3. CASE k # h
    <3>1. served'[k] = served[k] /\ nextSeq'[k] = nextSeq[k]
      BY <1>15, <2>3 DEF Swap, StoreInv, TypeOK
    <3> QED
      BY <1>4, <3>1
  <2> QED
    BY <2>2, <2>3
<1>16. ASSUME NEW h \in Handles, Crash(h) PROVE On
  <2>1. h # k
    BY <1>16
  <2>2. served'[k] = served[k] /\ nextSeq'[k] = nextSeq[k]
    BY <1>16, <2>1 DEF Crash, Forget, StoreInv, TypeOK
  <2> QED
    BY <1>4, <2>2
<1>17. ASSUME NEW h \in Handles, Create(h) PROVE On
  BY <1>9, <1>17 DEF Create, CreateBegin, CreateLock, CreateBase, memory
<1>18. ASSUME NEW h \in Handles, Load(h) PROVE On
  <2>1. CASE StatBase(h) \/ StatWal(h) \/ MapBase(h)
    BY <1>9, <2>1 DEF StatBase, StatWal, MapBase, memory
  <2> QED
    BY <1>11, <1>12, <1>18, <2>1 DEF Load
<1>19. ASSUME NEW h \in Handles, Write(h) PROVE On
  <2>1. CASE \/ \E op \in Ops : Stage(h, op)
             \/ Discard(h)
             \/ \E for \in {"commit", "transact", "compact"} : Acquire(h, for)
             \/ TxnAbort(h) \/ TxnEnd(h) \/ AppendRefused(h)
             \/ WriteAll(h) \/ AppendFail(h) \/ \E n \in TornLens : WritePart(h, n)
    BY <1>9, <2>1 DEF Stage, Discard, Acquire, TxnAbort, TxnEnd, AppendRefused, WriteAll,
       AppendFail, WritePart, memory
  <2> QED
    BY <1>13, <1>14, <1>19, <2>1 DEF Write
<1>20. ASSUME NEW h \in Handles, Compact(h) PROVE On
  <2>1. CASE Fold(h) \/ CompactFail(h)
    BY <1>9, <2>1 DEF Fold, CompactFail, memory
  <2> QED
    BY <1>15, <1>20, <2>1 DEF Compact
<1>21. ASSUME UNCHANGED vars PROVE On
  BY <1>9, <1>21 DEF vars
<1>22. On
  BY <1>16, <1>17, <1>18, <1>19, <1>20, <1>21 DEF Next
<1> QED
  BY <1>22 DEF On

\* An open handle never un-serves an op.
LEMMA MonotoneStep ==
  ASSUME Sheltered, StoreInv, HistInv, [Next]_vars, NEW k \in Handles,
         served[k] # None, served'[k] # None
  PROVE  /\ View(served[k]) \in Seq(Ops) /\ View(served'[k]) \in Seq(Ops)
         /\ Begins(View(served[k]), View(served'[k]))
<1>1. /\ base # None /\ View(served[k]) \in Seq(Ops) /\ History(base, wal) \in Seq(Ops)
      /\ Begins(View(served[k]), History(base, wal)) /\ nextSeq[k] = Len(View(served[k])) + 1
  BY ServedIs
<1>2. StoreInv' /\ HistInv'
  BY StepStoreInv, StepHist
<1>3. /\ View(served'[k]) \in Seq(Ops) /\ History(base', wal') \in Seq(Ops)
      /\ OpenOK(base', wal', served'[k], nextSeq'[k])
  <2>1. base' # None
    <3>1. base' = None => LiveAt(pc'[k], probe'[k]) /\ pc'[k] \in Closed
      BY <1>2 DEF HistInv, HandleInv, HandleOK, LiveOK, StoreInv, Defined
    <3> QED
      BY <3>1 DEF LiveAt
  <2>2. base' \in BaseFile /\ wal' \in WalFile /\ FilesOK(base', wal')
    BY <1>2, <2>1 DEF StoreInv, TypeOK, Defined, HistInv, FilesInv
  <2>3. served'[k] \in Generation
    BY <1>2 DEF StoreInv, TypeOK
  <2>4. View(served'[k]) \in Seq(Ops)
    BY <2>3, ViewIs
  <2>5. History(base', wal') \in Seq(Ops)
    BY <2>2, BuildIs DEF FilesOK
  <2>6. OpenOK(base', wal', served'[k], nextSeq'[k])
    BY <1>2 DEF HistInv, HandleInv, HandleOK
  <2> QED
    BY <2>4, <2>5, <2>6
<1>4. Begins(View(served'[k]), History(base', wal')) /\ nextSeq'[k] = Len(View(served'[k])) + 1
  BY <1>3 DEF OpenOK
<1>5. ~PowerLoss /\ ~Crash(k)
  <2>1. PowerLoss => served' = [h \in Handles |-> None]
    BY DEF PowerLoss
  <2>2. Crash(k) => served' = [served EXCEPT ![k] = None]
    BY DEF Crash, Forget
  <2>3. served \in [Handles -> {None} \cup Generation]
    BY DEF StoreInv, TypeOK
  <2> QED
    BY <2>1, <2>2, <2>3
<1>6. nextSeq[k] <= nextSeq'[k]
  BY <1>5, ServesOn
<1>7. Begins(History(base, wal), History(base', wal'))
  BY <1>1, <1>5, FilesStep, MovedFiles
<1>8. PICK u \in Seq(Ops), v \in Seq(Ops), H \in Seq(Ops), J \in Seq(Ops) :
        u = View(served[k]) /\ v = View(served'[k]) /\ H = History(base, wal) /\ J = History(base', wal')
  BY <1>1, <1>3
<1>9. Begins(u, H) /\ Begins(H, J) /\ Begins(v, J)
  BY <1>1, <1>4, <1>7, <1>8
<1>10. Len(u) <= Len(v)
  <2>1. nextSeq[k] = Len(u) + 1 /\ nextSeq'[k] = Len(v) + 1
    BY <1>1, <1>4, <1>8
  <2>2. Len(u) \in Nat /\ Len(v) \in Nat
    OBVIOUS
  <2>3. Len(u) + 1 <= Len(v) + 1
    BY <1>6, <2>1
  <2> QED
    BY <2>2, <2>3
<1>11. Begins(u, v)
  BY <1>9, <1>10, BeginsBegins
<1> QED
  BY <1>1, <1>3, <1>8, <1>11

\* Reads on one handle are monotone.
THEOREM ReadsMonotoneTheorem ==
  ASSUME Sheltered
  PROVE  Spec => ReadsMonotone
<1> DEFINE Mono == \A h \in Handles : Open(h) /\ served'[h] # None =>
                     IsPrefix(View(served[h]), View(served'[h]))
<1>1. (StoreInv /\ HistInv) /\ [Next]_vars => [Mono]_vars
  <2> SUFFICES ASSUME StoreInv, HistInv, [Next]_vars, NEW h \in Handles, Open(h), served'[h] # None
               PROVE  IsPrefix(View(served[h]), View(served'[h]))
    OBVIOUS
  <2>1. /\ View(served[h]) \in Seq(Ops) /\ View(served'[h]) \in Seq(Ops)
        /\ Begins(View(served[h]), View(served'[h]))
    BY MonotoneStep DEF Open
  <2> QED
    BY <2>1, BeginsIsPrefix
<1> QED
  BY <1>1, HistoryInvariant, PTL DEF Spec, ReadsMonotone

----------------------------------------------------------------------------
(* What was acknowledged. *)

\* An entry with its committer forgotten, or as it was.
LEMMA DisownIs ==
  ASSUME StoreInv, NEW who \in SUBSET Handles, NEW a \in Disown(who)
  PROVE  /\ a.by \notin who
         /\ a.by # None => a \in acked
         /\ \E o \in acked : o.entry = a.entry
<1>1. PICK o \in acked : a = IF o.by \in who THEN [o EXCEPT !.by = None] ELSE o
  BY DEF Disown
<1>2. o \in [entry : Entry, by : {None} \cup Handles]
  BY DEF StoreInv, TypeOK
<1>3. None \notin who
  BY NoneIsFresh
<1>4. CASE o.by \in who
  <2>1. a.by = None /\ a.entry = o.entry
    BY <1>1, <1>2, <1>4
  <2> QED
    BY <1>3, <2>1
<1>5. CASE o.by \notin who
  BY <1>1, <1>5
<1> QED
  BY <1>4, <1>5

\* What a step makes of the acknowledged entries: AppendOk adds those of the
\* record it publishes, a death forgets the committer, nothing else.
LEMMA AckedStep ==
  ASSUME StoreInv, [Next]_vars, NEW a \in acked'
  PROVE  /\ a.by # None => ~PowerLoss /\ (a.by \in Handles => ~Crash(a.by))
         /\ \/ (a.by # None => a \in acked) /\ \E o \in acked : o.entry = a.entry
            \/ \E h \in Handles : /\ AppendOk(h) /\ a.by = h
                                  /\ \E i \in 1..Len(staged[h]) :
                                       a.entry = Sealed(nextSeq[h], staged[h])[i]
<1> DEFINE Old == (a.by # None => a \in acked) /\ \E o \in acked : o.entry = a.entry
           New == \E h \in Handles : /\ AppendOk(h) /\ a.by = h
                                     /\ \E i \in 1..Len(staged[h]) :
                                          a.entry = Sealed(nextSeq[h], staged[h])[i]
<1>1. ASSUME NEW h \in Handles, Crash(h) PROVE a.by # h /\ Old
  <2>1. a \in Disown({h})
    BY <1>1 DEF Crash
  <2> QED
    BY <2>1, DisownIs
<1>2. ASSUME PowerLoss PROVE a.by = None /\ Old
  <2>1. a \in Disown(Handles)
    BY <1>2 DEF PowerLoss
  <2>2. a \in [entry : Entry, by : {None} \cup Handles]
    BY StepStoreInv DEF StoreInv, TypeOK
  <2> QED
    BY <2>1, <2>2, DisownIs
<1>3. ASSUME NEW h \in Handles, AppendOk(h) PROVE Old \/ New
  <2>1. CASE a \in acked
    BY <2>1
  <2>2. CASE a \notin acked
    <3>1. acked' = acked \cup {[entry |-> Sealed(nextSeq[h], staged[h])[i], by |-> h] :
                                 i \in 1..Len(Sealed(nextSeq[h], staged[h]))}
      BY <1>3 DEF AppendOk
    <3>2. PICK i \in 1..Len(Sealed(nextSeq[h], staged[h])) :
            a = [entry |-> Sealed(nextSeq[h], staged[h])[i], by |-> h]
      BY <2>2, <3>1
    <3>3. nextSeq[h] \in Nat \ {0} /\ staged[h] \in Seq(Ops)
      <4>1. pc[h] = "written"
        BY <1>3 DEF AppendOk
      <4>2. nextSeq[h] > 0
        BY <4>1 DEF StoreInv, Defined, Live, Closed, Loading
      <4> QED
        BY <4>2 DEF StoreInv, TypeOK
    <3>4. i \in 1..Len(staged[h])
      BY <3>3, SealedType
    <3>5. a.entry = Sealed(nextSeq[h], staged[h])[i] /\ a.by = h
      BY <3>2
    <3> QED
      BY <1>3, <3>4, <3>5
  <2> QED
    BY <2>1, <2>2
<1>4. UNCHANGED acked => Old
  OBVIOUS
<1> HIDE DEF Old, New
<1>5. ASSUME NEW h \in Handles, Create(h) PROVE Old
  BY <1>4, <1>5 DEF Create, CreateBegin, CreateLock, CreateBase, ghosts
<1>6. ASSUME NEW h \in Handles, Load(h) PROVE Old
  BY <1>4, <1>6 DEF Load, StatBase, StatWal, ReloadTail, MapBase, LoadRead, LoadAgain, Mend, ghosts
<1>7. ASSUME NEW h \in Handles, Write(h) PROVE Old \/ New
  <2>1. CASE AppendOk(h)
    BY <1>3, <2>1
  <2>2. CASE ~AppendOk(h)
    BY <1>4, <1>7, <2>2 DEF Write, Stage, Discard, Acquire, Sync, TxnAbort, TxnEnd, AppendRefused,
       WritePart, WriteAll, AppendFail, Fail, ghosts
  <2> QED
    BY <2>1, <2>2
<1>8. ASSUME NEW h \in Handles, Compact(h) PROVE Old
  BY <1>4, <1>8 DEF Compact, Fold, Swap, CompactFail, ghosts
<1>9. ASSUME UNCHANGED vars PROVE Old
  BY <1>4, <1>9 DEF vars
<1>10. Old \/ New
  BY <1>1, <1>2, <1>5, <1>6, <1>7, <1>8, <1>9 DEF Next
<1>11. a.by # None => ~PowerLoss /\ (a.by \in Handles => ~Crash(a.by))
  BY <1>1, <1>2
<1> QED
  BY <1>10, <1>11 DEF Old, New

\* The entries of the record just published are served at their numbers.
LEMMA NewAcked ==
  ASSUME StoreInv, HistInv, NEW h \in Handles, AppendOk(h), NEW i \in 1..Len(staged[h]),
         NEW e, e = Sealed(nextSeq[h], staged[h])[i]
  PROVE  /\ served'[h] # None /\ e.seq \in 1..Len(View(served'[h]))
         /\ View(served'[h])[e.seq] = e.op
         /\ e.seq = Len(View(served[h])) + i /\ (e.end => i = Len(staged[h]))
<1>1. /\ pc[h] = "written"
      /\ Full(served'[h], base, wal')
      /\ Len(View(served'[h])) = Len(View(served[h])) + Len(staged[h])
      /\ \A j \in 1..Len(staged[h]) :
           View(served'[h])[Len(View(served[h])) + j] = staged[h][j]
  BY AppendOkIs
<1>2. served[h] # None /\ staged[h] \in Seq(Ops)
  <2>1. pc[h] \in UnderLock \ {"create_base"}
    BY <1>1 DEF UnderLock, Appending
  <2> QED
    BY <2>1, HolderIs
<1>3. View(served[h]) \in Seq(Ops) /\ nextSeq[h] = Len(View(served[h])) + 1
  BY <1>2, ServedIs
<1>4. PICK n \in Nat, m \in Nat, ops \in Seq(Ops) :
        n = Len(View(served[h])) /\ ops = staged[h] /\ m = Len(ops) /\ i \in 1..m
  BY <1>2, <1>3
<1>5. e = [seq |-> n + 1 + i - 1, op |-> ops[i], end |-> i = Len(ops)]
  BY <1>3, <1>4 DEF Sealed
<1>6. e.seq = n + 1 + i - 1 /\ e.op = ops[i] /\ e.end = (i = Len(ops))
  BY <1>5
<1>7. e.seq = n + i /\ n + i \in 1..(n + m)
  <2>1. PICK j \in Nat : j = i /\ 1 <= j /\ j <= m
    BY <1>4
  <2>2. n + 1 + j - 1 = n + j /\ n + j \in 1..(n + m)
    BY <1>4, <2>1
  <2> QED
    BY <1>6, <2>1, <2>2
<1>8. served'[h] # None
  BY <1>1 DEF Full
<1>9. Len(View(served'[h])) = n + m /\ View(served'[h])[n + i] = ops[i]
  BY <1>1, <1>4
<1>10. e.end => i = Len(ops)
  BY <1>6
<1> QED
  BY <1>4, <1>6, <1>7, <1>8, <1>9, <1>10

\* What a handle acknowledged, it goes on serving.
LEMMA AckStep ==
  ASSUME Sheltered, StoreInv, HistInv, AckInv, [Next]_vars
  PROVE  AckInv'
<1> SUFFICES ASSUME NEW a \in acked', a.by # None
             PROVE  /\ served'[a.by] # None
                    /\ a.entry.seq \in 1..Len(View(served'[a.by]))
                    /\ View(served'[a.by])[a.entry.seq] = a.entry.op
  BY DEF AckInv
<1>1. a \in [entry : Entry, by : {None} \cup Handles]
  BY StepStoreInv DEF StoreInv, TypeOK
<1>2. PICK k \in Handles : k = a.by
  BY <1>1
<1>3. ~PowerLoss /\ ~Crash(k)
  BY <1>2, AckedStep
<1>4. CASE a \in acked
  <2>1. /\ served[k] # None /\ a.entry.seq \in 1..Len(View(served[k]))
        /\ View(served[k])[a.entry.seq] = a.entry.op
    BY <1>2, <1>4 DEF AckInv
  <2>2. served'[k] # None
    BY <1>3, <2>1, ServesOn
  <2>3. /\ View(served[k]) \in Seq(Ops) /\ View(served'[k]) \in Seq(Ops)
        /\ Begins(View(served[k]), View(served'[k]))
    BY <2>1, <2>2, MonotoneStep
  <2>4. PICK u \in Seq(Ops), v \in Seq(Ops), n \in Nat :
          u = View(served[k]) /\ v = View(served'[k]) /\ n = a.entry.seq
    <3>1. a.entry.seq \in Nat
      BY <1>1 DEF Entry
    <3> QED
      BY <2>3, <3>1
  <2>5. n \in 1..Len(u) /\ Begins(u, v)
    BY <2>1, <2>3, <2>4
  <2>6. n \in 1..Len(v) /\ v[n] = u[n]
    BY <2>5 DEF Begins
  <2> QED
    BY <1>2, <2>1, <2>2, <2>4, <2>6
<1>5. CASE a \notin acked
  <2>1. PICK h \in Handles : /\ AppendOk(h) /\ a.by = h
                             /\ \E i \in 1..Len(staged[h]) :
                                  a.entry = Sealed(nextSeq[h], staged[h])[i]
    BY <1>5, AckedStep
  <2>2. PICK i \in 1..Len(staged[h]) : a.entry = Sealed(nextSeq[h], staged[h])[i]
    BY <2>1
  <2> QED
    BY <2>1, <2>2, NewAcked
<1> QED
  BY <1>4, <1>5

\* A handle's own commits stay visible to it, at the numbers it was told.
THEOREM OwnCommitsVisibleTheorem ==
  ASSUME Sheltered
  PROVE  Spec => []OwnCommitsVisible
<1>1. Init => AckInv
  BY DEF Init, AckInv
<1>2. (StoreInv /\ HistInv) /\ AckInv /\ [Next]_vars => AckInv'
  BY AckStep
<1>3. AckInv => OwnCommitsVisible
  BY NoneIsFresh DEF AckInv, OwnCommitsVisible
<1> QED
  BY <1>1, <1>2, <1>3, HistoryInvariant, PTL DEF Spec

\* How much is safe never falls, and never exceeds the history.
LEMMA SafeMoved ==
  ASSUME NEW b \in BaseFile, NEW w \in WalFile, NEW b2 \in BaseFile, NEW w2 \in WalFile,
         FilesOK(b, w), Moves(b, w, b2, w2)
  PROVE  /\ Safe(b, w) \in Nat /\ Safe(b2, w2) \in Nat /\ Safe(b, w) <= Safe(b2, w2)
         /\ Safe(b, w) <= Len(History(b, w))
<1>1. PICK a \in Nat, c \in Nat, a2 \in Nat, c2 \in Nat :
        a = b.applied /\ c = w.synced /\ a2 = b2.applied /\ c2 = w2.synced
  BY DEF BaseFile, WalFile
<1>2. Safe(b, w) \in Nat /\ Safe(b2, w2) \in Nat
  BY <1>1 DEF Safe
<1>3. Safe(b, w) <= Len(History(b, w))
  <2>1. /\ w.gen = b.gen => Len(History(b, w)) = b.applied + Len(w.log)
        /\ w.gen # b.gen => Len(History(b, w)) = b.applied
    BY BuildIs DEF FilesOK
  <2>2. PICK l \in Nat : l = Len(w.log) /\ c <= l
    BY <1>1 DEF FilesOK, WalFile
  <2> QED
    BY <1>1, <2>1, <2>2 DEF Safe
<1>4. CASE Rests(b, w, b2, w2) \/ Grows(b, w, b2, w2)
  <2>1. a2 = a /\ c <= c2 /\ w2.gen = w.gen /\ b2.gen = b.gen
    BY <1>1, <1>4 DEF Rests, Grows
  <2>2. Safe(b, w) = a + (IF w.gen = b.gen THEN c ELSE 0)
    BY <1>1 DEF Safe
  <2>3. Safe(b2, w2) = a + (IF w.gen = b.gen THEN c2 ELSE 0)
    BY <1>1, <2>1 DEF Safe
  <2>4. Safe(b, w) <= Safe(b2, w2)
    BY <2>1, <2>2, <2>3
  <2> QED
    BY <1>2, <1>3, <2>4
<1>5. CASE Folds(b, w, b2, w2)
  <2>1. a2 = Len(History(b, w)) /\ w2.gen # b2.gen
    BY <1>1, <1>5 DEF Folds, BaseFile
  <2>2. Safe(b2, w2) = a2 + 0
    BY <1>1, <2>1 DEF Safe
  <2> QED
    BY <1>1, <1>2, <1>3, <2>1, <2>2
<1>6. CASE Renews(b, w, b2, w2)
  <2>1. a2 = a /\ w.gen # b.gen /\ b2 = b
    BY <1>1, <1>6 DEF Renews, BaseFile, WalFile
  <2>2. Safe(b, w) = a + 0
    BY <1>1, <2>1 DEF Safe
  <2>3. a2 <= Safe(b2, w2)
    BY <1>1 DEF Safe
  <2> QED
    BY <1>2, <1>3, <2>1, <2>2, <2>3
<1> QED
  BY <1>4, <1>5, <1>6 DEF Moves

\* With Durability::Always, what was acknowledged is safe.
LEMMA SafeStep ==
  ASSUME Sheltered, SyncEvery = 1, StoreInv, HistInv, SafeInv, [Next]_vars
  PROVE  SafeInv'
<1> SUFFICES ASSUME NEW a \in acked'
             PROVE  /\ base' # None /\ a.entry.seq \in 1..Safe(base', wal')
                    /\ History(base', wal')[a.entry.seq] = a.entry.op
  BY DEF SafeInv, Recovered, History
<1>1. CASE \E o \in acked : o.entry = a.entry
  <2>1. PICK o \in acked : o.entry = a.entry
    BY <1>1
  <2>2. /\ base # None /\ a.entry.seq \in 1..Safe(base, wal)
        /\ History(base, wal)[a.entry.seq] = a.entry.op
    BY <2>1 DEF SafeInv, Recovered, History
  <2>3. CASE PowerLoss
    <3>1. base' = base
      BY <2>3 DEF PowerLoss
    <3> QED
      BY <2>2, <2>3, <3>1, PowerLossHist
  <2>4. CASE ~PowerLoss
    <3>1. /\ base \in BaseFile /\ wal \in WalFile /\ base' \in BaseFile /\ wal' \in WalFile
          /\ base' # None /\ FilesOK(base, wal) /\ Moves(base, wal, base', wal')
      BY <2>2, <2>4, FilesStep
    <3>2. /\ Safe(base, wal) \in Nat /\ Safe(base', wal') \in Nat
          /\ Safe(base, wal) <= Safe(base', wal') /\ Safe(base, wal) <= Len(History(base, wal))
      BY <3>1, SafeMoved
    <3>3. Begins(History(base, wal), History(base', wal')) /\ History(base, wal) \in Seq(Ops)
      BY <3>1, MovedFiles
    <3>8. Len(History(base, wal)) \in Nat
      BY <3>3
    <3>9. PICK x \in Nat, y \in Nat, l \in Nat :
            x = Safe(base, wal) /\ y = Safe(base', wal') /\ l = Len(History(base, wal))
      BY <3>2, <3>8
    <3>10. a.entry.seq \in 1..x
      BY <2>2, <3>9
    <3>4. PICK n \in 1..x : n = a.entry.seq /\ x = Safe(base, wal) /\ y = Safe(base', wal')
            /\ l = Len(History(base, wal))
      BY <3>9, <3>10
    <3>5. n \in 1..x /\ x <= y /\ x <= l
      BY <2>2, <3>2, <3>4
    <3>6. n \in 1..y /\ n \in 1..l
      BY <3>5
    <3>7. History(base', wal')[n] = History(base, wal)[n]
      BY <3>3, <3>4, <3>6 DEF Begins
    <3> QED
      BY <2>2, <3>1, <3>4, <3>6, <3>7
  <2> QED
    BY <2>3, <2>4
<1>2. CASE ~\E o \in acked : o.entry = a.entry
  <2>1. PICK h \in Handles : /\ AppendOk(h)
                             /\ \E i \in 1..Len(staged[h]) :
                                  a.entry = Sealed(nextSeq[h], staged[h])[i]
    BY <1>2, AckedStep
  <2>2. /\ served'[h] # None /\ a.entry.seq \in 1..Len(View(served'[h]))
        /\ View(served'[h])[a.entry.seq] = a.entry.op
    BY <2>1, NewAcked
  <2>3. /\ pc[h] = "written" /\ base' = base /\ wal' \in WalFile
        /\ wal' = IF SyncDue(h) THEN [wal EXCEPT !.synced = Len(wal.log)] ELSE wal
        /\ Rests(base, wal, base, wal') /\ Full(served'[h], base, wal')
    BY <2>1, AppendOkIs
  <2>4. /\ base # None /\ base \in BaseFile /\ wal \in WalFile /\ FilesOK(base, wal)
        /\ wal.gen = base.gen
    <3>1. pc[h] \in UnderLock \ {"create_base"}
      BY <2>3 DEF UnderLock, Appending
    <3> QED
      BY <2>3, <3>1, HolderIs DEF LockOK, Appending
  <2>5. SyncDue(h)
    BY DEF SyncDue, StoreInv, TypeOK
  <2>6. wal'.synced = Len(wal'.log) /\ wal'.gen = base.gen
    BY <2>3, <2>4, <2>5 DEF WalFile
  <2>7. FilesOK(base, wal')
    BY <2>3, <2>4, RestedFiles
  <2>8. Safe(base, wal') = Len(History(base, wal'))
    <3>1. PICK w \in WalFile : w = wal'
      BY <2>3
    <3>2. base.applied = Len(base.ops) /\ (w.gen = base.gen => Dense(w.log, base.applied))
      BY <2>7, <3>1 DEF FilesOK
    <3>3. w.synced = Len(w.log) /\ w.gen = base.gen
      BY <2>6, <3>1
    <3>4. Len(History(base, w)) = base.applied + Len(w.log)
      BY <2>4, <3>2, <3>3, BuildIs
    <3>5. Safe(base, w) = base.applied + w.synced
      BY <3>3 DEF Safe
    <3> QED
      BY <3>1, <3>3, <3>4, <3>5
  <2>9. Len(View(served'[h])) = Len(History(base, wal')) /\ Begins(View(served'[h]), History(base, wal'))
    BY <2>3 DEF Full, OpenOK
  <2>10. History(base, wal')[a.entry.seq] = a.entry.op
    BY <2>2, <2>9 DEF Begins
  <2> QED
    BY <2>2, <2>3, <2>4, <2>8, <2>9, <2>10
<1> QED
  BY <1>1, <1>2

\* With Durability::Always every op of a commit that returned Ok is what the
\* directory gives back at its number, whatever crashed, compacted or was cut
\* since.
THEOREM DurableTheorem ==
  ASSUME Sheltered, SyncEvery = 1
  PROVE  Spec => []Durable
<1>1. Init => SafeInv
  BY DEF Init, SafeInv
<1>2. (StoreInv /\ HistInv) /\ SafeInv /\ [Next]_vars => SafeInv'
  BY SafeStep
<1>3. (StoreInv /\ HistInv) /\ SafeInv => Durable
  <2> SUFFICES ASSUME StoreInv, HistInv, SafeInv, NEW a \in acked
               PROVE  /\ base # None /\ a.entry.seq \in 1..Len(Recovered)
                      /\ Recovered[a.entry.seq] = a.entry.op
    BY DEF Durable
  <2>1. /\ base # None /\ a.entry.seq \in 1..Safe(base, wal)
        /\ Recovered[a.entry.seq] = a.entry.op
    BY DEF SafeInv
  <2>2. base \in BaseFile /\ wal \in WalFile /\ FilesOK(base, wal) /\ Moves(base, wal, base, wal)
    BY <2>1, FilesThere, StillMoves DEF HistInv, FilesInv
  <2>3. Safe(base, wal) \in Nat /\ Safe(base, wal) <= Len(History(base, wal))
    BY <2>2, SafeMoved
  <2>4. History(base, wal) \in Seq(Ops) /\ Recovered = History(base, wal)
    BY <2>2, BuildIs DEF FilesOK, Recovered, History
  <2>5. Len(Recovered) \in Nat
    BY <2>4
  <2>6. a.entry.seq \in 1..Len(Recovered)
    BY <2>1, <2>3, <2>4, <2>5
  <2> QED
    BY <2>1, <2>6
<1> QED
  BY <1>1, <1>2, <1>3, HistoryInvariant, PTL DEF Spec

=============================================================================
