------------------------- MODULE GraphStoreProofs -------------------------
(***************************************************************************)
(* Proofs about GraphStore, for any handles, ops, record lengths and ring  *)
(* size: StoreInv is inductive, so the log never runs ahead of its base    *)
(* and bases only ever rise.                                               *)
(***************************************************************************)
EXTENDS GraphStore, SequenceTheorems, WellFoundedInduction, TLAPS

----------------------------------------------------------------------------
(* What the operators on files and generations return. *)

\* A nonempty set of natural numbers has a least element.
LEMMA LeastNat ==
  ASSUME NEW S \in SUBSET Nat, S # {}
  PROVE  \E i \in S : \A j \in S : i <= j
<1>1. \E i \in S : \A j \in S : ~(<<j, i>> \in OpToRel(<, Nat))
  BY WFMin, NatLessThanWellFounded
<1>2. \A i, j \in Nat : j < i => <<j, i>> \in OpToRel(<, Nat)
  BY DEF OpToRel
<1>3. \E i \in S : \A j \in S : ~(j < i)
  BY <1>1, <1>2, Zenon
<1> QED
  BY <1>3

\* A log just written is a log of the generation asked for.
LEMMA FreshWalType ==
  ASSUME NEW old \in {None} \cup WalFile, NEW gen \in Nat
  PROVE  /\ FreshWal(old, gen) \in WalFile
         /\ FreshWal(old, gen).gen = gen
         /\ FreshWal(old, gen) # None
<1>1. FreshWal(old, gen) \in WalFile
  BY DEF FreshWal, WalFile
<1> QED
  BY <1>1, NoneIsNoRecord DEF FreshWal

\* Sealing numbers the staged ops from a positive number up.
LEMMA SealedType ==
  ASSUME NEW first \in Nat \ {0}, NEW ops \in Seq(Ops)
  PROVE  Sealed(first, ops) \in Seq(Entry) /\ Len(Sealed(first, ops)) = Len(ops)
<1>1. Sealed(first, ops) \in [1..Len(ops) -> Entry]
  BY DEF Sealed, Entry
<1> QED
  BY <1>1

\* An append leaves a log of the same generation.
LEMMA AppendedType ==
  ASSUME NEW w \in WalFile, NEW rec \in Seq(Entry)
  PROVE  /\ Appended(w, rec) \in WalFile
         /\ Appended(w, rec).gen = w.gen
<1>1. w.log \o rec \in Seq(Entry)
  BY DEF WalFile
<1>2. w.torn + OpLen * Len(rec) \in Nat
  BY ConstantsOK DEF WalFile
<1> QED
  BY <1>1, <1>2 DEF Appended, WalFile

\* So does a cut.
LEMMA CutToType ==
  ASSUME NEW w \in WalFile, NEW pos \in Nat
  PROVE  CutTo(w, pos) \in WalFile /\ CutTo(w, pos).gen = w.gen
<1> DEFINE n   == Min2(pos, Len(w.log))
           cut == SubSeq(w.log, 1, n)
<1>1. n \in 0..Len(w.log) /\ n \in Nat
  BY DEF WalFile, Min2
<1>2. cut \in Seq(Entry)
  BY <1>1 DEF WalFile
<1>3. CutTo(w, pos) = [w EXCEPT !.log = cut, !.torn = 0, !.synced = n]
  BY DEF CutTo
<1> HIDE DEF n, cut
<1>4. [w EXCEPT !.log = cut, !.torn = 0, !.synced = n] \in WalFile
  BY <1>1, <1>2 DEF WalFile
<1>5. [w EXCEPT !.log = cut, !.torn = 0, !.synced = n].gen = w.gen
  BY DEF WalFile
<1> QED
  BY <1>3, <1>4, <1>5

\* The stamp of a log that is there names it.
LEMMA WalStatType ==
  ASSUME NEW w \in WalFile
  PROVE  WalStat(w) \in WalId /\ WalStat(w) # None
<1>1. w # None
  BY NoneIsNoRecord
<1>2. WalStat(w) \in WalId
  BY <1>1, ConstantsOK DEF WalStat, WalId, FileLen, WalFile
<1> QED
  BY <1>2, NoneIsNoRecord

\* The records not yet served are records.
LEMMA AboveType ==
  ASSUME NEW log \in Seq(Entry), NEW pos \in Nat, NEW above \in Nat
  PROVE  Above(log, pos, above) \in Seq(Entry)
<1> DEFINE later == {i \in pos + 1..Len(log) : log[i].seq > above}
           first == CHOOSE i \in later : \A j \in later : i <= j
<1>1. CASE later = {}
  BY <1>1 DEF Above
<1>2. CASE later # {}
  <2>1. later \in SUBSET Nat
    OBVIOUS
  <2>2. \E i \in later : \A j \in later : i <= j
    BY <1>2, <2>1, LeastNat
  <2>3. first \in later
    BY <2>2
  <2>4. first \in 1..Len(log)
    BY <2>3
  <2>5. Above(log, pos, above) = SubSeq(log, first, Len(log))
    BY <1>2 DEF Above
  <2> HIDE DEF first
  <2>6. \A i \in first..Len(log) : log[i] \in Entry
    BY <2>4
  <2>7. SubSeq(log, first, Len(log)) \in Seq(Entry)
    BY <2>4, <2>6, SubSeqProperties
  <2> QED
    BY <2>5, <2>7
<1> QED
  BY <1>1, <1>2

\* The ops of a log.
LEMMA OpsOfType ==
  ASSUME NEW log \in Seq(Entry)
  PROVE  OpsOf(log) \in Seq(Ops)
<1>1. \A i \in 1..Len(log) : log[i].op \in Ops
  <2>1. \A i \in 1..Len(log) : log[i] \in Entry
    OBVIOUS
  <2> QED
    BY <2>1 DEF Entry
<1>2. OpsOf(log) \in [1..Len(log) -> Ops]
  BY <1>1 DEF OpsOf
<1> QED
  BY <1>2

\* A base and a log make a generation.
LEMMA BuildType ==
  ASSUME NEW b \in BaseFile, NEW w \in WalFile
  PROVE  Build(b, w) \in Generation /\ Build(b, w) # None
<1>1. Above(w.log, 0, b.applied) \in Seq(Entry)
  BY AboveType DEF WalFile, BaseFile
<1>2. Build(b, w) \in Generation
  BY <1>1 DEF Build, Generation, BaseFile
<1> QED
  BY <1>2, NoneIsNoRecord

\* The last number of a generation is a number, the next one positive.
LEMMA LastSeqType ==
  ASSUME NEW g \in Generation
  PROVE  LastSeq(g) \in Nat /\ FirstFree(g) \in Nat \ {0}
<1>1. g.log # <<>> => g.log[Len(g.log)] \in Entry
  BY DEF Generation
<1>2. LastSeq(g) \in Nat
  BY <1>1 DEF LastSeq, Max2, Generation, Entry
<1> QED
  BY <1>2 DEF FirstFree

\* Publishing records on a generation makes a generation of the same base.
LEMMA PublishType ==
  ASSUME NEW g \in Generation, NEW entries \in Seq(Entry)
  PROVE  Publish(g, entries) \in Generation /\ Publish(g, entries) # None
<1>1. g.log \o entries \in Seq(Entry)
  BY DEF Generation
<1>2. Publish(g, entries) \in Generation
  BY <1>1 DEF Publish, Generation
<1> QED
  BY <1>2, NoneIsNoRecord

\* What a generation shows is a sequence of ops.
LEMMA ViewType ==
  ASSUME NEW g \in Generation
  PROVE  View(g) \in Seq(Ops)
<1>1. g.ops \in Seq(Ops) /\ OpsOf(g.log) \in Seq(Ops)
  BY OpsOfType DEF Generation
<1> QED
  BY <1>1 DEF View

\* A tail read publishes on the served generation.
LEMMA TailReadType ==
  ASSUME NEW g \in Generation, NEW s \in Seen, NEW w \in WalFile
  PROVE  /\ TailRead(g, s, w).served \in Generation
         /\ TailRead(g, s, w).served # None
         /\ TailRead(g, s, w).pos \in Nat
<1>1. Above(w.log, s.pos, LastSeq(g)) \in Seq(Entry)
  BY AboveType, LastSeqType DEF WalFile, Seen
<1>2. /\ Publish(g, Above(w.log, s.pos, LastSeq(g))) \in Generation
      /\ Publish(g, Above(w.log, s.pos, LastSeq(g))) # None
  BY <1>1, PublishType
<1>3. Len(w.log) \in Nat /\ s.pos \in Nat /\ g # None
  BY NoneIsNoRecord DEF WalFile, Seen
<1> QED
  BY <1>2, <1>3 DEF TailRead

\* So does a full reload that finds its generation served.
LEMMA ApplyLogType ==
  ASSUME NEW g \in Generation, NEW b \in BaseFile, NEW w \in WalFile
  PROVE  ApplyLog(g, b, w) \in Generation /\ ApplyLog(g, b, w) # None
<1>1. Above(w.log, 0, LastSeq(g)) \in Seq(Entry)
  BY AboveType, LastSeqType DEF WalFile
<1> QED
  BY <1>1, PublishType, NoneIsNoRecord DEF ApplyLog

\* What a full load leaves seen: the base's generation, and the stamp given.
LEMMA SeenOfType ==
  ASSUME NEW stamp \in Stamp, NEW b \in BaseFile, NEW w \in WalFile
  PROVE  /\ SeenOf(stamp, b, w) \in Seen
         /\ SeenOf(stamp, b, w).stamp = stamp
         /\ SeenOf(stamp, b, w).gen = b.gen
  BY DEF SeenOf, Seen, LogCurrent, BaseFile, WalFile

----------------------------------------------------------------------------
(* Every action keeps StoreInv. *)

\* The unlocked check for a base changes nothing but the step.
LEMMA CreateBeginInv ==
  ASSUME StoreInv, NEW h \in Handles, CreateBegin(h)
  PROVE  StoreInv'
<1> USE ConstantsOK, NoneIsFresh DEF StoreInv, CreateBegin, Goto, files, memory, batch, ghosts
<1>1. TypeOK'
  BY DEF TypeOK, Steps
<1>2. Defined'
  BY DEF TypeOK, Defined, Live, Closed, Loading, Appending
<1>3. Exclusive'
  BY DEF TypeOK, Exclusive, UnderLock, Appending
<1>4. Generations'
  BY DEF TypeOK, Generations, Live, Closed, Loading, Appending
<1> QED
  BY <1>1, <1>2, <1>3, <1>4

\* Creation lays down a log of generation 1, under the lock.
LEMMA CreateLockInv ==
  ASSUME StoreInv, NEW h \in Handles, CreateLock(h)
  PROVE  StoreInv'
<1> USE ConstantsOK, NoneIsFresh DEF StoreInv, CreateLock, Goto, memory, batch, ghosts
<1>0. base = None => wal' \in WalFile /\ wal' # None /\ wal'.gen = 1
  <2>1. FreshWal(None, 1) \in WalFile /\ FreshWal(None, 1) # None /\ FreshWal(None, 1).gen = 1
    BY FreshWalType
  <2> QED
    BY <2>1 DEF TypeOK, Generations
<1>1. TypeOK'
  BY <1>0 DEF TypeOK, Steps
<1>2. Defined'
  BY <1>0 DEF TypeOK, Defined, Live, Closed, Loading, Appending
<1>3. Exclusive'
  BY <1>0 DEF TypeOK, Exclusive, UnderLock, Appending
<1>4. Generations'
  BY <1>0 DEF TypeOK, Generations, Live, Closed, Loading, Appending
<1> QED
  BY <1>1, <1>2, <1>3, <1>4

\* A load begins.
LEMMA StatBaseInv ==
  ASSUME StoreInv, NEW h \in Handles, StatBase(h)
  PROVE  StoreInv'
<1> USE ConstantsOK, NoneIsFresh DEF StoreInv
<1> DEFINE p == [NoProbe EXCEPT !.opening = pc[h] = "closed", !.stat = base.gen]
<1>0. /\ p \in Probe /\ p.stat = base.gen /\ base.gen \in Nat /\ p.opening = (pc[h] = "closed")
      /\ pc[h] = "closed" => p.opening
      /\ pc[h] = "idle" => ~p.opening
      /\ probe' = [probe EXCEPT ![h] = p]
  <2>1. base \in BaseFile
    BY DEF StatBase, TypeOK, Defined, Closed
  <2> QED
    BY <2>1 DEF StatBase, NoProbe, Probe, BaseFile
<1> HIDE DEF p
<1>a. /\ pc' = [pc EXCEPT ![h] = "stat"]
      /\ pc[h] \in {"closed", "idle"} /\ base # None
      /\ UNCHANGED <<base, wal, lock, goal, served, seen, nextSeq, diskGen, slots, staged,
                     mark, since, used, acked, aborted, mishaps>>
  BY DEF StatBase, Goto, Defined, Closed, files, memory, batch, ghosts
<1>1. TypeOK'
  BY <1>0, <1>a DEF TypeOK, Steps
<1>2. Defined'
  BY <1>0, <1>a DEF TypeOK, Defined, Live, Closed, Loading, Appending
<1>3. Exclusive'
  BY <1>0, <1>a DEF TypeOK, Exclusive, UnderLock, Appending
<1>4. Generations'
  BY <1>0, <1>a DEF TypeOK, Generations, Live, Closed, Loading, Appending
<1> QED
  BY <1>1, <1>2, <1>3, <1>4

\* Staging keeps the invariant.
LEMMA StageInv ==
  ASSUME StoreInv, NEW h \in Handles, NEW op \in Ops, Stage(h, op)
  PROVE  StoreInv'
<1> USE ConstantsOK, NoneIsFresh DEF StoreInv, Stage, files, memory
<1>1. TypeOK'
  BY DEF TypeOK, Steps
<1>2. Defined'
  BY DEF TypeOK, Defined, Live, Closed, Loading, Appending
<1>3. Exclusive'
  BY DEF TypeOK, Exclusive, UnderLock, Appending
<1>4. Generations'
  BY DEF TypeOK, Generations, Live, Closed, Loading, Appending
<1> QED
  BY <1>1, <1>2, <1>3, <1>4

\* So does discarding.
LEMMA DiscardInv ==
  ASSUME StoreInv, NEW h \in Handles, Discard(h)
  PROVE  StoreInv'
<1> USE ConstantsOK, NoneIsFresh DEF StoreInv, Discard, files, memory, ghosts
<1>1. TypeOK'
  BY DEF TypeOK, Steps
<1>2. Defined'
  BY DEF TypeOK, Defined, Live, Closed, Loading, Appending
<1>3. Exclusive'
  BY DEF TypeOK, Exclusive, UnderLock, Appending
<1>4. Generations'
  BY DEF TypeOK, Generations, Live, Closed, Loading, Appending
<1> QED
  BY <1>1, <1>2, <1>3, <1>4

\* Taking the commit lock.
LEMMA AcquireInv ==
  ASSUME StoreInv, NEW h \in Handles, NEW for \in {"commit", "transact", "compact"}, Acquire(h, for)
  PROVE  StoreInv'
<1> USE ConstantsOK, NoneIsFresh DEF StoreInv, Acquire, Goto, files, memory, batch, ghosts
<1>1. TypeOK'
  BY DEF TypeOK, Steps
<1>2. Defined'
  BY DEF TypeOK, Defined, Live, Closed, Loading, Appending
<1>3. Exclusive'
  BY DEF TypeOK, Exclusive, UnderLock, Appending
<1>4. Generations'
  BY DEF TypeOK, Generations, Live, Closed, Loading, Appending
<1> QED
  BY <1>1, <1>2, <1>3, <1>4

\* The stat of the log decides: nothing new, a tail to read, or a full load.
LEMMA StatWalInv ==
  ASSUME StoreInv, NEW h \in Handles, StatWal(h)
  PROVE  StoreInv'
<1> USE DEF StoreInv
<1> DEFINE now == [base |-> probe[h].stat, wal |-> WalStat(wal)]
<1>1. /\ now \in Stamp /\ now # None /\ now.base = probe[h].stat /\ now.wal # None
      /\ now.base <= base.gen
  <2>1. wal \in WalFile /\ probe[h] \in Probe /\ probe[h].stat <= base.gen
    BY DEF StatWal, TypeOK, Defined, Generations, Closed
  <2>2. now \in Stamp
    BY <2>1, WalStatType DEF Stamp, Probe
  <2> QED
    BY <2>1, <2>2, WalStatType, NoneIsNoRecord
<1>2. OnlyGrew(seen[h], now) => now.base <= seen[h].gen
  BY DEF OnlyGrew, Generations
<1> HIDE DEF now
<1>3. PICK to \in {"idle", "tail", "map"}, p \in Probe :
        /\ pc' = [pc EXCEPT ![h] = to]
        /\ probe' = [probe EXCEPT ![h] = p]
        /\ to = "idle" => ~probe[h].opening
        /\ to = "tail" => ~probe[h].opening /\ now.base <= seen[h].gen
        /\ to # "idle" => p.opening = probe[h].opening /\ p.stamp = now
  <2>1. probe[h] \in Probe
    BY DEF TypeOK
  <2>2. CASE ~probe[h].opening /\ seen[h].stamp = now
    <3>1. pc' = [pc EXCEPT ![h] = "idle"] /\ probe' = [probe EXCEPT ![h] = NoProbe]
      BY <2>2 DEF StatWal, Goto, now
    <3>2. NoProbe \in Probe
      BY DEF NoProbe, Probe
    <3> QED
      BY <2>2, <3>1, <3>2
  <2> DEFINE p == [probe[h] EXCEPT !.stamp = now]
  <2>3. p \in Probe /\ p.opening = probe[h].opening /\ p.stamp = now
    BY <1>1, <2>1 DEF Probe
  <2>4. CASE ~probe[h].opening /\ seen[h].stamp # now /\ OnlyGrew(seen[h], now)
    <3>1. pc' = [pc EXCEPT ![h] = "tail"] /\ probe' = [probe EXCEPT ![h] = p]
      BY <2>4 DEF StatWal, Goto, now
    <3> HIDE DEF p
    <3> QED
      BY <1>2, <2>3, <2>4, <3>1
  <2>5. CASE probe[h].opening \/ (seen[h].stamp # now /\ ~OnlyGrew(seen[h], now))
    <3>1. pc' = [pc EXCEPT ![h] = "map"] /\ probe' = [probe EXCEPT ![h] = p]
      BY <2>5 DEF StatWal, Goto, now
    <3> HIDE DEF p
    <3> QED
      BY <1>2, <2>3, <2>5, <3>1
  <2> QED
    BY <2>2, <2>4, <2>5
<1>4. /\ pc[h] = "stat" /\ base # None
      /\ UNCHANGED <<base, wal, lock, goal, served, seen, nextSeq, diskGen, slots, staged,
                     mark, since, used, acked, aborted, mishaps>>
  BY DEF StatWal, Defined, Closed, files, memory, batch, ghosts
<1>5. TypeOK'
  BY <1>3, <1>4 DEF TypeOK, Steps
<1>6. Defined'
  BY <1>1, <1>3, <1>4 DEF TypeOK, Defined, Live, Closed, Loading, Appending
<1>7. Exclusive'
  BY <1>3, <1>4 DEF TypeOK, Exclusive, UnderLock, Appending
<1>8. Generations'
  BY <1>1, <1>3, <1>4 DEF TypeOK, Generations, Live, Closed, Loading, Appending
<1> QED
  BY <1>5, <1>6, <1>7, <1>8

\* Mapping the base: it is no older than the stat.
LEMMA MapBaseInv ==
  ASSUME StoreInv, NEW h \in Handles, MapBase(h)
  PROVE  StoreInv'
<1> USE DEF StoreInv
<1> DEFINE p == [probe[h] EXCEPT !.map = base]
<1>1. /\ pc[h] = "map" /\ base \in BaseFile /\ base # None /\ base.gen \in Nat
      /\ pc' = [pc EXCEPT ![h] = "read"]
      /\ UNCHANGED <<base, wal, lock, goal, served, seen, nextSeq, diskGen, slots, staged,
                     mark, since, used, acked, aborted, mishaps>>
  BY DEF MapBase, TypeOK, Defined, BaseFile, Goto, Closed, files, memory, batch, ghosts
<1>2. /\ p \in Probe /\ p.opening = probe[h].opening /\ p.stamp = probe[h].stamp
      /\ p.map = base /\ probe' = [probe EXCEPT ![h] = p]
  BY <1>1 DEF MapBase, TypeOK, Probe
<1> HIDE DEF p
<1>3. TypeOK'
  BY <1>1, <1>2 DEF TypeOK, Steps
<1>4. Defined'
  BY <1>1, <1>2 DEF TypeOK, Defined, Live, Closed, Loading, Appending
<1>5. Exclusive'
  BY <1>1, <1>2 DEF TypeOK, Exclusive, UnderLock, Appending
<1>6. Generations'
  BY <1>1, <1>2 DEF TypeOK, Generations, Live, Closed, Loading, Appending
<1> QED
  BY <1>3, <1>4, <1>5, <1>6

----------------------------------------------------------------------------
(* Loading: what a handle serves, has seen and counts from, replaced.      *)

Loaded(h, g, s, n, d, k) ==
  /\ served'  = [served EXCEPT ![h] = g]
  /\ seen'    = [seen EXCEPT ![h] = s]
  /\ nextSeq' = [nextSeq EXCEPT ![h] = n]
  /\ diskGen' = [diskGen EXCEPT ![h] = d]
  /\ slots'   = [slots EXCEPT ![h] = k]

\* Adopting g and s leaves a positive next number and knows s's generation.
LEMMA AdoptLoads ==
  ASSUME TypeOK, NEW h \in Handles, NEW g \in Generation, NEW s \in Seen, Adopt(h, g, s),
         NEW k, slots' = [slots EXCEPT ![h] = k]
  PROVE  \E n \in Nat \ {0}, d \in Nat : s.gen <= d /\ Loaded(h, g, s, n, d, k)
<1> DEFINE n == Max2(nextSeq[h], FirstFree(g))
           d == Max2(diskGen[h], s.gen)
<1>1. n \in Nat \ {0}
  BY LastSeqType DEF TypeOK, Max2
<1>2. d \in Nat /\ s.gen <= d
  BY DEF TypeOK, Max2, Seen
<1>3. Loaded(h, g, s, n, d, k)
  BY DEF Adopt, Loaded
<1> HIDE DEF n, d
<1> QED
  BY <1>1, <1>2, <1>3

\* Assembling a handle does the same from scratch.
LEMMA AssembleLoads ==
  ASSUME TypeOK, NEW h \in Handles, NEW b \in BaseFile, NEW stamp \in Stamp,
         wal \in WalFile, Assemble(h, b, wal, stamp)
  PROVE  \E g \in Generation, n \in Nat \ {0}, k \in 0..GenSlots :
           g # None /\ Loaded(h, g, SeenOf(stamp, b, wal), n, b.gen, k)
<1> DEFINE g == Build(b, wal)
           n == FirstFree(g)
<1>1. g \in Generation /\ g # None
  BY BuildType
<1>2. n \in Nat \ {0}
  BY <1>1, LastSeqType
<1>3. Loaded(h, g, SeenOf(stamp, b, wal), n, b.gen, 1)
  BY DEF Assemble, Loaded
<1>4. 1 \in 0..GenSlots
  BY ConstantsOK
<1> HIDE DEF g, n
<1> QED
  BY <1>1, <1>2, <1>3, <1>4

\* Whichever way install_or_apply goes, it leaves a generation served.
LEMMA InstallLoads ==
  ASSUME TypeOK, NEW h \in Handles, served[h] # None, NEW b \in BaseFile, wal \in WalFile,
         NEW s \in Seen, InstallOrApply(h, b, wal, s)
  PROVE  \E g \in Generation, n \in Nat \ {0}, d \in Nat, k \in 0..GenSlots :
           g # None /\ s.gen <= d /\ Loaded(h, g, s, n, d, k)
<1>1. served[h] \in Generation /\ slots[h] \in 0..GenSlots
  BY DEF TypeOK
<1>2. UNCHANGED slots => slots' = [slots EXCEPT ![h] = slots[h]]
  BY DEF TypeOK
<1>3. CASE Adopt(h, ApplyLog(served[h], b, wal), s) /\ UNCHANGED slots
  <2>1. ApplyLog(served[h], b, wal) \in Generation /\ ApplyLog(served[h], b, wal) # None
    BY <1>1, ApplyLogType
  <2> QED
    BY <1>1, <1>2, <1>3, <2>1, AdoptLoads
<1>4. CASE Adopt(h, Build(b, wal), s) /\ slots' = [slots EXCEPT ![h] = Min2(GenSlots, @ + 1)]
  <2>1. Build(b, wal) \in Generation /\ Build(b, wal) # None
    BY BuildType
  <2>2. Min2(GenSlots, slots[h] + 1) \in 0..GenSlots
    BY <1>1, ConstantsOK DEF Min2
  <2> QED
    BY <1>4, <2>1, <2>2, AdoptLoads
<1> QED
  BY <1>3, <1>4 DEF InstallOrApply

\* A step that leaves h with generation g served, s seen, and so on, at a
\* step of the code where that may happen.
LoadStep(h, to, g, s, n, d, k, m, p) ==
  /\ to \in {"idle", "mend", "append", "txn", "fold"}
  /\ to \in {"idle", "mend"} => pc[h] \in {"tail", "read", "mend"}
  /\ to \notin {"idle", "mend"} => pc[h] = "sync" /\ s.stamp # None /\ base.gen <= d
  /\ g \in Generation /\ g # None
  /\ s \in Seen /\ s.gen <= base.gen /\ s.stamp.wal # None /\ s.stamp.base <= s.gen
  /\ n \in Nat \ {0} /\ d \in Nat /\ k \in 0..GenSlots /\ p \in Probe
  /\ m \in 0..Len(staged[h]) /\ (m = 0 \/ to = "txn")
  /\ wal' \in WalFile /\ wal' # None /\ wal'.gen <= base.gen
  /\ Loaded(h, g, s, n, d, k)
  /\ pc' = [pc EXCEPT ![h] = to] /\ mark' = [mark EXCEPT ![h] = m]
  /\ probe' = [probe EXCEPT ![h] = p]
  /\ UNCHANGED <<base, lock, goal, staged, since, used, acked, aborted, mishaps>>

\* Whoever loads, at whatever step, what it has loaded keeps the invariant.
LEMMA LoadedInv ==
  ASSUME StoreInv, NEW h \in Handles,
         NEW to, NEW g, NEW s, NEW n, NEW d, NEW k, NEW m, NEW p,
         LoadStep(h, to, g, s, n, d, k, m, p)
  PROVE  StoreInv'
<1> USE DEF StoreInv, Loaded, LoadStep
<1>1. TypeOK'
  BY DEF TypeOK, Steps
<1>2. Defined'
  BY SMTT(40) DEF TypeOK, Defined, Live, Closed, Loading, Appending
<1>3. Exclusive'
  BY DEF TypeOK, Exclusive, UnderLock, Appending
<1>4. Generations'
  BY DEF TypeOK, Defined, Generations, Live, Closed, Loading, Appending
<1> QED
  BY <1>1, <1>2, <1>3, <1>4

\* The stamp of both files.
LEMMA StampOfType ==
  ASSUME NEW b \in BaseFile, NEW w \in WalFile
  PROVE  /\ StampOf(b, w) \in Stamp /\ StampOf(b, w) # None
         /\ StampOf(b, w).base = b.gen /\ StampOf(b, w).wal # None
<1>1. StampOf(b, w) \in Stamp
  BY WalStatType DEF StampOf, Stamp, BaseFile
<1> QED
  BY <1>1, WalStatType, NoneIsNoRecord DEF StampOf

\* Catching up under the lock ends with the files' stamp, and no later
\* generation than the base's.
LEMMA CaughtSeenType ==
  ASSUME StoreInv, NEW h \in Handles, served[h] # None, base \in BaseFile, wal \in WalFile,
         NEW now \in Stamp, now.base = base.gen, base # None
  PROVE  /\ CaughtSeen(h, now) \in Seen
         /\ CaughtSeen(h, now).stamp = now
         /\ CaughtSeen(h, now).gen = base.gen
<1>1. seen[h] \in Seen /\ served[h] \in Generation /\ base.gen \in Nat /\ seen[h].gen \in Nat
  BY DEF StoreInv, TypeOK, BaseFile, Seen
<1>2. seen[h].gen <= base.gen
  BY DEF StoreInv, Generations
<1>3. now # None
  BY NoneIsNoRecord
<1>4. CASE seen[h].stamp = now
  <2>1. now.base <= seen[h].gen
    BY <1>3, <1>4 DEF StoreInv, Generations
  <2> QED
    BY <1>1, <1>2, <1>4, <2>1 DEF CaughtSeen
<1>5. CASE seen[h].stamp # now /\ OnlyGrew(seen[h], now)
  <2> DEFINE pos == TailRead(served[h], seen[h], wal).pos
  <2>1. pos \in Nat
    BY <1>1, TailReadType
  <2>2. now.base <= seen[h].gen
    BY <1>5 DEF OnlyGrew, StoreInv, Generations
  <2>3. CaughtSeen(h, now) = [seen[h] EXCEPT !.stamp = now, !.pos = pos]
    BY <1>5 DEF CaughtSeen
  <2> HIDE DEF pos
  <2>4. [seen[h] EXCEPT !.stamp = now, !.pos = pos] \in Seen
    BY <1>1, <2>1 DEF Seen
  <2>5. /\ [seen[h] EXCEPT !.stamp = now, !.pos = pos].stamp = now
        /\ [seen[h] EXCEPT !.stamp = now, !.pos = pos].gen = seen[h].gen
    BY <1>1 DEF Seen
  <2>6. seen[h].gen = base.gen
    BY <1>1, <1>2, <2>2
  <2> QED
    BY <2>3, <2>4, <2>5, <2>6
<1>6. CASE seen[h].stamp # now /\ ~OnlyGrew(seen[h], now)
  BY <1>6, SeenOfType DEF CaughtSeen
<1> QED
  BY <1>4, <1>5, <1>6

\* Repair leaves a log no newer than the base, and a stamp that names it.
LEMMA RepairType ==
  ASSUME base \in BaseFile, wal \in WalFile, wal.gen <= base.gen,
         NEW s \in Seen, s.stamp \in Stamp, s.stamp.wal # None, s.stamp.base = base.gen,
         s.gen = base.gen
  PROVE  /\ RepairedWal(s) \in WalFile /\ RepairedWal(s).gen <= base.gen
         /\ RepairedSeen(s) \in Seen /\ RepairedSeen(s).gen = base.gen
         /\ RepairedSeen(s).stamp \in Stamp /\ RepairedSeen(s).stamp.wal # None
         /\ RepairedSeen(s).stamp.base = base.gen
<1>1. s.gen \in Nat /\ s.pos \in Nat /\ s.current \in BOOLEAN /\ base.gen \in Nat
  BY DEF Seen, BaseFile
<1> DEFINE fresh == FreshWal(wal, s.gen)
<1>2. fresh \in WalFile /\ fresh.gen = s.gen
  BY <1>1, FreshWalType
<1>3. CutTo(wal, s.pos) \in WalFile /\ CutTo(wal, s.pos).gen = wal.gen
  BY <1>1, CutToType
<1>4. RepairedWal(s) \in {fresh, CutTo(wal, s.pos), wal}
  BY <1>1 DEF RepairedWal
<1>5. RepairedWal(s) \in WalFile /\ RepairedWal(s).gen <= base.gen
  <2> HIDE DEF fresh
  <2> QED
    BY <1>1, <1>2, <1>3, <1>4
<1>6. CASE s.current
  <2> DEFINE len == Min2(s.stamp.wal.len, OpLen * s.pos)
             id  == [s.stamp.wal EXCEPT !.len = len]
             st  == [s.stamp EXCEPT !.wal = id]
  <2>1. s.stamp.wal \in WalId
    BY DEF Stamp
  <2>2. len \in Nat
    BY <1>1, <2>1, ConstantsOK DEF Min2, WalId
  <2>3. id \in WalId
    <3> HIDE DEF len
    <3> QED BY <2>1, <2>2 DEF WalId
  <2>4. st \in Stamp /\ st.wal = id /\ st.base = s.stamp.base
    <3> HIDE DEF id
    <3> QED BY <2>3 DEF Stamp
  <2>5. RepairedSeen(s) = [s EXCEPT !.stamp = st]
    BY <1>6 DEF RepairedSeen, Seen
  <2>6. id # None
    BY <2>3, NoneIsNoRecord
  <2>7. [s EXCEPT !.stamp = st] \in Seen /\ [s EXCEPT !.stamp = st].stamp = st
        /\ [s EXCEPT !.stamp = st].gen = s.gen
    <3> HIDE DEF st
    <3> QED BY <2>4 DEF Seen
  <2> HIDE DEF st, id
  <2> QED
    BY <1>5, <2>4, <2>5, <2>6, <2>7
<1>7. CASE ~s.current
  <2> DEFINE st == StampOf(base, fresh)
  <2>1. st \in Stamp /\ st.base = base.gen /\ st.wal # None
    BY <1>2, StampOfType
  <2>2. RepairedSeen(s) = [stamp |-> st, pos |-> 0, current |-> TRUE, gen |-> s.gen]
    BY <1>7 DEF RepairedSeen
  <2> HIDE DEF st
  <2> QED
    BY <1>1, <1>5, <2>1, <2>2 DEF Seen
<1> QED
  BY <1>1, <1>6, <1>7

\* sync under the lock: the handle has caught up with the base's generation,
\* and the log is not ahead of it.
LEMMA SyncLoads ==
  ASSUME StoreInv, NEW h \in Handles, served[h] # None, base # None, SyncRepair(h)
  PROVE  /\ wal' \in WalFile /\ wal' # None /\ wal'.gen <= base.gen
         /\ \E g \in Generation, s \in Seen, n \in Nat \ {0}, d \in Nat, k \in 0..GenSlots :
              /\ g # None /\ Loaded(h, g, s, n, d, k)
              /\ s.stamp # None /\ s.stamp.wal # None
              /\ s.stamp.base <= s.gen /\ s.gen <= base.gen /\ base.gen <= d
<1> DEFINE now == StampOf(base, wal)
           c == CaughtSeen(h, now)
           s == RepairedSeen(c)
<1>1. base \in BaseFile /\ base.gen \in Nat /\ wal \in WalFile /\ wal.gen <= base.gen
  BY DEF StoreInv, TypeOK, Defined, Generations, BaseFile
<1>2. now \in Stamp /\ now.base = base.gen /\ now.wal # None
  BY <1>1, StampOfType
<1>3. c \in Seen /\ c.stamp = now /\ c.gen = base.gen
  <2> HIDE DEF now
  <2> QED BY <1>1, <1>2, CaughtSeenType
<1>4. wal' = RepairedWal(c)
  BY DEF SyncRepair
<1>5. /\ wal' \in WalFile /\ wal'.gen <= base.gen
      /\ s \in Seen /\ s.gen = base.gen /\ s.stamp \in Stamp /\ s.stamp.wal # None
      /\ s.stamp.base = base.gen
  <2> HIDE DEF now, c
  <2> QED BY <1>1, <1>2, <1>3, <1>4, RepairType
<1>6. served[h] \in Generation /\ seen[h] \in Seen /\ slots[h] \in 0..GenSlots
      /\ (UNCHANGED slots => slots' = [slots EXCEPT ![h] = slots[h]])
  BY DEF StoreInv, TypeOK
<1>7. \E g \in Generation, n \in Nat \ {0}, d \in Nat, k \in 0..GenSlots :
        g # None /\ s.gen <= d /\ Loaded(h, g, s, n, d, k)
  <2>1. CASE Adopt(h, served[h], s) /\ UNCHANGED slots
    <3> HIDE DEF s
    <3> QED BY <1>5, <1>6, <2>1, AdoptLoads DEF StoreInv
  <2>2. CASE Adopt(h, TailRead(served[h], seen[h], wal).served, s) /\ UNCHANGED slots
    <3>1. TailRead(served[h], seen[h], wal).served \in Generation
          /\ TailRead(served[h], seen[h], wal).served # None
      BY <1>1, <1>6, TailReadType
    <3> HIDE DEF s
    <3> QED BY <1>5, <1>6, <2>2, <3>1, AdoptLoads DEF StoreInv
  <2>3. CASE InstallOrApply(h, base, wal, s)
    <3> HIDE DEF s
    <3> QED BY <1>1, <1>5, <2>3, InstallLoads DEF StoreInv
  <2> QED
    BY <2>1, <2>2, <2>3 DEF SyncRepair
<1> HIDE DEF s
<1> QED
  BY <1>1, <1>5, <1>7, NoneIsNoRecord

----------------------------------------------------------------------------
(* The actions that load. *)

\* Outside a transaction and its append there is no mark to keep.
LEMMA NoMark ==
  ASSUME StoreInv, NEW h \in Handles, pc[h] \notin Appending, UNCHANGED mark
  PROVE  0 \in 0..Len(staged[h]) /\ mark' = [mark EXCEPT ![h] = 0]
<1>1. staged[h] \in Seq(Ops) /\ mark[h] \in Nat /\ ~(mark[h] > 0)
  BY DEF StoreInv, TypeOK, Defined
<1>2. Len(staged[h]) \in Nat /\ mark[h] = 0
  BY <1>1
<1>3. mark = [mark EXCEPT ![h] = mark[h]]
  BY DEF StoreInv, TypeOK
<1> QED
  BY <1>2, <1>3

\* Nothing is being loaded.
LEMMA NoProbeType == NoProbe \in Probe
  BY DEF NoProbe, Probe

\* The log read from the remembered offset, whichever file it is by now.
LEMMA ReloadTailInv ==
  ASSUME StoreInv, NEW h \in Handles, ReloadTail(h)
  PROVE  StoreInv'
<1> USE DEF StoreInv
<1> DEFINE r == TailRead(served[h], seen[h], wal)
           s == [seen[h] EXCEPT !.stamp = probe[h].stamp, !.pos = r.pos]
<1>1. /\ pc[h] = "tail" /\ base # None /\ wal \in WalFile /\ wal # None /\ wal.gen <= base.gen
      /\ served[h] \in Generation /\ seen[h] \in Seen /\ slots[h] \in 0..GenSlots
      /\ probe[h] \in Probe /\ probe[h].stamp \in Stamp /\ probe[h].stamp.wal # None
      /\ probe[h].stamp.base <= seen[h].gen /\ seen[h].gen <= base.gen
  BY DEF ReloadTail, TypeOK, Defined, Generations, Live, Closed, Loading, Probe
<1>2. r.served \in Generation /\ r.served # None /\ r.pos \in Nat
  BY <1>1, TailReadType
<1> HIDE DEF r
<1>3. s \in Seen /\ s.stamp = probe[h].stamp /\ s.gen = seen[h].gen
  BY <1>1, <1>2 DEF Seen
<1>4. Adopt(h, r.served, s) /\ slots' = [slots EXCEPT ![h] = slots[h]]
  BY DEF ReloadTail, TypeOK, r
<1> HIDE DEF s
<1>5. PICK n \in Nat \ {0}, d \in Nat : Loaded(h, r.served, s, n, d, slots[h])
  BY <1>2, <1>3, <1>4, AdoptLoads
<1>6. /\ wal' = wal /\ UNCHANGED mark
      /\ pc' = [pc EXCEPT ![h] = "idle"] /\ probe' = [probe EXCEPT ![h] = NoProbe]
      /\ UNCHANGED <<base, lock, goal, staged, since, used, acked, aborted, mishaps>>
  BY DEF ReloadTail, Goto, files, batch, ghosts
<1>7. 0 \in 0..Len(staged[h]) /\ mark' = [mark EXCEPT ![h] = 0]
  BY <1>1, <1>6, NoMark DEF Appending
<1>8. /\ s.gen <= base.gen /\ s.stamp.wal # None /\ s.stamp.base <= s.gen
      /\ wal' \in WalFile /\ wal' # None /\ wal'.gen <= base.gen
  BY <1>1, <1>3, <1>6
<1>9. LoadStep(h, "idle", r.served, s, n, d, slots[h], 0, NoProbe)
  BY <1>1, <1>2, <1>3, <1>5, <1>6, <1>7, <1>8, NoProbeType DEF LoadStep
<1> QED
  BY <1>9, LoadedInv

\* A step of h that ends its load, keeping what it had.
LEMMA LoadEndsInv ==
  ASSUME StoreInv, NEW h \in Handles, pc[h] = "read",
         NEW to \in {"idle", "closed"}, to = "closed" <=> probe[h].opening,
         pc' = [pc EXCEPT ![h] = to], probe' = [probe EXCEPT ![h] = NoProbe],
         UNCHANGED <<base, wal, lock, goal, served, seen, nextSeq, diskGen, slots, staged,
                     mark, since, used, acked, aborted, mishaps>>
  PROVE  StoreInv'
<1> USE NoProbeType DEF StoreInv
<1>1. TypeOK'
  BY DEF TypeOK, Steps
<1>2. Defined'
  BY DEF TypeOK, Defined, Live, Closed, Loading, Appending
<1>3. Exclusive'
  BY DEF TypeOK, Exclusive, UnderLock, Appending
<1>4. Generations'
  BY DEF TypeOK, Generations, Live, Closed, Loading, Appending
<1> QED
  BY <1>1, <1>2, <1>3, <1>4

\* A step of h that ends its load with a generation of base b.
LEMMA LoadDoneInv ==
  ASSUME StoreInv, NEW h \in Handles, pc[h] \in {"read", "mend"}, NEW b \in BaseFile, b.gen <= base.gen,
         NEW stamp \in Stamp, stamp.wal # None, stamp.base <= b.gen,
         NEW g \in Generation, g # None, NEW n \in Nat \ {0}, NEW d \in Nat, NEW k \in 0..GenSlots,
         Loaded(h, g, SeenOf(stamp, b, wal), n, d, k),
         NEW to \in {"idle", "mend"}, pc' = [pc EXCEPT ![h] = to],
         probe' = [probe EXCEPT ![h] = NoProbe],
         UNCHANGED <<base, wal, lock, goal, staged, mark, since, used, acked, aborted, mishaps>>
  PROVE  StoreInv'
<1> DEFINE s == SeenOf(stamp, b, wal)
<1>1. wal \in WalFile /\ wal # None /\ wal.gen <= base.gen
  BY DEF StoreInv, TypeOK, Defined, Generations, Closed
<1>2. s \in Seen /\ s.stamp = stamp /\ s.gen = b.gen
  BY <1>1, SeenOfType
<1> HIDE DEF s
<1>3. 0 \in 0..Len(staged[h]) /\ mark' = [mark EXCEPT ![h] = 0]
  BY NoMark DEF Appending
<1>4. Loaded(h, g, s, n, d, k)
  BY DEF s
<1>5. /\ s.gen <= base.gen /\ s.stamp.wal # None /\ s.stamp.base <= s.gen
      /\ wal' \in WalFile /\ wal' # None /\ wal'.gen <= base.gen
  BY <1>1, <1>2
<1>6. LoadStep(h, to, g, s, n, d, k, 0, NoProbe)
  BY <1>2, <1>3, <1>4, <1>5, NoProbeType DEF LoadStep
<1> QED
  BY <1>6, LoadedInv

\* The log read against a base no older than it: open or reload is done.
LEMMA LoadReadInv ==
  ASSUME StoreInv, NEW h \in Handles, LoadRead(h)
  PROVE  StoreInv'
<1> DEFINE b == probe[h].map
           stamp == probe[h].stamp
<1>1. /\ pc[h] = "read" /\ base # None /\ b \in BaseFile /\ b.gen <= base.gen
      /\ wal \in WalFile /\ probe[h] \in Probe
      /\ stamp \in Stamp /\ stamp.wal # None /\ stamp.base <= b.gen
  BY DEF StoreInv, LoadRead, TypeOK, Defined, Generations, Closed, Probe
<1>2. /\ probe' = [probe EXCEPT ![h] = NoProbe]
      /\ UNCHANGED <<base, wal, lock, goal, staged, mark, since, used, acked, aborted, mishaps>>
  BY DEF LoadRead, files, batch, ghosts
<1>3. CASE /\ Assemble(h, b, wal, stamp)
           /\ \E to \in {"idle", "mend"} : pc' = [pc EXCEPT ![h] = to]
  <2> HIDE DEF b, stamp
  <2>1. PICK g \in Generation, n \in Nat \ {0}, k \in 0..GenSlots :
          g # None /\ Loaded(h, g, SeenOf(stamp, b, wal), n, b.gen, k)
    BY <1>1, <1>3, AssembleLoads DEF StoreInv
  <2>2. b.gen \in Nat
    BY <1>1 DEF BaseFile
  <2> QED
    BY <1>1, <1>2, <1>3, <2>1, <2>2, LoadDoneInv
<1>4. CASE /\ ~probe[h].opening /\ InstallOrApply(h, b, wal, SeenOf(stamp, b, wal))
           /\ pc' = [pc EXCEPT ![h] = "idle"]
  <2>1. served[h] # None
    BY <1>1, <1>4 DEF StoreInv, Defined, Live, Closed, Loading
  <2>2. SeenOf(stamp, b, wal) \in Seen
    BY <1>1, SeenOfType
  <2> HIDE DEF b, stamp
  <2>3. PICK g \in Generation, n \in Nat \ {0}, d \in Nat, k \in 0..GenSlots :
          g # None /\ Loaded(h, g, SeenOf(stamp, b, wal), n, d, k)
    BY <1>1, <1>4, <2>1, <2>2, InstallLoads DEF StoreInv
  <2> QED
    BY <1>1, <1>2, <1>4, <2>3, LoadDoneInv
<1>5. CASE ~probe[h].opening /\ UNCHANGED memory /\ pc' = [pc EXCEPT ![h] = "idle"]
  BY <1>1, <1>2, <1>5, LoadEndsInv DEF memory
<1> QED
  BY <1>3, <1>4, <1>5 DEF LoadRead, Goto

\* A log newer than the base mapped: again, give up, or load under the lock.
LEMMA LoadAgainInv ==
  ASSUME StoreInv, NEW h \in Handles, LoadAgain(h)
  PROVE  StoreInv'
<1> DEFINE stamp == probe[h].stamp
<1>1. /\ pc[h] = "read" /\ base # None /\ base \in BaseFile /\ base.gen \in Nat
      /\ wal \in WalFile /\ probe[h] \in Probe
      /\ stamp \in Stamp /\ stamp.wal # None /\ stamp.base <= base.gen
  BY DEF StoreInv, LoadAgain, TypeOK, Defined, Generations, Closed, Probe, BaseFile
<1>2. UNCHANGED <<base, wal, lock, goal, staged, mark, since, used, acked, aborted, mishaps>>
  BY DEF LoadAgain, files, batch, ghosts
<1>3. CASE /\ pc' = [pc EXCEPT ![h] = "map"] /\ UNCHANGED memory
           /\ probe' = [probe EXCEPT ![h].map = None, ![h].tries = @ + 1]
  <2> DEFINE p == [probe[h] EXCEPT !.map = None, !.tries = @ + 1]
  <2>1. p \in Probe /\ p.opening = probe[h].opening /\ p.stamp = stamp
    <3>1. probe[h].tries + 1 \in Nat
      BY <1>1 DEF Probe
    <3>2. p = [probe[h] EXCEPT !.map = None, !.tries = probe[h].tries + 1]
      BY <1>1 DEF Probe
    <3>3. p \in Probe
      BY <1>1, <3>1, <3>2 DEF Probe
    <3>4. p.opening = probe[h].opening /\ p.stamp = stamp
      BY <1>1 DEF Probe
    <3> QED
      BY <3>3, <3>4
  <2>2. probe' = [probe EXCEPT ![h] = p]
    BY <1>3 DEF StoreInv, TypeOK
  <2> HIDE DEF p
  <2> USE <1>1, <1>2, <1>3, <2>1, <2>2 DEF StoreInv, memory
  <2>3. TypeOK'
    BY DEF TypeOK, Steps
  <2>4. Defined'
    BY DEF TypeOK, Defined, Live, Closed, Loading, Appending
  <2>5. Exclusive'
    BY DEF TypeOK, Exclusive, UnderLock, Appending
  <2>6. Generations'
    BY DEF TypeOK, Generations, Live, Closed, Loading, Appending
  <2> QED
    BY <2>3, <2>4, <2>5, <2>6
<1>4. CASE /\ pc' = [pc EXCEPT ![h] = IF probe[h].opening THEN "closed" ELSE "idle"]
           /\ probe' = [probe EXCEPT ![h] = NoProbe] /\ UNCHANGED memory
  <2> DEFINE to == IF probe[h].opening THEN "closed" ELSE "idle"
  <2>1. to \in {"idle", "closed"} /\ (to = "closed" <=> probe[h].opening)
    BY <1>1 DEF Probe
  <2> HIDE DEF to
  <2>2. pc' = [pc EXCEPT ![h] = to]
    BY <1>4 DEF to
  <2> QED
    BY <1>1, <1>2, <1>4, <2>1, <2>2, LoadEndsInv DEF memory
<1>5. CASE /\ Assemble(h, base, wal, stamp)
           /\ \E to \in {"idle", "mend"} : pc' = [pc EXCEPT ![h] = to]
           /\ probe' = [probe EXCEPT ![h] = NoProbe]
  <2> HIDE DEF stamp
  <2>1. PICK g \in Generation, n \in Nat \ {0}, k \in 0..GenSlots :
          g # None /\ Loaded(h, g, SeenOf(stamp, base, wal), n, base.gen, k)
    BY <1>1, <1>5, AssembleLoads DEF StoreInv
  <2>2. base.gen <= base.gen
    BY <1>1
  <2> QED
    BY <1>1, <1>2, <1>5, <2>1, <2>2, LoadDoneInv
<1> QED
  BY <1>3, <1>4, <1>5 DEF LoadAgain, Goto

\* repair_now at open.
LEMMA MendInv ==
  ASSUME StoreInv, NEW h \in Handles, Mend(h)
  PROVE  StoreInv'
<1>1. /\ pc[h] = "mend" /\ base # None /\ served[h] # None
      /\ pc' = [pc EXCEPT ![h] = "idle"]
      /\ UNCHANGED <<base, lock, goal, staged, mark, since, probe, used, acked, aborted, mishaps>>
  BY DEF StoreInv, Mend, Defined, Live, Closed, Loading, Goto, batch, ghosts
<1>2. CASE UNCHANGED <<wal, memory>>
  <2> USE <1>1, <1>2 DEF StoreInv, memory
  <2>1. TypeOK'
    BY DEF TypeOK, Steps
  <2>2. Defined'
    BY DEF TypeOK, Defined, Live, Closed, Loading, Appending
  <2>3. Exclusive'
    BY DEF TypeOK, Exclusive, UnderLock, Appending
  <2>4. Generations'
    BY DEF TypeOK, Generations, Live, Closed, Loading, Appending
  <2> QED
    BY <2>1, <2>2, <2>3, <2>4
<1>3. CASE SyncRepair(h)
  <2>1. wal' \in WalFile /\ wal' # None /\ wal'.gen <= base.gen
    BY <1>1, <1>3, SyncLoads
  <2>2. PICK g \in Generation, s \in Seen, n \in Nat \ {0}, d \in Nat, k \in 0..GenSlots :
          /\ g # None /\ Loaded(h, g, s, n, d, k)
          /\ s.stamp # None /\ s.stamp.wal # None
          /\ s.stamp.base <= s.gen /\ s.gen <= base.gen /\ base.gen <= d
    BY <1>1, <1>3, SyncLoads
  <2>3. probe[h] \in Probe /\ probe' = [probe EXCEPT ![h] = probe[h]]
    BY <1>1 DEF StoreInv, TypeOK
  <2>4. 0 \in 0..Len(staged[h]) /\ mark' = [mark EXCEPT ![h] = 0]
    BY <1>1, NoMark DEF Appending
  <2>5. LoadStep(h, "idle", g, s, n, d, k, 0, probe[h])
    BY <1>1, <2>1, <2>2, <2>3, <2>4 DEF LoadStep
  <2> QED
    BY <2>5, LoadedInv
<1> QED
  BY <1>2, <1>3 DEF Mend

----------------------------------------------------------------------------
(* The actions under the commit lock. *)

\* sync, then append, run the transaction's body, or fold.
LEMMA SyncInv ==
  ASSUME StoreInv, NEW h \in Handles, Sync(h)
  PROVE  StoreInv'
<1>1. /\ pc[h] = "sync" /\ base # None /\ served[h] # None
      /\ UNCHANGED <<base, staged, since, probe, used, acked, aborted, mishaps>>
  BY DEF StoreInv, Sync, Defined, Live, Closed, Loading, ghosts
<1>2. CASE SyncBusy(h) /\ Return(h) /\ UNCHANGED <<wal, memory, mark>>
  <2> USE <1>1, <1>2, NoneIsFresh DEF StoreInv, memory, Return, Goto
  <2>1. TypeOK'
    BY DEF TypeOK, Steps
  <2>2. Defined'
    BY DEF TypeOK, Defined, Live, Closed, Loading, Appending
  <2>3. Exclusive'
    BY DEF TypeOK, Exclusive, UnderLock, Appending
  <2>4. Generations'
    BY DEF TypeOK, Generations, Live, Closed, Loading, Appending
  <2> QED
    BY <2>1, <2>2, <2>3, <2>4
<1>3. CASE /\ SyncRepair(h) /\ UNCHANGED <<lock, goal>>
           /\ Goto(h, CASE goal[h] = "commit"   -> "append"
                        [] goal[h] = "transact" -> "txn"
                        [] goal[h] = "compact"  -> "fold")
           /\ mark' = IF goal[h] = "transact"
                       THEN [mark EXCEPT ![h] = Len(staged[h])] ELSE mark
  <2>1. wal' \in WalFile /\ wal' # None /\ wal'.gen <= base.gen
    BY <1>1, <1>3, SyncLoads
  <2>2. PICK g \in Generation, s \in Seen, n \in Nat \ {0}, d \in Nat, k \in 0..GenSlots :
          /\ g # None /\ Loaded(h, g, s, n, d, k)
          /\ s.stamp # None /\ s.stamp.wal # None
          /\ s.stamp.base <= s.gen /\ s.gen <= base.gen /\ base.gen <= d
    BY <1>1, <1>3, SyncLoads
  <2>3. probe[h] \in Probe /\ probe' = [probe EXCEPT ![h] = probe[h]]
    BY <1>1 DEF StoreInv, TypeOK
  <2>4. PICK to \in {"append", "txn", "fold"}, m \in 0..Len(staged[h]) :
          /\ pc' = [pc EXCEPT ![h] = to] /\ mark' = [mark EXCEPT ![h] = m]
          /\ m = 0 \/ to = "txn"
    <3>1. CASE goal[h] = "transact"
      <4>1. pc' = [pc EXCEPT ![h] = "txn"] /\ mark' = [mark EXCEPT ![h] = Len(staged[h])]
        BY <1>3, <3>1 DEF Goto
      <4>2. Len(staged[h]) \in 0..Len(staged[h])
        BY DEF StoreInv, TypeOK
      <4> QED
        BY <4>1, <4>2
    <3>2. CASE goal[h] # "transact"
      <4>1. UNCHANGED mark
        BY <1>3, <3>2
      <4>2. 0 \in 0..Len(staged[h]) /\ mark' = [mark EXCEPT ![h] = 0]
        BY <1>1, <4>1, NoMark DEF Appending
      <4>3. goal[h] \in {"commit", "compact"}
        BY <1>1, <3>2 DEF StoreInv, TypeOK, Defined
      <4>4. \E to \in {"append", "fold"} : pc' = [pc EXCEPT ![h] = to]
        BY <1>3, <4>3 DEF Goto
      <4> QED
        BY <4>2, <4>4
    <3> QED
      BY <3>1, <3>2
  <2>5. LoadStep(h, to, g, s, n, d, k, m, probe[h])
    BY <1>1, <1>3, <2>1, <2>2, <2>3, <2>4 DEF LoadStep
  <2> QED
    BY <2>5, LoadedInv
<1> QED
  BY <1>2, <1>3 DEF Sync

\* Creation's last step: the first base, over a log of its generation.
LEMMA CreateBaseInv ==
  ASSUME StoreInv, NEW h \in Handles, CreateBase(h)
  PROVE  StoreInv'
<1> USE NoneIsFresh DEF StoreInv
<1>1. EmptyBase \in BaseFile /\ EmptyBase.gen = 1 /\ EmptyBase # None
  <2>1. EmptyBase \in BaseFile
    BY DEF EmptyBase, BaseFile
  <2> QED
    BY <2>1, NoneIsNoRecord DEF EmptyBase
<1>2. /\ pc[h] = "create_base" /\ base = None /\ wal # None /\ wal.gen = 1 /\ lock = h
      /\ base' = EmptyBase /\ lock' = None /\ pc' = [pc EXCEPT ![h] = "closed"]
      /\ UNCHANGED <<wal, goal, served, seen, nextSeq, diskGen, slots, staged, mark, since,
                     probe, used, acked, aborted, mishaps>>
  BY DEF CreateBase, Defined, Generations, Exclusive, UnderLock, Goto, memory, batch, ghosts
<1>3. \A k \in Handles : pc[k] \in Closed /\ ~Live(k) /\ seen[k].gen = 0
  BY <1>2 DEF Defined, Generations, Live
<1>4. TypeOK'
  BY <1>1, <1>2 DEF TypeOK, Steps
<1>5. Defined'
  BY <1>1, <1>2, <1>3 DEF TypeOK, Defined, Live, Closed, Loading, Appending
<1>6. Exclusive'
  BY <1>2 DEF TypeOK, Exclusive, UnderLock, Appending
<1>7. Generations'
  <2>1. \A k \in Handles : k # h => pc[k] # "create_base"
    BY <1>2 DEF Exclusive, UnderLock
  <2> QED
    BY <1>1, <1>2, <1>3, <2>1 DEF TypeOK, Generations, Live, Closed, Loading, Appending
<1> QED
  BY <1>4, <1>5, <1>6, <1>7

\* What a failed call keeps staged, and what it drops.
LEMMA FailTypes ==
  ASSUME StoreInv, NEW h \in Handles
  PROVE  Kept(h) \in Seq(Ops) /\ Dropped(h) \subseteq Ops
<1>1. staged[h] \in Seq(Ops) /\ mark[h] \in Nat /\ mark[h] <= Len(staged[h])
  BY DEF StoreInv, TypeOK, Defined
<1>2. \A i \in 1..mark[h] : staged[h][i] \in Ops
  BY <1>1
<1>3. SubSeq(staged[h], 1, mark[h]) \in Seq(Ops)
  BY <1>1, <1>2, SubSeqProperties
<1>4. \A i \in mark[h] + 1..Len(staged[h]) : staged[h][i] \in Ops
  BY <1>1
<1> QED
  BY <1>1, <1>3, <1>4 DEF Kept, Dropped

\* A call that fails under the lock, having left the log no newer.
LEMMA FailInv ==
  ASSUME StoreInv, NEW h \in Handles, pc[h] \in Appending, Fail(h),
         wal' \in WalFile, wal' # None, wal'.gen <= base.gen,
         NEW s \in Seen, seen' = [seen EXCEPT ![h] = s], s.gen = seen[h].gen,
         s.stamp \in {None, seen[h].stamp}, mishaps' \in 0..MaxMishaps,
         UNCHANGED <<base, served, nextSeq, diskGen, slots, probe>>
  PROVE  StoreInv'
<1> USE NoneIsFresh DEF StoreInv
<1>1. /\ lock = h /\ base # None
      /\ staged' = [staged EXCEPT ![h] = Kept(h)] /\ aborted' = aborted \cup Dropped(h)
      /\ mark' = [mark EXCEPT ![h] = 0] /\ lock' = None
      /\ pc' = [pc EXCEPT ![h] = "idle"] /\ goal' = [goal EXCEPT ![h] = "none"]
      /\ UNCHANGED <<since, used, acked>>
  BY DEF Fail, Return, Goto, Exclusive, UnderLock, Defined, Closed, Appending
<1>2. Kept(h) \in Seq(Ops) /\ Dropped(h) \subseteq Ops /\ 0 <= Len(Kept(h))
  BY FailTypes
<1>3. TypeOK'
  BY <1>1, <1>2 DEF TypeOK, Steps
<1>4. Defined'
  BY <1>1, <1>2 DEF TypeOK, Defined, Live, Closed, Loading, Appending
<1>5. Exclusive'
  BY <1>1 DEF TypeOK, Exclusive, UnderLock, Appending
<1>6. Generations'
  BY <1>1 DEF TypeOK, Generations, Live, Closed, Loading, Appending
<1> QED
  BY <1>3, <1>4, <1>5, <1>6

\* The transaction's body returned Err, or the record is too large.
LEMMA AbortInv ==
  ASSUME StoreInv, NEW h \in Handles, TxnAbort(h) \/ AppendRefused(h)
  PROVE  StoreInv'
<1>1. /\ pc[h] \in Appending /\ Fail(h)
      /\ UNCHANGED <<base, wal, served, seen, nextSeq, diskGen, slots, probe, mishaps>>
  BY DEF TxnAbort, AppendRefused, Appending, files, memory
<1>2. /\ wal' \in WalFile /\ wal' # None /\ wal'.gen <= base.gen
      /\ seen[h] \in Seen /\ seen' = [seen EXCEPT ![h] = seen[h]]
      /\ mishaps' \in 0..MaxMishaps
  BY <1>1 DEF StoreInv, TypeOK, Defined, Generations, Closed, Appending
<1> QED
  BY <1>1, <1>2, FailInv

\* A failed write or fsync: the log cut back, or not even that.
LEMMA AppendFailInv ==
  ASSUME StoreInv, NEW h \in Handles, AppendFail(h)
  PROVE  StoreInv'
<1> DEFINE s == [seen[h] EXCEPT !.stamp = None]
<1>1. /\ pc[h] \in Appending /\ Fail(h) /\ mishaps' \in 0..MaxMishaps
      /\ UNCHANGED <<base, served, nextSeq, diskGen, slots, probe>>
  BY ConstantsOK DEF AppendFail, Mishap, Appending, StoreInv, TypeOK
<1>2. seen[h] \in Seen /\ wal \in WalFile /\ wal # None /\ wal.gen <= base.gen
  BY <1>1 DEF StoreInv, TypeOK, Defined, Generations, Closed, Appending
<1>3. s \in Seen /\ s.gen = seen[h].gen /\ s.stamp = None
  BY <1>2 DEF Seen
<1>4. seen' = [seen EXCEPT ![h] = s]
  BY DEF AppendFail, StoreInv, TypeOK
<1> HIDE DEF s
<1>5. CutTo(wal, seen[h].pos) \in WalFile /\ CutTo(wal, seen[h].pos).gen = wal.gen
  BY <1>2, CutToType DEF Seen
<1>6. wal' \in WalFile /\ wal'.gen <= base.gen
  BY <1>2, <1>5 DEF AppendFail
<1>7. wal' # None
  BY <1>6, NoneIsNoRecord
<1> QED
  BY <1>1, <1>3, <1>4, <1>6, <1>7, FailInv

\* The body returned Ok: on to the append, or nothing was staged.
LEMMA TxnEndInv ==
  ASSUME StoreInv, NEW h \in Handles, TxnEnd(h)
  PROVE  StoreInv'
<1>1. UNCHANGED <<base, wal, served, seen, nextSeq, diskGen, slots, staged, since, probe, used,
                  acked, aborted, mishaps>>
  BY DEF TxnEnd, files, memory, ghosts
<1>2. CASE /\ pc[h] = "txn" /\ pc' = [pc EXCEPT ![h] = "append"] /\ UNCHANGED <<lock, goal, mark>>
  <2> USE <1>1, <1>2 DEF StoreInv
  <2>1. TypeOK'
    BY DEF TypeOK, Steps
  <2>2. Defined'
    BY DEF TypeOK, Defined, Live, Closed, Loading, Appending
  <2>3. Exclusive'
    BY DEF TypeOK, Exclusive, UnderLock, Appending
  <2>4. Generations'
    BY DEF TypeOK, Generations, Live, Closed, Loading, Appending
  <2> QED
    BY <2>1, <2>2, <2>3, <2>4
<1>3. CASE /\ pc[h] = "txn" /\ pc' = [pc EXCEPT ![h] = "idle"] /\ lock' = None
           /\ goal' = [goal EXCEPT ![h] = "none"] /\ mark' = [mark EXCEPT ![h] = 0]
  <2>0. \A k \in Handles : 0 <= Len(staged[k])
    BY DEF StoreInv, TypeOK
  <2> USE <1>1, <1>3, <2>0, NoneIsFresh DEF StoreInv
  <2>1. TypeOK'
    BY DEF TypeOK, Steps
  <2>2. Defined'
    BY DEF TypeOK, Defined, Live, Closed, Loading, Appending
  <2>3. Exclusive'
    BY DEF TypeOK, Exclusive, UnderLock, Appending
  <2>4. Generations'
    BY DEF TypeOK, Generations, Live, Closed, Loading, Appending
  <2> QED
    BY <2>1, <2>2, <2>3, <2>4
<1> QED
  BY <1>2, <1>3 DEF TxnEnd, Return, Goto

\* A step of an append that has written to the log.
LEMMA WroteInv ==
  ASSUME StoreInv, NEW h \in Handles, pc[h] \in {"append", "writing"},
         NEW to \in {"writing", "written"}, pc' = [pc EXCEPT ![h] = to],
         wal' \in WalFile, wal' # None, wal'.gen <= base.gen,
         UNCHANGED <<base, lock, goal, served, seen, nextSeq, diskGen, slots, staged, mark,
                     since, probe, used, acked, aborted, mishaps>>
  PROVE  StoreInv'
<1> USE DEF StoreInv
<1>1. TypeOK'
  BY DEF TypeOK, Steps
<1>2. Defined'
  BY DEF TypeOK, Defined, Live, Closed, Loading, Appending
<1>3. Exclusive'
  BY DEF TypeOK, Exclusive, UnderLock, Appending
<1>4. Generations'
  BY DEF TypeOK, Defined, Generations, Live, Closed, Loading, Appending
<1> QED
  BY <1>1, <1>2, <1>3, <1>4

\* Part of the record, or all of it.
LEMMA WriteInv ==
  ASSUME StoreInv, NEW h \in Handles, WriteAll(h) \/ \E n \in TornLens : WritePart(h, n)
  PROVE  StoreInv'
<1>1. /\ pc[h] \in {"append", "writing"}
      /\ UNCHANGED <<base, lock, goal, served, seen, nextSeq, diskGen, slots, staged, mark,
                     since, probe, used, acked, aborted, mishaps>>
  BY DEF WriteAll, WritePart, memory, batch, ghosts
<1>2. /\ wal \in WalFile /\ wal.gen <= base.gen /\ staged[h] \in Seq(Ops)
      /\ nextSeq[h] \in Nat \ {0}
  <2>1. base # None /\ nextSeq[h] > 0
    BY <1>1 DEF StoreInv, Defined, Live, Closed, Loading
  <2>2. wal \in WalFile /\ wal.gen <= base.gen
    BY <2>1 DEF StoreInv, TypeOK, Defined, Generations
  <2>3. staged[h] \in Seq(Ops) /\ nextSeq[h] \in Nat
    BY DEF StoreInv, TypeOK
  <2> QED
    BY <2>1, <2>2, <2>3
<1>3. CASE \E n \in TornLens : WritePart(h, n)
  <2>1. PICK n \in TornLens : WritePart(h, n)
    BY <1>3
  <2>2. n \in Nat
    BY ConstantsOK
  <2>3. wal' \in WalFile /\ wal'.gen = wal.gen /\ pc' = [pc EXCEPT ![h] = "writing"]
    BY <1>2, <2>1, <2>2 DEF WritePart, WalFile, Goto
  <2> QED
    BY <1>1, <1>2, <2>3, NoneIsNoRecord, WroteInv
<1>4. CASE WriteAll(h)
  <2> DEFINE w == IF pc[h] = "writing" THEN [wal EXCEPT !.torn = 0] ELSE wal
             rec == Sealed(nextSeq[h], staged[h])
  <2>1. w \in WalFile /\ w.gen = wal.gen
    BY <1>2 DEF WalFile
  <2>2. rec \in Seq(Entry)
    BY <1>2, SealedType
  <2>3. wal' = Appended(w, rec) /\ pc' = [pc EXCEPT ![h] = "written"]
    BY <1>4 DEF WriteAll, Goto
  <2> HIDE DEF w, rec
  <2>4. wal' \in WalFile /\ wal'.gen = wal.gen
    BY <2>1, <2>2, <2>3, AppendedType
  <2> QED
    BY <1>1, <1>2, <2>3, <2>4, NoneIsNoRecord, WroteInv
<1> QED
  BY <1>3, <1>4

\* Acknowledged entries keep their shape when their committer is forgotten.
LEMMA DisownType ==
  ASSUME StoreInv, NEW who
  PROVE  Disown(who) \subseteq [entry : Entry, by : {None} \cup Handles]
<1>1. ASSUME NEW a \in [entry : Entry, by : {None} \cup Handles]
      PROVE  [a EXCEPT !.by = None] \in [entry : Entry, by : {None} \cup Handles]
  OBVIOUS
<1>2. acked \subseteq [entry : Entry, by : {None} \cup Handles]
  BY DEF StoreInv, TypeOK
<1> QED
  BY <1>1, <1>2 DEF Disown

\* A base on disk has a generation.
LEMMA BaseGen ==
  ASSUME StoreInv, base # None
  PROVE  base \in BaseFile /\ base.gen \in Nat /\ 0 <= base.gen /\ base.applied \in Nat
<1>1. base \in BaseFile
  BY DEF StoreInv, TypeOK
<1> QED
  BY <1>1 DEF BaseFile

\* A process dies: what it knew is gone, the files stay.
LEMMA CrashInv ==
  ASSUME StoreInv, NEW h \in Handles, Crash(h)
  PROVE  StoreInv'
<1>a. /\ NoProbe \in Probe /\ NoProbe.opening = FALSE
      /\ NothingSeen \in Seen /\ NothingSeen.stamp = None /\ NothingSeen.gen = 0
      /\ <<>> \in Seq(Ops) /\ Len(<<>>) = 0 /\ 0 \in 0..GenSlots
  BY ConstantsOK DEF NoProbe, Probe, NothingSeen, Seen
<1>b. /\ Disown({h}) \subseteq [entry : Entry, by : {None} \cup Handles]
      /\ base # None => 0 <= base.gen
  BY DisownType, BaseGen
<1>c. /\ UNCHANGED <<base, wal, used, aborted>> /\ acked' = Disown({h})
      /\ lock' = IF lock = h THEN None ELSE lock
      /\ mishaps' \in 0..MaxMishaps
      /\ pc' = [pc EXCEPT ![h] = "closed"] /\ goal' = [goal EXCEPT ![h] = "none"]
      /\ served' = [served EXCEPT ![h] = None] /\ seen' = [seen EXCEPT ![h] = NothingSeen]
      /\ nextSeq' = [nextSeq EXCEPT ![h] = 0] /\ diskGen' = [diskGen EXCEPT ![h] = 0]
      /\ slots' = [slots EXCEPT ![h] = 0] /\ staged' = [staged EXCEPT ![h] = <<>>]
      /\ mark' = [mark EXCEPT ![h] = 0] /\ since' = [since EXCEPT ![h] = 0]
      /\ probe' = [probe EXCEPT ![h] = NoProbe]
  BY ConstantsOK DEF Crash, Forget, Mishap, files, StoreInv, TypeOK
<1> USE <1>a, <1>b, <1>c, NoneIsFresh DEF StoreInv
<1>1. TypeOK'
  BY DEF TypeOK, Steps
<1>2. Defined'
  BY DEF TypeOK, Defined, Live, Closed, Loading, Appending
<1>3. Exclusive'
  BY DEF TypeOK, Exclusive, UnderLock, Appending
<1>4. Generations'
  BY DEF TypeOK, Generations, Live, Closed, Loading, Appending
<1> QED
  BY <1>1, <1>2, <1>3, <1>4

\* Power goes: every handle with it, and the unsynced end of the log.
LEMMA PowerLossInv ==
  ASSUME StoreInv, PowerLoss
  PROVE  StoreInv'
<1>a. /\ NoProbe \in Probe
      /\ NothingSeen \in Seen /\ NothingSeen.stamp = None /\ NothingSeen.gen = 0
      /\ <<>> \in Seq(Ops) /\ Len(<<>>) = 0 /\ 0 \in 0..GenSlots
  BY ConstantsOK DEF NoProbe, Probe, NothingSeen, Seen
<1>b. /\ Disown(Handles) \subseteq [entry : Entry, by : {None} \cup Handles]
      /\ base # None => 0 <= base.gen
  BY DisownType, BaseGen
<1>c. wal' \in WalFile /\ wal' # None /\ wal'.gen = wal.gen /\ wal # None
  <2>1. wal \in WalFile /\ wal # None /\ wal.synced \in Nat /\ wal.log \in Seq(Entry)
    BY DEF PowerLoss, StoreInv, TypeOK, WalFile
  <2>2. PICK n \in wal.synced..Len(wal.log), t \in {0} \cup TornLens :
          wal' = [wal EXCEPT !.log = SubSeq(wal.log, 1, n), !.torn = t]
    BY DEF PowerLoss
  <2>3. t \in Nat
    BY ConstantsOK
  <2>4. \A i \in 1..n : wal.log[i] \in Entry
    BY <2>1, <2>2
  <2> DEFINE cut == SubSeq(wal.log, 1, n)
  <2>5. cut \in Seq(Entry)
    BY <2>1, <2>4, SubSeqProperties
  <2> HIDE DEF cut
  <2>6. [wal EXCEPT !.log = cut, !.torn = t] \in WalFile
    BY <2>1, <2>3, <2>5 DEF WalFile
  <2>7. [wal EXCEPT !.log = cut, !.torn = t].gen = wal.gen
    BY <2>1 DEF WalFile
  <2>8. wal' = [wal EXCEPT !.log = cut, !.torn = t]
    BY <2>2 DEF cut
  <2> QED
    BY <2>1, <2>6, <2>7, <2>8, NoneIsNoRecord
<1>d. /\ UNCHANGED <<base, used, aborted>> /\ acked' = Disown(Handles) /\ lock' = None
      /\ mishaps' \in 0..MaxMishaps
      /\ pc' = [h \in Handles |-> "closed"] /\ goal' = [h \in Handles |-> "none"]
      /\ served' = [h \in Handles |-> None] /\ seen' = [h \in Handles |-> NothingSeen]
      /\ nextSeq' = [h \in Handles |-> 0] /\ diskGen' = [h \in Handles |-> 0]
      /\ slots' = [h \in Handles |-> 0] /\ staged' = [h \in Handles |-> <<>>]
      /\ mark' = [h \in Handles |-> 0] /\ since' = [h \in Handles |-> 0]
      /\ probe' = [h \in Handles |-> NoProbe]
  BY ConstantsOK DEF PowerLoss, Mishap, StoreInv, TypeOK
<1> USE <1>a, <1>b, <1>c, <1>d, NoneIsFresh DEF StoreInv
<1>1. TypeOK'
  BY DEF TypeOK, Steps
<1>2. Defined'
  BY DEF TypeOK, Defined, Live, Closed, Loading, Appending
<1>3. Exclusive'
  BY DEF TypeOK, Exclusive, UnderLock, Appending
<1>4. Generations'
  BY DEF TypeOK, Generations, Live, Closed, Loading, Appending
<1> QED
  BY <1>1, <1>2, <1>3, <1>4

\* A compaction whose rename fails just unlocks.
LEMMA CompactFailInv ==
  ASSUME StoreInv, NEW h \in Handles, CompactFail(h)
  PROVE  StoreInv'
<1>a. /\ pc[h] \in {"fold", "swap"} /\ mishaps' \in 0..MaxMishaps
      /\ lock' = None /\ pc' = [pc EXCEPT ![h] = "idle"]
      /\ goal' = [goal EXCEPT ![h] = "none"]
      /\ UNCHANGED <<base, wal, served, seen, nextSeq, diskGen, slots, staged, mark, since,
                     probe, used, acked, aborted>>
  BY ConstantsOK DEF CompactFail, Mishap, Return, Goto, files, memory, batch, ghosts, StoreInv, TypeOK
<1> USE <1>a, NoneIsFresh DEF StoreInv
<1>1. TypeOK'
  BY DEF TypeOK, Steps
<1>2. Defined'
  BY DEF TypeOK, Defined, Live, Closed, Loading, Appending
<1>3. Exclusive'
  BY DEF TypeOK, Exclusive, UnderLock, Appending
<1>4. Generations'
  BY DEF TypeOK, Generations, Live, Closed, Loading, Appending
<1> QED
  BY <1>1, <1>2, <1>3, <1>4

\* The record is in and synced as the policy asks: account, publish, return.
LEMMA AppendOkInv ==
  ASSUME StoreInv, NEW h \in Handles, AppendOk(h)
  PROVE  StoreInv'
<1> DEFINE rec == Sealed(nextSeq[h], staged[h])
           g   == Publish(served[h], rec)
           n   == nextSeq[h] + Len(rec)
<1>1. /\ pc[h] = "written" /\ base # None /\ wal \in WalFile /\ wal.gen <= base.gen
      /\ served[h] \in Generation /\ seen[h] \in Seen /\ seen[h].stamp \in Stamp
      /\ seen[h].stamp # None /\ seen[h].stamp.wal \in WalId
  <2>1. pc[h] = "written"
    BY DEF AppendOk
  <2>2. base # None /\ served[h] # None /\ seen[h].stamp # None /\ seen[h].stamp.wal # None
    BY <2>1 DEF StoreInv, Defined, Live, Closed, Loading, Appending
  <2>3. wal \in WalFile /\ wal.gen <= base.gen
    BY <2>2 DEF StoreInv, TypeOK, Defined, Generations
  <2>4. served[h] \in Generation /\ seen[h] \in Seen
    BY <2>2 DEF StoreInv, TypeOK
  <2>5. seen[h].stamp \in Stamp
    BY <2>2, <2>4 DEF Seen
  <2> QED
    BY <2>1, <2>2, <2>3, <2>4, <2>5 DEF Stamp
<1>2. staged[h] \in Seq(Ops) /\ nextSeq[h] \in Nat \ {0}
  <2>1. nextSeq[h] > 0
    BY <1>1 DEF StoreInv, Defined, Live, Closed, Loading
  <2> QED
    BY <2>1 DEF StoreInv, TypeOK
<1>3. rec \in Seq(Entry) /\ Len(rec) \in Nat
  BY <1>2, SealedType
<1>4. g \in Generation /\ g # None
  <2> HIDE DEF rec
  <2> QED BY <1>1, <1>3, PublishType
<1>5. n \in Nat /\ n > 0
  <2> HIDE DEF rec
  <2> QED BY <1>2, <1>3
<1> DEFINE id == [seen[h].stamp.wal EXCEPT !.len = @ + OpLen * Len(rec)]
           st == [seen[h].stamp EXCEPT !.wal = id]
           s  == [seen[h] EXCEPT !.pos = @ + Len(rec), !.stamp = st]
<1>6. s \in Seen /\ s.gen = seen[h].gen /\ s.stamp # None /\ s.stamp.wal # None
      /\ s.stamp.base = seen[h].stamp.base
  <2> HIDE DEF rec
  <2>0. seen[h].stamp.wal.len + OpLen * Len(rec) \in Nat
    BY <1>1, <1>3, ConstantsOK DEF WalId
  <2>1. id \in WalId
    BY <1>1, <2>0 DEF WalId
  <2> HIDE DEF id
  <2>2. st \in Stamp /\ st.wal = id /\ st.base = seen[h].stamp.base
    BY <1>1, <2>1 DEF Stamp
  <2> HIDE DEF st
  <2>3. seen[h].pos + Len(rec) \in Nat
    BY <1>1, <1>3 DEF Seen
  <2>4. s = [seen[h] EXCEPT !.pos = seen[h].pos + Len(rec), !.stamp = st]
    BY <1>1 DEF Seen
  <2>5. [seen[h] EXCEPT !.pos = seen[h].pos + Len(rec), !.stamp = st] \in Seen
    BY <1>1, <2>2, <2>3 DEF Seen
  <2>6. /\ [seen[h] EXCEPT !.pos = seen[h].pos + Len(rec), !.stamp = st].gen = seen[h].gen
        /\ [seen[h] EXCEPT !.pos = seen[h].pos + Len(rec), !.stamp = st].stamp = st
    BY <1>1 DEF Seen
  <2> QED
    BY <2>1, <2>2, <2>4, <2>5, <2>6, NoneIsNoRecord
<1>7. seen' = [seen EXCEPT ![h] = s]
  <2>1. seen' = [seen EXCEPT ![h] = [seen[h] EXCEPT !.pos = @ + Len(rec),
                                       !.stamp.wal.len = @ + OpLen * Len(rec)]]
    BY DEF AppendOk, StoreInv, TypeOK, Seen
  <2> QED
    BY <1>1, <2>1 DEF Seen
<1>8. /\ served' = [served EXCEPT ![h] = g] /\ nextSeq' = [nextSeq EXCEPT ![h] = n]
      /\ staged' = [staged EXCEPT ![h] = <<>>] /\ mark' = [mark EXCEPT ![h] = 0]
      /\ UNCHANGED <<base, diskGen, slots, probe, used, aborted, mishaps>>
  BY DEF AppendOk
<1>9. since' \in [Handles -> Nat]
  BY DEF AppendOk, StoreInv, TypeOK
<1>10. acked' \subseteq [entry : Entry, by : {None} \cup Handles]
  <2>1. acked' = acked \cup {[entry |-> rec[i], by |-> h] : i \in 1..Len(rec)}
    BY DEF AppendOk
  <2> HIDE DEF rec
  <2>2. \A i \in 1..Len(rec) : rec[i] \in Entry
    BY <1>3
  <2> QED
    BY <2>1, <2>2 DEF StoreInv, TypeOK
<1>11. wal' \in WalFile /\ wal' # None /\ wal'.gen <= base.gen
  <2>1. wal' \in WalFile /\ wal'.gen = wal.gen
    <3>1. wal' \in {wal, [wal EXCEPT !.synced = Len(wal.log)]}
      BY DEF AppendOk
    <3>2. Len(wal.log) \in Nat
      BY <1>1 DEF WalFile
    <3>3. /\ [wal EXCEPT !.synced = Len(wal.log)] \in WalFile
          /\ [wal EXCEPT !.synced = Len(wal.log)].gen = wal.gen
      BY <1>1, <3>2 DEF WalFile
    <3> QED
      BY <1>1, <3>1, <3>3
  <2> QED
    BY <1>1, <2>1, NoneIsNoRecord
<1>12. \/ lock' = None /\ pc' = [pc EXCEPT ![h] = "idle"] /\ goal' = [goal EXCEPT ![h] = "none"]
       \/ UNCHANGED <<lock, goal>> /\ pc' = [pc EXCEPT ![h] = "fold"]
  BY DEF AppendOk, Return, Goto
<1>13. <<>> \in Seq(Ops) /\ Len(<<>>) = 0
  OBVIOUS
<1> HIDE DEF rec, g, n, s
<1>14. pc' \in [Handles -> Steps] /\ goal' \in [Handles -> {"none", "commit", "transact", "compact"}]
       /\ lock' \in {None} \cup Handles
  BY <1>12 DEF StoreInv, TypeOK, Steps
<1>15. TypeOK'
  BY <1>4, <1>5, <1>6, <1>7, <1>8, <1>9, <1>10, <1>11, <1>13, <1>14 DEF StoreInv, TypeOK
<1>16. \A k \in Handles : k # h => pc'[k] = pc[k] /\ seen'[k] = seen[k] /\ served'[k] = served[k]
         /\ nextSeq'[k] = nextSeq[k] /\ staged'[k] = staged[k] /\ mark'[k] = mark[k]
         /\ goal'[k] = goal[k]
  BY <1>7, <1>8, <1>12 DEF StoreInv, TypeOK
<1>17. /\ pc'[h] \in {"idle", "fold"} /\ seen'[h] = s /\ served'[h] = g /\ nextSeq'[h] = n
       /\ staged'[h] = <<>> /\ mark'[h] = 0
  BY <1>7, <1>8, <1>12 DEF StoreInv, TypeOK
<1>18. Defined'
  BY <1>1, <1>4, <1>5, <1>6, <1>8, <1>11, <1>13, <1>16, <1>17
     DEF StoreInv, Defined, Live, Closed, Loading, Appending
<1>19. Exclusive'
  <2>1. lock = h
    BY <1>1 DEF StoreInv, Exclusive, UnderLock, Appending
  <2>2. \A k \in Handles : k # h => pc[k] \notin UnderLock /\ k # None
    BY <2>1, NoneIsFresh DEF StoreInv, Exclusive
  <2>3. \/ lock' = None /\ pc'[h] = "idle"
        \/ lock' = h /\ pc'[h] = "fold"
    BY <1>12, <2>1 DEF StoreInv, TypeOK
  <2>4. h # None /\ "idle" \notin UnderLock /\ "fold" \in UnderLock
    BY NoneIsFresh DEF UnderLock, Appending
  <2> QED
    BY <1>16, <2>2, <2>3, <2>4 DEF Exclusive
<1>20. Generations'
  BY <1>1, <1>6, <1>8, <1>11, <1>16, <1>17
     DEF StoreInv, Generations, Live, Closed, Loading, Appending
<1> QED
  BY <1>15, <1>18, <1>19, <1>20 DEF StoreInv

\* The base a handle that has caught up renders is above the one on disk.
LEMMA FoldedBaseType ==
  ASSUME StoreInv, NEW h \in Handles, pc[h] = "fold"
  PROVE  /\ FoldedBase(h, served[h]) \in BaseFile /\ FoldedBase(h, served[h]) # None
         /\ FoldedBase(h, served[h]).gen = NewGeneration(h)
         /\ NewGeneration(h) \in Nat /\ base # None /\ base.gen < NewGeneration(h)
<1>1. base # None /\ served[h] # None /\ nextSeq[h] > 0 /\ base.gen <= diskGen[h]
  BY DEF StoreInv, Defined, Generations, Live, Closed, Loading
<1>2. served[h] \in Generation /\ nextSeq[h] \in Nat /\ diskGen[h] \in Nat
  BY <1>1 DEF StoreInv, TypeOK
<1>3. base.gen \in Nat
  BY <1>1, BaseGen
<1>4. NewGeneration(h) \in Nat /\ base.gen < NewGeneration(h)
  BY <1>1, <1>2, <1>3 DEF NewGeneration, Max2, Generation
<1>5. View(served[h]) \in Seq(Ops) /\ nextSeq[h] - 1 \in Nat
  BY <1>1, <1>2, ViewType
<1>6. FoldedBase(h, served[h]) \in BaseFile
  BY <1>4, <1>5 DEF FoldedBase, BaseFile
<1> QED
  BY <1>1, <1>4, <1>6, NoneIsNoRecord DEF FoldedBase

\* The new base lands.
LEMMA FoldInv ==
  ASSUME StoreInv, NEW h \in Handles, Fold(h)
  PROVE  StoreInv'
<1>1. /\ pc[h] = "fold" /\ pc' = [pc EXCEPT ![h] = "swap"]
      /\ base' = FoldedBase(h, served[h]) /\ diskGen' = [diskGen EXCEPT ![h] = NewGeneration(h)]
      /\ UNCHANGED <<wal, lock, goal, served, seen, nextSeq, slots, staged, mark, since, probe,
                     used, acked, aborted, mishaps>>
  BY DEF Fold, Goto, batch, ghosts
<1>2. /\ base' \in BaseFile /\ base' # None /\ NewGeneration(h) \in Nat
      /\ base'.gen = NewGeneration(h) /\ base # None /\ base.gen < base'.gen
      /\ base.gen \in Nat /\ base'.gen \in Nat /\ wal # None /\ wal.gen \in Nat
  <2>1. base # None
    BY <1>1, FoldedBaseType
  <2>2. wal \in WalFile /\ wal # None
    BY <2>1 DEF StoreInv, TypeOK, Defined
  <2> QED
    BY <1>1, <2>1, <2>2, FoldedBaseType, BaseGen DEF WalFile
<1>3. \A k \in Handles : k # h => pc[k] \notin UnderLock
  BY <1>1 DEF StoreInv, Exclusive, UnderLock
<1>4. TypeOK'
  BY <1>1, <1>2 DEF StoreInv, TypeOK, Steps
<1>5. Defined'
  BY <1>1, <1>2 DEF StoreInv, TypeOK, Defined, Live, Closed, Loading, Appending
<1>6. Exclusive'
  BY <1>1 DEF StoreInv, TypeOK, Exclusive, UnderLock, Appending
<1>7. Generations'
  <2>1. \A k \in Handles : seen[k] \in Seen /\ seen[k].gen \in Nat /\ probe[k] \in Probe
    BY DEF StoreInv, TypeOK, Seen
  <2>2. \A k \in Handles :
          /\ seen[k].gen <= base'.gen
          /\ pc[k] = "stat" => probe[k].stat <= base'.gen
          /\ pc[k] \in {"tail", "map", "read"} => probe[k].stamp.base <= base'.gen
          /\ pc[k] = "read" => probe[k].map.gen <= base'.gen
    BY <1>2, <2>1 DEF StoreInv, Defined, Generations, Probe, Stamp, BaseFile
  <2> QED
    BY <1>1, <1>2, <1>3, <2>2 DEF StoreInv, TypeOK, Generations, Live, Closed, Loading, Appending, UnderLock
<1> QED
  BY <1>4, <1>5, <1>6, <1>7 DEF StoreInv

\* The fresh log of the new base, and the new generation served or not.
LEMMA SwapInv ==
  ASSUME StoreInv, NEW h \in Handles, Swap(h)
  PROVE  StoreInv'
<1> DEFINE fresh == FreshWal(wal, base.gen)
<1>1. /\ pc[h] = "swap" /\ base # None /\ base \in BaseFile /\ base.gen \in Nat /\ 0 <= base.gen
      /\ base.applied \in Nat /\ wal \in WalFile /\ served[h] # None /\ lock = h
  <2>1. pc[h] = "swap"
    BY DEF Swap
  <2>2. base # None /\ served[h] # None /\ lock = h
    BY <2>1 DEF StoreInv, Defined, Exclusive, Live, Closed, Loading, UnderLock
  <2> QED
    BY <2>1, <2>2, BaseGen DEF StoreInv, TypeOK, Defined
<1>2. wal' = fresh /\ fresh \in WalFile /\ fresh # None /\ fresh.gen = base.gen
  BY <1>1, FreshWalType DEF Swap
<1>3. /\ nextSeq' = [nextSeq EXCEPT ![h] = base.applied + 1]
      /\ since' = [since EXCEPT ![h] = 0]
      /\ lock' = None /\ pc' = [pc EXCEPT ![h] = "idle"] /\ goal' = [goal EXCEPT ![h] = "none"]
      /\ UNCHANGED <<base, diskGen, staged, mark, probe, used, acked, aborted, mishaps>>
  BY DEF Swap, Return, Goto, ghosts
<1>4. PICK g \in Generation, s \in Seen, k \in 0..GenSlots :
        /\ g # None /\ s.gen <= base.gen
        /\ s.stamp # None => s.stamp.wal # None /\ s.stamp.base <= s.gen
        /\ served' = [served EXCEPT ![h] = g] /\ seen' = [seen EXCEPT ![h] = s]
        /\ slots' = [slots EXCEPT ![h] = k]
  <2>1. CASE /\ served' = [served EXCEPT ![h] = Build(base, wal')]
             /\ seen' = [seen EXCEPT ![h] = SeenOf(StampOf(base, wal'), base, wal')]
             /\ slots' = [slots EXCEPT ![h] = Min2(GenSlots, @ + 1)]
    <3>1. Build(base, fresh) \in Generation /\ Build(base, fresh) # None
      BY <1>1, <1>2, BuildType
    <3> DEFINE st == StampOf(base, fresh)
               s  == SeenOf(st, base, fresh)
    <3>2. st \in Stamp /\ st.base = base.gen /\ st.wal # None
      BY <1>1, <1>2, StampOfType
    <3>3. s \in Seen /\ s.stamp = st /\ s.gen = base.gen
      <4> HIDE DEF st
      <4> QED BY <1>1, <1>2, <3>2, SeenOfType
    <3>4. Min2(GenSlots, slots[h] + 1) \in 0..GenSlots
      BY ConstantsOK DEF StoreInv, TypeOK, Min2
    <3>5. served' = [served EXCEPT ![h] = Build(base, fresh)] /\ seen' = [seen EXCEPT ![h] = s]
      BY <1>2, <2>1
    <3>6. s.gen <= base.gen /\ s.stamp.wal # None /\ s.stamp.base <= s.gen
      <4> HIDE DEF s, st
      <4> QED BY <1>1, <3>2, <3>3
    <3> HIDE DEF s, fresh
    <3> QED
      BY <2>1, <3>1, <3>3, <3>4, <3>5, <3>6
  <2>2. CASE seen' = [seen EXCEPT ![h] = NothingSeen] /\ UNCHANGED <<served, slots>>
    <3>1. NothingSeen \in Seen /\ NothingSeen.stamp = None /\ NothingSeen.gen <= base.gen
      BY <1>1 DEF NothingSeen, Seen
    <3>2. /\ served[h] \in Generation /\ slots[h] \in 0..GenSlots
          /\ served' = [served EXCEPT ![h] = served[h]] /\ slots' = [slots EXCEPT ![h] = slots[h]]
      BY <1>1, <2>2 DEF StoreInv, TypeOK
    <3> QED
      BY <1>1, <2>2, <3>1, <3>2
  <2> QED
    BY <2>1, <2>2 DEF Swap
<1> HIDE DEF fresh
<1>5. TypeOK'
  <2>1. nextSeq' \in [Handles -> Nat] /\ since' \in [Handles -> Nat]
    BY <1>1, <1>3 DEF StoreInv, TypeOK
  <2>2. served' \in [Handles -> {None} \cup Generation] /\ seen' \in [Handles -> Seen]
        /\ slots' \in [Handles -> 0..GenSlots] /\ wal' \in {None} \cup WalFile
    BY <1>2, <1>4 DEF StoreInv, TypeOK
  <2> QED
    BY <1>3, <2>1, <2>2 DEF StoreInv, TypeOK, Steps
<1>6. Defined'
  BY <1>1, <1>2, <1>3, <1>4 DEF StoreInv, TypeOK, Defined, Live, Closed, Loading, Appending
<1>7. Exclusive'
  BY <1>1, <1>3, NoneIsFresh DEF StoreInv, TypeOK, Exclusive, UnderLock, Appending
<1>8. Generations'
  BY <1>1, <1>2, <1>3, <1>4 DEF StoreInv, TypeOK, Generations, Live, Closed, Loading, Appending
<1> QED
  BY <1>5, <1>6, <1>7, <1>8 DEF StoreInv

----------------------------------------------------------------------------
(* The theorems. *)

\* A directory with no store, or an empty one, and no handle open.
LEMMA InitStoreInv == Init => StoreInv
<1> SUFFICES ASSUME Init PROVE StoreInv
  OBVIOUS
<1>1. /\ EmptyBase \in BaseFile /\ EmptyBase.gen = 1
      /\ FreshWal(None, 1) \in WalFile /\ FreshWal(None, 1).gen = 1 /\ FreshWal(None, 1) # None
  BY FreshWalType DEF EmptyBase, BaseFile
<1>2. /\ NoProbe \in Probe /\ NothingSeen \in Seen /\ NothingSeen.stamp = None
      /\ NothingSeen.gen = 0 /\ <<>> \in Seq(Ops) /\ Len(<<>>) = 0 /\ 0 \in 0..GenSlots
      /\ 0 \in 0..MaxMishaps
  BY ConstantsOK DEF NoProbe, Probe, NothingSeen, Seen
<1>3. TypeOK
  BY <1>1, <1>2 DEF Init, TypeOK, Steps
<1>4. Defined
  BY <1>1, <1>2 DEF Init, Defined, Live, Closed, Loading, Appending
<1>5. Exclusive
  BY NoneIsFresh DEF Init, Exclusive, UnderLock, Appending
<1>6. Generations
  BY <1>1, <1>2 DEF Init, Generations, Live, Closed, Loading, Appending
<1> QED
  BY <1>3, <1>4, <1>5, <1>6 DEF StoreInv

\* StoreInv is inductive.
LEMMA StepStoreInv == StoreInv /\ [Next]_vars => StoreInv'
<1> SUFFICES ASSUME StoreInv, [Next]_vars PROVE StoreInv'
  OBVIOUS
<1>1. CASE UNCHANGED vars
  BY <1>1 DEF vars, StoreInv, TypeOK, Defined, Exclusive, Generations, Live
<1>2. CASE PowerLoss
  BY <1>2, PowerLossInv
<1>3. ASSUME NEW h \in Handles, Create(h) PROVE StoreInv'
  BY <1>3, CreateBeginInv, CreateLockInv, CreateBaseInv DEF Create
<1>4. ASSUME NEW h \in Handles, Load(h) PROVE StoreInv'
  BY <1>4, StatBaseInv, StatWalInv, ReloadTailInv, MapBaseInv, LoadReadInv, LoadAgainInv,
     MendInv DEF Load
<1>5. ASSUME NEW h \in Handles, Write(h) PROVE StoreInv'
  BY <1>5, StageInv, DiscardInv, AcquireInv, SyncInv, AbortInv, TxnEndInv, WriteInv,
     AppendFailInv, AppendOkInv DEF Write
<1>6. ASSUME NEW h \in Handles, Compact(h) PROVE StoreInv'
  BY <1>6, FoldInv, SwapInv, CompactFailInv DEF Compact
<1> QED
  BY <1>1, <1>2, <1>3, <1>4, <1>5, <1>6, CrashInv DEF Next

\* However many handles create, open, reload, commit, compact, fail and crash:
\* everything used is there and well formed, one handle writes at a time, and
\* none has heard of a generation the base has not reached.
THEOREM StoreInvariant == Spec => []StoreInv
  BY InitStoreInv, StepStoreInv, PTL DEF Spec

\* The state of the store and of every handle is well formed.
THEOREM TypesHold == Spec => []TypeOK
<1>1. StoreInv => TypeOK
  BY DEF StoreInv
<1> QED
  BY <1>1, StoreInvariant, PTL

\* The log never names a generation its base has not reached, so no crash
\* between the two renames of a compaction can make a reader skip its ops.
THEOREM LogStaysBehind == Spec => []LogNeverAhead
<1>1. StoreInv => LogNeverAhead
  BY DEF StoreInv, Defined, Generations, LogNeverAhead
<1> QED
  BY <1>1, StoreInvariant, PTL

\* No step replaces the base by one of the same generation or an older one.
LEMMA StepRises ==
  ASSUME StoreInv, Next, base # None
  PROVE  base' = base \/ (base' # None /\ base'.gen > base.gen)
<1>1. ASSUME NEW h \in Handles, Fold(h)
      PROVE  base' # None /\ base'.gen > base.gen
  <2>1. pc[h] = "fold" /\ base' = FoldedBase(h, served[h])
    BY <1>1 DEF Fold
  <2>2. NewGeneration(h) \in Nat /\ base.gen \in Nat
    BY <2>1, FoldedBaseType, BaseGen
  <2> QED
    BY <2>1, <2>2, FoldedBaseType
<1>2. ASSUME NEW h \in Handles, CreateBase(h) PROVE FALSE
  BY <1>2 DEF CreateBase, StoreInv, Generations
<1>3. ASSUME NEW h \in Handles, CreateBegin(h) \/ CreateLock(h) PROVE base' = base
  BY <1>3 DEF CreateBegin, CreateLock, files
<1>4. ASSUME NEW h \in Handles, Load(h) PROVE base' = base
  BY <1>4 DEF Load, StatBase, StatWal, ReloadTail, MapBase, LoadRead, LoadAgain, Mend, files
<1>5. ASSUME NEW h \in Handles, Write(h) PROVE base' = base
  BY <1>5 DEF Write, Stage, Discard, Acquire, Sync, TxnAbort, TxnEnd, AppendRefused,
     WritePart, WriteAll, AppendFail, AppendOk, files
<1>6. ASSUME NEW h \in Handles, Swap(h) \/ CompactFail(h) \/ Crash(h) PROVE base' = base
  BY <1>6 DEF Swap, CompactFail, Crash, files
<1>7. CASE PowerLoss
  BY <1>7 DEF PowerLoss
<1> QED
  BY <1>1, <1>2, <1>3, <1>4, <1>5, <1>6, <1>7 DEF Next, Create, Compact

\* A base is replaced only by one of a higher generation.
THEOREM BasesRise == Spec => GenerationsRise
<1> DEFINE Rise == base # None => base' = base \/ (base' # None /\ base'.gen > base.gen)
<1>1. StoreInv /\ [Next]_vars => [Rise]_vars
  BY StepRises
<1> QED
  BY <1>1, StoreInvariant, PTL DEF Spec, GenerationsRise

===========================================================================
