--------------------------- MODULE PromiseProofs ---------------------------
(***************************************************************************)
(* Proofs that a transaction that failed leaves nothing behind, that a     *)
(* batching handle has at most a batch of commits to lose, and that the    *)
(* files and handles implement AbstractStore.                              *)
(***************************************************************************)
EXTENDS HistoryProofs, StoreRefinement, FiniteSetTheorems

----------------------------------------------------------------------------
(* The invariants. *)

\* A record is never empty.
BusyInv ==
  \A h \in Handles :
    \/ pc[h] \in {"append", "writing", "written"}
    \/ pc[h] = "sync" /\ goal[h] = "commit"
    => staged[h] # <<>>

\* The ops in the directory.
Held(b, w) ==
  {op \in Ops : b # None /\ \E i \in 1..Len(History(b, w)) : History(b, w)[i] = op}

\* Each op is staged once; staged, it is not in the directory unless its own
\* record was just written, and aborted it is nowhere.
UsedOK(held, st, p, us, ab) ==
  /\ held \subseteq us \ ab /\ ab \subseteq us
  /\ \A h \in Handles : \A i \in 1..Len(st[h]) :
       /\ st[h][i] \in us \ ab
       /\ p[h] # "written" => st[h][i] \notin held
  /\ \A h, k \in Handles, i, j \in Nat :
       /\ i \in 1..Len(st[h]) /\ j \in 1..Len(st[k]) /\ st[h][i] = st[k][j]
       => h = k /\ i = j

UsedInv == UsedOK(Held(base, wal), staged, pc, used, aborted)

\* The commits of h that a power loss now could take.
Exposed(h) == {a \in acked : a.by = h /\ a.entry.end /\ a.entry.seq > Safe(base, wal)}

\* They are no more than the handle counts since it last synced.
WindowInv ==
  \A h \in Handles : /\ IsFiniteSet(Exposed(h)) /\ Cardinality(Exposed(h)) <= since[h]
                     /\ since[h] < SyncEvery

----------------------------------------------------------------------------
(* What a step does to the history. *)

LEMMA SameOps ==
  ASSUME NEW u \in Seq(Ops), NEW v \in Seq(Ops), Len(u) = Len(v),
         \A i \in 1..Len(u) : u[i] = v[i]
  PROVE  u = v
  OBVIOUS

\* Files that move without the log growing hold the same history.
LEMMA SameHistory ==
  ASSUME NEW b \in BaseFile, NEW w \in WalFile, NEW b2 \in BaseFile, NEW w2 \in WalFile,
         FilesOK(b, w), Moves(b, w, b2, w2), Len(w2.log) <= Len(w.log)
  PROVE  History(b2, w2) = History(b, w)
<1>1. CASE Rests(b, w, b2, w2)
  BY <1>1, RestedFiles
<1>2. CASE Grows(b, w, b2, w2)
  <2>1. PICK rec \in Seq(Entry), log \in Seq(Entry) : log = w.log /\ w2.log = log \o rec
    BY <1>2 DEF Grows, WalFile
  <2>2. Len(log \o rec) = Len(log) + Len(rec) /\ Len(log) \in Nat /\ Len(rec) \in Nat
    OBVIOUS
  <2>3. Len(rec) = 0
    BY <2>1, <2>2
  <2>4. w2.log = w.log
    BY <2>1, <2>3
  <2>5. Rests(b, w, b2, w2)
    <3>1. w.synced \in Nat /\ w.synced <= Len(w.log)
      BY DEF FilesOK, WalFile
    <3> QED
      BY <1>2, <2>4, <3>1 DEF Grows, Rests
  <2> QED
    BY <2>5, RestedFiles
<1>3. CASE Folds(b, w, b2, w2)
  <2>1. w2.gen # b2.gen /\ b2.ops = History(b, w)
    BY <1>3 DEF Folds, BaseFile
  <2>2. FilesOK(b2, w2)
    BY MovedFiles
  <2>3. History(b2, w2) = b2.ops
    BY <2>1, <2>2, BuildIs DEF FilesOK
  <2> QED
    BY <2>1, <2>3
<1>4. CASE Renews(b, w, b2, w2)
  <2>1. /\ b2 = b /\ w.gen # b.gen /\ w2.gen = b.gen /\ w2.log = <<>>
    BY <1>4 DEF Renews, FreshWal, BaseFile, WalFile
  <2>2. FilesOK(b, w2)
    BY <2>1, MovedFiles
  <2>3. PICK u \in Seq(Ops), v \in Seq(Ops), a \in Nat :
          u = History(b, w) /\ v = History(b, w2) /\ a = b.applied
    BY <2>2, BuildIs DEF FilesOK, BaseFile
  <2>4. u = b.ops /\ Len(u) = a
    BY <2>1, <2>3, BuildIs DEF FilesOK
  <2>5. Len(v) = a /\ \A i \in 1..a : v[i] = b.ops[i]
    BY <2>1, <2>2, <2>3, BuildIs DEF FilesOK
  <2>6. u = v
    BY <2>4, <2>5, SameOps
  <2> QED
    BY <2>1, <2>3, <2>6
<1> QED
  BY <1>1, <1>2, <1>3, <1>4 DEF Moves

\* Power loss leaves a beginning of the history.
LEMMA CutHistory ==
  ASSUME NEW b \in BaseFile, NEW w \in WalFile, FilesOK(b, w), NEW n \in 0..Len(w.log),
         NEW w2 \in WalFile, FilesOK(b, w2), w2.log = SubSeq(w.log, 1, n), w2.gen = w.gen
  PROVE  Begins(History(b, w2), History(b, w))
<1>1. PICK u \in Seq(Ops), v \in Seq(Ops), a \in Nat, log \in Seq(Entry) :
        u = History(b, w) /\ v = History(b, w2) /\ a = b.applied /\ log = w.log
  BY BuildIs DEF FilesOK, BaseFile, WalFile
<1>2. CASE w.gen = b.gen
  <2>1. PICK cut \in Seq(Entry) : cut = SubSeq(log, 1, n)
    BY <1>1 DEF WalFile
  <2>2. Len(cut) = n /\ \A i \in 1..n : cut[i] = log[i]
    BY <1>1, <2>1
  <2>3. Len(u) = a + Len(log) /\ \A i \in 1..Len(log) : u[a + i] = log[i].op
    BY <1>1, <1>2, BuildIs DEF FilesOK
  <2>4. Len(v) = a + n /\ \A i \in 1..n : v[a + i] = cut[i].op
    <3>1. w2.log = cut /\ w2.gen = b.gen
      BY <1>1, <1>2, <2>1
    <3>2. Len(v) = a + Len(w2.log) /\ \A i \in 1..Len(w2.log) : v[a + i] = w2.log[i].op
      BY <1>1, <3>1, BuildIs DEF FilesOK
    <3> QED
      BY <2>2, <3>1, <3>2
  <2>5. \A i \in 1..a : u[i] = b.ops[i] /\ v[i] = b.ops[i]
    BY <1>1, BuildIs DEF FilesOK
  <2>6. PICK l \in Nat : l = Len(log)
    OBVIOUS
  <2>7. Len(v) <= Len(u)
    BY <1>1, <2>3, <2>4, <2>6
  <2>8. ASSUME NEW i \in 1..(a + n), i \notin 1..a
        PROVE  v[i] = u[i]
    <3>1. i - a \in 1..n /\ i = a + (i - a) /\ n <= l
      BY <1>1, <2>6, <2>8
    <3>2. PICK j \in 1..n : i = a + j /\ j \in 1..l
      BY <3>1
    <3> QED
      BY <2>2, <2>3, <2>4, <2>6, <3>2
  <2>9. \A i \in 1..Len(v) : v[i] = u[i]
    BY <2>4, <2>5, <2>8
  <2> QED
    BY <1>1, <2>7, <2>9 DEF Begins
<1>3. CASE w.gen # b.gen
  <2>1. u = v
    BY <1>1, <1>3, BuildIs DEF FilesOK
  <2> QED
    BY <1>1, <2>1 DEF Begins
<1> QED
  BY <1>2, <1>3

\* The log is rewritten, if at all, by a cut, a fresh one or a sync.
Shrunk(w, w2) ==
  \/ w2.log = w.log
  \/ w2.log = <<>>
  \/ \E pos \in Nat : w2 = CutTo(w, pos)

LEMMA ShrunkLen ==
  ASSUME NEW w \in WalFile, NEW w2, Shrunk(w, w2)
  PROVE  Len(w2.log) <= Len(w.log)
<1>1. PICK log \in Seq(Entry), l \in Nat : log = w.log /\ l = Len(log)
  BY DEF WalFile
<1>2. ASSUME NEW pos \in Nat, w2 = CutTo(w, pos)
      PROVE  Len(w2.log) <= l
  <2>1. PICK n \in 0..l : n = Min2(pos, l)
    BY DEF Min2
  <2>2. w2.log = SubSeq(log, 1, n)
    BY <1>1, <1>2, <2>1 DEF CutTo, WalFile
  <2>3. Len(SubSeq(log, 1, n)) = n
    BY <1>1, <2>1
  <2> QED
    BY <2>1, <2>2, <2>3
<1> QED
  BY <1>1, <1>2 DEF Shrunk

LEMMA RepairShrinks ==
  ASSUME StoreInv, base # None, NEW h \in Handles, served[h] # None, SyncRepair(h)
  PROVE  Shrunk(wal, wal')
<1> DEFINE s == CaughtSeen(h, StampOf(base, wal))
<1>1. base \in BaseFile /\ wal \in WalFile
  BY FilesThere
<1>2. StampOf(base, wal) \in Stamp /\ StampOf(base, wal).base = base.gen
  BY <1>1, StampOfType
<1>3. s \in Seen
  BY <1>1, <1>2, CaughtSeenType
<1>4. wal' = RepairedWal(s)
  BY DEF SyncRepair
<1> HIDE DEF s
<1>5. s.pos \in Nat
  BY <1>3 DEF Seen
<1>6. \/ wal' = wal \/ wal' = FreshWal(wal, s.gen) \/ wal' = CutTo(wal, s.pos)
  BY <1>4 DEF RepairedWal
<1> QED
  BY <1>5, <1>6 DEF Shrunk, FreshWal

\* Nothing but a record written whole makes the log longer.
LEMMA NoGrowth ==
  ASSUME StoreInv, HistInv, base # None, [Next]_vars, ~PowerLoss,
         \A h \in Handles : ~WriteAll(h)
  PROVE  Len(wal'.log) <= Len(wal.log)
<1>1. wal \in WalFile
  BY FilesThere
<1>2. ASSUME wal' = wal PROVE Shrunk(wal, wal')
  BY <1>2 DEF Shrunk
<1>3. ASSUME NEW h \in Handles, Create(h) PROVE Shrunk(wal, wal')
  BY <1>2, <1>3 DEF Create, CreateBegin, CreateLock, CreateBase, files
<1>4. ASSUME NEW h \in Handles, Load(h) PROVE Shrunk(wal, wal')
  <2>1. ASSUME Mend(h), SyncRepair(h) PROVE Shrunk(wal, wal')
    <3>1. served[h] # None
      BY <2>1 DEF Mend, StoreInv, Defined, Live, Closed, Loading
    <3> QED
      BY <2>1, <3>1, RepairShrinks
  <2> QED
    BY <1>2, <1>4, <2>1 DEF Load, StatBase, StatWal, ReloadTail, MapBase, LoadRead, LoadAgain, Mend, files
<1>5. ASSUME NEW h \in Handles, Write(h) PROVE Shrunk(wal, wal')
  <2>1. ASSUME Sync(h), SyncRepair(h) PROVE Shrunk(wal, wal')
    <3>1. served[h] # None
      BY <2>1 DEF Sync, StoreInv, Defined, Live, Closed, Loading
    <3> QED
      BY <2>1, <3>1, RepairShrinks
  <2>2. ASSUME Sync(h) PROVE Shrunk(wal, wal')
    BY <1>2, <2>1, <2>2 DEF Sync
  <2>3. ASSUME NEW n \in TornLens, WritePart(h, n) PROVE Shrunk(wal, wal')
    <3>1. wal'.log = wal.log
      BY <1>1, <2>3 DEF WritePart, WalFile
    <3> QED
      BY <3>1 DEF Shrunk
  <2>4. ASSUME AppendFail(h) PROVE Shrunk(wal, wal')
    <3>1. seen[h].pos \in Nat
      BY DEF StoreInv, TypeOK, Seen
    <3> QED
      BY <1>2, <2>4, <3>1 DEF AppendFail, Shrunk
  <2>5. ASSUME AppendOk(h) PROVE Shrunk(wal, wal')
    <3>1. wal'.log = wal.log
      BY <1>1, <2>5 DEF AppendOk, WalFile
    <3> QED
      BY <3>1 DEF Shrunk
  <2>6. CASE wal' = wal
    BY <1>2, <2>6
  <2> QED
    BY <1>5, <2>2, <2>3, <2>4, <2>5, <2>6
       DEF Write, Stage, Discard, Acquire, TxnAbort, TxnEnd, AppendRefused, files
<1>6. ASSUME NEW h \in Handles, Compact(h) PROVE Shrunk(wal, wal')
  <2>1. ASSUME Swap(h) PROVE Shrunk(wal, wal')
    BY <2>1 DEF Swap, FreshWal, Shrunk
  <2> QED
    BY <1>2, <1>6, <2>1 DEF Compact, Fold, CompactFail, files
<1>7. ASSUME NEW h \in Handles, Crash(h) PROVE Shrunk(wal, wal')
  BY <1>2, <1>7 DEF Crash, files
<1>8. ASSUME UNCHANGED vars PROVE Shrunk(wal, wal')
  BY <1>2, <1>8 DEF vars
<1>9. Shrunk(wal, wal')
  BY <1>3, <1>4, <1>5, <1>6, <1>7, <1>8 DEF Next
<1> QED
  BY <1>1, <1>9, ShrunkLen

\* Nothing but a record written whole, or power loss, changes the history.
LEMMA HistoryStays ==
  ASSUME Sheltered, StoreInv, HistInv, base # None, [Next]_vars, ~PowerLoss,
         \A h \in Handles : ~WriteAll(h)
  PROVE  base' # None /\ History(base', wal') = History(base, wal)
<1>1. /\ base \in BaseFile /\ wal \in WalFile /\ base' \in BaseFile /\ wal' \in WalFile
      /\ base' # None /\ FilesOK(base, wal) /\ Moves(base, wal, base', wal')
  BY FilesStep
<1>2. Len(wal'.log) <= Len(wal.log)
  BY NoGrowth
<1> QED
  BY <1>1, <1>2, SameHistory

\* A record is in the history once it is in the log.
LEMMA WrittenAdds ==
  ASSUME NEW b \in BaseFile, NEW w \in WalFile, FilesOK(b, w), NEW g \in Generation,
         NEW x \in Nat, NEW s \in Seen, NEW ops \in Seq(Ops),
         LockOK(b, w, "written", g, x, s, ops)
  PROVE  /\ Len(History(b, w)) = Len(View(g)) + Len(ops)
         /\ \A i \in 1..Len(ops) : History(b, w)[Len(View(g)) + i] = ops[i]
<1>1. PICK H \in Seq(Ops), log \in Seq(Entry), a \in Nat, v \in Nat, pos \in Nat, m \in Nat :
        /\ H = History(b, w) /\ log = w.log /\ a = b.applied /\ v = Len(View(g))
        /\ pos = s.pos /\ m = Len(ops)
  <2>1. History(b, w) \in Seq(Ops) /\ w.log \in Seq(Entry) /\ b.applied \in Nat /\ s.pos \in Nat
    BY BuildIs DEF FilesOK, WalFile, BaseFile, Seen
  <2>2. View(g) \in Seq(Ops)
    BY ViewIs
  <2>3. Len(View(g)) \in Nat /\ Len(ops) \in Nat
    BY <2>2
  <2> QED
    BY <2>1, <2>3
<1>2. /\ w.gen = b.gen /\ Len(log) = pos + m /\ Len(H) = v + m
      /\ \A i \in 1..m : log[pos + i] = Sealed(x, ops)[i]
  BY <1>1 DEF LockOK, Appending
<1>3. Len(H) = a + Len(log) /\ \A i \in 1..Len(log) : H[a + i] = log[i].op
  BY <1>1, <1>2, BuildIs DEF FilesOK
<1>4. v = a + pos
  <2>1. PICK l \in Nat : l = Len(log)
    OBVIOUS
  <2>2. l = pos + m /\ v + m = a + l
    BY <1>2, <1>3, <2>1
  <2> QED
    BY <2>2
<1>5. ASSUME NEW i \in 1..m
      PROVE  H[v + i] = ops[i]
  <2>1. PICK j \in Nat : j = pos + i
    OBVIOUS
  <2>2. j \in 1..Len(log) /\ v + i = a + j
    BY <1>2, <1>4, <2>1
  <2>3. H[v + i] = log[j].op /\ log[j] = Sealed(x, ops)[i]
    BY <1>2, <1>3, <2>1, <2>2
  <2>4. Sealed(x, ops)[i].op = ops[i]
    BY <1>1 DEF Sealed
  <2> QED
    BY <2>3, <2>4
<1> QED
  BY <1>1, <1>2, <1>5

LEMMA HistoryGrows ==
  ASSUME Sheltered, StoreInv, HistInv, NEW h \in Handles, WriteAll(h)
  PROVE  /\ base # None /\ base' = base
         /\ History(base, wal) \in Seq(Ops) /\ History(base', wal') \in Seq(Ops)
         /\ Begins(History(base, wal), History(base', wal'))
         /\ Len(History(base', wal')) = Len(History(base, wal)) + Len(staged[h])
         /\ \A i \in 1..Len(staged[h]) :
              History(base', wal')[Len(History(base, wal)) + i] = staged[h][i]
<1>1. pc[h] \in {"append", "writing"} /\ base' = base
      /\ UNCHANGED <<served, nextSeq, seen, staged, probe>> /\ pc'[h] = "written"
  BY DEF WriteAll, Goto, memory, batch, StoreInv, TypeOK
<1>2. pc[h] \in UnderLock \ {"create_base"}
  BY <1>1 DEF UnderLock, Appending
<1>3. /\ base # None /\ served[h] \in Generation /\ nextSeq[h] \in Nat
      /\ seen[h] \in Seen /\ staged[h] \in Seq(Ops)
      /\ Len(View(served[h])) = Len(History(base, wal))
  BY <1>1, <1>2, HolderIs DEF LockOK
<1>4. \E k \in Handles : Write(k)
  BY DEF Write
<1>5. StoreInv'
  BY <1>4, StepStoreInv DEF Next
<1>6. HistInv' /\ Moves(base, wal, base', wal')
  BY WriteAllHist
<1>7. base \in BaseFile /\ wal \in WalFile /\ FilesOK(base, wal)
  BY <1>3, FilesThere DEF HistInv, FilesInv
<1>8. wal' \in WalFile /\ FilesOK(base, wal')
  BY <1>1, <1>3, <1>5, <1>6 DEF StoreInv, TypeOK, Defined, HistInv, FilesInv
<1>9. LockOK(base, wal', "written", served[h], nextSeq[h], seen[h], staged[h])
  BY <1>1, <1>6 DEF HistInv, HandleInv, HandleOK
<1>10. /\ Len(History(base, wal')) = Len(View(served[h])) + Len(staged[h])
       /\ \A i \in 1..Len(staged[h]) :
            History(base, wal')[Len(View(served[h])) + i] = staged[h][i]
  <2>1. PICK w \in WalFile : w = wal'
    BY <1>8
  <2> QED
    BY <1>3, <1>7, <1>8, <1>9, <2>1, WrittenAdds
<1>11. /\ History(base, wal) \in Seq(Ops) /\ History(base', wal') \in Seq(Ops)
       /\ Begins(History(base, wal), History(base', wal'))
  BY <1>1, <1>6, <1>7, <1>8, MovedFiles
<1> QED
  BY <1>1, <1>3, <1>10, <1>11

LEMMA HistoryCut ==
  ASSUME StoreInv, HistInv, PowerLoss, base # None
  PROVE  /\ base' = base
         /\ History(base, wal) \in Seq(Ops) /\ History(base', wal') \in Seq(Ops)
         /\ Begins(History(base', wal'), History(base, wal))
<1>1. base \in BaseFile /\ wal \in WalFile /\ FilesOK(base, wal)
  BY FilesThere DEF HistInv, FilesInv
<1>2. base' = base /\ StoreInv' /\ HistInv'
  BY PowerLossHist, StepStoreInv DEF PowerLoss, Next
<1>3. wal' \in WalFile /\ FilesOK(base, wal')
  BY <1>2 DEF StoreInv, TypeOK, Defined, HistInv, FilesInv
<1>4. PICK n \in wal.synced..Len(wal.log), t \in {0} \cup TornLens :
        wal' = [wal EXCEPT !.log = SubSeq(@, 1, n), !.torn = t]
  BY DEF PowerLoss
<1>5. wal'.log = SubSeq(wal.log, 1, n) /\ wal'.gen = wal.gen
  BY <1>1, <1>4 DEF WalFile
<1>6. n \in 0..Len(wal.log)
  BY <1>1 DEF WalFile
<1>7. PICK w \in WalFile : w = wal'
  BY <1>3
<1>8. Begins(History(base, w), History(base, wal))
  BY <1>1, <1>3, <1>5, <1>6, <1>7, CutHistory
<1>9. History(base, wal) \in Seq(Ops) /\ History(base, w) \in Seq(Ops)
  BY <1>1, <1>3, <1>7, BuildIs DEF FilesOK
<1> QED
  BY <1>2, <1>7, <1>8, <1>9

\* A store just created holds nothing.
LEMMA CreatedEmpty ==
  ASSUME Sheltered, StoreInv, HistInv, [Next]_vars, base = None, base' # None
  PROVE  /\ History(base', wal') \in Seq(Ops) /\ Len(History(base', wal')) = 0
         /\ served' = served /\ acked' = acked
<1>1. ASSUME NEW k \in Handles
      PROVE  pc[k] \in Closed
  BY NoBaseClosed
<1>2. PICK h \in Handles : CreateBase(h)
  <2>1. \A h \in Handles : ~Fold(h)
    BY <1>1 DEF Fold, Closed
  <2>2. ASSUME NEW h \in Handles, Load(h) PROVE FALSE
    BY <2>2 DEF Load, StatBase, StatWal, ReloadTail, MapBase, LoadRead, LoadAgain, Mend, files
  <2>3. ASSUME NEW h \in Handles, Write(h) PROVE FALSE
    BY <2>3 DEF Write, Stage, Discard, Acquire, Sync, TxnAbort, TxnEnd, AppendRefused, WriteAll,
       AppendFail, AppendOk, WritePart, files
  <2>4. ASSUME NEW h \in Handles, Compact(h) \/ Crash(h) PROVE FALSE
    BY <2>1, <2>4 DEF Compact, Swap, CompactFail, Crash, files
  <2>5. ~PowerLoss /\ ~UNCHANGED vars
    BY DEF PowerLoss, vars
  <2>6. PICK h \in Handles : Create(h)
    BY <2>2, <2>3, <2>4, <2>5 DEF Next
  <2> QED
    BY <2>6 DEF Create, CreateBegin, CreateLock, files
<1>3. base' = EmptyBase /\ wal' = wal /\ served' = served /\ acked' = acked /\ wal # None
  BY <1>2 DEF CreateBase, memory, ghosts, StoreInv, Defined
<1>4. wal.log = <<>>
  BY <1>3 DEF HistInv, FilesInv
<1>5. PICK b \in BaseFile, w \in WalFile : b = base' /\ w = wal' /\ FilesOK(b, w)
  <2>1. StoreInv' /\ HistInv'
    BY StepStoreInv, StepHist
  <2> QED
    BY <2>1 DEF StoreInv, TypeOK, Defined, HistInv, FilesInv
<1>6. b.applied = 0 /\ w.log = <<>>
  BY <1>3, <1>4, <1>5 DEF EmptyBase
<1>7. History(b, w) \in Seq(Ops) /\ Len(History(b, w)) = 0
  <2>1. Len(w.log) = 0 /\ b.applied = 0
    BY <1>6
  <2>2. /\ History(b, w) \in Seq(Ops)
        /\ w.gen = b.gen => Len(History(b, w)) = b.applied + Len(w.log)
        /\ w.gen # b.gen => Len(History(b, w)) = b.applied
    BY <1>5, BuildIs DEF FilesOK
  <2> QED
    BY <2>1, <2>2
<1> QED
  BY <1>3, <1>5, <1>7

\* The directory holds what it held, and what a record brought.
LEMMA HeldStep ==
  ASSUME Sheltered, StoreInv, HistInv, [Next]_vars, NEW op \in Held(base', wal')
  PROVE  \/ op \in Held(base, wal)
         \/ \E h \in Handles : WriteAll(h) /\ \E i \in 1..Len(staged[h]) : op = staged[h][i]
<1>1. PICK i \in 1..Len(History(base', wal')) : base' # None /\ History(base', wal')[i] = op
  BY DEF Held
<1>2. CASE base = None
  BY <1>1, <1>2, CreatedEmpty
<1>3. CASE base # None /\ PowerLoss
  <2>1. PICK u \in Seq(Ops), v \in Seq(Ops) :
          u = History(base, wal) /\ v = History(base', wal') /\ Begins(v, u)
    BY <1>3, HistoryCut
  <2>2. i \in 1..Len(v) /\ Len(v) <= Len(u) /\ u[i] = v[i]
    BY <1>1, <2>1 DEF Begins
  <2>3. i \in 1..Len(u)
    BY <2>2
  <2> QED
    BY <1>1, <1>3, <2>1, <2>2, <2>3 DEF Held
<1>4. ASSUME NEW h \in Handles, WriteAll(h)
      PROVE  op \in Held(base, wal) \/ \E j \in 1..Len(staged[h]) : op = staged[h][j]
  <2>1. PICK u \in Seq(Ops), v \in Seq(Ops), n \in Nat, m \in Nat :
          /\ u = History(base, wal) /\ v = History(base', wal') /\ Begins(u, v)
          /\ n = Len(u) /\ m = Len(staged[h]) /\ Len(v) = n + m
          /\ \A j \in 1..m : v[n + j] = staged[h][j]
    <3>1. staged[h] \in Seq(Ops)
      BY DEF StoreInv, TypeOK
    <3>2. /\ History(base, wal) \in Seq(Ops) /\ History(base', wal') \in Seq(Ops)
          /\ Begins(History(base, wal), History(base', wal'))
          /\ Len(History(base', wal')) = Len(History(base, wal)) + Len(staged[h])
          /\ \A j \in 1..Len(staged[h]) :
               History(base', wal')[Len(History(base, wal)) + j] = staged[h][j]
      BY <1>4, HistoryGrows
    <3>3. Len(History(base, wal)) \in Nat /\ Len(staged[h]) \in Nat
      BY <3>1, <3>2
    <3> QED
      BY <3>2, <3>3
  <2>2. CASE i \in 1..n
    <3>1. u[i] = op
      BY <1>1, <2>1, <2>2 DEF Begins
    <3> QED
      BY <1>4, <2>1, <2>2, <3>1, HistoryGrows DEF Held
  <2>3. CASE i \notin 1..n
    <3>1. i - n \in 1..m /\ i = n + (i - n)
      BY <1>1, <2>1, <2>3
    <3>2. PICK j \in 1..m : i = n + j
      BY <3>1
    <3> QED
      BY <1>1, <2>1, <3>2
  <2> QED
    BY <2>2, <2>3
<1>5. CASE base # None /\ ~PowerLoss /\ \A h \in Handles : ~WriteAll(h)
  <2>1. History(base', wal') = History(base, wal)
    BY <1>5, HistoryStays
  <2> QED
    BY <1>1, <1>5, <2>1 DEF Held
<1> QED
  BY <1>2, <1>3, <1>4, <1>5

----------------------------------------------------------------------------
(* A transaction that failed leaves nothing. *)

\* The end of what was staged is gone.
Shorter(now, was) == Len(now) <= Len(was) /\ \A i \in 1..Len(now) : now[i] = was[i]

\* What stays staged keeps its place, and what is given up was staged and not
\* written.
Leaves(st, p, st2, p2, gone) ==
  /\ \A k \in Handles : Shorter(st2[k], st[k])
  /\ \A x \in gone : \E k \in Handles : \E i \in 1..Len(st[k]) :
       i > Len(st2[k]) /\ x = st[k][i] /\ p[k] # "written"
  /\ \A k \in Handles : st2[k] = <<>> \/ (p[k] = "written" => p2[k] = "written")

\* What comes to be in the directory was staged, and is written.
Brings(held, held2, st2, p2) ==
  \A op \in held2 \ held :
    \E k \in Handles : \E i \in 1..Len(st2[k]) : op = st2[k][i] /\ p2[k] = "written"

\* A step that stages nothing.
LEMMA UsedKept ==
  ASSUME NEW held, NEW held2, NEW st \in [Handles -> Seq(Ops)], NEW st2 \in [Handles -> Seq(Ops)],
         NEW p, NEW p2, NEW us, NEW ab, NEW gone, UsedOK(held, st, p, us, ab),
         Leaves(st, p, st2, p2, gone), Brings(held, held2, st2, p2)
  PROVE  UsedOK(held2, st2, p2, us, ab \cup gone)
<1>1. ASSUME NEW h \in Handles, NEW i \in 1..Len(st[h]), NEW k \in Handles,
             NEW j \in 1..Len(st[k]), st[h][i] = st[k][j]
      PROVE  h = k /\ i = j
  BY <1>1 DEF UsedOK
<1>2. ASSUME NEW k \in Handles, NEW i \in 1..Len(st2[k])
      PROVE  i \in 1..Len(st[k]) /\ st2[k][i] = st[k][i] /\ st2[k] # <<>>
  <2>1. PICK u \in Seq(Ops), v \in Seq(Ops) : u = st2[k] /\ v = st[k]
    OBVIOUS
  <2>2. Len(u) <= Len(v) /\ v[i] = u[i] /\ i \in 1..Len(u)
    BY <1>2, <2>1 DEF Leaves, Shorter
  <2>3. i \in 1..Len(v) /\ u # <<>>
    BY <2>2
  <2> QED
    BY <2>1, <2>2, <2>3
<1>3. ASSUME NEW x \in held, x \in gone PROVE FALSE
  <2>1. PICK k \in Handles : \E i \in 1..Len(st[k]) : x = st[k][i] /\ p[k] # "written"
    BY <1>3 DEF Leaves
  <2> QED
    BY <1>3, <2>1 DEF UsedOK
<1>4. ASSUME NEW k \in Handles, NEW i \in 1..Len(st2[k])
      PROVE  st2[k][i] \in us \ (ab \cup gone)
  <2>1. i \in 1..Len(st[k]) /\ st2[k][i] = st[k][i]
    BY <1>2
  <2>2. st[k][i] \in us \ ab
    BY <2>1 DEF UsedOK
  <2>3. ASSUME st[k][i] \in gone PROVE FALSE
    <3>1. PICK h \in Handles : \E j \in 1..Len(st[h]) : j > Len(st2[h]) /\ st[k][i] = st[h][j]
      BY <2>3 DEF Leaves
    <3>2. PICK j \in 1..Len(st[h]) : j > Len(st2[h]) /\ st[k][i] = st[h][j]
      BY <3>1
    <3>3. h = k /\ j = i
      BY <1>1, <2>1, <3>2
    <3>4. Len(st2[k]) \in Nat
      OBVIOUS
    <3> QED
      BY <3>2, <3>3, <3>4
  <2> QED
    BY <2>1, <2>2, <2>3
<1>5. ASSUME NEW op \in held2 PROVE op \in us \ (ab \cup gone)
  <2>1. CASE op \in held
    BY <1>3, <2>1 DEF UsedOK
  <2>2. CASE op \notin held
    <3>1. PICK k \in Handles : \E i \in 1..Len(st2[k]) : op = st2[k][i]
      BY <2>2 DEF Brings
    <3> QED
      BY <1>4, <3>1
  <2> QED
    BY <2>1, <2>2
<1>6. ASSUME NEW h \in Handles, NEW i \in 1..Len(st2[h]), p2[h] # "written", st2[h][i] \in held2
      PROVE  FALSE
  <2>1. i \in 1..Len(st[h]) /\ st2[h][i] = st[h][i] /\ p[h] # "written"
    BY <1>2, <1>6 DEF Leaves
  <2>2. st2[h][i] \notin held
    BY <2>1 DEF UsedOK
  <2>3. PICK k \in Handles : \E j \in 1..Len(st2[k]) : st2[h][i] = st2[k][j] /\ p2[k] = "written"
    BY <1>6, <2>2 DEF Brings
  <2>4. PICK j \in 1..Len(st2[k]) : st2[h][i] = st2[k][j] /\ p2[k] = "written"
    BY <2>3
  <2>5. j \in 1..Len(st[k]) /\ st2[k][j] = st[k][j]
    BY <1>2
  <2>6. h = k
    <3>1. st[h][i] = st[k][j]
      BY <2>1, <2>4, <2>5
    <3> QED
      BY <1>1, <2>1, <2>5, <3>1
  <2> QED
    BY <1>6, <2>4, <2>6
<1>7. ASSUME NEW h \in Handles, NEW i \in 1..Len(st2[h]),
             NEW k \in Handles, NEW j \in 1..Len(st2[k]), st2[h][i] = st2[k][j]
      PROVE  h = k /\ i = j
  <2>1. /\ i \in 1..Len(st[h]) /\ st2[h][i] = st[h][i]
        /\ j \in 1..Len(st[k]) /\ st2[k][j] = st[k][j]
    BY <1>2
  <2> QED
    <3>1. st[h][i] = st[k][j]
      BY <1>7, <2>1
    <3> QED
      BY <1>1, <2>1, <3>1
<1>8. ab \cup gone \subseteq us
  <2>1. ASSUME NEW x \in gone PROVE x \in us
    <3>1. PICK k \in Handles : \E i \in 1..Len(st[k]) : x = st[k][i]
      BY <2>1 DEF Leaves
    <3> QED
      BY <3>1 DEF UsedOK
  <2> QED
    BY <2>1 DEF UsedOK
<1> QED
  BY <1>4, <1>5, <1>6, <1>7, <1>8 DEF UsedOK

\* Staging takes an op nobody has used.
LEMMA UsedMore ==
  ASSUME NEW held, NEW st \in [Handles -> Seq(Ops)], NEW p, NEW us, NEW ab,
         UsedOK(held, st, p, us, ab), NEW h \in Handles, NEW op \in Ops \ us
  PROVE  UsedOK(held, [st EXCEPT ![h] = Append(st[h], op)], p, us \cup {op}, ab)
<1> DEFINE st2 == [st EXCEPT ![h] = Append(st[h], op)]
<1>4. ASSUME NEW k \in Handles, NEW i \in 1..Len(st2[k])
      PROVE  \/ i \in 1..Len(st[k]) /\ st2[k][i] = st[k][i]
             \/ k = h /\ i = Len(st[h]) + 1 /\ st2[k][i] = op
  <2>1. CASE k = h
    <3>1. PICK u \in Seq(Ops), n \in Nat : u = st[h] /\ n = Len(u)
      OBVIOUS
    <3>2. st2[k] = Append(u, op)
      BY <2>1, <3>1
    <3>3. /\ Len(Append(u, op)) = n + 1 /\ Append(u, op)[n + 1] = op
          /\ \A j \in 1..n : Append(u, op)[j] = u[j]
      BY <3>1
    <3>4. i \in 1..n \/ i = n + 1
      BY <3>2, <3>3
    <3> QED
      BY <2>1, <3>1, <3>2, <3>3, <3>4
  <2>2. CASE k # h
    BY <2>2
  <2> QED
    BY <2>1, <2>2
<1> HIDE DEF st2
<1>5. op \notin held /\ op \notin ab
  BY DEF UsedOK
<1>6. ASSUME NEW k \in Handles, NEW i \in 1..Len(st[k]) PROVE st[k][i] # op
  BY <1>6 DEF UsedOK
<1>7. held \subseteq (us \cup {op}) \ ab /\ ab \subseteq us \cup {op}
  BY DEF UsedOK
<1>8. ASSUME NEW k \in Handles, NEW i \in 1..Len(st2[k])
      PROVE  st2[k][i] \in (us \cup {op}) \ ab
  BY <1>4, <1>5 DEF UsedOK
<1>9. ASSUME NEW k \in Handles, NEW i \in 1..Len(st2[k]), p[k] # "written"
      PROVE  st2[k][i] \notin held
  BY <1>4, <1>5, <1>9 DEF UsedOK
<1>10. ASSUME NEW k \in Handles, NEW i \in 1..Len(st2[k]),
              NEW l \in Handles, NEW j \in 1..Len(st2[l]), st2[k][i] = st2[l][j]
       PROVE  k = l /\ i = j
  <2>1. CASE i \in 1..Len(st[k]) /\ st2[k][i] = st[k][i]
             /\ j \in 1..Len(st[l]) /\ st2[l][j] = st[l][j]
    <3>1. st[k][i] = st[l][j]
      BY <1>10, <2>1
    <3>2. i \in Nat /\ j \in Nat
      OBVIOUS
    <3> QED
      BY <2>1, <3>1, <3>2 DEF UsedOK
  <2>2. CASE i \in 1..Len(st[k]) /\ st2[k][i] = st[k][i] /\ st2[l][j] = op
    BY <1>6, <1>10, <2>2
  <2>3. CASE j \in 1..Len(st[l]) /\ st2[l][j] = st[l][j] /\ st2[k][i] = op
    BY <1>6, <1>10, <2>3
  <2> QED
    BY <1>4, <2>1, <2>2, <2>3
<1>11. UsedOK(held, st2, p, us \cup {op}, ab)
  BY <1>7, <1>8, <1>9, <1>10 DEF UsedOK
<1> QED
  BY <1>11 DEF st2

\* What a step gives up, and that it leaves the rest as it is.
GivesUp(gone) ==
  /\ used' = used /\ aborted' = aborted \cup gone
  /\ Leaves(staged, pc, staged', pc', gone)

\* Nothing is given up by a step of h that leaves what is staged, or that
\* drops it all.
LEMMA KeepsAll ==
  ASSUME StoreInv, NEW h \in Handles, UNCHANGED <<staged, used, aborted>>,
         \A k \in Handles \ {h} : pc'[k] = pc[k], pc[h] # "written"
  PROVE  GivesUp({})
<1>1. \A k \in Handles : Shorter(staged'[k], staged[k])
  BY DEF Shorter, StoreInv, TypeOK
<1>2. \A k \in Handles : pc[k] = "written" => pc'[k] = "written"
  OBVIOUS
<1> QED
  BY <1>1, <1>2 DEF GivesUp, Leaves

LEMMA DropsAll ==
  ASSUME StoreInv, NEW h \in Handles, UNCHANGED <<used, aborted>>,
         staged' = [staged EXCEPT ![h] = <<>>], \A k \in Handles \ {h} : pc'[k] = pc[k]
  PROVE  GivesUp({})
<1>1. staged'[h] = <<>> /\ \A k \in Handles \ {h} : staged'[k] = staged[k]
  BY DEF StoreInv, TypeOK
<1>2. ASSUME NEW k \in Handles PROVE Shorter(staged'[k], staged[k])
  <2>1. staged[k] \in Seq(Ops)
    BY DEF StoreInv, TypeOK
  <2>2. staged'[k] = staged[k] \/ staged'[k] = <<>>
    BY <1>1
  <2>3. Len(<<>>) = 0 /\ Len(staged[k]) \in Nat
    BY <2>1
  <2> QED
    BY <2>2, <2>3 DEF Shorter
<1>3. \A k \in Handles : staged'[k] = <<>> \/ (pc[k] = "written" => pc'[k] = "written")
  BY <1>1
<1> QED
  BY <1>2, <1>3 DEF GivesUp, Leaves

\* A call that fails before its record is written.
LEMMA FailDrops ==
  ASSUME StoreInv, NEW h \in Handles, Fail(h), pc[h] # "written"
  PROVE  GivesUp(Dropped(h))
<1>1. /\ staged' = [staged EXCEPT ![h] = Kept(h)] /\ aborted' = aborted \cup Dropped(h)
      /\ used' = used /\ pc' = [pc EXCEPT ![h] = "idle"]
  BY DEF Fail, Return, Goto
<1>2. /\ staged \in [Handles -> Seq(Ops)] /\ pc \in [Handles -> Steps]
      /\ mark[h] \in Nat /\ mark[h] <= Len(staged[h])
  BY DEF StoreInv, TypeOK, Defined
<1>3. PICK u \in Seq(Ops), n \in Nat, m \in Nat :
        u = staged[h] /\ n = mark[h] /\ m = Len(u) /\ n <= m
  BY <1>2
<1>4. CASE goal[h] = "transact"
  <2>1. staged'[h] = SubSeq(u, 1, n) /\ \A k \in Handles \ {h} : staged'[k] = staged[k]
    BY <1>1, <1>2, <1>3, <1>4 DEF Kept
  <2>2. Len(SubSeq(u, 1, n)) = n /\ \A i \in 1..n : SubSeq(u, 1, n)[i] = u[i]
    BY <1>3
  <2>3. ASSUME NEW k \in Handles PROVE Shorter(staged'[k], staged[k])
    <3>1. CASE k = h
      BY <1>3, <2>1, <2>2, <3>1 DEF Shorter
    <3>2. CASE k # h
      BY <1>2, <2>1, <3>2 DEF Shorter
    <3> QED
      BY <3>1, <3>2
  <2>4. ASSUME NEW x \in Dropped(h)
        PROVE  \E i \in 1..Len(staged[h]) : i > Len(staged'[h]) /\ x = staged[h][i]
    <3>1. PICK i \in n + 1..m : x = u[i]
      BY <1>3, <1>4 DEF Dropped
    <3>2. i \in 1..m /\ i > n
      OBVIOUS
    <3> QED
      BY <1>3, <2>1, <2>2, <3>1, <3>2
  <2> QED
    BY <1>1, <1>2, <2>3, <2>4 DEF GivesUp, Leaves
<1>5. CASE goal[h] # "transact"
  <2>1. staged' = staged /\ Dropped(h) = {}
    BY <1>1, <1>2, <1>5 DEF Kept, Dropped
  <2> QED
    BY <1>1, <1>2, <2>1, KeepsAll
<1> QED
  BY <1>4, <1>5

LEMMA StepGivesUp ==
  ASSUME Sheltered, StoreInv, [Next]_vars, \A h \in Handles, op \in Ops : ~Stage(h, op)
  PROVE  \E gone : GivesUp(gone)
<1>1. pc \in [Handles -> Steps]
  BY DEF StoreInv, TypeOK
<1>2. ASSUME NEW h \in Handles, Create(h) PROVE GivesUp({})
  <2>1. pc[h] # "written" /\ UNCHANGED <<staged, used, aborted>>
    BY <1>2 DEF Create, CreateBegin, CreateLock, CreateBase, batch, ghosts
  <2>2. \A k \in Handles \ {h} : pc'[k] = pc[k]
    BY <1>1, <1>2 DEF Create, CreateBegin, CreateLock, CreateBase, Goto
  <2> QED
    BY <2>1, <2>2, KeepsAll
<1>3. ASSUME NEW h \in Handles, Load(h) PROVE GivesUp({})
  <2>1. pc[h] # "written" /\ UNCHANGED <<staged, used, aborted>>
    BY <1>3 DEF Load, StatBase, StatWal, ReloadTail, MapBase, LoadRead, LoadAgain, Mend, batch, ghosts
  <2>2. \A k \in Handles \ {h} : pc'[k] = pc[k]
    BY <1>1, <1>3 DEF Load, StatBase, StatWal, ReloadTail, MapBase, LoadRead, LoadAgain, Mend, Goto
  <2> QED
    BY <2>1, <2>2, KeepsAll
<1>4. ASSUME NEW h \in Handles,
             \/ \E for \in {"commit", "transact", "compact"} : Acquire(h, for)
             \/ Sync(h) \/ TxnEnd(h) \/ WriteAll(h) \/ \E n \in TornLens : WritePart(h, n)
             \/ Compact(h)
      PROVE  GivesUp({})
  <2>1. pc[h] # "written" /\ UNCHANGED <<staged, used, aborted>>
    BY <1>4 DEF Acquire, Sync, TxnEnd, WriteAll, WritePart, Compact, Fold, Swap, CompactFail,
       batch, ghosts
  <2>2. \A k \in Handles \ {h} : pc'[k] = pc[k]
    BY <1>1, <1>4 DEF Acquire, Sync, TxnEnd, WriteAll, WritePart, Compact, Fold, Swap,
       CompactFail, Goto, Return
  <2> QED
    BY <2>1, <2>2, KeepsAll
<1>5. ASSUME NEW h \in Handles, Discard(h) \/ AppendOk(h) \/ Crash(h) PROVE GivesUp({})
  <2>1. staged' = [staged EXCEPT ![h] = <<>>] /\ UNCHANGED <<used, aborted>>
    BY <1>5 DEF Discard, AppendOk, Crash, Forget, ghosts
  <2>2. \A k \in Handles \ {h} : pc'[k] = pc[k]
    BY <1>1, <1>5 DEF Discard, AppendOk, Crash, Forget, Goto, Return
  <2> QED
    BY <2>1, <2>2, DropsAll
<1>6. ASSUME NEW h \in Handles, TxnAbort(h) \/ AppendRefused(h) \/ AppendFail(h)
      PROVE  GivesUp(Dropped(h))
  <2>1. pc[h] # "written" /\ Fail(h)
    BY <1>6 DEF TxnAbort, AppendRefused, AppendFail, Sheltered
  <2> QED
    BY <2>1, FailDrops
<1>7. ASSUME PowerLoss PROVE GivesUp({})
  <2>1. (\A k \in Handles : staged'[k] = <<>>) /\ UNCHANGED <<used, aborted>>
    BY <1>7 DEF PowerLoss
  <2>2. ASSUME NEW k \in Handles PROVE Shorter(staged'[k], staged[k])
    <3>1. Len(staged[k]) \in Nat /\ Len(<<>>) = 0
      BY DEF StoreInv, TypeOK
    <3> QED
      BY <2>1, <3>1 DEF Shorter
  <2> QED
    BY <2>1, <2>2 DEF GivesUp, Leaves
<1>8. ASSUME UNCHANGED vars PROVE GivesUp({})
  <2>1. \A k \in Handles : Shorter(staged'[k], staged[k])
    BY <1>8 DEF Shorter, StoreInv, TypeOK, vars
  <2> QED
    BY <1>8, <2>1 DEF GivesUp, Leaves, vars
<1> QED
  BY <1>2, <1>3, <1>4, <1>5, <1>6, <1>7, <1>8 DEF Next, Write

LEMMA UsedStep ==
  ASSUME Sheltered, StoreInv, HistInv, UsedInv, [Next]_vars
  PROVE  UsedInv'
<1>1. /\ staged \in [Handles -> Seq(Ops)] /\ staged' \in [Handles -> Seq(Ops)]
  BY StepStoreInv DEF StoreInv, TypeOK
<1>2. CASE \E h \in Handles, op \in Ops : Stage(h, op)
  <2>1. PICK h \in Handles, op \in Ops : Stage(h, op)
    BY <1>2
  <2>2. /\ op \in Ops \ used /\ used' = used \cup {op} /\ aborted' = aborted
        /\ staged' = [staged EXCEPT ![h] = Append(staged[h], op)]
        /\ UNCHANGED <<pc, base, wal>>
    BY <2>1 DEF Stage, files
  <2>3. UsedOK(Held(base, wal), [staged EXCEPT ![h] = Append(staged[h], op)], pc,
               used \cup {op}, aborted)
    BY <1>1, <2>2, UsedMore DEF UsedInv
  <2> QED
    BY <2>2, <2>3 DEF UsedInv
<1>3. CASE ~\E h \in Handles, op \in Ops : Stage(h, op)
  <2>1. PICK gone : GivesUp(gone)
    BY <1>3, StepGivesUp
  <2>2. ASSUME NEW op \in Held(base', wal'), op \notin Held(base, wal)
        PROVE  \E k \in Handles : \E i \in 1..Len(staged'[k]) :
                 op = staged'[k][i] /\ pc'[k] = "written"
    <3>1. PICK h \in Handles : WriteAll(h) /\ \E i \in 1..Len(staged[h]) : op = staged[h][i]
      BY <2>2, HeldStep
    <3>2. staged' = staged /\ pc'[h] = "written"
      BY <3>1 DEF WriteAll, batch, Goto, StoreInv, TypeOK
    <3> QED
      BY <3>1, <3>2
  <2>3. UsedOK(Held(base', wal'), staged', pc', used, aborted \cup gone)
    <3>1. PICK st \in [Handles -> Seq(Ops)], st2 \in [Handles -> Seq(Ops)] :
            st = staged /\ st2 = staged'
      BY <1>1
    <3>2. PICK p, p2, held, held2 :
            p = pc /\ p2 = pc' /\ held = Held(base, wal) /\ held2 = Held(base', wal')
      OBVIOUS
    <3>3. UsedOK(held, st, p, used, aborted)
      BY <3>1, <3>2 DEF UsedInv
    <3>4. Leaves(st, p, st2, p2, gone)
      BY <2>1, <3>1, <3>2 DEF GivesUp
    <3>5. Brings(held, held2, st2, p2)
      BY <2>2, <3>1, <3>2 DEF Brings
    <3>8. UsedOK(held2, st2, p2, used, aborted \cup gone)
      BY <3>1, <3>3, <3>4, <3>5, UsedKept
    <3> QED
      BY <3>1, <3>2, <3>8
  <2> QED
    BY <2>1, <2>3 DEF GivesUp, UsedInv
<1> QED
  BY <1>2, <1>3

\* Ops of a transaction that returned Err are neither in the directory nor
\* served by any handle.
THEOREM AbortedTheorem ==
  ASSUME Sheltered
  PROVE  Spec => []AbortedLeaveNothing
<1>1. Init => UsedInv
  <2> SUFFICES ASSUME Init PROVE UsedInv
    OBVIOUS
  <2>1. used = {} /\ aborted = {} /\ \A h \in Handles : staged[h] = <<>>
    BY DEF Init
  <2>2. Held(base, wal) = {}
    <3> SUFFICES ASSUME base # None, History(base, wal) # <<>> PROVE FALSE
      BY DEF Held
    <3>1. base = EmptyBase /\ wal = FreshWal(None, 1)
      BY DEF Init
    <3>2. EmptyBase.ops = <<>> /\ FreshWal(None, 1).log = <<>>
      BY DEF EmptyBase, FreshWal
    <3>3. Build(base, wal).ops = <<>> /\ Build(base, wal).log = <<>>
      BY <3>1, <3>2 DEF Build, Above
    <3> QED
      BY <3>3 DEF History, View, OpsOf
  <2> QED
    BY <2>1, <2>2 DEF UsedInv, UsedOK
<1>2. (StoreInv /\ HistInv) /\ UsedInv /\ [Next]_vars => UsedInv'
  BY UsedStep
<1>3. (StoreInv /\ HistInv) /\ UsedInv => AbortedLeaveNothing
  <2> SUFFICES ASSUME StoreInv, HistInv, UsedInv PROVE AbortedLeaveNothing
    OBVIOUS
  <2>1. ASSUME base # None, NEW i \in 1..Len(History(base, wal))
        PROVE  History(base, wal)[i] \notin aborted
    <3>1. base \in BaseFile /\ wal \in WalFile /\ FilesOK(base, wal)
      BY <2>1, FilesThere DEF HistInv, FilesInv
    <3>2. History(base, wal) \in Seq(Ops)
      BY <3>1, BuildIs DEF FilesOK
    <3>3. History(base, wal)[i] \in Ops
      BY <3>2
    <3>4. History(base, wal)[i] \in Held(base, wal)
      BY <2>1, <3>3 DEF Held
    <3> QED
      BY <3>4 DEF UsedInv, UsedOK
  <2>2. ASSUME NEW h \in Handles, served[h] # None, NEW i \in 1..Len(View(served[h]))
        PROVE  View(served[h])[i] \notin aborted
    <3>1. PICK u \in Seq(Ops), v \in Seq(Ops) :
            u = View(served[h]) /\ v = History(base, wal) /\ Begins(u, v) /\ base # None
      BY <2>2, ServedIs
    <3>2. i \in 1..Len(v) /\ u[i] = v[i]
      BY <2>2, <3>1 DEF Begins
    <3> QED
      BY <2>1, <3>1, <3>2
  <2> QED
    BY <2>1, <2>2 DEF AbortedLeaveNothing, Shows, Recovered, History, Open
<1> QED
  BY <1>1, <1>2, <1>3, HistoryInvariant, PTL DEF Spec

----------------------------------------------------------------------------
(* A batch of commits at most is exposed. *)

\* A log synced to its end makes all of the history safe.
LEMMA AllSafe ==
  ASSUME NEW b \in BaseFile, NEW w \in WalFile, FilesOK(b, w), w.gen = b.gen,
         w.synced = Len(w.log)
  PROVE  Safe(b, w) = Len(History(b, w))
<1>1. Len(History(b, w)) = b.applied + Len(w.log)
  BY BuildIs DEF FilesOK
<1>2. Safe(b, w) = b.applied + w.synced
  BY DEF Safe
<1> QED
  BY <1>1, <1>2

\* No more commits than there were: the window is what it was.
LEMMA FewerExposed ==
  ASSUME NEW X, NEW Y, X \subseteq Y, IsFiniteSet(Y), NEW n \in Nat, Cardinality(Y) <= n
  PROVE  IsFiniteSet(X) /\ Cardinality(X) <= n
<1>1. IsFiniteSet(X) /\ Cardinality(X) <= Cardinality(Y)
  BY FS_Subset
<1>2. Cardinality(X) \in Nat /\ Cardinality(Y) \in Nat
  BY <1>1, FS_CardinalityType
<1> QED
  BY <1>1, <1>2

LEMMA OneMoreExposed ==
  ASSUME NEW X, NEW Y, NEW a, X \subseteq Y \cup {a}, IsFiniteSet(Y), NEW n \in Nat,
         Cardinality(Y) <= n
  PROVE  IsFiniteSet(X) /\ Cardinality(X) <= n + 1
<1>1. /\ IsFiniteSet(Y \cup {a})
      /\ Cardinality(Y \cup {a}) = IF a \in Y THEN Cardinality(Y) ELSE Cardinality(Y) + 1
  BY FS_AddElement
<1>2. PICK c \in Nat : c = Cardinality(Y) /\ c <= n
  BY FS_CardinalityType
<1>3. Cardinality(Y \cup {a}) <= n + 1 /\ n + 1 \in Nat
  <2>1. Cardinality(Y \cup {a}) = c \/ Cardinality(Y \cup {a}) = c + 1
    BY <1>1, <1>2
  <2>2. c <= n + 1 /\ c + 1 <= n + 1 /\ n + 1 \in Nat
    BY <1>2
  <2> QED
    BY <2>1, <2>2
<1> QED
  BY <1>1, <1>3, FewerExposed

\* What stays of a handle's commits outlives the step of files.
LEMMA ExposedStep ==
  ASSUME Sheltered, StoreInv, HistInv, AckInv, [Next]_vars, NEW h \in Handles,
         NEW a \in Exposed(h)'
  PROVE  /\ ~PowerLoss /\ ~Crash(h) /\ a \in acked' /\ a.by = h /\ a.entry.end
         /\ a.entry.seq \in Nat /\ base' \in BaseFile /\ wal' \in WalFile
         /\ FilesOK(base', wal') /\ a.entry.seq <= Len(History(base', wal'))
         /\ a.entry.seq > Safe(base', wal')
         /\ a \in acked => a \in Exposed(h)
<1>1. a \in acked' /\ a.by = h /\ a.entry.end /\ a.entry.seq > Safe(base', wal')
  BY DEF Exposed, Safe
<1>2. StoreInv' /\ HistInv' /\ AckInv'
  BY StepStoreInv, StepHist, AckStep
<1>3. a.entry \in Entry
  BY <1>1, <1>2 DEF StoreInv, TypeOK
<1>4. a.entry.seq \in Nat
  BY <1>3 DEF Entry
<1>5. h # None
  BY NoneIsFresh
<1>6. ~PowerLoss /\ ~Crash(h)
  BY <1>1, <1>5, AckedStep
<1>7. served'[h] # None /\ a.entry.seq \in 1..Len(View(served'[h]))
  BY <1>1, <1>2, <1>5 DEF AckInv
<1>8. /\ base' # None /\ base' \in BaseFile /\ wal' \in WalFile /\ FilesOK(base', wal')
      /\ View(served'[h]) \in Seq(Ops) /\ History(base', wal') \in Seq(Ops)
      /\ Begins(View(served'[h]), History(base', wal'))
  <2>1. /\ base' # None /\ served'[h] \in Generation
        /\ OpenOK(base', wal', served'[h], nextSeq'[h])
    BY <1>2, <1>7 DEF StoreInv, TypeOK, Defined, HistInv, HandleInv, HandleOK, LiveOK, LiveAt
  <2>2. base' \in BaseFile /\ wal' \in WalFile /\ FilesOK(base', wal')
    BY <1>2, <2>1 DEF StoreInv, TypeOK, Defined, HistInv, FilesInv
  <2>3. PICK g \in Generation, b \in BaseFile, w \in WalFile :
          g = served'[h] /\ b = base' /\ w = wal' /\ FilesOK(b, w)
    BY <2>1, <2>2
  <2>4. View(g) \in Seq(Ops) /\ History(b, w) \in Seq(Ops)
    BY <2>3, ViewIs, BuildIs DEF FilesOK
  <2> QED
    BY <1>7, <2>1, <2>2, <2>3, <2>4 DEF OpenOK
<1>9. a.entry.seq <= Len(History(base', wal'))
  <2>1. PICK u \in Seq(Ops), v \in Seq(Ops) : u = View(served'[h]) /\ v = History(base', wal')
    BY <1>8
  <2>2. Len(u) <= Len(v) /\ a.entry.seq \in 1..Len(u)
    BY <1>7, <1>8, <2>1 DEF Begins
  <2> QED
    BY <2>1, <2>2
<1>10. ASSUME a \in acked PROVE a \in Exposed(h)
  <2>1. served[h] # None
    BY <1>1, <1>5, <1>10 DEF AckInv
  <2>2. base # None
    BY <2>1, ServedIs
  <2>3. /\ base \in BaseFile /\ wal \in WalFile /\ FilesOK(base, wal)
        /\ Moves(base, wal, base', wal')
    BY <1>6, <2>2, FilesStep
  <2>4. /\ Safe(base, wal) \in Nat /\ Safe(base', wal') \in Nat
        /\ Safe(base, wal) <= Safe(base', wal')
    BY <1>8, <2>3, SafeMoved
  <2>5. a.entry.seq > Safe(base, wal)
    BY <1>1, <1>4, <2>4
  <2> QED
    BY <1>1, <1>10, <2>5 DEF Exposed
<1> QED
  BY <1>1, <1>4, <1>6, <1>8, <1>9, <1>10

\* Nothing of h's is exposed once all of the history is safe.
LEMMA NoneExposed ==
  ASSUME Sheltered, StoreInv, HistInv, AckInv, [Next]_vars, NEW h \in Handles,
         wal'.gen = base'.gen, wal'.synced = Len(wal'.log)
  PROVE  Exposed(h)' = {}
<1> SUFFICES ASSUME NEW a \in Exposed(h)' PROVE FALSE
  OBVIOUS
<1>1. /\ a.entry.seq \in Nat /\ base' \in BaseFile /\ wal' \in WalFile
      /\ FilesOK(base', wal') /\ a.entry.seq <= Len(History(base', wal'))
      /\ a.entry.seq > Safe(base', wal')
  BY ExposedStep
<1>2. PICK b \in BaseFile, w \in WalFile : b = base' /\ w = wal'
  BY <1>1
<1>3. Safe(b, w) = Len(History(b, w)) /\ History(b, w) \in Seq(Ops)
  BY <1>1, <1>2, AllSafe, BuildIs DEF FilesOK
<1>4. Len(History(b, w)) \in Nat
  BY <1>3
<1> QED
  BY <1>1, <1>2, <1>3, <1>4

\* A step that is neither h's commit nor its loss exposes nothing new of h's.
LEMMA StillExposed ==
  ASSUME Sheltered, StoreInv, HistInv, AckInv, [Next]_vars, NEW h \in Handles, ~AppendOk(h)
  PROVE  Exposed(h)' \subseteq Exposed(h)
<1> SUFFICES ASSUME NEW a \in Exposed(h)' PROVE a \in Exposed(h)
  OBVIOUS
<1>1. a \in acked' /\ a.by = h /\ (a \in acked => a \in Exposed(h))
  BY ExposedStep
<1>2. a \in acked
  BY <1>1, AckedStep, NoneIsFresh
<1> QED
  BY <1>1, <1>2

\* Of a handle's new commit, only the last entry ends it.
LEMMA NewExposed ==
  ASSUME Sheltered, StoreInv, HistInv, AckInv, [Next]_vars, NEW h \in Handles, AppendOk(h)
  PROVE  Exposed(h)' \subseteq
           Exposed(h) \cup {[entry |-> Sealed(nextSeq[h], staged[h])[Len(staged[h])], by |-> h]}
<1> SUFFICES ASSUME NEW a \in Exposed(h)', a \notin acked
             PROVE  a = [entry |-> Sealed(nextSeq[h], staged[h])[Len(staged[h])], by |-> h]
  BY ExposedStep
<1>1. a \in acked' /\ a.by = h /\ a.entry.end /\ h # None
  BY ExposedStep, NoneIsFresh
<1>2. PICK i \in 1..Len(staged[h]) : a.entry = Sealed(nextSeq[h], staged[h])[i]
  BY <1>1, AckedStep
<1>3. i = Len(staged[h])
  BY <1>1, <1>2, NewAcked
<1>4. a \in [entry : Entry, by : {None} \cup Handles]
  BY <1>1, StepStoreInv DEF StoreInv, TypeOK
<1> QED
  BY <1>1, <1>2, <1>3, <1>4

\* Who touches the count of commits since the last sync.
LEMMA SinceStep ==
  ASSUME StoreInv, [Next]_vars, NEW h \in Handles
  PROVE  \/ AppendOk(h) \/ Swap(h)
         \/ (Crash(h) \/ PowerLoss) /\ since'[h] = 0
         \/ since'[h] = since[h]
<1>1. since \in [Handles -> Nat]
  BY DEF StoreInv, TypeOK
<1>2. ASSUME NEW k \in Handles, Create(k) \/ Load(k) PROVE since'[h] = since[h]
  BY <1>2 DEF Create, CreateBegin, CreateLock, CreateBase, Load, StatBase, StatWal, ReloadTail,
     MapBase, LoadRead, LoadAgain, Mend, batch
<1>3. ASSUME NEW k \in Handles, Write(k), ~AppendOk(k) PROVE since'[h] = since[h]
  BY <1>3 DEF Write, Stage, Discard, Acquire, Sync, TxnAbort, TxnEnd, AppendRefused, WriteAll,
     AppendFail, WritePart, Fail, batch
<1>4. ASSUME NEW k \in Handles, AppendOk(k) PROVE k = h \/ since'[h] = since[h]
  BY <1>1, <1>4 DEF AppendOk
<1>5. ASSUME NEW k \in Handles, Compact(k) PROVE (Swap(k) /\ k = h) \/ since'[h] = since[h]
  BY <1>1, <1>5 DEF Compact, Fold, Swap, CompactFail, batch
<1>6. ASSUME NEW k \in Handles, Crash(k) PROVE since'[h] = (IF k = h THEN 0 ELSE since[h])
  BY <1>1, <1>6 DEF Crash, Forget
<1>7. ASSUME PowerLoss PROVE since'[h] = 0
  BY <1>7 DEF PowerLoss
<1>8. ASSUME UNCHANGED vars PROVE since'[h] = since[h]
  BY <1>8 DEF vars
<1> QED
  BY <1>2, <1>3, <1>4, <1>5, <1>6, <1>7, <1>8 DEF Next

LEMMA WindowStep ==
  ASSUME Sheltered, SyncEvery > 0, StoreInv, HistInv, AckInv, WindowInv, [Next]_vars
  PROVE  WindowInv'
<1> SUFFICES ASSUME NEW h \in Handles
             PROVE  /\ IsFiniteSet(Exposed(h)') /\ Cardinality(Exposed(h)') <= since'[h]
                    /\ since'[h] < SyncEvery
  BY DEF WindowInv, Exposed, Safe
<1>1. since[h] \in Nat /\ SyncEvery \in Nat \ {0} /\ since \in [Handles -> Nat]
  BY ConstantsOK DEF StoreInv, TypeOK
<1>2. /\ IsFiniteSet(Exposed(h)) /\ Cardinality(Exposed(h)) <= since[h] /\ since[h] < SyncEvery
  BY DEF WindowInv
<1>3. ASSUME since'[h] = 0, Exposed(h)' = {}
      PROVE  /\ IsFiniteSet(Exposed(h)') /\ Cardinality(Exposed(h)') <= since'[h]
             /\ since'[h] < SyncEvery
  BY <1>1, <1>3, FS_EmptySet
<1>4. CASE AppendOk(h)
  <2>1. /\ pc[h] = "written" /\ base' = base /\ wal' \in WalFile
        /\ wal' = IF SyncDue(h) THEN [wal EXCEPT !.synced = Len(wal.log)] ELSE wal
    BY <1>4, AppendOkIs
  <2>2. since'[h] = IF SyncDue(h) \/ SyncEvery = 0 THEN 0 ELSE since[h] + 1
    BY <1>1, <1>4 DEF AppendOk
  <2>3. CASE SyncDue(h)
    <3>1. wal \in WalFile /\ wal.gen = base.gen
      <4>1. pc[h] \in UnderLock \ {"create_base"}
        BY <2>1 DEF UnderLock, Appending
      <4> QED
        BY <2>1, <4>1, HolderIs DEF LockOK, Appending
    <3>2. wal'.gen = base'.gen /\ wal'.synced = Len(wal'.log)
      BY <2>1, <2>3, <3>1 DEF WalFile
    <3> QED
      BY <1>3, <2>2, <2>3, <3>2, NoneExposed
  <2>4. CASE ~SyncDue(h)
    <3>1. since'[h] = since[h] + 1 /\ since'[h] < SyncEvery
      BY <1>1, <2>2, <2>4 DEF SyncDue
    <3>2. PICK X, a : X = Exposed(h)' /\ X \subseteq Exposed(h) \cup {a}
      BY <1>4, NewExposed
    <3>3. IsFiniteSet(X) /\ Cardinality(X) <= since[h] + 1
      BY <1>1, <1>2, <3>2, OneMoreExposed
    <3> QED
      BY <3>1, <3>2, <3>3
  <2> QED
    BY <2>3, <2>4
<1>5. CASE Swap(h)
  <2>1. since'[h] = 0 /\ base' = base /\ wal' = FreshWal(wal, base.gen)
    BY <1>1, <1>5 DEF Swap
  <2>2. wal'.gen = base'.gen /\ wal'.synced = Len(wal'.log)
    BY <2>1 DEF FreshWal
  <2> QED
    BY <1>3, <2>1, <2>2, NoneExposed
<1>6. CASE (Crash(h) \/ PowerLoss) /\ since'[h] = 0
  <2>1. Exposed(h)' = {}
    BY <1>6, ExposedStep
  <2> QED
    BY <1>3, <1>6, <2>1
<1>7. CASE ~AppendOk(h) /\ since'[h] = since[h]
  <2>1. PICK X : X = Exposed(h)' /\ X \subseteq Exposed(h)
    BY <1>7, StillExposed
  <2>2. IsFiniteSet(X) /\ Cardinality(X) <= since[h]
    BY <1>1, <1>2, <2>1, FewerExposed
  <2> QED
    BY <1>2, <1>7, <2>1, <2>2
<1> QED
  BY <1>4, <1>5, <1>6, <1>7, SinceStep

\* At most SyncEvery - 1 commits of an open handle are exposed to power loss.
THEOREM BatchWindowTheorem ==
  ASSUME Sheltered
  PROVE  Spec => []BatchWindow
<1>1. CASE SyncEvery > 0
  <2>1. Init => AckInv /\ WindowInv
    <3> SUFFICES ASSUME Init PROVE AckInv /\ WindowInv
      OBVIOUS
    <3>1. acked = {} /\ \A h \in Handles : since[h] = 0
      BY DEF Init
    <3>2. \A h \in Handles : Exposed(h) = {}
      BY <3>1 DEF Exposed
    <3>3. SyncEvery \in Nat
      BY ConstantsOK
    <3> QED
      BY <1>1, <3>1, <3>2, <3>3, FS_EmptySet DEF AckInv, WindowInv
  <2>2. (StoreInv /\ HistInv) /\ AckInv /\ WindowInv /\ [Next]_vars => AckInv' /\ WindowInv'
    BY <1>1, AckStep, WindowStep
  <2>3. (StoreInv /\ HistInv) /\ AckInv /\ WindowInv => BatchWindow
    <3> SUFFICES ASSUME StoreInv, HistInv, AckInv, WindowInv, NEW h \in Handles
                 PROVE  Cardinality({a \in acked : a.by = h /\ a.entry.end /\ ~Synced(a.entry.seq)})
                          < SyncEvery
      BY DEF BatchWindow
    <3> DEFINE X == {a \in acked : a.by = h /\ a.entry.end /\ ~Synced(a.entry.seq)}
    <3>1. ASSUME NEW a \in X PROVE a \in Exposed(h)
      <4>1. a \in acked /\ a.by = h /\ a.entry.end /\ ~Synced(a.entry.seq) /\ h # None
        BY <3>1, NoneIsFresh
      <4>2. served[h] # None
        BY <4>1 DEF AckInv
      <4>3. base \in BaseFile /\ wal \in WalFile /\ FilesOK(base, wal) /\ base # None
        BY <4>2, ServedIs
      <4>4. PICK seq \in Nat, n \in Nat, m \in Nat :
              seq = a.entry.seq /\ n = base.applied /\ m = wal.synced
        BY <4>1, <4>3 DEF StoreInv, TypeOK, Entry, BaseFile, WalFile
      <4>5. seq > n
        BY <4>1, <4>4 DEF Synced
      <4>6. CASE wal.gen = base.gen /\ m > 0
        <5>1. m \in 1..m /\ m \in 1..Len(wal.log)
          BY <4>3, <4>4, <4>6 DEF FilesOK, WalFile
        <5>2. wal.log[m].seq = n + m
          BY <4>3, <4>4, <4>6, <5>1 DEF FilesOK, Dense
        <5>3. ~(n + m >= seq)
          BY <4>1, <4>3, <4>4, <4>6, <5>1, <5>2, FilesThere DEF Synced, LogCurrent
        <5>4. Safe(base, wal) = n + m
          BY <4>4, <4>6 DEF Safe
        <5> QED
          BY <4>1, <4>4, <5>3, <5>4 DEF Exposed
      <4>7. CASE ~(wal.gen = base.gen /\ m > 0)
        <5>1. Safe(base, wal) = n
          BY <4>4, <4>7 DEF Safe
        <5> QED
          BY <4>1, <4>4, <4>5, <5>1 DEF Exposed
      <4> QED
        BY <4>6, <4>7
    <3>2. since[h] \in Nat /\ SyncEvery \in Nat
      BY ConstantsOK DEF StoreInv, TypeOK
    <3>3. /\ IsFiniteSet(Exposed(h)) /\ Cardinality(Exposed(h)) <= since[h]
          /\ since[h] < SyncEvery
      BY DEF WindowInv
    <3>4. PICK Y : Y = X /\ Y \subseteq Exposed(h)
      BY <3>1
    <3> HIDE DEF X
    <3>5. IsFiniteSet(Y) /\ Cardinality(Y) <= since[h]
      BY <3>2, <3>3, <3>4, FewerExposed
    <3>6. Cardinality(Y) \in Nat
      BY <3>5, FS_CardinalityType
    <3>7. Cardinality(X) < SyncEvery
      BY <3>2, <3>3, <3>4, <3>5, <3>6
    <3> QED
      BY <3>7 DEF X
  <2> QED
    BY <2>1, <2>2, <2>3, HistoryInvariant, PTL DEF Spec
<1>2. CASE ~(SyncEvery > 0)
  <2>1. BatchWindow
    BY <1>2 DEF BatchWindow
  <2> QED
    BY <2>1, PTL
<1> QED
  BY <1>1, <1>2

----------------------------------------------------------------------------
(* The store implements AbstractStore. *)

\* A record is never empty.
LEMMA BusyStep ==
  ASSUME StoreInv, BusyInv, [Next]_vars
  PROVE  BusyInv'
<1>1. /\ pc \in [Handles -> Steps] /\ staged \in [Handles -> Seq(Ops)]
      /\ goal \in [Handles -> {"none", "commit", "transact", "compact"}]
  BY DEF StoreInv, TypeOK
<1>2. ASSUME NEW h \in Handles, Create(h) PROVE BusyInv'
  BY <1>1, <1>2 DEF BusyInv, Create, CreateBegin, CreateLock, CreateBase, Goto, batch
<1>3. ASSUME NEW h \in Handles, Load(h) PROVE BusyInv'
  BY <1>1, <1>3 DEF BusyInv, Load, StatBase, StatWal, ReloadTail, MapBase, LoadRead, LoadAgain,
     Mend, Goto, batch
<1>4. ASSUME NEW h \in Handles, NEW op \in Ops, Stage(h, op) PROVE BusyInv'
  BY <1>1, <1>4 DEF BusyInv, Stage
<1>5. ASSUME NEW h \in Handles, Discard(h) PROVE BusyInv'
  BY <1>1, <1>5 DEF BusyInv, Discard
<1>6. ASSUME NEW h \in Handles, NEW for \in {"commit", "transact", "compact"}, Acquire(h, for)
      PROVE  BusyInv'
  BY <1>1, <1>6 DEF BusyInv, Acquire, Goto, batch
<1>7. ASSUME NEW h \in Handles, Sync(h) PROVE BusyInv'
  <2>1. goal[h] # "none"
    BY <1>7 DEF Sync, StoreInv, Defined
  <2> QED
    BY <1>1, <1>7, <2>1 DEF BusyInv, Sync, Goto, Return
<1>8. ASSUME NEW h \in Handles, Fail(h) PROVE BusyInv'
  BY <1>1, <1>8 DEF BusyInv, Fail, Return, Goto
<1>9. ASSUME NEW h \in Handles, TxnEnd(h) PROVE BusyInv'
  BY <1>1, <1>9 DEF BusyInv, TxnEnd, Return, Goto
<1>10. ASSUME NEW h \in Handles, WriteAll(h) \/ \E n \in TornLens : WritePart(h, n)
       PROVE  BusyInv'
  BY <1>1, <1>10 DEF BusyInv, WriteAll, WritePart, Goto, batch
<1>11. ASSUME NEW h \in Handles, AppendOk(h) PROVE BusyInv'
  BY <1>1, <1>11 DEF BusyInv, AppendOk, Return, Goto
<1>12. ASSUME NEW h \in Handles, Compact(h) PROVE BusyInv'
  BY <1>1, <1>12 DEF BusyInv, Compact, Fold, Swap, CompactFail, Return, Goto, batch
<1>13. ASSUME NEW h \in Handles, Crash(h) PROVE BusyInv'
  BY <1>1, <1>13 DEF BusyInv, Crash, Forget
<1>14. ASSUME PowerLoss PROVE BusyInv'
  BY <1>14 DEF BusyInv, PowerLoss
<1>15. ASSUME UNCHANGED vars PROVE BusyInv'
  BY <1>15 DEF BusyInv, vars
<1>16. ASSUME NEW h \in Handles, Write(h) PROVE BusyInv'
  BY <1>4, <1>5, <1>6, <1>7, <1>8, <1>9, <1>10, <1>11, <1>16
     DEF Write, TxnAbort, AppendRefused, AppendFail
<1> QED
  BY <1>2, <1>3, <1>12, <1>13, <1>14, <1>15, <1>16 DEF Next

\* Some bounded numbers have a largest.
LEMMA LargestNat ==
  ASSUME NEW n \in Nat, NEW S \in SUBSET (1..n), S # {}
  PROVE  \E m \in S : \A x \in S : x <= m
<1> DEFINE T == {k \in 0..n : n - k \in S}
<1>1. T \in SUBSET Nat /\ T # {}
  <2>1. PICK x \in S : x \in 1..n
    OBVIOUS
  <2>2. n - x \in 0..n /\ n - (n - x) = x
    BY <2>1
  <2>3. n - x \in T
    BY <2>1, <2>2
  <2>4. T \subseteq Nat
    OBVIOUS
  <2> QED
    BY <2>3, <2>4
<1>2. PICK k \in T : \A j \in T : k <= j
  BY <1>1, LeastNat
<1>3. ASSUME NEW x \in S PROVE x <= n - k
  <2>1. x \in 1..n /\ n - x \in 0..n /\ n - (n - x) = x
    OBVIOUS
  <2>2. k <= n - x /\ k \in 0..n
    BY <1>2, <2>1
  <2>3. \A y, j \in Nat : j <= n - y => y <= n - j
    OBVIOUS
  <2> HIDE DEF T
  <2> QED
    BY <2>1, <2>2, <2>3
<1>4. n - k \in S
  OBVIOUS
<1> QED
  BY <1>3, <1>4

\* What is acknowledged has a last number.
LEMMA SureIs ==
  ASSUME NEW n \in Nat, AckedSeqs \subseteq 1..n
  PROVE  /\ acked = {} => SureNow = 0
         /\ acked # {} => SureNow \in AckedSeqs /\ \A m \in AckedSeqs : m <= SureNow
<1>1. CASE acked = {}
  BY <1>1 DEF SureNow
<1>2. CASE acked # {}
  <2>1. AckedSeqs # {}
    BY <1>2 DEF AckedSeqs
  <2>2. \E m \in AckedSeqs : \A x \in AckedSeqs : x <= m
    BY <2>1, LargestNat
  <2> QED
    BY <1>2, <2>2 DEF SureNow
<1> QED
  BY <1>1, <1>2

LEMMA HistIs ==
  ASSUME StoreInv, HistInv
  PROVE  /\ HistNow \in Seq(Ops)
         /\ base # None => HistNow = History(base, wal)
<1>1. CASE base = None
  BY <1>1 DEF HistNow
<1>2. CASE base # None
  <2>1. base \in BaseFile /\ wal \in WalFile /\ FilesOK(base, wal)
    BY <1>2, FilesThere DEF HistInv, FilesInv
  <2>2. History(base, wal) \in Seq(Ops)
    BY <2>1, BuildIs DEF FilesOK
  <2> QED
    BY <1>2, <2>2 DEF HistNow, Recovered, History
<1> QED
  BY <1>1, <1>2

\* The same, after a step.
LEMMA HistIsNext ==
  ASSUME Sheltered, StoreInv, HistInv, [Next]_vars
  PROVE  /\ HistNow' \in Seq(Ops)
         /\ base' # None => HistNow' = History(base', wal')
<1>1. StoreInv' /\ HistInv'
  BY StepStoreInv, StepHist
<1>2. CASE base' = None
  BY <1>2 DEF HistNow
<1>3. CASE base' # None
  <2>1. PICK b \in BaseFile, w \in WalFile : b = base' /\ w = wal' /\ FilesOK(b, w)
    BY <1>1, <1>3 DEF StoreInv, TypeOK, Defined, HistInv, FilesInv
  <2>2. History(b, w) \in Seq(Ops)
    BY <2>1, BuildIs DEF FilesOK
  <2> QED
    BY <1>3, <2>1, <2>2 DEF HistNow, Recovered, History
<1> QED
  BY <1>2, <1>3

\* Nothing but a record written whole, or power loss, changes the history.
LEMMA HistSame ==
  ASSUME Sheltered, StoreInv, HistInv, [Next]_vars, ~PowerLoss,
         \A h \in Handles : ~WriteAll(h)
  PROVE  HistNow' = HistNow
<1>1. CASE base # None
  <2>1. base' # None /\ History(base', wal') = History(base, wal)
    BY <1>1, HistoryStays
  <2> QED
    BY <1>1, <2>1, HistIs, HistIsNext
<1>2. CASE base = None /\ base' = None
  BY <1>2 DEF HistNow
<1>3. CASE base = None /\ base' # None
  <2>1. HistNow = <<>>
    BY <1>3 DEF HistNow
  <2>2. HistNow' \in Seq(Ops) /\ Len(HistNow') = 0
    BY <1>3, CreatedEmpty, HistIsNext
  <2> QED
    BY <2>1, <2>2
<1> QED
  BY <1>1, <1>2, <1>3

\* Only a commit acknowledges anything.
LEMMA SureSame ==
  ASSUME StoreInv, [Next]_vars, \A h \in Handles : ~AppendOk(h)
  PROVE  AckedSeqs' = AckedSeqs /\ SureNow' = SureNow
<1>1. ASSUME NEW a \in acked' PROVE \E o \in acked : o.entry = a.entry
  BY AckedStep
<1>2. ASSUME NEW o \in acked PROVE \E a \in acked' : a.entry = o.entry
  <2>1. ASSUME NEW who \in SUBSET Handles, acked' = Disown(who)
        PROVE  \E a \in acked' : a.entry = o.entry
    <3>1. o \in [entry : Entry, by : {None} \cup Handles]
      BY DEF StoreInv, TypeOK
    <3>2. PICK a : a = IF o.by \in who THEN [o EXCEPT !.by = None] ELSE o
      OBVIOUS
    <3>3. a \in Disown(who)
      BY <3>2 DEF Disown
    <3>4. a.entry = o.entry
      BY <3>1, <3>2
    <3> QED
      BY <2>1, <3>3, <3>4
  <2>2. ASSUME NEW h \in Handles, Create(h) \/ Load(h) \/ Compact(h) PROVE acked' = acked
    BY <2>2 DEF Create, CreateBegin, CreateLock, CreateBase, Load, StatBase, StatWal, ReloadTail,
       MapBase, LoadRead, LoadAgain, Mend, Compact, Fold, Swap, CompactFail, ghosts
  <2>3. ASSUME NEW h \in Handles, Write(h) PROVE acked' = acked
    BY <2>3 DEF Write, Stage, Discard, Acquire, Sync, TxnAbort, TxnEnd, AppendRefused, WriteAll,
       AppendFail, WritePart, Fail, ghosts
  <2>4. ASSUME NEW h \in Handles, Crash(h) PROVE acked' = Disown({h})
    BY <2>4 DEF Crash
  <2>5. ASSUME PowerLoss PROVE acked' = Disown(Handles)
    BY <2>5 DEF PowerLoss
  <2>6. ASSUME acked' = acked PROVE \E a \in acked' : a.entry = o.entry
    BY <2>6
  <2>7. UNCHANGED vars => acked' = acked
    BY DEF vars
  <2> QED
    BY <2>1, <2>2, <2>3, <2>4, <2>5, <2>6, <2>7 DEF Next
<1>3. AckedSeqs' = AckedSeqs
  BY <1>1, <1>2 DEF AckedSeqs
<1>4. acked' = {} <=> acked = {}
  BY <1>1, <1>2
<1> QED
  BY <1>3, <1>4 DEF SureNow

\* A step that is not power loss changes what at most one handle serves.
LEMMA OneServes ==
  ASSUME StoreInv, [Next]_vars, ~PowerLoss
  PROVE  \/ served' = served
         \/ \E h \in Handles : \A k \in Handles \ {h} : served'[k] = served[k]
<1>1. served \in [Handles -> {None} \cup Generation]
  BY DEF StoreInv, TypeOK
<1>2. ASSUME NEW h \in Handles, NEW b, NEW w, NEW s, InstallOrApply(h, b, w, s)
      PROVE  \A k \in Handles \ {h} : served'[k] = served[k]
  BY <1>1, <1>2 DEF InstallOrApply, Adopt
<1>3. ASSUME NEW h \in Handles, SyncRepair(h)
      PROVE  \A k \in Handles \ {h} : served'[k] = served[k]
  BY <1>1, <1>2, <1>3 DEF SyncRepair, Adopt
<1>4. ASSUME NEW h \in Handles, Create(h) PROVE served' = served
  BY <1>4 DEF Create, CreateBegin, CreateLock, CreateBase, memory
<1>5. ASSUME NEW h \in Handles, Load(h) PROVE \A k \in Handles \ {h} : served'[k] = served[k]
  <2>1. ASSUME Mend(h) PROVE \A k \in Handles \ {h} : served'[k] = served[k]
    BY <1>3, <2>1 DEF Mend, memory
  <2>2. ASSUME LoadRead(h) PROVE \A k \in Handles \ {h} : served'[k] = served[k]
    BY <1>1, <1>2, <2>2 DEF LoadRead, Assemble, memory
  <2>3. ASSUME LoadAgain(h) PROVE \A k \in Handles \ {h} : served'[k] = served[k]
    BY <1>1, <2>3 DEF LoadAgain, Assemble, memory
  <2>4. ASSUME ReloadTail(h) PROVE \A k \in Handles \ {h} : served'[k] = served[k]
    BY <1>1, <2>4 DEF ReloadTail, Adopt
  <2> QED
    BY <1>5, <2>1, <2>2, <2>3, <2>4 DEF Load, StatBase, StatWal, MapBase, memory
<1>6. ASSUME NEW h \in Handles, Write(h) PROVE \A k \in Handles \ {h} : served'[k] = served[k]
  <2>1. ASSUME Sync(h) PROVE \A k \in Handles \ {h} : served'[k] = served[k]
    BY <1>3, <2>1 DEF Sync, memory
  <2>2. ASSUME AppendOk(h) PROVE \A k \in Handles \ {h} : served'[k] = served[k]
    BY <1>1, <2>2 DEF AppendOk
  <2> QED
    BY <1>6, <2>1, <2>2 DEF Write, Stage, Discard, Acquire, TxnAbort, TxnEnd, AppendRefused,
       WriteAll, AppendFail, WritePart, memory
<1>7. ASSUME NEW h \in Handles, Compact(h) \/ Crash(h)
      PROVE  \A k \in Handles \ {h} : served'[k] = served[k]
  BY <1>1, <1>7 DEF Compact, Fold, Swap, CompactFail, Crash, Forget, memory
<1>8. UNCHANGED vars => served' = served
  BY DEF vars
<1> QED
  BY <1>4, <1>5, <1>6, <1>7, <1>8 DEF Next

\* The abstract store's prefixes are prefixes.
LEMMA PrefixesAgree ==
  /\ \A s, t : Promised!IsPrefix(s, t) <=> IsPrefix(s, t)
  /\ \A s, t : Promised!IsStrictPrefix(s, t) <=> IsStrictPrefix(s, t)
<1>1. ASSUME NEW s, NEW t PROVE Promised!IsPrefix(s, t) <=> IsPrefix(s, t)
  BY DEF Promised!IsPrefix, IsPrefix
<1> QED
  BY <1>1 DEF Promised!IsStrictPrefix, IsStrictPrefix

\* The view of each handle.
LEMMA ViewsAre ==
  ASSUME NEW h \in Handles
  PROVE  /\ served[h] # None => ViewsNow[h] = View(served[h])
         /\ served[h] = None => ViewsNow[h] = None
         /\ served'[h] # None => ViewsNow'[h] = View(served'[h])
         /\ served'[h] = None => ViewsNow'[h] = None
  BY DEF ViewsNow, Open

LEMMA ViewsSame ==
  ASSUME served' = served
  PROVE  ViewsNow' = ViewsNow
  BY DEF ViewsNow, Open

\* Only h's view differs.
LEMMA ViewsOf ==
  ASSUME NEW h \in Handles, \A k \in Handles \ {h} : served'[k] = served[k]
  PROVE  ViewsNow' = [ViewsNow EXCEPT ![h] = ViewsNow'[h]]
  BY DEF ViewsNow, Open

\* An open handle's view, after a step, begins the history.
LEMMA ServedNext ==
  ASSUME Sheltered, StoreInv, HistInv, [Next]_vars, NEW h \in Handles, served'[h] # None
  PROVE  /\ ViewsNow'[h] \in Seq(Ops) /\ ViewsNow'[h] # None
         /\ IsPrefix(ViewsNow'[h], HistNow')
<1>1. StoreInv' /\ HistInv'
  BY StepStoreInv, StepHist
<1>2. /\ base' # None /\ served'[h] \in Generation
      /\ OpenOK(base', wal', served'[h], nextSeq'[h])
  BY <1>1 DEF StoreInv, TypeOK, Defined, HistInv, HandleInv, HandleOK, LiveOK, LiveAt
<1>3. PICK u \in Seq(Ops), v \in Seq(Ops) : u = View(served'[h]) /\ v = HistNow'
  BY <1>2, ViewIs, HistIsNext
<1>4. Begins(u, v)
  BY <1>2, <1>3, HistIsNext DEF OpenOK
<1>5. IsPrefix(u, v)
  BY <1>4, BeginsIsPrefix
<1>6. ViewsNow'[h] = u
  BY <1>3, ViewsAre
<1> QED
  BY <1>3, <1>5, <1>6, NoneIsNoView

\* A view goes on, unless its handle is closed.
LEMMA ViewRises ==
  ASSUME Sheltered, StoreInv, HistInv, [Next]_vars, NEW h \in Handles,
         served[h] # None, served'[h] # None
  PROVE  ViewsNow[h] # None /\ IsPrefix(ViewsNow[h], ViewsNow'[h])
<1>1. PICK u \in Seq(Ops), v \in Seq(Ops) :
        u = View(served[h]) /\ v = View(served'[h]) /\ Begins(u, v)
  BY MonotoneStep
<1>2. IsPrefix(u, v)
  BY <1>1, BeginsIsPrefix
<1> QED
  BY <1>1, <1>2, ViewsAre, NoneIsNoView

LEMMA RefineCatchUp ==
  ASSUME Sheltered, StoreInv, HistInv, [Next]_vars, ~PowerLoss, NEW h \in Handles,
         \A k \in Handles \ {h} : served'[k] = served[k], served'[h] # None,
         HistNow' = HistNow, SureNow' = SureNow
  PROVE  Promised!CatchUp(h)
<1>1. /\ ViewsNow'[h] # None /\ IsPrefix(ViewsNow'[h], HistNow)
  BY ServedNext
<1>2. ViewsNow[h] # None => IsPrefix(ViewsNow[h], ViewsNow'[h])
  BY ViewRises, ViewsAre
<1>3. ViewsNow' = [ViewsNow EXCEPT ![h] = ViewsNow'[h]]
  BY ViewsOf
<1> QED
  BY <1>1, <1>2, <1>3, PrefixesAgree DEF Promised!CatchUp, Promised!Show

LEMMA RefineClose ==
  ASSUME StoreInv, HistInv, NEW h \in Handles, served[h] # None,
         \A k \in Handles \ {h} : served'[k] = served[k], served'[h] = None,
         HistNow' = HistNow, SureNow' = SureNow
  PROVE  Promised!Close(h)
<1>1. ViewsNow[h] # None
  BY ServedIs, ViewsAre, NoneIsNoView
<1>2. ViewsNow' = [ViewsNow EXCEPT ![h] = None]
  BY ViewsOf, ViewsAre
<1> QED
  BY <1>1, <1>2 DEF Promised!Close

LEMMA RefineRecord ==
  ASSUME Sheltered, StoreInv, HistInv, BusyInv, NEW h \in Handles, WriteAll(h)
  PROVE  Promised!Record
<1>1. \E k \in Handles : Write(k)
  BY DEF Write
<1>2. Next
  BY <1>1 DEF Next
<1>3. PICK u \in Seq(Ops), v \in Seq(Ops) : u = HistNow /\ v = HistNow'
  BY <1>2, HistIs, HistIsNext
<1>4. /\ Begins(u, v) /\ Len(v) = Len(u) + Len(staged[h])
  BY <1>2, <1>3, HistoryGrows, HistIs, HistIsNext
<1>5. staged[h] # <<>> /\ staged[h] \in Seq(Ops)
  BY DEF WriteAll, BusyInv, StoreInv, TypeOK
<1>6. Len(staged[h]) \in Nat \ {0}
  BY <1>5
<1>7. u # v
  BY <1>4, <1>6
<1>8. IsStrictPrefix(u, v)
  BY <1>4, <1>7, BeginsIsPrefix DEF IsStrictPrefix
<1>9. served' = served /\ acked' = acked
  BY DEF WriteAll, memory, ghosts
<1>10. SureNow' = SureNow
  BY <1>9 DEF SureNow, AckedSeqs
<1> QED
  BY <1>3, <1>8, <1>9, <1>10, ViewsSame, PrefixesAgree DEF Promised!Record

\* With every commit synced, what is acknowledged is within what is safe.
LEMMA SeqsSafe ==
  ASSUME StoreInv, HistInv, SafeInv
  PROVE  /\ base = None => acked = {}
         /\ AckedSeqs \subseteq 1..Len(HistNow) /\ Len(HistNow) \in Nat
<1>1. HistNow \in Seq(Ops)
  BY HistIs
<1>2. base = None => acked = {}
  BY DEF SafeInv
<1>3. ASSUME NEW a \in acked PROVE a.entry.seq \in 1..Len(HistNow)
  <2>1. base # None /\ a.entry.seq \in 1..Safe(base, wal)
    BY <1>3 DEF SafeInv
  <2>2. base \in BaseFile /\ wal \in WalFile /\ FilesOK(base, wal)
    BY <2>1, FilesThere DEF HistInv, FilesInv
  <2>3. Safe(base, wal) \in Nat /\ Safe(base, wal) <= Len(History(base, wal))
    BY <2>2, StillMoves, SafeMoved
  <2>4. History(base, wal) = HistNow
    BY <2>1, HistIs
  <2>5. PICK l \in Nat : l = Len(HistNow)
    BY <1>1
  <2> QED
    BY <2>1, <2>3, <2>4, <2>5
<1> QED
  BY <1>1, <1>2, <1>3 DEF AckedSeqs

\* The same, after a step.
LEMMA SeqsSafeNext ==
  ASSUME Sheltered, SyncEvery = 1, StoreInv, HistInv, SafeInv, [Next]_vars
  PROVE  /\ base' = None => acked' = {}
         /\ AckedSeqs' \subseteq 1..Len(HistNow') /\ Len(HistNow') \in Nat
<1>1. StoreInv' /\ HistInv' /\ SafeInv'
  BY StepStoreInv, StepHist, SafeStep
<1>2. HistNow' \in Seq(Ops)
  BY HistIsNext
<1>3. base' = None => acked' = {}
  BY <1>1 DEF SafeInv
<1>4. ASSUME NEW a \in acked' PROVE a.entry.seq \in 1..Len(HistNow')
  <2>1. base' # None /\ a.entry.seq \in 1..Safe(base', wal')
    BY <1>1, <1>4 DEF SafeInv, Safe
  <2>2. PICK b \in BaseFile, w \in WalFile : b = base' /\ w = wal' /\ FilesOK(b, w)
    BY <1>1, <2>1 DEF StoreInv, TypeOK, Defined, HistInv, FilesInv
  <2>3. Safe(b, w) \in Nat /\ Safe(b, w) <= Len(History(b, w))
    BY <2>2, StillMoves, SafeMoved
  <2>4. History(b, w) = HistNow'
    BY <2>1, <2>2, HistIsNext
  <2>5. PICK l \in Nat : l = Len(HistNow')
    BY <1>2
  <2> QED
    BY <2>1, <2>2, <2>3, <2>4, <2>5
<1> QED
  BY <1>2, <1>3, <1>4 DEF AckedSeqs

LEMMA RefinePowerLoss ==
  ASSUME Sheltered, SyncEvery = 1, StoreInv, HistInv, SafeInv, PowerLoss
  PROVE  Promised!PowerLoss
<1>1. Next
  BY DEF Next
<1>2. /\ served' = [h \in Handles |-> None] /\ base' = base
      /\ \A h \in Handles : ~AppendOk(h)
  <2>1. served' = [h \in Handles |-> None] /\ base' = base
    BY DEF PowerLoss, Disown
  <2>2. ASSUME NEW h \in Handles, AppendOk(h) PROVE FALSE
    <3>1. pc'[h] = "closed"
      BY DEF PowerLoss, Disown
    <3>2. pc'[h] \in {"idle", "fold"}
      BY <2>2, AppendOkIs
    <3> QED
      BY <3>1, <3>2
  <2> QED
    BY <2>1, <2>2
<1>3. ViewsNow' = [h \in Handles |-> None]
  BY <1>2 DEF ViewsNow, Open
<1>4. IsPrefix(HistNow', HistNow)
  <2>1. CASE base = None
    <3>1. HistNow' = <<>> /\ HistNow = <<>>
      BY <1>2, <2>1 DEF HistNow
    <3> QED
      BY <3>1 DEF IsPrefix
  <2>2. CASE base # None
    <3>1. PICK u \in Seq(Ops), v \in Seq(Ops) : u = HistNow /\ v = HistNow' /\ Begins(v, u)
      BY <1>1, <1>2, <2>2, HistoryCut, HistIs, HistIsNext
    <3> QED
      BY <3>1, BeginsIsPrefix
  <2> QED
    BY <2>1, <2>2
<1>5. SureNow' = SureNow /\ AckedSeqs' = AckedSeqs
  BY <1>1, <1>2, SureSame
<1>6. Len(HistNow') >= SureNow
  <2>1. AckedSeqs \subseteq 1..Len(HistNow') /\ Len(HistNow') \in Nat
    BY <1>1, <1>5, SeqsSafeNext
  <2>2. PICK l \in Nat : l = Len(HistNow')
    BY <2>1
  <2>3. SureNow = 0 \/ SureNow \in 1..l
    BY <2>1, <2>2, SureIs
  <2> QED
    BY <2>2, <2>3
<1> QED
  BY <1>3, <1>4, <1>5, <1>6, PrefixesAgree DEF Promised!PowerLoss

LEMMA RefineAcknowledge ==
  ASSUME Sheltered, SyncEvery = 1, StoreInv, HistInv, SafeInv, BusyInv,
         NEW h \in Handles, AppendOk(h)
  PROVE  Promised!Acknowledge(h)
<1>1. /\ pc[h] = "written" /\ base' = base /\ Full(served'[h], base, wal')
      /\ Len(View(served'[h])) = Len(View(served[h])) + Len(staged[h])
      /\ \A k \in Handles \ {h} : served'[k] = served[k]
  BY AppendOkIs DEF Elsewhere
<1>2. \E k \in Handles : Write(k)
  BY DEF Write
<1>3. Next
  BY <1>2 DEF Next
<1>4. ~PowerLoss /\ \A k \in Handles : ~WriteAll(k)
  <2>1. pc'[h] \in {"idle", "fold"} /\ h \in Handles
    BY AppendOkIs
  <2>2. ~PowerLoss
    BY <2>1 DEF PowerLoss
  <2>3. ASSUME NEW k \in Handles, WriteAll(k) PROVE FALSE
    <3>1. pc'[k] = "written" /\ pc[k] # "written"
      BY <2>3 DEF WriteAll, Goto, StoreInv, TypeOK
    <3>2. pc'[k] = pc[k]
      BY <1>1, <2>1, <3>1, AppendOkIs DEF Elsewhere
    <3> QED
      BY <3>1, <3>2
  <2> QED
    BY <2>2, <2>3
<1>5. HistNow' = HistNow
  BY <1>3, <1>4, HistSame
<1>6. served[h] # None /\ served'[h] # None /\ base # None /\ staged[h] \in Seq(Ops)
      /\ staged[h] # <<>>
  <2>1. pc[h] \in UnderLock \ {"create_base"}
    BY <1>1 DEF UnderLock, Appending
  <2> QED
    BY <1>1, <2>1, HolderIs DEF Full, BusyInv
<1>7. View(served'[h]) = HistNow'
  <2>1. View(served'[h]) \in Seq(Ops) /\ History(base', wal') \in Seq(Ops) /\ HistNow' = History(base', wal')
    BY <1>1, <1>3, <1>6, HistIsNext, MonotoneStep
  <2>2. PICK u \in Seq(Ops), v \in Seq(Ops) : u = View(served'[h]) /\ v = HistNow'
    BY <2>1
  <2>3. Begins(u, v) /\ Len(u) = Len(v)
    BY <1>1, <2>1, <2>2 DEF Full, OpenOK
  <2>4. u = v
    BY <2>3, SameOps DEF Begins
  <2> QED
    BY <2>2, <2>4
<1>8. ViewsNow'[h] = HistNow /\ ViewsNow[h] # None /\ IsPrefix(ViewsNow[h], ViewsNow'[h])
      /\ IsPrefix(ViewsNow'[h], HistNow)
  BY <1>3, <1>5, <1>6, <1>7, ViewsAre, ViewRises, ServedNext
<1>9. ViewsNow' = [ViewsNow EXCEPT ![h] = HistNow]
  BY <1>1, <1>8, ViewsOf
<1>10. SureNow' = Len(HistNow)
  <2>1. AckedSeqs' \subseteq 1..Len(HistNow) /\ Len(HistNow) \in Nat
    BY <1>3, <1>5, SeqsSafeNext
  <2>2a. PICK m \in Nat \ {0} : m = Len(staged[h])
    BY <1>6
  <2>2b. PICK e : e = Sealed(nextSeq[h], staged[h])[m]
    OBVIOUS
  <2>2. m = Len(staged[h]) /\ e = Sealed(nextSeq[h], staged[h])[m]
    BY <2>2a, <2>2b
  <2>3. m \in 1..Len(staged[h])
    BY <2>2
  <2>4. e.seq = Len(View(served[h])) + m
    <3>1. ASSUME NEW i \in 1..Len(staged[h]), NEW f, f = Sealed(nextSeq[h], staged[h])[i]
          PROVE  f.seq = Len(View(served[h])) + i
      BY <3>1, NewAcked
    <3> QED
      BY <2>2, <2>3, <3>1, Zenon
  <2>5. e.seq = Len(HistNow)
    BY <1>1, <1>5, <1>7, <2>2, <2>4
  <2>6. [entry |-> e, by |-> h] \in acked'
    BY <2>2, <2>3 DEF AppendOk, Sealed
  <2>7. Len(HistNow) \in AckedSeqs'
    BY <2>5, <2>6 DEF AckedSeqs
  <2>8a. PICK A : A = AckedSeqs'
    OBVIOUS
  <2>8b. PICK n \in Nat : n = Len(HistNow)
    BY <2>1
  <2>8. A = AckedSeqs' /\ n = Len(HistNow)
    BY <2>8a, <2>8b
  <2>9. acked' # {}
    BY <2>6
  <2>10. SureNow' = CHOOSE x \in A : \A y \in A : y <= x
    BY <2>8, <2>9 DEF SureNow
  <2>11. n \in A /\ \A x \in A : x \in Nat /\ x <= n
    BY <2>1, <2>7, <2>8
  <2>12. (CHOOSE x \in A : \A y \in A : y <= x) = n
    <3>1. \E x \in A : \A y \in A : y <= x
      BY <2>11
    <3>2. PICK c : c = CHOOSE x \in A : \A y \in A : y <= x
      OBVIOUS
    <3>3. c \in A /\ \A y \in A : y <= c
      BY <3>1, <3>2, Zenon
    <3>4. c \in Nat /\ c <= n /\ n <= c
      BY <2>11, <3>3
    <3> QED
      BY <3>2, <3>4
  <2> QED
    BY <2>8, <2>10, <2>12
<1> QED
  BY <1>5, <1>8, <1>9, <1>10, PrefixesAgree DEF Promised!Acknowledge, Promised!Show

\* Each step of the store is a step of the abstract one, or none of it.
LEMMA RefineStep ==
  ASSUME Sheltered, SyncEvery = 1, StoreInv, HistInv, SafeInv, BusyInv, [Next]_vars
  PROVE  [Promised!Next]_<<HistNow, SureNow, ViewsNow>>
<1> DEFINE Mapped == Promised!Next \/ UNCHANGED <<HistNow, SureNow, ViewsNow>>
<1>1. CASE PowerLoss
  BY <1>1, RefinePowerLoss DEF Promised!Next
<1>2. ASSUME NEW h \in Handles, WriteAll(h) PROVE Mapped
  BY <1>2, RefineRecord DEF Promised!Next
<1>3. ASSUME NEW h \in Handles, AppendOk(h) PROVE Mapped
  BY <1>3, RefineAcknowledge DEF Promised!Next
<1>4. CASE /\ ~PowerLoss
           /\ \A h \in Handles : ~WriteAll(h)
           /\ \A h \in Handles : ~AppendOk(h)
  <2>1. HistNow' = HistNow /\ SureNow' = SureNow
    BY <1>4, HistSame, SureSame
  <2>2. CASE served' = served
    BY <2>1, <2>2, ViewsSame
  <2>3. ASSUME NEW h \in Handles, \A k \in Handles \ {h} : served'[k] = served[k]
        PROVE  Mapped
    <3>1. CASE served'[h] # None
      <4>1. Promised!CatchUp(h)
        BY <1>4, <2>1, <2>3, <3>1, RefineCatchUp
      <4> QED
        BY <4>1 DEF Promised!Next
    <3>2. CASE served'[h] = None /\ served[h] # None
      <4>1. Promised!Close(h)
        BY <2>1, <2>3, <3>2, RefineClose
      <4> QED
        BY <4>1 DEF Promised!Next
    <3>3. CASE served'[h] = None /\ served[h] = None
      <4>1. ViewsNow' = ViewsNow
        BY <2>3, <3>3 DEF ViewsNow, Open
      <4> QED
        BY <2>1, <4>1
    <3> QED
      BY <3>1, <3>2, <3>3
  <2>4. served' = served \/ \E h \in Handles : \A k \in Handles \ {h} : served'[k] = served[k]
    BY <1>4, OneServes
  <2> QED
    BY <2>2, <2>3, <2>4
<1> QED
  BY <1>1, <1>2, <1>3, <1>4

\* The store keeps AbstractStore's promise: with every commit synced and none
\* of the faults of the findings, each step of creating, loading, reloading,
\* staging, appending, repairing, compacting, crashing or losing power adds one
\* whole record to a single history, moves one handle's view forward along it,
\* acknowledges all of it, closes one handle, or, on power loss, cuts the
\* history no shorter than what some commit has returned Ok for.
THEOREM RefinementTheorem ==
  ASSUME Sheltered, SyncEvery = 1
  PROVE  Spec => ImplementsStore
<1>1. Init => Promised!Init
  <2> SUFFICES ASSUME Init PROVE Promised!Init
    OBVIOUS
  <2>1. served = [h \in Handles |-> None] /\ acked = {}
    BY DEF Init
  <2>2. ViewsNow = [h \in Handles |-> None] /\ SureNow = 0
    BY <2>1 DEF ViewsNow, Open, SureNow
  <2>3. HistNow = <<>>
    <3>1. CASE Fresh
      BY <3>1 DEF Init, HistNow
    <3>2. CASE ~Fresh
      <4>1. base = EmptyBase /\ wal = FreshWal(None, 1)
        BY <3>2 DEF Init
      <4>2. CASE base = None
        BY <4>2 DEF HistNow
      <4>3. CASE base # None
        <5>1. StoreInv /\ HistInv
          BY InitStoreInv, InitHist
        <5>2. PICK b \in BaseFile, w \in WalFile : b = base /\ w = wal /\ FilesOK(b, w)
          BY <4>3, <5>1, FilesThere DEF HistInv, FilesInv
        <5>3. b.applied = 0 /\ w.log = <<>>
          BY <4>1, <5>2 DEF EmptyBase, FreshWal
        <5>4. /\ History(b, w) \in Seq(Ops)
              /\ w.gen = b.gen => Len(History(b, w)) = b.applied + Len(w.log)
              /\ w.gen # b.gen => Len(History(b, w)) = b.applied
          BY <5>2, BuildIs DEF FilesOK
        <5>5. Len(w.log) = 0
          BY <5>3
        <5>6. History(b, w) \in Seq(Ops) /\ Len(History(b, w)) = 0
          BY <5>3, <5>4, <5>5
        <5>7. HistNow = History(b, w)
          BY <4>3, <5>1, <5>2, HistIs
        <5> QED
          BY <5>6, <5>7
      <4> QED
        BY <4>2, <4>3
    <3> QED
      BY <3>1, <3>2
  <2> QED
    BY <2>2, <2>3 DEF Promised!Init
<1>2. Init => SafeInv /\ BusyInv
  BY DEF Init, SafeInv, BusyInv
<1>3. (StoreInv /\ HistInv) /\ SafeInv /\ BusyInv /\ [Next]_vars => SafeInv' /\ BusyInv'
  BY SafeStep, BusyStep
<1>4. (StoreInv /\ HistInv) /\ SafeInv /\ BusyInv /\ [Next]_vars
        => [Promised!Next]_<<HistNow, SureNow, ViewsNow>>
  BY RefineStep
<1> QED
  BY <1>1, <1>2, <1>3, <1>4, HistoryInvariant, PTL DEF Spec, ImplementsStore, Promised!Spec
=============================================================================
