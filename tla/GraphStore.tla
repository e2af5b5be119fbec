---------------------------- MODULE GraphStore ----------------------------
(***************************************************************************)
(* The store directory and the handles open on it: graph.base, graph.wal,  *)
(* the commit lock, and what each handle has read, staged and serves.      *)
(*                                                                         *)
(* Control is kept step by step: every file write, every rename, every     *)
(* unlocked read and every decision between them is a step of its own, so  *)
(* handles (each one process), crashes and failing disks interleave with   *)
(* them freely.  Steps that only read files under the commit lock, or only *)
(* change the handle's own memory, are joined to their neighbour.          *)
(*                                                                         *)
(* Data abstracted: an op is an opaque value; a record is its run of ops,  *)
(* OpLen units long per op; offsets are counted past the log header.  What *)
(* ops mean is the business of the snapshot fold, not of this module.      *)
(***************************************************************************)
EXTENDS Integers, Sequences, FiniteSets, SequencesExt

CONSTANTS
  Handles,      \* handles on the directory, each in a process of its own
  ReadOnly,     \* those opened with open_read_only
  Ops,          \* what can be staged; each value is staged once
  OpLen,        \* length of one op in the log
  TornLens,     \* lengths at which a partial write can be seen or stay
  SyncEvery,    \* Durability: 1 = Always, n = Batch(n), 0 = Never
  MaxRecord,    \* MAX_RECORD, in ops
  GenSlots,     \* GEN_SLOTS
  CompactAfter, \* Config::compact_after_ops
  RaceRetries,  \* RACE_RETRIES
  AppendFaults, \* how an append can fail: subset of {"short","sync","stuck"}
  TailRace,     \* may a log be replaced between a reload's stats and its read?
  Fresh,        \* TRUE: no store yet; FALSE: an empty store exists
  MaxGen,       \* bound on generations
  MaxMishaps,   \* bound on crashes, power losses and failed writes
  None

Writable == Handles \ ReadOnly

ASSUME ConstantsOK ==
  /\ ReadOnly \subseteq Handles
  /\ OpLen \in Nat \ {0} /\ TornLens \subseteq Nat \ {0}
  /\ SyncEvery \in Nat /\ MaxRecord \in Nat /\ CompactAfter \in Nat
  /\ GenSlots \in Nat \ {0} /\ RaceRetries \in Nat \ {0}
  /\ AppendFaults \subseteq {"short", "sync", "stuck"}
  /\ TailRace \in BOOLEAN /\ Fresh \in BOOLEAN
  /\ MaxGen \in Nat \ {0} /\ MaxMishaps \in Nat

ASSUME NoneIsFresh ==
  None \notin Handles \cup Ops \cup Nat

VARIABLES
  base,     \* graph.base: [gen, applied, ops], or None
  wal,      \* graph.wal: [ino, gen, log, torn, synced], or None
  lock,     \* holder of the commit lock, or None
  pc,       \* where each handle is
  goal,     \* what the commit lock was taken for
  served,   \* the generation a handle serves: base plus overlay
  seen,     \* what a handle last saw of the files (Seen)
  nextSeq,  \* WriteState.next_seq
  diskGen,  \* WriteState.disk_generation
  slots,    \* ring slots ever filled by this handle, up to GenSlots
  staged,   \* WriteState.staged: ops of the pending record
  mark,     \* staged length when the running transaction began
  since,    \* WriteState.commits_since_sync
  probe,    \* a load in progress: stamp read, base mapped, tries
  used,     \* ops staged so far
  acked,    \* ghost: entries whose commit returned Ok, with the committer
  aborted,  \* ghost: ops of transactions that returned Err
  mishaps   \* crashes and failures so far

files  == <<base, wal>>
memory == <<served, seen, nextSeq, diskGen, slots>>
batch  == <<staged, mark, since>>
ghosts == <<used, acked, aborted>>
vars   == <<base, wal, lock, pc, goal, served, seen, nextSeq, diskGen, slots,
            staged, mark, since, probe, used, acked, aborted, mishaps>>

Max2(a, b) == IF a >= b THEN a ELSE b
Min2(a, b) == IF a <= b THEN a ELSE b

----------------------------------------------------------------------------
(* The files. *)

\* An op in the log, with its sequence number; `end` marks a record's last.
\* Numbers start at 1: a record whose first is 0 is corrupt.
Entry == [seq : Nat \ {0}, op : Ops, end : BOOLEAN]

BaseFile == [gen : Nat, applied : Nat, ops : Seq(Ops)]
WalFile  == [ino : {0, 1}, gen : Nat, log : Seq(Entry), torn : Nat, synced : Nat]

EmptyBase == [gen |-> 1, applied |-> 0, ops |-> <<>>]

\* A log just written by rename: a header and nothing else.  The file it
\* replaces still exists while it is written, so the inode differs from that
\* one; an older, unlinked log's inode may well come back.
FreshWal(old, gen) ==
  [ino |-> IF old = None THEN 0 ELSE 1 - old.ino,
   gen |-> gen, log |-> <<>>, torn |-> 0, synced |-> 0]

\* The record staged ops are sealed into.
Sealed(first, ops) ==
  [i \in 1..Len(ops) |->
     [seq |-> first + i - 1, op |-> ops[i], end |-> i = Len(ops)]]

\* O_APPEND of a whole record.  After bytes that are not a record it is out
\* of every scan's reach: those bytes are where a scan stops.
Appended(w, rec) ==
  IF w.torn = 0 THEN [w EXCEPT !.log = @ \o rec]
                ELSE [w EXCEPT !.torn = @ + OpLen * Len(rec)]

\* set_len to offset `pos`, then sync_all.
CutTo(w, pos) ==
  LET n == Min2(pos, Len(w.log))
  IN  [w EXCEPT !.log = SubSeq(@, 1, n), !.torn = 0, !.synced = n]

FileLen(w) == OpLen * Len(w.log) + w.torn

\* Mutation: the length left out of the stamp.
WalStatNoLen(w) == IF w = None THEN None ELSE [ino |-> w.ino, len |-> 0]

\* Two stat calls' worth: the base's identity, the log's inode and length.
WalStat(w) == IF w = None THEN None ELSE [ino |-> w.ino, len |-> FileLen(w)]
StampOf(b, w) == [base |-> b.gen, wal |-> WalStat(w)]

\* Whole records can be read from `pos` on: it is where a record starts.
AtBoundary(log, pos) ==
  /\ pos <= Len(log)
  /\ pos > 0 => log[pos].end

\* Entries past `pos` with a sequence number above `above`.  Numbers rise
\* along a log (scan refuses one where they do not), so these are a suffix.
Above(log, pos, above) ==
  LET later == {i \in pos + 1..Len(log) : log[i].seq > above}
  IN  IF later = {} THEN <<>>
      ELSE SubSeq(log, CHOOSE i \in later : \A j \in later : i <= j, Len(log))

OpsOf(log) == [i \in 1..Len(log) |-> log[i].op]

----------------------------------------------------------------------------
(* A loaded generation: a base image and the records above it. *)

Generation == [gen : Nat, applied : Nat, ops : Seq(Ops), log : Seq(Entry)]

LogNewer(b, w)   == w # None /\ w.gen > b.gen
LogCurrent(b, w) == w # None /\ w.gen = b.gen

Build(b, w) ==
  [gen |-> b.gen, applied |-> b.applied, ops |-> b.ops,
   log |-> IF LogCurrent(b, w) THEN Above(w.log, 0, b.applied) ELSE <<>>]

LastSeq(g) ==
  IF g.log = <<>> THEN g.applied ELSE Max2(g.applied, g.log[Len(g.log)].seq)

\* Mutation: numbering resumes on the last number used.
FirstFreeOff(g) == LastSeq(g)

\* The number the next record starts at.
FirstFree(g) == LastSeq(g) + 1

Publish(g, entries) == [g EXCEPT !.log = @ \o entries]

View(g) == g.ops \o OpsOf(g.log)

\* What opening the directory now would serve.
Recovered == View(Build(base, wal))

----------------------------------------------------------------------------
(* Handle-local state. *)

WalId == [ino : {0, 1}, len : Nat]
Stamp == [base : Nat, wal : {None} \cup WalId]
Seen  == [stamp : {None} \cup Stamp, pos : Nat, current : BOOLEAN, gen : Nat]

NothingSeen == [stamp |-> None, pos |-> 0, current |-> FALSE, gen |-> 0]

Probe == [opening : BOOLEAN, stat : Nat, stamp : {None} \cup Stamp,
          map : {None} \cup BaseFile, tries : Nat]
NoProbe == [opening |-> FALSE, stat |-> 0, stamp |-> None, map |-> None, tries |-> 0]

ASSUME NoneIsNoRecord ==
  None \notin BaseFile \cup WalFile \cup Generation \cup WalId \cup Stamp

\* Nothing but the lock and the files survives the process.
Forget(h) ==
  /\ pc'      = [pc EXCEPT ![h] = "closed"]
  /\ served'  = [served EXCEPT ![h] = None]
  /\ seen'    = [seen EXCEPT ![h] = NothingSeen]
  /\ nextSeq' = [nextSeq EXCEPT ![h] = 0]
  /\ diskGen' = [diskGen EXCEPT ![h] = 0]
  /\ slots'   = [slots EXCEPT ![h] = 0]
  /\ staged'  = [staged EXCEPT ![h] = <<>>]
  /\ mark'    = [mark EXCEPT ![h] = 0]
  /\ since'   = [since EXCEPT ![h] = 0]
  /\ probe'   = [probe EXCEPT ![h] = NoProbe]
  /\ goal'    = [goal EXCEPT ![h] = "none"]

Goto(h, to) == pc' = [pc EXCEPT ![h] = to]

\* Unlock and return to the caller.
Return(h) ==
  /\ lock' = None
  /\ Goto(h, "idle")
  /\ goal' = [goal EXCEPT ![h] = "none"]

Mishap == mishaps < MaxMishaps /\ mishaps' = mishaps + 1

----------------------------------------------------------------------------
(* Creation: Store::create and open_or_create. *)

\* The unlocked check for a base.
CreateBegin(h) ==
  /\ pc[h] = "closed" /\ h \in Writable /\ base = None
  /\ Goto(h, "create")
  /\ UNCHANGED <<files, lock, goal, memory, batch, probe, ghosts, mishaps>>

\* Mutation: the base not looked for again once the lock is held.
CreateLockNoRecheck(h) ==
  /\ pc[h] = "create" /\ lock = None
  /\ wal' = IF wal = None THEN FreshWal(None, 1) ELSE wal
  /\ lock' = h
  /\ Goto(h, "create_base")
  /\ UNCHANGED <<base, goal, memory, batch, probe, ghosts, mishaps>>

\* Under the lock: the check again, then the log if there is none.
CreateLock(h) ==
  /\ pc[h] = "create" /\ lock = None
  /\ \/ /\ base # None
        /\ Goto(h, "closed")
        /\ UNCHANGED <<wal, lock>>
     \/ /\ base = None
        /\ wal' = IF wal = None THEN FreshWal(None, 1) ELSE wal
        /\ lock' = h
        /\ Goto(h, "create_base")
  /\ UNCHANGED <<base, goal, memory, batch, probe, ghosts, mishaps>>

\* Last the base, which is what marks the store as created; unlock.
CreateBase(h) ==
  /\ pc[h] = "create_base"
  /\ base' = EmptyBase
  /\ lock' = None
  /\ Goto(h, "closed")
  /\ UNCHANGED <<wal, goal, memory, batch, probe, ghosts, mishaps>>

----------------------------------------------------------------------------
(* Unlocked reading: open_with and reload_if_stale.  A load stats both     *)
(* files, then either reads the log's tail or maps the base and reads the  *)
(* log; anything may happen between any two of these.                      *)

\* open_with or reload_if_stale begins: stat of the base.
StatBase(h) ==
  /\ \/ pc[h] = "closed" /\ base # None
     \/ pc[h] = "idle"
  /\ Goto(h, "stat")
  /\ probe' = [probe EXCEPT ![h] = [NoProbe EXCEPT !.opening = pc[h] = "closed",
                                                   !.stat = base.gen]]
  /\ UNCHANGED <<files, lock, goal, memory, batch, ghosts, mishaps>>

\* Same base, same log file, no shorter than what was consumed: only grew.
OnlyGrew(s, now) ==
  /\ s.stamp # None
  /\ now.base = s.stamp.base
  /\ now.wal # None /\ s.stamp.wal # None
  /\ now.wal.ino = s.stamp.wal.ino
  /\ now.wal.len >= OpLen * s.pos

\* Stat of the log, and what the two stats call for.
StatWal(h) ==
  /\ pc[h] = "stat"
  /\ LET now == [base |-> probe[h].stat, wal |-> WalStat(wal)]
         opening == probe[h].opening
     IN  /\ Goto(h, IF ~opening /\ seen[h].stamp = now THEN "idle"
                    ELSE IF ~opening /\ OnlyGrew(seen[h], now) THEN "tail"
                    ELSE "map")
         /\ probe' = [probe EXCEPT ![h] =
              IF ~opening /\ seen[h].stamp = now THEN NoProbe
                                                 ELSE [@ EXCEPT !.stamp = now]]
  /\ UNCHANGED <<files, lock, goal, memory, batch, ghosts, mishaps>>

\* Mutation: the tail consumed but never published.
TailReadSilent(g, s, w) == [served |-> g, pos |-> Len(w.log)]

\* What reading log w from s.pos makes of generation g.
TailRead(g, s, w) ==
  IF AtBoundary(w.log, s.pos)
  THEN [served |-> Publish(g, Above(w.log, s.pos, LastSeq(g))), pos |-> Len(w.log)]
  ELSE [served |-> g, pos |-> s.pos]

\* sync's last part: counters advance to what is served and seen.
Adopt(h, g, s) ==
  /\ served'  = [served EXCEPT ![h] = g]
  /\ seen'    = [seen EXCEPT ![h] = s]
  /\ nextSeq' = [nextSeq EXCEPT ![h] = Max2(@, FirstFree(g))]
  /\ diskGen' = [diskGen EXCEPT ![h] = Max2(@, s.gen)]

\* Unless TailRace, no log is replaced between a reload's first stat and the
\* tail read that trusts it.
MayReplaceLog ==
  TailRace \/ \A r \in Handles :
    pc[r] # "tail" /\ (pc[r] = "stat" => probe[r].opening)

\* reload_wal_tail, by path: the file may not be the one that was stat'ed.
ReloadTail(h) ==
  /\ pc[h] = "tail"
  /\ LET r == TailRead(served[h], seen[h], wal)
     IN  Adopt(h, r.served, [seen[h] EXCEPT !.stamp = probe[h].stamp, !.pos = r.pos])
  /\ Goto(h, "idle")
  /\ probe' = [probe EXCEPT ![h] = NoProbe]
  /\ UNCHANGED <<files, lock, goal, slots, batch, ghosts, mishaps>>

MapBase(h) ==
  /\ pc[h] = "map"
  /\ Goto(h, "read")
  /\ probe' = [probe EXCEPT ![h].map = base]
  /\ UNCHANGED <<files, lock, goal, memory, batch, ghosts, mishaps>>

\* Every other ring slot may be pinned by a snapshot of the generation in it.
RingFull(h) == slots[h] >= GenSlots

SeenOf(stamp, b, w) ==
  [stamp |-> stamp, pos |-> IF LogCurrent(b, w) THEN Len(w.log) ELSE 0,
   current |-> LogCurrent(b, w), gen |-> b.gen]

\* Mutation: every record published again, the ones already served too.
ApplyLogAgain(g, b, w) == IF LogCurrent(b, w) THEN Publish(g, w.log) ELSE g

\* Mutation: the overlay rebuilt from the file instead of extended.
ApplyLogAnew(g, b, w) ==
  IF LogCurrent(b, w) THEN [g EXCEPT !.log = Above(w.log, 0, g.applied)] ELSE g

\* Same generation: the records not served yet are published on it.
ApplyLog(g, b, w) ==
  IF LogCurrent(b, w) THEN Publish(g, Above(w.log, 0, LastSeq(g))) ELSE g

\* install_or_apply of base b and a log w that is not newer, leaving s seen:
\* publish on the served generation, install another one in a free slot, or,
\* with no slot free, publish b's log on a generation that has all b folds.
InstallOrApply(h, b, w, s) ==
  \/ /\ b.gen = served[h].gen
     /\ Adopt(h, ApplyLog(served[h], b, w), s)
     /\ UNCHANGED slots
  \/ /\ b.gen # served[h].gen
     /\ Adopt(h, Build(b, w), s)
     /\ slots' = [slots EXCEPT ![h] = Min2(GenSlots, @ + 1)]
  \/ /\ b.gen # served[h].gen /\ RingFull(h)
     /\ b.applied <= LastSeq(served[h])
     /\ Adopt(h, ApplyLog(served[h], b, w), s)
     /\ UNCHANGED slots

\* ... or Busy: nowhere to install it, and the served one lacks folded ops.
InstallBusy(h, b) ==
  b.gen # served[h].gen /\ RingFull(h) /\ b.applied > LastSeq(served[h])

\* assemble, for a fresh handle.
Assemble(h, b, w, stamp) ==
  LET g == Build(b, w)
  IN  /\ served'  = [served EXCEPT ![h] = g]
      /\ seen'    = [seen EXCEPT ![h] = SeenOf(stamp, b, w)]
      /\ nextSeq' = [nextSeq EXCEPT ![h] = FirstFree(g)]
      /\ diskGen' = [diskGen EXCEPT ![h] = b.gen]
      /\ slots'   = [slots EXCEPT ![h] = 1]

\* The log is read whole, and belongs to the mapped base or an older one.
LoadRead(h) ==
  /\ pc[h] = "read" /\ ~LogNewer(probe[h].map, wal)
  /\ LET b == probe[h].map
         torn == LogCurrent(b, wal) => wal.torn > 0
     IN  \/ /\ probe[h].opening
            /\ Assemble(h, b, wal, probe[h].stamp)
            /\ Goto(h, IF torn /\ h \in Writable THEN "mend" ELSE "idle")
         \/ /\ ~probe[h].opening
            /\ \/ InstallOrApply(h, b, wal, SeenOf(probe[h].stamp, b, wal))
               \/ InstallBusy(h, b) /\ UNCHANGED memory
            /\ Goto(h, "idle")
  /\ probe' = [probe EXCEPT ![h] = NoProbe]
  /\ UNCHANGED <<files, lock, goal, batch, ghosts, mishaps>>

\* A log newer than the base mapped: a compaction went by.  Read again;
\* past the retries Busy, or, for a writable opener, a load under the lock
\* if it is free.
LoadAgain(h) ==
  /\ pc[h] = "read" /\ LogNewer(probe[h].map, wal)
  /\ \/ /\ probe[h].tries + 1 < RaceRetries
        /\ Goto(h, "map")
        /\ probe' = [probe EXCEPT ![h].map = None, ![h].tries = @ + 1]
        /\ UNCHANGED memory
     \/ /\ probe[h].tries + 1 = RaceRetries
        /\ Goto(h, IF probe[h].opening THEN "closed" ELSE "idle")
        /\ probe' = [probe EXCEPT ![h] = NoProbe]
        /\ UNCHANGED memory
     \/ /\ probe[h].tries + 1 = RaceRetries
        /\ probe[h].opening /\ h \in Writable /\ lock = None
        /\ Assemble(h, base, wal, probe[h].stamp)
        /\ Goto(h, IF LogCurrent(base, wal) /\ wal.torn = 0 THEN "idle" ELSE "mend")
        /\ probe' = [probe EXCEPT ![h] = NoProbe]
  /\ UNCHANGED <<files, lock, goal, batch, ghosts, mishaps>>

----------------------------------------------------------------------------
(* Under the commit lock: sync(repair = true). *)

\* Mutation: a torn tail left where it is.
RepairedWalNoCut(s) == IF s.current THEN wal ELSE FreshWal(wal, s.gen)

\* repair, for a handle that saw s: a log that is not the base's is replaced
\* by a fresh one, a torn tail is cut off.
RepairedWal(s) ==
  CASE ~s.current -> FreshWal(wal, s.gen)
    [] s.current /\ s.stamp.wal.len > OpLen * s.pos -> CutTo(wal, s.pos)
    [] OTHER -> wal

RepairedSeen(s) ==
  IF s.current
  THEN [s EXCEPT !.stamp.wal.len = Min2(@, OpLen * s.pos)]
  ELSE [stamp |-> StampOf(base, FreshWal(wal, s.gen)), pos |-> 0,
        current |-> TRUE, gen |-> s.gen]

\* What catch_up leaves seen when the stamp read is `now`.
CaughtSeen(h, now) ==
  IF seen[h].stamp = now THEN seen[h]
  ELSE IF OnlyGrew(seen[h], now)
       THEN [seen[h] EXCEPT !.stamp = now,
                            !.pos = TailRead(served[h], seen[h], wal).pos]
       ELSE SeenOf(now, base, wal)

\* catch_up and repair, on files nobody else can change: one step.
SyncRepair(h) ==
  LET now == StampOf(base, wal)
      s   == CaughtSeen(h, now)
  IN  /\ ~s.current => MayReplaceLog
      /\ wal' = RepairedWal(s)
      /\ \/ /\ seen[h].stamp = now
            /\ Adopt(h, served[h], RepairedSeen(s))
            /\ UNCHANGED slots
         \/ /\ seen[h].stamp # now /\ OnlyGrew(seen[h], now)
            /\ Adopt(h, TailRead(served[h], seen[h], wal).served, RepairedSeen(s))
            /\ UNCHANGED slots
         \/ /\ seen[h].stamp # now /\ ~OnlyGrew(seen[h], now)
            /\ InstallOrApply(h, base, wal, RepairedSeen(s))

\* The full reload a sync needs finds no slot for the generation.
SyncBusy(h) ==
  LET now == StampOf(base, wal)
  IN  seen[h].stamp # now /\ ~OnlyGrew(seen[h], now) /\ InstallBusy(h, base)

\* repair_now at open: only if the lock can be had at once.
Mend(h) ==
  /\ pc[h] = "mend"
  /\ \/ UNCHANGED <<wal, memory>>
     \/ lock = None /\ SyncRepair(h)
  /\ Goto(h, "idle")
  /\ UNCHANGED <<base, lock, goal, batch, probe, ghosts, mishaps>>

----------------------------------------------------------------------------
(* Staging, and taking the commit lock for a commit, a transaction or a    *)
(* compaction.  Waiting for the lock, and giving up, change nothing here.  *)

Stage(h, op) ==
  /\ pc[h] = "idle" \/ pc[h] = "txn"
  /\ h \in Writable /\ op \notin used
  /\ staged' = [staged EXCEPT ![h] = Append(@, op)]
  /\ used' = used \cup {op}
  /\ UNCHANGED <<files, lock, pc, goal, memory, mark, since, probe, acked, aborted, mishaps>>

Discard(h) ==
  /\ pc[h] = "idle" /\ staged[h] # <<>>
  /\ staged' = [staged EXCEPT ![h] = <<>>]
  /\ UNCHANGED <<files, lock, pc, goal, memory, mark, since, probe, ghosts, mishaps>>

Acquire(h, for) ==
  /\ pc[h] = "idle" /\ h \in Writable /\ lock = None
  /\ for = "commit" => staged[h] # <<>>
  /\ for = "compact" => base.gen < MaxGen
  /\ lock' = h
  /\ goal' = [goal EXCEPT ![h] = for]
  /\ Goto(h, "sync")
  /\ UNCHANGED <<files, memory, batch, probe, ghosts, mishaps>>

\* Catch up and repair; then append, run the transaction's body, or fold.
Sync(h) ==
  /\ pc[h] = "sync"
  /\ \/ /\ SyncRepair(h)
        /\ Goto(h, CASE goal[h] = "commit"   -> "append"
                     [] goal[h] = "transact" -> "txn"
                     [] goal[h] = "compact"  -> "fold")
        /\ mark' = IF goal[h] = "transact"
                    THEN [mark EXCEPT ![h] = Len(staged[h])] ELSE mark
        /\ UNCHANGED <<lock, goal>>
     \/ /\ SyncBusy(h)
        /\ Return(h)
        /\ UNCHANGED <<wal, memory, mark>>
  /\ UNCHANGED <<base, staged, since, probe, ghosts, mishaps>>

\* Mutation: the failed transaction's ops left staged.
KeptAll(h) == staged[h]

\* The ops a failed call leaves staged: a commit keeps them all for a retry,
\* a transaction drops its own and keeps what was staged before it.
Kept(h) ==
  IF goal[h] = "transact" THEN SubSeq(staged[h], 1, mark[h]) ELSE staged[h]

Dropped(h) ==
  IF goal[h] = "transact"
  THEN {staged[h][i] : i \in mark[h] + 1..Len(staged[h])} ELSE {}

Fail(h) ==
  /\ staged' = [staged EXCEPT ![h] = Kept(h)]
  /\ aborted' = aborted \cup Dropped(h)
  /\ mark' = [mark EXCEPT ![h] = 0]
  /\ Return(h)
  /\ UNCHANGED <<since, used, acked>>

\* The body returned Err.
TxnAbort(h) ==
  /\ pc[h] = "txn"
  /\ Fail(h)
  /\ UNCHANGED <<files, memory, probe, mishaps>>

\* The body returned Ok; with nothing staged there is nothing to append.
TxnEnd(h) ==
  /\ pc[h] = "txn"
  /\ \/ /\ staged[h] # <<>>
        /\ Goto(h, "append")
        /\ UNCHANGED <<lock, goal, mark>>
     \/ /\ staged[h] = <<>>
        /\ Return(h)
        /\ mark' = [mark EXCEPT ![h] = 0]
  /\ UNCHANGED <<files, memory, staged, since, probe, ghosts, mishaps>>

----------------------------------------------------------------------------
(* append_held: one record, one write, one fsync. *)

\* Larger than a record may be: refused before anything is written.
AppendRefused(h) ==
  /\ pc[h] = "append" /\ Len(staged[h]) > MaxRecord
  /\ Fail(h)
  /\ UNCHANGED <<files, memory, probe, mishaps>>

\* Part of the record has reached the file.
WritePart(h, n) ==
  /\ pc[h] = "append" /\ Len(staged[h]) <= MaxRecord
  /\ wal.torn = 0 /\ n < OpLen * Len(staged[h])
  /\ wal' = [wal EXCEPT !.torn = n]
  /\ Goto(h, "writing")
  /\ UNCHANGED <<base, lock, goal, memory, batch, probe, ghosts, mishaps>>

\* All of it has.
WriteAll(h) ==
  /\ \/ pc[h] = "append" /\ Len(staged[h]) <= MaxRecord
     \/ pc[h] = "writing"
  /\ LET w == IF pc[h] = "writing" THEN [wal EXCEPT !.torn = 0] ELSE wal
     IN  wal' = Appended(w, Sealed(nextSeq[h], staged[h]))
  /\ Goto(h, "written")
  /\ UNCHANGED <<base, lock, goal, memory, batch, probe, ghosts, mishaps>>

\* The write failed part way ("short"), or the fsync after it ("sync"): the
\* log is cut back to where it was, unless that fails too ("stuck").
AppendFail(h) ==
  /\ Mishap
  /\ \/ pc[h] = "writing" /\ "short" \in AppendFaults
     \/ pc[h] = "written" /\ "sync" \in AppendFaults
  /\ \/ wal' = CutTo(wal, seen[h].pos)
     \/ "stuck" \in AppendFaults /\ UNCHANGED wal
  /\ seen' = [seen EXCEPT ![h].stamp = None]
  /\ Fail(h)
  /\ UNCHANGED <<base, served, nextSeq, diskGen, slots, probe>>

\* Mutation: one commit too late.
SyncDueLate(h) == SyncEvery # 0 /\ since[h] >= SyncEvery

\* Whether this commit fsyncs: the policy, on the handle's own count.
SyncDue(h) == SyncEvery # 0 /\ since[h] + 1 >= SyncEvery

\* Durable per policy: account for it, publish it, return Ok, compacting
\* first when the overlay has reached the threshold and inline is on.
AppendOk(h) ==
  LET rec  == Sealed(nextSeq[h], staged[h])
      sync == SyncDue(h)
      g    == Publish(served[h], rec)
  IN  /\ pc[h] = "written"
      /\ wal' = IF sync THEN [wal EXCEPT !.synced = Len(wal.log)] ELSE wal
      /\ since' = [since EXCEPT ![h] = IF sync \/ SyncEvery = 0 THEN 0 ELSE @ + 1] \* Never: not read
      /\ served' = [served EXCEPT ![h] = g]
      /\ seen' = [seen EXCEPT ![h].pos = @ + Len(rec),
                              ![h].stamp.wal.len = @ + OpLen * Len(rec)]
      /\ nextSeq' = [nextSeq EXCEPT ![h] = @ + Len(rec)]
      /\ acked' = acked \cup {[entry |-> rec[i], by |-> h] : i \in 1..Len(rec)}
      /\ staged' = [staged EXCEPT ![h] = <<>>]
      /\ mark' = [mark EXCEPT ![h] = 0]
      /\ \/ Return(h)
         \/ /\ Len(g.log) >= CompactAfter /\ base.gen < MaxGen
            /\ Goto(h, "fold")
            /\ UNCHANGED <<lock, goal>>
      /\ UNCHANGED <<base, diskGen, slots, probe, used, aborted, mishaps>>

----------------------------------------------------------------------------
(* compact_locked: fold what is served into a new base, start a new log. *)

\* Mutation: counted from the generation served.
NewGenerationServed(h) == served[h].gen + 1

\* Above the newest base on disk, not just above the one served: a refused
\* install leaves a durable base this handle does not serve.
NewGeneration(h) == Max2(served[h].gen, diskGen[h]) + 1

\* Mutation: the overlay not folded.
FoldedBaseOnly(h, g) ==
  [gen |-> NewGeneration(h), applied |-> nextSeq[h] - 1, ops |-> g.ops]

\* The base compaction renders from generation g: everything g shows.
FoldedBase(h, g) ==
  [gen |-> NewGeneration(h), applied |-> nextSeq[h] - 1, ops |-> View(g)]

\* Mutation: the fresh log written before the base it belongs to.
FoldLogFirst(h) ==
  /\ pc[h] = "fold"
  /\ wal' = FreshWal(wal, NewGeneration(h))
  /\ diskGen' = [diskGen EXCEPT ![h] = NewGeneration(h)]
  /\ Goto(h, "swap")
  /\ UNCHANGED <<base, lock, goal, served, seen, nextSeq, slots, batch, probe, ghosts, mishaps>>

\* The new base lands by rename.
Fold(h) ==
  /\ pc[h] = "fold"
  /\ base' = FoldedBase(h, served[h])
  /\ diskGen' = [diskGen EXCEPT ![h] = NewGeneration(h)]
  /\ Goto(h, "swap")
  /\ UNCHANGED <<wal, lock, goal, served, seen, nextSeq, slots, batch, probe, ghosts, mishaps>>

\* Then the fresh log, and the new generation goes into a free ring slot; if
\* there is none the old one stays served and the next catch-up reloads.
Swap(h) ==
  /\ pc[h] = "swap"
  /\ MayReplaceLog
  /\ wal' = FreshWal(wal, base.gen)
  /\ nextSeq' = [nextSeq EXCEPT ![h] = base.applied + 1]
  /\ since' = [since EXCEPT ![h] = 0]
  /\ \/ /\ served' = [served EXCEPT ![h] = Build(base, wal')]
        /\ seen' = [seen EXCEPT ![h] = SeenOf(StampOf(base, wal'), base, wal')]
        /\ slots' = [slots EXCEPT ![h] = Min2(GenSlots, @ + 1)]
     \/ /\ RingFull(h)
        /\ seen' = [seen EXCEPT ![h] = NothingSeen]
        /\ UNCHANGED <<served, slots>>
  /\ Return(h)
  /\ UNCHANGED <<base, diskGen, staged, mark, probe, ghosts, mishaps>>

\* Either rename fails; a commit that was compacting inline is Ok already.
CompactFail(h) ==
  /\ pc[h] \in {"fold", "swap"}
  /\ Mishap
  /\ Return(h)
  /\ UNCHANGED <<files, memory, batch, probe, ghosts>>

----------------------------------------------------------------------------
(* Failures of the environment. *)

Disown(who) == {IF a.by \in who THEN [a EXCEPT !.by = None] ELSE a : a \in acked}

\* The process dies; its locks go with it, its half-written record stays.
Crash(h) ==
  /\ pc[h] # "closed"
  /\ Mishap
  /\ Forget(h)
  /\ lock' = IF lock = h THEN None ELSE lock
  /\ acked' = Disown({h})
  /\ UNCHANGED <<files, used, aborted>>

\* Power goes: every process dies, and of what was not fsynced any whole
\* records and any part of the next one may be left.
PowerLoss ==
  /\ Mishap
  /\ wal # None
  /\ \E n \in wal.synced..Len(wal.log), t \in {0} \cup TornLens :
       /\ AtBoundary(wal.log, n)
       /\ t > 0 => n < Len(wal.log) \/ wal.torn > 0
       /\ wal' = [wal EXCEPT !.log = SubSeq(@, 1, n), !.torn = t]
  /\ pc'      = [h \in Handles |-> "closed"]
  /\ goal'    = [h \in Handles |-> "none"]
  /\ served'  = [h \in Handles |-> None]
  /\ seen'    = [h \in Handles |-> NothingSeen]
  /\ nextSeq' = [h \in Handles |-> 0]
  /\ diskGen' = [h \in Handles |-> 0]
  /\ slots'   = [h \in Handles |-> 0]
  /\ staged'  = [h \in Handles |-> <<>>]
  /\ mark'    = [h \in Handles |-> 0]
  /\ since'   = [h \in Handles |-> 0]
  /\ probe'   = [h \in Handles |-> NoProbe]
  /\ lock' = None
  /\ acked' = Disown(Handles)
  /\ UNCHANGED <<base, used, aborted>>

----------------------------------------------------------------------------
Init ==
  /\ base = IF Fresh THEN None ELSE EmptyBase
  /\ wal = IF Fresh THEN None ELSE FreshWal(None, 1)
  /\ lock = None
  /\ pc      = [h \in Handles |-> "closed"]
  /\ goal    = [h \in Handles |-> "none"]
  /\ served  = [h \in Handles |-> None]
  /\ seen    = [h \in Handles |-> NothingSeen]
  /\ nextSeq = [h \in Handles |-> 0]
  /\ diskGen = [h \in Handles |-> 0]
  /\ slots   = [h \in Handles |-> 0]
  /\ staged  = [h \in Handles |-> <<>>]
  /\ mark    = [h \in Handles |-> 0]
  /\ since   = [h \in Handles |-> 0]
  /\ probe   = [h \in Handles |-> NoProbe]
  /\ used = {} /\ acked = {} /\ aborted = {}
  /\ mishaps = 0

Create(h) == CreateBegin(h) \/ CreateLock(h) \/ CreateBase(h)
Load(h)   == \/ StatBase(h) \/ StatWal(h) \/ ReloadTail(h)
             \/ MapBase(h) \/ LoadRead(h) \/ LoadAgain(h) \/ Mend(h)
Write(h)  == \/ \E op \in Ops : Stage(h, op)
             \/ Discard(h)
             \/ \E for \in {"commit", "transact", "compact"} : Acquire(h, for)
             \/ Sync(h) \/ TxnAbort(h) \/ TxnEnd(h)
             \/ AppendRefused(h) \/ WriteAll(h) \/ AppendFail(h) \/ AppendOk(h)
             \/ \E n \in TornLens : WritePart(h, n)
Compact(h) == Fold(h) \/ Swap(h) \/ CompactFail(h)

Next ==
  \/ \E h \in Handles : Create(h) \/ Load(h) \/ Write(h) \/ Compact(h) \/ Crash(h)
  \/ PowerLoss

Spec == Init /\ [][Next]_vars

----------------------------------------------------------------------------
(* Properties. *)

Steps == {"closed", "create", "create_base", "stat", "tail", "map", "read", "mend",
          "idle", "sync", "txn", "append", "writing", "written", "fold", "swap"}

\* Type invariant.
TypeOK ==
  /\ base \in {None} \cup BaseFile
  /\ wal \in {None} \cup WalFile
  /\ lock \in {None} \cup Handles
  /\ pc \in [Handles -> Steps]
  /\ goal \in [Handles -> {"none", "commit", "transact", "compact"}]
  /\ served \in [Handles -> {None} \cup Generation]
  /\ seen \in [Handles -> Seen]
  /\ nextSeq \in [Handles -> Nat]
  /\ diskGen \in [Handles -> Nat]
  /\ slots \in [Handles -> 0..GenSlots]
  /\ staged \in [Handles -> Seq(Ops)]
  /\ mark \in [Handles -> Nat]
  /\ since \in [Handles -> Nat]
  /\ probe \in [Handles -> Probe]
  /\ used \subseteq Ops /\ aborted \subseteq Ops
  /\ acked \subseteq [entry : Entry, by : {None} \cup Handles]
  /\ mishaps \in 0..MaxMishaps

Open(h) == served[h] # None

Closed    == {"closed", "create", "create_base"}
Loading   == {"stat", "tail", "map", "read"}
Appending == {"txn", "append", "writing", "written"}
UnderLock == Appending \cup {"create_base", "sync", "fold", "swap"}

\* A handle that some caller has: not one still being opened.
Live(h) == pc[h] \notin Closed /\ (pc[h] \in Loading => ~probe[h].opening)

\* Nothing is used that is not there: the log is older than the base, a live
\* handle serves something, an append has a stamp to extend, an abort a mark
\* within what is staged.
Defined ==
  /\ base # None => wal # None
  /\ \A h \in Handles :
       /\ pc[h] \notin Closed => base # None
       /\ pc[h] = "create_base" => wal # None
       /\ Live(h) => served[h] # None /\ nextSeq[h] > 0
       /\ pc[h] = "tail" => ~probe[h].opening
       /\ pc[h] \in {"tail", "map", "read"} => probe[h].stamp # None /\ probe[h].stamp.wal # None
       /\ pc[h] = "read" => probe[h].map # None
       /\ seen[h].stamp # None => seen[h].stamp.wal # None
       /\ pc[h] \in Appending => seen[h].stamp # None
       /\ pc[h] = "sync" => goal[h] # "none"
       /\ mark[h] <= Len(staged[h])
       /\ mark[h] > 0 => pc[h] \in Appending

\* One writer at a time, through every error path.
Exclusive == \A h \in Handles : lock = h <=> pc[h] \in UnderLock

\* No handle knows a generation the base has not reached, and one that has
\* caught up under the lock knows the base's.
Generations ==
  /\ base = None /\ wal # None => wal.gen = 1
  /\ base # None => wal.gen <= base.gen
  /\ \A h \in Handles :
       /\ pc[h] = "create_base" => base = None
       /\ ~Live(h) => seen[h].gen = 0
       /\ base # None => seen[h].gen <= base.gen
       /\ pc[h] = "stat" => probe[h].stat <= base.gen
       /\ pc[h] \in {"tail", "map", "read"} => probe[h].stamp.base <= base.gen
       /\ pc[h] = "tail" => probe[h].stamp.base <= seen[h].gen
       /\ pc[h] = "read" => probe[h].stamp.base <= probe[h].map.gen /\ probe[h].map.gen <= base.gen
       /\ seen[h].stamp # None => seen[h].stamp.base <= seen[h].gen
       /\ pc[h] \in Appending \cup {"fold"} => base.gen <= diskGen[h]

\* The inductive invariant behind LogNeverAhead and GenerationsRise: types,
\* what is there when it is used, who is writing, and what generation each
\* handle can have heard of.
StoreInv == TypeOK /\ Defined /\ Exclusive /\ Generations

\* Every op of a commit that returned Ok is what the directory gives back at
\* its sequence number, whatever crashed, compacted or was cut since
\* (Writer::commit: "`Ok` means the whole transaction is durable").
Durable ==
  acked # {} =>
    LET now == Recovered
    IN  base # None /\ \A a \in acked : /\ a.entry.seq \in 1..Len(now)
                                       /\ now[a.entry.seq] = a.entry.op

\* What a handle serves is a prefix of the committed history: no op missing
\* in the middle, none that the directory does not hold, whichever of tail
\* read, full reload, install, refused install or own commit brought it there.
ServedPrefix ==
  LET now == Recovered
  IN  \A h \in Handles : Open(h) => IsPrefix(View(served[h]), now)

\* A handle's own commits stay visible to it, at the sequence numbers it was
\* told, through every catch-up, compaction and refused install.
OwnCommitsVisible ==
  \A h \in Handles : Open(h) =>
    LET mine == View(served[h])
    IN  \A a \in acked : a.by = h => /\ a.entry.seq \in 1..Len(mine)
                                    /\ mine[a.entry.seq] = a.entry.op

\* While a transaction's body runs its view is the whole committed state: no
\* other handle commits between Store::transact's read view and its append.
TxnReadsLatest ==
  \A h \in Handles : pc[h] = "txn" => View(served[h]) = Recovered

\* Sequence numbers are dense along base and log: none is written twice,
\* none is skipped, across handles, failed appends and compactions.
SequencesDense ==
  base # None =>
    /\ base.applied = Len(base.ops)
    /\ wal # None /\ wal.gen = base.gen =>
         \A i \in 1..Len(wal.log) : wal.log[i].seq = base.applied + i

\* The log never names a generation its base has not reached: the base
\* rename lands first, and creation and repair never write ahead of it.
LogNeverAhead ==
  base # None => wal # None /\ wal.gen <= base.gen

\* A generation number names one base: a handle serving the generation on
\* disk serves that base (install_or_apply relies on it to skip reloading).
GenerationNamesBase ==
  \A h \in Handles : Open(h) /\ served[h].gen = base.gen =>
    served[h].ops = base.ops /\ served[h].applied = base.applied

\* Ops of a transaction that returned Err are neither in the directory nor
\* served by any handle (Writer::commit: "`Err` means nothing was appended
\* and nothing published").
Shows(view, ops) == \E i \in 1..Len(view) : view[i] \in ops

AbortedLeaveNothing ==
  /\ base # None => ~Shows(Recovered, aborted)
  /\ \A h \in Handles : Open(h) => ~Shows(View(served[h]), aborted)

\* A handle whose stamp equals the files' has nothing to catch up on: the
\* two stats that make a reload or a commit skip reading never lie.
EqualStampNothingNew ==
  \A h \in Handles : Open(h) /\ seen[h].stamp = StampOf(base, wal) =>
    View(served[h]) = Recovered

\* At most SyncEvery - 1 commits of an open handle are exposed to power loss
\* (Durability: "fsync every `n` commits").
Synced(seq) ==
  \/ seq <= base.applied
  \/ LogCurrent(base, wal) /\ \E i \in 1..wal.synced : wal.log[i].seq >= seq

BatchWindow ==
  \A h \in Handles :
    SyncEvery > 0 =>
      Cardinality({a \in acked : a.by = h /\ a.entry.end /\ ~Synced(a.entry.seq)}) < SyncEvery

\* Reads on one handle are monotone: an open handle never un-serves an op.
ReadsMonotone ==
  [][\A h \in Handles : Open(h) /\ served'[h] # None =>
       IsPrefix(View(served[h]), View(served'[h]))]_vars

\* The base is replaced only by one of a higher generation: by no creation
\* racing another, no compaction by a handle that has not caught up, none
\* after an install the ring refused.
GenerationsRise ==
  [][base # None => base' = base \/ (base' # None /\ base'.gen > base.gen)]_vars

----------------------------------------------------------------------------
(* Fairness: nobody has to stage, commit or compact, but a call that was   *)
(* made goes on to return, and a handle that polls keeps polling.          *)

Finish(h) ==
  \/ Sync(h) \/ TxnAbort(h) \/ TxnEnd(h) \/ AppendRefused(h) \/ WriteAll(h)
  \/ AppendOk(h) \/ Fold(h) \/ Swap(h) \/ CreateLock(h) \/ CreateBase(h)

FairSpec ==
  Spec /\ \A h \in Handles : WF_vars(Load(h)) /\ WF_vars(Finish(h))

\* A handle that keeps calling reload_if_stale comes to serve everything
\* committed, even when a reload raced a compaction and read the wrong log or
\* met a log newer than its base until the retries ran out.
Converges ==
  <>[](\A h \in Handles : Open(h) => View(served[h]) = Recovered)
============================================================================
