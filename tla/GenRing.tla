------------------------------ MODULE GenRing ------------------------------
(***************************************************************************)
(* Snapshots and the ring of generations of one handle.                    *)
(*                                                                         *)
(* A handle serves one base generation together with the overlay arena of  *)
(* the ops committed since.  Generations live in the slots of a ring;      *)
(* `current` names the slot that is served.  Under the handle's write      *)
(* mutex one thread at a time appends ops to the served arena, or installs *)
(* a generation into a slot nobody has pinned.  Readers take no mutex: a   *)
(* snapshot reads `current`, pins that slot, looks at `current` again and  *)
(* captures the arena's frontier.  Every atomic load, store and try-lock   *)
(* is a step of its own.                                                   *)
(*                                                                         *)
(* An op is its sequence number.  A base is the number of the last op      *)
(* folded into it, and an arena the cells of its entries.  A segment has   *)
(* at least one entry of its own, so the cells for segments cannot run out *)
(* before those for entries and are left out.  The release stores pair     *)
(* with acquire loads, so one memory seen alike by all threads loses       *)
(* nothing.                                                                *)
(***************************************************************************)
EXTENDS Integers, FiniteSets, FiniteSetsExt

CONSTANTS
  Readers,   \* threads that read
  GenSlots,  \* GEN_SLOTS
  BaseCap,   \* BASE_CAP: cells of an arena's first chunk
  Chunks,    \* CHUNKS
  MaxRecord, \* bound on the ops of one record
  MaxOps,    \* bound on the ops committed
  MaxGen,    \* bound on generations
  None

ASSUME RingConstants ==
  /\ GenSlots \in Nat \ {0} /\ BaseCap \in Nat \ {0} /\ Chunks \in Nat \ {0}
  /\ MaxRecord \in Nat /\ MaxOps \in Nat /\ MaxGen \in Nat \ {0}
  /\ None \notin Int

Slots == 0 .. GenSlots - 1

----------------------------------------------------------------------------
(* The arena's cells: chunk k holds BaseCap << k of them. *)

ChunkCap[k \in Nat] == IF k = 0 THEN BaseCap ELSE 2 * ChunkCap[k - 1]

ChunkStart(k) == ChunkCap[k] - BaseCap
Capacity      == ChunkStart(Chunks)
Cells         == 0 .. Capacity - 1

\* The chunk cell i lies in; Chunks, which no arena has, past the last cell.
Locate(i) ==
  IF i < Capacity
    THEN CHOOSE k \in 0 .. Chunks - 1 : ChunkStart(k) <= i /\ i < ChunkStart(k + 1)
    ELSE Chunks

\* Mutation: only the first cell's chunk is made.
ReservedFirst(from, ops) == {Locate(from)}

\* The chunks reserve() makes for the cells from .. from + ops - 1: it goes
\* from the first cell to the start of one chunk after the other.
Reserved(from, ops) ==
  {k \in 0 .. Chunks - 1 : \/ ops > 0 /\ k = Locate(from)
                           \/ from < ChunkStart(k) /\ ChunkStart(k) < from + ops}

Fits(from, ops) == from + ops <= Capacity

ArenaType ==
  [gen : 1 .. MaxGen, folded : 0 .. MaxOps, at : [Cells -> 0 .. MaxOps],
   frontier : 0 .. Capacity, chunks : SUBSET (0 .. Chunks - 1)]

ASSUME NoneIsNoArena == None \notin ArenaType

NewArena(g, folded) ==
  [gen |-> g, folded |-> folded, at |-> [i \in Cells |-> 0], frontier |-> 0,
   chunks |-> {}]

\* Mutation: the log after the base is not read.
BuiltBare(g, folded, last) == NewArena(g, folded)

\* The arena of a generation just built: ops folded+1 .. last are in it.
Built(g, folded, last) ==
  [NewArena(g, folded) EXCEPT
     !.at = [i \in Cells |-> IF i < last - folded THEN folded + i + 1 ELSE 0],
     !.frontier = last - folded,
     !.chunks = Reserved(0, last - folded)]

LastSeq(a) == IF a.frontier = 0 THEN 0 ELSE a.at[a.frontier - 1]

----------------------------------------------------------------------------
VARIABLES
  ends,    \* the log: the last op of each record committed, by any handle
  disk,    \* the newest generation on disk
  inner,   \* GenSlot.inner: the generation in each slot, or None
  seq,     \* GenSlot.seq
  current,
  locked,  \* the slot whose write lock is held, or None
  wpc,     \* the thread in the write mutex
  job,     \* its locals
  rpc,     \* the readers
  cur,     \* the slot a reader read as current
  upto,    \* Snapshot.frontier
  floor    \* ghost: what was served when the reader's call began

vars == <<ends, disk, inner, seq, current, locked, wpc, job, rpc, cur, upto,
          floor>>

disks   == <<ends, disk>>
slots   == <<inner, seq, current, locked>>
writer  == <<wpc, job>>
readers == <<rpc, cur, upto, floor>>

Last == Max(ends)

Pinned(s) == \E r \in Readers : cur[r] = s /\ rpc[r] \in {"check", "new", "open"}

Nothing == [gen |-> 0, last |-> 0]

Idle == [next |-> 0, op |-> 0, last |-> 0, built |-> None, at |-> 0]

Init ==
  /\ ends = {0} /\ disk = 1
  /\ inner = [s \in Slots |-> IF s = 0 THEN NewArena(1, 0) ELSE None]
  /\ seq = [s \in Slots |-> IF s = 0 THEN 1 ELSE 0]
  /\ current = 0 /\ locked = None
  /\ wpc = "idle" /\ job = Idle
  /\ rpc = [r \in Readers |-> "idle"]
  /\ cur = [r \in Readers |-> 0]
  /\ upto = [r \in Readers |-> 0]
  /\ floor = [r \in Readers |-> Nothing]

----------------------------------------------------------------------------
(* Publishing, under the write mutex. *)

\* served_seq: what the arena in slot s serves up to.
ServedSeq(s) == Max({inner[s].folded, LastSeq(inner[s])})

Serves(s) == [gen |-> inner[s].gen, last |-> ServedSeq(s)]

\* The ops of the record that ends at e.
OpsOf(e) == Max({d \in ends : d < e}) + 1 .. e

\* The ops above `served` of the records after `from`: publish_above's sum
\* over the records of how many ops of each are above.
NewOps(from, served) ==
  Cardinality({op \in UNION {OpsOf(e) : e \in {d \in ends : d > from}} :
                 op > served})

\* reserve() for n ops, then on to their entries, op + 1 the first.
StartPublish(n, op, last) ==
  LET a == inner[current] IN
  /\ inner' = [inner EXCEPT ![current].chunks = @ \cup Reserved(a.frontier, n)]
  /\ job' = [Idle EXCEPT !.next = a.frontier, !.op = op + 1, !.last = last]
  /\ wpc' = "entries"

\* A commit of this handle, caught up: room is made before the record is in
\* the log; without room it is refused and nothing changes.
Commit(n) ==
  /\ wpc = "idle" /\ Last + n <= MaxOps
  /\ ServedSeq(current) = Last
  /\ Fits(inner[current].frontier, n)
  /\ StartPublish(n, Last, Last + n)
  /\ ends' = ends \cup {Last + n}
  /\ UNCHANGED <<disk, seq, current, locked, readers>>

\* Another handle commits.  This one reads the log between its steps only,
\* so it is enough that others' records come then.
Elsewhere(n) ==
  /\ wpc = "idle" /\ Last + n <= MaxOps
  /\ ends' = ends \cup {Last + n}
  /\ UNCHANGED <<disk, slots, writer, readers>>

\* publish_new: the records after `from` that are not served yet; what was
\* read of the log may begin before them.
PublishNew(from) ==
  LET served == ServedSeq(current)
      new    == NewOps(from, served)
  IN  /\ new > 0
      /\ Fits(inner[current].frontier, new)
      /\ StartPublish(new, served, Last)

CatchUp ==
  /\ wpc = "idle"
  /\ \E from \in {e \in ends : e <= ServedSeq(current)} : PublishNew(from)
  /\ UNCHANGED <<disks, seq, current, locked, readers>>

\* Mutation: the frontier moves with every entry.
PutEntryVisible ==
  /\ wpc = "entries" /\ job.op <= job.last /\ Locate(job.next) < Chunks
  /\ inner' = [inner EXCEPT ![current].at[job.next] = job.op,
                            ![current].frontier = job.next + 1]
  /\ job' = [job EXCEPT !.next = @ + 1, !.op = @ + 1]
  /\ UNCHANGED <<disks, seq, current, locked, wpc, readers>>

\* One entry; a cell that is not there ends the loop.
PutEntry ==
  /\ wpc = "entries" /\ job.op <= job.last /\ Locate(job.next) < Chunks
  /\ inner' = [inner EXCEPT ![current].at[job.next] = job.op,
                            ![current].chunks = @ \cup {Locate(job.next)}]
  /\ job' = [job EXCEPT !.next = @ + 1, !.op = @ + 1]
  /\ UNCHANGED <<disks, seq, current, locked, wpc, readers>>

\* The one store of the frontier.
MoveFrontier ==
  /\ wpc = "entries"
  /\ job.op > job.last \/ Locate(job.next) = Chunks
  /\ inner' = [inner EXCEPT ![current].frontier = job.next]
  /\ wpc' = "idle" /\ job' = Idle
  /\ UNCHANGED <<disks, seq, current, locked, readers>>

----------------------------------------------------------------------------
(* Installing. *)

\* A base that folds the log up to record end f was written, by this handle's
\* compaction or another's, and is loaded with the log that follows it.
Build(f) ==
  /\ wpc = "idle" /\ disk < MaxGen
  /\ f >= inner[current].folded /\ Last - f <= Capacity
  /\ disk' = disk + 1
  /\ job' = [Idle EXCEPT !.built = Built(disk + 1, f, Last)]
  /\ wpc' = "scan"
  /\ UNCHANGED <<ends, slots, readers>>

\* Mutation: the served slot is not passed over.
ScanAny ==
  /\ wpc = "scan" /\ job.at \in Slots
  /\ \/ /\ Pinned(job.at)
        /\ job' = [job EXCEPT !.at = @ + 1]
        /\ UNCHANGED <<locked, wpc>>
     \/ /\ ~Pinned(job.at)
        /\ locked' = job.at /\ wpc' = "write"
        /\ UNCHANGED job
  /\ UNCHANGED <<disks, inner, seq, current, readers>>

\* try_write on one slot after the other, the served one left out.
Scan ==
  /\ wpc = "scan" /\ job.at \in Slots
  /\ \/ /\ job.at = current \/ Pinned(job.at)
        /\ job' = [job EXCEPT !.at = @ + 1]
        /\ UNCHANGED <<locked, wpc>>
     \/ /\ job.at # current /\ ~Pinned(job.at)
        /\ locked' = job.at /\ wpc' = "write"
        /\ UNCHANGED job
  /\ UNCHANGED <<disks, inner, seq, current, readers>>

WriteSlot ==
  /\ wpc = "write"
  /\ inner' = [inner EXCEPT ![locked] = job.built]
  /\ locked' = None /\ wpc' = "seq"
  /\ UNCHANGED <<disks, seq, current, job, readers>>

StoreSeq ==
  /\ wpc = "seq"
  /\ seq' = [seq EXCEPT ![job.at] = job.built.gen]
  /\ wpc' = "current"
  /\ UNCHANGED <<disks, inner, current, locked, job, readers>>

StoreCurrent ==
  /\ wpc = "current"
  /\ current' = job.at
  /\ wpc' = "idle" /\ job' = Idle
  /\ UNCHANGED <<disks, inner, seq, locked, readers>>

\* Every other slot is pinned: serve the new base's log on top of the old
\* base if nothing is missing between, else Busy.
Refused ==
  /\ wpc = "scan" /\ job.at \notin Slots
  /\ \/ /\ job.built.folded <= ServedSeq(current)
        /\ PublishNew(job.built.folded)
     \/ /\ \/ job.built.folded > ServedSeq(current)
           \/ LET new == NewOps(job.built.folded, ServedSeq(current))
              IN  new = 0 \/ ~Fits(inner[current].frontier, new)
        /\ wpc' = "idle" /\ job' = Idle
        /\ UNCHANGED inner
  /\ UNCHANGED <<disks, seq, current, locked, readers>>

----------------------------------------------------------------------------
(* Store::snapshot. *)

Begin(r) ==
  /\ rpc[r] = "idle"
  /\ cur' = [cur EXCEPT ![r] = current]
  /\ floor' = [floor EXCEPT ![r] = Serves(current)]
  /\ rpc' = [rpc EXCEPT ![r] = "try"]
  /\ UNCHANGED <<disks, slots, writer, upto>>

\* Once more round the loop.
Load(r) ==
  /\ rpc[r] = "load"
  /\ cur' = [cur EXCEPT ![r] = current]
  /\ rpc' = [rpc EXCEPT ![r] = "try"]
  /\ UNCHANGED <<disks, slots, writer, upto, floor>>

TryRead(r) ==
  /\ rpc[r] = "try"
  /\ rpc' = [rpc EXCEPT ![r] = IF locked = cur[r] THEN "load" ELSE "check"]
  /\ UNCHANGED <<disks, slots, writer, cur, upto, floor>>

\* Mutation: `current` is not read again.
RecheckNone(r) ==
  /\ rpc[r] = "check"
  /\ rpc' = [rpc EXCEPT ![r] = IF inner[cur[r]] # None THEN "new" ELSE "load"]
  /\ UNCHANGED <<disks, slots, writer, cur, upto, floor>>

Recheck(r) ==
  /\ rpc[r] = "check"
  /\ rpc' = [rpc EXCEPT ![r] =
               IF inner[cur[r]] # None /\ current = cur[r] THEN "new" ELSE "load"]
  /\ UNCHANGED <<disks, slots, writer, cur, upto, floor>>

\* Snapshot::new.
NewSnapshot(r) ==
  LET a == inner[cur[r]] IN
  /\ rpc[r] = "new"
  /\ upto' = [upto EXCEPT ![r] = a.frontier]
  /\ rpc' = [rpc EXCEPT ![r] = "open"]
  /\ floor' = [floor EXCEPT ![r] = Nothing]
  /\ UNCHANGED <<disks, slots, writer, cur>>

Drop(r) ==
  /\ rpc[r] = "open"
  /\ rpc' = [rpc EXCEPT ![r] = "idle"]
  /\ cur' = [cur EXCEPT ![r] = 0]
  /\ upto' = [upto EXCEPT ![r] = 0]
  /\ UNCHANGED <<disks, slots, writer, floor>>

----------------------------------------------------------------------------
Snapshot(r) == Load(r) \/ TryRead(r) \/ Recheck(r) \/ NewSnapshot(r)

Next ==
  \/ \E n \in 1 .. MaxRecord : Commit(n) \/ Elsewhere(n)
  \/ CatchUp \/ PutEntry \/ MoveFrontier
  \/ \E f \in ends : Build(f)
  \/ Scan \/ WriteSlot \/ StoreSeq \/ StoreCurrent \/ Refused
  \/ \E r \in Readers :
       Begin(r) \/ Snapshot(r) \/ Drop(r)

Spec == Init /\ [][Next]_vars

\* A reader in snapshot() runs; nothing is assumed of the writer, which may
\* be descheduled anywhere, nor of how long a snapshot is kept.
FairSpec == Spec /\ \A r \in Readers : WF_vars(Snapshot(r))

----------------------------------------------------------------------------
(* Properties. *)

JobType ==
  [next : 0 .. Capacity, op : 0 .. MaxOps + 1, last : 0 .. MaxOps,
   built : ArenaType \cup {None}, at : 0 .. GenSlots]

\* Types; and the slot named by `current` is never empty nor being written,
\* which is why publish_new and served_seq cannot meet "slot busy".
RingTypeOK ==
  /\ ends \in SUBSET (0 .. MaxOps) /\ 0 \in ends /\ disk \in 1 .. MaxGen
  /\ inner \in [Slots -> ArenaType \cup {None}]
  /\ seq \in [Slots -> 0 .. MaxGen]
  /\ current \in Slots /\ inner[current] # None
  /\ locked \in (Slots \ {current}) \cup {None}
  /\ wpc \in {"idle", "entries", "scan", "write", "seq", "current"}
  /\ job \in JobType
  /\ rpc \in [Readers -> {"idle", "load", "try", "check", "new", "open"}]
  /\ cur \in [Readers -> Slots]
  /\ upto \in [Readers -> 0 .. Capacity]
  /\ floor \in [Readers -> [gen : 0 .. MaxGen, last : 0 .. MaxOps]]

\* A snapshot shows whole records and nothing missing below them, however
\* many commits, catch-ups and installs run while it is open: the ops folded
\* into its base, then every op up to the end of one record (publish moves
\* the frontier once, after the entries).
WholeRecords ==
  \A r \in Readers : rpc[r] = "open" =>
    LET a == inner[cur[r]] IN
    /\ \A i \in 0 .. upto[r] - 1 : a.at[i] = a.folded + i + 1
    /\ a.folded + upto[r] \in ends

\* What a snapshot shows is never ahead of what the handle serves: a slot
\* read as current and reused since is not taken for the served one before
\* the install that fills it is over (snapshot's second look at `current`).
NeverAhead ==
  \A r \in Readers : rpc[r] = "open" =>
    LET a == inner[cur[r]] IN
    /\ a.gen <= inner[current].gen
    /\ a.folded + upto[r] <= ServedSeq(current)

\* And it is no less than what was served when the call began, so no thread
\* sees the store go back, whoever took the snapshots it compares.
NeverBack ==
  [][\A r \in Readers : rpc[r] = "new" /\ rpc'[r] = "open" =>
       LET a == inner'[cur'[r]] IN
       /\ a.gen >= floor[r].gen
       /\ a.folded + upto'[r] >= floor[r].last]_vars

\* After reserve() said yes, publish cannot fail and allocates nothing: every
\* cell still to be written lies in a chunk that is there.
PublishFits ==
  wpc = "entries" =>
    \A k \in 0 .. job.last - job.op : Locate(job.next + k) \in inner[current].chunks

\* Both: what the writer's unwraps and indexing rely on.
RingInv == RingTypeOK /\ PublishFits

\* snapshot() returns, even when the writer is stopped in the middle of an
\* install or a publish: only a slot that is not served is ever locked.
SnapshotReturns == \A r \in Readers : rpc[r] = "try" ~> rpc[r] = "open"
============================================================================
