# TLA+ models of graph-r

graph-r is an embedded graph store: a directory with one immutable base image
(`graph.base`), one append-only log (`graph.wal`) and two lock files
(`graph.lock`, `graph.wait`), opened by any number of handles in any number of
processes. This directory models the part of it that is hard to test: what
several processes, crashes and failing disks do to the two files and to what
each handle serves, how writers take turns, what the ops they commit mean to a
reader before and after a compaction, how threads take snapshots while others
publish and install, how the Python binding's threads and transactions wait
for each other, and what walks and queries answer.

Paths below are relative to the repository; `store.rs`, `writer.rs`, ... are
under its `src/`.

## 1. Inventory

| Component | State | Operations | Properties that make it correct |
|---|---|---|---|
| Store directory and recovery (`store.rs`, `fsio.rs`) | `graph.base`, `graph.wal` | create, open, repair, torn-tail cut, fresh log | acknowledged commits survive; the log is never ahead of its base; a racing creator replaces nothing |
| Handle: catch-up (`store.rs`) | `Seen` (stamp, offset, generation), served generation | `reload_if_stale`, `sync`, `catch_up`, `reload_wal_tail`, `reload_full`, `install_or_apply` | serves a prefix of the committed history, never goes back, converges |
| Writer and transactions (`writer.rs`) | staged record, `next_seq`, `disk_generation`, `commits_since_sync` | stage, discard, `commit`, `transact`, `transact_with`, `append_held` | dense sequence numbers; a transaction reads the latest state; `Err` leaves nothing, `Ok` is durable |
| Compaction (`compact.rs`) | next generation number | `compact_locked`, inline or called | content unchanged; generation numbers never reused; safe between the renames |
| Log format (`format/wal.rs`) | records, torn tail, header generation | seal, scan, replay | only whole records are read |
| Commit lock (`store.rs`) | `graph.lock`, `graph.wait`, the handle's write mutex | `lock_within`, `CommitLock`, `try_*` | mutual exclusion, turns, nothing left locked, every call returns |
| Generation ring, overlay arena, snapshots (`store.rs`, `overlay.rs`, `snapshot.rs`) | 4 slots, arena frontier, pins | `install`, `reserve`, `publish`, `snapshot` | a record is seen whole or not at all; a pinned slot is not reused |
| Node fold (`overlay.rs`, `snapshot.rs`) | a patch per key, base records | fold of ops, `node`, `neighbors`, `in_edges`, `attrs`, `segments` | reads are those of the reference model; both ends of an edge agree; compaction is invisible |
| Queries, traversal, ranking, text (`query.rs`, `traverse.rs`, `rank.rs`, `text.rs`) | a thread's reused `Walk` and scratch buffers | `walk`, `walk_both`, `query`, `related` | a walk answers the nearest documents; a query gives every node its best score and fills its budget; nothing of one read is left for the next |
| Freshness (`ttl.rs`) | interval, counters | next interval, due | an unchanged page backs off; an identical one does not start over |
| Base format, container, mapping, hashing | byte images | parse, render | sequential codecs, fuzzed in the repository |
| Python binding (`bindings/python`) | gate, lock around the open store, a transaction's staged commands | plain writes and reads, `sync`, `with` blocks, `close` | no circle of waits; whatever fails gives back all it holds; a block commits what it answered |

How they interact. All processes meet in the two files and the two flocks.
Writers take the commit lock, catch up, repair, append, publish to their own
overlay, and unlock; readers and openers take no lock at all, so they read the
files at any point of somebody else's write or compaction. Threads of one
process meet in the handle's write mutex and in the ring: a snapshot pins the
slot it reads, and an install that finds every other slot pinned is refused.
Python threads meet, before all that, in the binding's gate and in the
read-write lock around the open store.

What is hard: unlocked reads racing two renames (base, then log); a stamp
(inode and length) trusted in place of the contents; torn records that the
next committer, in another process, has to cut; installs that are refused and
leave a handle one generation behind the disk; a transaction's ops, a kept
retry's ops and a dropped writer's ops in one buffer; waiting for an flock
inside a mutex; readers that pin a slot without a lock while it is being
replaced; a Python block that keeps gate and commit lock between calls; reads
that stop early (limit, hub, budget) or reuse a thread's buffers. `PROJECT.json` lists these as hazards, each at its line.

## 2. Modules

| Module | What it is |
|---|---|
| `GraphStore` | files, handles, commits, transactions, compaction, failures; its properties and fairness |
| `AbstractStore` | what a store promises: one growing history, views that are prefixes of it and never go back, an acknowledged part that power loss spares |
| `StoreRefinement` | the mapping from `GraphStore` to `AbstractStore` |
| `MCGraphStore` | symmetry for TLC |
| `CommitLock` | mutex, commit lock and turnstile, one step per flock call |
| `MCCommitLock` | two threads on one handle, a third on another |
| `NodeFold` | what ops mean: the fold into patches, the merged reads, compaction's rendering, staging from a view that may be behind |
| `MCNodeFold` | symmetry for TLC |
| `GenRing` | ring of generations, overlay arena, snapshots: one atomic access per step |
| `PyBinding` | the Python `Store` and `Transaction`: gate, store lock, mutex, commit lock, staged commands |
| `Walk` | `walk`, `walk_both` and the Python `walk` |
| `Query` | `query`, beside the walks (extends `Walk`) |
| `MCQuery` | four keys, two terms, small numbers for TLC |
| `GraphStoreProofs` | types, locking and generations of `GraphStore`: theorems and proofs |
| `HistoryProofs` | what its files and handles hold (extends `GraphStoreProofs`) |
| `PromiseProofs` | failed and batched commits, and the refinement (extends `HistoryProofs`, `StoreRefinement`) |
| `CommitLockProofs`, `NodeFoldProofs`, `GenRingProofs`, `PyBindingProofs`, `QueryProofs` (for `Walk` too) | theorems and proofs of their modules |

`GraphStore` and `NodeFold` share one boundary: the sequence of committed ops.
`GraphStore` shows that every handle serves a prefix of it and that bases hold
one; `NodeFold` takes that for granted (a commit appends at once, after
catching up) and shows what such a sequence means. `GenRing` opens up what
`GraphStore` does in one step inside a process: it shows that publishing and
installing look atomic to snapshots. `PyBinding` uses the commit lock and the
handle's mutex as `CommitLock` describes them, each as one lock. `Walk` and
`Query` read one snapshot, which does not change under them.

### GraphStore and the code

*Files.* `base` is `[gen, applied, ops]`: the generation and `wal_applied_seq`
of the header, and the ops folded in, in order. `wal` is its inode, header
generation, whole records (a sequence of ops with their sequence numbers;
`end` marks a record's last op), the bytes after them that are no record
(`torn`), and how many entries are fsynced. Inodes are two values used in
turn: a file written for a rename never has the inode of the one it replaces,
but may have that of an earlier one. Lengths are counted in units past the
header; an op is `OpLen` units.

*Handles.* Each handle is a process of its own; threads within one are
`CommitLock`'s subject. `pc[h]` is the point it has reached:

| `pc` | in the code |
|---|---|
| `closed`, `create`, `create_base` | `open_or_create`, `create`, `lay_down` |
| `stat`, `tail`, `map`, `read` | `catch_up` or `open_with` without the lock, between stat, stat, and the reads |
| `mend` | `repair_now` about to try the lock |
| `idle` | between calls |
| `sync` | lock held, `sync(repair)` next |
| `txn` | `run`: the transaction's body |
| `append`, `writing`, `written` | `append_held`: sealed; part of the record in the file; all of it, not yet fsynced |
| `fold`, `swap` | `compact_locked`: before the base rename; between it and the log's |

`served` is the generation the ring's current slot holds (base image plus
overlay), `seen` is `Seen`, `nextSeq`, `diskGen`, `staged`, `since` are the
fields of `WriteState`, `mark` is `run`'s local, `slots` counts filled ring
slots: once all are filled every other one may be pinned, so an install may be
refused or not. `acked` and `aborted` are ghosts: what callers were told.

*Steps.* Every write, rename and unlocked read is a step. Steps joined to
their neighbour only read under the lock, or only change the handle's memory:
`sync(repair = true)` is one step (`SyncRepair`), and so is what follows the
fsync in `append_held` (`AppendOk`).

*Failures.* `Crash` ends a process anywhere; `PowerLoss` ends all of them and
keeps the fsynced records, any whole records after them and possibly part of
the next. `AppendFaults` picks how appends fail: `short` (part way), `sync`
(at the fsync), `stuck` (and the cut-back fails as well). Renames are atomic
and durable once they return (`write_atomic` fsyncs file and directory).

*Bounds.* `Ops` (each staged once), `MaxGen`, `MaxMishaps`. `RACE_RETRIES` is
2 instead of 3 and `GEN_SLOTS` 2 or 4: the cases (retry, give up; slot free,
all pinned) are the same. `CompactAfter` 1 makes every commit a candidate for
inline compaction, 9 none. `TailRace` FALSE keeps a log from being replaced
between a reload's stats and its tail read; with it TRUE the finding of
`gs_tail_race` shows up in every run, so the other safety runs exclude that
window, and only that, and `gs_converges` includes it.

*Left out of it.* The content of ops (`NodeFold`), `compaction_due`, image
stores (no files: `open_image` and `reload_image` are `Build`, `CatchUp` and
`Refused` of `GenRing`), the arena's capacity (`GenRing`). A
`CommitLock` held across several `transact_with` calls is, for the files, the
same as those transactions in a row with nobody between them.

### CommitLock and the code

`lock_within` step by step: `Probe` (exclusive try on `graph.wait`),
`Unprobe`, `Try`, `Announce` (shared lock), `Retry`, `Won`, `GiveUp`; around
it `Enter` and `Leave` of the handle's mutex; after it `Release`, or for a
`CommitLock` `Span` (out of the mutex), `SpanCommit`, `SpanEnter`, `SpanDone`
(`transact_with`), `SpanDrop`. `Crash` ends a process and frees its flocks.
Sleeping is abstract: a pause ends at any time, except that a writer that
found waiters announced retries only after each of them did (`owed`). That is
the code's claim that "in [one full pause] every earlier waiter retries", and
it assumes `lock_wait` of at least `NAP_MAX` and a scheduler that keeps pauses
within it.

### NodeFold and the code

`base` is a model for each key it holds (`Model` in `compact.rs`: the record,
its edges, its parts), `patch` an `OverlayNode` for each key. `OverlayView::
build` folds the whole log every time; here a commit folds its ops into the
patch there is (`PatchesAfter`), which is the same for a left fold. `served[w]` is the pair a
handle reads, `staged[w]` its record buffer. `Node`, `Neighbors`, `PartOf`
(attributes and segments, which are replaced whole in the same way) and
`InEdges` are the merged reads; `Models` and `Rendered` are sections 1 to 3 of
`compact_locked`: models are read through the merge, references collected,
unreferenced stubs dropped, missing targets made stubs.

`touch` stages a whole record computed from the served node (and the last
staged upsert's hash, `StagedHash`); `set_pinned` asks a staged upsert or the served node. Calls
that return `false` change nothing. Labels, etags and times go with the hash
and the counters; edge types and weights with the edge. A stub's hash, 0, is
`None`: no caller's content hash is taken to be 0. A touch brings a hash only
with `changed`.

`ref` and `strict` are ghosts. `ref` is the reference model of
`tests/proptest_model.rs`, with counters, edges and parts added. It has
nothing to say of ops the documentation rules out, so `strict` turns FALSE
when a touch is staged on a handle that is behind, after other ops of its
batch or of a tombstone, when another handle's commit overtakes it, and when
anything but an upsert or a remove falls on no document.

### GenRing and the code

`inner`, `seq`, `current` are `GenSlot` and `Store::current`; a generation is
its number, the last op folded into its base, and its arena: what is in each
entry cell, the frontier, the chunks there are. `locked` is the slot whose
write lock `install` holds; a slot is read-locked by the readers that have it
(`Pinned`). The thread in the write mutex is `wpc` and `job`; it commits
(`Commit`: reserve, then the log, then the entries), catches up (`CatchUp`,
from a record boundary at or before what is served), or installs (`Build`,
`Scan`, `WriteSlot`, `StoreSeq`, `StoreCurrent`, or `Refused`, which publishes
the new base's log on the old base). `PutEntry` writes one entry,
`MoveFrontier` is the one store of the frontier. Readers go through `Begin`,
`TryRead`, `Recheck`, `NewSnapshot` and round again (`Load`). `floor` is a
ghost. Atomics are sequentially consistent here: the code's Relaxed accesses
are the writer's own or ordered by the frontier's Release and Acquire. One op
takes one entry; `CAPACITY` and the chunk sizes follow `BASE_CAP` and `CHUNKS`.

### PyBinding and the code

`pc[t]` follows one call from Python and back: `gate` or `begin`, `with` (the
read side of `open`), `mutex`, `lock`, `apply`, and back through `leave`,
`unlock`, `ungate`. `idle` and `body` are Python code outside and inside a
block. `Unwind` is where a call goes that cannot go on. The standard `RwLock`
lets a waiting writer hold back new readers; the model does so always
(`Closing`), the worse case for circles. A wait may end at any moment after
the first look, which covers every `lock_wait` and `wait`.

Commands are kept as the keys they are about and whether their labels,
segments and attributes are within the writer's limits (`fits`); `Note`,
`Passes`, `Answer` are `Staged` and `stage`, which look at documents only.
`Refused`, `Answered` and `Applied` are what `apply` makes of the same commands
at commit: a command is refused if its document is not there or its arguments
do not fit, and one refusal aborts the batch (`Apply`). `set_edges` has its
labels checked before it is a command, pin and remove have nothing to limit.
`CatchUpFails` is a lock taken, a catch-up under it that fails, and the lock
given back. A plain write over the limits takes the steps of one that fails in
`Apply`, so only blocks have such commands. For each key the store has a document, a stub or nothing;
compaction, inline or asked for, makes and drops stubs. `sync` is the crawl,
the ingest and a compaction; the first two are the bridge's, which is not in
this repository, so the ingest may absorb any documents. A transaction is used
from the thread that entered it.

### Walk, Query and the code

The snapshot is any assignment of kinds to keys and classes to edges, within
the bounds (`Odd`, `MostOdd`: keys that are not plain documents of the base;
`WalkEdges`, `QueryEdges`). `Step` is one call of the closure `step` in
`walk_along` that gets past `seen`: one edge of the node at hand, outbound
ones first and otherwise in any order (they come in the order of url hashes).
`NodeDone` goes on to the next node of the frontier, `NextLevel` ends a level;
`Visit` is the closure of the Python `walk`, `SortWalk` its last lines. The
`Walk` starts full of what an earlier call left. A sorted list is the listing
of a set in the order of a relation (`InOrder`): the code's sorts are by keys
that never tie.

`ScoreTerm`, `SelectSeeds`, `ExpandEntry`, `NextHop`, `Rank`, `Pack` are the
sections of `query`. `Pack` is one round of the loop that fills the answer:
`rest` is what its iterator has left, `spent` its running total, which is a
`u32` and wraps at `TokenWrap` (2^32) in a release build; `PackDone` is its
`break`, or the end of the list. The `continue` on a missing node has no step:
candidates are nodes of the snapshot they are looked up in. What words a document has is a table (`MatchOf`), the idf another,
the rank a third. Scores are integers: a factor such as `0.6` is a ratio, and a
score is scaled by the denominators still to come, so comparisons are those of
exact arithmetic; rounding of `f32` is left out. `MinHub` is 3 instead of 8,
so that four keys can have a hub. `hub_threshold`'s percentile is the least
degree that enough nodes do not exceed. `Sums` are the running totals of a
loop. Documents are of the base (`doc`), with a tombstone in the base (`tomb`)
or only in the overlay (`gone`), removed in the overlay, only in the overlay
(`fresh`), or stubs.

## 3. Runs

| Run | Question | Result |
|---|---|---|
| `gs_two_writers` | two writers, two ops, two compactions, one crash, power loss or failed write | `TypeOK`, `Durable`, `ServedPrefix`, `TxnReadsLatest`, `SequencesDense`, `LogNeverAhead`, `AbortedLeaveNothing`, `EqualStampNothingNew` hold |
| `gs_ring` | three compactions with two slots, installs refused at will, `Batch(2)` | `OwnCommitsVisible`, `GenerationNamesBase`, `BatchWindow`, `ReadsMonotone`, `GenerationsRise` hold |
| `gs_implements` | from no store at all, does the code implement `AbstractStore`? | `StoreInv`, `ImplementsStore` hold |
| `gs_converges` | a polling reader beside a committing and compacting writer | `Converges` holds |
| `lock_turns` | three threads, two handles, four calls, one crash | `LockInv`, `NothingLeftLocked`, `NoQueueJumping`, `CallsReturn` hold |
| `nf_agrees` | two handles, two keys, three ops of any kind in batches of up to two, two compactions; or one document by one handle, four ops | `FoldTypeOK`, `BaseClosed`, `InOutAgree`, `AgreesWithModel`, `CompactionTransparent` hold |
| `ring_snapshots` | a reader, a ring of two slots, an arena of three cells in two chunks, commits of one or two ops | `RingInv`, `WholeRecords`, `NeverAhead`, `NeverBack`, `SnapshotReturns` hold |
| `py_calls` | two Python threads, four calls beside a block's end, blocks of up to three commands, another process | `NoWaitCycle`, `BindingInv`, `StagedHolds`, `BlockIsolated`, `EveryCallReturns` hold |
| `reads` | every walk from one key and three queries, over every snapshot of four keys and up to three edges | `ReadsInv`, `NearestDocuments`, `HopsTrue`, `ArrivalIsBest`, `AnswerFits` hold |
| `gs_log_alias`, `gs_tail_race`, `nf_pin_waits` | the findings below | violated |

Why the bounds are enough to be interesting. Two handles are a committer and
everyone else; the third process of a scenario can always be a handle that
crashed and opened again, except in `gs_log_alias`, which has three. Two ops
give two records, or one record of two ops, so both order and atomicity can go
wrong; three generations give a handle that is two behind, and a log inode
that comes back. `OpLen` 2 with `TornLens` {1} keeps torn tails and records of
different length; `gs_log_alias` makes them equal on purpose.

`nf_agrees` has two keys because stubs and inbound edges need a second one,
and two handles for the stale view; three ops make, for instance, an upsert,
its edges and their replacement on both sides of a compaction. Longer
histories matter per key only, so with one key and one handle in use
(`OneHistory`) there may be four ops (`MaxHistory`): upsert, touch, remove and
upsert again, in any order. Attributes and segments are read and replaced by
the same operators, so one part stands for both. `CountMax` is 1 or 2 so that the saturating counters do saturate; `BaseS` 4
within 1..9 lets an interval grow, be cut and meet both ends.

`ring_snapshots` has a ring of two slots so that the third generation reuses
the first one's and one pin is enough to refuse an install (readers meet
only in their pins, so one stands for all), and an arena that two records fill, so that reservations
cross chunks and are refused. `py_calls` has two threads: a circle of waits
over the four locks needs two, and a third only queues behind them; one key is
enough because a command's checks are per key, and three commands make a
document added, removed and pinned in one block; a command over the limits may
be any of a block's. `reads` has three edges on four keys: two paths to one
node, a path through a hub, a level that a limit cuts, a cycle. Its queries
have budgets of 2 and of 5 with `TokenWrap` 6, so that answers end by budget
and by limit, a later entry would still have fitted, and totals come up to the
wrap and go past it. `AnswerFits` claims the limit, the order and that nothing
is passed over always, the budget only while the total does not wrap
(`NoWrap`).

Handles and ops are symmetric wherever all handles are writable; the run with
liveness (`gs_converges`) and those of `CommitLock` use no symmetry. Deadlock
is checked in the store's runs; `CommitLock` stops once its calls are used up, and
`NodeFold`, `PyBinding` and `reads` once theirs are.

*Fairness.* Nobody has to stage, commit or compact. `gs_converges` assumes
that a call which has begun goes on (`Finish`) and that handles keep calling
`reload_if_stale` (`Load`), which is how a read-only handle is documented to
follow the store. `CallsReturn` assumes that threads run and that waiting ends
(`GiveUp`), because `lock_wait` is finite; a caller that loops on `Locked`
without dropping its `Writer` is outside it. `SnapshotReturns` assumes only
that the thread in `snapshot()` runs: the writer may be descheduled anywhere,
for good, and snapshots may be kept for ever. `EveryCallReturns` assumes that
threads inside calls run; blocks need not end, and another process may keep
the commit lock, so it rests on the finite waits again.

## 4. Findings

* `gs_log_alias` (`store.rs:907`). A handle saw the log with a torn tail of n
  bytes; another committer cut it and appended a record of exactly n bytes.
  Inode and length are what they were, the stamp is equal, catch-up is
  skipped, and the handle's own commit reuses a sequence number; its repair
  cuts the other's acknowledged record off. The comment on `Stamp` excludes
  this ("never rewritten in place to the same length").
* `gs_tail_race` (`store.rs:937`). `reload_wal_tail` opens the log by path
  after the stats, and may read a later generation's log at an old offset: it
  publishes records above a gap. The next catch-up normally repairs that by
  installing the new base; with every other slot pinned, `install_or_apply`
  takes the last sequence number as proof that all below it is served, and a
  compaction folds the gap into the base.
* `nf_pin_waits` (`writer.rs:421`). `set_pinned` looks at the committed
  document and not at a remove staged before it: `remove(k)`, `set_pinned(k)`
  in one batch leave a pin on a removed entry, and the next upsert of `k`, not
  pinned itself, reads as pinned. The same happens to a pin on a stub, and to
  one staged on a handle that has not seen another's remove.

Known divergences without a run of their own:

* `writer.rs:538`: when the fsync fails the record is whole in the file until
  it is cut, and a reload in between serves it for good, though "`Err` means
  nothing was appended and nothing published" (`writer.rs:457`). `GraphStore`
  has it: with `AppendFaults` = {"sync"} `AbortedLeaveNothing` is violated.
* `snapshot.rs:340`: the interval learned by a touch is kept across an
  identical upsert only if a compaction put it into the base; otherwise the
  upsert drops the touch and the interval is `base_s` again, though "a
  re-absorb of an identical page must not reset backoff" (`snapshot.rs:328`).
* `bindings/python/src/lib.rs:1413`: `stage` "returns what the write will
  return at commit", but a pin of a document the block has added and removed
  again answers `False` when staged and succeeds at commit, because
  `Writer::set_pinned` finds the staged upsert (`AddedThenRemoved`). And
  `touch` and `pin` of a stub answer `True`, where the documentation says
  `False` for what "is not a committed document" (`lib.rs:1036`).
* `bindings/python/src/lib.rs:574`: "The checks a command must pass before it
  is staged: argument validation is a `ValueError`, a missing document a
  `GraphRError`", and `lib.rs:1413` as above. Staging `add`, `touch` and `set_attrs` looks at documents
  only. Labels, segments, an etag or attributes over the limits
  (`writer.rs:200`, `writer.rs:317`, `wal.rs:276`) answer when staged and are
  refused by `apply` at commit, which aborts the whole block; the same call
  outside a block raises at once (`test_lineage.py:330`). `StagedHolds` states
  it: at commit only such commands are refused.
* `query.rs:465`: `spent` and a document's tokens are added in `u32`. With a
  budget near the largest and as many tokens of documents the sum wraps, and
  the answer goes past its budget (a debug build panics instead).
* `query.rs:435`: a document tombstoned since the last compaction can still be
  a hit: only the base's flag is looked at. A document removed since can still
  take a seed's place.
* `query.rs:330`: a term of two bytes matches a document of the overlay as a
  substring, and no longer does once it is compacted (`query.rs:169`).
* `store.rs:657`: `generation()` reads `current` and then that slot's `seq`;
  with installs between the two it can name a generation before it is served.
* `Store::compact` on a handle whose dropped writer left ops staged trips
  `debug_assert!` at `compact.rs:84`.
* Two no-wait callers that probe the turnstile at once exclude each other, and
  one is told `Locked` with the lock free (`store.rs:251`); a `lock_wait`
  below `NAP_MAX` cuts a queued writer's pause short, so that it can pass
  waiters (`store.rs:286`).
* Gone and then unchanged revives a document unless a compaction came between
  (`snapshot.rs:402`); edges or parts set on a key that is no node can be read
  until a compaction drops them.

## 5. Proofs

TLAPS proves the following for all values of the constants that satisfy the
named assumptions of the modules: `ConstantsOK`, `NoneIsFresh`,
`NoneIsNoRecord` (`GraphStore`), `NoneIsNoView` (`StoreRefinement`),
`LockConstants` (`CommitLock`), `RingConstants`, `NoneIsNoArena` (`GenRing`),
`BindingConstants` (`PyBinding`), `TtlOK`, `FoldConstants`, `NoneIsNothing`
(`NodeFold`), `WalkConstants` (`Walk`), `QueryConstants` (`Query`). The last
two give types and signs: keys are finitely many and ordered, tiers fall from
exact to substring and are positive, idf is positive (`max(0.1)` in the code),
costs, ranks, limits and budgets are naturals, costs and budgets below
`TokenWrap`. Nothing is assumed of the
snapshot, and `Odd`, `MostOdd`, `WalkEdges`, `QueryEdges` may be anything, so
the theorems hold of snapshots of any size. The `None` assumptions say only that `None` is none of the values
it stands beside, `TtlOK` that a configuration's floor is not above its
ceiling; TLC evaluates all of them. Every inductive invariant below was an
invariant of a TLC run before it was proved.

| Theorem | Property | Conditions |
|---|---|---|
| `CommitLockProofs`: `LockInvariant`, `NothingStaysLocked`, `TurnsAreKept` | `LockInv`, `NothingLeftLocked`, `NoQueueJumping` | |
| `GraphStoreProofs`: `StoreInvariant`, `TypesHold`, `LogStaysBehind`, `BasesRise` | `StoreInv`, `TypeOK`, `LogNeverAhead`, `GenerationsRise` | |
| `HistoryProofs`: `HistoryInvariant`, `ServedPrefixTheorem`, `SequencesDenseTheorem`, `TxnReadsLatestTheorem`, `EqualStampTheorem`, `GenerationNamesBaseTheorem`, `ReadsMonotoneTheorem`, `OwnCommitsVisibleTheorem` | `HistInv`, `ServedPrefix`, `SequencesDense`, `TxnReadsLatest`, `EqualStampNothingNew`, `GenerationNamesBase`, `ReadsMonotone`, `OwnCommitsVisible` | `Sheltered` |
| `HistoryProofs`: `DurableTheorem` | `Durable` | `Sheltered`, `SyncEvery` = 1 |
| `PromiseProofs`: `AbortedTheorem`, `BatchWindowTheorem` | `AbortedLeaveNothing`, `BatchWindow` | `Sheltered` |
| `PromiseProofs`: `RefinementTheorem` | `ImplementsStore` | `Sheltered`, `SyncEvery` = 1 |
| `GenRingProofs`: `RingTheorem`, `WholeRecordsTheorem`, `NeverAheadTheorem`, `NeverBackTheorem` | `RingInv`, `WholeRecords`, `NeverAhead`, `NeverBack` | |
| `PyBindingProofs`: `BindingTheorem`, `StagedTheorem`, `BlockIsolatedTheorem`, `NoWaitCycleTheorem` | `BindingInv`, `StagedHolds`, `BlockIsolated`, `NoWaitCycle` | |
| `QueryProofs`: `HopsTrueTheorem`, `NearestTheorem`, `ReadsInvTheorem`, `ArrivalTheorem`, `AnswerTheorem` | `HopsTrue`, `NearestDocuments`, `ReadsInv`, `ArrivalIsBest`, `AnswerFits` | |
| `NodeFoldProofs`: `BasesClosed`, `InOutHolds`, `CompactionIsTransparent`, `FoldTypes`, `ModelAgreement` | `BaseClosed`, `InOutAgree`, `CompactionTransparent`, `FoldTypeOK`, `AgreesWithModel` | |

`CommitLockProofs`. Neither property is inductive. `LockInv` adds `Discipline`,
which ties each of the four locks to the exact set of steps at which it is held
(without it an unlock could be somebody else's), and `Turns`: a writer whose
probe succeeded had nobody ahead; one whose probe failed is either still to
announce or stands back for at least those ahead; and everyone ahead is still
napping. One step per action; `GiveUp` and `Crash` share `Withdraw`.

`GraphStoreProofs`. That the log is never ahead needs to know which generation
a handle may write into a fresh log: its `seen.gen`, or its compaction's. So
`StoreInv` has, besides the types:

* `Defined`: whatever a step dereferences is there (a live handle serves a
  generation, an append has a stamp to extend, a base has a log);
* `Exclusive`: `lock = h` exactly where `h` is under the lock, so nobody else
  replaces base or log between a catch-up and the write it was for;
* `Generations`: all a handle has heard of (stamp, mapped base, `seen.gen`) is
  at most the base's generation, and one that caught up under the lock has
  `diskGen` at least the base's. The last part is why `compact_locked` counts
  from `disk_generation` and not from what it serves; it gives `BasesRise`.

Below it are lemmas on each operator (`Above`, `CutTo`, `Sealed`, `Build`,
`TailRead`, `SeenOf`, `RepairedSeen`, ...: what they return is of its type, and
`Above`'s least index exists) and one lemma per action.

`HistoryProofs`. The contents. Three things refute these properties, each shown
by a finding: a log replaced under a tail read (`TailRace`), a torn tail as
long as some records, and an fsync that fails after its record is in the file.
`Sheltered` excludes these and nothing else: `~TailRace`, `NoTornAlias` (no two
torn lengths differ by a whole number of ops), `"sync"` not among
`AppendFaults`. Crashes, power loss, short and stuck writes, refused installs,
any number of handles, ops, slots and retries remain. `gs_two_writers`,
`gs_ring` and `gs_implements` are instances of it. `HistInv`, on top of
`StoreInv`:

* `FilesOK`: the history is the base and, if it is the base's, the log,
  numbered on from it; a log left from an older base holds nothing that the
  base does not;
* for each handle `OpenOK` (what it serves has no gap, begins the history, and
  `next_seq` is one past it), `SeenOK` (a stamp that names the files there are
  bounds what the log held then by what the handle has read, which is why
  skipping is safe), `ProbeOK` (what the two stats of a reload promise its
  later read by path, though files are replaced in between), `LockOK` (a
  handle that caught up under the lock serves all there is, and its own record
  once written follows it).

An action does one of four things to the files: it leaves the records alone
(`Rests`), appends one (`Grows`), renders them into a newer base (`Folds`) or
replaces an old log by an empty one (`Renews`); power loss cuts the log. Each
part of `HandleOK` is shown to survive each kind of move for a handle that
stands still, so an action's own lemma is about its own handle only. With
`HistInv` in place `AckInv` (an acknowledged entry is served by its handle at
its number) and, with every commit fsynced, `SafeInv` (and lies in the part no
power loss takes, `Safe`) are inductive. With a batch larger than one `Durable`
is false by design; `BatchWindow` is what remains of it.

`PromiseProofs`. `UsedInv` says an op is staged in one place, that a staged op
is in the directory only when its own record was just written, and that an
aborted one is nowhere; `WindowInv` that the acknowledged records beyond `Safe`
are finite in number and no more than `since` counts. For the refinement,
`AbstractStore`'s variables are `HistNow` (what opening would serve), `SureNow`
(the highest number acknowledged) and `ViewsNow`. `WriteAll` is its `Record`
(`BusyInv`: a record is never empty), `AppendOk` its `Acknowledge`, `PowerLoss`
its own, and any other step changes at most one view: forward (`CatchUp`), to
none (`Close`), or not at all.

`GenRingProofs`. The invariant is `RingTypeOK`, `PublishFits` and four parts:
`ArenasInv` (every arena is whole up to its frontier, which is the end of a
record, and nothing in the ring is newer than the served one but a slot an
install has just filled), `EntriesInv` (a publish under way has written the
cells from the frontier on, and the rest fits), `InstallInv` (what is installed
is whole, newer, reaches the end of the log, and its slot is not the served
one), `ReadersInv` (a pinned slot is not written; from the second look at
`current` on, what a reader has pinned was served and is no less than what was
served when it began). The last is where the recheck in `snapshot()` is needed.

`PyBindingProofs`. The invariant is `BindingTypeOK`, `PcInv` (which call a
thread can be in at each step), `HoldersInv` (gate, commit lock, store lock and
mutex are held exactly there), `TicketsInv` (`writes` counts the plain writes
inside the gate, and a block has none beside it) and `StagedInv` (what a block
noted are its commands, and on the store as it is now they pass the document
check and answer as they did).
`NoWaitCycle` follows from `Rank`: every wait is for a thread of lower rank, so
in any set of threads the one of least rank waits for none of them.

`NodeFoldProofs`. The first three theorems hold for every patch whatsoever:
rendering makes a closed base of any models (`RenderedClosed`), over a closed
base the two ways to read edges agree (`InIsOut`), a model is what was read
(`ModelsRead`), a base without patches reads as its models (`Unpatched`), and
rendering loses no document (`RenderedKeeps`). `ModelAgreement` needs the fold.
`MatchInv` says that carried counters and severed keys occur only where
`OverlayView::build` puts them (`PatchOK`), that an observation staged as documented
is still the right one for what is on disk (`ObservedInv`), and that for each
key the reference document says field by field what is read (`Matches`); where
it has none there is a removed entry, or no patch over a stub or nothing. The
last is stronger than agreement on documents: it is what the next upsert will
inherit. `KeyFolds` is one op on one key, `BatchFolds` a batch.

`QueryProofs`, the walk. `WalkInv` is the invariant of a breadth-first search
that stops handing nodes on once it has enough:

* `ReachedInv`: every document seen but the start was reached, once, over a
  path as long as its depth says (exact if it says so) and no shorter one, and
  depths never fall along the list;
* `LevelInv`: whatever a path shorter than the depth leads to has been seen, as
  has whatever the nodes done so far lead to; and the frontier either is
  complete for its distance (`Complete`) or the limit was reached at that
  distance or before and nothing follows (`Enough`). This disjunction is the
  argument of the comment at `lib.rs:1237`;
* `SortInv`: a reachable document that was not reached is farther away than
  `limit` others.

`HopsTrue` follows at once. For `NearestDocuments` the reached hops are sorted:
a finite set has exactly one listing in a strict order (`InOrder` is that
listing), and a beginning of it of length `limit` contains whatever is nearer
than something in it.

`QueryProofs`, the query. `ScoreInv` says that the scratch holds, for each key,
the sum and the count of the terms scored so far, and that `scored` lists all
that is not zero: that is why clearing through `scored` clears everything
(`ReadsInv`). `SeedInv` says what the seeds are. The expansion is a
label-correcting search, cut off after `depth` rounds: a node can be improved
by a longer path after it was expanded, and is then expanded again. `Sound`:
every score in `arrival` and in both lists is that of a path, of the length
the round stands for in the lists. `Thorough`: every path of fewer edges than
the round has been matched or bettered at its end, and each edge out of such
an end has either been followed with as good a score or is still pending; the
same for the scores nodes have now. At the last round this gives `Settled`, and
with it `ArrivalIsBest`. That a longer path divides by `PerHop` without
remainder is a lemma on `Scale` and `Products`; rounding in `f32` is outside
the model. `Packing` is the invariant of the loop that fills the answer: the
answer and `rest` are the two parts of the ranking, and while nothing wraps
`spent` is what the answer costs and within the budget (`NextEntry`,
`TokensGrow`). `PackKeeps` is one round, `PackedFits` the end of the loop.

Induction. The library's induction rules take an operator and cannot be used;
where a proof needs induction over naturals (a batch folded op by op, the
chunks' sizes, running sums, the values a recursive function takes) it takes the least
counterexample instead, which exists by `WFMin` and
`NatLessThanWellFounded`. `PatchesAfter`, `RefsAfter` and `ChunkCap` are
recursive functions rather than folds so that this works; lemmas such as
`PatchesAfterIs` show that a function with the recursion's equation exists.

Only model-checked: liveness (`Converges`, `CallsReturn`, `SnapshotReturns`,
`EveryCallReturns`), because fairness and `ENABLED` are outside what the prover
supports. Every other property of the passing runs is a theorem.

## 6. Not modelled, and the plan

Not modelled: byte layouts, checksums and validation of base, log and
container (sequential codecs, fuzzed in the repository); `related`,
`best_anchor`, `due` and `next_check_at_ms` (sorted lists of what is read);
pagerank, tokenising and the rounding of scores (numeric); the conversion of
arguments and results in the binding; the bridge and crawler behind `sync`,
which are other crates; plain types; mapping and hashing.

Order of the work:

1. done: `GraphStore`, `AbstractStore`, `CommitLock`, `NodeFold`, their runs
   and theorems;
2. done: `GenRing`, `PyBinding`, `Walk`, `Query` and their runs;
3. done: proofs for `GenRing`, `PyBinding`, the contents of `GraphStore`, its
   refinement, and `NodeFold`'s agreement with the reference model;
4. done: proofs for `Walk` and `Query`;
5. open: `related` and `best_anchor` as operators beside `Query`; the retries
   of a crawler around `due` and `touch`; the errors
   a log or base of another version raises.
