----------------------------- MODULE PyBinding -----------------------------
(***************************************************************************)
(* The Python Store object: its threads, its gate and its transactions.    *)
(*                                                                         *)
(* Every call runs detached from the interpreter, so Python threads wait   *)
(* for each other on four things: the gate (plain writes against an open   *)
(* transaction of this object), the read-write lock around the open store  *)
(* (calls against close()), the handle's writer mutex, and the commit lock *)
(* shared with other processes.  A transaction keeps the gate and the      *)
(* commit lock between its calls; its commands are checked when staged and *)
(* applied when the `with` block ends.                                     *)
(*                                                                         *)
(* The store says of every key whether it is a document, a stub (a link    *)
(* target compaction keeps a record of) or nothing.  A command has the keys *)
(* it is about and whether its arguments are within the writer's limits;   *)
(* what else it writes is NodeFold's subject.  A wait may end at any time  *)
(* past the first look, which covers every lock_wait.                      *)
(***************************************************************************)
EXTENDS Naturals, Sequences, FiniteSets

CONSTANTS
  Threads,  \* Python threads
  Keys,
  MaxCalls, \* bound on calls, transactions' calls included
  MaxCmds,  \* bound on the commands of one transaction
  MaxOther, \* bound on other processes' commits
  Other,    \* the other processes' writer
  None

ASSUME BindingConstants ==
  /\ MaxCalls \in Nat /\ MaxCmds \in Nat /\ MaxOther \in Nat
  /\ IsFiniteSet(Threads)
  /\ Other \notin Threads /\ None \notin Threads \cup {Other}

VARIABLES
  writes,  \* GateState.writes
  txn,     \* GateState.txn
  open,    \* PyStore.open holds the store
  inside,  \* the threads that hold its read side
  mutex,   \* Store.write
  flock,   \* the commit lock's holder
  store,   \* what is committed
  served,  \* what this handle serves
  pc, call,
  phase,   \* PyTransaction.phase of the thread's transaction
  cmds,    \* its commands, each with the answer it was given
  staged,  \* PyTransaction.staged: the documents they add and remove
  calls, others

vars == <<writes, txn, open, inside, mutex, flock, store, served, pc, call,
          phase, cmds, staged, calls, others>>

gate  == <<writes, txn>>
locks == <<inside, mutex, flock>>
data  == <<store, served>>
tx    == <<phase, cmds, staged>>
bound == <<calls, others>>

Goto(t, to) == pc' = [pc EXCEPT ![t] = to]

\* Where a thread runs Python code: outside a call, in a block or not.
Home(t) == IF phase[t] = "Open" THEN "body" ELSE "idle"

----------------------------------------------------------------------------
(* Commands. *)

Kinds == {"none", "stub", "doc"}

\* doc_url finds one; Snapshot::node finds one.
Documents(view) == {k \in Keys : view[k] = "doc"}
Nodes(view)     == {k \in Keys : view[k] # "none"}

\* set_attrs and set_edges: the node and, for edges, their destinations, whose
\* number and kinds edges_cmd has looked at.
Lineage == [op : {"lineage"}, keys : (SUBSET Keys) \ {{}}, fits : {TRUE}]

\* Arguments the writer refuses: a label (a url, a title, a segment, an etag) or
\* a set of segments or attributes over its limits.
OverLimits == [op : {"add", "touch", "lineage"}, keys : {{k} : k \in Keys}, fits : {FALSE}]

Cmds ==
  [op : {"add", "remove", "touch", "pin"}, keys : {{k} : k \in Keys}, fits : {TRUE}]
    \cup Lineage \cup OverLimits

\* Staged: the documents added and removed by the commands before.
NothingStaged == [added |-> {}, removed |-> {}]

Note(st, c) ==
  CASE c.op = "add"    -> [added |-> st.added \cup c.keys, removed |-> st.removed \ c.keys]
    [] c.op = "remove" -> [added |-> st.added \ c.keys, removed |-> st.removed \cup c.keys]
    [] OTHER           -> st

\* The last of the commands cs that adds or removes k is an op.
Latest(cs, op, k) ==
  \E i \in DOMAIN cs :
    /\ cs[i].op = op /\ k \in cs[i].keys
    /\ \A j \in DOMAIN cs : j > i /\ cs[j].op \in {"add", "remove"} => k \notin cs[j].keys

\* What commit(), noting one command after the other, has after cs.
Noted(cs) ==
  [added   |-> {k \in Keys : Latest(cs, "add", k)},
   removed |-> {k \in Keys : Latest(cs, "remove", k)}]

\* Staged::check, on a view.
Passes(st, view, c) ==
  c.op = "lineage" => c.keys \subseteq st.added \cup (Documents(view) \ st.removed)

\* What PyTransaction::stage answers to a command that passes: the arguments'
\* limits are not looked at.
Answer(st, view, c) ==
  CASE c.op = "touch" -> c.keys \subseteq Nodes(view)
    [] c.op = "pin"   -> c.keys \subseteq st.added \cup Nodes(view)
    [] OTHER          -> TRUE

\* What a command that is not refused answers at commit, after the commands
\* cs: a pin looks for any upsert staged in the batch (Writer::set_pinned).
Answered(cs, view, c) ==
  CASE c.op = "touch" -> c.keys \subseteq Nodes(view)
    [] c.op = "pin"   -> \/ c.keys \subseteq Nodes(view)
                         \/ \E i \in DOMAIN cs : cs[i].op = "add" /\ cs[i].keys = c.keys
    [] OTHER          -> TRUE

\* apply(): the commands that fail their check, or that the writer refuses.
Refused(cs, view) ==
  {i \in DOMAIN cs : ~Passes(Noted(SubSeq(cs, 1, i - 1)), view, cs[i]) \/ ~cs[i].fits}

\* What the commands make of a view.
Applied(cs, view) ==
  [k \in Keys |-> CASE k \in Noted(cs).removed -> "none"
                    [] k \in Noted(cs).added   -> "doc"
                    [] OTHER                   -> view[k]]

\* Compaction, asked for or past a commit's thresholds: the keys some edge
\* points at become stubs, the others are dropped.
Compacted(view) ==
  {f \in [Keys -> Kinds] : \A k \in Keys : IF view[k] = "doc" THEN f[k] = "doc" ELSE f[k] # "doc"}

----------------------------------------------------------------------------
NoCall == [kind |-> "none", cmd |-> None]

Init ==
  /\ writes = 0 /\ txn = None
  /\ open = TRUE /\ inside = {}
  /\ mutex = None /\ flock = None
  /\ store \in [Keys -> Kinds] /\ served = store
  /\ pc = [t \in Threads |-> "idle"]
  /\ call = [t \in Threads |-> NoCall]
  /\ phase = [t \in Threads |-> "New"]
  /\ cmds = [t \in Threads |-> <<>>]
  /\ staged = [t \in Threads |-> NothingStaged]
  /\ calls = 0 /\ others = 0

\* A thread calls a method; c is the command of a write or of a stage.
Call(t, kind, c, to) ==
  /\ pc[t] = Home(t) /\ calls < MaxCalls
  /\ calls' = calls + 1
  /\ call' = [call EXCEPT ![t] = [kind |-> kind, cmd |-> c]]
  /\ Goto(t, to)
  /\ UNCHANGED <<gate, open, locks, data, tx, others>>

\* add, touch, pin, unpin, remove, set_edges, set_attrs.  A write over the
\* limits is no case of its own: it takes the same steps, and Apply's failing.
Write(t) == \E c \in Cmds : c.fits /\ Call(t, "write", c, "gate")

Compact(t) == Call(t, "compact", None, "gate")

\* sync(), its arguments in order.
Sync(t) == Call(t, "sync", None, "gate")

\* query, related, due, out_edges, in_edges, walk, attrs, urls, generation,
\* len, on the store itself or through its open transaction.
Read(t) == Call(t, "read", None, "with")

ReloadIfStale(t) == Call(t, "reload", None, "with")

Close(t) == Call(t, "close", None, "close")

\* store.transaction() and __enter__, inside a block too.
EnterTxn(t) == Call(t, "enter", None, "begin")

Stage(t) ==
  /\ phase[t] = "Open" /\ Len(cmds[t]) < MaxCmds
  /\ \E c \in Cmds : Call(t, "stage", c, "with")

\* __exit__: with nothing staged, or on an exception, there is no commit.
ExitTxn(t) ==
  /\ pc[t] = "body"
  /\ phase' = [phase EXCEPT ![t] = "Done"]
  /\ call' = [call EXCEPT ![t] = [kind |-> "exit", cmd |-> None]]
  /\ \/ Goto(t, "unlock")
     \/ cmds[t] # <<>> /\ Goto(t, "with")
  /\ UNCHANGED <<gate, open, locks, data, cmds, staged, bound>>

----------------------------------------------------------------------------
(* The gate. *)

\* Mutation: plain writes do not wait for the transaction.
GateWriteAlways(t) ==
  /\ pc[t] = "gate"
  /\ writes' = writes + 1 /\ Goto(t, "with")
  /\ UNCHANGED <<call, txn, open, locks, data, tx, bound>>

\* Gate::write: refused in the transaction's own thread, else waits for it.
GateWrite(t) ==
  /\ pc[t] = "gate"
  /\ \/ txn = None /\ writes' = writes + 1 /\ Goto(t, "with") /\ UNCHANGED call
     \/ txn = t /\ Goto(t, Home(t)) /\ call' = [call EXCEPT ![t] = NoCall] /\ UNCHANGED writes
  /\ UNCHANGED <<txn, open, locks, data, tx, bound>>

\* Gate::begin: waits for the transaction and for the plain writes; blocks
\* of one thread do not nest.
GateBegin(t) ==
  /\ pc[t] = "begin"
  /\ \/ txn = None /\ writes = 0 /\ txn' = t /\ Goto(t, "with") /\ UNCHANGED call
     \/ txn = t /\ Goto(t, Home(t)) /\ call' = [call EXCEPT ![t] = NoCall] /\ UNCHANGED txn
  /\ UNCHANGED <<writes, open, locks, data, tx, bound>>

\* Mutation: the wait has no end.
GateGiveUpNever(t) == FALSE

\* wait_until_free: LockedError past the wait.
GateGiveUp(t) ==
  /\ \/ pc[t] = "gate" /\ txn \notin {None, t}
     \/ pc[t] = "begin" /\ txn # t /\ (txn # None \/ writes > 0)
  /\ Goto(t, Home(t)) /\ call' = [call EXCEPT ![t] = NoCall]
  /\ UNCHANGED <<gate, open, locks, data, tx, bound>>

----------------------------------------------------------------------------
(* The store behind its read-write lock. *)

\* A waiting close() holds back new readers.
Closing == \E t \in Threads : pc[t] = "close"

\* Where a call goes next once it cannot go on: what it holds is given back
\* in the order it was taken, last first.
Unwind(kind) ==
  CASE kind \in {"write", "compact", "sync", "enter"} -> "ungate"
    [] kind = "exit" -> "unlock"
    [] OTHER         -> "return"

\* PyStore::with.
With(t) ==
  /\ pc[t] = "with" /\ ~Closing
  /\ \/ /\ open
        /\ inside' = inside \cup {t}
        /\ Goto(t, CASE call[t].kind \in {"read", "reload", "stage"} -> call[t].kind
                     [] call[t].kind = "sync" -> "crawl"
                     [] OTHER -> "mutex")
     \/ /\ ~open /\ UNCHANGED inside
        /\ Goto(t, Unwind(call[t].kind))
  /\ UNCHANGED <<gate, open, mutex, flock, data, call, tx, bound>>

\* close(): waits for the calls in flight, then drops the store.
Closed(t) ==
  /\ pc[t] = "close" /\ inside = {}
  /\ open' = FALSE /\ Goto(t, "return")
  /\ UNCHANGED <<gate, locks, data, call, tx, bound>>

\* A read sees what the handle serves.
ReadView(t) ==
  /\ pc[t] = "read" /\ Goto(t, "leave")
  /\ UNCHANGED <<gate, open, locks, data, call, tx, bound>>

\* A reload leaves it to whoever is in the writer mutex.
Reload(t) ==
  /\ pc[t] = "reload" /\ Goto(t, "leave")
  /\ served' = IF mutex = None THEN store ELSE served
  /\ UNCHANGED <<gate, open, locks, store, call, tx, bound>>

\* PyTransaction::stage: check against the view, keep the command.
StageCmd(t) ==
  LET c  == call[t].cmd
      st == staged[t]
  IN
  /\ pc[t] = "stage" /\ Goto(t, "leave")
  /\ \/ /\ Passes(st, served, c)
        /\ cmds' = [cmds EXCEPT ![t] = Append(@, [op |-> c.op, keys |-> c.keys,
                      fits |-> c.fits, answer |-> Answer(st, served, c)])]
        /\ staged' = [staged EXCEPT ![t] = Note(@, c)]
     \/ ~Passes(st, served, c) /\ UNCHANGED <<cmds, staged>>
  /\ UNCHANGED <<gate, open, locks, data, call, phase, bound>>

\* sync(): the crawl, before anything is written; it may fail.
Crawl(t) ==
  /\ pc[t] = "crawl" /\ \E to \in {"mutex", "leave"} : Goto(t, to)
  /\ UNCHANGED <<gate, open, locks, data, call, tx, bound>>

----------------------------------------------------------------------------
(* Writing: the handle's mutex, then the commit lock. *)

TakeMutex(t) ==
  /\ pc[t] = "mutex" /\ mutex = None
  /\ mutex' = t
  /\ Goto(t, IF call[t].kind = "exit" THEN "apply" ELSE "lock")
  /\ UNCHANGED <<gate, open, inside, flock, data, call, tx, bound>>

\* Mutation: the handle is not caught up under the lock.
TakeLockStale(t) ==
  /\ pc[t] = "lock" /\ flock = None
  /\ flock' = t
  /\ \/ /\ call[t].kind = "enter"
        /\ phase' = [phase EXCEPT ![t] = "Open"] /\ Goto(t, "leave")
     \/ call[t].kind # "enter" /\ Goto(t, "apply") /\ UNCHANGED phase
  /\ UNCHANGED <<gate, open, inside, mutex, data, call, cmds, staged, bound>>

\* Mutation: __enter__ gives the lock back once it has caught up.
TakeLockBriefly(t) ==
  /\ pc[t] = "lock" /\ flock = None
  /\ served' = store
  /\ \/ /\ call[t].kind = "enter" /\ UNCHANGED flock
        /\ phase' = [phase EXCEPT ![t] = "Open"] /\ Goto(t, "leave")
     \/ call[t].kind # "enter" /\ flock' = t /\ Goto(t, "apply") /\ UNCHANGED phase
  /\ UNCHANGED <<gate, open, inside, mutex, store, call, cmds, staged, bound>>

\* acquire, or commit_lock_within; both catch the handle up under the lock.
TakeLock(t) ==
  /\ pc[t] = "lock" /\ flock = None
  /\ flock' = t /\ served' = store
  /\ \/ /\ call[t].kind = "enter"
        /\ phase' = [phase EXCEPT ![t] = "Open"] /\ Goto(t, "leave")
     \/ call[t].kind # "enter" /\ Goto(t, "apply") /\ UNCHANGED phase
  /\ UNCHANGED <<gate, open, inside, mutex, store, call, cmds, staged, bound>>

\* The catch-up under the lock fails, having served it or not, and the lock is
\* given back.
CatchUpFails(t) ==
  /\ pc[t] = "lock" /\ flock = None
  /\ served' \in {served, store} /\ Goto(t, "leave")
  /\ UNCHANGED <<gate, open, locks, store, call, tx, bound>>

\* Locked: the wait for another writer is over.
LockGiveUp(t) ==
  /\ pc[t] = "lock" /\ flock # None
  /\ Goto(t, "leave")
  /\ UNCHANGED <<gate, open, locks, data, call, tx, bound>>

\* The commands a call applies: its own, or its transaction's.
Batch(t) ==
  CASE call[t].kind = "write" -> <<call[t].cmd>>
    [] call[t].kind = "exit"  -> cmds[t]
    [] OTHER                  -> <<>>

\* transact, transact_with, compact: append and publish, or fail with nothing
\* written, as when any command is refused.  A plain call releases the commit
\* lock at once.  sync's ingest (the bridge, not in this repository) absorbs
\* any documents, then compacts.
Apply(t) ==
  /\ pc[t] = "apply"
  /\ \/ /\ Refused(Batch(t), store) = {}
        /\ \E absorbed \in (IF call[t].kind = "sync" THEN SUBSET Keys ELSE {{}}) :
            LET after == [k \in Keys |-> IF k \in absorbed THEN "doc"
                                         ELSE Applied(Batch(t), store)[k]]
            IN  store' \in {after} \cup Compacted(after)
     \/ UNCHANGED store
  /\ served' = store'
  /\ flock' = IF call[t].kind = "exit" THEN flock ELSE None
  /\ IF call[t].kind = "sync"
       THEN Goto(t, "mutex") /\ mutex' = None /\ call' = [call EXCEPT ![t].kind = "compact"]
       ELSE Goto(t, "leave") /\ UNCHANGED <<mutex, call>>
  /\ UNCHANGED <<gate, open, inside, tx, bound>>

\* The mutex's and the store's guards are dropped.
Leave(t) ==
  /\ pc[t] = "leave"
  /\ inside' = inside \ {t}
  /\ mutex' = IF mutex = t THEN None ELSE mutex
  /\ Goto(t, IF call[t].kind = "enter" /\ phase[t] = "Open" THEN "return"
             ELSE Unwind(call[t].kind))
  /\ UNCHANGED <<gate, open, flock, data, call, tx, bound>>

\* __exit__ drops the commit lock.
Unlock(t) ==
  /\ pc[t] = "unlock"
  /\ flock' = IF flock = t THEN None ELSE flock
  /\ Goto(t, "ungate")
  /\ UNCHANGED <<gate, open, inside, mutex, data, call, tx, bound>>

\* Mutation: an __enter__ that fails leaves the gate to its thread.
UngateWrites(t) ==
  /\ pc[t] = "ungate" /\ Goto(t, "return")
  /\ IF call[t].kind \in {"enter", "exit"}
       THEN txn' = (IF call[t].kind = "exit" THEN None ELSE txn) /\ UNCHANGED writes
       ELSE writes' = writes - 1 /\ UNCHANGED txn
  /\ UNCHANGED <<open, locks, data, call, tx, bound>>

\* Gate::end, or the ticket is dropped.
Ungate(t) ==
  /\ pc[t] = "ungate" /\ Goto(t, "return")
  /\ IF call[t].kind \in {"enter", "exit"}
       THEN txn' = None /\ UNCHANGED writes
       ELSE writes' = writes - 1 /\ UNCHANGED txn
  /\ UNCHANGED <<open, locks, data, call, tx, bound>>

\* Back in Python; a transaction that is over is forgotten.
Return(t) ==
  /\ pc[t] = "return"
  /\ call' = [call EXCEPT ![t] = NoCall]
  /\ IF phase[t] = "Open"
       THEN Goto(t, "body") /\ UNCHANGED tx
       ELSE /\ Goto(t, "idle")
            /\ phase' = [phase EXCEPT ![t] = "New"]
            /\ cmds' = [cmds EXCEPT ![t] = <<>>]
            /\ staged' = [staged EXCEPT ![t] = NothingStaged]
  /\ UNCHANGED <<gate, open, locks, data, bound>>

----------------------------------------------------------------------------
(* Other processes. *)

OtherLock ==
  /\ flock = None /\ others < MaxOther
  /\ flock' = Other /\ others' = others + 1
  /\ UNCHANGED <<gate, open, inside, mutex, data, pc, call, tx, calls>>

OtherCommit ==
  /\ flock = Other
  /\ flock' = None /\ store' \in [Keys -> Kinds]
  /\ UNCHANGED <<gate, open, inside, mutex, served, pc, call, tx, bound>>

----------------------------------------------------------------------------
Calls(t) ==
  \/ Write(t) \/ Compact(t) \/ Sync(t) \/ Read(t) \/ ReloadIfStale(t) \/ Close(t)
  \/ EnterTxn(t) \/ Stage(t) \/ ExitTxn(t)

\* A step of a call in progress.
Step(t) ==
  \/ GateWrite(t) \/ GateBegin(t) \/ GateGiveUp(t)
  \/ With(t) \/ Closed(t) \/ ReadView(t) \/ Reload(t) \/ StageCmd(t) \/ Crawl(t)
  \/ TakeMutex(t) \/ TakeLock(t) \/ CatchUpFails(t) \/ LockGiveUp(t) \/ Apply(t)
  \/ Leave(t) \/ Unlock(t) \/ Ungate(t) \/ Return(t)

Next == (\E t \in Threads : Calls(t) \/ Step(t)) \/ OtherLock \/ OtherCommit

Spec == Init /\ [][Next]_vars

\* Calls in progress run; no block need ever end, no other process go on.
FairSpec == Spec /\ \A t \in Threads : WF_vars(Step(t))

----------------------------------------------------------------------------
(* Properties. *)

StagedCmds ==
       [op : {"add", "remove", "touch", "pin"}, keys : {{k} : k \in Keys},
        fits : BOOLEAN, answer : BOOLEAN]
  \cup [op : {"lineage"}, keys : (SUBSET Keys) \ {{}}, fits : BOOLEAN, answer : BOOLEAN]

BindingTypeOK ==
  /\ writes \in 0 .. Cardinality(Threads) /\ txn \in Threads \cup {None}
  /\ open \in BOOLEAN /\ inside \subseteq Threads
  /\ mutex \in Threads \cup {None} /\ flock \in Threads \cup {Other, None}
  /\ store \in [Keys -> Kinds] /\ served \in [Keys -> Kinds]
  /\ call \in [Threads -> [kind : {"none", "write", "compact", "sync", "read", "reload",
                                   "close", "enter", "stage", "exit"},
                           cmd : Cmds \cup {None}]]
  /\ phase \in [Threads -> {"New", "Open", "Done"}]
  /\ cmds \in [Threads -> Seq(StagedCmds)]
  /\ staged \in [Threads -> [added : SUBSET Keys, removed : SUBSET Keys]]
  /\ pc \in [Threads -> {"idle", "body", "gate", "begin", "with", "close", "read",
                         "reload", "stage", "crawl", "mutex", "lock", "apply",
                         "leave", "unlock", "ungate", "return"}]

\* Who cannot go on before whom.
WaitsFor(t) ==
  CASE pc[t] = "gate"  -> {txn}
    [] pc[t] = "begin" -> {txn} \cup {u \in Threads : /\ call[u].kind \in {"write", "compact", "sync"}
                                                     /\ pc[u] \notin {"gate", "return"}}
    [] pc[t] = "with"  -> {u \in Threads : pc[u] = "close"}
    [] pc[t] = "close" -> inside
    [] pc[t] = "mutex" -> {mutex}
    [] pc[t] = "lock"  -> {flock}
    [] OTHER           -> {}

\* A thread that asks at the gate for itself is refused there.
Waits(t, u) == u \in WaitsFor(t) /\ ~(t = u /\ pc[t] \in {"gate", "begin"})

\* No circle of threads waiting for each other over gate, store, mutex and
\* commit lock, a thread for itself included: in every set of threads one
\* waits for none of them.  It is what the gate is there for ("a plain write
\* on the same handle meanwhile would wait for that lock while holding the
\* handle's writer, and the transaction's commit would then wait for it").
NoWaitCycle ==
  \A S \in (SUBSET Threads) \ {{}} : \E t \in S : \A u \in S : ~Waits(t, u)

\* A thread outside every call and block holds nothing, and a thread in a
\* block exactly the gate and the commit lock, whichever step of its calls
\* failed, timed out or met a closed store.
NothingLeftBehind ==
  /\ \A t \in Threads : pc[t] \in {"idle", "body"} =>
       /\ mutex # t /\ t \notin inside
       /\ (txn = t) = (pc[t] = "body")
       /\ (flock = t) = (pc[t] = "body")
  /\ (\A t \in Threads : pc[t] \in {"idle", "body"}) => writes = 0

\* Both.
BindingInv == BindingTypeOK /\ NothingLeftBehind

\* While a block is open nothing is committed but by its own exit, so its
\* reads and checks stay true to the end of it.
BlockIsolated ==
  [][\A t \in Threads : phase[t] = "Open" => UNCHANGED store]_vars

\* A pin of a document the block added and removed again answers false when
\* staged and true at commit: Writer::set_pinned finds the staged upsert.
AddedThenRemoved(cs, c) ==
  /\ c.op = "pin"
  /\ c.keys \subseteq Noted(cs).removed
  /\ \E i \in DOMAIN cs : cs[i].op = "add" /\ cs[i].keys = c.keys

\* When a block is committed, the checks its commands passed when they were
\* staged pass again, so nothing is refused but an argument over the writer's
\* limits, and with that one exception of the pin every other command answers
\* as it was answered ("what the write will return at commit (nothing can
\* commit in between)").  An argument over the limits is refused here for the
\* first time, though the stage was answered, and the whole block with it.
StagedHolds ==
  \A t \in Threads : pc[t] = "apply" /\ call[t].kind = "exit" =>
    /\ \A i \in Refused(cmds[t], store) : ~cmds[t][i].fits
    /\ \A i \in DOMAIN cmds[t] :
         LET before == SubSeq(cmds[t], 1, i - 1) IN
         \/ ~cmds[t][i].fits
         \/ AddedThenRemoved(before, cmds[t][i])
         \/ cmds[t][i].answer = Answered(before, store, cmds[t][i])

\* Every call returns, though a block may stay open and another process keep
\* the commit lock for ever.
EveryCallReturns ==
  \A t \in Threads : pc[t] \notin {"idle", "body"} ~> pc[t] \in {"idle", "body"}
============================================================================
