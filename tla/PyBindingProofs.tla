------------------------- MODULE PyBindingProofs ---------------------------
(***************************************************************************)
(* Proofs about PyBinding, for any number of threads, keys and calls.      *)
(*                                                                         *)
(* The inductive invariant ties every lock to where its holder is: the     *)
(* kind of call a thread is in and its transaction's phase follow from its *)
(* program counter, and from these who has the gate, the commit lock, the  *)
(* writer mutex, the store's read side and a ticket.                       *)
(***************************************************************************)
EXTENDS PyBinding, FiniteSetTheorems, WellFoundedInduction, TLAPS

Plain == {"write", "compact", "sync"}

\* Where a thread can be in a call, and in which phase its transaction is.
PcInv ==
  \A t \in Threads :
    LET k == call[t].kind
        p == phase[t]
    IN
    /\ pc[t] = "idle"   => k = "none" /\ p = "New"
    /\ pc[t] = "body"   => k = "none" /\ p = "Open"
    /\ pc[t] = "gate"   => k \in Plain /\ p # "Done"
    /\ pc[t] = "begin"  => k = "enter" /\ p # "Done"
    /\ pc[t] = "close"  => k = "close" /\ p # "Done"
    /\ pc[t] = "read"   => k = "read" /\ p # "Done"
    /\ pc[t] = "reload" => k = "reload" /\ p # "Done"
    /\ pc[t] = "stage"  => k = "stage" /\ p = "Open"
    /\ pc[t] = "crawl"  => k = "sync" /\ p = "New"
    /\ pc[t] = "mutex"  => k \in Plain \cup {"enter", "exit"}
    /\ pc[t] = "lock"   => k \in Plain \cup {"enter"} /\ p = "New"
    /\ pc[t] = "apply"  => k \in Plain \cup {"exit"}
    /\ pc[t] \in {"with", "leave"} => k \notin {"none", "close"}
    /\ pc[t] = "unlock" => k = "exit"
    /\ pc[t] = "ungate" => k \in Plain \cup {"enter", "exit"} /\ p # "Open"
    /\ pc[t] = "return" => k # "none"
    /\ (k = "exit") = (p = "Done")
    /\ k \in Plain /\ pc[t] # "gate" => p = "New"
    /\ k = "enter" /\ p = "Open" => pc[t] \in {"begin", "leave", "return"}
    /\ k = "stage" => p = "Open"
    /\ k \in {"write", "stage"} => call[t].cmd \in Cmds

\* Who has the gate: the thread of a transaction, from begin() to end().
HasGate(t) ==
  \/ phase[t] = "Open"
  \/ phase[t] = "Done" /\ pc[t] # "return"
  \/ phase[t] = "New" /\ call[t].kind = "enter" /\ pc[t] \notin {"begin", "return"}

\* Who has the commit lock: a block, to its exit, or a plain call that writes.
HasLock(t) ==
  \/ phase[t] = "Open"
  \/ phase[t] = "Done" /\ pc[t] \notin {"ungate", "return"}
  \/ call[t].kind \in Plain /\ pc[t] = "apply"

\* Who is counted in `writes`.
Tickets == {t \in Threads : call[t].kind \in Plain /\ pc[t] \notin {"gate", "return"}}

HoldersInv ==
  \A t \in Threads :
    /\ (txn = t) <=> HasGate(t)
    /\ (flock = t) <=> HasLock(t)
    /\ (t \in inside) <=> pc[t] \in {"read", "reload", "stage", "crawl", "mutex", "lock",
                                     "apply", "leave"}
    /\ mutex = t => pc[t] \in {"lock", "apply", "leave"}
    /\ pc[t] \in {"lock", "apply"} => mutex = t

TicketsInv ==
  /\ writes = Cardinality(Tickets)
  /\ txn # None => Tickets = {}

\* What a block staged, it will find again at its commit.
Holds(cs, view) ==
  \A i \in DOMAIN cs :
    LET before == SubSeq(cs, 1, i - 1) IN
    /\ Passes(Noted(before), view, cs[i])
    /\ AddedThenRemoved(before, cs[i]) \/ cs[i].answer = Answered(before, view, cs[i])

\* From the first command to the commit.
Committing(t) ==
  phase[t] = "Open" \/ (phase[t] = "Done" /\ pc[t] \in {"with", "mutex", "apply"})

StagedInv ==
  \A t \in Threads :
    /\ staged[t] = Noted(cmds[t])
    /\ phase[t] = "New" => cmds[t] = <<>>
    /\ phase[t] = "Open" => served = store
    /\ Committing(t) => Holds(cmds[t], store)

IInv == BindingTypeOK /\ PcInv /\ HoldersInv /\ TicketsInv /\ StagedInv

----------------------------------------------------------------------------
(* Sequences of commands. *)

\* Every nonempty set of naturals has a least element.
LEMMA NatMin ==
  ASSUME NEW T, T \subseteq Nat, T # {}
  PROVE  \E x \in T : \A y \in T : x <= y
<1>1. \E x \in T : \A y \in T : ~(<<y, x>> \in OpToRel(<, Nat))
  BY WFMin, NatLessThanWellFounded
<1>2. PICK x \in T : \A y \in T : ~(<<y, x>> \in OpToRel(<, Nat))
  BY <1>1
<1>3. ASSUME NEW y \in T PROVE x <= y
  <2>1. ~(y < x)
    BY <1>2 DEF OpToRel
  <2> QED BY <2>1
<1> QED BY <1>3

\* Noting a command gives what commit() will have after it.
LEMMA NotedAppend ==
  ASSUME NEW cs \in Seq(StagedCmds), NEW c \in StagedCmds
  PROVE  Noted(Append(cs, c)) = Note(Noted(cs), c)
<1> DEFINE ds == Append(cs, c)
           n  == Len(cs) + 1
<1>1. /\ n \in Nat /\ DOMAIN cs = 1 .. Len(cs) /\ DOMAIN ds = 1 .. n /\ ds[n] = c
      /\ \A i \in 1 .. Len(cs) : ds[i] = cs[i]
  OBVIOUS
<1> HIDE DEF ds
<1>2. ASSUME NEW op \in {"add", "remove"}, NEW k \in Keys
      PROVE  Latest(ds, op, k) <=>
               \/ c.op = op /\ k \in c.keys
               \/ Latest(cs, op, k) /\ ~(c.op \in {"add", "remove"} /\ k \in c.keys)
  <2>1. ASSUME Latest(ds, op, k)
        PROVE  \/ c.op = op /\ k \in c.keys
               \/ Latest(cs, op, k) /\ ~(c.op \in {"add", "remove"} /\ k \in c.keys)
    <3>1. PICK i \in 1 .. n : /\ ds[i].op = op /\ k \in ds[i].keys
                              /\ \A j \in 1 .. n : j > i /\ ds[j].op \in {"add", "remove"} =>
                                   k \notin ds[j].keys
      BY <1>1, <2>1 DEF Latest
    <3>2. CASE i = n
      BY <1>1, <3>1, <3>2
    <3>3. CASE i # n
      <4>1. i \in 1 .. Len(cs) /\ n > i /\ n \in 1 .. n
        BY <1>1, <3>3
      <4>2. ~(c.op \in {"add", "remove"} /\ k \in c.keys)
        BY <1>1, <3>1, <4>1
      <4>3. Latest(cs, op, k)
        BY <1>1, <3>1, <4>1 DEF Latest
      <4> QED BY <4>2, <4>3
    <3> QED BY <3>2, <3>3
  <2>2. ASSUME c.op = op, k \in c.keys PROVE Latest(ds, op, k)
    <3>1. n \in 1 .. n /\ \A j \in 1 .. n : ~(j > n)
      BY <1>1
    <3> QED BY <1>1, <2>2, <3>1 DEF Latest
  <2>3. ASSUME Latest(cs, op, k), ~(c.op \in {"add", "remove"} /\ k \in c.keys)
        PROVE  Latest(ds, op, k)
    <3>1. PICK i \in 1 .. Len(cs) :
            /\ cs[i].op = op /\ k \in cs[i].keys
            /\ \A j \in 1 .. Len(cs) : j > i /\ cs[j].op \in {"add", "remove"} =>
                 k \notin cs[j].keys
      BY <1>1, <2>3 DEF Latest
    <3>2. \A j \in 1 .. n : j = n \/ j \in 1 .. Len(cs)
      BY <1>1
    <3>3. i \in 1 .. n
      BY <1>1
    <3> QED BY <1>1, <2>3, <3>1, <3>2, <3>3 DEF Latest
  <2> QED BY <2>1, <2>2, <2>3
<1>3. c.keys \subseteq Keys
  BY DEF StagedCmds
<1>4. CASE c.op = "add"
  <2>1. \A k \in Keys : Latest(ds, "add", k) <=> k \in c.keys \/ Latest(cs, "add", k)
    BY <1>2, <1>4
  <2>2. \A k \in Keys : Latest(ds, "remove", k) <=> Latest(cs, "remove", k) /\ k \notin c.keys
    BY <1>2, <1>4
  <2> QED BY <1>3, <1>4, <2>1, <2>2 DEF Noted, Note, ds
<1>5. CASE c.op = "remove"
  <2>1. \A k \in Keys : Latest(ds, "remove", k) <=> k \in c.keys \/ Latest(cs, "remove", k)
    BY <1>2, <1>5
  <2>2. \A k \in Keys : Latest(ds, "add", k) <=> Latest(cs, "add", k) /\ k \notin c.keys
    BY <1>2, <1>5
  <2> QED BY <1>3, <1>5, <2>1, <2>2 DEF Noted, Note, ds
<1>6. CASE c.op \notin {"add", "remove"}
  <2>1. \A k \in Keys : Latest(ds, "remove", k) <=> Latest(cs, "remove", k)
    BY <1>2, <1>6
  <2>2. \A k \in Keys : Latest(ds, "add", k) <=> Latest(cs, "add", k)
    BY <1>2, <1>6
  <2> QED BY <1>6, <2>1, <2>2 DEF Noted, Note, ds
<1> QED BY <1>4, <1>5, <1>6

\* What was added is still noted, as added or as removed since.
LEMMA AddsAreNoted ==
  ASSUME NEW cs \in Seq(StagedCmds), NEW k \in Keys,
         NEW a \in DOMAIN cs, cs[a].op = "add", k \in cs[a].keys
  PROVE  k \in Noted(cs).added \cup Noted(cs).removed
<1> DEFINE n == Len(cs)
           T == {n - i : i \in {j \in 1 .. n : cs[j].op \in {"add", "remove"} /\ k \in cs[j].keys}}
<1>1. n \in Nat /\ DOMAIN cs = 1 .. n
  OBVIOUS
<1>2. T \subseteq Nat /\ n - a \in T
  BY <1>1
<1>3. PICK m \in T : \A y \in T : m <= y
  <2> HIDE DEF T
  <2> QED BY <1>2, NatMin
<1>4. PICK i \in 1 .. n : /\ cs[i].op \in {"add", "remove"} /\ k \in cs[i].keys
                          /\ m = n - i
  BY <1>3
<1>5. ASSUME NEW j \in 1 .. n, j > i, cs[j].op \in {"add", "remove"}
      PROVE  k \notin cs[j].keys
  <2>1. k \in cs[j].keys => n - j \in T
    BY <1>5
  <2>2. k \in cs[j].keys => n - i <= n - j
    BY <1>3, <1>4, <2>1
  <2> QED BY <1>1, <1>4, <1>5, <2>2
<1>6. Latest(cs, "add", k) \/ Latest(cs, "remove", k)
  BY <1>1, <1>4, <1>5 DEF Latest
<1> QED BY <1>6 DEF Noted

\* A command answered from the view and from what was staged answers the
\* same at commit, after the same commands; only a pin of a document added
\* and removed does not.
LEMMA AnswersAgree ==
  ASSUME NEW cs \in Seq(StagedCmds), NEW c \in Cmds, NEW view
  PROVE  AddedThenRemoved(cs, c) \/ Answer(Noted(cs), view, c) = Answered(cs, view, c)
<1>1. CASE c.op # "pin"
  BY <1>1 DEF Answer, Answered
<1>2. CASE c.op = "pin"
  <2>1. PICK k \in Keys : c.keys = {k}
    BY <1>2 DEF Cmds, Lineage, OverLimits
  <2> DEFINE added == \E i \in DOMAIN cs : cs[i].op = "add" /\ cs[i].keys = c.keys
  <2>2. Answer(Noted(cs), view, c) = (k \in Noted(cs).added \/ k \in Nodes(view))
    BY <1>2, <2>1 DEF Answer
  <2>3. Answered(cs, view, c) = (k \in Nodes(view) \/ added)
    BY <1>2, <2>1 DEF Answered
  <2>4. CASE added
    <3>1. k \in Noted(cs).added \cup Noted(cs).removed
      BY <2>1, <2>4, AddsAreNoted
    <3>2. k \in Noted(cs).removed => AddedThenRemoved(cs, c)
      BY <1>2, <2>1, <2>4 DEF AddedThenRemoved
    <3> QED BY <2>2, <2>3, <2>4, <3>1, <3>2
  <2>5. CASE ~added
    <3>1. k \notin Noted(cs).added
      <4> SUFFICES ASSUME Latest(cs, "add", k) PROVE FALSE
        BY DEF Noted
      <4>1. PICK i \in DOMAIN cs : cs[i].op = "add" /\ k \in cs[i].keys
        BY DEF Latest
      <4>2. cs[i] \in StagedCmds
        OBVIOUS
      <4>3. cs[i].keys = {k}
        BY <4>1, <4>2 DEF StagedCmds
      <4> QED BY <2>1, <2>5, <4>1, <4>3
    <3> QED BY <2>2, <2>3, <2>5, <3>1
  <2> QED BY <2>4, <2>5
<1> QED BY <1>1, <1>2

\* One more command checked and answered.
LEMMA HoldsAppend ==
  ASSUME NEW cs \in Seq(StagedCmds), NEW c \in Cmds, NEW view, Holds(cs, view),
         Passes(Noted(cs), view, c), NEW d \in StagedCmds,
         d = [op |-> c.op, keys |-> c.keys, fits |-> c.fits, answer |-> Answer(Noted(cs), view, c)]
  PROVE  Holds(Append(cs, d), view)
<1> DEFINE ds == Append(cs, d)
           n  == Len(cs) + 1
<1>1. /\ n \in Nat /\ DOMAIN cs = 1 .. Len(cs) /\ DOMAIN ds = 1 .. n /\ ds[n] = d
      /\ \A i \in 1 .. Len(cs) : ds[i] = cs[i]
      /\ \A i \in 1 .. n : i = n \/ i \in 1 .. Len(cs)
  OBVIOUS
<1>2. \A i \in 1 .. n : SubSeq(ds, 1, i - 1) = SubSeq(cs, 1, i - 1)
  OBVIOUS
<1>3. SubSeq(cs, 1, n - 1) = cs
  OBVIOUS
<1> HIDE DEF ds, n
<1>4. /\ Passes(Noted(cs), view, d)
      /\ AddedThenRemoved(cs, d) \/ d.answer = Answered(cs, view, d)
  <2>1. d.op = c.op /\ d.keys = c.keys /\ d.answer = Answer(Noted(cs), view, c)
    OBVIOUS
  <2>2. Passes(Noted(cs), view, d)
    BY <2>1 DEF Passes
  <2>3. AddedThenRemoved(cs, d) = AddedThenRemoved(cs, c)
    BY <2>1 DEF AddedThenRemoved
  <2>4. Answered(cs, view, d) = Answered(cs, view, c)
    BY <2>1 DEF Answered
  <2> QED BY <2>1, <2>2, <2>3, <2>4, AnswersAgree
<1>5. ASSUME NEW i \in 1 .. n
      PROVE  /\ Passes(Noted(SubSeq(ds, 1, i - 1)), view, ds[i])
             /\ \/ AddedThenRemoved(SubSeq(ds, 1, i - 1), ds[i])
                \/ ds[i].answer = Answered(SubSeq(ds, 1, i - 1), view, ds[i])
  <2>1. CASE i = n
    BY <1>1, <1>2, <1>3, <1>4, <2>1
  <2>2. CASE i \in 1 .. Len(cs)
    BY <1>1, <1>2, <2>2 DEF Holds
  <2> QED BY <1>1, <2>1, <2>2
<1> QED BY <1>1, <1>5 DEF Holds, ds

LEMMA HoldsNothing ==
  ASSUME NEW view
  PROVE  Holds(<<>>, view) /\ Noted(<<>>) = NothingStaged
<1>1. Holds(<<>>, view)
  BY DEF Holds
<1>2. \A op, k : ~Latest(<<>>, op, k)
  BY DEF Latest
<1> QED BY <1>1, <1>2 DEF Noted, NothingStaged

----------------------------------------------------------------------------
(* The invariant holds at first, and every step keeps it. *)

\* No ticket is taken or given back.
LEMMA TicketsSame ==
  ASSUME TicketsInv, Tickets' = Tickets, writes' = writes, txn' \in {txn, None}
  PROVE  TicketsInv'
  BY DEF TicketsInv

LEMMA InitInv == Init => IInv
<1> SUFFICES ASSUME Init PROVE IInv
  OBVIOUS
<1>1. IsFiniteSet(Threads) /\ Cardinality(Threads) \in Nat /\ Cardinality({}) = 0
  BY BindingConstants, FS_CardinalityType, FS_EmptySet
<1>2. BindingTypeOK
  BY <1>1 DEF Init, BindingTypeOK, NoCall, NothingStaged
<1>3. PcInv
  BY DEF Init, PcInv, NoCall, Plain
<1>4. HoldersInv
  BY BindingConstants DEF Init, HoldersInv, HasGate, HasLock, NoCall, Plain
<1>5. TicketsInv
  <2>1. Tickets = {}
    BY DEF Init, Tickets, NoCall, Plain
  <2> QED BY <1>1, <2>1 DEF Init, TicketsInv
<1>6. StagedInv
  BY HoldsNothing DEF Init, StagedInv, Committing
<1> QED BY <1>2, <1>3, <1>4, <1>5, <1>6 DEF IInv

\* A thread enters a method.
LEMMA CallInv ==
  ASSUME IInv, NEW t \in Threads, NEW kind, NEW c, NEW to, Call(t, kind, c, to),
         \/ kind \in Plain /\ to = "gate" /\ c \in Cmds \cup {None} /\ (kind = "write" => c \in Cmds)
         \/ kind \in {"read", "reload"} /\ to = "with" /\ c = None
         \/ kind = "close" /\ to = "close" /\ c = None
         \/ kind = "enter" /\ to = "begin" /\ c = None
         \/ kind = "stage" /\ to = "with" /\ c \in Cmds /\ phase[t] = "Open"
  PROVE  IInv'
<1>0. /\ BindingTypeOK /\ PcInv /\ HoldersInv /\ TicketsInv /\ StagedInv
      /\ pc[t] = Home(t) /\ pc' = [pc EXCEPT ![t] = to]
      /\ call' = [call EXCEPT ![t] = [kind |-> kind, cmd |-> c]]
      /\ UNCHANGED <<writes, txn, open, inside, mutex, flock, store, served, phase, cmds, staged>>
  BY DEF IInv, Call, Goto, gate, locks, data, tx
<1>1. /\ pc[t] \in {"idle", "body"} /\ phase[t] # "Done" /\ call[t].kind = "none"
      /\ phase[t] = "Open" <=> pc[t] = "body"
  BY <1>0 DEF Home, PcInv, BindingTypeOK
<1>2. BindingTypeOK'
  BY <1>0 DEF BindingTypeOK, Plain
<1>3. PcInv'
  BY <1>0, <1>1 DEF PcInv, BindingTypeOK, Plain
<1>4. HoldersInv'
  BY <1>0, <1>1 DEF HoldersInv, HasGate, HasLock, BindingTypeOK, Plain
<1>5. TicketsInv'
  <2>1. Tickets' = Tickets
    BY <1>0, <1>1 DEF Tickets, BindingTypeOK, Plain
  <2> QED BY <1>0, <2>1, TicketsSame
<1>6. StagedInv'
  BY <1>0, <1>1 DEF StagedInv, BindingTypeOK, Committing
<1> QED BY <1>2, <1>3, <1>4, <1>5, <1>6 DEF IInv

\* The block ends; its commit, if any, still has the gate and the lock.
LEMMA ExitTxnInv ==
  ASSUME IInv, NEW t \in Threads, ExitTxn(t)
  PROVE  IInv'
<1>0. /\ BindingTypeOK /\ PcInv /\ HoldersInv /\ TicketsInv /\ StagedInv
      /\ UNCHANGED <<writes, txn, open, inside, mutex, flock, store, served, cmds, staged>>
  BY DEF IInv, ExitTxn, gate, locks, data, tx
<1>1. BindingTypeOK'
  BY <1>0 DEF BindingTypeOK, ExitTxn, Goto, Home, NoCall, Unwind
<1>2. PcInv'
  BY <1>0 DEF PcInv, BindingTypeOK, ExitTxn, Goto, Home, NoCall, Unwind, Plain
<1>3. HoldersInv'
  BY <1>0, BindingConstants DEF HoldersInv, HasGate, HasLock, PcInv, BindingTypeOK, ExitTxn, Goto, Home,
     NoCall, Unwind, Plain
<1>4. TicketsInv'
  <2>1. Tickets' = Tickets
    BY <1>0 DEF Tickets, PcInv, BindingTypeOK, ExitTxn, Goto, Home, NoCall, Unwind, Plain
  <2> QED BY <1>0, <2>1, TicketsSame
<1>5. StagedInv'
  BY <1>0 DEF StagedInv, Committing, PcInv, BindingTypeOK, ExitTxn, Goto, Home, NoCall, Unwind
<1> QED BY <1>1, <1>2, <1>3, <1>4, <1>5 DEF IInv

LEMMA GateGiveUpInv ==
  ASSUME IInv, NEW t \in Threads, GateGiveUp(t)
  PROVE  IInv'
<1>0. /\ BindingTypeOK /\ PcInv /\ HoldersInv /\ TicketsInv /\ StagedInv
      /\ UNCHANGED <<writes, txn, open, inside, mutex, flock, store, served, phase, cmds, staged>>
  BY DEF IInv, GateGiveUp, gate, locks, data, tx
<1>1. BindingTypeOK'
  BY <1>0 DEF BindingTypeOK, GateGiveUp, Goto, Home, NoCall, Unwind
<1>2. PcInv'
  BY <1>0 DEF PcInv, BindingTypeOK, GateGiveUp, Goto, Home, NoCall, Unwind, Plain
<1>3. HoldersInv'
  BY <1>0, BindingConstants DEF HoldersInv, HasGate, HasLock, PcInv, BindingTypeOK, GateGiveUp, Goto, Home,
     NoCall, Unwind, Plain
<1>4. TicketsInv'
  <2>1. Tickets' = Tickets
    BY <1>0 DEF Tickets, PcInv, BindingTypeOK, GateGiveUp, Goto, Home, NoCall, Unwind, Plain
  <2> QED BY <1>0, <2>1, TicketsSame
<1>5. StagedInv'
  BY <1>0 DEF StagedInv, Committing, PcInv, BindingTypeOK, GateGiveUp, Goto, Home, NoCall, Unwind
<1> QED BY <1>1, <1>2, <1>3, <1>4, <1>5 DEF IInv

LEMMA WithInv ==
  ASSUME IInv, NEW t \in Threads, With(t)
  PROVE  IInv'
<1>0. /\ BindingTypeOK /\ PcInv /\ HoldersInv /\ TicketsInv /\ StagedInv
      /\ UNCHANGED <<writes, txn, open, mutex, flock, store, served, call, phase, cmds, staged>>
  BY DEF IInv, With, gate, locks, data, tx
<1>1. BindingTypeOK'
  BY <1>0 DEF BindingTypeOK, With, Goto, Home, NoCall, Unwind
<1>2. PcInv'
  BY <1>0 DEF PcInv, BindingTypeOK, With, Goto, Home, NoCall, Unwind, Plain
<1>3. HoldersInv'
  BY <1>0, BindingConstants DEF HoldersInv, HasGate, HasLock, PcInv, BindingTypeOK, With, Goto, Home,
     NoCall, Unwind, Plain
<1>4. TicketsInv'
  <2>1. Tickets' = Tickets
    BY <1>0 DEF Tickets, PcInv, BindingTypeOK, With, Goto, Home, NoCall, Unwind, Plain
  <2> QED BY <1>0, <2>1, TicketsSame
<1>5. StagedInv'
  BY <1>0 DEF StagedInv, Committing, PcInv, BindingTypeOK, With, Goto, Home, NoCall, Unwind
<1> QED BY <1>1, <1>2, <1>3, <1>4, <1>5 DEF IInv

LEMMA ClosedInv ==
  ASSUME IInv, NEW t \in Threads, Closed(t)
  PROVE  IInv'
<1>0. /\ BindingTypeOK /\ PcInv /\ HoldersInv /\ TicketsInv /\ StagedInv
      /\ UNCHANGED <<writes, txn, inside, mutex, flock, store, served, call, phase, cmds, staged>>
  BY DEF IInv, Closed, gate, locks, data, tx
<1>1. BindingTypeOK'
  BY <1>0 DEF BindingTypeOK, Closed, Goto, Home, NoCall, Unwind
<1>2. PcInv'
  BY <1>0 DEF PcInv, BindingTypeOK, Closed, Goto, Home, NoCall, Unwind, Plain
<1>3. HoldersInv'
  BY <1>0, BindingConstants DEF HoldersInv, HasGate, HasLock, PcInv, BindingTypeOK, Closed, Goto, Home,
     NoCall, Unwind, Plain
<1>4. TicketsInv'
  <2>1. Tickets' = Tickets
    BY <1>0 DEF Tickets, PcInv, BindingTypeOK, Closed, Goto, Home, NoCall, Unwind, Plain
  <2> QED BY <1>0, <2>1, TicketsSame
<1>5. StagedInv'
  BY <1>0 DEF StagedInv, Committing, PcInv, BindingTypeOK, Closed, Goto, Home, NoCall, Unwind
<1> QED BY <1>1, <1>2, <1>3, <1>4, <1>5 DEF IInv

LEMMA ReadViewInv ==
  ASSUME IInv, NEW t \in Threads, ReadView(t)
  PROVE  IInv'
<1>0. /\ BindingTypeOK /\ PcInv /\ HoldersInv /\ TicketsInv /\ StagedInv
      /\ UNCHANGED <<writes, txn, open, inside, mutex, flock, store, served, call, phase, cmds, staged>>
  BY DEF IInv, ReadView, gate, locks, data, tx
<1>1. BindingTypeOK'
  BY <1>0 DEF BindingTypeOK, ReadView, Goto, Home, NoCall, Unwind
<1>2. PcInv'
  BY <1>0 DEF PcInv, BindingTypeOK, ReadView, Goto, Home, NoCall, Unwind, Plain
<1>3. HoldersInv'
  BY <1>0, BindingConstants DEF HoldersInv, HasGate, HasLock, PcInv, BindingTypeOK, ReadView, Goto, Home,
     NoCall, Unwind, Plain
<1>4. TicketsInv'
  <2>1. Tickets' = Tickets
    BY <1>0 DEF Tickets, PcInv, BindingTypeOK, ReadView, Goto, Home, NoCall, Unwind, Plain
  <2> QED BY <1>0, <2>1, TicketsSame
<1>5. StagedInv'
  BY <1>0 DEF StagedInv, Committing, PcInv, BindingTypeOK, ReadView, Goto, Home, NoCall, Unwind
<1> QED BY <1>1, <1>2, <1>3, <1>4, <1>5 DEF IInv

LEMMA CrawlInv ==
  ASSUME IInv, NEW t \in Threads, Crawl(t)
  PROVE  IInv'
<1>0. /\ BindingTypeOK /\ PcInv /\ HoldersInv /\ TicketsInv /\ StagedInv
      /\ UNCHANGED <<writes, txn, open, inside, mutex, flock, store, served, call, phase, cmds, staged>>
  BY DEF IInv, Crawl, gate, locks, data, tx
<1>1. BindingTypeOK'
  BY <1>0 DEF BindingTypeOK, Crawl, Goto, Home, NoCall, Unwind
<1>2. PcInv'
  BY <1>0 DEF PcInv, BindingTypeOK, Crawl, Goto, Home, NoCall, Unwind, Plain
<1>3. HoldersInv'
  BY <1>0, BindingConstants DEF HoldersInv, HasGate, HasLock, PcInv, BindingTypeOK, Crawl, Goto, Home,
     NoCall, Unwind, Plain
<1>4. TicketsInv'
  <2>1. Tickets' = Tickets
    BY <1>0 DEF Tickets, PcInv, BindingTypeOK, Crawl, Goto, Home, NoCall, Unwind, Plain
  <2> QED BY <1>0, <2>1, TicketsSame
<1>5. StagedInv'
  BY <1>0 DEF StagedInv, Committing, PcInv, BindingTypeOK, Crawl, Goto, Home, NoCall, Unwind
<1> QED BY <1>1, <1>2, <1>3, <1>4, <1>5 DEF IInv

LEMMA TakeMutexInv ==
  ASSUME IInv, NEW t \in Threads, TakeMutex(t)
  PROVE  IInv'
<1>0. /\ BindingTypeOK /\ PcInv /\ HoldersInv /\ TicketsInv /\ StagedInv
      /\ UNCHANGED <<writes, txn, open, inside, flock, store, served, call, phase, cmds, staged>>
  BY DEF IInv, TakeMutex, gate, locks, data, tx
<1>1. BindingTypeOK'
  BY <1>0 DEF BindingTypeOK, TakeMutex, Goto, Home, NoCall, Unwind
<1>2. PcInv'
  BY <1>0 DEF PcInv, BindingTypeOK, TakeMutex, Goto, Home, NoCall, Unwind, Plain
<1>3. HoldersInv'
  BY <1>0, BindingConstants DEF HoldersInv, HasGate, HasLock, PcInv, BindingTypeOK, TakeMutex, Goto, Home,
     NoCall, Unwind, Plain
<1>4. TicketsInv'
  <2>1. Tickets' = Tickets
    BY <1>0 DEF Tickets, PcInv, BindingTypeOK, TakeMutex, Goto, Home, NoCall, Unwind, Plain
  <2> QED BY <1>0, <2>1, TicketsSame
<1>5. StagedInv'
  BY <1>0 DEF StagedInv, Committing, PcInv, BindingTypeOK, TakeMutex, Goto, Home, NoCall, Unwind
<1> QED BY <1>1, <1>2, <1>3, <1>4, <1>5 DEF IInv

\* The lock was free, so no block is open whose view would change.
LEMMA CatchUpFailsInv ==
  ASSUME IInv, NEW t \in Threads, CatchUpFails(t)
  PROVE  IInv'
<1>0. /\ BindingTypeOK /\ PcInv /\ HoldersInv /\ TicketsInv /\ StagedInv
      /\ UNCHANGED <<writes, txn, open, inside, mutex, flock, store, call, phase, cmds, staged>>
  BY DEF IInv, CatchUpFails, gate, locks, data, tx
<1>1. BindingTypeOK'
  BY <1>0 DEF BindingTypeOK, CatchUpFails, Goto, Home, NoCall, Unwind
<1>2. PcInv'
  BY <1>0 DEF PcInv, BindingTypeOK, CatchUpFails, Goto, Home, NoCall, Unwind, Plain
<1>3. HoldersInv'
  BY <1>0, BindingConstants DEF HoldersInv, HasGate, HasLock, PcInv, BindingTypeOK, CatchUpFails, Goto, Home,
     NoCall, Unwind, Plain
<1>4. TicketsInv'
  <2>1. Tickets' = Tickets
    BY <1>0 DEF Tickets, PcInv, BindingTypeOK, CatchUpFails, Goto, Home, NoCall, Unwind, Plain
  <2> QED BY <1>0, <2>1, TicketsSame
<1>5. StagedInv'
  <2>1. \A u \in Threads : phase[u] # "Open"
    BY <1>0, BindingConstants DEF HoldersInv, HasLock, CatchUpFails
  <2> QED BY <1>0, <2>1 DEF StagedInv, Committing, PcInv, BindingTypeOK, CatchUpFails, Goto
<1> QED BY <1>1, <1>2, <1>3, <1>4, <1>5 DEF IInv

LEMMA LockGiveUpInv ==
  ASSUME IInv, NEW t \in Threads, LockGiveUp(t)
  PROVE  IInv'
<1>0. /\ BindingTypeOK /\ PcInv /\ HoldersInv /\ TicketsInv /\ StagedInv
      /\ UNCHANGED <<writes, txn, open, inside, mutex, flock, store, served, call, phase, cmds, staged>>
  BY DEF IInv, LockGiveUp, gate, locks, data, tx
<1>1. BindingTypeOK'
  BY <1>0 DEF BindingTypeOK, LockGiveUp, Goto, Home, NoCall, Unwind
<1>2. PcInv'
  BY <1>0 DEF PcInv, BindingTypeOK, LockGiveUp, Goto, Home, NoCall, Unwind, Plain
<1>3. HoldersInv'
  BY <1>0, BindingConstants DEF HoldersInv, HasGate, HasLock, PcInv, BindingTypeOK, LockGiveUp, Goto, Home,
     NoCall, Unwind, Plain
<1>4. TicketsInv'
  <2>1. Tickets' = Tickets
    BY <1>0 DEF Tickets, PcInv, BindingTypeOK, LockGiveUp, Goto, Home, NoCall, Unwind, Plain
  <2> QED BY <1>0, <2>1, TicketsSame
<1>5. StagedInv'
  BY <1>0 DEF StagedInv, Committing, PcInv, BindingTypeOK, LockGiveUp, Goto, Home, NoCall, Unwind
<1> QED BY <1>1, <1>2, <1>3, <1>4, <1>5 DEF IInv

\* What was entered is left, last first.
LEMMA LeaveInv ==
  ASSUME IInv, NEW t \in Threads, Leave(t)
  PROVE  IInv'
<1>0. /\ BindingTypeOK /\ PcInv /\ HoldersInv /\ TicketsInv /\ StagedInv
      /\ UNCHANGED <<writes, txn, open, flock, store, served, call, phase, cmds, staged>>
  BY DEF IInv, Leave, gate, locks, data, tx
<1>1. BindingTypeOK'
  BY <1>0 DEF BindingTypeOK, Leave, Goto, Home, NoCall, Unwind
<1>2. PcInv'
  BY <1>0 DEF PcInv, BindingTypeOK, Leave, Goto, Home, NoCall, Unwind, Plain
<1>3. HoldersInv'
  BY <1>0, BindingConstants DEF HoldersInv, HasGate, HasLock, PcInv, BindingTypeOK, Leave, Goto, Home,
     NoCall, Unwind, Plain
<1>4. TicketsInv'
  <2>1. Tickets' = Tickets
    BY <1>0 DEF Tickets, PcInv, BindingTypeOK, Leave, Goto, Home, NoCall, Unwind, Plain
  <2> QED BY <1>0, <2>1, TicketsSame
<1>5. StagedInv'
  BY <1>0 DEF StagedInv, Committing, PcInv, BindingTypeOK, Leave, Goto, Home, NoCall, Unwind
<1> QED BY <1>1, <1>2, <1>3, <1>4, <1>5 DEF IInv

LEMMA UnlockInv ==
  ASSUME IInv, NEW t \in Threads, Unlock(t)
  PROVE  IInv'
<1>0. /\ BindingTypeOK /\ PcInv /\ HoldersInv /\ TicketsInv /\ StagedInv
      /\ UNCHANGED <<writes, txn, open, inside, mutex, store, served, call, phase, cmds, staged>>
  BY DEF IInv, Unlock, gate, locks, data, tx
<1>1. BindingTypeOK'
  BY <1>0 DEF BindingTypeOK, Unlock, Goto, Home, NoCall, Unwind
<1>2. PcInv'
  BY <1>0 DEF PcInv, BindingTypeOK, Unlock, Goto, Home, NoCall, Unwind, Plain
<1>3. HoldersInv'
  BY <1>0, BindingConstants DEF HoldersInv, HasGate, HasLock, PcInv, BindingTypeOK, Unlock, Goto, Home,
     NoCall, Unwind, Plain
<1>4. TicketsInv'
  <2>1. Tickets' = Tickets
    BY <1>0 DEF Tickets, PcInv, BindingTypeOK, Unlock, Goto, Home, NoCall, Unwind, Plain
  <2> QED BY <1>0, <2>1, TicketsSame
<1>5. StagedInv'
  BY <1>0 DEF StagedInv, Committing, PcInv, BindingTypeOK, Unlock, Goto, Home, NoCall, Unwind
<1> QED BY <1>1, <1>2, <1>3, <1>4, <1>5 DEF IInv

\* A reload serves what is committed, or leaves it alone.
LEMMA ReloadInv ==
  ASSUME IInv, NEW t \in Threads, Reload(t)
  PROVE  IInv'
<1>0. /\ BindingTypeOK /\ PcInv /\ HoldersInv /\ TicketsInv /\ StagedInv
      /\ UNCHANGED <<writes, txn, open, inside, mutex, flock, store, call, phase, cmds, staged>>
  BY DEF IInv, Reload, gate, locks, data, tx
<1>1. BindingTypeOK'
  BY <1>0 DEF BindingTypeOK, Reload, Goto, Home, NoCall, Unwind
<1>2. PcInv'
  BY <1>0 DEF PcInv, BindingTypeOK, Reload, Goto, Home, NoCall, Unwind, Plain
<1>3. HoldersInv'
  BY <1>0, BindingConstants DEF HoldersInv, HasGate, HasLock, PcInv, BindingTypeOK, Reload, Goto, Home,
     NoCall, Unwind, Plain
<1>4. TicketsInv'
  <2>1. Tickets' = Tickets
    BY <1>0 DEF Tickets, PcInv, BindingTypeOK, Reload, Goto, Home, NoCall, Unwind, Plain
  <2> QED BY <1>0, <2>1, TicketsSame
<1>5. StagedInv'
  BY <1>0 DEF StagedInv, Committing, PcInv, BindingTypeOK, Reload, Goto, Home, NoCall, Unwind
<1> QED BY <1>1, <1>2, <1>3, <1>4, <1>5 DEF IInv

\* Under the commit lock the handle is caught up, and nothing is staged yet.
LEMMA TakeLockInv ==
  ASSUME IInv, NEW t \in Threads, TakeLock(t)
  PROVE  IInv'
<1>0. /\ BindingTypeOK /\ PcInv /\ HoldersInv /\ TicketsInv /\ StagedInv
      /\ UNCHANGED <<writes, txn, open, inside, mutex, store, call, cmds, staged>>
  BY DEF IInv, TakeLock, gate, locks, data, tx
<1>1. BindingTypeOK'
  BY <1>0 DEF BindingTypeOK, TakeLock, Goto, Home, NoCall, Unwind
<1>2. PcInv'
  BY <1>0 DEF PcInv, BindingTypeOK, TakeLock, Goto, Home, NoCall, Unwind, Plain
<1>3. HoldersInv'
  BY <1>0, BindingConstants DEF HoldersInv, HasGate, HasLock, PcInv, BindingTypeOK, TakeLock, Goto, Home,
     NoCall, Unwind, Plain
<1>4. TicketsInv'
  <2>1. Tickets' = Tickets
    BY <1>0 DEF Tickets, PcInv, BindingTypeOK, TakeLock, Goto, Home, NoCall, Unwind, Plain
  <2> QED BY <1>0, <2>1, TicketsSame
<1>5. StagedInv'
  BY <1>0, HoldsNothing DEF StagedInv, Committing, PcInv, BindingTypeOK, TakeLock, Goto
<1> QED BY <1>1, <1>2, <1>3, <1>4, <1>5 DEF IInv

LEMMA ReturnInv ==
  ASSUME IInv, NEW t \in Threads, Return(t)
  PROVE  IInv'
<1>0. /\ BindingTypeOK /\ PcInv /\ HoldersInv /\ TicketsInv /\ StagedInv /\ pc[t] = "return"
      /\ call' = [call EXCEPT ![t] = NoCall] /\ NoCall = [kind |-> "none", cmd |-> None]
      /\ UNCHANGED <<writes, txn, open, inside, mutex, flock, store, served>>
  BY DEF IInv, Return, gate, locks, data, NoCall
<1>a. Tickets' = Tickets
  BY <1>0 DEF Tickets, BindingTypeOK, Return, Goto, Plain
<1>b. TicketsInv'
  BY <1>0, <1>a, TicketsSame
<1>1. CASE phase[t] = "Open"
  <2>0. pc' = [pc EXCEPT ![t] = "body"] /\ UNCHANGED <<phase, cmds, staged>>
    BY <1>1 DEF Return, Goto, tx
  <2>1. BindingTypeOK'
    BY <1>0, <2>0 DEF BindingTypeOK
  <2>2. PcInv'
    BY <1>0, <1>1, <2>0 DEF PcInv, BindingTypeOK, Plain
  <2>3. HoldersInv'
    BY <1>0, <1>1, <2>0 DEF HoldersInv, HasGate, HasLock, PcInv, BindingTypeOK, Plain
  <2>4. StagedInv'
    BY <1>0, <1>1, <2>0 DEF StagedInv, Committing, BindingTypeOK
  <2> QED BY <1>b, <2>1, <2>2, <2>3, <2>4 DEF IInv
<1>2. CASE phase[t] # "Open"
  <2>0. /\ pc' = [pc EXCEPT ![t] = "idle"] /\ phase' = [phase EXCEPT ![t] = "New"]
        /\ cmds' = [cmds EXCEPT ![t] = <<>>] /\ staged' = [staged EXCEPT ![t] = NothingStaged]
    BY <1>2 DEF Return, Goto
  <2>1. BindingTypeOK'
    BY <1>0, <2>0 DEF BindingTypeOK, NothingStaged
  <2>2. PcInv'
    BY <1>0, <2>0 DEF PcInv, BindingTypeOK, Plain
  <2>3. HoldersInv'
    BY <1>0, <1>2, <2>0 DEF HoldersInv, HasGate, HasLock, PcInv, BindingTypeOK, Plain
  <2>4. StagedInv'
    <3> SUFFICES ASSUME NEW u \in Threads PROVE StagedInv!(u)'
      BY DEF StagedInv
    <3>1. CASE u = t
      BY <1>0, <2>0, <3>1, HoldsNothing DEF Committing, BindingTypeOK
    <3>2. CASE u # t
      BY <1>0, <2>0, <3>2 DEF StagedInv, Committing, BindingTypeOK
    <3> QED BY <3>1, <3>2
  <2> QED BY <1>b, <2>1, <2>2, <2>3, <2>4 DEF IInv
<1> QED BY <1>1, <1>2

\* A call that ends at the gate goes back to where it came from.
LEMMA HomeInv ==
  ASSUME IInv, NEW t \in Threads, pc[t] \in {"gate", "begin"},
         pc' = [pc EXCEPT ![t] = Home(t)], call' = [call EXCEPT ![t] = NoCall],
         UNCHANGED <<writes, txn, open, inside, mutex, flock, store, served, phase, cmds, staged>>
  PROVE  IInv'
<1>0. BindingTypeOK /\ PcInv /\ HoldersInv /\ TicketsInv /\ StagedInv
  BY DEF IInv
<1>1. BindingTypeOK'
  BY <1>0 DEF BindingTypeOK, Home, NoCall
<1>2. PcInv'
  BY <1>0 DEF PcInv, BindingTypeOK, Home, NoCall, Plain
<1>3. HoldersInv'
  BY <1>0 DEF HoldersInv, HasGate, HasLock, PcInv, BindingTypeOK, Home, NoCall, Plain
<1>4. TicketsInv'
  <2>1. Tickets' = Tickets
    BY <1>0 DEF Tickets, PcInv, BindingTypeOK, Home, NoCall, Plain
  <2> QED BY <1>0, <2>1, TicketsSame
<1>5. StagedInv'
  BY <1>0 DEF StagedInv, Committing, PcInv, BindingTypeOK
<1> QED BY <1>1, <1>2, <1>3, <1>4, <1>5 DEF IInv

\* A transaction passes the gate when no ticket is out.
LEMMA GateBeginInv ==
  ASSUME IInv, NEW t \in Threads, GateBegin(t)
  PROVE  IInv'
<1>0. /\ BindingTypeOK /\ PcInv /\ HoldersInv /\ TicketsInv /\ StagedInv /\ pc[t] = "begin"
      /\ UNCHANGED <<writes, open, inside, mutex, flock, store, served, phase, cmds, staged>>
  BY DEF IInv, GateBegin, locks, data, tx
<1>1. CASE txn = t /\ Goto(t, Home(t)) /\ call' = [call EXCEPT ![t] = NoCall] /\ UNCHANGED txn
  BY <1>0, <1>1, HomeInv DEF Goto
<1>2. CASE txn = None /\ writes = 0 /\ txn' = t /\ Goto(t, "with") /\ UNCHANGED call
  <2>0. pc' = [pc EXCEPT ![t] = "with"] /\ None \notin Threads
    BY <1>2, BindingConstants DEF Goto
  <2>1. BindingTypeOK'
    BY <1>0, <1>2, <2>0 DEF BindingTypeOK
  <2>a. phase[t] = "New" /\ call[t].kind = "enter"
    BY <1>0, <1>2, <2>0 DEF HoldersInv, HasGate, PcInv, BindingTypeOK
  <2>2. PcInv'
    BY <1>0, <1>2, <2>0, <2>a DEF PcInv, BindingTypeOK, Plain
  <2>3. HoldersInv'
    BY <1>0, <1>2, <2>0, <2>a DEF HoldersInv, HasGate, HasLock, PcInv, BindingTypeOK, Plain
  <2>4. TicketsInv'
    <3>1. Tickets' = Tickets
      BY <1>0, <1>2, <2>0, <2>a DEF Tickets, BindingTypeOK, Plain
    <3>2. Tickets = {}
      <4>1. Tickets \subseteq Threads /\ IsFiniteSet(Threads)
        BY BindingConstants DEF Tickets
      <4>2. IsFiniteSet(Tickets) /\ Cardinality(Tickets) = 0
        BY <1>0, <1>2, <4>1, FS_Subset DEF TicketsInv
      <4> QED BY <4>2, FS_EmptySet
    <3> QED BY <1>0, <3>1, <3>2 DEF TicketsInv
  <2>5. StagedInv'
    BY <1>0, <1>2, <2>0 DEF StagedInv, Committing, PcInv, BindingTypeOK
  <2> QED BY <2>1, <2>2, <2>3, <2>4, <2>5 DEF IInv
<1> QED BY <1>1, <1>2 DEF GateBegin

\* A plain write takes a ticket.
LEMMA GateWriteInv ==
  ASSUME IInv, NEW t \in Threads, GateWrite(t)
  PROVE  IInv'
<1>0. /\ BindingTypeOK /\ PcInv /\ HoldersInv /\ TicketsInv /\ StagedInv /\ pc[t] = "gate"
      /\ UNCHANGED <<txn, open, inside, mutex, flock, store, served, phase, cmds, staged>>
  BY DEF IInv, GateWrite, locks, data, tx
<1>1. CASE txn = t /\ Goto(t, Home(t)) /\ call' = [call EXCEPT ![t] = NoCall] /\ UNCHANGED writes
  BY <1>0, <1>1, HomeInv DEF Goto
<1>2. CASE txn = None /\ writes' = writes + 1 /\ Goto(t, "with") /\ UNCHANGED call
  <2>0. pc' = [pc EXCEPT ![t] = "with"] /\ None \notin Threads /\ IsFiniteSet(Threads)
    BY <1>2, BindingConstants DEF Goto
  <2>a. phase[t] = "New" /\ call[t].kind \in Plain
    BY <1>0, <1>2, <2>0 DEF HoldersInv, HasGate, PcInv, BindingTypeOK
  <2>b. Tickets' = Tickets \cup {t} /\ t \notin Tickets
    BY <1>0, <1>2, <2>0, <2>a DEF Tickets, BindingTypeOK
  <2>c. writes' = Cardinality(Tickets') /\ writes' \in 0 .. Cardinality(Threads)
    <3>1. Tickets \subseteq Threads /\ Tickets' \subseteq Threads
      BY <2>b DEF Tickets
    <3>2. IsFiniteSet(Tickets)
      BY <2>0, <3>1, FS_Subset
    <3>3. Cardinality(Tickets') = Cardinality(Tickets) + 1
      BY <2>b, <3>2, FS_AddElement
    <3>4. Cardinality(Tickets') <= Cardinality(Threads) /\ Cardinality(Tickets') \in Nat
          /\ Cardinality(Threads) \in Nat
      <4>1. \A T \in SUBSET Threads : IsFiniteSet(T) /\ Cardinality(T) <= Cardinality(Threads)
        BY <2>0, FS_Subset
      <4> QED BY <2>0, <3>1, <4>1, FS_CardinalityType
    <3> QED BY <1>0, <1>2, <3>3, <3>4 DEF TicketsInv
  <2>1. BindingTypeOK'
    BY <1>0, <1>2, <2>0, <2>c DEF BindingTypeOK
  <2>2. PcInv'
    BY <1>0, <1>2, <2>0, <2>a DEF PcInv, BindingTypeOK, Plain
  <2>3. HoldersInv'
    BY <1>0, <1>2, <2>0, <2>a DEF HoldersInv, HasGate, HasLock, PcInv, BindingTypeOK, Plain
  <2>4. TicketsInv'
    BY <1>0, <1>2, <2>c DEF TicketsInv
  <2>5. StagedInv'
    BY <1>0, <1>2, <2>0 DEF StagedInv, Committing, PcInv, BindingTypeOK
  <2> QED BY <2>1, <2>2, <2>3, <2>4, <2>5 DEF IInv
<1> QED BY <1>1, <1>2 DEF GateWrite

\* The gate or the ticket is given back.
LEMMA UngateInv ==
  ASSUME IInv, NEW t \in Threads, Ungate(t)
  PROVE  IInv'
<1>0. /\ BindingTypeOK /\ PcInv /\ HoldersInv /\ TicketsInv /\ StagedInv /\ pc[t] = "ungate"
      /\ pc' = [pc EXCEPT ![t] = "return"] /\ None \notin Threads /\ IsFiniteSet(Threads)
      /\ UNCHANGED <<open, inside, mutex, flock, store, served, call, phase, cmds, staged>>
  BY BindingConstants DEF IInv, Ungate, locks, data, tx, Goto
<1>1. PcInv'
  BY <1>0 DEF PcInv, BindingTypeOK, Plain
<1>2. StagedInv'
  BY <1>0 DEF StagedInv, Committing, PcInv, BindingTypeOK
<1>3. CASE call[t].kind \in {"enter", "exit"} /\ txn' = None /\ UNCHANGED writes
  <2>0. txn = t
    BY <1>0, <1>3 DEF HoldersInv, HasGate, PcInv, BindingTypeOK
  <2>1. BindingTypeOK'
    BY <1>0, <1>3 DEF BindingTypeOK
  <2>2. HoldersInv'
    BY <1>0, <1>3, <2>0 DEF HoldersInv, HasGate, HasLock, PcInv, BindingTypeOK, Plain
  <2>3. Tickets' = Tickets
    BY <1>0, <1>3 DEF Tickets, BindingTypeOK, Plain
  <2>4. TicketsInv'
    BY <1>0, <1>3, <2>3, TicketsSame
  <2> QED BY <1>1, <1>2, <2>1, <2>2, <2>4 DEF IInv
<1>4. CASE call[t].kind \notin {"enter", "exit"} /\ writes' = writes - 1 /\ UNCHANGED txn
  <2>0. call[t].kind \in Plain
    BY <1>0, <1>4 DEF PcInv
  <2>b. Tickets' = Tickets \ {t} /\ t \in Tickets
    BY <1>0, <2>0 DEF Tickets, BindingTypeOK
  <2>c. writes' = Cardinality(Tickets') /\ writes' \in 0 .. Cardinality(Threads)
    <3>1. Tickets \subseteq Threads /\ Tickets' \subseteq Threads
      BY <2>b DEF Tickets
    <3>2. IsFiniteSet(Tickets)
      BY <1>0, <3>1, FS_Subset
    <3>3. Cardinality(Tickets') = Cardinality(Tickets) - 1
      BY <2>b, <3>2, FS_RemoveElement
    <3>4. Cardinality(Tickets') <= Cardinality(Threads) /\ Cardinality(Tickets') \in Nat
          /\ Cardinality(Threads) \in Nat
      <4>1. \A T \in SUBSET Threads : IsFiniteSet(T) /\ Cardinality(T) <= Cardinality(Threads)
        BY <1>0, FS_Subset
      <4> QED BY <1>0, <3>1, <4>1, FS_CardinalityType
    <3> QED BY <1>0, <1>4, <3>3, <3>4 DEF TicketsInv
  <2>1. BindingTypeOK'
    BY <1>0, <1>4, <2>c DEF BindingTypeOK
  <2>2. HoldersInv'
    BY <1>0, <1>4, <2>0 DEF HoldersInv, HasGate, HasLock, PcInv, BindingTypeOK, Plain
  <2>4. TicketsInv'
    BY <1>0, <1>4, <2>b, <2>c DEF TicketsInv
  <2> QED BY <1>1, <1>2, <2>1, <2>2, <2>4 DEF IInv
<1> QED BY <1>3, <1>4 DEF Ungate
\* A command that passed is kept with its answer, from a view of what is
\* committed.
LEMMA StageCmdInv ==
  ASSUME IInv, NEW t \in Threads, StageCmd(t)
  PROVE  IInv'
<1>0. /\ BindingTypeOK /\ PcInv /\ HoldersInv /\ TicketsInv /\ StagedInv /\ pc[t] = "stage"
      /\ pc' = [pc EXCEPT ![t] = "leave"]
      /\ UNCHANGED <<writes, txn, open, inside, mutex, flock, store, served, call, phase>>
  BY DEF IInv, StageCmd, gate, locks, data, Goto
<1>1. call[t].kind = "stage" /\ phase[t] = "Open" /\ call[t].cmd \in Cmds
  BY <1>0 DEF PcInv
<1>2. PcInv'
  BY <1>0, <1>1 DEF PcInv, BindingTypeOK, Plain
<1>3. HoldersInv'
  BY <1>0, <1>1 DEF HoldersInv, HasGate, HasLock, BindingTypeOK, Plain
<1>4. TicketsInv'
  <2>1. Tickets' = Tickets
    BY <1>0 DEF Tickets, BindingTypeOK
  <2> QED BY <1>0, <2>1, TicketsSame
<1>5. CASE UNCHANGED <<cmds, staged>>
  <2>1. BindingTypeOK'
    BY <1>0, <1>5 DEF BindingTypeOK
  <2>2. StagedInv'
    BY <1>0, <1>1, <1>5 DEF StagedInv, Committing, BindingTypeOK
  <2> QED BY <1>2, <1>3, <1>4, <2>1, <2>2 DEF IInv
<1>6. CASE /\ Passes(staged[t], served, call[t].cmd)
           /\ cmds' = [cmds EXCEPT ![t] = Append(@, [op |-> call[t].cmd.op,
                         keys |-> call[t].cmd.keys, fits |-> call[t].cmd.fits,
                         answer |-> Answer(staged[t], served, call[t].cmd)])]
           /\ staged' = [staged EXCEPT ![t] = Note(@, call[t].cmd)]
  <2>1. PICK c \in Cmds : c = call[t].cmd
    BY <1>1
  <2>2. PICK cs \in Seq(StagedCmds) : cs = cmds[t]
    BY <1>0 DEF BindingTypeOK
  <2>3. PICK view : view = store
    OBVIOUS
  <2>4. served = view /\ staged[t] = Noted(cs) /\ Holds(cs, view)
    BY <1>0, <1>1, <2>2, <2>3 DEF StagedInv, Committing
  <2>5. Answer(Noted(cs), view, c) \in BOOLEAN
    BY DEF Answer
  <2>6. PICK d : d = [op |-> c.op, keys |-> c.keys, fits |-> c.fits,
                      answer |-> Answer(Noted(cs), view, c)]
    OBVIOUS
  <2>7. d \in StagedCmds
    <3>1. /\ c.fits \in BOOLEAN
          /\ \/ c.op \in {"add", "remove", "touch", "pin"} /\ c.keys \in {{k} : k \in Keys}
             \/ c.op = "lineage" /\ c.keys \in (SUBSET Keys) \ {{}}
      BY DEF Cmds, Lineage, OverLimits
    <3> QED BY <2>5, <2>6, <3>1 DEF StagedCmds
  <2>8. Passes(Noted(cs), view, c) /\ cmds' = [cmds EXCEPT ![t] = Append(cs, d)]
        /\ staged' = [staged EXCEPT ![t] = Note(Noted(cs), c)]
    BY <1>6, <2>1, <2>2, <2>4, <2>6
  <2>9. Holds(Append(cs, d), view)
    BY <2>4, <2>6, <2>7, <2>8, HoldsAppend
  <2>10. Note(Noted(cs), c) = Note(Noted(cs), d)
    <3>1. d.op = c.op /\ d.keys = c.keys
      BY <2>6
    <3> QED BY <3>1 DEF Note
  <2>11. Noted(Append(cs, d)) = Note(Noted(cs), c)
    BY <2>7, <2>10, NotedAppend
  <2>12. Noted(Append(cs, d)) \in [added : SUBSET Keys, removed : SUBSET Keys]
    BY DEF Noted
  <2>13. Append(cs, d) \in Seq(StagedCmds)
    BY <2>7
  <2>14. BindingTypeOK'
    BY <1>0, <2>8, <2>11, <2>12, <2>13 DEF BindingTypeOK
  <2>15. StagedInv'
    <3> SUFFICES ASSUME NEW u \in Threads PROVE StagedInv!(u)'
      BY DEF StagedInv
    <3>1. CASE u = t
      BY <1>0, <1>1, <2>3, <2>4, <2>8, <2>9, <2>11, <3>1 DEF BindingTypeOK
    <3>2. CASE u # t
      BY <1>0, <2>8, <3>2 DEF StagedInv, Committing, BindingTypeOK
    <3> QED BY <3>1, <3>2
  <2> QED BY <1>2, <1>3, <1>4, <2>14, <2>15 DEF IInv
<1> QED BY <1>5, <1>6 DEF StageCmd

\* Only the holder of the commit lock changes the store: no block is open.
LEMMA OthersAreNot ==
  ASSUME IInv, NEW t \in Threads \cup {Other}, flock = t, NEW u \in Threads, u # t
  PROVE  phase[u] # "Open" /\ ~Committing(u)
  BY DEF IInv, HoldersInv, HasLock, Committing

\* The holder of the commit lock writes; a plain call gives it back.
LEMMA ApplyInv ==
  ASSUME IInv, NEW t \in Threads, Apply(t)
  PROVE  IInv'
<1>0. /\ BindingTypeOK /\ PcInv /\ HoldersInv /\ TicketsInv /\ StagedInv /\ pc[t] = "apply"
      /\ served' = store' /\ flock' = (IF call[t].kind = "exit" THEN flock ELSE None)
      /\ None \notin Threads
      /\ UNCHANGED <<writes, txn, open, inside, phase, cmds, staged>>
  BY BindingConstants DEF IInv, Apply, gate, tx
<1>1. /\ call[t].kind \in Plain \cup {"exit"} /\ mutex = t /\ flock = t
      /\ call[t].kind \in Plain => phase[t] = "New"
      /\ call[t].kind = "exit" => phase[t] = "Done"
  BY <1>0 DEF PcInv, HoldersInv, HasLock, BindingTypeOK, Plain
<1>2. store' \in [Keys -> Kinds]
  <2>1. ASSUME NEW cs PROVE Applied(cs, store) \in [Keys -> Kinds]
    BY <1>0 DEF Applied, BindingTypeOK, Kinds
  <2>2. Applied(Batch(t), store) \in [Keys -> Kinds]
    BY <2>1
  <2>3. ASSUME NEW absorbed \in SUBSET Keys
        PROVE  [k \in Keys |-> IF k \in absorbed THEN "doc" ELSE Applied(Batch(t), store)[k]]
                 \in [Keys -> Kinds]
    BY <2>2 DEF Kinds
  <2>4. ASSUME NEW view PROVE Compacted(view) \subseteq [Keys -> Kinds]
    BY DEF Compacted
  <2>5. (IF call[t].kind = "sync" THEN SUBSET Keys ELSE {{}}) \subseteq SUBSET Keys
    OBVIOUS
  <2>6. CASE UNCHANGED store
    BY <1>0, <2>6 DEF BindingTypeOK
  <2>7. CASE \E absorbed \in SUBSET Keys :
               store' \in {[k \in Keys |-> IF k \in absorbed THEN "doc" ELSE Applied(Batch(t), store)[k]]}
                  \cup Compacted([k \in Keys |-> IF k \in absorbed THEN "doc" ELSE Applied(Batch(t), store)[k]])
    BY <2>3, <2>4, <2>7
  <2> QED BY <2>5, <2>6, <2>7 DEF Apply
<1>3. \A u \in Threads \ {t} : phase[u] # "Open" /\ ~Committing(u)
  BY <1>1, OthersAreNot
<1>4. CASE /\ call[t].kind = "sync" /\ Goto(t, "mutex") /\ mutex' = None
           /\ call' = [call EXCEPT ![t].kind = "compact"]
  <2>0. /\ pc' = [pc EXCEPT ![t] = "mutex"] /\ mutex' = None /\ flock' = None
        /\ call' = [call EXCEPT ![t] = [kind |-> "compact", cmd |-> call[t].cmd]]
        /\ phase[t] = "New" /\ call[t].cmd \in Cmds \cup {None}
    <3>1. PICK K : call \in [Threads -> [kind : K, cmd : Cmds \cup {None}]]
      BY <1>0 DEF BindingTypeOK
    <3>2. [call[t] EXCEPT !.kind = "compact"] = [kind |-> "compact", cmd |-> call[t].cmd]
          /\ call[t].cmd \in Cmds \cup {None}
      BY <3>1
    <3>3. call' = [call EXCEPT ![t] = [call[t] EXCEPT !.kind = "compact"]]
      BY <1>4, <3>1
    <3> QED BY <1>0, <1>1, <1>4, <3>2, <3>3 DEF Goto, Plain
  <2>1. BindingTypeOK'
    BY <1>0, <1>2, <2>0 DEF BindingTypeOK
  <2>2. PcInv'
    BY <1>0, <1>4, <2>0 DEF PcInv, BindingTypeOK, Plain
  <2>3. HoldersInv'
    BY <1>0, <1>1, <1>4, <2>0 DEF HoldersInv, HasGate, HasLock, BindingTypeOK, Plain
  <2>4. TicketsInv'
    <3>1. Tickets' = Tickets
      BY <1>0, <1>4, <2>0 DEF Tickets, BindingTypeOK, Plain
    <3> QED BY <1>0, <3>1, TicketsSame
  <2>5. StagedInv'
    BY <1>0, <1>3, <2>0 DEF StagedInv, Committing, BindingTypeOK
  <2> QED BY <2>1, <2>2, <2>3, <2>4, <2>5 DEF IInv
<1>5. CASE call[t].kind # "sync" /\ Goto(t, "leave") /\ UNCHANGED <<mutex, call>>
  <2>0. pc' = [pc EXCEPT ![t] = "leave"] /\ UNCHANGED <<mutex, call>>
    BY <1>5 DEF Goto
  <2>1. BindingTypeOK'
    BY <1>0, <1>2, <2>0 DEF BindingTypeOK
  <2>2. PcInv'
    BY <1>0, <1>1, <2>0 DEF PcInv, BindingTypeOK, Plain
  <2>3. HoldersInv'
    BY <1>0, <1>1, <2>0 DEF HoldersInv, HasGate, HasLock, BindingTypeOK, Plain
  <2>4. TicketsInv'
    <3>1. Tickets' = Tickets
      BY <1>0, <2>0 DEF Tickets, BindingTypeOK, Plain
    <3> QED BY <1>0, <3>1, TicketsSame
  <2>5. StagedInv'
    BY <1>0, <1>1, <1>3, <2>0 DEF StagedInv, Committing, BindingTypeOK, Plain
  <2> QED BY <2>1, <2>2, <2>3, <2>4, <2>5 DEF IInv
<1> QED BY <1>4, <1>5 DEF Apply

\* Another process takes the commit lock when it is free, and commits under it.
LEMMA OtherInv ==
  ASSUME IInv, OtherLock \/ OtherCommit
  PROVE  IInv'
<1>0. /\ BindingTypeOK /\ PcInv /\ HoldersInv /\ TicketsInv /\ StagedInv
      /\ Other \notin Threads /\ None \notin Threads
      /\ UNCHANGED <<writes, txn, open, inside, mutex, served, pc, call, phase, cmds, staged>>
      /\ flock \in {Other, None} /\ flock' \in {Other, None}
      /\ store' = store \/ (flock = Other /\ store' \in [Keys -> Kinds])
  BY BindingConstants DEF IInv, OtherLock, OtherCommit, gate, data, tx
<1>1. BindingTypeOK'
  BY <1>0 DEF BindingTypeOK
<1>2. PcInv'
  BY <1>0 DEF PcInv
<1>3. HoldersInv'
  BY <1>0 DEF HoldersInv, HasGate, HasLock
<1>4. TicketsInv'
  BY <1>0 DEF TicketsInv, Tickets
<1>5. StagedInv'
  <2>1. \A u \in Threads : phase[u] # "Open" /\ ~Committing(u)
    BY <1>0 DEF HoldersInv, HasLock, Committing
  <2> QED BY <1>0, <2>1 DEF StagedInv, Committing
<1> QED BY <1>1, <1>2, <1>3, <1>4, <1>5 DEF IInv

LEMMA NextInv == IInv /\ [Next]_vars => IInv'
<1> SUFFICES ASSUME IInv, [Next]_vars PROVE IInv'
  OBVIOUS
<1>1. CASE UNCHANGED vars
  BY <1>1 DEF IInv, BindingTypeOK, PcInv, HoldersInv, TicketsInv, Tickets, HasGate, HasLock,
     StagedInv, Committing, vars
<1>2. ASSUME NEW t \in Threads, Calls(t) PROVE IInv'
  <2>1. CASE \E c \in Cmds : Call(t, "write", c, "gate")
    BY <2>1, CallInv DEF Plain
  <2>2. CASE Compact(t)
    BY <2>2, CallInv DEF Compact, Plain
  <2>3. CASE Sync(t)
    BY <2>3, CallInv DEF Sync, Plain
  <2>4. CASE Read(t)
    BY <2>4, CallInv DEF Read
  <2>5. CASE ReloadIfStale(t)
    BY <2>5, CallInv DEF ReloadIfStale
  <2>6. CASE Close(t)
    BY <2>6, CallInv DEF Close
  <2>7. CASE EnterTxn(t)
    BY <2>7, CallInv DEF EnterTxn
  <2>8. CASE Stage(t)
    BY <2>8, CallInv DEF Stage
  <2>9. CASE ExitTxn(t)
    BY <2>9, ExitTxnInv
  <2> QED BY <1>2, <2>1, <2>2, <2>3, <2>4, <2>5, <2>6, <2>7, <2>8, <2>9 DEF Calls, Write
<1>3. ASSUME NEW t \in Threads, Step(t) PROVE IInv'
  BY <1>3, GateWriteInv, GateBeginInv, GateGiveUpInv, WithInv, ClosedInv, ReadViewInv, ReloadInv,
     StageCmdInv, CrawlInv, TakeMutexInv, TakeLockInv, CatchUpFailsInv, LockGiveUpInv, ApplyInv, LeaveInv,
     UnlockInv, UngateInv, ReturnInv DEF Step
<1> QED BY <1>1, <1>2, <1>3, OtherInv DEF Next

LEMMA Invariant == Spec => []IInv
  BY InitInv, NextInv, PTL DEF Spec

----------------------------------------------------------------------------
(* What it says. *)

\* Every state is typed, and a thread outside every call and block holds
\* nothing, one in a block exactly the gate and the commit lock, whatever
\* failed, timed out or met a closed store before.
THEOREM BindingTheorem == Spec => []BindingInv
<1>1. IInv => BindingInv
  <2> SUFFICES ASSUME IInv PROVE BindingInv
    OBVIOUS
  <2>0. BindingTypeOK /\ PcInv /\ HoldersInv /\ TicketsInv
    BY DEF IInv
  <2>1. ASSUME NEW t \in Threads, pc[t] \in {"idle", "body"}
        PROVE  /\ mutex # t /\ t \notin inside
               /\ (txn = t) = (pc[t] = "body")
               /\ (flock = t) = (pc[t] = "body")
    BY <2>0, <2>1 DEF PcInv, HoldersInv, HasGate, HasLock, Plain
  <2>2. ASSUME \A t \in Threads : pc[t] \in {"idle", "body"} PROVE writes = 0
    <3>1. Tickets = {}
      BY <2>0, <2>2 DEF Tickets, PcInv, Plain
    <3> QED BY <2>0, <3>1, FS_EmptySet DEF TicketsInv
  <2> QED BY <2>0, <2>1, <2>2 DEF BindingInv, NothingLeftBehind
<1> QED BY <1>1, Invariant, PTL

\* At a block's commit every command passes the document check it passed when
\* it was staged, so only an argument over the writer's limits is refused, and
\* every other command answers what it was answered then, but for the pin of a
\* document the block added and removed.
THEOREM StagedTheorem == Spec => []StagedHolds
<1>1. IInv => StagedHolds
  BY DEF IInv, PcInv, StagedInv, Committing, Holds, StagedHolds, Refused
<1> QED BY <1>1, Invariant, PTL

\* While a block is open no step, of another thread or another process,
\* commits anything.
THEOREM BlockIsolatedTheorem == Spec => BlockIsolated
<1>1. IInv /\ [Next]_vars => [\A t \in Threads : phase[t] = "Open" => UNCHANGED store]_vars
  <2> SUFFICES ASSUME IInv, Next, NEW t \in Threads, phase[t] = "Open" PROVE UNCHANGED store
    BY DEF vars
  <2>1. flock = t /\ Other \notin Threads
    BY BindingConstants DEF IInv, HoldersInv, HasLock
  <2>2. ASSUME NEW u \in Threads, Apply(u) PROVE FALSE
    <3>1. flock = u /\ pc[u] = "apply"
      BY <2>2 DEF Apply, IInv, PcInv, HoldersInv, HasLock, BindingTypeOK
    <3> QED BY <2>1, <3>1 DEF IInv, PcInv, Plain
  <2>3. ASSUME NEW u \in Threads, Calls(u) PROVE UNCHANGED store
    BY <2>3 DEF Calls, Write, Compact, Sync, Read, ReloadIfStale, Close, EnterTxn, Stage, ExitTxn,
       Call, data
  <2>4. ASSUME NEW u \in Threads, Step(u) PROVE UNCHANGED store
    BY <2>2, <2>4 DEF Step, GateWrite, GateBegin, GateGiveUp, With, Closed, ReadView, Reload,
       StageCmd, Crawl, TakeMutex, TakeLock, CatchUpFails, LockGiveUp, Leave, Unlock, Ungate, Return,
       data
  <2>5. ~OtherCommit
    BY <2>1 DEF OtherCommit
  <2>6. OtherLock => UNCHANGED store
    BY DEF OtherLock, data
  <2> QED BY <2>3, <2>4, <2>5, <2>6 DEF Next
<1> QED BY <1>1, Invariant, PTL DEF Spec, BlockIsolated

\* How far from the end of its call a waiting thread is: each wait is for
\* threads that are further on.
Rank(t) ==
  CASE pc[t] \in {"gate", "begin"} /\ txn # t -> 4
    [] pc[t] = "with"  -> 3
    [] pc[t] = "close" -> 2
    [] pc[t] = "mutex" -> 1
    [] OTHER           -> 0

LEMMA WaitsAreRanked ==
  ASSUME IInv, NEW t \in Threads, NEW u \in Threads, Waits(t, u)
  PROVE  Rank(u) < Rank(t)
<1>0. /\ BindingTypeOK /\ PcInv /\ HoldersInv /\ TicketsInv /\ None \notin Threads
      /\ u \in WaitsFor(t) /\ ~(t = u /\ pc[t] \in {"gate", "begin"})
  BY BindingConstants DEF IInv, Waits
<1>1. CASE pc[t] = "gate"
  <2>1. txn = u /\ u # t
    BY <1>0, <1>1 DEF WaitsFor
  <2> QED BY <1>1, <2>1 DEF Rank
<1>2. CASE pc[t] = "begin"
  <2>1. txn = u \/ u \in Tickets
    BY <1>0, <1>2 DEF WaitsFor, Tickets, Plain
  <2>2. u # t
    BY <1>0, <1>2
  <2>3. txn # t
    BY <1>0, <2>1, <2>2 DEF TicketsInv
  <2>4. u \in Tickets => pc[u] \notin {"gate", "begin"}
    BY <1>0 DEF Tickets, PcInv, Plain
  <2>5. Rank(u) \in {0, 1, 2, 3}
    BY <2>1, <2>4 DEF Rank
  <2>6. Rank(t) = 4
    BY <1>2, <2>3 DEF Rank
  <2> QED BY <2>5, <2>6
<1>3. CASE pc[t] = "with"
  BY <1>0, <1>3 DEF WaitsFor, Rank
<1>4. CASE pc[t] = "close"
  <2>1. u \in inside
    BY <1>0, <1>4 DEF WaitsFor
  <2>2. pc[u] \in {"read", "reload", "stage", "crawl", "mutex", "lock", "apply", "leave"}
    BY <1>0, <2>1 DEF HoldersInv
  <2> QED BY <1>4, <2>2 DEF Rank
<1>5. CASE pc[t] = "mutex"
  <2>1. mutex = u
    BY <1>0, <1>5 DEF WaitsFor
  <2>2. pc[u] \in {"lock", "apply", "leave"}
    BY <1>0, <2>1 DEF HoldersInv
  <2> QED BY <1>5, <2>2 DEF Rank
\* A thread that waits for the commit lock waits for another process.
<1>6. CASE pc[t] = "lock"
  <2>1. flock = u
    BY <1>0, <1>6 DEF WaitsFor
  <2>2. mutex = t /\ phase[t] = "New" /\ call[t].kind \in Plain \cup {"enter"}
    BY <1>0, <1>6 DEF HoldersInv, PcInv
  <2>3. txn = t \/ t \in Tickets
    BY <1>0, <1>6, <2>2 DEF HoldersInv, HasGate, Tickets
  <2>4. HasLock(u)
    BY <1>0, <2>1 DEF HoldersInv
  <2>5. CASE call[u].kind \in Plain /\ pc[u] = "apply"
    BY <1>0, <1>6, <2>2, <2>5 DEF HoldersInv
  <2>6. CASE phase[u] # "New" /\ txn = u
    BY <1>0, <2>2, <2>3, <2>6 DEF TicketsInv
  <2> QED BY <1>0, <2>4, <2>5, <2>6 DEF HasLock, HoldersInv, HasGate
<1> QED BY <1>0, <1>1, <1>2, <1>3, <1>4, <1>5, <1>6 DEF WaitsFor

\* Threads never wait for each other in a circle, over the gate, the store's
\* read-write lock, the writer mutex and the commit lock.
THEOREM NoWaitCycleTheorem == Spec => []NoWaitCycle
<1>1. IInv => NoWaitCycle
  <2> SUFFICES ASSUME IInv, NEW S \in SUBSET Threads, S # {}
               PROVE  \E t \in S : \A u \in S : ~Waits(t, u)
    BY DEF NoWaitCycle
  <2> DEFINE R == {Rank(t) : t \in S}
  <2>1. R \subseteq Nat /\ R # {}
    BY DEF Rank
  <2>2. PICK r \in R : \A q \in R : r <= q
    <3> HIDE DEF R
    <3> QED BY <2>1, NatMin
  <2>3. PICK t \in S : Rank(t) = r
    BY <2>2
  <2>4. ASSUME NEW u \in S, Waits(t, u) PROVE FALSE
    <3>1. Rank(u) < Rank(t)
      BY <2>4, WaitsAreRanked
    <3>2. Rank(t) <= Rank(u) /\ Rank(t) \in Nat /\ Rank(u) \in Nat
      BY <2>1, <2>2, <2>3
    <3> QED BY <3>1, <3>2
  <2> QED BY <2>4
<1> QED BY <1>1, Invariant, PTL
=============================================================================
