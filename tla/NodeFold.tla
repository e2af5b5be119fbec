------------------------------ MODULE NodeFold ------------------------------
(***************************************************************************)
(* What the ops of a store mean.  A base holds nodes; the ops committed    *)
(* since it was written are folded, key by key, into a patch (overlay.rs); *)
(* every read merges the two (snapshot.rs); a compaction renders what is   *)
(* read into the next base (compact.rs).  Several handles stage ops, some  *)
(* of them computed from what the handle serves, which may be behind.      *)
(*                                                                         *)
(* GraphStore shows that committed ops reach every handle in order; here a *)
(* commit appends its ops at once, after catching up, as it does there.    *)
(*                                                                         *)
(* Left out: labels, etags and times, which follow the content hash and    *)
(* the counters; edge types and weights, which follow their edge; ranks.   *)
(***************************************************************************)
EXTENDS Naturals, Sequences, FiniteSetsExt

CONSTANTS
  Keys,         \* url keys
  Writers,      \* handles
  Hashes,       \* content hashes; a stub's (0) is None
  Parts,        \* what is replaced whole beside edges: "segs", "attrs"
  Values,       \* contents of a part
  Kinds,        \* the kinds of op in use
  BaseS, MinS, MaxS, GrowNum, GrowDen, CutNum, CutDen,   \* TtlConfig
  CountMax,     \* u16::MAX, where checks and changes saturate
  MaxOps,       \* bound: ops ever staged
  MaxHistory,   \* the same bound while one key and one handle are in use
  MaxBatch,     \* bound: ops staged at once on a handle
  MaxGen,       \* bound: generations
  None

ASSUME TtlOK ==
  /\ {BaseS, MinS, MaxS, GrowNum, GrowDen, CutNum, CutDen} \subseteq Nat
  /\ MinS <= MaxS

ASSUME FoldConstants ==
  CountMax \in Nat /\ MaxGen \in Nat \ {0} /\ None \notin Hashes

VARIABLES
  base,         \* graph.base: for each key a model, or none
  patch,        \* the fold of the log's ops, for each key
  served,       \* what each handle serves: a base and a patch
  staged,       \* each handle's staged ops
  gen,          \* generations written
  nops,         \* ops staged so far
  ref,          \* ghost: the reference model of tests/proptest_model.rs
  strict        \* ghost: every op so far was staged as documented

vars == <<base, patch, served, staged, gen, nops, ref, strict>>

-----------------------------------------------------------------------------
(* The fold of ops into patches.                                           *)

NoModel == [present |-> FALSE]

NoPatch ==
  [core |-> None, edges |-> None, parts |-> [i \in Parts |-> None],
   touch |-> None, carried |-> None, pin |-> "unset",
   removed |-> FALSE, severed |-> FALSE]

\* A pin is known once an op set it or an upsert carried it; an upsert can
\* add one and never takes one away.
FoldedPin(e, op) ==
  IF op.pinned \/ e.pin = "on" \/ (e.pin = "unset" /\ e.core # None /\ e.core.pinned)
  THEN "on"
  ELSE e.pin

\* The counters survive an upsert, the touch they came from does not.
Carried(e) ==
  IF e.touch = None THEN e.carried
  ELSE [checks |-> e.touch.checks, changes |-> e.touch.changes]

FoldUpsert(e, op) ==
  [e EXCEPT !.removed = FALSE,
            !.carried = Carried(e),
            !.touch = None,
            !.core = [hash |-> op.hash, pinned |-> op.pinned],
            !.pin = FoldedPin(e, op)]

\* Mutation: the base not severed.
FoldRemoveBase(e) == [NoPatch EXCEPT !.removed = TRUE]

FoldRemove(e) == [NoPatch EXCEPT !.removed = TRUE, !.severed = TRUE]

FoldEntry(e, op) ==
  CASE op.kind = "upsert" -> FoldUpsert(e, op)
    [] op.kind = "edges"  -> [e EXCEPT !.edges = op.to]
    [] op.kind = "part"   -> [e EXCEPT !.parts[op.part] = op.to]
    [] op.kind = "touch"  -> [e EXCEPT !.touch = op.rec]
    [] op.kind = "pin"    -> [e EXCEPT !.pin = op.pin]
    [] op.kind = "remove" -> FoldRemove(e)

FoldOp(p, op) == [p EXCEPT ![op.key] = FoldEntry(@, op)]

\* The patches after each of the ops.
PatchesAfter(p, ops) ==
  LET after[n \in 0 .. Len(ops)] == IF n = 0 THEN p ELSE FoldOp(after[n - 1], ops[n])
  IN  after

-----------------------------------------------------------------------------
(* Reads: one key's base model b merged with its patch e.                  *)

\* A severed patch takes nothing from the base.
Inherits(b, e) == b.present /\ ~e.severed

Repinned(n, e) == IF e.pin = "unset" THEN n ELSE [n EXCEPT !.pinned = (e.pin = "on")]

Touched(n, e) ==
  IF e.touch = None THEN n
  ELSE [n EXCEPT !.hash = e.touch.hash, !.interval = e.touch.interval,
                 !.checks = e.touch.checks, !.changes = e.touch.changes,
                 !.tomb = @ \/ e.touch.tomb]

AtLeastOne(n) == IF n = 0 THEN 1 ELSE n

\* The counters a node upserted in the overlay starts from.
History(b, e) ==
  IF e.carried # None THEN e.carried
  ELSE IF Inherits(b, e)
       THEN [checks |-> b.node.checks, changes |-> b.node.changes]
       ELSE [checks |-> 0, changes |-> 0]

\* The interval it starts from: the base's if the base has the same content.
LearnedInterval(b, e) ==
  IF Inherits(b, e) /\ b.node.hash = e.core.hash
  THEN AtLeastOne(b.node.interval)
  ELSE BaseS

CoreNode(b, e) ==
  [hash |-> e.core.hash,
   interval |-> LearnedInterval(b, e),
   checks |-> History(b, e).checks,
   changes |-> History(b, e).changes,
   pinned |-> e.core.pinned \/ (Inherits(b, e) /\ b.node.pinned),
   stub |-> FALSE, tomb |-> FALSE]

\* Snapshot::node finds something, and what: an upsert in the overlay wins
\* over the base's record.
HasNode(b, e) == ~e.removed /\ (e.core # None \/ b.present)

Node(b, e) == Touched(Repinned(IF e.core # None THEN CoreNode(b, e) ELSE b.node, e), e)

\* Edges and parts are replaced whole.
WholeSet(e, own, stored) ==
  IF e.removed THEN {}
  ELSE IF own # None THEN own
  ELSE IF e.severed THEN {} ELSE stored

Neighbors(b, e) == WholeSet(e, e.edges, IF b.present THEN b.edges ELSE {})

PartOf(b, e, i) == WholeSet(e, e.parts[i], IF b.present THEN b.parts[i] ELSE {})

\* Mutation: a source whose edges were replaced reported from the base too.
InEdgesTwice(b, p, k) ==
  {s \in Keys : /\ b[k].present /\ b[s].present /\ k \in b[s].edges
                /\ ~(p[s].removed \/ p[s].severed)}
  \cup {s \in Keys : ~p[s].removed /\ p[s].edges # None /\ k \in p[s].edges}

\* The base's reverse index, less the sources the overlay speaks for, and
\* the edges the overlay holds.
InEdges(b, p, k) ==
  {s \in Keys : /\ b[k].present /\ b[s].present /\ k \in b[s].edges
                /\ ~(p[s].edges # None \/ p[s].removed \/ p[s].severed)}
  \cup {s \in Keys : ~p[s].removed /\ p[s].edges # None /\ k \in p[s].edges}

IsDoc(b, e) == HasNode(b, e) /\ ~Node(b, e).stub

Live(b, e) == IsDoc(b, e) /\ ~Node(b, e).tomb

-----------------------------------------------------------------------------
(* Freshness.                                                              *)

Outcomes == {"unchanged", "changed", "gone", "error"}

Clamp(v) == IF v < MinS THEN MinS ELSE IF v > MaxS THEN MaxS ELSE v

NextInterval(s, outcome) ==
  CASE outcome = "unchanged" -> Clamp((s * GrowNum) \div AtLeastOne(GrowDen))
    [] outcome = "changed"   -> Clamp((s * CutNum) \div AtLeastOne(CutDen))
    [] outcome = "error"     -> MinS
    [] outcome = "gone"      -> s

\* Mutation: counters that grow past their width.
SaturatingIncPast(n) == n + 1

SaturatingInc(n) == IF n < CountMax THEN n + 1 ELSE n

-----------------------------------------------------------------------------
(* Compaction's rendering.                                                 *)

\* Mutation: parts rendered from the old base, not through the merge.
ModelsOldParts(b, p) ==
  [k \in Keys |->
     IF ~HasNode(b[k], p[k]) THEN NoModel
     ELSE [present |-> TRUE, node |-> Node(b[k], p[k]),
           edges |-> Neighbors(b[k], p[k]),
           parts |-> [i \in Parts |-> IF b[k].present THEN b[k].parts[i] ELSE {}]]]

Models(b, p) ==
  [k \in Keys |->
     IF ~HasNode(b[k], p[k]) THEN NoModel
     ELSE [present |-> TRUE, node |-> Node(b[k], p[k]),
           edges |-> Neighbors(b[k], p[k]),
           parts |-> [i \in Parts |-> PartOf(b[k], p[k], i)]]]

Referenced(m) == {d \in Keys : \E s \in Keys : m[s].present /\ d \in m[s].edges}

StubModel ==
  [present |-> TRUE,
   node |-> [hash |-> None, interval |-> 0, checks |-> 0, changes |-> 0,
             pinned |-> FALSE, stub |-> TRUE, tomb |-> FALSE],
   edges |-> {}, parts |-> [i \in Parts |-> {}]]

\* Mutation: no stub made for a target that is no node.
RenderedNoStubs(m) ==
  [k \in Keys |->
     IF m[k].present /\ m[k].node.stub /\ k \notin Referenced(m) THEN NoModel ELSE m[k]]

\* A stub that nothing refers to is dropped, a target that is no node
\* becomes one.  What is referenced is what was, before any was dropped.
Rendered(m) ==
  [k \in Keys |->
     IF k \in Referenced(m)
     THEN IF m[k].present THEN m[k] ELSE StubModel
     ELSE IF m[k].present /\ m[k].node.stub THEN NoModel ELSE m[k]]

-----------------------------------------------------------------------------
(* The reference model: what the ops mean to somebody who never heard of   *)
(* bases and overlays.  Pins are sticky, counters survive an upsert, and   *)
(* Remove clears everything.                                               *)

RefUpsert(r, op) ==
  IF r = None
  THEN [hash |-> op.hash, pin |-> op.pinned, checks |-> 0, changes |-> 0,
        tomb |-> FALSE, edges |-> {}, parts |-> [i \in Parts |-> {}]]
  ELSE [r EXCEPT !.hash = op.hash, !.pin = @ \/ op.pinned, !.tomb = FALSE]

RefTouch(r, op) ==
  [r EXCEPT !.hash = IF op.given = None THEN @ ELSE op.given,
            !.checks = SaturatingInc(@),
            !.changes = IF op.outcome = "changed" THEN SaturatingInc(@) ELSE @,
            !.tomb = @ \/ op.outcome = "gone"]

RefEntry(r, op) ==
  IF op.kind = "upsert" THEN RefUpsert(r, op)
  ELSE IF op.kind = "remove" \/ r = None THEN None
  ELSE CASE op.kind = "edges" -> [r EXCEPT !.edges = op.to]
         [] op.kind = "part"  -> [r EXCEPT !.parts[op.part] = op.to]
         [] op.kind = "touch" -> RefTouch(r, op)
         [] op.kind = "pin"   -> [r EXCEPT !.pin = (op.pin = "on")]

RefOp(r, op) == [r EXCEPT ![op.key] = RefEntry(@, op)]

RefsAfter(r, ops) ==
  LET after[n \in 0 .. Len(ops)] == IF n = 0 THEN r ELSE RefOp(after[n - 1], ops[n])
  IN  after

-----------------------------------------------------------------------------
(* Staging.                                                                *)

Disk == [base |-> base, patch |-> patch]

ServedNode(w, k) == Node(served[w].base[k], served[w].patch[k])

ServesNode(w, k) == HasNode(served[w].base[k], served[w].patch[k])

StagedUpserts(w, k) ==
  {i \in 1 .. Len(staged[w]) : staged[w][i].kind = "upsert" /\ staged[w][i].key = k}

\* The hash of the last upsert of k in w's batch.
StagedHash(w, k) ==
  IF StagedUpserts(w, k) = {} THEN None ELSE staged[w][Max(StagedUpserts(w, k))].hash

\* The documented way to record an observation: of a committed document, on
\* a handle that is caught up, as its batch's first op.
CommittedFirst(w, k) ==
  /\ served[w] = Disk
  /\ staged[w] = <<>>
  /\ Live(base[k], patch[k])

\* Ghost: no op but an upsert falls on a document that does not exist.
OnDocuments(ops) ==
  \A i \in 1 .. Len(ops) :
    \/ ops[i].kind \in {"upsert", "remove"}
    \/ RefsAfter(ref, ops)[i - 1][ops[i].key] # None

\* Ghost: no other handle's observation is overtaken by w's commit.
OvertakesNone(w) ==
  \A v \in Writers \ {w} : \A i \in 1 .. Len(staged[v]) : staged[v][i].kind # "touch"

\* The bounds: few ops, or more of them on one key by one handle.
OneHistory(w, op) ==
  /\ op.kind = "edges" => op.to = {}
  /\ \A k \in Keys \ {op.key} : base[k] = NoModel /\ patch[k] = NoPatch
  /\ \A i \in 1 .. Len(staged[w]) : staged[w][i].key = op.key
  /\ \A v \in Writers \ {w} : staged[v] = <<>> /\ \A k \in Keys : ~ServesNode(v, k)

Push(w, op) ==
  /\ op.kind \in Kinds
  /\ nops < (IF OneHistory(w, op) THEN MaxHistory ELSE MaxOps)
  /\ Len(staged[w]) < MaxBatch
  /\ staged' = [staged EXCEPT ![w] = Append(@, op)]
  /\ nops' = nops + 1
  /\ strict' = (strict /\ (op.kind = "touch" => CommittedFirst(w, op.key)))
  /\ UNCHANGED <<base, patch, served, gen, ref>>

UpsertNode(w) ==
  \E k \in Keys, h \in Hashes, pinned \in BOOLEAN :
    Push(w, [kind |-> "upsert", key |-> k, hash |-> h, pinned |-> pinned])

\* An edge to itself is dropped.
SetEdges(w) ==
  \E k \in Keys, to \in SUBSET Keys :
    Push(w, [kind |-> "edges", key |-> k, to |-> to \ {k}])

\* set_segments, set_attrs, set_named_attrs
SetPart(w) ==
  \E k \in Keys, i \in Parts, to \in SUBSET Values :
    Push(w, [kind |-> "part", key |-> k, part |-> i, to |-> to])

\* The record staged for an observation of n: the node's whole state after
\* it.  An upsert staged before it has the newer hash.
TouchRec(n, newer, outcome, given) ==
  [hash |-> IF given # None THEN given ELSE IF newer # None THEN newer ELSE n.hash,
   interval |-> NextInterval(AtLeastOne(n.interval), outcome),
   checks |-> SaturatingInc(n.checks),
   changes |-> IF outcome = "changed" THEN SaturatingInc(n.changes) ELSE n.changes,
   tomb |-> outcome = "gone"]

Touch(w) ==
  \E k \in Keys, outcome \in Outcomes, given \in Hashes \cup {None} :
    /\ given # None => outcome = "changed"
    /\ ServesNode(w, k)
    /\ Push(w, [kind |-> "touch", key |-> k, outcome |-> outcome, given |-> given,
                rec |-> TouchRec(ServedNode(w, k), StagedHash(w, k), outcome, given)])

Exists(w, k) == StagedUpserts(w, k) # {} \/ ServesNode(w, k)

SetPinned(w) ==
  \E k \in Keys, pin \in {"on", "off"} :
    /\ Exists(w, k)
    /\ Push(w, [kind |-> "pin", key |-> k, pin |-> pin])

RemoveNode(w) ==
  \E k \in Keys :
    Push(w, [kind |-> "remove", key |-> k])

Discard(w) ==
  /\ staged[w] # <<>>
  /\ staged' = [staged EXCEPT ![w] = <<>>]
  /\ UNCHANGED <<base, patch, served, gen, nops, ref, strict>>

-----------------------------------------------------------------------------
(* Commit, reload, compaction.                                             *)

\* A commit catches up first, so its ops are folded over everyone's.
Commit(w) ==
  /\ staged[w] # <<>>
  /\ patch' = PatchesAfter(patch, staged[w])[Len(staged[w])]
  /\ served' = [served EXCEPT ![w] = [base |-> base, patch |-> patch']]
  /\ staged' = [staged EXCEPT ![w] = <<>>]
  /\ ref' = RefsAfter(ref, staged[w])[Len(staged[w])]
  /\ strict' = (strict /\ OnDocuments(staged[w]) /\ OvertakesNone(w))
  /\ UNCHANGED <<base, gen, nops>>

Reload(w) ==
  /\ served[w] # Disk
  /\ served' = [served EXCEPT ![w] = Disk]
  /\ UNCHANGED <<base, patch, staged, gen, nops, ref, strict>>

\* Called, or inline after a commit.
Compact(w) ==
  /\ gen < MaxGen
  /\ gen' = gen + 1
  /\ base' = Rendered(Models(base, patch))
  /\ patch' = [k \in Keys |-> NoPatch]
  /\ served' = [served EXCEPT ![w] = [base |-> base', patch |-> patch']]
  /\ UNCHANGED <<staged, nops, ref, strict>>

Init ==
  /\ base = [k \in Keys |-> NoModel]
  /\ patch = [k \in Keys |-> NoPatch]
  /\ served = [w \in Writers |-> Disk]
  /\ staged = [w \in Writers |-> <<>>]
  /\ gen = 1
  /\ nops = 0
  /\ ref = [k \in Keys |-> None]
  /\ strict = TRUE

Next ==
  \E w \in Writers :
    \/ UpsertNode(w)
    \/ SetEdges(w)
    \/ SetPart(w)
    \/ Touch(w)
    \/ SetPinned(w)
    \/ RemoveNode(w)
    \/ Discard(w)
    \/ Commit(w)
    \/ Reload(w)
    \/ Compact(w)

Spec == Init /\ [][Next]_vars

-----------------------------------------------------------------------------
(* Properties.                                                             *)

Option(S) == {None} \cup S

Counter  == 0 .. CountMax
Counters == [checks : Counter, changes : Counter]
Core     == [hash : Hashes, pinned : BOOLEAN]

NodeType ==
  [hash : Option(Hashes), interval : Nat, checks : Counter, changes : Counter,
   pinned : BOOLEAN, stub : BOOLEAN, tomb : BOOLEAN]

Model ==
  [present : {TRUE}, node : NodeType, edges : SUBSET Keys, parts : [Parts -> SUBSET Values]]
    \cup {NoModel}

TouchType ==
  [hash : Option(Hashes), interval : Nat, checks : Counter, changes : Counter, tomb : BOOLEAN]

Patch ==
  [core : Option(Core), edges : Option(SUBSET Keys),
   parts : [Parts -> Option(SUBSET Values)], touch : Option(TouchType),
   carried : Option(Counters), pin : {"unset", "on", "off"},
   removed : BOOLEAN, severed : BOOLEAN]

View == [base : [Keys -> Model], patch : [Keys -> Patch]]

Op ==
  [kind : {"upsert"}, key : Keys, hash : Hashes, pinned : BOOLEAN]
    \cup [kind : {"edges"}, key : Keys, to : SUBSET Keys]
    \cup [kind : {"part"}, key : Keys, part : Parts, to : SUBSET Values]
    \cup [kind : {"touch"}, key : Keys, outcome : Outcomes, given : Option(Hashes),
          rec : TouchType]
    \cup [kind : {"pin"}, key : Keys, pin : {"on", "off"}]
    \cup [kind : {"remove"}, key : Keys]

RefDoc ==
  [hash : Option(Hashes), pin : BOOLEAN, checks : Counter, changes : Counter, tomb : BOOLEAN,
   edges : SUBSET Keys, parts : [Parts -> SUBSET Values]]

ASSUME NoneIsNothing ==
  /\ None \notin Core \cup Counters \cup TouchType \cup RefDoc
  /\ \A S \in SUBSET Keys : S # None
  /\ \A S \in SUBSET Values : S # None

\* A base's models, a log's patches and the ops staged have the shapes base.rs,
\* overlay.rs and wal.rs give them, and a handle serves such a pair.
FoldTypeOK ==
  /\ Disk \in View /\ served \in [Writers -> View]
  /\ staged \in [Writers -> Seq(Op)]
  /\ ref \in [Keys -> Option(RefDoc)] /\ strict \in BOOLEAN
  /\ gen \in 1 .. MaxGen /\ nops \in Nat

Closed(b) ==
  \A s \in Keys, d \in Keys : b[s].present /\ d \in b[s].edges => b[d].present

\* A base resolves each edge to a dense id, id_of[&dst] in compact_locked,
\* which panics for a target that is not in the base: each is, in every base
\* written and served.
BaseClosed == Closed(base) /\ \A w \in Writers : Closed(served[w].base)

\* in_edges is put together from the base's reverse index and the overlay,
\* neighbors from either: they describe one graph, for every pair of keys
\* and at every handle, however far it is behind.
InOutAgree ==
  \A w \in Writers, s \in Keys, k \in Keys :
    s \in InEdges(served[w].base, served[w].patch, k)
      <=> k \in Neighbors(served[w].base[s], served[w].patch[s])

\* What is read of a key is what the reference model says of it.
Agrees(b, e, r) ==
  IF r = None THEN ~IsDoc(b, e)
  ELSE /\ IsDoc(b, e)
       /\ r = [hash |-> Node(b, e).hash, pin |-> Node(b, e).pinned,
               checks |-> Node(b, e).checks, changes |-> Node(b, e).changes,
               tomb |-> Node(b, e).tomb, edges |-> Neighbors(b, e),
               parts |-> [i \in Parts |-> PartOf(b, e, i)]]

\* tests/proptest_model.rs, over batches and several handles: the documents
\* are those of the reference model, with its hashes, pins, counters, edges
\* and parts, whatever was removed, upserted again or compacted on the way.
AgreesWithModel == strict => \A k \in Keys : Agrees(base[k], patch[k], ref[k])

\* "Compact + reopen must not change any answer": a compaction leaves every
\* document, its edges and parts and its inbound edges from documents as
\* they were read before, and makes no document of what was none.
CompactionTransparent ==
  [][gen' # gen =>
       \A k \in Keys :
         /\ IsDoc(base'[k], patch'[k]) <=> IsDoc(base[k], patch[k])
         /\ IsDoc(base[k], patch[k]) =>
              /\ Node(base'[k], patch'[k]) = Node(base[k], patch[k])
              /\ Neighbors(base'[k], patch'[k]) = Neighbors(base[k], patch[k])
              /\ \A i \in Parts : PartOf(base'[k], patch'[k], i) = PartOf(base[k], patch[k], i)
         /\ \A s \in Keys : IsDoc(base[s], patch[s]) =>
              (s \in InEdges(base', patch', k) <=> s \in InEdges(base, patch, k))]_vars

\* set_pinned: "a pin on a document that does not exist must not lie in wait
\* for a future upsert".
NoPinInWait ==
  \A k \in Keys :
    IsDoc(base[k], patch[k]) /\ Node(base[k], patch[k]).pinned => ref[k].pin
=============================================================================
