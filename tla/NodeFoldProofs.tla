--------------------------- MODULE NodeFoldProofs ---------------------------
(***************************************************************************)
(* Proofs about NodeFold, for any keys, handles, ops and bounds.  Closed   *)
(* bases, edges seen alike from both ends and compactions that do not show *)
(* hold for every patch, so they do not depend on what was staged or       *)
(* committed; that reads are those of the reference model is proved op by  *)
(* op, over batches of any length.                                         *)
(***************************************************************************)
EXTENDS NodeFold, WellFoundedInduction, TLAPS

----------------------------------------------------------------------------
(* What the operators return. *)

\* Every edge of a rendered base leads to a node of it (compact.rs, stub
\* management): a target was referenced, and what is referenced is kept or
\* made a stub.
LEMMA RenderedClosed ==
  ASSUME NEW m PROVE Closed(Rendered(m))
<1> SUFFICES ASSUME NEW s \in Keys, NEW d \in Keys,
                    Rendered(m)[s].present, d \in Rendered(m)[s].edges
             PROVE  Rendered(m)[d].present
  BY DEF Closed
<1>1. m[s].present /\ d \in m[s].edges
  <2>1. CASE Rendered(m)[s] = m[s]
    BY <2>1
  <2>2. CASE Rendered(m)[s] = StubModel
    BY <2>2 DEF StubModel
  <2>3. CASE Rendered(m)[s] = NoModel
    BY <2>3 DEF NoModel
  <2> QED
    BY <2>1, <2>2, <2>3 DEF Rendered
<1>2. d \in Referenced(m)
  BY <1>1 DEF Referenced
<1>3. CASE m[d].present
  BY <1>2, <1>3 DEF Rendered
<1>4. CASE ~m[d].present
  <2>1. Rendered(m)[d] = StubModel
    BY <1>2, <1>4 DEF Rendered
  <2> QED
    BY <2>1 DEF StubModel
<1> QED
  BY <1>3, <1>4

\* in_edges and neighbors describe the same graph over a closed base.
LEMMA InIsOut ==
  ASSUME NEW b, NEW p, Closed(b), NEW s \in Keys, NEW k \in Keys
  PROVE  s \in InEdges(b, p, k) <=> k \in Neighbors(b[s], p[s])
<1>1. CASE p[s].removed
  BY <1>1 DEF InEdges, Neighbors, WholeSet
<1>2. CASE ~p[s].removed /\ p[s].edges # None
  BY <1>2 DEF InEdges, Neighbors, WholeSet
<1>3. CASE ~p[s].removed /\ p[s].edges = None /\ p[s].severed
  BY <1>3 DEF InEdges, Neighbors, WholeSet
<1>4. CASE ~p[s].removed /\ p[s].edges = None /\ ~p[s].severed
  <2>1. s \in InEdges(b, p, k) <=> b[k].present /\ b[s].present /\ k \in b[s].edges
    BY <1>4 DEF InEdges
  <2>2. k \in Neighbors(b[s], p[s]) <=> b[s].present /\ k \in b[s].edges
    BY <1>4 DEF Neighbors, WholeSet
  <2> QED
    BY <2>1, <2>2 DEF Closed
<1> QED
  BY <1>1, <1>2, <1>3, <1>4

\* With no patch a read returns the base's record.
LEMMA Unpatched ==
  ASSUME NEW b
  PROVE  /\ HasNode(b, NoPatch) <=> b.present
         /\ Node(b, NoPatch) = b.node
         /\ b.present => Neighbors(b, NoPatch) = b.edges
         /\ \A i \in Parts : b.present => PartOf(b, NoPatch, i) = b.parts[i]
<1>1. /\ ~NoPatch.removed /\ ~NoPatch.severed
      /\ NoPatch.core = None /\ NoPatch.touch = None /\ NoPatch.edges = None
      /\ NoPatch.pin = "unset"
      /\ \A i \in Parts : NoPatch.parts[i] = None
  BY DEF NoPatch
<1>2. HasNode(b, NoPatch) <=> b.present
  BY <1>1 DEF HasNode
<1>3. Node(b, NoPatch) = b.node
  BY <1>1 DEF Node, Repinned, Touched
<1>4. b.present => Neighbors(b, NoPatch) = b.edges
  BY <1>1 DEF Neighbors, WholeSet
<1>5. \A i \in Parts : b.present => PartOf(b, NoPatch, i) = b.parts[i]
  BY <1>1 DEF PartOf, WholeSet
<1> QED
  BY <1>2, <1>3, <1>4, <1>5

\* A model is what a reader was told.
LEMMA ModelsRead ==
  ASSUME NEW b, NEW p, NEW k \in Keys
  PROVE  /\ Models(b, p)[k].present <=> HasNode(b[k], p[k])
         /\ HasNode(b[k], p[k]) =>
              /\ Models(b, p)[k].node = Node(b[k], p[k])
              /\ Models(b, p)[k].edges = Neighbors(b[k], p[k])
              /\ \A i \in Parts : Models(b, p)[k].parts[i] = PartOf(b[k], p[k], i)
<1>1. CASE HasNode(b[k], p[k])
  <2>1. Models(b, p)[k] = [present |-> TRUE, node |-> Node(b[k], p[k]),
                           edges |-> Neighbors(b[k], p[k]),
                           parts |-> [i \in Parts |-> PartOf(b[k], p[k], i)]]
    BY <1>1 DEF Models
  <2> QED
    BY <1>1, <2>1
<1>2. CASE ~HasNode(b[k], p[k])
  <2>1. Models(b, p)[k] = NoModel
    BY <1>2 DEF Models
  <2> QED
    BY <1>2, <2>1 DEF NoModel
<1> QED
  BY <1>1, <1>2

\* Rendering keeps every model that is not a stub, and adds only stubs.
LEMMA RenderedKeeps ==
  ASSUME NEW m, NEW k \in Keys
  PROVE  /\ m[k].present /\ ~m[k].node.stub => Rendered(m)[k] = m[k]
         /\ Rendered(m)[k].present /\ ~Rendered(m)[k].node.stub =>
              m[k].present /\ ~m[k].node.stub
<1>1. m[k].present /\ ~m[k].node.stub => Rendered(m)[k] = m[k]
  BY DEF Rendered
<1>2. StubModel.node.stub /\ ~NoModel.present
  BY DEF StubModel, NoModel
<1>3. Rendered(m)[k] \in {m[k], StubModel, NoModel}
  BY DEF Rendered
<1> QED
  BY <1>1, <1>2, <1>3

----------------------------------------------------------------------------
(* Theorems. *)

\* BaseClosed is inductive once served is known to be indexed by handles.
FoldInv == DOMAIN served = Writers /\ BaseClosed

LEMMA FoldInitially == Init => FoldInv
<1> SUFFICES ASSUME Init PROVE FoldInv
  OBVIOUS
<1>1. \A k \in Keys : ~base[k].present
  BY DEF Init, NoModel
<1>2. \A w \in Writers : served[w].base = base
  BY DEF Init, Disk
<1> QED
  BY <1>1, <1>2 DEF FoldInv, BaseClosed, Closed, Init

LEMMA FoldStep == FoldInv /\ [Next]_vars => FoldInv'
<1> SUFFICES ASSUME FoldInv, [Next]_vars PROVE FoldInv'
  OBVIOUS
<1> USE DEF FoldInv, BaseClosed
<1>1. ASSUME UNCHANGED <<base, served>> PROVE FoldInv'
  BY <1>1 DEF Closed
<1>2. ASSUME NEW w \in Writers, Commit(w) PROVE FoldInv'
  <2>1. base' = base /\ DOMAIN served' = Writers
    BY <1>2 DEF Commit
  <2>2. \A v \in Writers : served'[v].base \in {base, served[v].base}
    BY <1>2 DEF Commit
  <2> QED
    BY <2>1, <2>2 DEF Closed
<1>3. ASSUME NEW w \in Writers, Reload(w) PROVE FoldInv'
  <2>1. base' = base /\ DOMAIN served' = Writers
    BY <1>3 DEF Reload
  <2>2. \A v \in Writers : served'[v].base \in {base, served[v].base}
    BY <1>3 DEF Reload, Disk
  <2> QED
    BY <2>1, <2>2 DEF Closed
<1>4. ASSUME NEW w \in Writers, Compact(w) PROVE FoldInv'
  <2>1. Closed(base')
    BY <1>4, RenderedClosed DEF Compact
  <2>2. DOMAIN served' = Writers
    BY <1>4 DEF Compact
  <2>3. \A v \in Writers : served'[v].base \in {base', served[v].base}
    BY <1>4 DEF Compact
  <2> QED
    BY <2>1, <2>2, <2>3 DEF Closed
<1>5. ASSUME NEW w \in Writers, NEW op, Push(w, op) PROVE FoldInv'
  BY <1>1, <1>5 DEF Push
<1>6. CASE UNCHANGED vars
  BY <1>1, <1>6 DEF vars
<1>7. CASE Next
  BY <1>1, <1>2, <1>3, <1>4, <1>5, <1>7
     DEF Next, UpsertNode, SetEdges, SetPart, Touch, SetPinned, RemoveNode, Discard
<1> QED
  BY <1>6, <1>7

\* For any history of ops, compactions and reloads, no base has an edge to a
\* key it does not hold: compact_locked's id_of[&dst] never panics.
THEOREM BasesClosed == Spec => []BaseClosed
<1>1. FoldInv => BaseClosed
  BY DEF FoldInv
<1> QED
  BY FoldInitially, FoldStep, <1>1, PTL DEF Spec

\* For any history, every handle reports an inbound edge exactly where it
\* reports the outbound one (Snapshot::in_edges, Snapshot::neighbors).
THEOREM InOutHolds == Spec => []InOutAgree
<1>1. BaseClosed => InOutAgree
  BY InIsOut DEF BaseClosed, InOutAgree
<1> QED
  BY BasesClosed, <1>1, PTL

\* Only a compaction writes a generation.
LEMMA OnlyCompactCounts ==
  [Next]_vars /\ gen' # gen => \E w \in Writers : Compact(w)
<1>1. ASSUME NEW w \in Writers, NEW op, Push(w, op) PROVE gen' = gen
  BY <1>1 DEF Push
<1>2. ASSUME NEW w \in Writers, Discard(w) \/ Commit(w) \/ Reload(w) PROVE gen' = gen
  BY <1>2, Zenon DEF Discard, Commit, Reload
<1>3. ASSUME NEW w \in Writers,
             \/ UpsertNode(w) \/ SetEdges(w) \/ SetPart(w)
             \/ Touch(w) \/ SetPinned(w) \/ RemoveNode(w)
      PROVE  gen' = gen
  BY <1>1, <1>3 DEF UpsertNode, SetEdges, SetPart, Touch, SetPinned, RemoveNode
<1>4. UNCHANGED vars => gen' = gen
  BY DEF vars
<1> QED
  BY <1>2, <1>3, <1>4 DEF Next

\* What a compaction step leaves alone, from the lemmas above.
LEMMA CompactKeeps ==
  ASSUME NEW w, Compact(w), Closed(base), NEW k \in Keys
  PROVE  /\ IsDoc(base'[k], patch'[k]) <=> IsDoc(base[k], patch[k])
         /\ IsDoc(base[k], patch[k]) =>
              /\ Node(base'[k], patch'[k]) = Node(base[k], patch[k])
              /\ Neighbors(base'[k], patch'[k]) = Neighbors(base[k], patch[k])
              /\ \A i \in Parts : PartOf(base'[k], patch'[k], i) = PartOf(base[k], patch[k], i)
<1> DEFINE m == Models(base, patch)
<1>1. base'[k] = Rendered(m)[k] /\ patch'[k] = NoPatch
  BY DEF Compact
<1>2. IsDoc(base[k], patch[k]) <=> m[k].present /\ ~m[k].node.stub
  BY ModelsRead DEF IsDoc
<1>3. IsDoc(base'[k], patch'[k]) <=> base'[k].present /\ ~base'[k].node.stub
  BY <1>1, Unpatched DEF IsDoc
<1> HIDE DEF m
<1>4. ASSUME IsDoc(base[k], patch[k])
      PROVE  base'[k] = m[k] /\ base'[k].present
  BY <1>1, <1>2, <1>4, RenderedKeeps
<1>5. IsDoc(base'[k], patch'[k]) <=> IsDoc(base[k], patch[k])
  BY <1>1, <1>2, <1>3, <1>4, RenderedKeeps
<1>6. ASSUME IsDoc(base[k], patch[k])
      PROVE  /\ Node(base'[k], patch'[k]) = Node(base[k], patch[k])
             /\ Neighbors(base'[k], patch'[k]) = Neighbors(base[k], patch[k])
             /\ \A i \in Parts : PartOf(base'[k], patch'[k], i) = PartOf(base[k], patch[k], i)
  <2>1. HasNode(base[k], patch[k])
    BY <1>6 DEF IsDoc
  <2>2. /\ m[k].node = Node(base[k], patch[k])
        /\ m[k].edges = Neighbors(base[k], patch[k])
        /\ \A i \in Parts : m[k].parts[i] = PartOf(base[k], patch[k], i)
    BY <2>1, ModelsRead DEF m
  <2> QED
    BY <1>1, <1>4, <1>6, <2>2, Unpatched
<1> QED
  BY <1>5, <1>6

\* For any base and any fold of the log, a compaction changes no answer about
\* a document, and makes no document of anything else.
THEOREM CompactionIsTransparent == Spec => CompactionTransparent
<1> DEFINE Same(k) ==
      /\ IsDoc(base'[k], patch'[k]) <=> IsDoc(base[k], patch[k])
      /\ IsDoc(base[k], patch[k]) =>
           /\ Node(base'[k], patch'[k]) = Node(base[k], patch[k])
           /\ Neighbors(base'[k], patch'[k]) = Neighbors(base[k], patch[k])
           /\ \A i \in Parts : PartOf(base'[k], patch'[k], i) = PartOf(base[k], patch[k], i)
      /\ \A s \in Keys : IsDoc(base[s], patch[s]) =>
           (s \in InEdges(base', patch', k) <=> s \in InEdges(base, patch, k))
<1>1. ASSUME FoldInv, [Next]_vars, gen' # gen, NEW k \in Keys
      PROVE  Same(k)
  <2>1. PICK w \in Writers : Compact(w)
    BY <1>1, OnlyCompactCounts
  <2>2. Closed(base)
    BY <1>1 DEF FoldInv, BaseClosed
  <2>3. Closed(base')
    BY <2>1, RenderedClosed DEF Compact
  <2>4. ASSUME NEW s \in Keys, IsDoc(base[s], patch[s])
        PROVE  s \in InEdges(base', patch', k) <=> s \in InEdges(base, patch, k)
    <3>1. Neighbors(base'[s], patch'[s]) = Neighbors(base[s], patch[s])
      BY <2>1, <2>2, <2>4, CompactKeeps
    <3>2. s \in InEdges(base, patch, k) <=> k \in Neighbors(base[s], patch[s])
      BY <2>2, InIsOut
    <3>3. s \in InEdges(base', patch', k) <=> k \in Neighbors(base'[s], patch'[s])
      BY <2>3, InIsOut
    <3> QED
      BY <3>1, <3>2, <3>3
  <2>5. /\ IsDoc(base'[k], patch'[k]) <=> IsDoc(base[k], patch[k])
        /\ IsDoc(base[k], patch[k]) =>
             /\ Node(base'[k], patch'[k]) = Node(base[k], patch[k])
             /\ Neighbors(base'[k], patch'[k]) = Neighbors(base[k], patch[k])
             /\ \A i \in Parts : PartOf(base'[k], patch'[k], i) = PartOf(base[k], patch[k], i)
    BY <2>1, <2>2, CompactKeeps
  <2> QED
    BY <2>4, <2>5
<1>2. FoldInv /\ [Next]_vars => [gen' # gen => \A k \in Keys : Same(k)]_vars
  BY <1>1
<1> QED
  BY FoldInitially, FoldStep, <1>2, PTL DEF Spec, CompactionTransparent
----------------------------------------------------------------------------
(* Folding a batch, op by op. *)

\* A nonempty set of natural numbers has a least element.
LEMMA NatMin ==
  ASSUME NEW T, T \subseteq Nat, T # {}
  PROVE  \E x \in T : \A y \in T : x <= y
<1>1. \E x \in T : \A y \in T : ~(<<y, x>> \in OpToRel(<, Nat))
  BY WFMin, NatLessThanWellFounded
<1>2. PICK x \in T : \A y \in T : ~(<<y, x>> \in OpToRel(<, Nat))
  BY <1>1
<1>3. ASSUME NEW y \in T PROVE x <= y
  <2>1. ~(y < x)
    BY <1>2 DEF OpToRel
  <2> QED
    BY <2>1
<1> QED
  BY <1>3

\* PatchesAfter is the function its definition asks for: one exists for every
\* length, since there is no least length without one.
LEMMA PatchesAfterIs ==
  ASSUME NEW p, NEW ops \in Seq(Op)
  PROVE  PatchesAfter(p, ops) =
           [n \in 0 .. Len(ops) |->
              IF n = 0 THEN p ELSE FoldOp(PatchesAfter(p, ops)[n - 1], ops[n])]
<1> DEFINE Fits(g, m) == g = [n \in 0 .. m |-> IF n = 0 THEN p ELSE FoldOp(g[n - 1], ops[n])]
           T == {m \in Nat : ~\E g : Fits(g, m)}
<1>1. CASE T = {}
  <2>1. \E g : Fits(g, Len(ops))
    BY <1>1
  <2> QED
    BY <2>1, Zenon DEF PatchesAfter
<1>2. CASE T # {}
  <2>1. PICK m \in T : \A y \in T : m <= y
    BY <1>2, NatMin
  <2>2. m # 0
    <3>1. Fits([n \in 0 .. 0 |-> p], 0)
      OBVIOUS
    <3> QED
      BY <2>1, <3>1
  <2>3. m - 1 \in Nat /\ m - 1 \notin T
    BY <2>1, <2>2
  <2>4. PICK g : Fits(g, m - 1)
    BY <2>3
  <2> DEFINE more == [n \in 0 .. m |-> IF n = m THEN FoldOp(g[m - 1], ops[m]) ELSE g[n]]
  <2>5. Fits(more, m)
    <3>1. ASSUME NEW n \in 0 .. m
          PROVE  more[n] = IF n = 0 THEN p ELSE FoldOp(more[n - 1], ops[n])
      <4>1. CASE n = m
        <5>1. more[m - 1] = g[m - 1] /\ m - 1 # m /\ m - 1 \in 0 .. m
          BY <2>3
        <5> QED
          BY <2>2, <4>1, <5>1
      <4>2. CASE n # m
        <5>1. n \in 0 .. m - 1 /\ more[n] = g[n]
          BY <2>3, <4>2
        <5>2. g[n] = IF n = 0 THEN p ELSE FoldOp(g[n - 1], ops[n])
          BY <2>4, <5>1
        <5>3. n # 0 => more[n - 1] = g[n - 1]
          BY <2>3, <4>2
        <5> QED
          BY <5>1, <5>2, <5>3
      <4> QED
        BY <4>1, <4>2
    <3> QED
      BY <3>1
  <2> QED
    BY <2>1, <2>5
<1> QED
  BY <1>1, <1>2

LEMMA RefsAfterIs ==
  ASSUME NEW r, NEW ops \in Seq(Op)
  PROVE  RefsAfter(r, ops) =
           [n \in 0 .. Len(ops) |->
              IF n = 0 THEN r ELSE RefOp(RefsAfter(r, ops)[n - 1], ops[n])]
<1> DEFINE Fits(g, m) == g = [n \in 0 .. m |-> IF n = 0 THEN r ELSE RefOp(g[n - 1], ops[n])]
           T == {m \in Nat : ~\E g : Fits(g, m)}
<1>1. CASE T = {}
  <2>1. \E g : Fits(g, Len(ops))
    BY <1>1
  <2> QED
    BY <2>1, Zenon DEF RefsAfter
<1>2. CASE T # {}
  <2>1. PICK m \in T : \A y \in T : m <= y
    BY <1>2, NatMin
  <2>2. m # 0
    <3>1. Fits([n \in 0 .. 0 |-> r], 0)
      OBVIOUS
    <3> QED
      BY <2>1, <3>1
  <2>3. m - 1 \in Nat /\ m - 1 \notin T
    BY <2>1, <2>2
  <2>4. PICK g : Fits(g, m - 1)
    BY <2>3
  <2> DEFINE more == [n \in 0 .. m |-> IF n = m THEN RefOp(g[m - 1], ops[m]) ELSE g[n]]
  <2>5. Fits(more, m)
    <3>1. ASSUME NEW n \in 0 .. m
          PROVE  more[n] = IF n = 0 THEN r ELSE RefOp(more[n - 1], ops[n])
      <4>1. CASE n = m
        <5>1. more[m - 1] = g[m - 1] /\ m - 1 # m /\ m - 1 \in 0 .. m
          BY <2>3
        <5> QED
          BY <2>2, <4>1, <5>1
      <4>2. CASE n # m
        <5>1. n \in 0 .. m - 1 /\ more[n] = g[n]
          BY <2>3, <4>2
        <5>2. g[n] = IF n = 0 THEN r ELSE RefOp(g[n - 1], ops[n])
          BY <2>4, <5>1
        <5>3. n # 0 => more[n - 1] = g[n - 1]
          BY <2>3, <4>2
        <5> QED
          BY <5>1, <5>2, <5>3
      <4> QED
        BY <4>1, <4>2
    <3> QED
      BY <3>1
  <2> QED
    BY <2>1, <2>5
<1> QED
  BY <1>1, <1>2

----------------------------------------------------------------------------
(* Types. *)

\* What an op of each kind carries.
LEMMA OpFields ==
  ASSUME NEW op \in Op
  PROVE  /\ op.key \in Keys
         /\ op.kind \in {"upsert", "edges", "part", "touch", "pin", "remove"}
         /\ op.kind = "upsert" => op.hash \in Hashes /\ op.pinned \in BOOLEAN
         /\ op.kind = "edges" => op.to \in SUBSET Keys
         /\ op.kind = "part" => op.part \in Parts /\ op.to \in SUBSET Values
         /\ op.kind = "touch" => /\ op.outcome \in Outcomes /\ op.given \in Option(Hashes)
                                 /\ op.rec \in TouchType
         /\ op.kind = "pin" => op.pin \in {"on", "off"}
<1>1. CASE op \in [kind : {"upsert"}, key : Keys, hash : Hashes, pinned : BOOLEAN]
  BY <1>1
<1>2. CASE op \in [kind : {"edges"}, key : Keys, to : SUBSET Keys]
  BY <1>2
<1>3. CASE op \in [kind : {"part"}, key : Keys, part : Parts, to : SUBSET Values]
  BY <1>3
<1>4. CASE op \in [kind : {"touch"}, key : Keys, outcome : Outcomes, given : Option(Hashes),
                   rec : TouchType]
  BY <1>4
<1>5. CASE op \in [kind : {"pin"}, key : Keys, pin : {"on", "off"}]
  BY <1>5
<1>6. CASE op \in [kind : {"remove"}, key : Keys]
  BY <1>6
<1> QED
  BY <1>1, <1>2, <1>3, <1>4, <1>5, <1>6 DEF Op

\* A model that is present has a node, edges and parts.
LEMMA ModelFields ==
  ASSUME NEW b \in Model
  PROVE  /\ b.present \in BOOLEAN
         /\ b.present => /\ b.node \in NodeType /\ b.edges \in SUBSET Keys
                         /\ b.parts \in [Parts -> SUBSET Values]
                         /\ b = [present |-> TRUE, node |-> b.node, edges |-> b.edges,
                                 parts |-> b.parts]
         /\ ~b.present => b = NoModel
<1>1. CASE b = NoModel
  BY <1>1 DEF NoModel
<1>2. CASE b \in [present : {TRUE}, node : NodeType, edges : SUBSET Keys,
                  parts : [Parts -> SUBSET Values]]
  BY <1>2
<1> QED
  BY <1>1, <1>2 DEF Model

LEMMA NoPatchType == NoPatch \in Patch
  BY DEF NoPatch, Patch, Option

LEMMA UpsertType ==
  ASSUME NEW e \in Patch, NEW op \in Op, op.kind = "upsert"
  PROVE  FoldUpsert(e, op) \in Patch
<1>1. op.hash \in Hashes /\ op.pinned \in BOOLEAN
  BY OpFields
<1>2. Carried(e) \in Option(Counters)
  BY DEF Carried, Patch, Option, TouchType, Counters
<1>3. FoldedPin(e, op) \in {"unset", "on", "off"}
  BY DEF FoldedPin, Patch
<1>4. [hash |-> op.hash, pinned |-> op.pinned] \in Option(Core)
  BY <1>1 DEF Core, Option
<1>5. None \in Option(TouchType)
  BY DEF Option
<1> QED
  BY <1>2, <1>3, <1>4, <1>5 DEF FoldUpsert, Patch

\* Folding an op into a patch makes a patch.
LEMMA FoldEntryType ==
  ASSUME NEW e \in Patch, NEW op \in Op
  PROVE  FoldEntry(e, op) \in Patch
<1>1. CASE op.kind = "upsert"
  BY <1>1, UpsertType DEF FoldEntry
<1>2. CASE op.kind = "edges"
  <2>1. op.to \in Option(SUBSET Keys)
    BY <1>2, OpFields DEF Option
  <2> QED
    BY <1>2, <2>1 DEF FoldEntry, Patch
<1>3. CASE op.kind = "part"
  <2>1. op.to \in Option(SUBSET Values) /\ op.part \in Parts
    BY <1>3, OpFields DEF Option
  <2>2. [e.parts EXCEPT ![op.part] = op.to] \in [Parts -> Option(SUBSET Values)]
    BY <2>1 DEF Patch
  <2>3. FoldEntry(e, op) = [e EXCEPT !.parts = [e.parts EXCEPT ![op.part] = op.to]]
    BY <1>3 DEF FoldEntry
  <2> QED
    BY <2>2, <2>3 DEF Patch
<1>4. CASE op.kind = "touch"
  <2>1. op.rec \in Option(TouchType)
    BY <1>4, OpFields DEF Option
  <2> QED
    BY <1>4, <2>1 DEF FoldEntry, Patch
<1>5. CASE op.kind = "pin"
  <2>1. op.pin \in {"unset", "on", "off"}
    BY <1>5, OpFields
  <2> QED
    BY <1>5, <2>1 DEF FoldEntry, Patch
<1>6. CASE op.kind = "remove"
  BY <1>6, NoPatchType DEF FoldEntry, FoldRemove, Patch
<1> QED
  BY <1>1, <1>2, <1>3, <1>4, <1>5, <1>6, OpFields

\* The same of the reference model.
LEMMA RefEntryType ==
  ASSUME NEW r \in Option(RefDoc), NEW op \in Op
  PROVE  /\ RefEntry(r, op) \in Option(RefDoc)
         /\ r # None /\ op.kind # "remove" => RefEntry(r, op) \in RefDoc
<1>1. r = None \/ r \in RefDoc
  BY DEF Option
<1>2. CASE op.kind = "upsert"
  <2>1. op.hash \in Option(Hashes) /\ op.pinned \in BOOLEAN /\ 0 \in Counter
    BY <1>2, OpFields, FoldConstants DEF Option, Counter
  <2>2. RefUpsert(r, op) \in RefDoc
    BY <1>1, <2>1 DEF RefUpsert, RefDoc
  <2> QED
    BY <1>2, <2>2 DEF RefEntry, Option
<1>3. CASE op.kind = "remove"
  BY <1>3 DEF RefEntry, Option
<1>4. CASE r = None /\ op.kind \notin {"upsert", "remove"}
  BY <1>4 DEF RefEntry, Option
<1>5. CASE r \in RefDoc /\ r # None /\ op.kind = "edges"
  <2>1. op.to \in SUBSET Keys
    BY <1>5, OpFields
  <2>2. [r EXCEPT !.edges = op.to] \in RefDoc
    BY <1>5, <2>1 DEF RefDoc
  <2> QED
    BY <1>5, <2>2 DEF RefEntry, Option
<1>6. CASE r \in RefDoc /\ r # None /\ op.kind = "part"
  <2>1. op.to \in SUBSET Values /\ op.part \in Parts
    BY <1>6, OpFields
  <2>2. [r.parts EXCEPT ![op.part] = op.to] \in [Parts -> SUBSET Values]
    BY <1>6, <2>1 DEF RefDoc
  <2>3. [r EXCEPT !.parts = [r.parts EXCEPT ![op.part] = op.to]] \in RefDoc
    BY <1>6, <2>2 DEF RefDoc
  <2>4. RefEntry(r, op) = [r EXCEPT !.parts = [r.parts EXCEPT ![op.part] = op.to]]
    BY <1>6 DEF RefEntry
  <2> QED
    BY <2>3, <2>4 DEF Option
<1>7. CASE r \in RefDoc /\ r # None /\ op.kind = "touch"
  <2>1. op.given \in Option(Hashes)
    BY <1>7, OpFields
  <2>2. SaturatingInc(r.checks) \in Counter /\ SaturatingInc(r.changes) \in Counter
    BY <1>7, FoldConstants DEF RefDoc, Counter, SaturatingInc
  <2>3. RefTouch(r, op) \in RefDoc
    BY <1>7, <2>1, <2>2 DEF RefTouch, RefDoc
  <2> QED
    BY <1>7, <2>3 DEF RefEntry, Option
<1>8. CASE r \in RefDoc /\ r # None /\ op.kind = "pin"
  <2>1. [r EXCEPT !.pin = (op.pin = "on")] \in RefDoc
    BY <1>8 DEF RefDoc
  <2> QED
    BY <1>8, <2>1 DEF RefEntry, Option
<1> QED
  BY <1>1, <1>2, <1>3, <1>4, <1>5, <1>6, <1>7, <1>8, OpFields

\* The counters and the interval an observation leaves are in range.
LEMMA TouchRecType ==
  ASSUME NEW n \in NodeType, NEW newer \in Option(Hashes), NEW outcome \in Outcomes,
         NEW given \in Option(Hashes)
  PROVE  TouchRec(n, newer, outcome, given) \in TouchType
<1>1. /\ SaturatingInc(n.checks) \in Counter /\ SaturatingInc(n.changes) \in Counter
      /\ n.changes \in Counter
  BY FoldConstants DEF NodeType, Counter, SaturatingInc
<1>2. ASSUME NEW v \in Int PROVE Clamp(v) \in Nat
  <2>1. MinS \in Nat /\ MaxS \in Nat
    BY TtlOK
  <2> QED
    BY <2>1 DEF Clamp
<1>3. NextInterval(AtLeastOne(n.interval), outcome) \in Nat
  <2>1. PICK s \in Nat : s = AtLeastOne(n.interval)
    BY DEF NodeType, AtLeastOne
  <2>2. /\ GrowNum \in Nat /\ CutNum \in Nat /\ MinS \in Nat
        /\ AtLeastOne(GrowDen) \in Nat \ {0} /\ AtLeastOne(CutDen) \in Nat \ {0}
    BY TtlOK DEF AtLeastOne
  <2>3. ASSUME NEW x \in Nat, NEW d \in Nat \ {0} PROVE x \div d \in Int
    OBVIOUS
  <2>4. s * GrowNum \in Nat /\ s * CutNum \in Nat
    BY <2>2
  <2>5. /\ Clamp((s * GrowNum) \div AtLeastOne(GrowDen)) \in Nat
        /\ Clamp((s * CutNum) \div AtLeastOne(CutDen)) \in Nat
    BY <1>2, <2>2, <2>3, <2>4
  <2>6. NextInterval(s, outcome) \in Nat
    BY <2>2, <2>5 DEF NextInterval, Outcomes
  <2> QED
    BY <2>1, <2>6
<1>4. (IF given # None THEN given ELSE IF newer # None THEN newer ELSE n.hash) \in Option(Hashes)
  BY DEF NodeType
<1> QED
  BY <1>1, <1>3, <1>4 DEF TouchRec, TouchType

\* A node that is read is one, whatever was folded over it.
LEMMA NodeIsNode ==
  ASSUME NEW b \in Model, NEW e \in Patch, HasNode(b, e)
  PROVE  Node(b, e) \in NodeType
<1>1. ASSUME NEW n \in NodeType PROVE Repinned(n, e) \in NodeType
  BY DEF Repinned, NodeType
<1>2. ASSUME NEW n \in NodeType PROVE Touched(n, e) \in NodeType
  <2>1. CASE e.touch = None
    BY <2>1 DEF Touched
  <2>2. CASE e.touch # None
    <3>1. e.touch \in TouchType
      BY <2>2 DEF Patch, Option
    <3> QED
      BY <2>2, <3>1 DEF Touched, NodeType, TouchType
  <2> QED
    BY <2>1, <2>2
<1>3. CASE e.core # None
  <2>1. e.core \in Core
    BY <1>3 DEF Patch, Option
  <2>2. Inherits(b, e) => b.node \in NodeType
    BY ModelFields DEF Inherits
  <2>3. History(b, e).checks \in Counter /\ History(b, e).changes \in Counter
    <3>1. e.carried \in Option(Counters)
      BY DEF Patch
    <3> QED
      BY <2>2, <3>1, FoldConstants DEF History, Option, Counters, Counter, NodeType
  <2>4. LearnedInterval(b, e) \in Nat
    BY <2>2, TtlOK DEF LearnedInterval, AtLeastOne, NodeType
  <2>5. e.core.hash \in Option(Hashes) /\ e.core.pinned \in BOOLEAN
    BY <2>1 DEF Core, Option
  <2>6. (e.core.pinned \/ (Inherits(b, e) /\ b.node.pinned)) \in BOOLEAN
    OBVIOUS
  <2>7. CoreNode(b, e) \in NodeType
    BY <2>3, <2>4, <2>5, <2>6 DEF CoreNode, NodeType
  <2> QED
    BY <1>1, <1>2, <1>3, <2>7 DEF Node
<1>4. CASE e.core = None
  <2>1. b.node \in NodeType
    BY <1>4, ModelFields DEF HasNode
  <2> QED
    BY <1>1, <1>2, <1>4, <2>1 DEF Node
<1> QED
  BY <1>3, <1>4

\* Edges and parts that are read are some.
LEMMA WholeSetType ==
  ASSUME NEW b \in Model, NEW e \in Patch
  PROVE  /\ Neighbors(b, e) \in SUBSET Keys
         /\ \A i \in Parts : PartOf(b, e, i) \in SUBSET Values
<1>1. e.edges \in Option(SUBSET Keys) /\ e.parts \in [Parts -> Option(SUBSET Values)]
  BY DEF Patch
<1>2. /\ (IF b.present THEN b.edges ELSE {}) \in SUBSET Keys
      /\ \A i \in Parts : (IF b.present THEN b.parts[i] ELSE {}) \in SUBSET Values
  BY ModelFields
<1>3. Neighbors(b, e) \in SUBSET Keys
  BY <1>1, <1>2 DEF Neighbors, WholeSet, Option
<1>4. ASSUME NEW i \in Parts PROVE PartOf(b, e, i) \in SUBSET Values
  <2>1. e.parts[i] \in Option(SUBSET Values)
    BY <1>1
  <2> QED
    BY <1>2, <2>1 DEF PartOf, WholeSet, Option
<1> QED
  BY <1>3, <1>4

\* A compaction renders models.
LEMMA RenderedType ==
  ASSUME NEW b \in [Keys -> Model], NEW p \in [Keys -> Patch]
  PROVE  Rendered(Models(b, p)) \in [Keys -> Model]
<1>1. ASSUME NEW k \in Keys PROVE Models(b, p)[k] \in Model
  <2>1. CASE HasNode(b[k], p[k])
    <3>1. /\ Node(b[k], p[k]) \in NodeType /\ Neighbors(b[k], p[k]) \in SUBSET Keys
          /\ \A i \in Parts : PartOf(b[k], p[k], i) \in SUBSET Values
      BY <2>1, NodeIsNode, WholeSetType
    <3>2. [i \in Parts |-> PartOf(b[k], p[k], i)] \in [Parts -> SUBSET Values]
      BY <3>1
    <3>3. Models(b, p)[k] = [present |-> TRUE, node |-> Node(b[k], p[k]),
                              edges |-> Neighbors(b[k], p[k]),
                              parts |-> [i \in Parts |-> PartOf(b[k], p[k], i)]]
      BY <2>1 DEF Models
    <3> QED
      BY <3>1, <3>2, <3>3 DEF Model
  <2>2. CASE ~HasNode(b[k], p[k])
    BY <2>2 DEF Models, Model
  <2> QED
    BY <2>1, <2>2
<1>2. StubModel \in Model
  BY FoldConstants DEF StubModel, Model, NodeType, Counter, Option
<1>3. NoModel \in Model
  BY DEF Model
<1> QED
  BY <1>1, <1>2, <1>3 DEF Rendered

\* What has been folded after n ops.
LEMMA PatchesStep ==
  ASSUME NEW p, NEW ops \in Seq(Op)
  PROVE  /\ PatchesAfter(p, ops)[0] = p
         /\ \A n \in 1 .. Len(ops) :
              PatchesAfter(p, ops)[n] = FoldOp(PatchesAfter(p, ops)[n - 1], ops[n])
<1>1. Len(ops) \in Nat
  OBVIOUS
<1>2. PICK f : f = PatchesAfter(p, ops)
  OBVIOUS
<1>3. f = [n \in 0 .. Len(ops) |-> IF n = 0 THEN p ELSE FoldOp(f[n - 1], ops[n])]
  BY <1>2, PatchesAfterIs
<1>4. f[0] = p /\ \A n \in 1 .. Len(ops) : f[n] = FoldOp(f[n - 1], ops[n])
  BY <1>1, <1>3
<1> QED
  BY <1>2, <1>4

LEMMA RefsStep ==
  ASSUME NEW r, NEW ops \in Seq(Op)
  PROVE  /\ RefsAfter(r, ops)[0] = r
         /\ \A n \in 1 .. Len(ops) :
              RefsAfter(r, ops)[n] = RefOp(RefsAfter(r, ops)[n - 1], ops[n])
<1>1. Len(ops) \in Nat
  OBVIOUS
<1>2. PICK f : f = RefsAfter(r, ops)
  OBVIOUS
<1>3. f = [n \in 0 .. Len(ops) |-> IF n = 0 THEN r ELSE RefOp(f[n - 1], ops[n])]
  BY <1>2, RefsAfterIs
<1>4. f[0] = r /\ \A n \in 1 .. Len(ops) : f[n] = RefOp(f[n - 1], ops[n])
  BY <1>1, <1>3
<1> QED
  BY <1>2, <1>4

LEMMA PatchesType ==
  ASSUME NEW p \in [Keys -> Patch], NEW ops \in Seq(Op), NEW n \in 0 .. Len(ops)
  PROVE  PatchesAfter(p, ops)[n] \in [Keys -> Patch]
<1>1. Len(ops) \in Nat /\ \A i \in 1 .. Len(ops) : ops[i] \in Op
  OBVIOUS
<1>2. PICK f : f = PatchesAfter(p, ops)
  OBVIOUS
<1>3. f[0] = p /\ \A i \in 1 .. Len(ops) : f[i] = FoldOp(f[i - 1], ops[i])
  BY <1>2, PatchesStep
<1>4. ASSUME NEW i \in 1 .. Len(ops), f[i - 1] \in [Keys -> Patch]
      PROVE  f[i] \in [Keys -> Patch]
  <2>1. ASSUME NEW q \in [Keys -> Patch], NEW op \in Op PROVE FoldOp(q, op) \in [Keys -> Patch]
    <3>1. op.key \in Keys /\ FoldEntry(q[op.key], op) \in Patch
      BY OpFields, FoldEntryType
    <3> QED
      BY <3>1 DEF FoldOp
  <2> QED
    BY <1>1, <1>3, <1>4, <2>1
<1> DEFINE T == {i \in 0 .. Len(ops) : f[i] \notin [Keys -> Patch]}
<1>5. ASSUME T # {} PROVE FALSE
  <2>0. T \subseteq Nat
    BY <1>1
  <2>1. PICK i \in T : \A j \in T : i <= j
    <3> HIDE DEF T
    <3> QED
      BY <1>5, <2>0, NatMin
  <2>2. i # 0
    BY <1>3, <2>1
  <2>3. i \in 1 .. Len(ops) /\ i - 1 \in 0 .. Len(ops) /\ i - 1 \notin T
    BY <1>1, <2>1, <2>2
  <2> QED
    BY <1>4, <2>1, <2>3
<1> QED
  BY <1>2, <1>5

LEMMA RefsType ==
  ASSUME NEW r \in [Keys -> Option(RefDoc)], NEW ops \in Seq(Op), NEW n \in 0 .. Len(ops)
  PROVE  RefsAfter(r, ops)[n] \in [Keys -> Option(RefDoc)]
<1>1. Len(ops) \in Nat /\ \A i \in 1 .. Len(ops) : ops[i] \in Op
  OBVIOUS
<1>2. PICK f : f = RefsAfter(r, ops)
  OBVIOUS
<1>3. f[0] = r /\ \A i \in 1 .. Len(ops) : f[i] = RefOp(f[i - 1], ops[i])
  BY <1>2, RefsStep
<1>4. ASSUME NEW i \in 1 .. Len(ops), f[i - 1] \in [Keys -> Option(RefDoc)]
      PROVE  f[i] \in [Keys -> Option(RefDoc)]
  <2>1. ASSUME NEW q \in [Keys -> Option(RefDoc)], NEW op \in Op
        PROVE  RefOp(q, op) \in [Keys -> Option(RefDoc)]
    <3>1. op.key \in Keys /\ RefEntry(q[op.key], op) \in Option(RefDoc)
      BY OpFields, RefEntryType
    <3> QED
      BY <3>1 DEF RefOp
  <2> QED
    BY <1>1, <1>3, <1>4, <2>1
<1> DEFINE T == {i \in 0 .. Len(ops) : f[i] \notin [Keys -> Option(RefDoc)]}
<1>5. ASSUME T # {} PROVE FALSE
  <2>0. T \subseteq Nat
    BY <1>1
  <2>1. PICK i \in T : \A j \in T : i <= j
    <3> HIDE DEF T
    <3> QED
      BY <1>5, <2>0, NatMin
  <2>2. i # 0
    BY <1>3, <2>1
  <2>3. i \in 1 .. Len(ops) /\ i - 1 \in 0 .. Len(ops) /\ i - 1 \notin T
    BY <1>1, <2>1, <2>2
  <2> QED
    BY <1>4, <2>1, <2>3
<1> QED
  BY <1>2, <1>5

\* The hash a staged upsert brings is a hash.
LEMMA StagedHashType ==
  ASSUME FoldTypeOK, NEW w \in Writers, NEW k \in Keys
  PROVE  StagedHash(w, k) \in Option(Hashes)
<1>1. CASE StagedUpserts(w, k) = {}
  BY <1>1 DEF StagedHash, Option
<1>2. CASE StagedUpserts(w, k) # {}
  <2>1. PICK ops \in Seq(Op) : ops = staged[w]
    BY DEF FoldTypeOK
  <2> DEFINE U == StagedUpserts(w, k)
             m == Len(ops)
             T == {m - i : i \in U}
  <2>2. m \in Nat /\ U \subseteq 1 .. m
    BY <2>1 DEF StagedUpserts
  <2> HIDE DEF U, m
  <2>3. T \subseteq Nat /\ T # {}
    <3>1. ASSUME NEW i \in U PROVE m - i \in Nat
      BY <2>2
    <3>2. PICK i \in U : TRUE
      BY <1>2 DEF U
    <3>3. m - i \in T
      OBVIOUS
    <3> QED
      BY <3>1, <3>3
  <2>4. PICK x \in T : \A y \in T : x <= y
    BY <2>3, NatMin
  <2>5. PICK i \in U : x = m - i
    BY <2>4
  <2>6. ASSUME NEW j \in U PROVE i >= j
    <3>1. m - j \in T
      OBVIOUS
    <3>2. x <= m - j /\ i \in Nat /\ j \in Nat
      BY <2>2, <2>4, <3>1
    <3> QED
      BY <2>2, <2>5, <3>2
  <2>7. Max(U) \in U
    BY <2>6 DEF Max
  <2>8. PICK c \in U : c = Max(U)
    BY <2>7
  <2>9. ops[c].kind = "upsert" /\ ops[c] \in Op
    <3>1. c \in 1 .. Len(ops) /\ ops[c].kind = "upsert"
      BY <2>1, <2>8 DEF U, StagedUpserts
    <3> QED
      BY <3>1
  <2>10. ops[c].hash \in Hashes
    BY <2>9, OpFields
  <2>11. StagedHash(w, k) = ops[c].hash
    BY <1>2, <2>1, <2>8 DEF StagedHash, U
  <2> QED
    BY <2>10, <2>11 DEF Option
<1> QED
  BY <1>1, <1>2

LEMMA TypeInitially == Init => FoldTypeOK
<1> SUFFICES ASSUME Init PROVE FoldTypeOK
  OBVIOUS
<1>1. base \in [Keys -> Model] /\ patch \in [Keys -> Patch]
  BY NoPatchType DEF Init, Model
<1>2. Disk \in View
  BY <1>1 DEF Disk, View
<1>3. served \in [Writers -> View]
  BY <1>2 DEF Init
<1>4. staged \in [Writers -> Seq(Op)] /\ ref \in [Keys -> Option(RefDoc)]
  BY DEF Init, Option
<1>5. gen \in 1 .. MaxGen /\ nops \in Nat /\ strict \in BOOLEAN
  BY FoldConstants DEF Init
<1> QED
  BY <1>2, <1>3, <1>4, <1>5 DEF FoldTypeOK

LEMMA PushType ==
  ASSUME FoldTypeOK, NEW w \in Writers, NEW op \in Op, Push(w, op)
  PROVE  FoldTypeOK'
<1>1. UNCHANGED <<Disk, served, gen, ref>>
  BY DEF Push, Disk
<1>2. staged' \in [Writers -> Seq(Op)]
  <2>1. Append(staged[w], op) \in Seq(Op)
    BY DEF FoldTypeOK
  <2> QED
    BY <2>1 DEF Push, FoldTypeOK
<1>3. nops' \in Nat /\ strict' \in BOOLEAN
  BY DEF Push, FoldTypeOK
<1> QED
  BY <1>1, <1>2, <1>3 DEF FoldTypeOK

\* The ops staged are ops.
LEMMA StagedType ==
  ASSUME FoldTypeOK, NEW w \in Writers,
         \/ UpsertNode(w) \/ SetEdges(w) \/ SetPart(w)
         \/ Touch(w) \/ SetPinned(w) \/ RemoveNode(w)
  PROVE  \E op \in Op :
           /\ Push(w, op)
           /\ op.kind = "touch" =>
                op.rec = TouchRec(ServedNode(w, op.key), StagedHash(w, op.key),
                                  op.outcome, op.given)
<1> DEFINE Good(op) ==
      /\ op \in Op /\ Push(w, op)
      /\ op.kind = "touch" =>
           op.rec = TouchRec(ServedNode(w, op.key), StagedHash(w, op.key), op.outcome, op.given)
<1> SUFFICES \E op : Good(op)
  OBVIOUS
<1>1. CASE UpsertNode(w)
  <2>1. PICK k \in Keys, h \in Hashes, pinned \in BOOLEAN :
          Push(w, [kind |-> "upsert", key |-> k, hash |-> h, pinned |-> pinned])
    BY <1>1 DEF UpsertNode
  <2>2. PICK op : op = [kind |-> "upsert", key |-> k, hash |-> h, pinned |-> pinned]
    OBVIOUS
  <2>3. op \in Op /\ op.kind # "touch"
    BY <2>2 DEF Op
  <2> QED
    BY <2>1, <2>2, <2>3
<1>2. CASE SetEdges(w)
  <2>1. PICK k \in Keys, to \in SUBSET Keys :
          Push(w, [kind |-> "edges", key |-> k, to |-> to \ {k}])
    BY <1>2 DEF SetEdges
  <2>2. PICK op : op = [kind |-> "edges", key |-> k, to |-> to \ {k}]
    OBVIOUS
  <2>3. op \in Op /\ op.kind # "touch"
    BY <2>2 DEF Op
  <2> QED
    BY <2>1, <2>2, <2>3
<1>3. CASE SetPart(w)
  <2>1. PICK k \in Keys, i \in Parts, to \in SUBSET Values :
          Push(w, [kind |-> "part", key |-> k, part |-> i, to |-> to])
    BY <1>3 DEF SetPart
  <2>2. PICK op : op = [kind |-> "part", key |-> k, part |-> i, to |-> to]
    OBVIOUS
  <2>3. op \in Op /\ op.kind # "touch"
    BY <2>2 DEF Op
  <2> QED
    BY <2>1, <2>2, <2>3
<1>4. CASE Touch(w)
  <2>1. PICK k \in Keys, outcome \in Outcomes, given \in Hashes \cup {None} :
          /\ ServesNode(w, k)
          /\ Push(w, [kind |-> "touch", key |-> k, outcome |-> outcome, given |-> given,
                      rec |-> TouchRec(ServedNode(w, k), StagedHash(w, k), outcome, given)])
    BY <1>4 DEF Touch
  <2>2. /\ served[w].base[k] \in Model /\ served[w].patch[k] \in Patch
        /\ HasNode(served[w].base[k], served[w].patch[k])
    BY <2>1 DEF FoldTypeOK, View, ServesNode
  <2>3. ServedNode(w, k) \in NodeType
    BY <2>2, NodeIsNode DEF ServedNode
  <2>4. given \in Option(Hashes)
    BY DEF Option
  <2>5. PICK rec \in TouchType :
          rec = TouchRec(ServedNode(w, k), StagedHash(w, k), outcome, given)
    BY <2>3, <2>4, StagedHashType, TouchRecType
  <2>6. PICK op : op = [kind |-> "touch", key |-> k, outcome |-> outcome, given |-> given,
                        rec |-> rec]
    OBVIOUS
  <2>7. op \in Op /\ op.key = k /\ op.outcome = outcome /\ op.given = given /\ op.rec = rec
    BY <2>4, <2>6 DEF Op
  <2> QED
    BY <2>1, <2>5, <2>6, <2>7
<1>5. CASE SetPinned(w)
  <2>1. PICK k \in Keys, pin \in {"on", "off"} :
          Push(w, [kind |-> "pin", key |-> k, pin |-> pin])
    BY <1>5 DEF SetPinned
  <2>2. PICK op : op = [kind |-> "pin", key |-> k, pin |-> pin]
    OBVIOUS
  <2>3. op \in Op /\ op.kind # "touch"
    BY <2>2 DEF Op
  <2> QED
    BY <2>1, <2>2, <2>3
<1>6. CASE RemoveNode(w)
  <2>1. PICK k \in Keys : Push(w, [kind |-> "remove", key |-> k])
    BY <1>6 DEF RemoveNode
  <2>2. PICK op : op = [kind |-> "remove", key |-> k]
    OBVIOUS
  <2>3. op \in Op /\ op.kind # "touch"
    BY <2>2 DEF Op
  <2> QED
    BY <2>1, <2>2, <2>3
<1> QED
  BY <1>1, <1>2, <1>3, <1>4, <1>5, <1>6

\* A commit folds ops over patches, a compaction renders models.
LEMMA TypeStep == FoldTypeOK /\ [Next]_vars => FoldTypeOK'
<1> SUFFICES ASSUME FoldTypeOK, [Next]_vars PROVE FoldTypeOK'
  OBVIOUS
<1>0. /\ base \in [Keys -> Model] /\ patch \in [Keys -> Patch]
      /\ served \in [Writers -> View] /\ staged \in [Writers -> Seq(Op)]
      /\ ref \in [Keys -> Option(RefDoc)] /\ strict \in BOOLEAN
      /\ gen \in 1 .. MaxGen /\ nops \in Nat
  BY DEF FoldTypeOK, Disk, View
<1>1. ASSUME /\ base' \in [Keys -> Model] /\ patch' \in [Keys -> Patch]
             /\ served' \in [Writers -> View] /\ staged' \in [Writers -> Seq(Op)]
             /\ ref' \in [Keys -> Option(RefDoc)] /\ strict' \in BOOLEAN
             /\ gen' \in 1 .. MaxGen /\ nops' \in Nat
      PROVE  FoldTypeOK'
  BY <1>1 DEF FoldTypeOK, Disk, View
<1>2. CASE UNCHANGED vars
  BY <1>0, <1>1, <1>2 DEF vars
<1>3. ASSUME NEW w \in Writers, Discard(w) PROVE FoldTypeOK'
  BY <1>0, <1>1, <1>3 DEF Discard
<1>4. ASSUME NEW w \in Writers, Reload(w) PROVE FoldTypeOK'
  <2>1. Disk \in View
    BY DEF FoldTypeOK
  <2> QED
    BY <1>0, <1>1, <1>4, <2>1 DEF Reload
<1>5. ASSUME NEW w \in Writers, Commit(w) PROVE FoldTypeOK'
  <2>1. staged[w] \in Seq(Op) /\ Len(staged[w]) \in 0 .. Len(staged[w])
    BY <1>0
  <2>2. patch' \in [Keys -> Patch] /\ ref' \in [Keys -> Option(RefDoc)]
    BY <1>0, <1>5, <2>1, PatchesType, RefsType DEF Commit
  <2>3. [base |-> base, patch |-> patch'] \in View
    BY <1>0, <2>2 DEF View
  <2>4. served' \in [Writers -> View]
    BY <1>0, <1>5, <2>3 DEF Commit
  <2>5. staged' \in [Writers -> Seq(Op)] /\ strict' \in BOOLEAN
    BY <1>0, <1>5 DEF Commit
  <2>6. UNCHANGED <<base, gen, nops>>
    BY <1>5 DEF Commit
  <2> QED
    BY <1>0, <1>1, <2>2, <2>4, <2>5, <2>6
<1>6. ASSUME NEW w \in Writers, Compact(w) PROVE FoldTypeOK'
  <2>1. base' \in [Keys -> Model] /\ patch' \in [Keys -> Patch]
    BY <1>0, <1>6, RenderedType, NoPatchType DEF Compact
  <2>2. [base |-> base', patch |-> patch'] \in View
    BY <2>1 DEF View
  <2>3. served' \in [Writers -> View]
    BY <1>0, <1>6, <2>2 DEF Compact
  <2>4. gen' \in 1 .. MaxGen /\ UNCHANGED <<staged, nops, ref, strict>>
    BY <1>0, <1>6, FoldConstants DEF Compact
  <2> QED
    BY <1>0, <1>1, <2>1, <2>3, <2>4
<1>7. ASSUME NEW w \in Writers,
             \/ UpsertNode(w) \/ SetEdges(w) \/ SetPart(w)
             \/ Touch(w) \/ SetPinned(w) \/ RemoveNode(w)
      PROVE  FoldTypeOK'
  BY <1>7, StagedType, PushType
<1> QED
  BY <1>2, <1>3, <1>4, <1>5, <1>6, <1>7 DEF Next

\* Whatever is staged, committed, reloaded and compacted, the counters never
\* pass their width, intervals are natural numbers, and every model, patch and
\* op keeps its shape (Model, OverlayNode and TouchRecord in the code).
THEOREM FoldTypes == Spec => []FoldTypeOK
  BY TypeInitially, TypeStep, PTL DEF Spec

----------------------------------------------------------------------------
(* The reference model.  Matches says key by key what AgreesWithModel says, *)
(* and of a key that is no document that nothing lies in wait in its patch  *)
(* or in the base for a later upsert to inherit.                            *)

\* The fields of the node read, one by one.
HashRead(b, e) ==
  IF e.touch # None THEN e.touch.hash ELSE IF e.core # None THEN e.core.hash ELSE b.node.hash

PinRead(b, e) ==
  IF e.pin # "unset" THEN e.pin = "on"
  ELSE IF e.core # None THEN e.core.pinned \/ (Inherits(b, e) /\ b.node.pinned)
  ELSE b.node.pinned

CountsBelow(b, e) ==
  IF e.core # None THEN History(b, e)
  ELSE [checks |-> b.node.checks, changes |-> b.node.changes]

ChecksRead(b, e)  == IF e.touch # None THEN e.touch.checks ELSE CountsBelow(b, e).checks
ChangesRead(b, e) == IF e.touch # None THEN e.touch.changes ELSE CountsBelow(b, e).changes

StubRead(b, e) == e.core = None /\ b.node.stub

TombRead(b, e) == (e.core = None /\ b.node.tomb) \/ (e.touch # None /\ e.touch.tomb)

\* The document read is r.
Says(b, e, r) ==
  /\ HasNode(b, e) /\ ~StubRead(b, e)
  /\ r.hash = HashRead(b, e) /\ r.pin = PinRead(b, e)
  /\ r.checks = ChecksRead(b, e) /\ r.changes = ChangesRead(b, e)
  /\ r.tomb = TombRead(b, e)
  /\ r.edges = Neighbors(b, e)
  /\ \A i \in Parts : r.parts[i] = PartOf(b, e, i)

\* Nothing for an upsert to find.
Vacant(b, e) == e = FoldRemove(e) \/ (e = NoPatch /\ b \in {NoModel, StubModel})

Matches(b, e, r) == IF r = None THEN Vacant(b, e) ELSE Says(b, e, r)

\* Counters are carried only under an upsert, and a key cut off from its base
\* is removed until it is upserted.
PatchOK(e) ==
  /\ e.core = None => e.carried = None /\ (e.severed => e.removed)
  /\ e.removed => e.core = None /\ e.severed

\* An observation staged as documented is still the right one for what is on
\* disk: nobody committed since, and compactions do not show.
ObservedInv ==
  \A w \in Writers : \A i \in 1 .. Len(staged[w]) :
    LET op == staged[w][i] IN
    op.kind = "touch" =>
      /\ i = 1 /\ Live(base[op.key], patch[op.key])
      /\ op.rec = TouchRec(Node(base[op.key], patch[op.key]), None, op.outcome, op.given)

MatchInv ==
  /\ \A k \in Keys : PatchOK(patch[k])
  /\ strict => ObservedInv /\ \A k \in Keys : Matches(base[k], patch[k], ref[k])

\* What Node returns, field by field.
LEMMA NodeFields ==
  ASSUME NEW b \in Model, NEW e \in Patch, HasNode(b, e)
  PROVE  /\ Node(b, e).hash = HashRead(b, e) /\ Node(b, e).pinned = PinRead(b, e)
         /\ Node(b, e).checks = ChecksRead(b, e) /\ Node(b, e).changes = ChangesRead(b, e)
         /\ Node(b, e).stub = StubRead(b, e) /\ Node(b, e).tomb = TombRead(b, e)
<1>1. PICK n : n = IF e.core # None THEN CoreNode(b, e) ELSE b.node
  OBVIOUS
<1>2. PICK t : t = Repinned(n, e)
  OBVIOUS
<1>3. Node(b, e) = Touched(t, e)
  BY <1>1, <1>2 DEF Node
<1>4. e.core = None => b.node \in NodeType
  BY ModelFields DEF HasNode
<1>5. DOMAIN n = {"hash", "interval", "checks", "changes", "pinned", "stub", "tomb"}
  BY <1>1, <1>4 DEF CoreNode, NodeType
<1>6. /\ n.hash = (IF e.core # None THEN e.core.hash ELSE b.node.hash)
      /\ n.pinned = (IF e.core # None THEN e.core.pinned \/ (Inherits(b, e) /\ b.node.pinned)
                     ELSE b.node.pinned)
      /\ n.checks = CountsBelow(b, e).checks /\ n.changes = CountsBelow(b, e).changes
      /\ n.stub = StubRead(b, e) /\ n.tomb = (e.core = None /\ b.node.tomb)
  <2>1. CASE e.core # None
    BY <1>1, <2>1 DEF CoreNode, CountsBelow, StubRead
  <2>2. CASE e.core = None
    BY <1>1, <1>4, <2>2 DEF CountsBelow, StubRead, NodeType
  <2> QED
    BY <2>1, <2>2
<1>7. /\ t.hash = n.hash /\ t.checks = n.checks /\ t.changes = n.changes
      /\ t.stub = n.stub /\ t.tomb = n.tomb /\ t.pinned = PinRead(b, e)
      /\ DOMAIN t = DOMAIN n
  <2>1. CASE e.pin = "unset"
    BY <1>2, <1>6, <2>1 DEF Repinned, PinRead
  <2>2. CASE e.pin # "unset"
    BY <1>2, <1>5, <2>2 DEF Repinned, PinRead
  <2> QED
    BY <2>1, <2>2
<1>8. CASE e.touch = None
  <2>1. Node(b, e) = t
    BY <1>3, <1>8 DEF Touched
  <2>2. t.tomb = TombRead(b, e)
    BY <1>6, <1>7, <1>8 DEF TombRead
  <2> QED
    BY <1>6, <1>7, <1>8, <2>1, <2>2 DEF HashRead, ChecksRead, ChangesRead
<1>9. CASE e.touch # None
  <2>1. Node(b, e) = [t EXCEPT !.hash = e.touch.hash, !.interval = e.touch.interval,
                               !.checks = e.touch.checks, !.changes = e.touch.changes,
                               !.tomb = t.tomb \/ e.touch.tomb]
    BY <1>3, <1>9 DEF Touched
  <2>2. /\ Node(b, e).hash = e.touch.hash /\ Node(b, e).checks = e.touch.checks
        /\ Node(b, e).changes = e.touch.changes /\ Node(b, e).tomb = (t.tomb \/ e.touch.tomb)
        /\ Node(b, e).stub = t.stub /\ Node(b, e).pinned = t.pinned
    BY <1>5, <1>7, <2>1
  <2>3. (t.tomb \/ e.touch.tomb) = TombRead(b, e)
    BY <1>6, <1>7, <1>9 DEF TombRead
  <2> QED
    BY <1>6, <1>7, <1>9, <2>2, <2>3 DEF HashRead, ChecksRead, ChangesRead
<1> QED
  BY <1>8, <1>9

LEMMA PatchFolds ==
  ASSUME NEW e \in Patch, NEW op \in Op, PatchOK(e)
  PROVE  PatchOK(FoldEntry(e, op))
<1>1. CASE op.kind = "upsert"
  <2>1. op.hash \in Hashes /\ op.pinned \in BOOLEAN
    BY <1>1, OpFields
  <2>2. [hash |-> op.hash, pinned |-> op.pinned] # None
    BY <2>1, NoneIsNothing DEF Core
  <2>3. FoldUpsert(e, op).core # None /\ ~FoldUpsert(e, op).removed
    BY <2>2 DEF FoldUpsert, Patch
  <2> QED
    BY <1>1, <2>3 DEF FoldEntry, PatchOK
<1>2. CASE op.kind = "remove"
  BY <1>2 DEF FoldEntry, FoldRemove, NoPatch, PatchOK
<1>3. CASE op.kind \in {"edges", "part", "touch", "pin"}
  <2>1. PICK f : f = FoldEntry(e, op)
    OBVIOUS
  <2>2. /\ f.core = e.core /\ f.carried = e.carried /\ f.severed = e.severed
        /\ f.removed = e.removed
    BY <1>3, <2>1 DEF FoldEntry, Patch
  <2> QED
    BY <2>1, <2>2 DEF PatchOK
<1> QED
  BY <1>1, <1>2, <1>3, OpFields

\* What a removal leaves of a patch.
LEMMA RemovedFields ==
  ASSUME NEW e, NEW f, f = FoldRemove(e)
  PROVE  /\ f.core = None /\ f.edges = None /\ f.touch = None /\ f.carried = None
         /\ f.pin = "unset" /\ f.removed /\ f.severed
         /\ \A i \in Parts : f.parts[i] = None
  BY DEF FoldRemove, NoPatch

LEMMA VacantFields ==
  ASSUME NEW b, NEW e, Vacant(b, e)
  PROVE  /\ e.core = None /\ e.edges = None /\ e.touch = None /\ e.carried = None
         /\ e.pin = "unset" /\ (e.severed \/ b \in {NoModel, StubModel})
         /\ \A i \in Parts : e.parts[i] = None
<1>1. CASE e = FoldRemove(e)
  BY <1>1, RemovedFields
<1>2. CASE e = NoPatch /\ b \in {NoModel, StubModel}
  BY <1>2 DEF NoPatch
<1> QED
  BY <1>1, <1>2 DEF Vacant

\* An upsert of a key that is no document makes one that inherits nothing.
LEMMA UpsertNew ==
  ASSUME NEW b \in Model, NEW e \in Patch, NEW op \in Op, op.kind = "upsert", Vacant(b, e)
  PROVE  Says(b, FoldEntry(e, op), RefEntry(None, op))
<1>1. op.hash \in Hashes /\ op.pinned \in BOOLEAN
  BY OpFields
<1>2. PICK c : c = [hash |-> op.hash, pinned |-> op.pinned]
  OBVIOUS
<1>3. c # None /\ c.hash = op.hash /\ c.pinned = op.pinned
  BY <1>1, <1>2, NoneIsNothing DEF Core
<1>4. /\ e.core = None /\ e.edges = None /\ e.touch = None /\ e.carried = None
      /\ e.pin = "unset" /\ (e.severed \/ b \in {NoModel, StubModel})
      /\ \A i \in Parts : e.parts[i] = None
  BY VacantFields
<1>5. PICK f \in Patch : f = FoldEntry(e, op)
  BY FoldEntryType
<1>6. f = FoldUpsert(e, op)
  BY <1>5 DEF FoldEntry
<1>7. /\ f.core = c /\ f.touch = None /\ f.carried = None /\ ~f.removed /\ f.severed = e.severed
      /\ f.pin = (IF op.pinned THEN "on" ELSE "unset") /\ f.edges = None
      /\ \A i \in Parts : f.parts[i] = None
  <2>1. Carried(e) = None
    BY <1>4 DEF Carried
  <2>2. FoldedPin(e, op) = IF op.pinned THEN "on" ELSE "unset"
    BY <1>4 DEF FoldedPin
  <2> QED
    BY <1>2, <1>4, <1>6, <2>1, <2>2 DEF FoldUpsert, Patch
<1>8. PICK r : r = RefEntry(None, op)
  OBVIOUS
<1>9. r = [hash |-> op.hash, pin |-> op.pinned, checks |-> 0, changes |-> 0,
           tomb |-> FALSE, edges |-> {}, parts |-> [i \in Parts |-> {}]]
  BY <1>8 DEF RefEntry, RefUpsert
<1>10. Inherits(b, f) =>
         /\ b.node.checks = 0 /\ b.node.changes = 0 /\ ~b.node.pinned
         /\ b.edges = {} /\ \A i \in Parts : b.parts[i] = {}
  BY <1>4, <1>7 DEF Inherits, NoModel, StubModel
<1>11. HasNode(b, f) /\ ~StubRead(b, f) /\ HashRead(b, f) = op.hash /\ TombRead(b, f) = FALSE
  BY <1>3, <1>7 DEF HasNode, StubRead, HashRead, TombRead
<1>12. PinRead(b, f) = op.pinned
  <2>1. CASE op.pinned
    BY <1>1, <1>7, <2>1 DEF PinRead
  <2>2. CASE ~op.pinned
    BY <1>1, <1>3, <1>7, <1>10, <2>2 DEF PinRead
  <2> QED
    BY <2>1, <2>2
<1>13. ChecksRead(b, f) = 0 /\ ChangesRead(b, f) = 0
  BY <1>3, <1>7, <1>10 DEF ChecksRead, ChangesRead, CountsBelow, History
<1>14. Neighbors(b, f) = {} /\ \A i \in Parts : PartOf(b, f, i) = {}
  BY <1>7, <1>10 DEF Neighbors, PartOf, WholeSet, Inherits
<1>15. Says(b, f, r)
  BY <1>9, <1>11, <1>12, <1>13, <1>14 DEF Says
<1> QED
  BY <1>5, <1>8, <1>15

\* An upsert of a document keeps its pin, its counters, its edges and parts.
LEMMA UpsertAgain ==
  ASSUME NEW b \in Model, NEW e \in Patch, NEW op \in Op, op.kind = "upsert", PatchOK(e),
         NEW r \in RefDoc, Says(b, e, r)
  PROVE  Says(b, FoldEntry(e, op), RefEntry(r, op))
<1>1. op.hash \in Hashes /\ op.pinned \in BOOLEAN
  BY OpFields
<1>2. PICK c : c = [hash |-> op.hash, pinned |-> op.pinned]
  OBVIOUS
<1>3. c # None /\ c.hash = op.hash /\ c.pinned = op.pinned
  BY <1>1, <1>2, NoneIsNothing DEF Core
<1>4. PICK f \in Patch : f = FoldEntry(e, op)
  BY FoldEntryType
<1>5. f = FoldUpsert(e, op)
  BY <1>4 DEF FoldEntry
<1>6. /\ f.core = c /\ f.touch = None /\ f.carried = Carried(e) /\ ~f.removed
      /\ f.severed = e.severed /\ f.pin = FoldedPin(e, op) /\ f.edges = e.edges
      /\ f.parts = e.parts
  BY <1>2, <1>5 DEF FoldUpsert, Patch
<1>7. PICK s : s = RefEntry(r, op)
  OBVIOUS
<1>8. /\ s.hash = op.hash /\ s.pin = (r.pin \/ op.pinned) /\ s.tomb = FALSE
      /\ s.checks = r.checks /\ s.changes = r.changes /\ s.edges = r.edges /\ s.parts = r.parts
  <2>1. r # None
    BY NoneIsNothing
  <2>2. s = [r EXCEPT !.hash = op.hash, !.pin = r.pin \/ op.pinned, !.tomb = FALSE]
    BY <1>7, <2>1 DEF RefEntry, RefUpsert
  <2> QED
    BY <2>2 DEF RefDoc
<1>9. HasNode(b, e) /\ ~e.removed /\ (e.core = None => b.present /\ e.carried = None /\ ~e.severed)
  BY DEF Says, HasNode, PatchOK
<1>10. HasNode(b, f) /\ ~StubRead(b, f) /\ HashRead(b, f) = op.hash /\ TombRead(b, f) = FALSE
  BY <1>3, <1>6 DEF HasNode, StubRead, HashRead, TombRead
<1>11. Inherits(b, f) = Inherits(b, e)
  BY <1>6 DEF Inherits
<1>12. e.core \in Option(Core) /\ e.pin \in {"unset", "on", "off"} /\ r.pin \in BOOLEAN
  BY DEF Patch, RefDoc
<1>13. PinRead(b, f) = (r.pin \/ op.pinned)
  <2>1. r.pin = PinRead(b, e)
    BY DEF Says
  <2>2. CASE op.pinned
    BY <1>1, <1>6, <2>2 DEF PinRead, FoldedPin
  <2>3. CASE ~op.pinned /\ e.pin # "unset"
    BY <1>6, <1>12, <2>1, <2>3 DEF PinRead, FoldedPin
  <2>4. CASE ~op.pinned /\ e.pin = "unset" /\ e.core # None
    <3>1. r.pin = (e.core.pinned \/ (Inherits(b, e) /\ b.node.pinned))
      BY <2>1, <2>4 DEF PinRead
    <3>2. CASE e.core.pinned
      BY <1>6, <2>4, <3>1, <3>2 DEF PinRead, FoldedPin
    <3>3. CASE ~e.core.pinned
      <4>1. f.pin = "unset"
        BY <1>6, <2>4, <3>3 DEF FoldedPin
      <4> QED
        BY <1>3, <1>6, <1>11, <2>4, <3>1, <3>3, <4>1 DEF PinRead
    <3> QED
      BY <3>2, <3>3
  <2>5. CASE ~op.pinned /\ e.pin = "unset" /\ e.core = None
    <3>1. r.pin = b.node.pinned /\ Inherits(b, e) /\ f.pin = "unset"
      BY <1>6, <1>9, <2>1, <2>5 DEF PinRead, FoldedPin, Inherits
    <3> QED
      BY <1>3, <1>6, <1>11, <1>12, <2>5, <3>1 DEF PinRead
  <2> QED
    BY <1>1, <2>2, <2>3, <2>4, <2>5
<1>14. ChecksRead(b, f) = r.checks /\ ChangesRead(b, f) = r.changes
  <2>1. /\ ChecksRead(b, f) = History(b, f).checks /\ ChangesRead(b, f) = History(b, f).changes
        /\ r.checks = ChecksRead(b, e) /\ r.changes = ChangesRead(b, e)
    BY <1>3, <1>6 DEF ChecksRead, ChangesRead, CountsBelow, Says
  <2>2. CASE e.touch # None
    <3>1. e.touch \in TouchType
      BY <2>2 DEF Patch, Option
    <3>2. PICK t : t = [checks |-> e.touch.checks, changes |-> e.touch.changes]
      OBVIOUS
    <3>3. t # None /\ f.carried = t
      BY <1>6, <2>2, <3>1, <3>2, NoneIsNothing DEF Carried, Counters, TouchType
    <3>4. History(b, f) = t
      BY <3>3 DEF History
    <3> QED
      BY <2>1, <2>2, <3>2, <3>4 DEF ChecksRead, ChangesRead
  <2>3. CASE e.touch = None /\ e.core # None
    <3>1. f.carried = e.carried
      BY <1>6, <2>3 DEF Carried
    <3>2. History(b, f) = History(b, e)
      BY <1>11, <3>1 DEF History
    <3> QED
      BY <2>1, <2>3, <3>2 DEF ChecksRead, ChangesRead, CountsBelow
  <2>4. CASE e.touch = None /\ e.core = None
    <3>1. f.carried = None /\ Inherits(b, f)
      BY <1>6, <1>9, <1>11, <2>4 DEF Carried, Inherits
    <3>2. History(b, f) = [checks |-> b.node.checks, changes |-> b.node.changes]
      BY <3>1 DEF History
    <3> QED
      BY <2>1, <2>4, <3>2 DEF ChecksRead, ChangesRead, CountsBelow
  <2> QED
    BY <2>2, <2>3, <2>4
<1>15. Neighbors(b, f) = Neighbors(b, e) /\ \A i \in Parts : PartOf(b, f, i) = PartOf(b, e, i)
  BY <1>6, <1>9 DEF Neighbors, PartOf, WholeSet
<1>16. Says(b, f, s)
  BY <1>8, <1>10, <1>13, <1>14, <1>15 DEF Says
<1> QED
  BY <1>4, <1>7, <1>16

\* Replacing edges, a part or the pin of a document changes that and no more.
LEMMA SetsOne ==
  ASSUME NEW b \in Model, NEW e \in Patch, NEW op \in Op, op.kind \in {"edges", "part", "pin"},
         NEW r \in RefDoc, Says(b, e, r)
  PROVE  Says(b, FoldEntry(e, op), RefEntry(r, op))
<1>1. PICK f \in Patch : f = FoldEntry(e, op)
  BY FoldEntryType
<1>2. PICK s : s = RefEntry(r, op)
  OBVIOUS
<1>3. /\ f.core = e.core /\ f.touch = e.touch /\ f.carried = e.carried
      /\ f.removed = e.removed /\ f.severed = e.severed
  BY <1>1 DEF FoldEntry, Patch
<1>4. ~e.removed /\ r # None
  BY NoneIsNothing DEF Says, HasNode
<1>5. /\ s.hash = r.hash /\ s.checks = r.checks /\ s.changes = r.changes /\ s.tomb = r.tomb
  BY <1>2, <1>4 DEF RefEntry, RefDoc
<1>6. /\ HasNode(b, f) /\ ~StubRead(b, f) /\ HashRead(b, f) = HashRead(b, e)
      /\ ChecksRead(b, f) = ChecksRead(b, e) /\ ChangesRead(b, f) = ChangesRead(b, e)
      /\ TombRead(b, f) = TombRead(b, e) /\ Inherits(b, f) = Inherits(b, e)
  BY <1>3 DEF Says, HasNode, StubRead, HashRead, ChecksRead, ChangesRead, CountsBelow, History,
     TombRead, Inherits
<1>7. s.pin = PinRead(b, f)
  <2>1. CASE op.kind = "pin"
    <3>1. f.pin = op.pin /\ s.pin = (op.pin = "on") /\ op.pin \in {"on", "off"}
      BY <1>1, <1>2, <1>4, <2>1, OpFields DEF FoldEntry, RefEntry, Patch, RefDoc
    <3> QED
      BY <3>1 DEF PinRead
  <2>2. CASE op.kind # "pin"
    <3>1. f.pin = e.pin /\ s.pin = r.pin
      BY <1>1, <1>2, <1>4, <2>2 DEF FoldEntry, RefEntry, Patch, RefDoc
    <3> QED
      BY <1>3, <1>6, <3>1 DEF PinRead, Says
  <2> QED
    BY <2>1, <2>2
<1>8. s.edges = Neighbors(b, f)
  <2>1. CASE op.kind = "edges"
    <3>1. f.edges = op.to /\ s.edges = op.to /\ op.to \in SUBSET Keys
      BY <1>1, <1>2, <1>4, <2>1, OpFields DEF FoldEntry, RefEntry, Patch, RefDoc
    <3>2. f.edges # None
      BY <3>1, NoneIsNothing
    <3> QED
      BY <1>3, <1>4, <3>1, <3>2 DEF Neighbors, WholeSet
  <2>2. CASE op.kind # "edges"
    <3>1. f.edges = e.edges /\ s.edges = r.edges
      BY <1>1, <1>2, <1>4, <2>2 DEF FoldEntry, RefEntry, Patch, RefDoc
    <3> QED
      BY <1>3, <3>1 DEF Neighbors, WholeSet, Says
  <2> QED
    BY <2>1, <2>2
<1>9. ASSUME NEW i \in Parts PROVE s.parts[i] = PartOf(b, f, i)
  <2>0. r.parts[i] = PartOf(b, e, i)
    BY DEF Says
  <2>1. CASE op.kind = "part" /\ op.part = i
    <3>1. f.parts[i] = op.to /\ s.parts[i] = op.to /\ op.to \in SUBSET Values
      BY <1>1, <1>2, <1>4, <2>1, OpFields DEF FoldEntry, RefEntry, Patch, RefDoc
    <3>2. f.parts[i] # None
      BY <3>1, NoneIsNothing
    <3> QED
      BY <1>3, <1>4, <3>1, <3>2 DEF PartOf, WholeSet
  <2>2. CASE ~(op.kind = "part" /\ op.part = i)
    <3>1. f.parts[i] = e.parts[i] /\ s.parts[i] = r.parts[i]
      BY <1>1, <1>2, <1>4, <2>2 DEF FoldEntry, RefEntry, Patch, RefDoc
    <3> QED
      BY <1>3, <2>0, <3>1 DEF PartOf, WholeSet
  <2> QED
    BY <2>1, <2>2
<1>10. Says(b, f, s)
  BY <1>5, <1>6, <1>7, <1>8, <1>9 DEF Says
<1> QED
  BY <1>1, <1>2, <1>10

\* An observation of a live document counts one check more.
LEMMA TouchCounts ==
  ASSUME NEW b \in Model, NEW e \in Patch, NEW op \in Op, op.kind = "touch",
         NEW r \in RefDoc, Says(b, e, r), Live(b, e),
         op.rec = TouchRec(Node(b, e), None, op.outcome, op.given)
  PROVE  Says(b, FoldEntry(e, op), RefEntry(r, op))
<1>1. PICK f \in Patch : f = FoldEntry(e, op)
  BY FoldEntryType
<1>2. PICK s : s = RefEntry(r, op)
  OBVIOUS
<1>3. /\ f.core = e.core /\ f.touch = op.rec /\ f.carried = e.carried /\ f.pin = e.pin
      /\ f.removed = e.removed /\ f.severed = e.severed /\ f.edges = e.edges /\ f.parts = e.parts
  BY <1>1 DEF FoldEntry, Patch
<1>4. ~e.removed /\ r # None /\ f.touch # None
  <2>1. op.rec \in TouchType
    BY OpFields
  <2> QED
    BY <1>3, <2>1, NoneIsNothing DEF Says, HasNode
<1>5. /\ s.hash = (IF op.given = None THEN r.hash ELSE op.given)
      /\ s.checks = SaturatingInc(r.checks)
      /\ s.changes = (IF op.outcome = "changed" THEN SaturatingInc(r.changes) ELSE r.changes)
      /\ s.tomb = (r.tomb \/ op.outcome = "gone")
      /\ s.pin = r.pin /\ s.edges = r.edges /\ s.parts = r.parts
  <2>1. s = RefTouch(r, op)
    BY <1>2, <1>4 DEF RefEntry
  <2> QED
    BY <2>1 DEF RefTouch, RefDoc
<1>6. HasNode(b, e)
  BY DEF Says
<1>7. PICK n : n = Node(b, e)
  OBVIOUS
<1>8. /\ n.hash = r.hash /\ n.checks = r.checks /\ n.changes = r.changes /\ n.tomb = r.tomb
      /\ n.tomb = TombRead(b, e)
  BY <1>6, <1>7, NodeFields DEF Says
<1>9. ~n.tomb
  BY <1>7 DEF Live
<1>10. op.rec = [hash |-> IF op.given # None THEN op.given ELSE n.hash,
                 interval |-> NextInterval(AtLeastOne(n.interval), op.outcome),
                 checks |-> SaturatingInc(n.checks),
                 changes |-> IF op.outcome = "changed" THEN SaturatingInc(n.changes)
                             ELSE n.changes,
                 tomb |-> op.outcome = "gone"]
  BY <1>7 DEF TouchRec
<1>11. /\ f.touch.hash = s.hash /\ f.touch.checks = s.checks /\ f.touch.changes = s.changes
       /\ f.touch.tomb = (op.outcome = "gone")
  BY <1>3, <1>5, <1>8, <1>10
<1>12. HasNode(b, f) /\ ~StubRead(b, f) /\ Inherits(b, f) = Inherits(b, e)
  BY <1>3 DEF Says, HasNode, StubRead, Inherits
<1>13. TombRead(b, f) = (op.outcome = "gone") /\ s.tomb = (op.outcome = "gone")
  <2>1. ~(e.core = None /\ b.node.tomb)
    BY <1>8, <1>9 DEF TombRead
  <2>2. ~r.tomb
    BY <1>8, <1>9
  <2> QED
    BY <1>3, <1>4, <1>5, <1>11, <2>1, <2>2 DEF TombRead
<1>14. /\ s.hash = HashRead(b, f) /\ s.checks = ChecksRead(b, f) /\ s.changes = ChangesRead(b, f)
  BY <1>4, <1>11 DEF HashRead, ChecksRead, ChangesRead
<1>15. s.pin = PinRead(b, f)
  BY <1>3, <1>5, <1>12 DEF PinRead, Says
<1>16. s.edges = Neighbors(b, f) /\ \A i \in Parts : s.parts[i] = PartOf(b, f, i)
  BY <1>3, <1>5 DEF Neighbors, PartOf, WholeSet, Says
<1>17. Says(b, f, s)
  BY <1>12, <1>13, <1>14, <1>15, <1>16 DEF Says
<1> QED
  BY <1>1, <1>2, <1>17

\* Each op, folded into its key's patch, does there what it does to the
\* reference model.
LEMMA KeyFolds ==
  ASSUME NEW b \in Model, NEW e \in Patch, NEW r \in Option(RefDoc), NEW op \in Op,
         PatchOK(e), Matches(b, e, r), op.kind \in {"upsert", "remove"} \/ r # None,
         op.kind = "touch" =>
           Live(b, e) /\ op.rec = TouchRec(Node(b, e), None, op.outcome, op.given)
  PROVE  Matches(b, FoldEntry(e, op), RefEntry(r, op))
<1>1. CASE op.kind = "remove"
  <2>1. RefEntry(r, op) = None /\ FoldEntry(e, op) = FoldRemove(FoldEntry(e, op))
    BY <1>1 DEF RefEntry, FoldEntry, FoldRemove
  <2> QED
    BY <2>1 DEF Matches, Vacant
<1>2. CASE r = None /\ op.kind = "upsert"
  <2>1. Says(b, FoldEntry(e, op), RefEntry(r, op))
    BY <1>2, UpsertNew DEF Matches
  <2>2. RefEntry(r, op) # None
    <3>1. RefEntry(r, op) \in RefDoc
      <4>1. op.hash \in Option(Hashes) /\ op.pinned \in BOOLEAN /\ 0 \in Counter
        BY <1>2, OpFields, FoldConstants DEF Option, Counter
      <4> QED
        BY <1>2, <4>1 DEF RefEntry, RefUpsert, RefDoc
    <3> QED
      BY <3>1, NoneIsNothing
  <2> QED
    BY <2>1, <2>2 DEF Matches
<1>3. CASE r # None /\ op.kind # "remove"
  <2>1. r \in RefDoc /\ Says(b, e, r)
    BY <1>3 DEF Matches, Option
  <2>2. Says(b, FoldEntry(e, op), RefEntry(r, op))
    BY <1>3, <2>1, UpsertAgain, SetsOne, TouchCounts, OpFields
  <2>3. RefEntry(r, op) # None
    BY <1>3, <2>1, RefEntryType, NoneIsNothing
  <2> QED
    BY <2>2, <2>3 DEF Matches
<1> QED
  BY <1>1, <1>2, <1>3

\* One op leaves the other keys alone.
LEMMA FoldOpIs ==
  ASSUME NEW p \in [Keys -> Patch], NEW r \in [Keys -> Option(RefDoc)], NEW op \in Op, NEW k \in Keys
  PROVE  /\ k = op.key => /\ FoldOp(p, op)[k] = FoldEntry(p[k], op)
                          /\ RefOp(r, op)[k] = RefEntry(r[k], op)
         /\ k # op.key => FoldOp(p, op)[k] = p[k] /\ RefOp(r, op)[k] = r[k]
<1>1. op.key \in Keys
  BY OpFields
<1> QED
  BY <1>1 DEF FoldOp, RefOp

LEMMA PatchesFold ==
  ASSUME NEW p \in [Keys -> Patch], NEW ops \in Seq(Op), \A k \in Keys : PatchOK(p[k]),
         NEW n \in 0 .. Len(ops), NEW k \in Keys
  PROVE  PatchOK(PatchesAfter(p, ops)[n][k])
<1>1. Len(ops) \in Nat /\ \A i \in 1 .. Len(ops) : ops[i] \in Op
  OBVIOUS
<1>2. PICK f : f = PatchesAfter(p, ops)
  OBVIOUS
<1>3. f[0] = p /\ \A i \in 1 .. Len(ops) : f[i] = FoldOp(f[i - 1], ops[i])
  BY <1>2, PatchesStep
<1>4. \A i \in 0 .. Len(ops) : f[i] \in [Keys -> Patch]
  BY <1>2, PatchesType
<1> DEFINE Good(i) == \A j \in Keys : PatchOK(f[i][j])
           T == {i \in 0 .. Len(ops) : ~Good(i)}
<1>5. ASSUME NEW i \in 1 .. Len(ops), Good(i - 1) PROVE Good(i)
  <2> SUFFICES ASSUME NEW j \in Keys PROVE PatchOK(f[i][j])
    OBVIOUS
  <2>1. PICK q \in [Keys -> Patch] : q = f[i - 1]
    BY <1>1, <1>4
  <2>2. PICK op \in Op : op = ops[i]
    BY <1>1
  <2>3. f[i] = FoldOp(q, op) /\ PatchOK(q[j]) /\ q[j] \in Patch
    BY <1>3, <1>5, <2>1, <2>2
  <2>4. op.key \in Keys
    BY OpFields
  <2>5. f[i][j] = IF j = op.key THEN FoldEntry(q[j], op) ELSE q[j]
    BY <2>3, <2>4 DEF FoldOp
  <2> QED
    BY <2>3, <2>5, PatchFolds
<1>6. ASSUME T # {} PROVE FALSE
  <2>1. T \subseteq Nat
    BY <1>1
  <2>2. PICK i \in T : \A j \in T : i <= j
    <3> HIDE DEF T
    <3> QED
      BY <1>6, <2>1, NatMin
  <2>3. i # 0
    BY <1>3, <2>2
  <2>4. i \in 1 .. Len(ops) /\ i - 1 \in 0 .. Len(ops) /\ i - 1 \notin T
    BY <1>1, <2>2, <2>3
  <2> HIDE DEF Good
  <2> QED
    BY <1>5, <2>2, <2>4
<1> QED
  BY <1>2, <1>6

\* A batch staged as documented does to the patches what it does to the
\* reference model.
LEMMA BatchFolds ==
  ASSUME NEW b \in [Keys -> Model], NEW p \in [Keys -> Patch],
         NEW r \in [Keys -> Option(RefDoc)], NEW ops \in Seq(Op),
         \A k \in Keys : PatchOK(p[k]) /\ Matches(b[k], p[k], r[k]),
         \A i \in 1 .. Len(ops) :
           \/ ops[i].kind \in {"upsert", "remove"}
           \/ RefsAfter(r, ops)[i - 1][ops[i].key] # None,
         \A i \in 1 .. Len(ops) :
           ops[i].kind = "touch" =>
             /\ i = 1 /\ Live(b[ops[i].key], p[ops[i].key])
             /\ ops[i].rec = TouchRec(Node(b[ops[i].key], p[ops[i].key]), None,
                                      ops[i].outcome, ops[i].given),
         NEW n \in 0 .. Len(ops), NEW k \in Keys
  PROVE  Matches(b[k], PatchesAfter(p, ops)[n][k], RefsAfter(r, ops)[n][k])
<1>1. Len(ops) \in Nat /\ \A i \in 1 .. Len(ops) : ops[i] \in Op
  OBVIOUS
<1>2. PICK f : f = PatchesAfter(p, ops)
  OBVIOUS
<1>3. PICK g : g = RefsAfter(r, ops)
  OBVIOUS
<1>4. /\ f[0] = p /\ \A i \in 1 .. Len(ops) : f[i] = FoldOp(f[i - 1], ops[i])
      /\ g[0] = r /\ \A i \in 1 .. Len(ops) : g[i] = RefOp(g[i - 1], ops[i])
  BY <1>2, <1>3, PatchesStep, RefsStep
<1>5. \A i \in 0 .. Len(ops) : /\ f[i] \in [Keys -> Patch] /\ g[i] \in [Keys -> Option(RefDoc)]
                               /\ \A j \in Keys : PatchOK(f[i][j])
  BY <1>2, <1>3, PatchesType, RefsType, PatchesFold
<1> DEFINE Good(i) == \A j \in Keys : Matches(b[j], f[i][j], g[i][j])
           T == {i \in 0 .. Len(ops) : ~Good(i)}
<1>6. ASSUME NEW i \in 1 .. Len(ops), Good(i - 1) PROVE Good(i)
  <2> SUFFICES ASSUME NEW j \in Keys PROVE Matches(b[j], f[i][j], g[i][j])
    OBVIOUS
  <2>1. i - 1 \in 0 .. Len(ops)
    BY <1>1
  <2>2. PICK q \in [Keys -> Patch], s \in [Keys -> Option(RefDoc)], op \in Op :
          q = f[i - 1] /\ s = g[i - 1] /\ op = ops[i]
    BY <1>1, <1>5, <2>1
  <2>3. f[i] = FoldOp(q, op) /\ g[i] = RefOp(s, op)
    BY <1>4, <2>2
  <2>4. Matches(b[j], q[j], s[j]) /\ PatchOK(q[j])
    BY <1>5, <1>6, <2>1, <2>2
  <2>5. CASE j # op.key
    BY <2>3, <2>4, <2>5, FoldOpIs
  <2>6. CASE j = op.key
    <3>1. op.kind \in {"upsert", "remove"} \/ s[j] # None
      BY <1>3, <2>2, <2>6
    <3>2. op.kind = "touch" =>
            Live(b[j], q[j]) /\ op.rec = TouchRec(Node(b[j], q[j]), None, op.outcome, op.given)
      <4> SUFFICES ASSUME op.kind = "touch"
                   PROVE  /\ Live(b[j], q[j])
                          /\ op.rec = TouchRec(Node(b[j], q[j]), None, op.outcome, op.given)
        OBVIOUS
      <4>1. /\ i = 1 /\ Live(b[j], p[j])
            /\ op.rec = TouchRec(Node(b[j], p[j]), None, op.outcome, op.given)
        BY <2>2, <2>6
      <4>2. q = p
        BY <1>4, <2>2, <4>1
      <4> QED
        BY <4>1, <4>2
    <3>3. b[j] \in Model /\ q[j] \in Patch /\ s[j] \in Option(RefDoc)
      OBVIOUS
    <3>4. Matches(b[j], FoldEntry(q[j], op), RefEntry(s[j], op))
      BY <2>4, <3>1, <3>2, <3>3, KeyFolds
    <3> QED
      BY <2>3, <2>6, <3>4, FoldOpIs
  <2> QED
    BY <2>5, <2>6
<1>7. ASSUME T # {} PROVE FALSE
  <2>1. T \subseteq Nat
    BY <1>1
  <2>2. PICK i \in T : \A j \in T : i <= j
    <3> HIDE DEF T
    <3> QED
      BY <1>7, <2>1, NatMin
  <2>3. i # 0
    BY <1>4, <2>2
  <2>4. i \in 1 .. Len(ops) /\ i - 1 \in 0 .. Len(ops) /\ i - 1 \notin T
    BY <1>1, <2>2, <2>3
  <2> HIDE DEF Good
  <2> QED
    BY <1>6, <2>2, <2>4
<1> QED
  BY <1>2, <1>3, <1>7

\* A compaction turns a key that is no document into nothing or a stub.
LEMMA VacantRendered ==
  ASSUME NEW b \in [Keys -> Model], NEW p \in [Keys -> Patch], NEW k \in Keys, Vacant(b[k], p[k])
  PROVE  Rendered(Models(b, p))[k] \in {NoModel, StubModel}
<1>1. Models(b, p)[k] \in {NoModel, StubModel}
  <2>1. CASE ~HasNode(b[k], p[k])
    BY <2>1 DEF Models
  <2>2. CASE HasNode(b[k], p[k])
    <3>1. p[k] = NoPatch /\ b[k].present /\ b[k] \in {NoModel, StubModel}
      <4>1. p[k].core = None
        BY VacantFields
      <4>2. p[k] # FoldRemove(p[k])
        BY <2>2, RemovedFields DEF HasNode
      <4> QED
        BY <2>2, <4>1, <4>2 DEF Vacant, HasNode
    <3>2. b[k] = StubModel
      BY <3>1 DEF NoModel
    <3>3. PICK m : m = Models(b, p)[k]
      OBVIOUS
    <3>4. m = [present |-> TRUE, node |-> Node(b[k], p[k]), edges |-> Neighbors(b[k], p[k]),
               parts |-> [i \in Parts |-> PartOf(b[k], p[k], i)]]
      BY <2>2, <3>3 DEF Models
    <3>5. /\ Node(b[k], p[k]) = StubModel.node /\ Neighbors(b[k], p[k]) = {}
          /\ \A i \in Parts : PartOf(b[k], p[k], i) = {}
      <4>1. /\ Node(b[k], NoPatch) = b[k].node /\ Neighbors(b[k], NoPatch) = b[k].edges
            /\ \A i \in Parts : PartOf(b[k], NoPatch, i) = b[k].parts[i]
        BY <3>1, Unpatched
      <4>2. b[k].edges = {} /\ b[k].node = StubModel.node /\ \A i \in Parts : b[k].parts[i] = {}
        BY <3>2 DEF StubModel
      <4> QED
        BY <3>1, <4>1, <4>2
    <3>6. [i \in Parts |-> PartOf(b[k], p[k], i)] = [i \in Parts |-> {}]
      BY <3>5
    <3>7. m = StubModel
      BY <3>4, <3>5, <3>6 DEF StubModel
    <3> QED
      BY <3>3, <3>7
  <2> QED
    BY <2>1, <2>2
<1> QED
  BY <1>1 DEF Rendered

LEMMA SaysIs ==
  ASSUME NEW b \in Model, NEW e \in Patch, NEW r \in RefDoc
  PROVE  Says(b, e, r) <=>
           /\ IsDoc(b, e)
           /\ r.hash = Node(b, e).hash /\ r.pin = Node(b, e).pinned
           /\ r.checks = Node(b, e).checks /\ r.changes = Node(b, e).changes
           /\ r.tomb = Node(b, e).tomb /\ r.edges = Neighbors(b, e)
           /\ \A i \in Parts : r.parts[i] = PartOf(b, e, i)
<1>1. CASE ~HasNode(b, e)
  BY <1>1 DEF Says, IsDoc
<1>2. CASE HasNode(b, e)
  BY <1>2, NodeFields DEF Says, IsDoc
<1> QED
  BY <1>1, <1>2

\* What matches agrees.
LEMMA MatchAgrees ==
  ASSUME NEW b \in Model, NEW e \in Patch, NEW r \in Option(RefDoc), Matches(b, e, r)
  PROVE  Agrees(b, e, r)
<1>1. CASE r = None
  <2>1. Vacant(b, e) /\ e.core = None
    BY <1>1, VacantFields DEF Matches
  <2>2. CASE e = FoldRemove(e)
    <3>1. e.removed
      BY <2>2, RemovedFields
    <3> QED
      BY <1>1, <3>1 DEF Agrees, IsDoc, HasNode
  <2>3. CASE e = NoPatch /\ b = NoModel
    <3>1. ~b.present
      BY <2>3 DEF NoModel
    <3> QED
      BY <1>1, <2>1, <3>1 DEF Agrees, IsDoc, HasNode
  <2>4. CASE e = NoPatch /\ b = StubModel
    <3>1. b.node.stub
      BY <2>4 DEF StubModel
    <3>2. Node(b, e) = b.node
      BY <2>4, Unpatched
    <3> QED
      BY <1>1, <3>1, <3>2 DEF Agrees, IsDoc
  <2> QED
    BY <2>1, <2>2, <2>3, <2>4 DEF Vacant
<1>2. CASE r # None
  <2>1. r \in RefDoc /\ Says(b, e, r)
    BY <1>2 DEF Matches, Option
  <2>2. /\ IsDoc(b, e)
        /\ r.hash = Node(b, e).hash /\ r.pin = Node(b, e).pinned
        /\ r.checks = Node(b, e).checks /\ r.changes = Node(b, e).changes
        /\ r.tomb = Node(b, e).tomb /\ r.edges = Neighbors(b, e)
        /\ \A i \in Parts : r.parts[i] = PartOf(b, e, i)
    BY <2>1, SaysIs
  <2>3. r.parts = [i \in Parts |-> PartOf(b, e, i)]
    BY <2>1, <2>2 DEF RefDoc
  <2>4. r = [hash |-> Node(b, e).hash, pin |-> Node(b, e).pinned,
             checks |-> Node(b, e).checks, changes |-> Node(b, e).changes,
             tomb |-> Node(b, e).tomb, edges |-> Neighbors(b, e),
             parts |-> [i \in Parts |-> PartOf(b, e, i)]]
    BY <2>1, <2>2, <2>3 DEF RefDoc
  <2> QED
    BY <1>2, <2>2, <2>4 DEF Agrees
<1> QED
  BY <1>1, <1>2

LEMMA MatchInitially == Init => MatchInv
<1> SUFFICES ASSUME Init PROVE MatchInv
  OBVIOUS
<1>1. ASSUME NEW k \in Keys PROVE PatchOK(patch[k]) /\ Matches(base[k], patch[k], ref[k])
  <2>1. base[k] = NoModel /\ patch[k] = NoPatch /\ ref[k] = None
    BY DEF Init
  <2> QED
    BY <2>1 DEF PatchOK, NoPatch, Matches, Vacant
<1>2. ObservedInv
  BY DEF Init, ObservedInv
<1> QED
  BY <1>1, <1>2 DEF MatchInv

\* Staging.
LEMMA MatchPush ==
  ASSUME FoldTypeOK, MatchInv, NEW w \in Writers, NEW op \in Op, Push(w, op),
         op.kind = "touch" =>
           op.rec = TouchRec(ServedNode(w, op.key), StagedHash(w, op.key), op.outcome, op.given)
  PROVE  MatchInv'
<1>1. UNCHANGED <<base, patch, ref>> /\ (strict' => strict)
  BY DEF Push
<1>2. ASSUME strict', NEW v \in Writers, NEW i \in 1 .. Len(staged'[v]), NEW o, o = staged'[v][i],
             o.kind = "touch"
      PROVE  /\ i = 1 /\ Live(base[o.key], patch[o.key])
             /\ o.rec = TouchRec(Node(base[o.key], patch[o.key]), None, o.outcome, o.given)
  <2>1. strict /\ ObservedInv
    BY <1>1, <1>2 DEF MatchInv
  <2>2. CASE i \in 1 .. Len(staged[v]) /\ staged'[v][i] = staged[v][i]
    BY <1>2, <2>1, <2>2 DEF ObservedInv
  <2>3. CASE ~(i \in 1 .. Len(staged[v]) /\ staged'[v][i] = staged[v][i])
    <3>1. PICK u \in Seq(Op) : u = staged[w]
      BY DEF FoldTypeOK
    <3>2. v = w /\ staged'[w] = Append(u, op)
      BY <2>3, <3>1 DEF Push, FoldTypeOK
    <3>3. i = Len(u) + 1 /\ o = op
      BY <1>2, <2>3, <3>1, <3>2
    <3>4. CommittedFirst(w, op.key)
      BY <1>2, <3>3 DEF Push
    <3>5. u = <<>> /\ served[w] = Disk /\ Live(base[op.key], patch[op.key])
      BY <3>1, <3>4 DEF CommittedFirst
    <3>6. ServedNode(w, op.key) = Node(base[op.key], patch[op.key])
      BY <3>5 DEF ServedNode, Disk
    <3>7. StagedHash(w, op.key) = None
      <4>1. Len(staged[w]) = 0
        BY <3>1, <3>5
      <4> QED
        BY <4>1 DEF StagedHash, StagedUpserts
    <3> QED
      BY <1>2, <3>3, <3>5, <3>6, <3>7
  <2> QED
    BY <2>2, <2>3
<1>3. strict' => ObservedInv'
  BY <1>1, <1>2 DEF ObservedInv
<1> QED
  BY <1>1, <1>3 DEF MatchInv

\* A commit.
LEMMA MatchCommit ==
  ASSUME FoldTypeOK, MatchInv, NEW w \in Writers, Commit(w)
  PROVE  MatchInv'
<1>1. PICK ops \in Seq(Op) : ops = staged[w]
  BY DEF FoldTypeOK
<1>2. base \in [Keys -> Model] /\ patch \in [Keys -> Patch] /\ ref \in [Keys -> Option(RefDoc)]
  BY DEF FoldTypeOK, Disk, View
<1>3. /\ base' = base /\ patch' = PatchesAfter(patch, ops)[Len(ops)]
      /\ ref' = RefsAfter(ref, ops)[Len(ops)]
      /\ staged' = [staged EXCEPT ![w] = <<>>]
      /\ (strict' => strict /\ OnDocuments(ops) /\ OvertakesNone(w))
  BY <1>1 DEF Commit
<1>4. Len(ops) \in 0 .. Len(ops)
  OBVIOUS
<1>5. \A k \in Keys : PatchOK(patch'[k])
  BY <1>2, <1>3, <1>4, PatchesFold DEF MatchInv
<1>6. ASSUME strict', NEW k \in Keys PROVE Matches(base'[k], patch'[k], ref'[k])
  <2>1. \A j \in Keys : PatchOK(patch[j]) /\ Matches(base[j], patch[j], ref[j])
    BY <1>3, <1>6 DEF MatchInv
  <2>2. \A i \in 1 .. Len(ops) :
          \/ ops[i].kind \in {"upsert", "remove"}
          \/ RefsAfter(ref, ops)[i - 1][ops[i].key] # None
    BY <1>3, <1>6 DEF OnDocuments
  <2>3. \A i \in 1 .. Len(ops) :
          ops[i].kind = "touch" =>
            /\ i = 1 /\ Live(base[ops[i].key], patch[ops[i].key])
            /\ ops[i].rec = TouchRec(Node(base[ops[i].key], patch[ops[i].key]), None,
                                     ops[i].outcome, ops[i].given)
    BY <1>1, <1>3, <1>6 DEF MatchInv, ObservedInv
  <2>4. Matches(base[k], PatchesAfter(patch, ops)[Len(ops)][k], RefsAfter(ref, ops)[Len(ops)][k])
    BY <1>2, <1>4, <2>1, <2>2, <2>3, BatchFolds
  <2> QED
    BY <1>3, <2>4
<1>7. ASSUME strict' PROVE ObservedInv'
  <2> SUFFICES ASSUME NEW v \in Writers, NEW i \in 1 .. Len(staged'[v])
               PROVE  staged'[v][i].kind # "touch"
    BY DEF ObservedInv
  <2>1. v # w
    BY <1>3 DEF FoldTypeOK
  <2>2. staged'[v] = staged[v]
    BY <1>3, <2>1 DEF FoldTypeOK
  <2> QED
    BY <1>3, <1>7, <2>1, <2>2 DEF OvertakesNone
<1> QED
  BY <1>5, <1>6, <1>7 DEF MatchInv

\* A compaction.
LEMMA MatchCompact ==
  ASSUME FoldTypeOK, FoldInv, MatchInv, NEW w \in Writers, Compact(w)
  PROVE  MatchInv'
<1>1. base \in [Keys -> Model] /\ patch \in [Keys -> Patch] /\ ref \in [Keys -> Option(RefDoc)]
      /\ Closed(base)
  BY DEF FoldTypeOK, Disk, View, FoldInv, BaseClosed
<1>2. /\ base' = Rendered(Models(base, patch)) /\ patch' = [k \in Keys |-> NoPatch]
      /\ UNCHANGED <<staged, ref, strict>>
  BY DEF Compact
<1>3. base' \in [Keys -> Model] /\ patch' \in [Keys -> Patch]
  BY <1>1, <1>2, RenderedType, NoPatchType
<1>4. \A k \in Keys : PatchOK(patch'[k])
  BY <1>2 DEF PatchOK, NoPatch
<1>5. ASSUME NEW k \in Keys, IsDoc(base[k], patch[k])
      PROVE  /\ IsDoc(base'[k], patch'[k])
             /\ Node(base'[k], patch'[k]) = Node(base[k], patch[k])
             /\ Neighbors(base'[k], patch'[k]) = Neighbors(base[k], patch[k])
             /\ \A i \in Parts : PartOf(base'[k], patch'[k], i) = PartOf(base[k], patch[k], i)
  BY <1>1, <1>5, CompactKeeps
<1>6. ASSUME strict, NEW k \in Keys PROVE Matches(base'[k], patch'[k], ref[k])
  <2>1. Matches(base[k], patch[k], ref[k])
    BY <1>6 DEF MatchInv
  <2>2. CASE ref[k] = None
    <3>1. base'[k] \in {NoModel, StubModel} /\ patch'[k] = NoPatch
      BY <1>1, <1>2, <2>1, <2>2, VacantRendered DEF Matches
    <3> QED
      BY <2>2, <3>1 DEF Matches, Vacant
  <2>3. CASE ref[k] # None
    <3>1. PICK r \in RefDoc : r = ref[k]
      BY <1>1, <2>3 DEF Option
    <3>2. PICK b \in Model, e \in Patch, b2 \in Model, e2 \in Patch :
            b = base[k] /\ e = patch[k] /\ b2 = base'[k] /\ e2 = patch'[k]
      BY <1>1, <1>3
    <3>3. Says(b, e, r)
      BY <2>1, <2>3, <3>1, <3>2 DEF Matches
    <3>4. IsDoc(b, e)
      BY <3>3, SaysIs
    <3>5. /\ IsDoc(b2, e2) /\ Node(b2, e2) = Node(b, e) /\ Neighbors(b2, e2) = Neighbors(b, e)
          /\ \A i \in Parts : PartOf(b2, e2, i) = PartOf(b, e, i)
      BY <1>5, <3>2, <3>4
    <3>6. Says(b2, e2, r)
      BY <3>3, <3>5, SaysIs
    <3> QED
      BY <2>3, <3>1, <3>2, <3>6 DEF Matches
  <2> QED
    BY <2>2, <2>3
<1>7. ASSUME strict PROVE ObservedInv'
  <2> SUFFICES ASSUME NEW v \in Writers, NEW i \in 1 .. Len(staged[v]), NEW o, o = staged[v][i],
                      o.kind = "touch"
               PROVE  /\ i = 1 /\ Live(base'[o.key], patch'[o.key])
                      /\ o.rec = TouchRec(Node(base'[o.key], patch'[o.key]), None,
                                          o.outcome, o.given)
    BY <1>2 DEF ObservedInv
  <2>1. /\ i = 1 /\ Live(base[o.key], patch[o.key])
        /\ o.rec = TouchRec(Node(base[o.key], patch[o.key]), None, o.outcome, o.given)
    BY <1>7 DEF MatchInv, ObservedInv
  <2>2. o \in Op
    <3>1. PICK u \in Seq(Op) : u = staged[v]
      BY DEF FoldTypeOK
    <3> QED
      BY <3>1
  <2>3. o.key \in Keys
    BY <2>2, OpFields
  <2>4. /\ IsDoc(base'[o.key], patch'[o.key])
        /\ Node(base'[o.key], patch'[o.key]) = Node(base[o.key], patch[o.key])
    BY <1>5, <2>1, <2>3 DEF Live
  <2> QED
    BY <2>1, <2>4 DEF Live
<1> QED
  BY <1>2, <1>4, <1>6, <1>7 DEF MatchInv

LEMMA MatchStep == FoldTypeOK /\ FoldInv /\ MatchInv /\ [Next]_vars => MatchInv'
<1> SUFFICES ASSUME FoldTypeOK, FoldInv, MatchInv, [Next]_vars PROVE MatchInv'
  OBVIOUS
<1>1. CASE UNCHANGED vars
  BY <1>1 DEF vars, MatchInv, ObservedInv
<1>2. ASSUME NEW w \in Writers, Discard(w) PROVE MatchInv'
  <2>1. UNCHANGED <<base, patch, ref, strict>> /\ staged' = [staged EXCEPT ![w] = <<>>]
    BY <1>2 DEF Discard
  <2>2. ASSUME NEW v \in Writers, NEW i \in 1 .. Len(staged'[v])
        PROVE  i \in 1 .. Len(staged[v]) /\ staged'[v][i] = staged[v][i]
    BY <2>1, <2>2 DEF FoldTypeOK
  <2>3. ObservedInv => ObservedInv'
    BY <2>1, <2>2 DEF ObservedInv
  <2> QED
    BY <2>1, <2>3 DEF MatchInv
<1>3. ASSUME NEW w \in Writers, Reload(w) PROVE MatchInv'
  BY <1>3 DEF Reload, MatchInv, ObservedInv
<1>4. ASSUME NEW w \in Writers,
             \/ UpsertNode(w) \/ SetEdges(w) \/ SetPart(w)
             \/ Touch(w) \/ SetPinned(w) \/ RemoveNode(w)
      PROVE  MatchInv'
  BY <1>4, StagedType, MatchPush
<1> QED
  BY <1>1, <1>2, <1>3, <1>4, MatchCommit, MatchCompact DEF Next

\* For any keys, handles, ops and order of commits, reloads and compactions:
\* as long as every observation was staged as documented, what is read of each
\* key is what the reference model says of it, its pin, counters, tombstone,
\* edges and parts included (OverlayView::build, Snapshot::node, compact_locked).
THEOREM ModelAgreement == Spec => []AgreesWithModel
<1>1. FoldTypeOK /\ MatchInv => AgreesWithModel
  <2> SUFFICES ASSUME FoldTypeOK, MatchInv, strict, NEW k \in Keys
               PROVE  Agrees(base[k], patch[k], ref[k])
    BY DEF AgreesWithModel
  <2>1. base[k] \in Model /\ patch[k] \in Patch /\ ref[k] \in Option(RefDoc)
    BY DEF FoldTypeOK, Disk, View
  <2>2. Matches(base[k], patch[k], ref[k])
    BY DEF MatchInv
  <2> QED
    BY <2>1, <2>2, MatchAgrees
<1> QED
  BY <1>1, TypeInitially, TypeStep, FoldInitially, FoldStep, MatchInitially, MatchStep, PTL
     DEF Spec
=============================================================================
