------------------------------- MODULE Walk -------------------------------
(***************************************************************************)
(* Walks over a snapshot: Snapshot::walk, walk_both and the Python walk    *)
(* that asks them for the nearest documents.                               *)
(*                                                                         *)
(* A snapshot does not change under a read.  Its merged reads (neighbors,  *)
(* in_edges, node) are NodeFold's subject; here they are a kind per key    *)
(* and a class per edge.  A Walk is kept per thread and reused, so it      *)
(* starts out with what an earlier walk left in it.                        *)
(***************************************************************************)
EXTENDS Naturals, Sequences, SequencesExt, FiniteSets, FiniteSetsExt

CONSTANTS
  Keys,      \* numbers: the order of the urls
  Odd,       \* bound: the keys that may be anything but a document of the base
  MostOdd,   \* bound: how many of them are at once
  Classes,   \* edges: [etype, exact, weight, inferred]
  Follows,   \* sets of edge types a walk may be asked to follow
  Starts, Limits, Depths,
  WalkEdges, \* bound on the edges of a walked snapshot
  None

ASSUME WalkConstants ==
  /\ Keys \subseteq Nat /\ IsFiniteSet(Keys)
  /\ Limits \subseteq Nat /\ Depths \subseteq Nat
  /\ Odd \subseteq Keys /\ Starts \subseteq Keys
  /\ \A c \in Classes : c.exact \in BOOLEAN

VARIABLES
  kind, edges,          \* the snapshot
  req,                  \* the read asked for
  pc,
  seen, frontier, next, \* the Walk
  at, depth,            \* loop indices of walk_along
  reached,              \* the hops visit accepted
  answer

snapshot == <<kind, edges, req>>
walk     == <<seen, frontier, next, at, depth, reached>>

----------------------------------------------------------------------------
(* The snapshot. *)

\* doc_url finds a url: a node that is neither removed nor a stub.
Docs == {k \in Keys : kind[k] \notin {"stub", "removed"}}

\* Keys of any kind, few of them not plain documents of the base; edges leave
\* documents and never return to their source.
Snapshot(most, kinds) ==
  /\ kind \in [Keys -> kinds \cup {"doc"}]
  /\ LET odd == {k \in Keys : kind[k] # "doc"} IN odd \subseteq Odd /\ Cardinality(odd) <= MostOdd
  /\ LET pairs == {p \in Keys \X Keys : p[1] # p[2]}
     IN  edges \in UNION {[P -> Classes] : P \in UNION {kSubset(n, pairs) : n \in 0 .. most}}
  /\ \A p \in DOMAIN edges : p[1] \in Docs

\* The edge walk_along crosses from n to k: outbound ones are offered first.
Crosses(p) == p \in DOMAIN edges /\ edges[p].etype \in req.follow
OutTo(n, k) == req.way \in {"out", "both"} /\ Crosses(<<n, k>>)
InFrom(n, k) == req.way \in {"in", "both"} /\ Crosses(<<k, n>>)
Linked(n, k) == OutTo(n, k) \/ InFrom(n, k)

Exact(n, k) == IF OutTo(n, k) THEN edges[<<n, k>>].exact ELSE edges[<<k, n>>].exact

----------------------------------------------------------------------------
(* The walk. *)

WalkRequests ==
  [op : {"walk"}, start : Starts, way : {"out", "in", "both"}, follow : Follows,
   limit : Limits, depth : Depths]

WalkInit ==
  /\ pc = "start" /\ answer = <<>> /\ reached = <<>>
  /\ seen = Keys /\ frontier = <<>> /\ next = <<>>
  /\ at = 1 /\ depth = 0

\* The Python walk's early return; then the Walk is cleared.
StartWalk ==
  /\ pc = "start" /\ req.op = "walk"
  /\ IF req.limit = 0 \/ req.start \notin Docs
       THEN pc' = "done" /\ UNCHANGED walk
       ELSE /\ seen' = {req.start}
            /\ frontier' = <<[key |-> req.start, exact |-> TRUE]>>
            /\ next' = <<>> /\ at' = 1 /\ depth' = 1 /\ reached' = <<>>
            /\ pc' = IF req.depth = 0 THEN "sort" ELSE "walk"
  /\ UNCHANGED <<snapshot, answer>>

\* Mutation: a chain is exact if its last edge is.
HopLastEdge(from, k) ==
  [key |-> k, from |-> from.key, depth |-> depth, exact |-> Exact(from.key, k)]

Hop(from, k) ==
  [key |-> k, from |-> from.key, depth |-> depth,
   exact |-> from.exact /\ Exact(from.key, k)]

\* Mutation: stops one document early.
GoOnEarly(found) == Len(found) + 1 < req.limit

\* What visit answers once it has taken a document.
GoOn(found) == Len(found) < req.limit

\* What a node of the frontier still offers: its edges in the order of their
\* keys (hashes of the urls: any order), outbound ones before inbound ones.
Outs(n) == {k \in Keys \ seen : OutTo(n, k)}
Ins(n)  == {k \in Keys \ seen : InFrom(n, k)}
Offered(n) == IF Outs(n) # {} THEN Outs(n) ELSE Ins(n)

\* visit keeps documents; the walk goes on from those it says to pass.
Visit(h) ==
  LET found == Append(reached, h) IN
  IF h.key \in Docs
    THEN /\ reached' = found
         /\ next' = IF GoOn(found) THEN Append(next, [key |-> h.key, exact |-> h.exact]) ELSE next
    ELSE UNCHANGED <<reached, next>>

\* One edge of the node at hand, to a key not seen before.
Step ==
  /\ pc = "walk" /\ at <= Len(frontier)
  /\ \E k \in Offered(frontier[at].key) :
       seen' = seen \cup {k} /\ Visit(Hop(frontier[at], k))
  /\ UNCHANGED <<snapshot, pc, frontier, at, depth, answer>>

\* The node's other edges lead to what was seen.
NodeDone ==
  /\ pc = "walk" /\ at <= Len(frontier)
  /\ Offered(frontier[at].key) = {}
  /\ at' = at + 1
  /\ UNCHANGED <<snapshot, pc, seen, frontier, next, depth, reached, answer>>

\* The frontier is done: the next one, unless it is empty or too deep.
NextLevel ==
  /\ pc = "walk" /\ at > Len(frontier)
  /\ IF next = <<>> \/ depth = req.depth
       THEN pc' = "sort" /\ UNCHANGED <<frontier, next, at, depth>>
       ELSE /\ frontier' = next /\ next' = <<>>
            /\ at' = 1 /\ depth' = depth + 1
            /\ UNCHANGED pc
  /\ UNCHANGED <<snapshot, seen, reached, answer>>

\* The elements of S, each once, in the order of the pairs of R.
InOrder(S, R) ==
  CHOOSE s \in [1 .. Cardinality(S) -> S] :
    \A i, j \in 1 .. Cardinality(S) : i < j => <<s[i], s[j]>> \in R

\* The order of (u32, &str): by distance, then by url.
Nearer ==
  {p \in ToSet(reached) \X ToSet(reached) :
     \/ p[1].depth < p[2].depth
     \/ p[1].depth = p[2].depth /\ p[1].key < p[2].key}

\* Sorted by distance and url, cut to the limit.
SortWalk ==
  LET sorted == InOrder(ToSet(reached), Nearer) IN
  /\ pc = "sort" /\ pc' = "done"
  /\ answer' = [i \in 1 .. Min({req.limit, Len(sorted)}) |-> sorted[i].key]
  /\ UNCHANGED <<snapshot, walk>>

WalkNext == StartWalk \/ Step \/ NodeDone \/ NextLevel \/ SortWalk

----------------------------------------------------------------------------
(* Properties. *)

\* A path of n edges from the start to k through documents.
Paths(n, k) ==
  {p \in [0 .. n -> Keys] :
     /\ p[0] = req.start /\ p[n] = k
     /\ \A i \in 1 .. n - 1 : p[i] \in Docs
     /\ \A i \in 1 .. n : Linked(p[i - 1], p[i])}

Distances(k) == {n \in 1 .. req.depth : Paths(n, k) # {}}

Reachable == {k \in Docs \ {req.start} : Distances(k) # {}}

\* The walk answers exactly the documents reachable from url within depth,
\* each once, by distance and then url, and of too many the nearest, though
\* expanding stops in the middle of a level and the Walk was used before
\* ("the nearest `limit` by (distance, url) are exactly the first `limit`
\* after sorting").
NearestDocuments ==
  pc = "done" /\ req.op = "walk" /\ req.start \in Docs =>
    LET before(a, b) ==
          LET da == Min(Distances(a)) db == Min(Distances(b))
          IN  da < db \/ (da = db /\ a < b)
    IN  /\ ToSet(answer) \subseteq Reachable
        /\ Len(answer) = Min({req.limit, Cardinality(Reachable)})
        /\ \A i \in DOMAIN answer : \A k \in Reachable \ {answer[j] : j \in 1 .. i} :
             before(answer[i], k)

\* Every hop visited is visited once, at its shortest distance, and is
\* called an exact chain only if some path of that length has EXACT on every
\* edge.
HopsTrue ==
  pc \in {"walk", "sort"} =>
    \A i \in DOMAIN reached :
      /\ \A j \in DOMAIN reached : reached[i].key = reached[j].key => i = j
      /\ reached[i].depth = Min(Distances(reached[i].key))
      /\ reached[i].exact =>
           \E p \in Paths(reached[i].depth, reached[i].key) :
             \A n \in 1 .. reached[i].depth : Exact(p[n - 1], p[n])
============================================================================
