------------------------------- MODULE Query -------------------------------
(***************************************************************************)
(* Snapshot::query, beside the walks, on the same thread: lexical scores   *)
(* in the thread's scratch buffers, seeds, a bounded expansion that does   *)
(* not go through hubs, fusion, and an answer within a token budget.       *)
(*                                                                         *)
(* Texts are left out: MatchOf says in which tier a key's words match a    *)
(* term, Idf what a term weighs when df documents hold it exactly.  Scores *)
(* are whole numbers: every factor of the code is a ratio, and each score  *)
(* is scaled by the denominators it has not been divided by yet.  Tokens   *)
(* are u32 and added up as a release build does it, without a check.       *)
(***************************************************************************)
EXTENDS Walk

CONSTANTS
  MatchOf,    \* MatchOf[t][k]: TierExact, TierPrefix, TierSubstr or 0
  ShortTerms, \* terms of two bytes: no substring tier in the lexicon
  TierExact, TierPrefix, TierSubstr,
  Idf,        \* Idf[df]
  RankOf,     \* a key's rank, out of RankMax
  RankMax,
  Queries,    \* [terms, limit, depth, maxSeeds, budget]
  CostOf,     \* a key's rendered entry in tokens
  TokenWrap,  \* 2^32: where the sum of tokens wraps
  WeightMax,  \* 65535 in the code
  InferredNum, InferredDen, \* 0.6
  FuseTraversal, FuseRank,  \* 0.8 and 0.2
  MinHub,     \* 8 in the code
  QueryEdges  \* bound on the edges of a queried snapshot

ASSUME QueryConstants ==
  /\ TierExact > TierPrefix /\ TierPrefix > TierSubstr /\ TierSubstr > 0
  /\ {TierExact, TierPrefix, TierSubstr} \subseteq Nat
  /\ MatchOf \in [DOMAIN MatchOf -> [Keys -> {0, TierSubstr, TierPrefix, TierExact}]]
  /\ Idf \in [0 .. Cardinality(Keys) -> Nat \ {0}]
  /\ RankMax \in Nat /\ RankOf \in [Keys -> Nat] /\ CostOf \in [Keys -> Nat]
  /\ {InferredNum, InferredDen, WeightMax} \subseteq Nat \ {0} /\ InferredNum < InferredDen
  /\ {FuseTraversal, FuseRank} \subseteq Nat /\ MinHub \in Nat
  /\ \A c \in Classes : c.weight \in Nat /\ c.inferred \in BOOLEAN
  /\ \A q \in Queries :
       /\ q.op = "query" /\ q.terms \in Seq(DOMAIN MatchOf)
       /\ {q.depth, q.maxSeeds, q.limit, q.budget} \subseteq Nat
       /\ q.budget < TokenWrap
  /\ TokenWrap \in Nat \ {0} /\ \A k \in Keys : CostOf[k] < TokenWrap
  /\ None \notin Keys

VARIABLES
  scores,   \* Scratch.scores of this thread: [tiered, matched]
  scored,   \* the ids with a score
  term,     \* index of the term being scored
  best,     \* per_term_best
  seeds, fresh, arrival,
  qFrontier, qNext, hop,
  rest,     \* what the rendering loop has yet to look at of `ranked`
  spent

search == <<scores, scored, term, best, seeds, fresh, arrival, qFrontier, qNext, hop>>
query  == <<search, rest, spent>>

vars == <<snapshot, pc, walk, answer, query>>

----------------------------------------------------------------------------
(* The snapshot as a query sees it. *)

BaseKeys == {k \in Keys : kind[k] # "fresh"}

\* The base's own edges: none of what the overlay added.
BaseEdges == {p \in DOMAIN edges : p[1] \in BaseKeys /\ p[2] \in BaseKeys}

Degree(k) == Cardinality({p \in BaseEdges : p[1] = k}) + Cardinality({p \in BaseEdges : p[2] = k})

\* hub_threshold: the 99th percentile of the base's degrees, at least MinHub.
HubThreshold ==
  LET n == Cardinality(BaseKeys)
      atMost(d) == Cardinality({k \in BaseKeys : Degree(k) <= d})
      p99 == Min({d \in {Degree(k) : k \in BaseKeys} : atMost(d) > Min({(n * 99) \div 100, n - 1})})
  IN  Max({MinHub, p99})

\* lex_matches over the lexicon of the last compaction: each document at its
\* best tier.  Stubs have no words.
LexTier(t, k) ==
  IF kind[k] \in {"stub", "fresh"} \/ (t \in ShortTerms /\ MatchOf[t][k] = TierSubstr)
    THEN 0 ELSE MatchOf[t][k]

LexMatches(t) == {k \in Keys : LexTier(t, k) > 0}

\* The idf of a term: of the documents that hold it exactly.
TermIdf(t) == Idf[Cardinality({k \in Keys : LexTier(t, k) = TierExact})]

\* The sums, and the products, of the first 0, 1, 2, ... of the numbers s.
Sums(s) ==
  LET sum[n \in 0 .. Len(s)] == IF n = 0 THEN 0 ELSE sum[n - 1] + s[n] IN sum

Products(s) ==
  LET prod[n \in 0 .. Len(s)] == IF n = 0 THEN 1 ELSE prod[n - 1] * s[n] IN prod

NoScore == [tiered |-> 0, matched |-> 0]

\* Coverage squared, scaled by the number of terms squared.
CoverageScore(s) == s.tiered * s.matched * s.matched

----------------------------------------------------------------------------
QueryInit ==
  /\ scores = [k \in Keys |-> NoScore] /\ scored = {}
  /\ term = 1 /\ best = <<>> /\ seeds = <<>>
  /\ fresh = <<>> /\ arrival = <<>>
  /\ qFrontier = <<>> /\ qNext = <<>> /\ hop = 0
  /\ rest = <<>> /\ spent = 0

Init ==
  /\ \/ req \in WalkRequests /\ Snapshot(WalkEdges, {"stub"})
     \/ req \in Queries /\ Snapshot(QueryEdges, {"tomb", "stub", "removed", "gone", "fresh"})
  /\ WalkInit /\ QueryInit

\* dedup_terms leaves the terms; a query with none has no hits.
StartQuery ==
  /\ pc = "start" /\ req.op = "query"
  /\ pc' = IF req.terms = <<>> THEN "done" ELSE "score"
  /\ UNCHANGED <<snapshot, walk, answer, query>>

\* One term: the ids it matches get its contribution, the best one is noted.
ScoreTerm ==
  LET t == req.terms[term]
      contribution(k) == LexTier(t, k) * TermIdf(t)
      better(a, b) == contribution(a) > contribution(b) \/ (contribution(a) = contribution(b) /\ a < b)
  IN
  /\ pc = "score" /\ term <= Len(req.terms)
  /\ scores' = [k \in Keys |->
       IF k \in LexMatches(t)
         THEN [tiered |-> scores[k].tiered + contribution(k), matched |-> scores[k].matched + 1]
         ELSE scores[k]]
  /\ scored' = scored \cup LexMatches(t)
  /\ best' = Append(best, IF LexMatches(t) = {} THEN None
                          ELSE CHOOSE a \in LexMatches(t) : \A b \in LexMatches(t) \ {a} : better(a, b))
  /\ term' = term + 1
  /\ UNCHANGED <<snapshot, pc, walk, answer, seeds, fresh, arrival, qFrontier, qNext, hop,
                 rest, spent>>

\* Overlay-fresh documents, matched on their own words.
FreshTier(t, k) == MatchOf[t][k]

FreshScores ==
  LET matched(k) == {i \in DOMAIN req.terms : FreshTier(req.terms[i], k) > 0}
      hits == {k \in Keys : kind[k] = "fresh" /\ matched(k) # {}}
      tiers(k) == [i \in DOMAIN req.terms |-> FreshTier(req.terms[i], k) * Idf[0]]
  IN  [k \in hits |-> CoverageScore(
         [tiered |-> Sums(tiers(k))[Len(req.terms)], matched |-> Cardinality(matched(k))])]

\* The leaders by score, then by id.
Better ==
  {p \in scored \X scored :
     LET c1 == CoverageScore(scores[p[1]]) c2 == CoverageScore(scores[p[2]])
     IN  c1 > c2 \/ (c1 = c2 /\ p[1] < p[2])}

Leaders == SubSeq(InOrder(scored, Better), 1, Min({req.maxSeeds, Cardinality(scored)}))

\* Every term's best node, in the order of their ids, then the leaders.
Chosen ==
  LET bests == ToSet(best) \ {None}
      each == InOrder(bests, {p \in bests \X bests : p[1] < p[2]})
      all == each \o InOrder(ToSet(Leaders) \ bests, Better)
  IN  SubSeq(all, 1, Min({req.maxSeeds, Len(all)}))

\* A hop divides a score by this; scores start out scaled for every hop.
PerHop == 2 * WeightMax * InferredDen

Scale[n \in Nat] == IF n = 0 THEN 1 ELSE PerHop * Scale[n - 1]

\* HOP_DECAY times weight times confidence, times PerHop.
Factor(e) == Max({e.weight, 1}) * (IF e.inferred THEN InferredNum ELSE InferredDen)

\* Mutation: only the seeds' scores are cleared.
ClearedSeeds(ids) == [k \in Keys |-> IF k \in ToSet(Chosen) THEN NoScore ELSE scores[k]]

\* The scratch buffers, cleared through the list of what was scored.
Cleared(ids) == [k \in Keys |-> IF k \in ids THEN NoScore ELSE scores[k]]

\* Seeds and their scores; the scratch is given back.
SelectSeeds ==
  /\ pc = "score" /\ term > Len(req.terms)
  /\ seeds' = Chosen /\ fresh' = FreshScores
  /\ arrival' = [k \in ToSet(Chosen) |-> CoverageScore(scores[k]) * Scale[req.depth]]
  /\ qFrontier' = [i \in DOMAIN Chosen |->
                     [key |-> Chosen[i], score |-> CoverageScore(scores[Chosen[i]]) * Scale[req.depth]]]
  /\ qNext' = <<>> /\ hop' = 1
  /\ scores' = Cleared(scored) /\ scored' = {}
  /\ pc' = IF req.depth = 0 THEN "render" ELSE "expand"
  /\ UNCHANGED <<snapshot, walk, answer, term, best, rest, spent>>

\* Mutation: a key once reached keeps its first score.
ImprovesOnce(k, sc) == k \notin DOMAIN arrival

Improves(k, sc) == k \notin DOMAIN arrival \/ sc > arrival[k]

\* Hubs are reached and not gone through, unless they are seeds.
Through(k) == k \in ToSet(seeds) \/ Degree(k) < HubThreshold

\* The score sc of u, carried over the edge to k.
Carried(sc, u, k) == (sc * Factor(edges[<<u, k>>])) \div PerHop

\* One entry of the frontier.  A destination without a base id is not
\* reached at all.
ExpandEntry ==
  LET u == Head(qFrontier)
      score(k) == Carried(u.score, u.key, k)
      better == {k \in BaseKeys : /\ Through(u.key) /\ <<u.key, k>> \in DOMAIN edges
                                  /\ score(k) > 0 /\ Improves(k, score(k))}
  IN
  /\ pc = "expand" /\ qFrontier # <<>>
  /\ qFrontier' = Tail(qFrontier)
  /\ arrival' = [k \in DOMAIN arrival \cup better |-> IF k \in better THEN score(k) ELSE arrival[k]]
  /\ \E order \in SetToSeqs(better) :
       qNext' = qNext \o [i \in DOMAIN order |-> [key |-> order[i], score |-> score(order[i])]]
  /\ UNCHANGED <<snapshot, pc, walk, answer, scores, scored, term, best, seeds, fresh, hop, rest, spent>>

NextHop ==
  /\ pc = "expand" /\ qFrontier = <<>>
  /\ IF qNext = <<>> \/ hop = req.depth
       THEN pc' = "render" /\ UNCHANGED <<qFrontier, qNext, hop>>
       ELSE qFrontier' = qNext /\ qNext' = <<>> /\ hop' = hop + 1 /\ UNCHANGED pc
  /\ UNCHANGED <<snapshot, walk, answer, scores, scored, term, best, seeds, fresh, arrival,
                 rest, spent>>

\* Reached documents of the base, less the ones the base has a tombstone for
\* or the overlay removed, and the fresh ones.
Candidates ==
  {k \in DOMAIN arrival : kind[k] \notin {"tomb", "stub", "removed"}} \cup DOMAIN fresh

IsSeed(k) == k \in ToSet(seeds) \cup DOMAIN fresh

MaxOf(f) == Max({f[k] : k \in DOMAIN f} \cup {1})

\* Fused score, scaled by RankMax and by the largest arrival and fresh score.
Fused(k) ==
  IF k \in DOMAIN fresh
    THEN FuseTraversal * RankMax * MaxOf(arrival) * fresh[k]
    ELSE FuseTraversal * RankMax * arrival[k] * MaxOf(fresh)
           + FuseRank * RankOf[k] * MaxOf(arrival) * MaxOf(fresh)

\* Seeds first, then by fused score, then by key.
RankedBefore(a, b) ==
  IF IsSeed(a) # IsSeed(b) THEN IsSeed(a)
  ELSE Fused(a) > Fused(b) \/ (Fused(a) = Fused(b) /\ a < b)

Ranked ==
  InOrder(Candidates, {p \in Candidates \X Candidates : RankedBefore(p[1], p[2])})

\* The hits are assembled and sorted; nothing is put out yet.
Rank ==
  /\ pc = "render" /\ pc' = "pack"
  /\ rest' = Ranked /\ spent' = 0
  /\ UNCHANGED <<snapshot, walk, answer, search>>

\* Mutation: an entry is held against the budget by itself.
WithNextAlone == CostOf[Head(rest)]

\* What is spent with the next entry.
WithNext == (spent + CostOf[Head(rest)]) % TokenWrap

NextFits == rest # <<>> /\ Len(answer) < req.limit /\ WithNext <= req.budget

\* One round of the loop: the next entry is put out.  A candidate is a
\* document of the base or the overlay, so node() finds it.
Pack ==
  /\ pc = "pack" /\ NextFits
  /\ answer' = Append(answer, Head(rest))
  /\ rest' = Tail(rest) /\ spent' = WithNext
  /\ UNCHANGED <<snapshot, pc, walk, search>>

\* None is left, the limit is reached, or the next one does not fit: there the
\* loop ends, though a later one might.
PackDone ==
  /\ pc = "pack" /\ ~NextFits
  /\ pc' = "done"
  /\ UNCHANGED <<snapshot, walk, answer, query>>

QueryNext ==
  StartQuery \/ ScoreTerm \/ SelectSeeds \/ ExpandEntry \/ NextHop \/ Rank \/ Pack \/ PackDone

Next == (WalkNext /\ UNCHANGED query) \/ QueryNext

Spec == Init /\ [][Next]_vars

----------------------------------------------------------------------------
(* Properties. *)

\* Between queries, and from the moment the seeds are chosen, the thread's
\* scratch is all zero ("left all-zero after each use"): what one query
\* leaves in it would be counted by the next one on this thread.
ReadsInv ==
  /\ pc \in {"start", "walk", "sort", "score", "expand", "render", "pack", "done"}
  /\ seen \subseteq Keys /\ DOMAIN arrival \subseteq BaseKeys
  /\ pc # "score" => scores = [k \in Keys |-> NoScore]

\* What a key scores for the request, from its words alone.
WordScore(k) ==
  LET tiers == [i \in DOMAIN req.terms |-> LexTier(req.terms[i], k) * TermIdf(req.terms[i])]
      matched == {i \in DOMAIN req.terms : LexTier(req.terms[i], k) > 0}
  IN  CoverageScore([tiered |-> Sums(tiers)[Len(req.terms)], matched |-> Cardinality(matched)])

\* The paths of n edges from a seed to k, through seeds and nodes that are
\* no hubs, and what such a path scores, scaled for the hops it leaves.
SeedPaths(n, k) ==
  {q \in [0 .. n -> BaseKeys] :
     /\ q[0] \in ToSet(seeds) /\ q[n] = k
     /\ \A i \in 1 .. n : <<q[i - 1], q[i]>> \in DOMAIN edges
     /\ \A i \in 1 .. n - 1 : Through(q[i])}

PathScore(q, n) ==
  WordScore(q[0]) * Scale[req.depth - n]
    * Products([i \in 1 .. n |-> Factor(edges[<<q[i - 1], q[i]>>])])[n]

PathScores(k) ==
  UNION {{PathScore(q, n) : q \in SeedPaths(n, k)} : n \in 0 .. req.depth}

\* Every term has its best match among the seeds if there is room for one
\* each ("every query term seats its best node"), and every node the
\* expansion reaches is given the best score of any path of at most depth
\* edges that goes through no hub, whichever path found it first.
ArrivalIsBest ==
  pc = "render" =>
    /\ Len(req.terms) <= req.maxSeeds =>
         \A i \in DOMAIN req.terms :
           LET t == req.terms[i] IN
           LexMatches(t) # {} => \E k \in ToSet(seeds) : \A m \in LexMatches(t) : LexTier(t, k) >= LexTier(t, m)
    /\ DOMAIN arrival = {k \in BaseKeys : PathScores(k) # {}}
    /\ \A k \in DOMAIN arrival : arrival[k] = Max(PathScores(k))

\* What the first 0, 1, 2, ... of the entries ks cost.
Tokens(ks) == Sums([i \in DOMAIN ks |-> CostOf[ks[i]]])

\* The sum of tokens does not wrap: the budget is far enough below 2^32, or
\* the documents together cost less than that.
NoWrap ==
  \/ \A k \in Candidates : req.budget + CostOf[k] < TokenWrap
  \/ Tokens(Ranked)[Len(Ranked)] < TokenWrap

\* The answer is no longer than the limit, in an order that depends on the
\* snapshot and the request alone, with the seeds first and no document passed
\* over for a later one.  As long as the u32 sum does not wrap, its real cost is
\* within the budget, and below the limit the loop stopped only at a document
\* for which there was no room.
AnswerFits ==
  pc = "done" /\ req.op = "query" /\ req.terms # <<>> =>
    LET left == Candidates \ ToSet(answer)
        cost == Tokens(answer)[Len(answer)]
    IN
    /\ Len(answer) <= req.limit
    /\ \A i, j \in DOMAIN answer : i < j => RankedBefore(answer[i], answer[j])
    /\ \A k \in ToSet(answer), m \in left : RankedBefore(k, m)
    /\ NoWrap => cost <= req.budget
    /\ NoWrap /\ left # {} /\ Len(answer) < req.limit =>
         \E m \in left : cost + CostOf[m] > req.budget
                         /\ \A o \in left \ {m} : RankedBefore(m, o)
============================================================================
