----------------------------- MODULE MCQuery ------------------------------
(***************************************************************************)
(* Four keys and two terms for TLC.  Every weight, confidence and tier of  *)
(* the code is a small number in the same order.                           *)
(***************************************************************************)
EXTENDS Query

MCClasses == {[etype |-> "derives", exact |-> TRUE, weight |-> 2, inferred |-> FALSE],
              [etype |-> "link", exact |-> FALSE, weight |-> 0, inferred |-> TRUE]}

MCFollows == {{"derives", "link"}, {"derives"}}

MCMatchOf == <<<<9, 3, 9, 0>>, <<0, 0, 1, 3>>>>

MCIdf == [df \in 0 .. 4 |-> 6 - df]

MCRankOf == <<0, 2, 1, 0>>

MCCostOf == <<2, 1, 3, 1>>

MCQueries ==
  {[op |-> "query", terms |-> <<>>, depth |-> 2, maxSeeds |-> 2, limit |-> 2, budget |-> 5],
   [op |-> "query", terms |-> <<1, 2>>, depth |-> 2, maxSeeds |-> 2, limit |-> 3, budget |-> 5],
   [op |-> "query", terms |-> <<1>>, depth |-> 2, maxSeeds |-> 1, limit |-> 4, budget |-> 2]}
============================================================================
