\* One read, a walk or a query, of every snapshot of four keys and few edges.
CONSTANTS
  Keys = {1, 2, 3, 4}
  Odd = {1, 3}
  MostOdd = 1
  Classes <- MCClasses
  Follows <- MCFollows
  Starts = {1}
  Limits = {1, 2}
  Depths = {2}
  WalkEdges = 3
  MatchOf <- MCMatchOf
  ShortTerms = {2}
  TierExact = 9
  TierPrefix = 3
  TierSubstr = 1
  Idf <- MCIdf
  RankOf <- MCRankOf
  RankMax = 2
  Queries <- MCQueries
  CostOf <- MCCostOf
  TokenWrap = 6
  WeightMax = 2
  InferredNum = 3
  InferredDen = 5
  FuseTraversal = 4
  FuseRank = 1
  MinHub = 3
  QueryEdges = 3
  None = None
SPECIFICATION Spec
CHECK_DEADLOCK FALSE
INVARIANTS
  ReadsInv
  NearestDocuments
  HopsTrue
  ArrivalIsBest
  AnswerFits
