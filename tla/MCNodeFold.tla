----------------------------- MODULE MCNodeFold -----------------------------
(* NodeFold for TLC: keys, handles and hashes are interchangeable. *)
EXTENDS NodeFold, TLC

FoldSymmetry == Permutations(Keys) \cup Permutations(Writers) \cup Permutations(Hashes)
=============================================================================
