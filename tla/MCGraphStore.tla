--------------------------- MODULE MCGraphStore ---------------------------
(***************************************************************************)
(* Small instances of GraphStore for TLC.  Handles and ops are model       *)
(* values nothing tells apart, so permuting them is a symmetry wherever    *)
(* every handle has the same role.                                         *)
(***************************************************************************)
EXTENDS StoreRefinement, TLC

WriterSymmetry == Permutations(Handles) \cup Permutations(Ops)
============================================================================
