--------------------------- MODULE MCCommitLock ---------------------------
(***************************************************************************)
(* Two threads on one handle, where mutex and commit lock can be taken in  *)
(* either order, and a third on a handle of its own.                       *)
(***************************************************************************)
EXTENDS CommitLock

CONSTANTS t1, t2, t3, h1, h2

MCThreads  == {t1, t2, t3}
MCHandleOf == [t \in MCThreads |-> IF t = t3 THEN h2 ELSE h1]
============================================================================
