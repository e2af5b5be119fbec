-------------------------- MODULE StoreRefinement --------------------------
(***************************************************************************)
(* The directory and its handles implement AbstractStore: the history is   *)
(* what opening the directory would serve, the sure part is what was       *)
(* acknowledged, and a view is what a handle serves.                       *)
(***************************************************************************)
EXTENDS GraphStore

ASSUME NoneIsNoView ==
  None \notin Seq(Ops)

AckedSeqs == {a.entry.seq : a \in acked}

HistNow == IF base = None THEN <<>> ELSE Recovered

SureNow ==
  IF acked = {} THEN 0 ELSE CHOOSE n \in AckedSeqs : \A m \in AckedSeqs : m <= n

ViewsNow == [h \in Handles |-> IF Open(h) THEN View(served[h]) ELSE None]

Promised == INSTANCE AbstractStore WITH hist <- HistNow, sure <- SureNow, view <- ViewsNow

\* Every step of files, locks, torn writes, compactions and crashes is a step
\* of the abstract store or none at all.
ImplementsStore == Promised!Spec
============================================================================
