--------------------------- MODULE AbstractStore ---------------------------
(***************************************************************************)
(* What a graph-r store promises the handles open on it, files and locks   *)
(* left out: one history of ops that only grows at its end, and for each   *)
(* open handle a view that is a prefix of it and never goes back.  Power   *)
(* loss closes every handle and may take the end of the history, but none  *)
(* of what some commit has returned Ok for.                                *)
(***************************************************************************)
EXTENDS Integers, Sequences, SequencesExt

CONSTANTS Handles, Ops, None

VARIABLES
  hist,  \* the ops the directory holds, in sequence-number order
  sure,  \* how many of them are acknowledged
  view   \* what each handle serves: a sequence of ops, or None

Init ==
  /\ hist = <<>>
  /\ sure = 0
  /\ view = [h \in Handles |-> None]

\* A record reaches the log: one transaction, whole.
Record ==
  /\ hist' \in Seq(Ops) /\ IsStrictPrefix(hist, hist')
  /\ UNCHANGED <<sure, view>>

\* Handle h now serves `seq`: at least what it served, nothing uncommitted.
Show(h, seq) ==
  /\ view[h] # None => IsPrefix(view[h], seq)
  /\ IsPrefix(seq, hist)
  /\ view' = [view EXCEPT ![h] = seq]

\* An open, a reload, or the catch-up before a write.
CatchUp(h) ==
  /\ view'[h] # None /\ Show(h, view'[h])
  /\ UNCHANGED <<hist, sure>>

\* A commit returns Ok: the committer serves it, and all before it is safe.
Acknowledge(h) ==
  /\ view[h] # None
  /\ Show(h, hist)
  /\ sure' = Len(hist)
  /\ UNCHANGED hist

Close(h) ==
  /\ view[h] # None
  /\ view' = [view EXCEPT ![h] = None]
  /\ UNCHANGED <<hist, sure>>

PowerLoss ==
  /\ IsPrefix(hist', hist) /\ Len(hist') >= sure
  /\ view' = [h \in Handles |-> None]
  /\ UNCHANGED sure

Next ==
  \/ Record \/ PowerLoss
  \/ \E h \in Handles : CatchUp(h) \/ Acknowledge(h) \/ Close(h)

Spec == Init /\ [][Next]_<<hist, sure, view>>
============================================================================
