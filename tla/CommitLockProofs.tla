------------------------- MODULE CommitLockProofs -------------------------
(***************************************************************************)
(* Proofs about CommitLock, for any number of threads and handles: LockInv *)
(* is inductive, and from it no lock outlives its call and no newcomer     *)
(* passes an announced waiter.                                             *)
(***************************************************************************)
EXTENDS CommitLock, TLAPS

\* With every lock free and nobody calling, the invariant holds.
LEMMA InitLockInv == Init => LockInv
  BY LockConstants DEF Init, LockInv, TypeOK, Discipline, Turns, Handles, Steps,
     HasLock, InMutex, Napping

\* A step that changes no variable keeps it.
LEMMA StutterLockInv == LockInv /\ UNCHANGED vars => LockInv'
  BY DEF vars, LockInv, TypeOK, Discipline, Turns, Napping

\* Every thread writes through a handle of the store.
LEMMA HandleOfType == \A t \in Threads : HandleOf[t] \in Handles
  BY DEF Handles

\* Every step of a call keeps the types.
LEMMA GoTypeOK ==
  ASSUME LockInv, NEW t \in Threads, Call(t) \/ Go(t)
  PROVE  TypeOK'
<1> USE LockConstants, HandleOfType DEF LockInv, TypeOK, Steps
<1>1. CASE Call(t)
  BY <1>1 DEF Call, Goto, locks, turn
<1>2. CASE Enter(t)
  BY <1>2 DEF Enter, Goto, call, turn, bound
<1>3. CASE Leave(t)
  BY <1>3 DEF Leave, Return, turn, bound
<1>4. CASE Probe(t)
  BY <1>4 DEF Probe, AfterMiss, Goto, Napping, bound
<1>5. CASE Unprobe(t)
  BY <1>5 DEF Unprobe, Goto, call, turn, bound
<1>6. CASE Try(t)
  BY <1>6 DEF Try, AfterMiss, Goto, turn, bound
<1>7. CASE Announce(t)
  BY <1>7 DEF Announce, Goto, Napping, call, bound
<1>8. CASE Retry(t)
  BY <1>8 DEF Retry, Retried, Goto, call, bound
<1>9. CASE Won(t)
  BY <1>9 DEF Won, Goto, call, turn, bound
<1>10. CASE GiveUp(t)
  BY <1>10 DEF GiveUp, Withdraw, Goto, call, bound
<1>11. CASE Release(t)
  BY <1>11 DEF Release, Goto, call, turn, bound
<1>12. CASE Span(t)
  BY <1>12 DEF Span, Goto, call, turn, bound
<1>13. CASE SpanCommit(t)
  BY <1>13 DEF SpanCommit, Goto, locks, call, turn, bound
<1>14. CASE SpanEnter(t)
  BY <1>14 DEF SpanEnter, Goto, call, turn, bound
<1>15. CASE SpanDone(t)
  BY <1>15 DEF SpanDone, Goto, call, turn, bound
<1>16. CASE SpanDrop(t)
  BY <1>16 DEF SpanDrop, Return, turn, bound
<1> QED
  BY <1>1, <1>2, <1>3, <1>4, <1>5, <1>6, <1>7, <1>8,
     <1>9, <1>10, <1>11, <1>12, <1>13, <1>14, <1>15, <1>16 DEF Go

\* Every step of a call takes and gives back the locks its place says.
LEMMA GoDiscipline ==
  ASSUME LockInv, NEW t \in Threads, Call(t) \/ Go(t)
  PROVE  Discipline'
<1> USE LockConstants, HandleOfType DEF LockInv, TypeOK, Discipline, Steps, HasLock, InMutex
<1>1. CASE Call(t)
  BY <1>1 DEF Call, Goto, locks, turn
<1>2. CASE Enter(t)
  BY <1>2 DEF Enter, Goto, call, turn, bound
<1>3. CASE Leave(t)
  BY <1>3 DEF Leave, Return, turn, bound
<1>4. CASE Probe(t)
  BY <1>4 DEF Probe, AfterMiss, Goto, Napping, bound
<1>5. CASE Unprobe(t)
  BY <1>5 DEF Unprobe, Goto, call, turn, bound
<1>6. CASE Try(t)
  BY <1>6 DEF Try, AfterMiss, Goto, turn, bound
<1>7. CASE Announce(t)
  BY <1>7 DEF Announce, Goto, Napping, call, bound
<1>8. CASE Retry(t)
  BY <1>8 DEF Retry, Retried, Goto, call, bound
<1>9. CASE Won(t)
  BY <1>9 DEF Won, Goto, call, turn, bound
<1>10. CASE GiveUp(t)
  BY <1>10 DEF GiveUp, Withdraw, Goto, call, bound
<1>11. CASE Release(t)
  BY <1>11 DEF Release, Goto, call, turn, bound
<1>12. CASE Span(t)
  BY <1>12 DEF Span, Goto, call, turn, bound
<1>13. CASE SpanCommit(t)
  BY <1>13 DEF SpanCommit, Goto, locks, call, turn, bound
<1>14. CASE SpanEnter(t)
  BY <1>14 DEF SpanEnter, Goto, call, turn, bound
<1>15. CASE SpanDone(t)
  BY <1>15 DEF SpanDone, Goto, call, turn, bound
<1>16. CASE SpanDrop(t)
  BY <1>16 DEF SpanDrop, Return, turn, bound
<1> QED
  BY <1>1, <1>2, <1>3, <1>4, <1>5, <1>6, <1>7, <1>8,
     <1>9, <1>10, <1>11, <1>12, <1>13, <1>14, <1>15, <1>16 DEF Go

\* Every step of a call keeps the turns.
LEMMA GoTurns ==
  ASSUME LockInv, NEW t \in Threads, Call(t) \/ Go(t)
  PROVE  Turns'
<1> USE LockConstants DEF LockInv, TypeOK, Turns, Steps, HasLock, Napping
<1>1. CASE Call(t)
  BY <1>1 DEF Call, Goto, locks, turn
<1>2. CASE Enter(t)
  BY <1>2 DEF Enter, Goto, call, turn, bound
<1>3. CASE Leave(t)
  BY <1>3 DEF Leave, Return, turn, bound
<1>4. CASE Probe(t)
  <2>1. waiting = {} => Napping = {}
    BY DEF Discipline
  <2>2. Napping' = Napping
    BY <1>4 DEF Probe, AfterMiss, Goto
  <2> QED
    BY <1>4, <2>1, <2>2 DEF Probe, AfterMiss, Goto, bound
<1>5. CASE Unprobe(t)
  BY <1>5 DEF Unprobe, Goto, call, turn, bound
<1>6. CASE Try(t)
  BY <1>6 DEF Try, AfterMiss, Goto, turn, bound
<1>7. CASE Announce(t)
  BY <1>7 DEF Announce, Goto, Napping, call, bound
<1>8. CASE Retry(t)
  BY <1>8 DEF Retry, Retried, Goto, call, bound
<1>9. CASE Won(t)
  BY <1>9 DEF Won, Goto, call, turn, bound
<1>10. CASE GiveUp(t)
  BY <1>10 DEF GiveUp, Withdraw, Goto, call, bound
<1>11. CASE Release(t)
  BY <1>11 DEF Release, Goto, call, turn, bound
<1>12. CASE Span(t)
  BY <1>12 DEF Span, Goto, call, turn, bound
<1>13. CASE SpanCommit(t)
  BY <1>13 DEF SpanCommit, Goto, locks, call, turn, bound
<1>14. CASE SpanEnter(t)
  BY <1>14 DEF SpanEnter, Goto, call, turn, bound
<1>15. CASE SpanDone(t)
  BY <1>15 DEF SpanDone, Goto, call, turn, bound
<1>16. CASE SpanDrop(t)
  BY <1>16 DEF SpanDrop, Return, turn, bound
<1> QED
  BY <1>1, <1>2, <1>3, <1>4, <1>5, <1>6, <1>7, <1>8,
     <1>9, <1>10, <1>11, <1>12, <1>13, <1>14, <1>15, <1>16 DEF Go

\* A process that dies leaves no lock, no announcement and no turn behind.
LEMMA CrashLockInv ==
  ASSUME LockInv, NEW h \in Handles, Crash(h)
  PROVE  LockInv'
<1> DEFINE dead == {t \in Threads : HandleOf[t] = h}
<1> USE LockConstants, HandleOfType DEF LockInv, TypeOK, Crash, Return, Withdraw
<1>1. TypeOK'
  <2>1. /\ mutex' \in [Handles -> {None} \cup Threads]
        /\ flock' \in {None} \cup Threads /\ probing' \in {None} \cup Threads
        /\ waiting' \subseteq Threads
    OBVIOUS
  <2>2. pc' \in [Threads -> Steps] /\ want' \in [Threads -> {"commit", "span"}]
    BY DEF Steps
  <2>3. wait' \in [Threads -> BOOLEAN] /\ queued' \in [Threads -> BOOLEAN]
    OBVIOUS
  <2>4. owed' \in [Threads -> SUBSET Threads] /\ ahead' \in [Threads -> SUBSET Threads]
    OBVIOUS
  <2>5. calls' \in Nat /\ crashes' \in Nat
    OBVIOUS
  <2> QED
    BY <2>1, <2>2, <2>3, <2>4, <2>5
<1>2. \A t \in Threads : pc'[t] = IF t \in dead THEN "idle" ELSE pc[t]
  OBVIOUS
<1>3. \A t \in Threads : t \in dead =>
         flock' # t /\ probing' # t /\ t \notin waiting' /\ mutex'[HandleOf[t]] # t
  OBVIOUS
<1>4. \A t \in Threads : t \notin dead =>
         /\ flock' = t <=> flock = t
         /\ probing' = t <=> probing = t
         /\ t \in waiting' <=> t \in waiting
         /\ mutex'[HandleOf[t]] = mutex[HandleOf[t]]
  OBVIOUS
<1>5. Discipline'
  BY <1>2, <1>3, <1>4 DEF Discipline, HasLock, InMutex
<1>6. Turns'
  BY <1>2 DEF Turns, Napping, HasLock, Steps
<1> QED
  BY <1>1, <1>5, <1>6

\* LockInv is inductive.
LEMMA StepLockInv == LockInv /\ [Next]_vars => LockInv'
<1> SUFFICES ASSUME LockInv, Next PROVE LockInv'
  BY StutterLockInv
<1>1. CASE \E t \in Threads : Call(t) \/ Go(t)
  BY <1>1, GoTypeOK, GoDiscipline, GoTurns DEF LockInv
<1>2. CASE \E h \in Handles : Crash(h)
  BY <1>2, CrashLockInv
<1> QED
  BY <1>1, <1>2 DEF Next

\* At every step of every call the four locks are held exactly where
\* lock_within, commit and CommitLock say, and the turns are kept.
THEOREM LockInvariant == Spec => []LockInv
  BY InitLockInv, StepLockInv, PTL DEF Spec

\* However many threads, handles, calls and crashes: a call that has returned
\* holds no mutex, commit lock, probe or announcement.
THEOREM NothingStaysLocked == Spec => []NothingLeftLocked
<1>1. LockInv => NothingLeftLocked
  BY DEF LockInv, Discipline, NothingLeftLocked, HasLock, InMutex
<1> QED
  BY <1>1, LockInvariant, PTL

\* However many threads: none has the commit lock while a writer announced
\* before its call is still to retry.
THEOREM TurnsAreKept == Spec => []NoQueueJumping
<1>1. LockInv => NoQueueJumping
  BY DEF LockInv, Discipline, Turns, NoQueueJumping
<1> QED
  BY <1>1, LockInvariant, PTL

===========================================================================
