---------------------------- MODULE CommitLock ----------------------------
(***************************************************************************)
(* The commit lock: who may write, who waits, and in what order.           *)
(*                                                                         *)
(* Three kinds of lock are taken in turn.  Each handle has a mutex on its  *)
(* write state.  The store has the commit lock proper (flock on            *)
(* graph.lock) and a turnstile (flock on graph.wait): a writer that has to *)
(* wait announces itself with a shared lock on it, and a newcomer probes   *)
(* for announced waiters by trying it exclusively.  Every flock call is a  *)
(* step.  A commit takes its handle's mutex first and the commit lock      *)
(* second; a CommitLock kept across calls is the other way round, and only *)
(* the waiting time's limit keeps the two from waiting for each other.     *)
(*                                                                         *)
(* Sleeping is abstract: a pause may end at any time, except that a writer *)
(* queued behind waiters stands back NAP_MAX, and no waiter pauses longer  *)
(* than that, so all of them have retried before it does.                  *)
(***************************************************************************)
EXTENDS Naturals, FiniteSets

CONSTANTS
  Threads,    \* threads that write
  HandleOf,   \* the handle each writes through
  MaxCalls,   \* bound on calls
  MaxCrashes, \* bound on crashed handles
  None

Handles == {HandleOf[t] : t \in Threads}

ASSUME LockConstants ==
  /\ DOMAIN HandleOf = Threads
  /\ MaxCalls \in Nat /\ MaxCrashes \in Nat
  /\ None \notin Threads

VARIABLES
  mutex,   \* Store.write: the thread in it, for each handle
  flock,   \* graph.lock: its holder
  probing, \* graph.wait: the thread that holds it exclusively
  waiting, \* graph.wait: the threads that hold it shared
  pc,
  want,    \* "commit" (or transact, or compact) or "span" (a CommitLock)
  wait,    \* may the call wait?
  queued,  \* found waiters announced, so stands back a full pause
  owed,    \* waiters still to retry before that pause is over
  ahead,   \* ghost: waiters announced before this call, yet to retry
  calls, crashes

vars == <<mutex, flock, probing, waiting, pc, want, wait, queued, owed, ahead,
          calls, crashes>>

locks == <<mutex, flock, probing, waiting>>
call  == <<want, wait, queued>>
turn  == <<owed, ahead>>
bound == <<calls, crashes>>

Goto(t, to) == pc' = [pc EXCEPT ![t] = to]

\* The threads in `back` have no call any more, and no locals of one.
Return(back) ==
  /\ pc'     = [t \in Threads |-> IF t \in back THEN "idle" ELSE pc[t]]
  /\ want'   = [t \in Threads |-> IF t \in back THEN "commit" ELSE want[t]]
  /\ wait'   = [t \in Threads |-> IF t \in back THEN FALSE ELSE wait[t]]
  /\ queued' = [t \in Threads |-> IF t \in back THEN FALSE ELSE queued[t]]

\* The announced writers that have still to try the commit lock again; one
\* that has won it keeps its announcement a moment longer.
Napping == {t \in Threads : pc[t] = "nap"}

\* Thread t has just tried the commit lock.
Retried(t) ==
  /\ owed'  = [s \in Threads |-> owed[s] \ {t}]
  /\ ahead' = [s \in Threads |-> ahead[s] \ {t}]

\* The threads in `gone` will not try it any more.
Withdraw(gone) ==
  /\ owed'  = [s \in Threads |-> IF s \in gone THEN {} ELSE owed[s] \ gone]
  /\ ahead' = [s \in Threads |-> IF s \in gone THEN {} ELSE ahead[s] \ gone]

----------------------------------------------------------------------------
(* Calls and the handle's mutex. *)

Call(t) ==
  /\ pc[t] = "idle" /\ calls < MaxCalls
  /\ calls' = calls + 1
  /\ \E w \in {"commit", "span"}, z \in BOOLEAN :
       /\ want' = [want EXCEPT ![t] = w]
       /\ wait' = [wait EXCEPT ![t] = z]
  /\ Goto(t, "enter")
  /\ UNCHANGED <<locks, queued, turn, crashes>>

\* writer() or write_state(): blocks while another thread is in there.
Enter(t) ==
  /\ pc[t] = "enter" /\ mutex[HandleOf[t]] = None
  /\ mutex' = [mutex EXCEPT ![HandleOf[t]] = t]
  /\ Goto(t, "probe")
  /\ UNCHANGED <<flock, probing, waiting, call, turn, bound>>

\* The Writer, or the guard on the write state, is dropped.
Leave(t) ==
  /\ pc[t] = "leave"
  /\ mutex' = [mutex EXCEPT ![HandleOf[t]] = None]
  /\ Return({t})
  /\ UNCHANGED <<flock, probing, waiting, turn, bound>>

----------------------------------------------------------------------------
(* lock_within. *)

\* After a failed attempt: announce and wait, or Locked at once.
AfterMiss(t) == IF wait[t] THEN "announce" ELSE "leave"

\* Mutation: the probe asks for a shared lock.
ProbeShared(t) ==
  /\ pc[t] = "probe"
  /\ ahead' = [ahead EXCEPT ![t] = Napping]
  /\ probing' = t
  /\ Goto(t, "probed")
  /\ UNCHANGED <<mutex, flock, waiting, call, owed, bound>>

\* The exclusive try on the turnstile fails if anyone at all holds it.
Probe(t) ==
  /\ pc[t] = "probe"
  /\ ahead' = [ahead EXCEPT ![t] = Napping]
  /\ \/ /\ waiting = {} /\ probing = None
        /\ probing' = t
        /\ Goto(t, "probed")
        /\ UNCHANGED queued
     \/ /\ waiting # {} \/ probing # None
        /\ queued' = [queued EXCEPT ![t] = TRUE]
        /\ Goto(t, AfterMiss(t))
        /\ UNCHANGED probing
  /\ UNCHANGED <<mutex, flock, waiting, want, wait, owed, bound>>

Unprobe(t) ==
  /\ pc[t] = "probed"
  /\ probing' = None
  /\ Goto(t, "try")
  /\ UNCHANGED <<mutex, flock, waiting, call, turn, bound>>

\* The one attempt an uncontended call makes.
Try(t) ==
  /\ pc[t] = "try"
  /\ queued' = [queued EXCEPT ![t] = FALSE]
  /\ \/ flock = None /\ flock' = t /\ Goto(t, "held")
     \/ flock # None /\ UNCHANGED flock /\ Goto(t, AfterMiss(t))
  /\ UNCHANGED <<mutex, probing, waiting, want, wait, turn, bound>>

Announce(t) ==
  /\ pc[t] = "announce" /\ probing = None
  /\ owed' = [owed EXCEPT ![t] = IF queued[t] THEN Napping ELSE {}]
  /\ waiting' = waiting \cup {t}
  /\ Goto(t, "nap")
  /\ UNCHANGED <<mutex, flock, probing, call, ahead, bound>>

\* A pause is over: one more attempt.
Retry(t) ==
  /\ pc[t] = "nap" /\ owed[t] = {}
  /\ \/ flock = None /\ flock' = t /\ Goto(t, "won")
     \/ flock # None /\ UNCHANGED <<flock, pc>>
  /\ Retried(t)
  /\ UNCHANGED <<mutex, probing, waiting, call, bound>>

\* The lock is won; the announcement is taken back.
Won(t) ==
  /\ pc[t] = "won"
  /\ waiting' = waiting \ {t}
  /\ Goto(t, "held")
  /\ UNCHANGED <<mutex, flock, probing, call, turn, bound>>

\* Mutation: the announcement outlives the call.
GiveUpAnnounced(t) ==
  /\ pc[t] \in {"announce", "nap"}
  /\ Withdraw({t})
  /\ Goto(t, "leave")
  /\ UNCHANGED <<mutex, flock, probing, waiting, call, bound>>

\* The time to wait is up: Locked.
GiveUp(t) ==
  /\ pc[t] \in {"announce", "nap"}
  /\ waiting' = waiting \ {t}
  /\ Withdraw({t})
  /\ Goto(t, "leave")
  /\ UNCHANGED <<mutex, flock, probing, call, bound>>

----------------------------------------------------------------------------
(* Under the lock. *)

\* A commit, transaction or compaction is done: unlock.
Release(t) ==
  /\ pc[t] = "held" /\ want[t] = "commit"
  /\ flock' = None
  /\ Goto(t, "leave")
  /\ UNCHANGED <<mutex, probing, waiting, call, turn, bound>>

\* Mutation: commit_lock returns with the handle's write state still locked.
SpanEntered(t) ==
  /\ pc[t] = "held" /\ want[t] = "span"
  /\ Goto(t, "span")
  /\ UNCHANGED <<locks, call, turn, bound>>

\* commit_lock returns the lock, out of the handle's mutex again.
Span(t) ==
  /\ pc[t] = "held" /\ want[t] = "span"
  /\ mutex' = [mutex EXCEPT ![HandleOf[t]] = None]
  /\ Goto(t, "span")
  /\ UNCHANGED <<flock, probing, waiting, call, turn, bound>>

\* transact_with: into the mutex once more, past the commit lock.
SpanCommit(t) ==
  /\ pc[t] = "span"
  /\ Goto(t, "reenter")
  /\ UNCHANGED <<locks, call, turn, bound>>

SpanEnter(t) ==
  /\ pc[t] = "reenter" /\ mutex[HandleOf[t]] = None
  /\ mutex' = [mutex EXCEPT ![HandleOf[t]] = t]
  /\ Goto(t, "append")
  /\ UNCHANGED <<flock, probing, waiting, call, turn, bound>>

SpanDone(t) ==
  /\ pc[t] = "append"
  /\ mutex' = [mutex EXCEPT ![HandleOf[t]] = None]
  /\ Goto(t, "spanned")
  /\ UNCHANGED <<flock, probing, waiting, call, turn, bound>>

\* The CommitLock is dropped, with or without a commit made under it.
SpanDrop(t) ==
  /\ pc[t] \in {"span", "spanned"}
  /\ flock' = None
  /\ Return({t})
  /\ UNCHANGED <<mutex, probing, waiting, turn, bound>>

----------------------------------------------------------------------------
\* A process dies: its flocks and mutexes are gone with it.
Crash(h) ==
  LET dead == {t \in Threads : HandleOf[t] = h}
  IN  /\ crashes < MaxCrashes
      /\ crashes' = crashes + 1
      /\ mutex' = [mutex EXCEPT ![h] = None]
      /\ flock' = IF flock \in dead THEN None ELSE flock
      /\ probing' = IF probing \in dead THEN None ELSE probing
      /\ waiting' = waiting \ dead
      /\ Return(dead)
      /\ Withdraw(dead)
      /\ UNCHANGED calls

Init ==
  /\ mutex = [h \in Handles |-> None]
  /\ flock = None /\ probing = None /\ waiting = {}
  /\ pc = [t \in Threads |-> "idle"]
  /\ want = [t \in Threads |-> "commit"]
  /\ wait = [t \in Threads |-> FALSE]
  /\ queued = [t \in Threads |-> FALSE]
  /\ owed = [t \in Threads |-> {}] /\ ahead = [t \in Threads |-> {}]
  /\ calls = 0 /\ crashes = 0

\* What a thread does once it has called.
Go(t) ==
  \/ Enter(t) \/ Leave(t)
  \/ Probe(t) \/ Unprobe(t) \/ Try(t) \/ Announce(t) \/ Retry(t) \/ Won(t) \/ GiveUp(t)
  \/ Release(t) \/ Span(t) \/ SpanCommit(t) \/ SpanEnter(t) \/ SpanDone(t) \/ SpanDrop(t)

Next ==
  \/ \E t \in Threads : Call(t) \/ Go(t)
  \/ \E h \in Handles : Crash(h)

Spec == Init /\ [][Next]_vars

\* Every thread runs, and waiting is limited (Config::lock_wait).
FairSpec ==
  Spec /\ \A t \in Threads : WF_vars(Go(t)) /\ WF_vars(GiveUp(t))

----------------------------------------------------------------------------
(* Properties. *)

Steps == {"idle", "enter", "probe", "probed", "try", "announce", "nap", "won",
          "held", "leave", "span", "reenter", "append", "spanned"}

\* Where a thread has the commit lock, and where it is in its handle's mutex.
HasLock == {"won", "held", "span", "reenter", "append", "spanned"}
InMutex == {"probe", "probed", "try", "announce", "nap", "won", "held", "leave", "append"}

TypeOK ==
  /\ mutex \in [Handles -> {None} \cup Threads]
  /\ flock \in {None} \cup Threads /\ probing \in {None} \cup Threads
  /\ waiting \subseteq Threads
  /\ pc \in [Threads -> Steps]
  /\ want \in [Threads -> {"commit", "span"}]
  /\ wait \in [Threads -> BOOLEAN] /\ queued \in [Threads -> BOOLEAN]
  /\ owed \in [Threads -> SUBSET Threads] /\ ahead \in [Threads -> SUBSET Threads]
  /\ calls \in Nat /\ crashes \in Nat

\* The four locks are held exactly at the steps that need them.
Discipline ==
  \A t \in Threads :
    /\ flock = t <=> pc[t] \in HasLock
    /\ probing = t <=> pc[t] = "probed"
    /\ t \in waiting <=> pc[t] \in {"nap", "won"}
    /\ mutex[HandleOf[t]] = t <=> pc[t] \in InMutex

\* What keeps the turns: nobody is ahead of a writer that probed well, and a
\* writer that did not stands back until all that were ahead have retried.
Turns ==
  \A t \in Threads :
    /\ ahead[t] \subseteq Napping
    /\ pc[t] \in {"probed", "try"} \cup HasLock => ahead[t] = {}
    /\ pc[t] = "announce" => queued[t] \/ ahead[t] = {}
    /\ pc[t] = "nap" => ahead[t] \subseteq owed[t]

\* The inductive invariant: types, which lock is held at which step of
\* lock_within, commit and CommitLock, and who stands behind whom.
LockInv == TypeOK /\ Discipline /\ Turns

\* A call that has returned holds nothing: a mutex, the commit lock, a probe
\* or an announcement left behind would shut out every later writer.
NothingLeftLocked ==
  \A t \in Threads : pc[t] = "idle" =>
    flock # t /\ probing # t /\ t \notin waiting /\ mutex[HandleOf[t]] # t

\* A writer does not get the commit lock ahead of one that was announced
\* before it called and has not had a chance since (lock_within: "A writer
\* that finds anyone announced does not take the commit lock ahead of them").
NoQueueJumping ==
  \A t \in Threads : flock = t => ahead[t] = {}

\* Every call returns, although a commit waits for the commit lock inside the
\* mutex that the holder of a CommitLock needs to commit under it.
CallsReturn ==
  \A t \in Threads : pc[t] # "idle" ~> pc[t] = "idle"
============================================================================
