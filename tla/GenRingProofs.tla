-------------------------- MODULE GenRingProofs ----------------------------
(***************************************************************************)
(* Proofs about GenRing: what a snapshot shows, for any number of readers, *)
(* slots, chunks and ops.                                                  *)
(*                                                                         *)
(* The inductive invariant says of every arena that its cells below the    *)
(* frontier hold the ops after its base, one after the other, up to the    *)
(* end of a record; of the writer how far its publish or its install is;   *)
(* and of a reader what pinning a slot has bought it.                      *)
(***************************************************************************)
EXTENDS GenRing, FiniteSetTheorems, WellFoundedInduction, TLAPS

\* The last op an arena serves.
Reach(a) == a.folded + a.frontier

Whole(a) ==
  /\ \A i \in 0 .. a.frontier - 1 : a.at[i] = a.folded + i + 1
  /\ Reach(a) \in ends

\* The slot an install has filled and not made current yet.
Filled(s) == wpc \in {"seq", "current"} /\ s = job.at

ArenasInv ==
  \A s \in Slots : inner[s] # None =>
    /\ Whole(inner[s])
    /\ inner[s].gen <= disk
    /\ ~Filled(s) => /\ inner[s].gen <= inner[current].gen
                     /\ Reach(inner[s]) <= Reach(inner[current])

\* A publish in the middle of its entries: the cells from the frontier to
\* the next one are written, and there is room for the rest.
EntriesInv ==
  wpc = "entries" =>
    LET a == inner[current] IN
    /\ a.frontier <= job.next
    /\ \A i \in 0 .. job.next - 1 : a.at[i] = a.folded + i + 1
    /\ job.op = a.folded + job.next + 1
    /\ job.op <= job.last + 1
    /\ job.last \in ends
    /\ job.last - a.folded <= Capacity

\* An install: the generation built is whole, newer than all that is served
\* and reaches to the end of the log; its slot is not the served one.
InstallInv ==
  /\ wpc \in {"scan", "write", "seq", "current"} =>
       /\ job.built # None /\ Whole(job.built)
       /\ job.built.gen = disk /\ inner[current].gen < disk
       /\ Reach(job.built) = Last
  /\ wpc \in {"write", "seq", "current"} => job.at \in Slots \ {current}
  /\ wpc \in {"seq", "current"} => inner[job.at] = job.built
  /\ locked = IF wpc = "write" THEN job.at ELSE None

\* A pinned slot is not written.  From the second look on, what a reader has
\* pinned was served, and is no less than what was served when it began.
ReadersInv ==
  \A r \in Readers :
    /\ rpc[r] \in {"check", "new", "open"} => cur[r] # locked
    /\ rpc[r] \in {"new", "open"} =>
         /\ inner[cur[r]] # None
         /\ ~(wpc \in {"write", "seq", "current"} /\ cur[r] = job.at)
    /\ rpc[r] \in {"load", "try", "check"} =>
         /\ floor[r].gen <= inner[current].gen
         /\ floor[r].last <= Reach(inner[current])
    /\ rpc[r] = "new" =>
         /\ floor[r].gen <= inner[cur[r]].gen
         /\ floor[r].last <= Reach(inner[cur[r]])
    /\ rpc[r] = "open" =>
         /\ upto[r] <= inner[cur[r]].frontier
         /\ inner[cur[r]].folded + upto[r] \in ends

IInv == RingTypeOK /\ PublishFits /\ ArenasInv /\ EntriesInv /\ InstallInv /\ ReadersInv

----------------------------------------------------------------------------
(* Minima and maxima; the chunks. *)

\* Every nonempty set of naturals has a least element.
LEMMA NatMin ==
  ASSUME NEW T, T \subseteq Nat, T # {}
  PROVE  \E x \in T : \A y \in T : x <= y
<1>1. \E x \in T : \A y \in T : ~(<<y, x>> \in OpToRel(<, Nat))
  BY WFMin, NatLessThanWellFounded
<1>2. PICK x \in T : \A y \in T : ~(<<y, x>> \in OpToRel(<, Nat))
  BY <1>1
<1>3. ASSUME NEW y \in T PROVE x <= y
  <2>1. ~(y < x)
    BY <1>2 DEF OpToRel
  <2> QED BY <2>1
<1> QED BY <1>3

\* Max is a largest element, for a nonempty set of bounded naturals.
LEMMA MaxIs ==
  ASSUME NEW n \in Nat, NEW T, T \subseteq 0 .. n, T # {}
  PROVE  Max(T) \in T /\ \A y \in T : y <= Max(T)
<1> DEFINE U == {n - x : x \in T}
<1>1. U \subseteq Nat /\ U # {}
  <2>1. ASSUME NEW x \in T PROVE n - x \in Nat
    OBVIOUS
  <2>2. PICK x \in T : TRUE
    OBVIOUS
  <2>3. n - x \in U
    OBVIOUS
  <2> QED BY <2>1, <2>3
<1>2. PICK u \in U : \A y \in U : u <= y
  <2> HIDE DEF U
  <2> QED BY <1>1, NatMin
<1>3. PICK m \in T : u = n - m
  OBVIOUS
<1>4. ASSUME NEW y \in T PROVE m >= y
  <2>1. n - y \in U
    OBVIOUS
  <2>2. u <= n - y
    BY <1>2, <2>1
  <2> QED BY <1>3, <2>2
<1>5. \E x \in T : \A y \in T : x >= y
  BY <1>4
<1>6. Max(T) \in T /\ \A y \in T : Max(T) >= y
  BY <1>5 DEF Max
<1> QED BY <1>6

LEMMA MaxOnly ==
  ASSUME NEW m \in Nat, NEW T, T \subseteq 0 .. m, m \in T
  PROVE  Max(T) = m
<1> DEFINE x == Max(T)
<1>1. x \in T /\ \A y \in T : y <= x
  BY MaxIs
<1> HIDE DEF x
<1>2. x \in 0 .. m /\ m <= x
  BY <1>1
<1>3. x = m
  BY <1>2
<1> QED BY <1>3 DEF x

LEMMA ChunkCapStep ==
  ASSUME NEW k \in Nat
  PROVE  ChunkCap[0] = BaseCap /\ ChunkCap[k + 1] = 2 * ChunkCap[k]
<1>1. ChunkCap = [j \in Nat |-> IF j = 0 THEN BaseCap ELSE 2 * ChunkCap[j - 1]]
  BY DEF ChunkCap
<1> QED BY <1>1

LEMMA ChunkCapNat ==
  ASSUME NEW k \in Nat
  PROVE  ChunkCap[k] \in Nat /\ ChunkCap[k] >= BaseCap
<1> DEFINE T == {j \in Nat : ~(ChunkCap[j] \in Nat /\ ChunkCap[j] >= BaseCap)}
<1>1. SUFFICES T = {}
  OBVIOUS
<1>2. SUFFICES ASSUME T # {} PROVE FALSE
  OBVIOUS
<1>3. PICK m \in T : \A y \in T : m <= y
  <2>1. T \subseteq Nat
    OBVIOUS
  <2> HIDE DEF T
  <2> QED BY <1>2, <2>1, NatMin
<1>4. BaseCap \in Nat
  BY RingConstants
<1>5. m # 0
  BY <1>3, <1>4, ChunkCapStep
<1>6. m - 1 \in Nat /\ m - 1 \notin T
  BY <1>3, <1>5
<1>7. ChunkCap[m] = 2 * ChunkCap[m - 1]
  <2>1. m = (m - 1) + 1
    BY <1>3
  <2> QED BY <1>6, <2>1, ChunkCapStep
<1> QED BY <1>3, <1>4, <1>6, <1>7

\* The chunks follow one another.
LEMMA ChunkStartRises ==
  ASSUME NEW j \in Nat, NEW k \in Nat, j <= k
  PROVE  ChunkStart(j) \in Nat /\ ChunkStart(k) \in Nat /\ ChunkStart(j) <= ChunkStart(k)
<1> DEFINE T == {i \in Nat : i >= j /\ ~(ChunkCap[j] <= ChunkCap[i])}
<1>0. BaseCap \in Nat
  BY RingConstants
<1>1. SUFFICES T = {}
  BY <1>0, ChunkCapNat DEF ChunkStart
<1>2. SUFFICES ASSUME T # {} PROVE FALSE
  OBVIOUS
<1>3. PICK m \in T : \A y \in T : m <= y
  <2>1. T \subseteq Nat
    OBVIOUS
  <2> HIDE DEF T
  <2> QED BY <1>2, <2>1, NatMin
<1>5. m # j
  BY <1>3, ChunkCapNat
<1>6. m - 1 \in Nat /\ m - 1 \notin T /\ m - 1 >= j
  BY <1>3, <1>5
<1>7. ChunkCap[m] = 2 * ChunkCap[m - 1]
  <2>1. m = (m - 1) + 1
    BY <1>3
  <2> QED BY <1>6, <2>1, ChunkCapStep
<1> QED BY <1>0, <1>3, <1>6, <1>7, ChunkCapNat

LEMMA CapacityNat == Capacity \in Nat /\ Cells = 0 .. Capacity - 1
  BY RingConstants, ChunkStartRises DEF Capacity, Cells

\* A cell below the capacity lies in one of the chunks.
LEMMA LocateIs ==
  ASSUME NEW i \in 0 .. Capacity - 1
  PROVE  /\ Locate(i) \in 0 .. Chunks - 1
         /\ ChunkStart(Locate(i)) <= i /\ i < ChunkStart(Locate(i) + 1)
<1> DEFINE T == {k \in Nat : i < ChunkStart(k)}
<1>0. Chunks \in Nat /\ i < Capacity /\ i \in Nat /\ ChunkStart(0) = 0
  BY RingConstants, CapacityNat, ChunkCapStep DEF ChunkStart
<1>1. Chunks \in T
  BY <1>0 DEF Capacity
<1>2. PICK m \in T : \A y \in T : m <= y
  <2>1. T \subseteq Nat
    OBVIOUS
  <2> HIDE DEF T
  <2> QED BY <1>1, <2>1, NatMin
<1>3. m # 0 /\ m <= Chunks
  BY <1>0, <1>1, <1>2
<1>4. m - 1 \in 0 .. Chunks - 1 /\ m - 1 \notin T
  BY <1>0, <1>2, <1>3
<1>5. ChunkStart(m - 1) <= i /\ i < ChunkStart((m - 1) + 1)
  BY <1>0, <1>2, <1>4, ChunkStartRises
<1>6. \E k \in 0 .. Chunks - 1 : ChunkStart(k) <= i /\ i < ChunkStart(k + 1)
  BY <1>4, <1>5
<1>7. Locate(i) = CHOOSE k \in 0 .. Chunks - 1 : ChunkStart(k) <= i /\ i < ChunkStart(k + 1)
  BY <1>0 DEF Locate
<1> QED BY <1>6, <1>7

\* In no other.
LEMMA LocateOnly ==
  ASSUME NEW i \in 0 .. Capacity - 1, NEW k \in 0 .. Chunks - 1,
         ChunkStart(k) <= i, i < ChunkStart(k + 1)
  PROVE  Locate(i) = k
<1> DEFINE l == Locate(i)
<1>1. l \in 0 .. Chunks - 1 /\ ChunkStart(l) <= i /\ i < ChunkStart(l + 1)
  BY LocateIs
<1> HIDE DEF l
<1>2. Chunks \in Nat /\ Capacity \in Nat
  BY RingConstants, CapacityNat
<1>3. l \in Nat /\ k \in Nat /\ i \in Int
  BY <1>1, <1>2
<1>4. ~(l < k)
  <2>1. l < k => ChunkStart(l + 1) <= ChunkStart(k) /\ ChunkStart(l + 1) \in Nat
    BY <1>3, ChunkStartRises
  <2>2. ChunkStart(k) \in Nat
    BY <1>3, ChunkStartRises
  <2> QED BY <1>1, <1>3, <2>1, <2>2
<1>5. ~(k < l)
  <2>1. k < l => ChunkStart(k + 1) <= ChunkStart(l) /\ ChunkStart(k + 1) \in Nat
    BY <1>3, ChunkStartRises
  <2>2. ChunkStart(l) \in Nat
    BY <1>3, ChunkStartRises
  <2> QED BY <1>1, <1>3, <2>1, <2>2
<1> QED BY <1>3, <1>4, <1>5 DEF l

\* reserve(): the chunks of all cells asked for are made, and no others'.
LEMMA ReservedCovers ==
  ASSUME NEW from \in Nat, NEW ops \in Nat, Fits(from, ops)
  PROVE  /\ Reserved(from, ops) \subseteq 0 .. Chunks - 1
         /\ \A i \in from .. from + ops - 1 : Locate(i) \in Reserved(from, ops)
<1>1. SUFFICES ASSUME NEW i \in from .. from + ops - 1
               PROVE  Locate(i) \in Reserved(from, ops)
  BY DEF Reserved
<1>2. Capacity \in Nat /\ from + ops <= Capacity
  BY CapacityNat DEF Fits
<1>3. i \in 0 .. Capacity - 1 /\ from \in 0 .. Capacity - 1 /\ ops > 0
  BY <1>2
<1> DEFINE k == Locate(i)
<1>4. k \in 0 .. Chunks - 1 /\ ChunkStart(k) <= i /\ i < ChunkStart(k + 1)
  BY <1>3, LocateIs
<1>5. ChunkStart(k) \in Nat /\ ChunkStart(k + 1) \in Nat
  BY <1>4, RingConstants, ChunkStartRises
<1>6. CASE from < ChunkStart(k)
  BY <1>4, <1>5, <1>6 DEF Reserved
<1>7. CASE ChunkStart(k) <= from
  <2>1. from < ChunkStart(k + 1)
    BY <1>4, <1>5
  <2>2. Locate(from) = k
    <3> HIDE DEF k
    <3> QED BY <1>3, <1>4, <1>7, <2>1, LocateOnly
  <2> QED BY <1>3, <1>4, <2>2 DEF Reserved
<1> QED BY <1>5, <1>6, <1>7

----------------------------------------------------------------------------
(* The log, and what an arena serves of it. *)

LEMMA LastIs ==
  ASSUME RingTypeOK
  PROVE  Last \in ends /\ Last \in 0 .. MaxOps /\ \A e \in ends : e \in Nat /\ e <= Last
<1>1. ends \subseteq 0 .. MaxOps /\ ends # {} /\ MaxOps \in Nat
  BY RingConstants DEF RingTypeOK
<1>2. Last \in ends /\ \A e \in ends : e <= Last
  BY <1>1, MaxIs DEF Last
<1> QED BY <1>1, <1>2

\* A record appended ends where the log does.
LEMMA LastAppended ==
  ASSUME RingTypeOK, NEW n \in Nat, n > 0, Last + n <= MaxOps,
         ends' = ends \cup {Last + n}
  PROVE  /\ Last' = Last + n /\ Last + n \in 0 .. MaxOps
         /\ ends' \in SUBSET (0 .. MaxOps) /\ 0 \in ends'
<1>1. Last \in 0 .. MaxOps /\ \A e \in ends : e \in Nat /\ e <= Last
  BY LastIs
<1>2. MaxOps \in Nat /\ ends \subseteq 0 .. MaxOps /\ 0 \in ends
  BY RingConstants DEF RingTypeOK
<1>3. Last + n \in 0 .. MaxOps
  BY <1>1, <1>2
<1>4. ends' \subseteq 0 .. MaxOps /\ ends' # {} /\ 0 \in ends'
  BY <1>2, <1>3
<1>5. Last' \in ends' /\ \A e \in ends' : e <= Last'
  <2>1. Max(ends') \in ends' /\ \A e \in ends' : e <= Max(ends')
    BY <1>2, <1>4, MaxIs
  <2> QED BY <2>1 DEF Last
<1>6. Last' = Last + n
  <2>1. Last + n <= Last'
    BY <1>5
  <2>2. Last' \in ends => Last' \in Nat /\ Last' <= Last
    BY <1>1
  <2> QED BY <1>1, <1>5, <2>1, <2>2
<1> QED BY <1>3, <1>4, <1>6

\* publish_above counts the ops not served yet, each once, wherever what was
\* read of the log begins.
LEMMA NewOpsIs ==
  ASSUME RingTypeOK, NEW from \in Nat, NEW served \in Nat, from <= served, served <= Last
  PROVE  NewOps(from, served) = Last - served
<1> DEFINE recs == {d \in ends : d > from}
           ops  == {op \in UNION {OpsOf(e) : e \in recs} : op > served}
<1>0. /\ MaxOps \in Nat /\ ends \subseteq 0 .. MaxOps /\ 0 \in ends
      /\ Last \in Nat /\ Last \in ends /\ \A e \in ends : e \in Nat /\ e <= Last
  BY RingConstants, LastIs DEF RingTypeOK
<1>1. ASSUME NEW e \in recs
      PROVE  Max({d \in ends : d < e}) \in ends /\ Max({d \in ends : d < e}) < e
  <2> DEFINE before == {d \in ends : d < e}
  <2>0. e \in Nat /\ 0 < e
    BY <1>0
  <2>1. before \subseteq 0 .. MaxOps /\ 0 \in before
    BY <1>0, <2>0
  <2>2. Max(before) \in before
    <3> HIDE DEF before
    <3> QED BY <1>0, <2>1, MaxIs
  <2> QED BY <2>2
<1>2. ASSUME NEW op \in ops PROVE op \in served + 1 .. Last
  <2>1. PICK e \in recs : op \in OpsOf(e)
    OBVIOUS
  <2>2. Max({d \in ends : d < e}) \in Nat
    BY <1>0, <1>1
  <2>3. op \in Int /\ op <= e /\ op > served
    BY <1>0, <2>1, <2>2 DEF OpsOf
  <2> QED BY <1>0, <2>3
<1>3. ASSUME NEW op \in served + 1 .. Last PROVE op \in ops
  <2> DEFINE above == {e \in ends : e >= op}
  <2>0. op \in Nat /\ op <= Last /\ op > served /\ op > from
    BY <1>0
  <2>1. above \subseteq Nat /\ Last \in above
    BY <1>0, <2>0
  <2>2. PICK e \in above : \A d \in above : e <= d
    <3> HIDE DEF above
    <3> QED BY <2>1, NatMin
  <2>3. e \in recs /\ e \in Nat /\ op <= e
    BY <1>0, <2>0, <2>2
  <2>4. Max({d \in ends : d < e}) \in ends /\ Max({d \in ends : d < e}) < e
    BY <1>1, <2>3
  <2>5. Max({d \in ends : d < e}) < op
    <3> DEFINE p == Max({d \in ends : d < e})
    <3>1. p \in Nat /\ p \in ends /\ p < e
      BY <1>0, <2>4
    <3> HIDE DEF p
    <3>2. ~(p >= op)
      BY <2>2, <2>3, <3>1
    <3> QED BY <2>0, <3>1, <3>2 DEF p
  <2>6. op \in OpsOf(e)
    <3>1. Max({d \in ends : d < e}) \in Nat
      BY <1>0, <2>4
    <3> QED BY <2>0, <2>3, <2>5, <3>1 DEF OpsOf
  <2> QED BY <2>3, <2>6
<1>4. ops = served + 1 .. Last
  BY <1>2, <1>3
<1>5. Cardinality(served + 1 .. Last) = Last - served
  <2>1. Cardinality(served + 1 .. Last) =
          IF served + 1 > Last THEN 0 ELSE Last - (served + 1) + 1
    BY <1>0, FS_Interval
  <2> QED BY <1>0, <2>1
<1> QED BY <1>4, <1>5 DEF NewOps

\* served_seq is the last op of the arena, or of its base.
LEMMA ServedIs ==
  ASSUME RingTypeOK, ArenasInv
  PROVE  /\ ServedSeq(current) = Reach(inner[current])
         /\ inner[current] \in ArenaType /\ Whole(inner[current])
         /\ Reach(inner[current]) \in ends /\ Reach(inner[current]) \in Nat
         /\ Reach(inner[current]) <= Last
<1> DEFINE a == inner[current]
<1>1. a \in ArenaType /\ Whole(a) /\ Capacity \in Nat /\ MaxOps \in Nat
  BY CapacityNat, RingConstants DEF RingTypeOK, ArenasInv
<1>2. Reach(a) \in ends /\ Reach(a) \in Nat /\ Reach(a) <= Last
  BY <1>1, LastIs DEF Whole
<1>3. a.folded \in Nat /\ a.frontier \in Nat
  BY <1>1 DEF ArenaType
<1>4. LastSeq(a) = IF a.frontier = 0 THEN 0 ELSE Reach(a)
  <2>1. a.frontier # 0 => a.at[a.frontier - 1] = a.folded + (a.frontier - 1) + 1
    BY <1>1, <1>3 DEF Whole
  <2> QED BY <1>3, <2>1 DEF LastSeq, Reach
<1>5. Max({a.folded, LastSeq(a)}) = Reach(a)
  <2> DEFINE T == {a.folded, LastSeq(a)}
  <2>1. Reach(a) \in T /\ \A y \in T : Reach(a) >= y
    BY <1>3, <1>4 DEF Reach
  <2>2. T \subseteq 0 .. Reach(a)
    BY <1>2, <1>3, <1>4, <2>1
  <2> HIDE DEF T
  <2> QED BY <1>2, <2>1, <2>2, MaxOnly DEF T
<1> QED BY <1>1, <1>2, <1>5 DEF ServedSeq

----------------------------------------------------------------------------
(* The invariant holds at first, and every step keeps it. *)

LEMMA InitInv == Init => IInv
<1> SUFFICES ASSUME Init PROVE IInv
  OBVIOUS
<1>0. /\ GenSlots \in Nat \ {0} /\ Capacity \in Nat /\ MaxOps \in Nat
      /\ MaxGen \in Nat \ {0} /\ 0 \in Slots /\ None \notin Int
  BY RingConstants, CapacityNat DEF Slots
<1>1. NewArena(1, 0) \in ArenaType /\ NewArena(1, 0) # None
  <2>1. NewArena(1, 0) \in ArenaType
    BY <1>0 DEF NewArena, ArenaType
  <2> QED BY <2>1, NoneIsNoArena
<1>2. Idle \in JobType
  BY <1>0, RingConstants DEF Idle, JobType
<1>3. RingTypeOK
  <2>1. inner \in [Slots -> ArenaType \cup {None}] /\ inner[current] # None
    BY <1>0, <1>1 DEF Init
  <2>2. floor \in [Readers -> [gen : 0 .. MaxGen, last : 0 .. MaxOps]]
    BY <1>0 DEF Init, Nothing
  <2>3. locked \in (Slots \ {current}) \cup {None} /\ current \in Slots
    BY <1>0 DEF Init
  <2>4. ends \in SUBSET (0 .. MaxOps) /\ 0 \in ends /\ disk \in 1 .. MaxGen
    BY <1>0 DEF Init
  <2>5. seq \in [Slots -> 0 .. MaxGen]
    BY <1>0 DEF Init
  <2>6. /\ rpc \in [Readers -> {"idle", "load", "try", "check", "new", "open"}]
        /\ cur \in [Readers -> Slots] /\ upto \in [Readers -> 0 .. Capacity]
    BY <1>0 DEF Init
  <2>7. wpc \in {"idle", "entries", "scan", "write", "seq", "current"} /\ job \in JobType
    BY <1>2 DEF Init
  <2> QED BY <2>1, <2>2, <2>3, <2>4, <2>5, <2>6, <2>7 DEF RingTypeOK
<1>4. ArenasInv
  <2> SUFFICES ASSUME NEW s \in Slots, inner[s] # None
               PROVE  /\ Whole(inner[s]) /\ inner[s].gen <= disk
                      /\ inner[s].gen <= inner[current].gen
                      /\ Reach(inner[s]) <= Reach(inner[current])
    BY DEF ArenasInv
  <2>1. s = 0 /\ inner[s] = NewArena(1, 0) /\ current = 0
    BY <1>0 DEF Init
  <2>2. inner[s].gen = 1 /\ inner[s].folded = 0 /\ inner[s].frontier = 0
    BY <2>1 DEF NewArena
  <2> QED BY <2>1, <2>2 DEF Init, Whole, Reach
<1>5. PublishFits /\ EntriesInv
  BY DEF Init, PublishFits, EntriesInv
<1>6. InstallInv
  BY DEF Init, InstallInv
<1>7. ReadersInv
  BY DEF Init, ReadersInv
<1> QED BY <1>3, <1>4, <1>5, <1>6, <1>7 DEF IInv

\* A step of a reader leaves the log, the slots and the writer alone, and so
\* all the invariant says of them.
LEMMA ReaderStepKeeps ==
  ASSUME IInv, UNCHANGED <<disks, slots, writer>>
  PROVE  PublishFits' /\ ArenasInv' /\ EntriesInv' /\ InstallInv'
<1> USE DEF IInv, disks, slots, writer
<1>1. PublishFits'
  BY DEF PublishFits
<1>2. ArenasInv'
  BY DEF ArenasInv, Whole, Reach, Filled
<1>3. EntriesInv'
  BY DEF EntriesInv
<1>4. InstallInv'
  BY DEF InstallInv, Whole, Reach, Last
<1> QED BY <1>1, <1>2, <1>3, <1>4

LEMMA ReaderInv ==
  ASSUME IInv, NEW r \in Readers, Begin(r) \/ Snapshot(r) \/ Drop(r)
  PROVE  IInv'
<1>0. /\ RingTypeOK /\ ArenasInv /\ InstallInv /\ ReadersInv
      /\ current \in Slots /\ inner[current] \in ArenaType
      /\ ServedSeq(current) = Reach(inner[current]) /\ Capacity \in Nat /\ MaxOps \in Nat
      /\ Reach(inner[current]) \in Nat /\ Last \in 0 .. MaxOps
      /\ Reach(inner[current]) <= Last /\ MaxGen \in Nat
  BY ServedIs, LastIs, CapacityNat, RingConstants DEF IInv, RingTypeOK
<1>1. UNCHANGED <<disks, slots, writer>>
  BY DEF Begin, Snapshot, Load, TryRead, Recheck, NewSnapshot, Drop
<1>2. PublishFits' /\ ArenasInv' /\ EntriesInv' /\ InstallInv'
  BY <1>1, ReaderStepKeeps
<1>3. ASSUME rpc' \in [Readers -> {"idle", "load", "try", "check", "new", "open"}],
             cur' \in [Readers -> Slots], upto' \in [Readers -> 0 .. Capacity],
             floor' \in [Readers -> [gen : 0 .. MaxGen, last : 0 .. MaxOps]],
             ReadersInv'
      PROVE  IInv'
  <2>1. RingTypeOK'
    BY <1>0, <1>1, <1>3 DEF RingTypeOK, disks, slots, writer
  <2> QED BY <1>2, <1>3, <2>1 DEF IInv
<1> USE DEF RingTypeOK
<1>4. CASE Begin(r)
  <2>1. Serves(current) \in [gen : 0 .. MaxGen, last : 0 .. MaxOps]
    BY <1>0 DEF Serves, ArenaType
  <2>2. ReadersInv'
    <3> SUFFICES ASSUME NEW x \in Readers PROVE ReadersInv!(x)'
      BY DEF ReadersInv
    <3>1. CASE x = r
      <4>1. /\ floor'[r].gen = inner'[current'].gen /\ inner'[current'].gen \in Nat
            /\ floor'[r].last = Reach(inner'[current']) /\ Reach(inner'[current']) \in Nat
        BY <1>0, <1>1, <1>4 DEF Begin, Serves, slots, ArenaType
      <4>2. rpc'[r] = "try"
        BY <1>0, <1>4 DEF Begin
      <4> QED BY <3>1, <4>1, <4>2 DEF Reach
    <3>2. CASE x # r
      BY <1>0, <1>1, <1>4, <3>2 DEF Begin, ReadersInv, Reach, slots, writer, disks
    <3> QED BY <3>1, <3>2
  <2> QED BY <1>0, <1>3, <1>4, <2>1, <2>2 DEF Begin
<1>5. CASE Load(r)
  <2>2. ReadersInv'
    BY <1>0, <1>1, <1>5 DEF Load, ReadersInv, Reach, slots, writer, disks
  <2> QED BY <1>0, <1>3, <1>5, <2>2 DEF Load
<1>6. CASE TryRead(r)
  <2>2. ReadersInv'
    BY <1>0, <1>1, <1>6 DEF TryRead, ReadersInv, Reach, slots, writer, disks
  <2> QED BY <1>0, <1>3, <1>6, <2>2 DEF TryRead
<1>7. CASE Recheck(r)
  <2>2. ReadersInv'
    <3> SUFFICES ASSUME NEW x \in Readers PROVE ReadersInv!(x)'
      BY DEF ReadersInv
    <3>1. CASE x = r
      <4>1. CASE inner[cur[r]] # None /\ current = cur[r]
        <5>1. ~(wpc \in {"write", "seq", "current"} /\ cur[r] = job.at)
          BY <1>0, <4>1 DEF InstallInv
        <5> QED BY <1>0, <1>1, <1>7, <3>1, <4>1, <5>1 DEF Recheck, ReadersInv, Reach, slots, writer
      <4>2. CASE ~(inner[cur[r]] # None /\ current = cur[r])
        BY <1>0, <1>1, <1>7, <3>1, <4>2 DEF Recheck, ReadersInv, Reach, slots, writer
      <4> QED BY <4>1, <4>2
    <3>2. CASE x # r
      BY <1>0, <1>1, <1>7, <3>2 DEF Recheck, ReadersInv, Reach, slots, writer, disks
    <3> QED BY <3>1, <3>2
  <2> QED BY <1>0, <1>3, <1>7, <2>2 DEF Recheck
<1>8. CASE NewSnapshot(r)
  <2>0. rpc[r] = "new"
    BY <1>8 DEF NewSnapshot
  <2>1. inner[cur[r]] \in ArenaType /\ cur[r] \in Slots /\ Whole(inner[cur[r]])
    BY <1>0, <2>0 DEF ReadersInv, ArenasInv
  <2>2. inner[cur[r]].frontier \in 0 .. Capacity /\ Reach(inner[cur[r]]) \in ends
    BY <2>1 DEF ArenaType, Whole
  <2>3. ReadersInv'
    <3> SUFFICES ASSUME NEW x \in Readers PROVE ReadersInv!(x)'
      BY DEF ReadersInv
    <3>1. CASE x = r
      BY <1>0, <1>1, <1>8, <2>0, <2>2, <3>1 DEF NewSnapshot, ReadersInv, Reach, slots, writer, disks
    <3>2. CASE x # r
      BY <1>0, <1>1, <1>8, <3>2 DEF NewSnapshot, ReadersInv, Reach, slots, writer, disks
    <3> QED BY <3>1, <3>2
  <2>4. Nothing \in [gen : 0 .. MaxGen, last : 0 .. MaxOps]
    BY <1>0 DEF Nothing
  <2> QED BY <1>0, <1>3, <1>8, <2>2, <2>3, <2>4 DEF NewSnapshot
<1>9. CASE Drop(r)
  <2>1. 0 \in Slots
    BY RingConstants DEF Slots
  <2>2. ReadersInv'
    BY <1>0, <1>1, <1>9 DEF Drop, ReadersInv, Reach, slots, writer, disks
  <2> QED BY <1>0, <1>3, <1>9, <2>1, <2>2 DEF Drop
<1> QED BY <1>4, <1>5, <1>6, <1>7, <1>8, <1>9 DEF Snapshot

\* A step of a publish: the served arena keeps its base and gains cells,
\* chunks or ops; the log may have grown.  Readers that pinned it lose
\* nothing by it.
LEMMA ServedArenaGrows ==
  ASSUME IInv, NEW b \in ArenaType,
         inner' = [inner EXCEPT ![current] = b],
         b.gen = inner[current].gen, b.folded = inner[current].folded,
         b.frontier >= inner[current].frontier,
         \A i \in 0 .. b.frontier - 1 : b.at[i] = b.folded + i + 1,
         Reach(b) \in ends', ends \subseteq ends',
         wpc \in {"idle", "scan", "entries"}, wpc' \in {"idle", "entries"},
         UNCHANGED <<disk, current, locked, readers>>
  PROVE  /\ inner' \in [Slots -> ArenaType \cup {None}] /\ inner'[current] = b
         /\ inner'[current] # None
         /\ ArenasInv' /\ InstallInv' /\ ReadersInv'
<1>0. /\ RingTypeOK /\ ArenasInv /\ InstallInv /\ ReadersInv
      /\ current \in Slots /\ inner[current] \in ArenaType
      /\ Capacity \in Nat /\ MaxOps \in Nat /\ MaxGen \in Nat
  BY CapacityNat, RingConstants DEF IInv, RingTypeOK
<1>1. inner' \in [Slots -> ArenaType \cup {None}] /\ inner'[current] = b /\ b # None
  BY <1>0, NoneIsNoArena DEF RingTypeOK
<1>2. \A s \in Slots : s # current => inner'[s] = inner[s]
  BY <1>0 DEF RingTypeOK
<1>3. locked = None
  BY <1>0 DEF InstallInv
<1>4. Reach(inner[current]) <= Reach(b)
  BY <1>0 DEF Reach, ArenaType
<1>5. ArenasInv'
  <2> SUFFICES ASSUME NEW s \in Slots, inner'[s] # None
               PROVE  /\ Whole(inner[s])' /\ inner'[s].gen <= disk'
                      /\ inner'[s].gen <= inner'[current].gen
                      /\ Reach(inner'[s]) <= Reach(inner'[current])
    BY DEF ArenasInv, Reach
  <2>1. CASE s = current
    <3>1. inner[current].gen <= disk
      BY <1>0 DEF ArenasInv, RingTypeOK
    <3>2. Whole(inner[s])'
      BY <1>1, <2>1 DEF Whole, Reach
    <3>3. b.gen <= b.gen /\ Reach(b) <= Reach(b)
      BY DEF ArenaType, Reach
    <3> QED BY <1>1, <2>1, <3>1, <3>2, <3>3
  <2>2. CASE s # current
    <3>1. inner'[s] = inner[s] /\ inner[s] \in ArenaType
      BY <1>0, <1>2, <2>2 DEF RingTypeOK
    <3>2. Whole(inner[s]) /\ inner[s].gen <= disk
      BY <1>0, <3>1 DEF ArenasInv
    <3>3. inner[s].gen <= inner[current].gen /\ Reach(inner[s]) <= Reach(inner[current])
      BY <1>0, <3>1 DEF ArenasInv, Filled
    <3>4. Whole(inner[s])'
      BY <3>1, <3>2 DEF Whole, Reach
    <3>5. Reach(inner[s]) <= Reach(b)
      BY <1>0, <1>4, <3>1, <3>3 DEF Reach, ArenaType
    <3> QED BY <1>1, <3>1, <3>2, <3>3, <3>4, <3>5
  <2> QED BY <2>1, <2>2
<1>6. InstallInv'
  BY <1>3 DEF InstallInv
<1>7. ReadersInv'
  <2> SUFFICES ASSUME NEW r \in Readers PROVE ReadersInv!(r)'
    BY DEF ReadersInv
  <2>0. /\ UNCHANGED <<rpc, cur, upto, floor, current, locked>> /\ cur[r] \in Slots
        /\ inner[cur[r]] \in ArenaType \cup {None} /\ upto[r] \in 0 .. Capacity
        /\ floor[r].gen \in Nat /\ floor[r].last \in Nat
    BY <1>0 DEF readers, RingTypeOK
  <2>1. rpc[r] \in {"load", "try", "check"} =>
          floor[r].gen <= b.gen /\ floor[r].last <= Reach(b)
    BY <1>0, <1>4, <2>0 DEF ReadersInv, Reach, ArenaType
  <2>2. rpc[r] \in {"new", "open"} => inner'[cur[r]] # None
    BY <1>0, <1>1, <1>2, <2>0 DEF ReadersInv
  <2>3. CASE cur[r] = current
    BY <1>0, <1>1, <1>3, <1>4, <2>0, <2>1, <2>2, <2>3 DEF ReadersInv, Reach, ArenaType
  <2>4. CASE cur[r] # current
    BY <1>0, <1>1, <1>2, <1>3, <2>0, <2>1, <2>2, <2>4 DEF ReadersInv, Reach
  <2> QED BY <2>3, <2>4
<1> QED BY <1>1, <1>5, <1>6, <1>7

\* reserve() said yes to the ops from the served one to the end of a record.
LEMMA StartPublishInv ==
  ASSUME IInv, NEW n \in Nat, n > 0, NEW last,
         wpc \in {"idle", "scan"},
         Fits(inner[current].frontier, n),
         last = Reach(inner[current]) + n,
         StartPublish(n, Reach(inner[current]), last),
         ends \subseteq ends', ends' \subseteq 0 .. MaxOps, last \in ends',
         UNCHANGED <<disk, seq, current, locked, readers>>
  PROVE  IInv'
<1> DEFINE a == inner[current]
<1>a. PICK b : b = [a EXCEPT !.chunks = @ \cup Reserved(a.frontier, n)]
  OBVIOUS
<1>0. /\ RingTypeOK /\ ArenasInv /\ InstallInv /\ ReadersInv /\ current \in Slots
      /\ Capacity \in Nat /\ MaxOps \in Nat /\ GenSlots \in Nat
      /\ a \in ArenaType /\ Whole(a) /\ Reach(a) \in Nat
  BY CapacityNat, RingConstants, ServedIs DEF IInv, RingTypeOK
<1>1. a.frontier \in Nat /\ a.folded \in Nat /\ a.frontier + n <= Capacity /\ last \in 0 .. MaxOps
  BY <1>0 DEF ArenaType, Fits
<1>2. /\ Reserved(a.frontier, n) \subseteq 0 .. Chunks - 1
      /\ \A i \in a.frontier .. a.frontier + n - 1 : Locate(i) \in Reserved(a.frontier, n)
  BY <1>1, ReservedCovers
<1>3. /\ b \in ArenaType /\ b.gen = a.gen /\ b.folded = a.folded
      /\ b.frontier = a.frontier /\ b.at = a.at
      /\ Reserved(a.frontier, n) \subseteq b.chunks
  BY <1>a, <1>0, <1>2 DEF ArenaType
<1>4. inner' = [inner EXCEPT ![current] = b]
  BY <1>a, <1>0 DEF StartPublish, RingTypeOK
<1>5. Reach(b) \in ends' /\ \A i \in 0 .. b.frontier - 1 : b.at[i] = b.folded + i + 1
  BY <1>0, <1>3 DEF Whole, Reach
<1>6. wpc' = "entries"
  BY DEF StartPublish
<1>7. /\ inner' \in [Slots -> ArenaType \cup {None}] /\ inner'[current] = b
      /\ inner'[current] # None /\ ArenasInv' /\ InstallInv' /\ ReadersInv'
  <2>1. b.frontier >= a.frontier
    BY <1>1, <1>3
  <2> QED BY <1>0, <1>3, <1>4, <1>5, <1>6, <2>1, ServedArenaGrows
<1>8. job' = [next |-> a.frontier, op |-> Reach(a) + 1, last |-> last, built |-> None, at |-> 0]
  BY DEF StartPublish, Idle
<1>9. RingTypeOK'
  <2>1. job' \in JobType
    BY <1>0, <1>1, <1>8 DEF JobType
  <2>2. /\ current' = current /\ locked' = locked /\ seq' = seq /\ disk' = disk
        /\ rpc' = rpc /\ cur' = cur /\ upto' = upto /\ floor' = floor
    BY DEF readers
  <2> QED BY <1>0, <1>6, <1>7, <2>1, <2>2 DEF RingTypeOK
<1>10. PublishFits'
  <2> SUFFICES ASSUME NEW k \in 0 .. last - (Reach(a) + 1)
               PROVE  Locate(a.frontier + k) \in b.chunks
    BY <1>7, <1>8 DEF PublishFits
  <2>1. a.frontier + k \in a.frontier .. a.frontier + n - 1
    BY <1>0, <1>1
  <2> QED BY <1>2, <1>3, <2>1
<1>11. EntriesInv'
  <2>1. /\ b.frontier <= job'.next /\ job'.op = b.folded + job'.next + 1
        /\ job'.op <= job'.last + 1 /\ job'.last \in ends'
        /\ job'.last - b.folded <= Capacity
    BY <1>0, <1>1, <1>3, <1>8 DEF Reach
  <2>2. \A i \in 0 .. job'.next - 1 : b.at[i] = b.folded + i + 1
    BY <1>0, <1>3, <1>8 DEF Whole
  <2> QED BY <1>7, <2>1, <2>2 DEF EntriesInv
<1> QED BY <1>7, <1>9, <1>10, <1>11 DEF IInv

LEMMA CommitInv ==
  ASSUME IInv, NEW n \in 1 .. MaxRecord, Commit(n)
  PROVE  IInv'
<1>0. /\ RingTypeOK /\ ArenasInv /\ ServedSeq(current) = Reach(inner[current])
      /\ n \in Nat /\ n > 0
  BY ServedIs, RingConstants DEF IInv
<1>1. /\ wpc = "idle" /\ Last + n <= MaxOps /\ ServedSeq(current) = Last
      /\ Fits(inner[current].frontier, n) /\ StartPublish(n, Last, Last + n)
      /\ ends' = ends \cup {Last + n}
      /\ UNCHANGED <<disk, seq, current, locked, readers>>
  BY DEF Commit
<1>2. ends' \subseteq 0 .. MaxOps /\ ends \subseteq ends' /\ Last + n \in ends'
  BY <1>0, <1>1, LastAppended
<1>3. StartPublish(n, Reach(inner[current]), Last + n) /\ Last + n = Reach(inner[current]) + n
  BY <1>0, <1>1
<1> HIDE DEF IInv
<1> QED BY <1>0, <1>1, <1>2, <1>3, StartPublishInv

\* publish_new, from a catch-up or a refused install.
LEMMA PublishNewInv ==
  ASSUME IInv, wpc \in {"idle", "scan"}, NEW from \in Nat, from <= ServedSeq(current),
         PublishNew(from), UNCHANGED <<disks, seq, current, locked, readers>>
  PROVE  IInv'
<1> DEFINE served == Reach(inner[current])
<1>0. /\ RingTypeOK /\ ArenasInv /\ ServedSeq(current) = served
      /\ served \in Nat /\ served <= Last /\ from \in Nat /\ Last \in ends
      /\ Last \in Nat /\ ends \subseteq 0 .. MaxOps
  BY ServedIs, LastIs DEF IInv, RingTypeOK
<1> HIDE DEF served
<1>1. NewOps(from, served) = Last - served
  BY <1>0, NewOpsIs
<1>2. PICK n : n = Last - served
  OBVIOUS
<1>3. n \in Nat /\ n > 0 /\ Fits(inner[current].frontier, n) /\ StartPublish(n, served, Last)
  BY <1>0, <1>1, <1>2 DEF PublishNew
<1>4. ends' = ends /\ disk' = disk /\ Last = served + n
  BY <1>0, <1>2 DEF disks
<1>5. StartPublish(n, Reach(inner[current]), Last) /\ Last = Reach(inner[current]) + n
  BY <1>3, <1>4 DEF served
<1> QED BY <1>0, <1>3, <1>4, <1>5, StartPublishInv

LEMMA CatchUpInv ==
  ASSUME IInv, CatchUp
  PROVE  IInv'
<1>1. PICK from \in {e \in ends : e <= ServedSeq(current)} : PublishNew(from)
  BY DEF CatchUp
<1>2. from \in Nat /\ from <= ServedSeq(current)
  BY RingConstants DEF IInv, RingTypeOK
<1> QED BY <1>1, <1>2, PublishNewInv DEF CatchUp

LEMMA PutEntryInv ==
  ASSUME IInv, PutEntry
  PROVE  IInv'
<1> DEFINE a == inner[current]
<1>0. /\ RingTypeOK /\ ArenasInv /\ InstallInv /\ ReadersInv /\ EntriesInv /\ PublishFits
      /\ Capacity \in Nat /\ MaxOps \in Nat /\ GenSlots \in Nat /\ current \in Slots
      /\ a \in ArenaType /\ Whole(a) /\ Reach(a) \in ends /\ job \in JobType
  BY CapacityNat, RingConstants, ServedIs DEF IInv, RingTypeOK
<1>1. /\ wpc = "entries" /\ job.op <= job.last /\ Locate(job.next) < Chunks
      /\ job' = [job EXCEPT !.next = @ + 1, !.op = @ + 1]
      /\ UNCHANGED <<disks, seq, current, locked, wpc, readers>>
  BY DEF PutEntry
<1>2. /\ a.frontier \in Nat /\ a.folded \in Nat /\ job.next \in Nat /\ job.op \in Nat
      /\ job.last \in 0 .. MaxOps /\ a.frontier <= job.next
      /\ job.op = a.folded + job.next + 1 /\ job.last \in ends
      /\ job.last - a.folded <= Capacity
      /\ \A i \in 0 .. job.next - 1 : a.at[i] = a.folded + i + 1
  BY <1>0, <1>1 DEF ArenaType, JobType, EntriesInv
<1>3. job.next \in Cells /\ job.op \in 0 .. MaxOps
  BY <1>0, <1>1, <1>2, CapacityNat
<1>4. Locate(job.next) \in 0 .. Chunks - 1
  BY <1>3, CapacityNat, LocateIs
<1>5. PICK b : b = [a EXCEPT !.at = [a.at EXCEPT ![job.next] = job.op],
                             !.chunks = a.chunks \cup {Locate(job.next)}]
  OBVIOUS
<1>6. /\ b \in ArenaType /\ b.gen = a.gen /\ b.folded = a.folded
      /\ b.frontier = a.frontier /\ a.chunks \subseteq b.chunks
      /\ b.at = [a.at EXCEPT ![job.next] = job.op]
  BY <1>0, <1>3, <1>4, <1>5 DEF ArenaType
<1>7. inner' = [inner EXCEPT ![current] = b]
  BY <1>0, <1>5 DEF PutEntry, RingTypeOK
<1>8. \A i \in 0 .. job.next : b.at[i] = b.folded + i + 1
  <2> SUFFICES ASSUME NEW i \in 0 .. job.next PROVE b.at[i] = b.folded + i + 1
    OBVIOUS
  <2>1. a.at \in [Cells -> 0 .. MaxOps] /\ i \in Cells
    <3>1. a.at \in [Cells -> 0 .. MaxOps]
      BY <1>0 DEF ArenaType
    <3>2. job.next \in 0 .. Capacity - 1 /\ Cells = 0 .. Capacity - 1
      BY <1>3, CapacityNat
    <3>3. i \in 0 .. Capacity - 1
      BY <1>0, <1>2, <3>2
    <3> QED BY <3>1, <3>2, <3>3
  <2>2. CASE i = job.next
    BY <1>2, <1>3, <1>6, <2>1, <2>2
  <2>3. CASE i # job.next
    <3>1. i \in 0 .. job.next - 1 /\ b.at[i] = a.at[i]
      BY <1>2, <1>6, <2>1, <2>3
    <3> QED BY <1>2, <1>6, <3>1
  <2> QED BY <2>2, <2>3
<1>9. ends' = ends /\ disk' = disk /\ Reach(b) \in ends' /\ b.frontier >= a.frontier
  BY <1>0, <1>1, <1>2, <1>6 DEF disks, Reach
<1>10. /\ inner' \in [Slots -> ArenaType \cup {None}] /\ inner'[current] = b
       /\ inner'[current] # None /\ ArenasInv' /\ InstallInv' /\ ReadersInv'
  <2>1. \A i \in 0 .. b.frontier - 1 : b.at[i] = b.folded + i + 1
    BY <1>2, <1>6, <1>8
  <2> QED BY <1>0, <1>1, <1>6, <1>7, <1>9, <2>1, ServedArenaGrows
<1>11. job' = [next |-> job.next + 1, op |-> job.op + 1, last |-> job.last,
               built |-> job.built, at |-> job.at]
  BY <1>0, <1>1 DEF JobType
<1>12. RingTypeOK'
  <2>1. job' \in JobType
    BY <1>0, <1>3, <1>11, CapacityNat DEF JobType
  <2>2. /\ current' = current /\ locked' = locked /\ seq' = seq /\ wpc' = wpc
        /\ rpc' = rpc /\ cur' = cur /\ upto' = upto /\ floor' = floor
    BY <1>1 DEF readers
  <2> QED BY <1>0, <1>9, <1>10, <2>1, <2>2 DEF RingTypeOK
<1>13. PublishFits'
  <2> SUFFICES ASSUME NEW k \in 0 .. job.last - (job.op + 1)
               PROVE  Locate(job.next + 1 + k) \in b.chunks
    BY <1>1, <1>10, <1>11 DEF PublishFits
  <2>1. k + 1 \in 0 .. job.last - job.op
    BY <1>2
  <2>2. Locate(job.next + (k + 1)) \in a.chunks
    BY <1>0, <1>1, <2>1 DEF PublishFits
  <2>3. job.next + 1 + k = job.next + (k + 1)
    BY <1>2
  <2> QED BY <1>6, <2>2, <2>3
<1>14. EntriesInv'
  <2>1. /\ b.frontier <= job'.next /\ job'.op = b.folded + job'.next + 1
        /\ job'.op <= job'.last + 1 /\ job'.last \in ends'
        /\ job'.last - b.folded <= Capacity
    BY <1>1, <1>2, <1>6, <1>9, <1>11
  <2>2. \A i \in 0 .. job'.next - 1 : b.at[i] = b.folded + i + 1
    BY <1>2, <1>8, <1>11
  <2> QED BY <1>1, <1>10, <2>1, <2>2 DEF EntriesInv
<1> QED BY <1>10, <1>12, <1>13, <1>14 DEF IInv

LEMMA MoveFrontierInv ==
  ASSUME IInv, MoveFrontier
  PROVE  IInv'
<1> DEFINE a == inner[current]
<1>0. /\ RingTypeOK /\ ArenasInv /\ InstallInv /\ ReadersInv /\ EntriesInv
      /\ Capacity \in Nat /\ MaxOps \in Nat /\ GenSlots \in Nat /\ current \in Slots
      /\ a \in ArenaType /\ job \in JobType /\ Chunks \in Nat
  BY CapacityNat, RingConstants, ServedIs DEF IInv, RingTypeOK
<1>1. /\ wpc = "entries" /\ wpc' = "idle" /\ job' = Idle
      /\ job.op > job.last \/ Locate(job.next) = Chunks
      /\ UNCHANGED <<disks, seq, current, locked, readers>>
  BY DEF MoveFrontier
<1>2. /\ a.frontier \in Nat /\ a.folded \in Nat /\ job.next \in 0 .. Capacity /\ job.op \in Nat
      /\ job.last \in 0 .. MaxOps /\ a.frontier <= job.next
      /\ job.op = a.folded + job.next + 1 /\ job.op <= job.last + 1 /\ job.last \in ends
      /\ job.last - a.folded <= Capacity
      /\ \A i \in 0 .. job.next - 1 : a.at[i] = a.folded + i + 1
  BY <1>0, <1>1 DEF ArenaType, JobType, EntriesInv
<1>3. a.folded + job.next = job.last
  <2>1. job.op <= job.last => Locate(job.next) \in 0 .. Chunks - 1
    <3>1. job.op <= job.last => job.next \in 0 .. Capacity - 1
      BY <1>0, <1>2
    <3> QED BY <3>1, LocateIs
  <2>2. job.op > job.last
    BY <1>0, <1>1, <1>2, <2>1
  <2> QED BY <1>2, <2>2
<1>4. PICK b : b = [a EXCEPT !.frontier = job.next]
  OBVIOUS
<1>5. /\ b \in ArenaType /\ b.gen = a.gen /\ b.folded = a.folded
      /\ b.frontier = job.next /\ b.at = a.at
  BY <1>0, <1>2, <1>4 DEF ArenaType
<1>6. inner' = [inner EXCEPT ![current] = b]
  BY <1>0, <1>4 DEF MoveFrontier, RingTypeOK
<1>7. ends' = ends /\ disk' = disk /\ Reach(b) \in ends' /\ b.frontier >= a.frontier
  BY <1>0, <1>1, <1>2, <1>3, <1>5 DEF disks, Reach
<1>8. /\ inner' \in [Slots -> ArenaType \cup {None}] /\ inner'[current] = b
      /\ inner'[current] # None /\ ArenasInv' /\ InstallInv' /\ ReadersInv'
  <2>1. \A i \in 0 .. b.frontier - 1 : b.at[i] = b.folded + i + 1
    BY <1>2, <1>5
  <2> QED BY <1>0, <1>1, <1>5, <1>6, <1>7, <2>1, ServedArenaGrows
<1>9. RingTypeOK'
  <2>1. job' \in JobType
    BY <1>0, <1>1 DEF JobType, Idle
  <2>2. /\ current' = current /\ locked' = locked /\ seq' = seq
        /\ rpc' = rpc /\ cur' = cur /\ upto' = upto /\ floor' = floor
    BY <1>1 DEF readers
  <2> QED BY <1>0, <1>1, <1>7, <1>8, <2>1, <2>2 DEF RingTypeOK
<1>10. PublishFits' /\ EntriesInv'
  BY <1>1 DEF PublishFits, EntriesInv
<1> QED BY <1>8, <1>9, <1>10 DEF IInv

LEMMA ElsewhereInv ==
  ASSUME IInv, NEW n \in 1 .. MaxRecord, Elsewhere(n)
  PROVE  IInv'
<1>0. /\ RingTypeOK /\ ArenasInv /\ InstallInv /\ ReadersInv /\ n \in Nat /\ n > 0
      /\ wpc = "idle" /\ Last + n <= MaxOps /\ ends' = ends \cup {Last + n}
      /\ UNCHANGED <<disk, inner, seq, current, locked, wpc, job, rpc, cur, upto, floor>>
  BY RingConstants DEF IInv, Elsewhere, slots, writer, readers
<1>1. ends' \in SUBSET (0 .. MaxOps) /\ 0 \in ends' /\ ends \subseteq ends'
  BY <1>0, LastAppended
<1>2. RingTypeOK'
  BY <1>0, <1>1 DEF RingTypeOK
<1>3. ArenasInv'
  BY <1>0, <1>1 DEF ArenasInv, Whole, Reach, Filled
<1>4. PublishFits' /\ EntriesInv' /\ InstallInv'
  BY <1>0 DEF PublishFits, EntriesInv, InstallInv
<1>5. ReadersInv'
  BY <1>0, <1>1 DEF ReadersInv, Reach
<1> QED BY <1>2, <1>3, <1>4, <1>5 DEF IInv

\* A step of an install that leaves the log, the slots' contents, `current`
\* and the readers alone.
LEMMA InstallStepKeeps ==
  ASSUME IInv, UNCHANGED <<ends, inner, current, rpc, cur, upto, floor>>, disk' >= disk,
         disk' \in 1 .. MaxGen,
         wpc' \notin {"entries", "seq", "current"}, wpc \notin {"seq", "current"},
         \A r \in Readers : rpc[r] \in {"check", "new", "open"} =>
           cur[r] # locked' /\ ~(wpc' = "write" /\ cur[r] = job'.at)
  PROVE  PublishFits' /\ EntriesInv' /\ ArenasInv' /\ ReadersInv'
<1>0. /\ ArenasInv /\ ReadersInv /\ disk \in Nat /\ disk' \in Nat /\ MaxGen \in Nat
      /\ inner \in [Slots -> ArenaType \cup {None}]
  BY RingConstants DEF IInv, RingTypeOK
<1>1. PublishFits' /\ EntriesInv'
  BY DEF PublishFits, EntriesInv
<1>2. ArenasInv'
  <2> SUFFICES ASSUME NEW s \in Slots, inner[s] # None PROVE ArenasInv!(s)!2'
    BY DEF ArenasInv
  <2>1. inner[s].gen \in Nat /\ inner[s].gen <= disk
    BY <1>0 DEF ArenasInv, ArenaType
  <2>2. inner[s].gen <= disk'
    BY <1>0, <2>1
  <2> QED BY <1>0, <2>2 DEF ArenasInv, Whole, Reach, Filled
<1>3. ReadersInv'
  BY <1>0 DEF ReadersInv, Reach
<1> QED BY <1>1, <1>2, <1>3

LEMMA BuildInv ==
  ASSUME IInv, NEW f \in ends, Build(f)
  PROVE  IInv'
<1> DEFINE a == inner[current]
<1>0. /\ RingTypeOK /\ ArenasInv /\ InstallInv /\ ReadersInv /\ current \in Slots
      /\ Capacity \in Nat /\ MaxOps \in Nat /\ GenSlots \in Nat /\ MaxGen \in Nat
      /\ disk \in 1 .. MaxGen /\ a \in ArenaType /\ a.gen <= disk
      /\ Last \in ends /\ Last \in 0 .. MaxOps /\ f \in Nat /\ f <= Last /\ Last \in Nat
  BY CapacityNat, RingConstants, LastIs DEF IInv, RingTypeOK, ArenasInv
<1>1. /\ wpc = "idle" /\ disk < MaxGen /\ Last - f <= Capacity /\ disk' = disk + 1
      /\ wpc' = "scan" /\ job' = [Idle EXCEPT !.built = Built(disk + 1, f, Last)]
      /\ UNCHANGED <<ends, inner, seq, current, locked, rpc, cur, upto, floor>>
  BY DEF Build, slots, readers
<1>2. PICK b : b = Built(disk + 1, f, Last)
  OBVIOUS
<1>3. /\ b.gen = disk + 1 /\ b.folded = f /\ b.frontier = Last - f
      /\ b.at = [i \in Cells |-> IF i < Last - f THEN f + i + 1 ELSE 0]
      /\ b.chunks = Reserved(0, Last - f)
      /\ b = [gen |-> b.gen, folded |-> b.folded, at |-> b.at, frontier |-> b.frontier,
              chunks |-> b.chunks]
  BY <1>2 DEF Built, NewArena
<1>4. b.at \in [Cells -> 0 .. MaxOps]
  BY <1>0, <1>3, CapacityNat
<1>5. b.chunks \subseteq 0 .. Chunks - 1
  BY <1>3 DEF Reserved
<1>6. b \in ArenaType /\ b # None
  <2>1. b \in ArenaType
    BY <1>0, <1>1, <1>3, <1>4, <1>5 DEF ArenaType
  <2> QED BY <2>1, NoneIsNoArena
<1>7. Reach(b) = Last /\ \A i \in 0 .. b.frontier - 1 : b.at[i] = b.folded + i + 1
  BY <1>0, <1>1, <1>3, CapacityNat DEF Reach
<1>8. job' = [next |-> 0, op |-> 0, last |-> 0, built |-> b, at |-> 0]
  BY <1>1, <1>2 DEF Idle
<1>9. RingTypeOK'
  <2>1. job' \in JobType
    BY <1>0, <1>6, <1>8 DEF JobType
  <2>2. disk' \in 1 .. MaxGen
    BY <1>0, <1>1
  <2> QED BY <1>0, <1>1, <2>1, <2>2 DEF RingTypeOK
<1>10. locked = None
  BY <1>0, <1>1 DEF InstallInv
<1>11. InstallInv'
  <2>1. job'.built = b /\ Last' = Last /\ current' = current /\ inner' = inner
    BY <1>1, <1>8 DEF Last
  <2>2. Whole(job.built)'
    BY <1>0, <1>1, <1>7, <2>1 DEF Whole, Reach
  <2>3. a.gen < disk'
    BY <1>0, <1>1 DEF ArenaType
  <2>4. job'.built # None /\ job'.built.gen = disk' /\ Reach(job'.built) = Last'
    BY <1>1, <1>3, <1>6, <1>7, <2>1
  <2> QED BY <1>1, <1>10, <2>1, <2>2, <2>3, <2>4 DEF InstallInv, Reach
<1>12. PublishFits' /\ EntriesInv' /\ ArenasInv' /\ ReadersInv'
  <2>1. \A r \in Readers : cur[r] # locked'
    BY <1>0, <1>1, <1>10, RingConstants DEF RingTypeOK, Slots
  <2>2. disk' >= disk /\ disk' \in 1 .. MaxGen
    BY <1>0, <1>1
  <2> QED BY <1>1, <2>1, <2>2, InstallStepKeeps
<1> QED BY <1>9, <1>11, <1>12 DEF IInv

LEMMA ScanInv ==
  ASSUME IInv, Scan
  PROVE  IInv'
<1>0. /\ RingTypeOK /\ ArenasInv /\ InstallInv /\ ReadersInv /\ GenSlots \in Nat
      /\ wpc = "scan" /\ job.at \in Slots /\ job \in JobType /\ None \notin Slots
      /\ UNCHANGED <<ends, disk, inner, seq, current, rpc, cur, upto, floor>>
      /\ locked = None
  BY RingConstants, SMTT(40) DEF IInv, Scan, disks, readers, RingTypeOK, InstallInv, Slots
<1>1. ASSUME RingTypeOK', InstallInv', wpc' \in {"scan", "write"},
             \A r \in Readers : rpc[r] \in {"check", "new", "open"} =>
               cur[r] # locked' /\ ~(wpc' = "write" /\ cur[r] = job'.at)
      PROVE  IInv'
  <2>1. disk' >= disk /\ disk' \in 1 .. MaxGen
    BY <1>0, RingConstants DEF RingTypeOK
  <2>2. PublishFits' /\ EntriesInv' /\ ArenasInv' /\ ReadersInv'
    BY <1>0, <1>1, <2>1, InstallStepKeeps
  <2> QED BY <1>1, <2>2 DEF IInv
<1>2. CASE /\ job.at = current \/ Pinned(job.at)
           /\ job' = [job EXCEPT !.at = @ + 1]
           /\ UNCHANGED <<locked, wpc>>
  <2>1. /\ job' \in JobType /\ job'.built = job.built
    BY <1>0, <1>2 DEF JobType, Slots
  <2>2. RingTypeOK'
    BY <1>0, <1>2, <2>1 DEF RingTypeOK
  <2>3. InstallInv'
    BY <1>0, <1>2, <2>1 DEF InstallInv, Whole, Reach, Last
  <2>4. \A r \in Readers : cur[r] # locked'
    BY <1>0, <1>2 DEF RingTypeOK
  <2> QED BY <1>0, <1>1, <1>2, <2>2, <2>3, <2>4
<1>3. CASE /\ job.at # current /\ ~Pinned(job.at)
           /\ locked' = job.at /\ wpc' = "write" /\ UNCHANGED job
  <2>1. RingTypeOK'
    BY <1>0, <1>3 DEF RingTypeOK
  <2>2. InstallInv'
    BY <1>0, <1>3 DEF InstallInv, Whole, Reach, Last
  <2>3. \A r \in Readers : rpc[r] \in {"check", "new", "open"} => cur[r] # job.at
    BY <1>3 DEF Pinned
  <2> QED BY <1>0, <1>1, <1>3, <2>1, <2>2, <2>3
<1> QED BY <1>2, <1>3 DEF Scan

LEMMA WriteSlotInv ==
  ASSUME IInv, WriteSlot
  PROVE  IInv'
<1>0. /\ RingTypeOK /\ ArenasInv /\ InstallInv /\ ReadersInv /\ job \in JobType
      /\ wpc = "write" /\ wpc' = "seq" /\ locked' = None /\ locked = job.at
      /\ job.at \in Slots \ {current} /\ current \in Slots
      /\ inner' = [inner EXCEPT ![job.at] = job.built]
      /\ UNCHANGED <<ends, disk, seq, current, job, rpc, cur, upto, floor>>
  BY DEF IInv, WriteSlot, disks, readers, RingTypeOK, InstallInv
<1>1. /\ job.built # None /\ Whole(job.built) /\ job.built.gen = disk
      /\ inner[current].gen < disk /\ Reach(job.built) = Last /\ job.built \in ArenaType
      /\ disk \in Nat
  BY <1>0, RingConstants DEF InstallInv, JobType, RingTypeOK
<1>2. /\ inner' \in [Slots -> ArenaType \cup {None}]
      /\ inner'[job.at] = job.built /\ \A s \in Slots : s # job.at => inner'[s] = inner[s]
  BY <1>0, <1>1 DEF RingTypeOK
<1>3. inner'[current] = inner[current]
  BY <1>0, <1>2
<1>4. RingTypeOK'
  BY <1>0, <1>2, <1>3 DEF RingTypeOK
<1>5. PublishFits' /\ EntriesInv'
  BY <1>0 DEF PublishFits, EntriesInv
<1>6. InstallInv'
  BY <1>0, <1>1, <1>2, <1>3 DEF InstallInv, Whole, Reach, Last
<1>7. ArenasInv'
  <2> SUFFICES ASSUME NEW s \in Slots, inner'[s] # None PROVE ArenasInv!(s)!2'
    BY DEF ArenasInv
  <2>1. CASE s = job.at
    BY <1>0, <1>1, <1>2, <2>1 DEF Whole, Reach, Filled
  <2>2. CASE s # job.at
    BY <1>0, <1>2, <1>3, <2>2 DEF ArenasInv, Whole, Reach, Filled
  <2> QED BY <2>1, <2>2
<1>8. ReadersInv'
  <2> SUFFICES ASSUME NEW r \in Readers PROVE ReadersInv!(r)'
    BY DEF ReadersInv
  <2>1. rpc[r] \in {"new", "open"} => cur[r] # job.at /\ inner'[cur[r]] = inner[cur[r]]
    BY <1>0, <1>2 DEF ReadersInv, RingTypeOK
  <2>2. cur[r] # None
    BY <1>0, RingConstants DEF RingTypeOK, Slots
  <2> QED BY <1>0, <1>3, <2>1, <2>2 DEF ReadersInv, Reach
<1> QED BY <1>4, <1>5, <1>6, <1>7, <1>8 DEF IInv

LEMMA StoreSeqInv ==
  ASSUME IInv, StoreSeq
  PROVE  IInv'
<1>0. /\ RingTypeOK /\ ArenasInv /\ InstallInv /\ ReadersInv
      /\ wpc = "seq" /\ wpc' = "current" /\ seq' = [seq EXCEPT ![job.at] = job.built.gen]
      /\ UNCHANGED <<ends, disk, inner, current, locked, job, rpc, cur, upto, floor>>
  BY DEF IInv, StoreSeq, disks, readers
<1>1. job.built.gen \in 0 .. MaxGen
  BY <1>0, RingConstants DEF InstallInv, RingTypeOK
<1>2. RingTypeOK'
  BY <1>0, <1>1 DEF RingTypeOK
<1>3. PublishFits' /\ EntriesInv'
  BY <1>0 DEF PublishFits, EntriesInv
<1>4. InstallInv'
  BY <1>0 DEF InstallInv, Whole, Reach, Last
<1>5. ArenasInv'
  BY <1>0 DEF ArenasInv, Whole, Reach, Filled
<1>6. ReadersInv'
  BY <1>0 DEF ReadersInv, Reach
<1> QED BY <1>2, <1>3, <1>4, <1>5, <1>6 DEF IInv

LEMMA StoreCurrentInv ==
  ASSUME IInv, StoreCurrent
  PROVE  IInv'
<1>0. /\ RingTypeOK /\ ArenasInv /\ InstallInv /\ ReadersInv
      /\ wpc = "current" /\ wpc' = "idle" /\ current' = job.at /\ job' = Idle
      /\ locked = None /\ job.at \in Slots \ {current}
      /\ UNCHANGED <<ends, disk, inner, seq, locked, rpc, cur, upto, floor>>
      /\ GenSlots \in Nat /\ Capacity \in Nat /\ MaxOps \in Nat /\ MaxGen \in Nat
      /\ current \in Slots /\ inner \in [Slots -> ArenaType \cup {None}] /\ disk \in Nat
  BY RingConstants, CapacityNat DEF IInv, StoreCurrent, disks, readers, InstallInv, RingTypeOK
<1>1. /\ inner[job.at] = job.built /\ job.built # None /\ job.built.gen = disk
      /\ inner[current].gen < disk /\ Reach(job.built) = Last /\ Last \in Nat
  BY <1>0, LastIs DEF InstallInv
<1>2. RingTypeOK'
  <2>1. job' \in JobType
    BY <1>0 DEF Idle, JobType
  <2> QED BY <1>0, <1>1, <2>1 DEF RingTypeOK
<1>3. PublishFits' /\ EntriesInv' /\ InstallInv'
  BY <1>0 DEF PublishFits, EntriesInv, InstallInv
<1>4. ASSUME NEW s \in Slots, inner[s] # None
      PROVE  inner[s].gen <= disk /\ Reach(inner[s]) <= Last /\ Whole(inner[s])
  <2>1. Whole(inner[s]) /\ inner[s].gen <= disk
    BY <1>0, <1>4 DEF ArenasInv
  <2> QED BY <1>0, <2>1, LastIs DEF Whole
<1>5. ArenasInv'
  <2> SUFFICES ASSUME NEW s \in Slots, inner'[s] # None PROVE ArenasInv!(s)!2'
    BY DEF ArenasInv
  <2> QED BY <1>0, <1>1, <1>4 DEF Whole, Reach, Filled
<1>6. ReadersInv'
  <2> SUFFICES ASSUME NEW r \in Readers PROVE ReadersInv!(r)'
    BY DEF ReadersInv
  <2>1. floor[r].gen \in Nat /\ floor[r].last \in Nat /\ inner[current].gen \in Nat
    BY <1>0 DEF RingTypeOK, ArenaType
  <2>2. Reach(inner[current]) \in Nat /\ Reach(inner[current]) <= Last
    BY <1>0, ServedIs
  <2>3. rpc[r] \in {"load", "try", "check"} => floor[r].gen <= disk /\ floor[r].last <= Last
    BY <1>0, <1>1, <2>1, <2>2 DEF ReadersInv
  <2> QED BY <1>0, <1>1, <2>3 DEF ReadersInv, Reach
<1> QED BY <1>2, <1>3, <1>5, <1>6 DEF IInv

LEMMA RefusedInv ==
  ASSUME IInv, Refused
  PROVE  IInv'
<1>0. /\ RingTypeOK /\ ArenasInv /\ InstallInv /\ ReadersInv /\ wpc = "scan"
      /\ UNCHANGED <<ends, disk, seq, current, locked, rpc, cur, upto, floor>>
      /\ UNCHANGED <<disks, seq, current, locked, readers>> /\ locked = None
  BY DEF IInv, Refused, disks, readers, InstallInv
<1>1. CASE job.built.folded <= ServedSeq(current) /\ PublishNew(job.built.folded)
  <2>1. PICK from : from = job.built.folded
    OBVIOUS
  <2>2. from \in Nat
    BY <1>0, <2>1, RingConstants DEF InstallInv, RingTypeOK, JobType, ArenaType
  <2> QED BY <1>0, <1>1, <2>1, <2>2, PublishNewInv
<1>2. CASE wpc' = "idle" /\ job' = Idle /\ UNCHANGED inner
  <2>1. RingTypeOK'
    BY <1>0, <1>2, RingConstants, CapacityNat DEF RingTypeOK, JobType, Idle
  <2>2. InstallInv'
    BY <1>0, <1>2 DEF InstallInv
  <2>3. disk' >= disk /\ disk' \in 1 .. MaxGen /\ \A r \in Readers : cur[r] # locked'
    BY <1>0, RingConstants DEF RingTypeOK, Slots
  <2>4. PublishFits' /\ EntriesInv' /\ ArenasInv' /\ ReadersInv'
    BY <1>0, <1>2, <2>3, InstallStepKeeps
  <2> QED BY <2>1, <2>2, <2>4 DEF IInv
<1> QED BY <1>1, <1>2 DEF Refused

LEMMA NextInv == IInv /\ [Next]_vars => IInv'
<1> SUFFICES ASSUME IInv, [Next]_vars PROVE IInv'
  OBVIOUS
<1>1. CASE \E n \in 1 .. MaxRecord : Commit(n) \/ Elsewhere(n)
  BY <1>1, CommitInv, ElsewhereInv
<1>2. CASE CatchUp
  BY <1>2, CatchUpInv
<1>3. CASE PutEntry
  BY <1>3, PutEntryInv
<1>4. CASE MoveFrontier
  BY <1>4, MoveFrontierInv
<1>5. CASE \E f \in ends : Build(f)
  BY <1>5, BuildInv
<1>6. CASE Scan
  BY <1>6, ScanInv
<1>7. CASE WriteSlot
  BY <1>7, WriteSlotInv
<1>8. CASE StoreSeq
  BY <1>8, StoreSeqInv
<1>9. CASE StoreCurrent
  BY <1>9, StoreCurrentInv
<1>10. CASE Refused
  BY <1>10, RefusedInv
<1>11. CASE \E r \in Readers : Begin(r) \/ Snapshot(r) \/ Drop(r)
  BY <1>11, ReaderInv
<1>12. CASE UNCHANGED vars
  <2>1. UNCHANGED <<disks, slots, writer>> /\ UNCHANGED <<rpc, cur, upto, floor>>
    BY <1>12 DEF vars, disks, slots, writer
  <2>2. PublishFits' /\ ArenasInv' /\ EntriesInv' /\ InstallInv'
    BY <2>1, ReaderStepKeeps
  <2>3. RingTypeOK' /\ ReadersInv'
    BY <2>1 DEF IInv, RingTypeOK, ReadersInv, Reach, disks, slots, writer
  <2> QED BY <2>2, <2>3 DEF IInv
<1> QED
  BY <1>1, <1>2, <1>3, <1>4, <1>5, <1>6, <1>7, <1>8, <1>9, <1>10, <1>11, <1>12 DEF Next

LEMMA Invariant == Spec => []IInv
  BY InitInv, NextInv, PTL DEF Spec

----------------------------------------------------------------------------
(* What follows. *)

\* The slot that is served is never empty nor locked, and after reserve()
\* said yes every cell a publish still has to write is in a chunk that is
\* there: publish and served_seq cannot fail.
THEOREM RingTheorem == Spec => []RingInv
<1>1. IInv => RingInv
  BY DEF IInv, RingInv
<1> QED BY <1>1, Invariant, PTL

\* A snapshot shows the ops folded into its base and then every op up to the
\* end of one record, for as long as it is open.
THEOREM WholeRecordsTheorem == Spec => []WholeRecords
<1>1. IInv => WholeRecords
  <2> SUFFICES ASSUME IInv, NEW r \in Readers, rpc[r] = "open"
               PROVE  /\ \A i \in 0 .. upto[r] - 1 :
                           inner[cur[r]].at[i] = inner[cur[r]].folded + i + 1
                      /\ inner[cur[r]].folded + upto[r] \in ends
    BY DEF WholeRecords
  <2>1. /\ RingTypeOK /\ ArenasInv /\ ReadersInv /\ Capacity \in Nat
        /\ cur[r] \in Slots /\ upto[r] \in 0 .. Capacity
    BY CapacityNat DEF IInv, RingTypeOK
  <2>2. /\ inner[cur[r]] # None /\ upto[r] <= inner[cur[r]].frontier
        /\ inner[cur[r]].folded + upto[r] \in ends
    BY <2>1 DEF ReadersInv
  <2>3. /\ inner[cur[r]].frontier \in Nat
        /\ \A i \in 0 .. inner[cur[r]].frontier - 1 :
             inner[cur[r]].at[i] = inner[cur[r]].folded + i + 1
    BY <2>1, <2>2 DEF ArenasInv, Whole, RingTypeOK, ArenaType
  <2> QED BY <2>1, <2>2, <2>3
<1> QED BY <1>1, Invariant, PTL

\* A snapshot is never ahead of what the handle serves, whatever slots were
\* reused between its first look at `current` and its second.
THEOREM NeverAheadTheorem == Spec => []NeverAhead
<1>1. IInv => NeverAhead
  <2> SUFFICES ASSUME IInv, NEW r \in Readers, rpc[r] = "open"
               PROVE  /\ inner[cur[r]].gen <= inner[current].gen
                      /\ inner[cur[r]].folded + upto[r] <= ServedSeq(current)
    BY DEF NeverAhead
  <2>1. /\ RingTypeOK /\ ArenasInv /\ ReadersInv /\ Capacity \in Nat /\ MaxOps \in Nat
        /\ cur[r] \in Slots /\ upto[r] \in 0 .. Capacity
        /\ ServedSeq(current) = Reach(inner[current]) /\ Reach(inner[current]) \in Nat
    BY CapacityNat, ServedIs, RingConstants DEF IInv, RingTypeOK
  <2>2. /\ inner[cur[r]] # None /\ upto[r] <= inner[cur[r]].frontier
        /\ ~Filled(cur[r])
    BY <2>1 DEF ReadersInv, Filled
  <2>3. inner[cur[r]] \in ArenaType
    BY <2>1, <2>2 DEF RingTypeOK
  <2>4. /\ inner[cur[r]].gen <= inner[current].gen
        /\ Reach(inner[cur[r]]) <= Reach(inner[current])
    BY <2>1, <2>2 DEF ArenasInv
  <2>5. inner[cur[r]].folded + upto[r] <= Reach(inner[cur[r]]) /\ Reach(inner[cur[r]]) \in Nat
        /\ inner[cur[r]].folded + upto[r] \in Nat
    BY <2>1, <2>2, <2>3 DEF Reach, ArenaType
  <2> QED BY <2>1, <2>4, <2>5
<1> QED BY <1>1, Invariant, PTL

\* And never behind what was served when the call that took it began.
THEOREM NeverBackTheorem == Spec => NeverBack
<1> DEFINE Back(r) ==
      rpc[r] = "new" /\ rpc'[r] = "open" =>
        /\ inner'[cur'[r]].gen >= floor[r].gen
        /\ inner'[cur'[r]].folded + upto'[r] >= floor[r].last
<1>1. ASSUME IInv, [Next]_vars PROVE [\A r \in Readers : Back(r)]_vars
  <2> SUFFICES ASSUME Next, NEW r \in Readers, rpc[r] = "new", rpc'[r] = "open"
               PROVE  /\ inner'[cur'[r]].gen >= floor[r].gen
                      /\ inner'[cur'[r]].folded + upto'[r] >= floor[r].last
    BY <1>1
  <2>0. rpc \in [Readers -> {"idle", "load", "try", "check", "new", "open"}]
    BY <1>1 DEF IInv, RingTypeOK
  <2>1. NewSnapshot(r)
    <3>1. rpc' # rpc
      OBVIOUS
    <3>2. PICK x \in Readers : Begin(x) \/ Snapshot(x) \/ Drop(x)
      BY <3>1 DEF Next, Commit, Elsewhere, CatchUp, PutEntry, MoveFrontier, Build, Scan,
           WriteSlot, StoreSeq, StoreCurrent, Refused, readers
    <3>3. x = r
      BY <2>0, <3>2 DEF Begin, Snapshot, Load, TryRead, Recheck, NewSnapshot, Drop
    <3> QED BY <2>0, <3>2, <3>3 DEF Begin, Snapshot, Load, TryRead, Recheck, NewSnapshot, Drop
  <2>2. /\ inner' = inner /\ cur' = cur /\ upto'[r] = inner[cur[r]].frontier
    BY <1>1, <2>1 DEF NewSnapshot, slots, IInv, RingTypeOK
  <2>3. /\ floor[r].gen <= inner[cur[r]].gen /\ floor[r].last <= Reach(inner[cur[r]])
        /\ inner[cur[r]] \in ArenaType /\ floor[r] \in [gen : 0 .. MaxGen, last : 0 .. MaxOps]
    BY <1>1 DEF IInv, ReadersInv, RingTypeOK
  <2>4. /\ floor[r].gen \in Nat /\ inner[cur[r]].gen \in Nat /\ floor[r].last \in Nat
        /\ Reach(inner[cur[r]]) \in Nat
        /\ Reach(inner[cur[r]]) = inner[cur[r]].folded + inner[cur[r]].frontier
    BY <2>3, RingConstants, CapacityNat, SMTT(40) DEF ArenaType, Reach
  <2> QED BY <2>2, <2>3, <2>4
<1>2. [][Next]_vars /\ []IInv => [][\A r \in Readers : Back(r)]_vars
  BY <1>1, PTL
<1>3. NeverBack <=> [][\A r \in Readers : Back(r)]_vars
  BY DEF NeverBack
<1> QED BY <1>2, <1>3, Invariant, PTL DEF Spec
=============================================================================
