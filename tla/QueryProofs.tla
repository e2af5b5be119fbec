---------------------------- MODULE QueryProofs ----------------------------
(***************************************************************************)
(* Proofs about walks and queries, for every snapshot, request and table   *)
(* of words, weights and costs: what a breadth-first search has seen and   *)
(* reached, what a label-correcting search still has pending, and what     *)
(* sorting and cutting make of it.                                         *)
(***************************************************************************)
EXTENDS Query, FiniteSetTheorems, TLAPS

----------------------------------------------------------------------------
(* Least and greatest elements, sorted listings, running sums. *)

\* Every nonempty set of naturals has a least element.
LEMMA NatMin ==
  ASSUME NEW T, T \subseteq Nat, T # {}
  PROVE  \E x \in T : \A y \in T : x <= y
<1>1. \E x \in T : \A y \in T : ~(<<y, x>> \in OpToRel(<, Nat))
  BY WFMin, NatLessThanWellFounded
<1>2. PICK x \in T : \A y \in T : ~(<<y, x>> \in OpToRel(<, Nat))
  BY <1>1
<1>3. ASSUME NEW y \in T PROVE x <= y
  <2>1. ~(y < x)
    BY <1>2 DEF OpToRel
  <2> QED
    BY <2>1
<1> QED
  BY <1>3

\* So induction over naturals is the search for a least counterexample.
LEMMA LeastOne ==
  ASSUME NEW T, T \subseteq Nat, T # {}
  PROVE  \E m \in T : m \in Nat /\ (m # 0 => m - 1 \in Nat /\ m - 1 \notin T)
<1>1. PICK m \in T : \A y \in T : m <= y
  BY NatMin
<1> QED
  BY <1>1

LEMMA MinIs ==
  ASSUME NEW T, T \subseteq Nat, T # {}
  PROVE  Min(T) \in T /\ \A y \in T : Min(T) <= y
  BY NatMin DEF Min

LEMMA MinOnly ==
  ASSUME NEW T, T \subseteq Nat, NEW m \in T, \A y \in T : m <= y
  PROVE  Min(T) = m
<1>1. PICK x : x = Min(T)
  OBVIOUS
<1>2. x \in T /\ x <= m /\ m <= x
  BY <1>1, MinIs
<1> QED
  BY <1>1, <1>2

LEMMA MinOfTwo ==
  ASSUME NEW a \in Nat, NEW b \in Nat
  PROVE  Min({a, b}) = IF a <= b THEN a ELSE b
<1>1. CASE a <= b
  BY <1>1, MinOnly
<1>2. CASE ~(a <= b)
  BY <1>2, MinOnly
<1> QED
  BY <1>1, <1>2

\* Every nonempty set of bounded naturals has a greatest element.
LEMMA MaxIs ==
  ASSUME NEW n \in Nat, NEW T, T \subseteq 0 .. n, T # {}
  PROVE  Max(T) \in T /\ \A y \in T : y <= Max(T)
<1> DEFINE U == {n - x : x \in T}
<1>1. U \subseteq Nat /\ U # {}
  <2>1. ASSUME NEW x \in T PROVE n - x \in Nat
    OBVIOUS
  <2>2. PICK x \in T : TRUE
    OBVIOUS
  <2>3. n - x \in U
    OBVIOUS
  <2> QED
    BY <2>1, <2>3
<1>2. PICK u \in U : \A y \in U : u <= y
  <2> HIDE DEF U
  <2> QED
    BY <1>1, NatMin
<1>3. PICK m \in T : u = n - m
  OBVIOUS
<1>4. ASSUME NEW y \in T PROVE m >= y
  <2>1. u <= n - y
    BY <1>2
  <2> QED
    BY <1>3, <2>1
<1> QED
  BY <1>4 DEF Max

LEMMA MaxOnly ==
  ASSUME NEW T, T \subseteq Nat, NEW m \in T, \A y \in T : y <= m
  PROVE  Max(T) = m
<1>1. \A y \in T : m >= y
  OBVIOUS
<1>2. PICK x : x = Max(T)
  OBVIOUS
<1>3. x \in T /\ \A y \in T : x >= y
  BY <1>1, <1>2 DEF Max
<1>4. x >= m /\ m >= x /\ x \in Nat
  BY <1>1, <1>3
<1> QED
  BY <1>2, <1>4

\* R puts any two elements of S in one order.
Orders(R, S) ==
  /\ \A x \in S : <<x, x>> \notin R
  /\ \A x, y \in S : x = y \/ <<x, y>> \in R \/ <<y, x>> \in R
  /\ \A x, y, z \in S : <<x, y>> \in R /\ <<y, z>> \in R => <<x, z>> \in R

\* What InOrder lists is there: the place of x is the number of elements
\* before it, and one.
LEMMA ListingExists ==
  ASSUME NEW S, IsFiniteSet(S), NEW R, Orders(R, S)
  PROVE  \E s \in [1 .. Cardinality(S) -> S] :
           \A i, j \in 1 .. Cardinality(S) : i < j => <<s[i], s[j]>> \in R
<1> DEFINE n == Cardinality(S)
           before(x) == {y \in S : <<y, x>> \in R}
           place == [x \in S |-> Cardinality(before(x)) + 1]
<1>0. n \in Nat
  BY FS_CardinalityType
<1>1. ASSUME NEW x \in S
      PROVE  IsFiniteSet(before(x)) /\ Cardinality(before(x)) \in 0 .. n - 1
  <2>1. IsFiniteSet(before(x)) /\ Cardinality(before(x)) \in Nat /\ Cardinality(before(x)) <= n
    BY FS_Subset, FS_CardinalityType
  <2>2. before(x) # S
    BY DEF Orders
  <2>3. Cardinality(before(x)) # n
    BY <2>2, FS_Subset
  <2> QED
    BY <1>0, <2>1, <2>3
<1>2. ASSUME NEW x \in S, NEW y \in S, <<x, y>> \in R
      PROVE  place[x] < place[y]
  <2>1. before(x) \in SUBSET before(y)
    BY <1>2 DEF Orders
  <2>2. x \in before(y) /\ x \notin before(x)
    BY <1>2 DEF Orders
  <2>3. IsFiniteSet(before(y)) /\ Cardinality(before(x)) \in Nat /\ Cardinality(before(y)) \in Nat
    BY <1>1, FS_CardinalityType
  <2>4. Cardinality(before(x)) <= Cardinality(before(y))
        /\ Cardinality(before(y)) # Cardinality(before(x))
    <3> HIDE DEF before
    <3> QED
      BY <2>1, <2>2, <2>3, FS_Subset
  <2> QED
    BY <2>3, <2>4
<1>3. place \in [S -> 1 .. n]
  <2>1. ASSUME NEW x \in S PROVE Cardinality(before(x)) + 1 \in 1 .. n
    <3> HIDE DEF before
    <3> QED
      BY <1>0, <1>1
  <2> HIDE DEF before
  <2> QED
    BY <2>1
<1>4. place \in Injection(S, 1 .. n)
  <2>1. ASSUME NEW x \in S, NEW y \in S, place[x] = place[y] PROVE x = y
    <3>1. <<x, y>> \notin R /\ <<y, x>> \notin R
      <4>1. place[x] \in Nat /\ place[y] \in Nat
        BY <1>3
      <4> HIDE DEF place
      <4> QED
        BY <1>2, <2>1, <4>1
    <3> QED
      BY <3>1 DEF Orders
  <2> HIDE DEF place
  <2> QED
    BY <1>3, <2>1 DEF Injection, IsInjective
<1>5. place \in Surjection(S, 1 .. n)
  <2>1. IsFiniteSet(1 .. n) /\ Cardinality(1 .. n) = n
    BY <1>0, FS_Interval
  <2> HIDE DEF place
  <2> QED
    BY <1>4, <2>1, FS_Injection
<1> HIDE DEF place
<1> DEFINE s == [i \in 1 .. n |-> CHOOSE x \in S : place[x] = i]
<1>6. ASSUME NEW i \in 1 .. n PROVE s[i] \in S /\ place[s[i]] = i
  <2>1. \E x \in S : place[x] = i
    BY <1>5 DEF Surjection
  <2> QED
    BY <2>1
<1>7. s \in [1 .. n -> S]
  BY <1>6
<1>8. ASSUME NEW i \in 1 .. n, NEW j \in 1 .. n, i < j PROVE <<s[i], s[j]>> \in R
  <2>1. s[i] \in S /\ s[j] \in S /\ place[s[i]] < place[s[j]]
    BY <1>6, <1>8
  <2> HIDE DEF s
  <2>2. <<s[j], s[i]>> \notin R /\ s[i] # s[j]
    <3>1. place[s[i]] \in Nat /\ place[s[j]] \in Nat
      BY <1>3, <2>1
    <3> QED
      BY <1>2, <2>1, <3>1
  <2> QED
    BY <2>1, <2>2 DEF Orders
<1> HIDE DEF s
<1> QED
  BY <1>7, <1>8

\* InOrder lists all of S, each element once, in the order.
LEMMA InOrderIs ==
  ASSUME NEW S, IsFiniteSet(S), NEW R, Orders(R, S)
  PROVE  /\ InOrder(S, R) \in Seq(S) /\ Len(InOrder(S, R)) = Cardinality(S)
         /\ InOrder(S, R) \in [1 .. Cardinality(S) -> S]
         /\ ToSet(InOrder(S, R)) = S
         /\ \A i, j \in 1 .. Cardinality(S) : i < j => <<InOrder(S, R)[i], InOrder(S, R)[j]>> \in R
<1> DEFINE n == Cardinality(S)
<1>1. PICK s : s = InOrder(S, R)
  OBVIOUS
<1>2. s \in [1 .. n -> S] /\ \A i, j \in 1 .. n : i < j => <<s[i], s[j]>> \in R
  BY <1>1, ListingExists DEF InOrder
<1>3. n \in Nat
  BY FS_CardinalityType
<1>4. s \in Injection(1 .. n, S)
  <2>1. ASSUME NEW i \in 1 .. n, NEW j \in 1 .. n, s[i] = s[j] PROVE i = j
    <3>1. s[i] \in S /\ <<s[i], s[j]>> \notin R /\ <<s[j], s[i]>> \notin R
      BY <1>2, <2>1 DEF Orders
    <3> QED
      BY <1>2, <1>3, <3>1
  <2> QED
    BY <1>2, <2>1 DEF Injection, IsInjective
<1>5. s \in Surjection(1 .. n, S)
  <2>1. IsFiniteSet(1 .. n) /\ Cardinality(1 .. n) = n
    BY <1>3, FS_Interval
  <2> QED
    BY <1>4, <2>1, FS_Injection
<1>6. s \in Seq(S) /\ Len(s) = n /\ DOMAIN s = 1 .. n
  BY <1>2, <1>3
<1>7. ToSet(s) = S
  BY <1>2, <1>5, <1>6 DEF ToSet, Surjection
<1> QED
  BY <1>1, <1>2, <1>6, <1>7

\* Sums is the function its definition asks for: there is no least length
\* without one.
LEMMA SumsIs ==
  ASSUME NEW s \in Seq(Nat)
  PROVE  Sums(s) = [n \in 0 .. Len(s) |-> IF n = 0 THEN 0 ELSE Sums(s)[n - 1] + s[n]]
<1> DEFINE IsFor(g, m) == g = [n \in 0 .. m |-> IF n = 0 THEN 0 ELSE g[n - 1] + s[n]]
           T == {m \in Nat : ~\E g : IsFor(g, m)}
<1>1. CASE T = {}
  <2>1. \E g : IsFor(g, Len(s))
    BY <1>1
  <2> QED
    BY <2>1, Zenon DEF Sums
<1>2. CASE T # {}
  <2>1. PICK m \in T : m \in Nat /\ (m # 0 => m - 1 \in Nat /\ m - 1 \notin T)
    <3>1. T \subseteq Nat
      OBVIOUS
    <3> HIDE DEF T
    <3> QED
      BY <1>2, <3>1, LeastOne
  <2>2. m # 0
    <3>1. IsFor([n \in 0 .. 0 |-> 0], 0)
      OBVIOUS
    <3> QED
      BY <2>1, <3>1
  <2>3. m - 1 \in Nat /\ m - 1 \notin T
    BY <2>1, <2>2
  <2>4. PICK g : IsFor(g, m - 1)
    BY <2>3
  <2> DEFINE more == [n \in 0 .. m |-> IF n = m THEN g[m - 1] + s[m] ELSE g[n]]
  <2>5. IsFor(more, m)
    <3>1. ASSUME NEW n \in 0 .. m
          PROVE  more[n] = IF n = 0 THEN 0 ELSE more[n - 1] + s[n]
      <4>1. CASE n = m
        <5>1. more[m - 1] = g[m - 1] /\ m - 1 # m /\ m - 1 \in 0 .. m
          BY <2>3
        <5> QED
          BY <2>2, <4>1, <5>1
      <4>2. CASE n # m
        <5>1. n \in 0 .. m - 1 /\ more[n] = g[n]
          BY <2>3, <4>2
        <5>2. g[n] = IF n = 0 THEN 0 ELSE g[n - 1] + s[n]
          BY <2>4, <5>1
        <5>3. n # 0 => more[n - 1] = g[n - 1]
          BY <2>3, <4>2
        <5> QED
          BY <5>1, <5>2, <5>3
      <4> QED
        BY <4>1, <4>2
    <3> QED
      BY <3>1
  <2> QED
    BY <2>1, <2>5
<1> QED
  BY <1>1, <1>2

LEMMA SumsStep ==
  ASSUME NEW s \in Seq(Nat)
  PROVE  /\ Sums(s)[0] = 0
         /\ \A n \in 1 .. Len(s) : Sums(s)[n] = Sums(s)[n - 1] + s[n]
<1>1. PICK f : f = Sums(s)
  OBVIOUS
<1>2. f = [n \in 0 .. Len(s) |-> IF n = 0 THEN 0 ELSE f[n - 1] + s[n]]
  BY <1>1, SumsIs
<1> QED
  BY <1>1, <1>2

LEMMA SumsNat ==
  ASSUME NEW s \in Seq(Nat), NEW n \in 0 .. Len(s)
  PROVE  Sums(s)[n] \in Nat
<1> DEFINE T == {m \in 0 .. Len(s) : Sums(s)[m] \notin Nat}
<1>1. CASE T = {}
  BY <1>1
<1>2. CASE T # {}
  <2>1. PICK m \in T : m \in Nat /\ (m # 0 => m - 1 \in Nat /\ m - 1 \notin T)
    <3>1. T \subseteq Nat
      OBVIOUS
    <3> HIDE DEF T
    <3> QED
      BY <1>2, <3>1, LeastOne
  <2>0. s \in Seq(Nat)
    OBVIOUS
  <2>2. m # 0
    BY <2>0, <2>1, SumsStep
  <2>3. m \in 1 .. Len(s) /\ m - 1 \in 0 .. Len(s) /\ m - 1 \notin T /\ s[m] \in Nat
    BY <2>1, <2>2
  <2>4. Sums(s)[m] = Sums(s)[m - 1] + s[m]
    BY <2>0, <2>3, SumsStep
  <2>5. Sums(s)[m - 1] \in Nat
    BY <2>3
  <2>6. \A x, y \in Nat : x + y \in Nat
    OBVIOUS
  <2> QED
    BY <2>1, <2>3, <2>4, <2>5, <2>6
<1> QED
  BY <1>1, <1>2

\* They depend on the first n numbers only.
LEMMA SumsPrefix ==
  ASSUME NEW s \in Seq(Nat), NEW t \in Seq(Nat), NEW n \in Nat, n <= Len(s), n <= Len(t),
         \A i \in 1 .. n : s[i] = t[i]
  PROVE  Sums(s)[n] = Sums(t)[n]
<1> DEFINE T == {m \in 0 .. n : Sums(s)[m] # Sums(t)[m]}
<1>1. CASE T = {}
  BY <1>1
<1>2. CASE T # {}
  <2>1. PICK m \in T : m \in Nat /\ (m # 0 => m - 1 \in Nat /\ m - 1 \notin T)
    <3>1. T \subseteq Nat
      OBVIOUS
    <3> HIDE DEF T
    <3> QED
      BY <1>2, <3>1, LeastOne
  <2>2. m # 0
    BY <2>1, SumsStep
  <2>3. m \in 1 .. n /\ m - 1 \in 0 .. n /\ m - 1 \notin T
    BY <2>1, <2>2
  <2>4. Sums(s)[m] = Sums(s)[m - 1] + s[m] /\ Sums(t)[m] = Sums(t)[m - 1] + t[m]
    BY <2>3, SumsStep
  <2> QED
    BY <2>1, <2>3, <2>4
<1> QED
  BY <1>1, <1>2

\* Products is the function its definition asks for: there is no least length
\* without one.
LEMMA ProductsIs ==
  ASSUME NEW s \in Seq(Nat)
  PROVE  Products(s) = [n \in 0 .. Len(s) |-> IF n = 0 THEN 1 ELSE Products(s)[n - 1] * s[n]]
<1> DEFINE IsFor(g, m) == g = [n \in 0 .. m |-> IF n = 0 THEN 1 ELSE g[n - 1] * s[n]]
           T == {m \in Nat : ~\E g : IsFor(g, m)}
<1>1. CASE T = {}
  <2>1. \E g : IsFor(g, Len(s))
    BY <1>1
  <2> QED
    BY <2>1, Zenon DEF Products
<1>2. CASE T # {}
  <2>1. PICK m \in T : m \in Nat /\ (m # 0 => m - 1 \in Nat /\ m - 1 \notin T)
    <3>1. T \subseteq Nat
      OBVIOUS
    <3> HIDE DEF T
    <3> QED
      BY <1>2, <3>1, LeastOne
  <2>2. m # 0
    <3>1. IsFor([n \in 0 .. 0 |-> 1], 0)
      OBVIOUS
    <3> QED
      BY <2>1, <3>1
  <2>3. m - 1 \in Nat /\ m - 1 \notin T
    BY <2>1, <2>2
  <2>4. PICK g : IsFor(g, m - 1)
    BY <2>3
  <2> DEFINE more == [n \in 0 .. m |-> IF n = m THEN g[m - 1] * s[m] ELSE g[n]]
  <2>5. IsFor(more, m)
    <3>1. ASSUME NEW n \in 0 .. m
          PROVE  more[n] = IF n = 0 THEN 1 ELSE more[n - 1] * s[n]
      <4>1. CASE n = m
        <5>1. more[m - 1] = g[m - 1] /\ m - 1 # m /\ m - 1 \in 0 .. m
          BY <2>3
        <5> QED
          BY <2>2, <4>1, <5>1
      <4>2. CASE n # m
        <5>1. n \in 0 .. m - 1 /\ more[n] = g[n]
          BY <2>3, <4>2
        <5>2. g[n] = IF n = 0 THEN 1 ELSE g[n - 1] * s[n]
          BY <2>4, <5>1
        <5>3. n # 0 => more[n - 1] = g[n - 1]
          BY <2>3, <4>2
        <5> QED
          BY <5>1, <5>2, <5>3
      <4> QED
        BY <4>1, <4>2
    <3> QED
      BY <3>1
  <2> QED
    BY <2>1, <2>5
<1> QED
  BY <1>1, <1>2

LEMMA ProductsStep ==
  ASSUME NEW s \in Seq(Nat)
  PROVE  /\ Products(s)[0] = 1
         /\ \A n \in 1 .. Len(s) : Products(s)[n] = Products(s)[n - 1] * s[n]
<1>1. PICK f : f = Products(s)
  OBVIOUS
<1>2. f = [n \in 0 .. Len(s) |-> IF n = 0 THEN 1 ELSE f[n - 1] * s[n]]
  BY <1>1, ProductsIs
<1> QED
  BY <1>1, <1>2

LEMMA ProductsNat ==
  ASSUME NEW s \in Seq(Nat \ {0}), NEW n \in 0 .. Len(s)
  PROVE  Products(s)[n] \in Nat \ {0}
<1> DEFINE T == {m \in 0 .. Len(s) : Products(s)[m] \notin Nat \ {0}}
<1>1. CASE T = {}
  BY <1>1
<1>2. CASE T # {}
  <2>1. PICK m \in T : m \in Nat /\ (m # 0 => m - 1 \in Nat /\ m - 1 \notin T)
    <3>1. T \subseteq Nat
      OBVIOUS
    <3> HIDE DEF T
    <3> QED
      BY <1>2, <3>1, LeastOne
  <2>0. s \in Seq(Nat)
    OBVIOUS
  <2>2. m # 0
    BY <2>0, <2>1, ProductsStep
  <2>3. m \in 1 .. Len(s) /\ m - 1 \in 0 .. Len(s) /\ m - 1 \notin T /\ s[m] \in Nat \ {0}
    BY <2>1, <2>2
  <2>4. Products(s)[m] = Products(s)[m - 1] * s[m]
    BY <2>0, <2>3, ProductsStep
  <2>5. Products(s)[m - 1] \in Nat \ {0}
    BY <2>3
  <2>6. \A x, y \in Nat \ {0} : x * y \in Nat \ {0}
    OBVIOUS
  <2> QED
    BY <2>1, <2>3, <2>4, <2>5, <2>6
<1> QED
  BY <1>1, <1>2

\* They depend on the first n numbers only.
LEMMA ProductsPrefix ==
  ASSUME NEW s \in Seq(Nat), NEW t \in Seq(Nat), NEW n \in Nat, n <= Len(s), n <= Len(t),
         \A i \in 1 .. n : s[i] = t[i]
  PROVE  Products(s)[n] = Products(t)[n]
<1> DEFINE T == {m \in 0 .. n : Products(s)[m] # Products(t)[m]}
<1>1. CASE T = {}
  BY <1>1
<1>2. CASE T # {}
  <2>1. PICK m \in T : m \in Nat /\ (m # 0 => m - 1 \in Nat /\ m - 1 \notin T)
    <3>1. T \subseteq Nat
      OBVIOUS
    <3> HIDE DEF T
    <3> QED
      BY <1>2, <3>1, LeastOne
  <2>2. m # 0
    BY <2>1, ProductsStep
  <2>3. m \in 1 .. n /\ m - 1 \in 0 .. n /\ m - 1 \notin T
    BY <2>1, <2>2
  <2>4. Products(s)[m] = Products(s)[m - 1] * s[m] /\ Products(t)[m] = Products(t)[m - 1] * t[m]
    BY <2>3, ProductsStep
  <2> QED
    BY <2>1, <2>3, <2>4
<1> QED
  BY <1>1, <1>2

----------------------------------------------------------------------------
(* The walk: a breadth-first search that is cut when it has enough. *)

Entries == [key : Keys, exact : BOOLEAN]
Hops == [key : Keys, from : Keys, depth : Nat, exact : BOOLEAN]

\* e was come by over n edges, all of them EXACT if it says so.
Comes(e, n) ==
  \E p \in Paths(n, e.key) : e.exact => \A i \in 1 .. n : Exact(p[i - 1], p[i])

\* The snapshot and the request.
SnapInv ==
  /\ req \in WalkRequests \cup Queries
  /\ kind \in [Keys -> {"doc", "tomb", "stub", "removed", "gone", "fresh"}]
  /\ DOMAIN edges \subseteq Keys \X Keys /\ \A p \in DOMAIN edges : edges[p] \in Classes

WalkTypes ==
  /\ req \in WalkRequests /\ req.limit > 0 /\ req.start \in Docs
  /\ seen \subseteq Keys /\ req.start \in seen
  /\ frontier \in Seq(Entries) /\ next \in Seq(Entries) /\ reached \in Seq(Hops)
  /\ at \in 1 .. Len(frontier) + 1 /\ depth \in Nat \ {0}

\* What was reached: every document seen, once, at its distance, the nearer
\* ones first.
ReachedAt(i) ==
  /\ reached[i].key \in (seen \cap Docs) \ {req.start}
  /\ reached[i].depth \in 1 .. depth /\ reached[i].depth <= req.depth
  /\ Comes(reached[i], reached[i].depth)
  /\ \A n \in 1 .. reached[i].depth - 1 : Paths(n, reached[i].key) = {}
  /\ \A j \in 1 .. Len(reached) :
       /\ reached[i].key = reached[j].key => i = j
       /\ i <= j => reached[i].depth <= reached[j].depth

ReachedInv ==
  /\ \A i \in 1 .. Len(reached) : ReachedAt(i)
  /\ \A k \in seen \cap Docs : k = req.start \/ \E i \in 1 .. Len(reached) : reached[i].key = k

\* The limit was reached at distance d or before.
Enough(d) == req.limit <= Len(reached) /\ reached[req.limit].depth <= d

\* The frontier is all there is at its distance.
Complete ==
  /\ depth = 1 => \E j \in 1 .. Len(frontier) : frontier[j].key = req.start
  /\ \A i \in 1 .. Len(reached) : reached[i].depth = depth - 1 =>
       \E j \in 1 .. Len(frontier) : frontier[j].key = reached[i].key

LevelInv ==
  /\ depth <= req.depth
  /\ \A i \in 1 .. Len(frontier) : frontier[i].key \in Docs /\ Comes(frontier[i], depth - 1)
  /\ \A i \in 1 .. Len(next) : next[i].key \in Docs /\ Comes(next[i], depth)
  /\ \A k \in Keys, n \in 1 .. depth - 1 : Paths(n, k) # {} => k \in seen
  /\ \A i \in 1 .. at - 1, k \in Keys : Linked(frontier[i].key, k) => k \in seen
  /\ Complete \/ (Enough(depth - 1) /\ next = <<>>)
  /\ \/ req.limit <= Len(reached)
     \/ \A i \in 1 .. Len(reached) : reached[i].depth = depth =>
          \E j \in 1 .. Len(next) : next[j].key = reached[i].key

\* Once it is to be sorted, what is missing is farther than enough others.
SortInv ==
  \A k \in Reachable :
    \/ \E i \in 1 .. Len(reached) : reached[i].key = k
    \/ /\ req.limit <= Len(reached)
       /\ \A n \in 1 .. reached[req.limit].depth : Paths(n, k) = {}

WalkInv ==
  /\ SnapInv
  /\ pc = "start" => answer = <<>>
  /\ pc \in {"score", "expand", "render", "pack"} => req.op = "query"
  /\ pc \in {"walk", "sort"} => WalkTypes /\ ReachedInv
  /\ pc = "walk" => LevelInv
  /\ pc = "sort" => SortInv

\* A step leaves the snapshot and the request alone: it leaves paths alone.
LEMMA PathsSame ==
  ASSUME UNCHANGED snapshot
  PROVE  /\ Docs' = Docs /\ Reachable' = Reachable
         /\ \A n, k : Linked(n, k)' = Linked(n, k) /\ Exact(n, k)' = Exact(n, k)
         /\ \A n, k : Paths(n, k)' = Paths(n, k)
         /\ \A k : Distances(k)' = Distances(k)
<1>1. kind' = kind /\ edges' = edges /\ req' = req
  BY DEF snapshot
<1> QED
  BY <1>1 DEF Docs, Reachable, Linked, OutTo, InFrom, Crosses, Exact, Paths, Distances

\* What was reached stays true while nothing is reached.
LEMMA ReachedSame ==
  ASSUME ReachedInv, UNCHANGED snapshot, reached' = reached, (seen \cap Docs)' = seen \cap Docs,
         depth \in Nat, depth' = depth \/ depth' = depth + 1
  PROVE  ReachedInv'
<1>1. req' = req /\ (\A n, k : Paths(n, k)' = Paths(n, k)) /\ \A e, n : Comes(e, n)' = Comes(e, n)
  BY PathsSame DEF snapshot, Comes
<1>2. ASSUME NEW i \in 1 .. Len(reached) PROVE ReachedAt(i)'
  <2>1. ReachedAt(i)
    BY DEF ReachedInv
  <2>2. reached[i].depth \in 1 .. depth'
    BY <2>1 DEF ReachedAt
  <2>3. reached[i].key \in (seen \cap Docs)' \ {req.start}
    BY <2>1 DEF ReachedAt
  <2>4. /\ reached[i].depth <= req.depth
        /\ Comes(reached[i], reached[i].depth)
        /\ \A n \in 1 .. reached[i].depth - 1 : Paths(n, reached[i].key) = {}
        /\ \A j \in 1 .. Len(reached) :
             /\ reached[i].key = reached[j].key => i = j
             /\ i <= j => reached[i].depth <= reached[j].depth
    BY <2>1 DEF ReachedAt
  <2> QED
    BY <1>1, <2>2, <2>3, <2>4 DEF ReachedAt
<1>3. ASSUME NEW k \in (seen \cap Docs)' PROVE k = req.start \/ \E i \in 1 .. Len(reached) : reached[i].key = k
  BY DEF ReachedInv
<1> QED
  BY <1>1, <1>2, <1>3 DEF ReachedInv

\* The path of no edges.
LEMMA PathStart ==
  ASSUME req.start \in Keys
  PROVE  [i \in 0 .. 0 |-> req.start] \in Paths(0, req.start)
  BY DEF Paths

\* A path goes on over an edge that leaves its end.
LEMMA PathExtend ==
  ASSUME NEW n \in Nat, NEW j, NEW k \in Keys, NEW p \in Paths(n, j),
         n = 0 \/ j \in Docs, Linked(j, k)
  PROVE  \E q \in Paths(n + 1, k) : q[n] = j /\ q[n + 1] = k /\ \A i \in 0 .. n : q[i] = p[i]
<1> DEFINE q == [i \in 0 .. n + 1 |-> IF i = n + 1 THEN k ELSE p[i]]
<1>1. p \in [0 .. n -> Keys] /\ p[0] = req.start /\ p[n] = j
  BY DEF Paths
<1>2. \A i \in 0 .. n : q[i] = p[i]
  OBVIOUS
<1>3. q \in [0 .. n + 1 -> Keys] /\ q[0] = req.start /\ q[n] = j /\ q[n + 1] = k
  BY <1>1
<1>4. ASSUME NEW i \in 1 .. n + 1 - 1 PROVE q[i] \in Docs
  <2>1. CASE i = n
    BY <1>3, <2>1
  <2>2. CASE i # n
    <3>1. i \in 1 .. n - 1 /\ i \in 0 .. n
      BY <2>2
    <3> QED
      BY <1>2, <3>1 DEF Paths
  <2> QED
    BY <2>1, <2>2
<1>5. ASSUME NEW i \in 1 .. n + 1 PROVE Linked(q[i - 1], q[i])
  <2>1. CASE i = n + 1
    <3>1. i - 1 = n
      BY <2>1
    <3> QED
      BY <1>3, <2>1, <3>1
  <2>2. CASE i # n + 1
    <3>1. i \in 1 .. n /\ i \in 0 .. n /\ i - 1 \in 0 .. n
      BY <2>2
    <3>2. Linked(p[i - 1], p[i])
      BY <3>1 DEF Paths
    <3> QED
      BY <1>2, <3>1, <3>2
  <2> QED
    BY <2>1, <2>2
<1> HIDE DEF q
<1>6. q \in Paths(n + 1, k)
  BY <1>3, <1>4, <1>5 DEF Paths
<1> QED
  BY <1>2, <1>3, <1>6

\* Before its last edge a path is a path, to a document or the start.
LEMMA PathPrefix ==
  ASSUME NEW n \in Nat \ {0}, NEW k, NEW p \in Paths(n, k)
  PROVE  /\ n - 1 \in Nat /\ p[n - 1] \in Keys /\ k \in Keys /\ Linked(p[n - 1], k)
         /\ Paths(n - 1, p[n - 1]) # {}
         /\ IF n = 1 THEN p[n - 1] = req.start ELSE p[n - 1] \in Docs
<1> DEFINE q == [i \in 0 .. n - 1 |-> p[i]]
<1>1. p \in [0 .. n -> Keys] /\ p[0] = req.start /\ p[n] = k
  BY DEF Paths
<1>2. n - 1 \in Nat /\ n - 1 \in 0 .. n /\ n \in 1 .. n /\ n \in 0 .. n
  OBVIOUS
<1>3. Linked(p[n - 1], k)
  BY <1>1, <1>2 DEF Paths
<1>4. n # 1 => n - 1 \in 1 .. n - 1
  OBVIOUS
<1>5. q \in Paths(n - 1, p[n - 1])
  <2>1. \A i \in 0 .. n - 1 : q[i] = p[i] /\ i \in 0 .. n
    OBVIOUS
  <2>2. q \in [0 .. n - 1 -> Keys] /\ q[0] = req.start /\ q[n - 1] = p[n - 1]
    BY <1>1, <1>2
  <2>3. ASSUME NEW i \in 1 .. n - 1 - 1 PROVE q[i] \in Docs
    <3>1. i \in 1 .. n - 1 /\ i \in 0 .. n - 1
      OBVIOUS
    <3> QED
      BY <2>1, <3>1 DEF Paths
  <2>4. ASSUME NEW i \in 1 .. n - 1 PROVE Linked(q[i - 1], q[i])
    <3>1. i \in 1 .. n /\ i \in 0 .. n - 1 /\ i - 1 \in 0 .. n - 1
      OBVIOUS
    <3>2. Linked(p[i - 1], p[i])
      BY <3>1 DEF Paths
    <3> QED
      BY <2>1, <3>1, <3>2
  <2> HIDE DEF q
  <2> QED
    BY <2>2, <2>3, <2>4 DEF Paths
<1>6. n # 1 => p[n - 1] \in Docs
  BY <1>4 DEF Paths
<1>7. p[n - 1] \in Keys /\ k \in Keys /\ (n = 1 => p[n - 1] = req.start)
  BY <1>1, <1>2
<1> QED
  BY <1>2, <1>3, <1>5, <1>6, <1>7

\* An entry of the frontier comes by its edges as it says.
LEMMA ComesOn ==
  ASSUME NEW e, NEW n \in Nat, NEW k \in Keys, Comes(e, n), e.key \in Docs, Linked(e.key, k),
         NEW h, h.key = k, h.exact => e.exact /\ Exact(e.key, k)
  PROVE  Comes(h, n + 1)
<1>1. PICK p \in Paths(n, e.key) : e.exact => \A i \in 1 .. n : Exact(p[i - 1], p[i])
  BY DEF Comes
<1>2. PICK q \in Paths(n + 1, k) : q[n] = e.key /\ q[n + 1] = k /\ \A i \in 0 .. n : q[i] = p[i]
  BY PathExtend
<1>3. ASSUME h.exact, NEW i \in 1 .. n + 1 PROVE Exact(q[i - 1], q[i])
  <2>1. CASE i = n + 1
    <3>1. i - 1 = n
      BY <2>1
    <3> QED
      BY <1>2, <1>3, <2>1, <3>1
  <2>2. CASE i # n + 1
    <3>1. i \in 1 .. n /\ i \in 0 .. n /\ i - 1 \in 0 .. n
      BY <2>2
    <3>2. Exact(p[i - 1], p[i])
      BY <1>1, <1>3, <3>1
    <3> QED
      BY <1>2, <3>1, <3>2
  <2> QED
    BY <2>1, <2>2
<1> QED
  BY <1>2, <1>3 DEF Comes

\* What was seen of a document that lies on a path: the start, or a hop
\* reached over as many edges or fewer.
LEMMA SeenIsReached ==
  ASSUME WalkTypes, ReachedInv, NEW j \in seen \cap Docs, NEW n \in Nat \ {0}, Paths(n, j) # {}
  PROVE  \/ j = req.start
         \/ \E i \in 1 .. Len(reached) : reached[i].key = j /\ reached[i].depth \in 1 .. n
<1>1. CASE j # req.start
  <2>1. PICK i \in 1 .. Len(reached) : reached[i].key = j
    BY <1>1 DEF ReachedInv, ReachedAt
  <2>2. reached[i].depth \in 1 .. depth /\ \A m \in 1 .. reached[i].depth - 1 : Paths(m, j) = {}
    BY <2>1 DEF ReachedInv, ReachedAt
  <2>3. depth \in Nat
    BY DEF WalkTypes
  <2>4. n \notin 1 .. reached[i].depth - 1
    BY <2>2
  <2>5. reached[i].depth <= n
    BY <2>2, <2>3, <2>4
  <2> QED
    BY <2>1, <2>2, <2>3, <2>5
<1> QED
  BY <1>1

\* An edge from a reached document.
LEMMA ReachedOn ==
  ASSUME WalkTypes, ReachedInv, NEW i \in 1 .. Len(reached), NEW k \in Keys,
         Linked(reached[i].key, k)
  PROVE  reached[i].depth \in Nat /\ Paths(reached[i].depth + 1, k) # {}
<1>1. reached[i].depth \in Nat /\ reached[i].key \in Docs
  BY DEF ReachedInv, ReachedAt, WalkTypes
<1>2. PICK p \in Paths(reached[i].depth, reached[i].key) : TRUE
  BY DEF ReachedInv, ReachedAt, Comes
<1> QED
  BY <1>1, <1>2, PathExtend

\* An edge from the start.
LEMMA StartOn ==
  ASSUME WalkTypes, NEW k \in Keys, Linked(req.start, k)
  PROVE  Paths(1, k) # {}
<1>1. req.start \in Keys /\ req.start \in Docs
  BY DEF WalkTypes
<1>2. \E q \in Paths(0 + 1, k) : TRUE
  BY <1>1, PathStart, PathExtend
<1> QED
  BY <1>2

\* A frontier that was complete has been expanded: all of its distance is seen.
LEMMA LevelSeen ==
  ASSUME WalkTypes, ReachedInv, LevelInv, Complete, at > Len(frontier),
         NEW n \in 1 .. depth, NEW k \in Keys, Paths(n, k) # {}
  PROVE  k \in seen
<1>0. depth \in Nat \ {0} /\ n \in Nat \ {0} /\ Len(frontier) \in Nat /\ at - 1 = Len(frontier)
  BY DEF WalkTypes
<1>1. CASE n # depth
  <2>1. n \in 1 .. depth - 1
    BY <1>0, <1>1
  <2> QED
    BY <2>1 DEF LevelInv
<1>2. CASE n = depth
  <2>1. PICK p \in Paths(n, k) : TRUE
    OBVIOUS
  <2> DEFINE j == p[n - 1]
  <2>2. /\ n - 1 \in Nat /\ j \in Keys /\ Linked(j, k) /\ Paths(n - 1, j) # {}
        /\ IF n = 1 THEN j = req.start ELSE j \in Docs
    BY <1>0, <2>1, PathPrefix
  <2> HIDE DEF j
  <2>3. ASSUME NEW x \in 1 .. Len(frontier), frontier[x].key = j PROVE k \in seen
    BY <1>0, <2>2, <2>3 DEF LevelInv
  <2>4. CASE n = 1
    BY <1>2, <2>2, <2>3, <2>4 DEF Complete
  <2>5. CASE n # 1
    <3>1. n - 1 \in 1 .. depth - 1 /\ n - 1 \in Nat \ {0} /\ 1 \in 1 .. depth - 1
      BY <1>0, <1>2, <2>5
    <3>2. j \in seen \cap Docs
      BY <2>2, <2>5, <3>1 DEF LevelInv
    <3>3. CASE j = req.start
      BY <2>2, <3>1, <3>3, StartOn DEF LevelInv
    <3>4. CASE j # req.start
      <4>1. PICK i \in 1 .. Len(reached) : reached[i].key = j /\ reached[i].depth \in 1 .. n - 1
        BY <2>2, <3>1, <3>2, <3>4, SeenIsReached
      <4>2. CASE reached[i].depth = depth - 1
        BY <2>3, <4>1, <4>2 DEF Complete
      <4>3. CASE reached[i].depth # depth - 1
        <5>1. reached[i].depth + 1 \in 1 .. depth - 1
          BY <1>0, <1>2, <4>1, <4>3
        <5>2. Paths(reached[i].depth + 1, k) # {}
          BY <2>2, <4>1, ReachedOn
        <5> QED
          BY <5>1, <5>2 DEF LevelInv
      <4> QED
        BY <4>2, <4>3
    <3> QED
      BY <3>3, <3>4
  <2> QED
    BY <2>4, <2>5
<1> QED
  BY <1>1, <1>2

\* If nothing lies at the last distance, nothing lies beyond it.
LEMMA NothingBeyond ==
  ASSUME WalkTypes, ReachedInv, NEW k \in Keys, NEW n \in Nat \ {0}, Paths(n, k) # {},
         \A m \in 1 .. depth, x \in Keys : Paths(m, x) # {} => x \in seen,
         \A i \in 1 .. Len(reached) : reached[i].depth # depth
  PROVE  k \in seen
<1> DEFINE T == {m \in Nat \ {0} : \E x \in Keys \ seen : Paths(m, x) # {}}
<1>0. depth \in Nat \ {0}
  BY DEF WalkTypes
<1>1. SUFFICES ASSUME T # {} PROVE FALSE
  OBVIOUS
<1>2. PICK m \in T : m \in Nat /\ (m # 0 => m - 1 \in Nat /\ m - 1 \notin T)
  <2>1. T \subseteq Nat
    OBVIOUS
  <2> HIDE DEF T
  <2> QED
    BY <1>1, <2>1, LeastOne
<1>3. PICK x \in Keys \ seen : Paths(m, x) # {}
  BY <1>2
<1>4. PICK p \in Paths(m, x) : TRUE
  BY <1>3
<1>5. m \in Nat \ {0} /\ m > depth
  BY <1>0, <1>2, <1>3
<1> DEFINE j == p[m - 1]
<1>6. m - 1 \in Nat \ {0} /\ m # 1
  BY <1>0, <1>5
<1>7. j \in Keys /\ Linked(j, x) /\ Paths(m - 1, j) # {} /\ j \in Docs
  BY <1>4, <1>5, <1>6, PathPrefix
<1> HIDE DEF j
<1>8. j \in seen
  BY <1>2, <1>5, <1>6, <1>7
<1>9. CASE j = req.start
  <2>1. Paths(1, x) # {} /\ 1 \in 1 .. depth
    BY <1>0, <1>7, <1>9, StartOn
  <2> QED
    BY <1>3, <2>1
<1>10. CASE j # req.start
  <2>1. PICK i \in 1 .. Len(reached) : reached[i].key = j
    BY <1>6, <1>7, <1>8, <1>10, SeenIsReached
  <2>2. reached[i].depth \in 1 .. depth /\ reached[i].depth # depth
    BY <2>1 DEF ReachedInv, ReachedAt
  <2>3. reached[i].depth + 1 \in 1 .. depth
    BY <1>0, <2>2
  <2>4. Paths(reached[i].depth + 1, x) # {}
    BY <1>7, <2>1, ReachedOn
  <2> QED
    BY <1>3, <2>3, <2>4
<1> QED
  BY <1>9, <1>10

\* The snapshots of Init.
LEMMA SnapshotIs ==
  ASSUME NEW most, NEW kinds, kinds \subseteq {"tomb", "stub", "removed", "gone", "fresh"},
         Snapshot(most, kinds)
  PROVE  /\ kind \in [Keys -> {"doc", "tomb", "stub", "removed", "gone", "fresh"}]
         /\ DOMAIN edges \subseteq Keys \X Keys /\ \A p \in DOMAIN edges : edges[p] \in Classes
<1>1. kind \in [Keys -> kinds \cup {"doc"}]
  BY DEF Snapshot
<1>2. kind \in [Keys -> {"doc", "tomb", "stub", "removed", "gone", "fresh"}]
  BY <1>1
<1> DEFINE pairs == {p \in Keys \X Keys : p[1] # p[2]}
<1>3. PICK P \in UNION {kSubset(n, pairs) : n \in 0 .. most} : edges \in [P -> Classes]
  BY DEF Snapshot
<1>4. P \subseteq pairs
  BY <1>3 DEF kSubset
<1> QED
  BY <1>2, <1>3, <1>4

LEMMA WalkInvInit ==
  ASSUME Init
  PROVE  WalkInv
<1>1. SnapInv
  BY SnapshotIs DEF Init, SnapInv
<1> QED
  BY <1>1 DEF Init, WalkInit, WalkInv

\* A walk starts with its start seen, whatever the Walk had seen before.
LEMMA StartWalkKeeps ==
  ASSUME WalkInv, StartWalk
  PROVE  WalkInv'
<1>0. UNCHANGED snapshot /\ SnapInv' /\ answer' = answer /\ pc = "start" /\ pc' # "start"
  BY DEF StartWalk, WalkInv, SnapInv, snapshot
<1>1. req \in WalkRequests /\ req' = req
  BY QueryConstants DEF StartWalk, WalkInv, SnapInv, snapshot
<1>2. CASE req.limit = 0 \/ req.start \notin Docs
  BY <1>0, <1>2 DEF StartWalk, WalkInv
<1>3. CASE ~(req.limit = 0 \/ req.start \notin Docs)
  <2>0. PICK e : e = [key |-> req.start, exact |-> TRUE]
    OBVIOUS
  <2>1. /\ seen' = {req.start} /\ frontier' = <<e>> /\ next' = <<>> /\ at' = 1 /\ depth' = 1
        /\ reached' = <<>> /\ pc' = IF req.depth = 0 THEN "sort" ELSE "walk"
    BY <1>3, <2>0 DEF StartWalk
  <2>2. Docs' = Docs /\ (\A n, k : Paths(n, k)' = Paths(n, k)) /\ Reachable' = Reachable
    BY <1>0, PathsSame
  <2>3. req.start \in Keys /\ req.start \in Docs /\ req.limit \in Nat /\ req.depth \in Nat
    BY <1>1, <1>3, WalkConstants DEF WalkRequests
  <2>4. WalkTypes'
    <3>1. e \in Entries
      BY <2>0, <2>3 DEF Entries
    <3>2. frontier' \in Seq(Entries) /\ Len(frontier') = 1
      BY <2>1, <3>1
    <3> QED
      BY <1>1, <1>3, <2>1, <2>2, <2>3, <3>2 DEF WalkTypes, WalkRequests
  <2>5. ReachedInv'
    BY <1>1, <2>1 DEF ReachedInv, ReachedAt
  <2>6. CASE req.depth = 0
    <3>1. Reachable = {}
      BY <2>6 DEF Reachable, Distances
    <3>2. SortInv'
      BY <2>2, <3>1 DEF SortInv
    <3> QED
      BY <1>0, <2>1, <2>4, <2>5, <2>6, <3>2 DEF WalkInv
  <2>7. CASE req.depth # 0
    <3>1. Comes(e, 0)'
      <4>1. PICK p \in Paths(0, e.key) : TRUE
        BY <2>0, <2>3, PathStart
      <4>2. p \in Paths(0, e.key)'
        BY <2>2, <4>1
      <4> QED
        BY <4>2 DEF Comes
    <3>2. LevelInv'
      <4>1. Len(frontier') = 1 /\ frontier'[1] = e /\ Len(next') = 0
        BY <2>1
      <4>2. Complete'
        BY <1>1, <2>0, <2>1, <4>1 DEF Complete
      <4>3. ASSUME NEW i \in 1 .. Len(frontier')
            PROVE  (frontier[i].key \in Docs)' /\ Comes(frontier[i], depth - 1)'
        <5>1. frontier'[i] = e /\ depth' - 1 = 0
          BY <2>1, <4>1
        <5> QED
          BY <2>0, <2>2, <2>3, <3>1, <5>1
      <4>4. 1 .. depth' - 1 = {} /\ 1 .. at' - 1 = {} /\ 1 .. Len(next') = {} /\ depth' <= req.depth
        BY <2>1, <2>3, <2>7
      <4>5. (\/ req.limit <= Len(reached)
             \/ \A i \in 1 .. Len(reached) : reached[i].depth = depth =>
                  \E j \in 1 .. Len(next) : next[j].key = reached[i].key)'
        BY <2>1
      <4> QED
        BY <1>1, <4>2, <4>3, <4>4, <4>5 DEF LevelInv
    <3> QED
      BY <1>0, <2>1, <2>4, <2>5, <2>7, <3>2 DEF WalkInv
  <2> QED
    BY <2>6, <2>7
<1> QED
  BY <1>2, <1>3

\* The hop over one edge: a key not seen before, at the distance of the level.
LEMMA StepHop ==
  ASSUME WalkInv, pc = "walk", at <= Len(frontier), NEW k \in Offered(frontier[at].key)
  PROVE  LET h == Hop(frontier[at], k) IN
         /\ at \in 1 .. Len(frontier) /\ k \in Keys \ seen /\ k # req.start
         /\ h \in Hops /\ h.key = k /\ h.depth = depth /\ Comes(h, depth)
         /\ \A n \in 1 .. depth - 1 : Paths(n, k) = {}
<1> DEFINE e == frontier[at]
           h == Hop(e, k)
<1>1. WalkTypes /\ LevelInv
  BY DEF WalkInv
<1>2. at \in 1 .. Len(frontier) /\ e \in Entries /\ depth \in Nat \ {0}
  BY <1>1 DEF WalkTypes
<1>3. k \in Keys \ seen /\ Linked(e.key, k)
  BY DEF Offered, Outs, Ins, Linked
<1>4. Exact(e.key, k) \in BOOLEAN
  BY <1>3, WalkConstants DEF WalkInv, SnapInv, Exact, Linked, OutTo, InFrom, Crosses
<1>5. h \in Hops /\ h.key = k /\ h.depth = depth
  BY <1>2, <1>3, <1>4 DEF Hop, Hops, Entries
<1>6. e.key \in Docs /\ Comes(e, depth - 1) /\ depth - 1 \in Nat
  BY <1>1, <1>2 DEF LevelInv
<1>7. Comes(h, depth - 1 + 1)
  <2>1. h.exact => e.exact /\ Exact(e.key, k)
    BY DEF Hop
  <2> HIDE DEF h, e
  <2> QED
    BY <1>3, <1>5, <1>6, <2>1, ComesOn
<1>8. depth - 1 + 1 = depth
  BY <1>2
<1> QED
  BY <1>1, <1>2, <1>3, <1>5, <1>7, <1>8 DEF WalkTypes, LevelInv

\* One edge: seen and, if it leads to a document, reached.
LEMMA StepKeeps ==
  ASSUME WalkInv, Step
  PROVE  WalkInv'
<1>0. WalkTypes /\ ReachedInv /\ LevelInv /\ SnapInv /\ pc = "walk" /\ pc' = "walk"
  BY DEF Step, WalkInv
<1>1. /\ UNCHANGED snapshot /\ req' = req /\ SnapInv'
      /\ frontier' = frontier /\ at' = at /\ depth' = depth
  BY <1>0 DEF Step, SnapInv, snapshot
<1>2. /\ Docs' = Docs /\ (\A n, k : Paths(n, k)' = Paths(n, k))
      /\ \A n, k : Linked(n, k)' = Linked(n, k) /\ Exact(n, k)' = Exact(n, k)
  BY <1>1, PathsSame
<1>3. \A e, n : Comes(e, n)' = Comes(e, n)
  BY <1>2 DEF Comes
<1>4. PICK k \in Offered(frontier[at].key) : seen' = seen \cup {k} /\ Visit(Hop(frontier[at], k))
  BY DEF Step
<1>5. PICK h : h = Hop(frontier[at], k)
  OBVIOUS
<1>6. /\ at \in 1 .. Len(frontier) /\ k \in Keys \ seen /\ k # req.start
      /\ h \in Hops /\ h.key = k /\ h.depth = depth /\ Comes(h, depth)
      /\ \A n \in 1 .. depth - 1 : Paths(n, k) = {}
  BY <1>0, <1>5, StepHop DEF Step
<1>7. /\ depth \in Nat \ {0} /\ reached \in Seq(Hops) /\ next \in Seq(Entries)
      /\ depth <= req.depth /\ Len(reached) \in Nat /\ Len(next) \in Nat /\ req.limit \in Nat
  <2>1. req.limit \in Limits /\ req.depth \in Depths
    BY <1>0 DEF WalkTypes, WalkRequests
  <2>2. depth \in Nat \ {0} /\ reached \in Seq(Hops) /\ next \in Seq(Entries) /\ depth <= req.depth
    BY <1>0 DEF WalkTypes, LevelInv
  <2>3. Limits \subseteq Nat /\ Depths \subseteq Nat
    BY WalkConstants
  <2>4. Len(reached) \in Nat
    BY <2>2
  <2>5. Len(next) \in Nat
    BY <2>2
  <2>6. req.limit \in Nat /\ req.depth \in Nat
    BY <2>1, <2>3
  <2> QED
    BY <2>1, <2>2, <2>4, <2>5, <2>6
<1>8. CASE k \notin Docs
  <2>1. reached' = reached /\ next' = next
    BY <1>4, <1>5, <1>6, <1>8 DEF Visit
  <2>2. WalkTypes'
    BY <1>0, <1>1, <1>2, <1>4, <1>6, <2>1 DEF WalkTypes
  <2>3. ReachedInv'
    <3>1. seen' \cap Docs' = seen \cap Docs
      BY <1>2, <1>4, <1>8
    <3> QED
      BY <1>0, <1>1, <1>7, <2>1, <3>1, ReachedSame
  <2>4. LevelInv'
    <3>1. Complete' = Complete /\ Enough(depth - 1)' = Enough(depth - 1)
      BY <1>1, <2>1 DEF Complete, Enough
    <3> QED
      BY <1>0, <1>1, <1>2, <1>3, <1>4, <2>1, <3>1 DEF LevelInv
  <2> QED
    BY <1>0, <1>1, <2>2, <2>3, <2>4 DEF WalkInv
<1>9. CASE k \in Docs
  <2> DEFINE found == Append(reached, h)
             e == [key |-> k, exact |-> h.exact]
  <2>1. reached' = found /\ next' = IF GoOn(found) THEN Append(next, e) ELSE next
    BY <1>4, <1>5, <1>6, <1>9 DEF Visit
  <2>2. /\ found \in Seq(Hops) /\ Len(found) = Len(reached) + 1
        /\ \A i \in 1 .. Len(reached) : found[i] = reached[i]
        /\ found[Len(found)] = h
    BY <1>6, <1>7
  <2>3. e \in Entries
    BY <1>6 DEF Entries, Hops
  <2> HIDE DEF found
  <2>4. WalkTypes'
    <3>1. next' \in Seq(Entries)
      BY <1>7, <2>1, <2>3
    <3> QED
      BY <1>0, <1>1, <1>2, <1>4, <1>6, <2>1, <2>2, <3>1 DEF WalkTypes
  <2>5. ReachedInv'
    <3>1. \A i \in 1 .. Len(found) : i \in 1 .. Len(reached) \/ i = Len(found)
      BY <1>7, <2>2
    <3>2. ASSUME NEW i \in 1 .. Len(found)
          PROVE  /\ found[i].key \in ((seen \cup {k}) \cap Docs) \ {req.start}
                 /\ found[i].depth \in 1 .. depth /\ found[i].depth <= req.depth
                 /\ Comes(found[i], found[i].depth)
                 /\ \A n \in 1 .. found[i].depth - 1 : Paths(n, found[i].key) = {}
      <4>1. CASE i \in 1 .. Len(reached)
        BY <1>0, <2>2, <4>1 DEF ReachedInv, ReachedAt
      <4>2. CASE i = Len(found)
        BY <1>6, <1>7, <1>9, <2>2, <4>2
      <4> QED
        BY <3>1, <4>1, <4>2
    <3>3. ASSUME NEW i \in 1 .. Len(found), NEW j \in 1 .. Len(found)
          PROVE  /\ found[i].key = found[j].key => i = j
                 /\ i <= j => found[i].depth <= found[j].depth
      <4>1. CASE i \in 1 .. Len(reached) /\ j \in 1 .. Len(reached)
        BY <1>0, <2>2, <4>1 DEF ReachedInv, ReachedAt
      <4>2. CASE i \in 1 .. Len(reached) /\ j = Len(found)
        BY <1>0, <1>6, <1>7, <2>2, <4>2 DEF ReachedInv, ReachedAt
      <4>3. CASE i = Len(found) /\ j \in 1 .. Len(reached)
        <5>1. found[i].key = k /\ found[j].key \in seen /\ ~(i <= j)
          BY <1>0, <1>6, <1>7, <2>2, <4>3 DEF ReachedInv, ReachedAt
        <5> QED
          BY <1>6, <5>1
      <4>4. CASE i = Len(found) /\ j = Len(found)
        BY <1>6, <1>7, <2>2, <4>4
      <4> QED
        BY <3>1, <4>1, <4>2, <4>3, <4>4
    <3>4. ASSUME NEW x \in (seen \cup {k}) \cap Docs
          PROVE  x = req.start \/ \E i \in 1 .. Len(found) : found[i].key = x
      <4>1. CASE x = k
        <5>1. Len(found) \in 1 .. Len(found)
          BY <1>7, <2>2
        <5> QED
          BY <1>6, <2>2, <4>1, <5>1
      <4>2. CASE x \in seen
        <5>1. x = req.start \/ \E i \in 1 .. Len(reached) : reached[i].key = x
          BY <1>0, <4>2 DEF ReachedInv, ReachedAt
        <5>2. \A i \in 1 .. Len(reached) : i \in 1 .. Len(found)
          BY <1>7, <2>2
        <5> QED
          BY <2>2, <5>1, <5>2
      <4> QED
        BY <4>1, <4>2
    <3> QED
      <4>1. ASSUME NEW i \in 1 .. Len(reached') PROVE ReachedAt(i)'
        BY <1>1, <1>2, <1>3, <1>4, <2>1, <3>2, <3>3 DEF ReachedAt
      <4> QED
        BY <1>1, <1>2, <1>4, <2>1, <3>4, <4>1 DEF ReachedInv
  <2>6. LevelInv'
    <3>1. ASSUME NEW i \in 1 .. Len(next') PROVE next'[i].key \in Docs /\ Comes(next'[i], depth)
      <4>1. CASE next' = next
        BY <1>0, <3>1, <4>1 DEF LevelInv
      <4>2. CASE next' = Append(next, e)
        <5>1. CASE i \in 1 .. Len(next)
          <6>1. next'[i] = next[i]
            BY <1>7, <4>2, <5>1
          <6> QED
            BY <1>0, <5>1, <6>1 DEF LevelInv
        <5>2. CASE i = Len(next) + 1
          <6>1. next'[i] = e
            BY <1>7, <2>3, <4>2, <5>2
          <6>2. Comes(e, depth)
            BY <1>6 DEF Comes
          <6> QED
            BY <1>9, <6>1, <6>2
        <5> QED
          BY <1>7, <2>3, <3>1, <4>2, <5>1, <5>2
      <4> QED
        BY <2>1, <4>1, <4>2
    <3>2. Complete => Complete'
      <4>1. ASSUME NEW i \in 1 .. Len(found), found[i].depth = depth - 1
            PROVE  i \in 1 .. Len(reached)
        BY <1>6, <1>7, <2>2, <4>1
      <4> QED
        BY <1>1, <2>1, <2>2, <4>1 DEF Complete
    <3>3. Enough(depth - 1) /\ next = <<>> => Enough(depth - 1)' /\ next' = <<>>
      <4>1. SUFFICES ASSUME Enough(depth - 1), next = <<>>
                     PROVE  Enough(depth - 1)' /\ next' = <<>>
        OBVIOUS
      <4>2. req.limit \in 1 .. Len(reached)
        BY <1>0, <1>7, <4>1 DEF Enough, WalkTypes
      <4>3. ~GoOn(found)
        BY <1>7, <2>2, <4>2 DEF GoOn
      <4> QED
        BY <1>1, <1>7, <2>1, <2>2, <4>1, <4>2, <4>3 DEF Enough
    <3>4. \/ req.limit <= Len(found)
          \/ \A i \in 1 .. Len(found) : found[i].depth = depth =>
               \E j \in 1 .. Len(next') : next'[j].key = found[i].key
      <4>1. SUFFICES ASSUME ~(req.limit <= Len(found)), NEW i \in 1 .. Len(found), found[i].depth = depth
                     PROVE  \E j \in 1 .. Len(next') : next'[j].key = found[i].key
        OBVIOUS
      <4>2. next' = Append(next, e)
        BY <1>7, <2>1, <2>2, <4>1 DEF GoOn
      <4>3. /\ Len(next') = Len(next) + 1 /\ next'[Len(next) + 1] = e
            /\ \A j \in 1 .. Len(next) : next'[j] = next[j]
        BY <1>7, <2>3, <4>2
      <4>4. CASE i \in 1 .. Len(reached)
        <5>1. PICK j \in 1 .. Len(next) : next[j].key = reached[i].key
          BY <1>0, <1>7, <2>2, <4>1, <4>4 DEF LevelInv
        <5>2. j \in 1 .. Len(next')
          BY <1>7, <4>3
        <5> QED
          BY <2>2, <4>3, <4>4, <5>1, <5>2
      <4>5. CASE i \notin 1 .. Len(reached)
        <5>1. i = Len(found) /\ Len(next) + 1 \in 1 .. Len(next')
          BY <1>7, <2>2, <4>3, <4>5
        <5> QED
          BY <1>6, <2>2, <4>3, <5>1
      <4> QED
        BY <4>4, <4>5
    <3>5. /\ depth <= req.depth
          /\ \A i \in 1 .. Len(frontier) : frontier[i].key \in Docs /\ Comes(frontier[i], depth - 1)
          /\ \A x \in Keys, n \in 1 .. depth - 1 : Paths(n, x) # {} => x \in seen'
          /\ \A i \in 1 .. at - 1, x \in Keys : Linked(frontier[i].key, x) => x \in seen'
          /\ Complete \/ (Enough(depth - 1) /\ next = <<>>)
      BY <1>0, <1>4 DEF LevelInv
    <3> QED
      BY <1>1, <1>2, <1>3, <2>1, <3>1, <3>2, <3>3, <3>4, <3>5 DEF LevelInv
  <2> QED
    BY <1>0, <1>1, <2>4, <2>5, <2>6 DEF WalkInv
<1> QED
  BY <1>8, <1>9

\* A node has nothing more to offer: what it links to is seen.
LEMMA NodeDoneKeeps ==
  ASSUME WalkInv, NodeDone
  PROVE  WalkInv'
<1>0. WalkTypes /\ ReachedInv /\ LevelInv /\ SnapInv /\ pc = "walk" /\ pc' = "walk"
  BY DEF NodeDone, WalkInv
<1>1. /\ UNCHANGED snapshot /\ req' = req /\ SnapInv' /\ seen' = seen /\ next' = next
      /\ frontier' = frontier /\ at' = at + 1 /\ depth' = depth /\ reached' = reached
  BY <1>0 DEF NodeDone, SnapInv, snapshot
<1>2. /\ Docs' = Docs /\ (\A n, k : Paths(n, k)' = Paths(n, k))
      /\ \A n, k : Linked(n, k)' = Linked(n, k) /\ Exact(n, k)' = Exact(n, k)
  BY <1>1, PathsSame
<1>3. \A e, n : Comes(e, n)' = Comes(e, n)
  BY <1>2 DEF Comes
<1>4. WalkTypes'
  BY <1>0, <1>1, <1>2 DEF WalkTypes, NodeDone
<1>5. ReachedInv'
  BY <1>0, <1>1, <1>2, ReachedSame DEF WalkTypes
<1>6. LevelInv'
  <2>1. ASSUME NEW i \in 1 .. at, NEW k \in Keys, Linked(frontier[i].key, k) PROVE k \in seen
    <3>1. CASE i = at
      BY <2>1, <3>1 DEF NodeDone, Offered, Outs, Ins, Linked
    <3>2. CASE i # at
      <4>1. i \in 1 .. at - 1
        BY <1>0, <3>2 DEF WalkTypes
      <4> QED
        BY <1>0, <2>1, <4>1 DEF LevelInv
    <3> QED
      BY <3>1, <3>2
  <2>2. at' - 1 = at
    BY <1>0, <1>1 DEF WalkTypes
  <2>3. Complete' = Complete /\ Enough(depth - 1)' = Enough(depth - 1)
    BY <1>1 DEF Complete, Enough
  <2> QED
    BY <1>0, <1>1, <1>2, <1>3, <2>1, <2>2, <2>3 DEF LevelInv
<1> QED
  BY <1>0, <1>1, <1>4, <1>5, <1>6 DEF WalkInv

\* The frontier is done: one distance farther, or what is missing may be.
LEMMA NextLevelKeeps ==
  ASSUME WalkInv, NextLevel
  PROVE  WalkInv'
<1>0. WalkTypes /\ ReachedInv /\ LevelInv /\ SnapInv /\ pc = "walk" /\ at > Len(frontier)
  BY DEF NextLevel, WalkInv
<1>1. UNCHANGED snapshot /\ req' = req /\ SnapInv' /\ seen' = seen /\ reached' = reached
  BY <1>0 DEF NextLevel, SnapInv, snapshot
<1>2. /\ Docs' = Docs /\ (\A n, k : Paths(n, k)' = Paths(n, k)) /\ Reachable' = Reachable
      /\ \A n, k : Linked(n, k)' = Linked(n, k) /\ Exact(n, k)' = Exact(n, k)
  BY <1>1, PathsSame
<1>3. \A e, n : Comes(e, n)' = Comes(e, n)
  BY <1>2 DEF Comes
<1>4. depth \in Nat \ {0} /\ Len(reached) \in Nat /\ req.depth \in Nat /\ req.limit \in Nat \ {0}
      /\ next \in Seq(Entries)
  <2>1. req.limit \in Limits /\ req.depth \in Depths /\ req.limit > 0
    BY <1>0 DEF WalkTypes, WalkRequests
  <2>2. depth \in Nat \ {0} /\ reached \in Seq(Hops) /\ next \in Seq(Entries)
    BY <1>0 DEF WalkTypes
  <2>3. Limits \subseteq Nat /\ Depths \subseteq Nat
    BY WalkConstants
  <2>4. Len(reached) \in Nat
    BY <2>2
  <2>5. Len(next) \in Nat
    BY <2>2
  <2>6. req.limit \in Nat /\ req.depth \in Nat
    BY <2>1, <2>3
  <2> QED
    BY <2>1, <2>2, <2>4, <2>5, <2>6
<1>5. Complete => \A n \in 1 .. depth, k \in Keys : Paths(n, k) # {} => k \in seen
  BY <1>0, LevelSeen
<1>6. req.limit <= Len(reached) => req.limit \in 1 .. Len(reached) /\ reached[req.limit].depth \in 1 .. depth
  BY <1>0, <1>4 DEF ReachedInv, ReachedAt
<1>7. CASE next = <<>> \/ depth = req.depth
  <2>1. pc' = "sort" /\ UNCHANGED <<frontier, next, at, depth>>
    BY <1>7 DEF NextLevel
  <2>2. WalkTypes'
    BY <1>0, <1>1, <1>2, <2>1 DEF WalkTypes
  <2>3. ReachedInv'
    BY <1>0, <1>1, <1>2, <1>4, <2>1, ReachedSame
  <2>4. ASSUME NEW k \in Reachable
        PROVE  \/ \E i \in 1 .. Len(reached) : reached[i].key = k
               \/ /\ req.limit <= Len(reached)
                  /\ \A n \in 1 .. reached[req.limit].depth : Paths(n, k) = {}
    <3>1. k \in Docs /\ k # req.start /\ k \in Keys
      BY DEF Reachable, Docs
    <3>2. SUFFICES ASSUME k \notin seen
                   PROVE  /\ req.limit <= Len(reached)
                          /\ \A n \in 1 .. reached[req.limit].depth : Paths(n, k) = {}
      BY <1>0, <3>1 DEF ReachedInv, ReachedAt
    <3>3. PICK d \in 1 .. req.depth : Paths(d, k) # {}
      BY DEF Reachable, Distances
    <3>4. CASE ~Complete
      <4>1. Enough(depth - 1) /\ \A n \in 1 .. depth - 1 : Paths(n, k) = {}
        BY <1>0, <3>1, <3>2, <3>4 DEF LevelInv
      <4>2. \A n \in 1 .. reached[req.limit].depth : n \in 1 .. depth - 1
        BY <1>4, <1>6, <4>1 DEF Enough
      <4> QED
        BY <4>1, <4>2 DEF Enough
    <3>5. CASE Complete
      <4>1. \A n \in 1 .. depth : Paths(n, k) = {}
        BY <1>5, <3>1, <3>2, <3>5
      <4>2. CASE req.limit <= Len(reached)
        <5>1. \A n \in 1 .. reached[req.limit].depth : n \in 1 .. depth
          BY <1>4, <1>6, <4>2
        <5> QED
          BY <4>1, <4>2, <5>1
      <4>3. CASE ~(req.limit <= Len(reached))
        <5>1. depth # req.depth
          BY <3>3, <4>1
        <5>2. \A i \in 1 .. Len(reached) : reached[i].depth # depth
          <6>1. 1 .. Len(next) = {}
            BY <1>7, <5>1
          <6> QED
            BY <1>0, <4>3, <6>1 DEF LevelInv
        <5>3. d \in Nat \ {0}
          BY <1>4, <3>3
        <5> QED
          BY <1>0, <1>5, <3>1, <3>2, <3>3, <3>5, <5>2, <5>3, NothingBeyond
      <4> QED
        BY <4>2, <4>3
    <3> QED
      BY <3>4, <3>5
  <2>5. SortInv'
    BY <1>1, <1>2, <2>4 DEF SortInv
  <2> QED
    BY <1>1, <2>1, <2>2, <2>3, <2>5 DEF WalkInv
<1>8. CASE ~(next = <<>> \/ depth = req.depth)
  <2>1. /\ frontier' = next /\ next' = <<>> /\ at' = 1 /\ depth' = depth + 1 /\ pc' = "walk"
    BY <1>0, <1>8 DEF NextLevel
  <2>2. Complete /\ depth < req.depth
    BY <1>0, <1>4, <1>8 DEF LevelInv
  <2>3. WalkTypes'
    BY <1>0, <1>1, <1>2, <1>4, <2>1 DEF WalkTypes
  <2>4. ReachedInv'
    BY <1>0, <1>1, <1>2, <1>4, <2>1, ReachedSame
  <2>5. LevelInv'
    <3>1. depth' - 1 = depth /\ depth' # 1 /\ depth' <= req.depth /\ 1 .. at' - 1 = {} /\ 1 .. Len(next') = {}
      BY <1>4, <2>1, <2>2
    <3>2. \A i \in 1 .. Len(next) : next[i].key \in Docs /\ Comes(next[i], depth)
      BY <1>0 DEF LevelInv
    <3>3. \/ req.limit <= Len(reached)
          \/ \A i \in 1 .. Len(reached) : reached[i].depth = depth =>
               \E j \in 1 .. Len(next) : next[j].key = reached[i].key
      BY <1>0 DEF LevelInv
    <3>4. CASE req.limit <= Len(reached)
      <4>1. Enough(depth - 1)'
        BY <1>1, <1>4, <1>6, <3>1, <3>4 DEF Enough
      <4> QED
        BY <1>1, <1>2, <1>3, <1>5, <2>1, <2>2, <3>1, <3>2, <3>4, <4>1 DEF LevelInv
    <3>5. CASE ~(req.limit <= Len(reached))
      <4>1. Complete'
        BY <1>1, <2>1, <3>1, <3>3, <3>5 DEF Complete
      <4>2. \A i \in 1 .. Len(reached) : reached[i].depth # depth'
        BY <1>0, <1>4, <2>1 DEF ReachedInv, ReachedAt
      <4> QED
        BY <1>1, <1>2, <1>3, <1>5, <2>1, <2>2, <3>1, <3>2, <4>1, <4>2 DEF LevelInv
    <3> QED
      BY <3>4, <3>5
  <2> QED
    BY <1>1, <2>1, <2>3, <2>4, <2>5 DEF WalkInv
<1> QED
  BY <1>7, <1>8

\* Nothing else touches a walk.
LEMMA OthersKeep ==
  ASSUME WalkInv, SortWalk \/ QueryNext \/ UNCHANGED vars
  PROVE  WalkInv'
<1>1. UNCHANGED snapshot /\ SnapInv'
  BY DEF SortWalk, QueryNext, StartQuery, ScoreTerm, SelectSeeds, ExpandEntry, NextHop, Rank, Pack, PackDone, vars,
         snapshot, WalkInv, SnapInv
<1>2. CASE SortWalk
  <2>1. pc' = "done"
    BY <1>2, Zenon DEF SortWalk
  <2> QED
    BY <1>1, <2>1 DEF WalkInv
<1>3. CASE QueryNext
  BY <1>1, <1>3 DEF QueryNext, StartQuery, ScoreTerm, SelectSeeds, ExpandEntry, NextHop, Rank, Pack, PackDone, WalkInv, snapshot
<1>4. CASE UNCHANGED vars
  <2>1. /\ pc' = pc /\ answer' = answer /\ req' = req /\ seen' = seen /\ frontier' = frontier
        /\ next' = next /\ at' = at /\ depth' = depth /\ reached' = reached
    BY <1>4 DEF vars, walk, snapshot
  <2>2. /\ Docs' = Docs /\ (\A n, k : Paths(n, k)' = Paths(n, k)) /\ Reachable' = Reachable
        /\ \A n, k : Linked(n, k)' = Linked(n, k) /\ Exact(n, k)' = Exact(n, k)
    BY <1>1, PathsSame
  <2>3. \A e, n : Comes(e, n)' = Comes(e, n)
    BY <2>2 DEF Comes
  <2>4. WalkTypes' = WalkTypes /\ SortInv' = SortInv
    BY <2>1, <2>2 DEF WalkTypes, SortInv
  <2>5. ReachedInv /\ WalkTypes => ReachedInv'
    BY <1>1, <2>1, <2>2, ReachedSame DEF WalkTypes
  <2>6. LevelInv' = LevelInv
    BY <2>1, <2>2, <2>3 DEF LevelInv, Complete, Enough
  <2> QED
    BY <1>1, <2>1, <2>4, <2>5, <2>6 DEF WalkInv
<1> QED
  BY <1>2, <1>3, <1>4

LEMMA WalkInvStep ==
  ASSUME WalkInv, [Next]_vars
  PROVE  WalkInv'
  BY StartWalkKeeps, StepKeeps, NodeDoneKeeps, NextLevelKeeps, OthersKeep DEF Next, WalkNext

LEMMA WalkInvAlways == Spec => []WalkInv
  BY WalkInvInit, WalkInvStep, PTL DEF Spec

\* What a hop says is true: HopsTrue follows from what is kept of reached.
LEMMA HopDistance ==
  ASSUME ReachedInv, WalkTypes, NEW i \in 1 .. Len(reached)
  PROVE  reached[i].depth \in Distances(reached[i].key) /\ reached[i].depth = Min(Distances(reached[i].key))
<1> DEFINE T == Distances(reached[i].key)
           m == reached[i].depth
<1>1. /\ depth \in Nat /\ req.depth \in Nat /\ m \in 1 .. depth /\ m <= req.depth
      /\ Comes(reached[i], m) /\ \A n \in 1 .. m - 1 : Paths(n, reached[i].key) = {}
  <2>1. req.depth \in Nat
    BY WalkConstants DEF WalkTypes, WalkRequests
  <2> QED
    BY <2>1 DEF ReachedInv, ReachedAt, WalkTypes
<1>2. m \in T
  BY <1>1 DEF Distances, Comes
<1>3. T \subseteq Nat
  BY <1>1 DEF Distances
<1>4. ASSUME NEW y \in T PROVE m <= y
  <2>1. y \in Nat \ {0} /\ y \notin 1 .. m - 1
    BY <1>1 DEF Distances
  <2> QED
    BY <1>1, <2>1
<1> HIDE DEF T, m
<1>5. Min(T) = m
  BY <1>2, <1>3, <1>4, MinOnly
<1> QED
  BY <1>2, <1>5 DEF T, m

\* Snapshot::walk visits every key once, at its distance, and calls a chain
\* exact only if one of that length is: for every snapshot, way, follow set,
\* limit and depth.
THEOREM HopsTrueTheorem == Spec => []HopsTrue
<1>1. WalkInv => HopsTrue
  <2>1. SUFFICES ASSUME WalkInv, pc \in {"walk", "sort"}, NEW i \in DOMAIN reached
                 PROVE  /\ \A j \in DOMAIN reached : reached[i].key = reached[j].key => i = j
                        /\ reached[i].depth = Min(Distances(reached[i].key))
                        /\ reached[i].exact =>
                             \E p \in Paths(reached[i].depth, reached[i].key) :
                               \A n \in 1 .. reached[i].depth : Exact(p[n - 1], p[n])
    BY DEF HopsTrue
  <2>2. WalkTypes /\ ReachedInv
    BY <2>1 DEF WalkInv
  <2>3. DOMAIN reached = 1 .. Len(reached)
    BY <2>2 DEF WalkTypes
  <2>4. Comes(reached[i], reached[i].depth)
    BY <2>1, <2>2, <2>3 DEF ReachedInv, ReachedAt
  <2> QED
    BY <2>1, <2>2, <2>3, <2>4, HopDistance DEF ReachedInv, ReachedAt, Comes
<1> QED
  BY <1>1, WalkInvAlways, PTL

----------------------------------------------------------------------------
(* What sorting and cutting make of a walk. *)

\* A sequence without repetitions has as many elements as it is long.
LEMMA DistinctSeq ==
  ASSUME NEW X, NEW s \in Seq(X), \A i, j \in 1 .. Len(s) : s[i] = s[j] => i = j
  PROVE  IsFiniteSet(ToSet(s)) /\ Cardinality(ToSet(s)) = Len(s)
<1>1. Len(s) \in Nat /\ DOMAIN s = 1 .. Len(s)
  OBVIOUS
<1> DEFINE f == [i \in 1 .. Len(s) |-> s[i]]
<1>2. f \in Bijection(1 .. Len(s), ToSet(s))
  BY <1>1 DEF Bijection, Injection, Surjection, IsInjective, ToSet
<1>3. IsFiniteSet(1 .. Len(s)) /\ Cardinality(1 .. Len(s)) = Len(s)
  BY <1>1, FS_Interval
<1>4. ExistsBijection(1 .. Len(s), ToSet(s))
  BY <1>2 DEF ExistsBijection
<1> QED
  BY <1>3, <1>4, FS_Bijection

\* The hops in their order: every one, each once.
LEMMA SortedWalk ==
  ASSUME WalkTypes, ReachedInv
  PROVE  LET S == InOrder(ToSet(reached), Nearer) n == Len(reached) IN
         /\ n \in Nat /\ S \in [1 .. n -> ToSet(reached)] /\ Len(S) = n
         /\ \A i \in 1 .. n : \E x \in 1 .. n : S[x] = reached[i]
         /\ \A i \in 1 .. n : \E x \in 1 .. n : S[i] = reached[x]
         /\ \A i, j \in 1 .. n : i < j =>
              \/ S[i].depth < S[j].depth
              \/ S[i].depth = S[j].depth /\ S[i].key < S[j].key
<1> DEFINE R == ToSet(reached)
           n == Len(reached)
<1>1. reached \in Seq(Hops) /\ n \in Nat /\ DOMAIN reached = 1 .. n
  BY DEF WalkTypes
<1>2. \A i, j \in 1 .. n : reached[i] = reached[j] => i = j
  BY DEF ReachedInv, ReachedAt
<1>3. IsFiniteSet(R) /\ Cardinality(R) = n
  BY <1>1, <1>2, DistinctSeq
<1>4. \A x \in R : x.depth \in Nat /\ x.key \in Nat
  <2>1. \A x \in Hops : x.depth \in Nat /\ x.key \in Nat
    BY WalkConstants DEF Hops
  <2>2. \A i \in 1 .. n : reached[i] \in Hops
    BY <1>1
  <2> QED
    BY <1>1, <2>1, <2>2 DEF ToSet
<1>5. \A x, y \in R : x.key = y.key => x = y
  BY <1>1 DEF ToSet, ReachedInv, ReachedAt
<1>6. Orders(Nearer, R)
  <2>1. ASSUME NEW x \in R, NEW y \in R
        PROVE  <<x, y>> \in Nearer <=> (x.depth < y.depth \/ (x.depth = y.depth /\ x.key < y.key))
    BY DEF Nearer
  <2> HIDE DEF R
  <2> QED
    BY <1>4, <1>5, <2>1 DEF Orders
<1> DEFINE S == InOrder(R, Nearer)
<1>7. /\ Len(S) = n /\ S \in [1 .. n -> R] /\ ToSet(S) = R
      /\ \A i, j \in 1 .. n : i < j => <<S[i], S[j]>> \in Nearer
  <2> HIDE DEF R, n
  <2> QED
    BY <1>3, <1>6, InOrderIs
<1> HIDE DEF S
<1>8. ASSUME NEW i \in 1 .. n PROVE \E x \in 1 .. n : S[x] = reached[i]
  BY <1>1, <1>7 DEF ToSet
<1>9. ASSUME NEW i \in 1 .. n PROVE \E x \in 1 .. n : S[i] = reached[x]
  BY <1>1, <1>7 DEF ToSet
<1>10. ASSUME NEW i \in 1 .. n, NEW j \in 1 .. n, i < j
       PROVE  \/ S[i].depth < S[j].depth
              \/ S[i].depth = S[j].depth /\ S[i].key < S[j].key
  BY <1>7, <1>10 DEF Nearer
<1> QED
  BY <1>1, <1>7, <1>8, <1>9, <1>10 DEF S

\* The first limit of the sorted hops are no farther than the first limit
\* that were reached: else fewer than limit of them would be as near.
LEMMA NearestFirst ==
  ASSUME WalkTypes, ReachedInv, req.limit <= Len(reached), NEW i \in 1 .. req.limit
  PROVE  InOrder(ToSet(reached), Nearer)[i].depth <= reached[req.limit].depth
<1> DEFINE S == InOrder(ToSet(reached), Nearer)
           n == Len(reached)
           l == req.limit
<1>1. /\ n \in Nat /\ S \in [1 .. n -> ToSet(reached)]
      /\ \A x \in 1 .. n : \E y \in 1 .. n : S[y] = reached[x]
      /\ \A x \in 1 .. n : \E y \in 1 .. n : S[x] = reached[y]
      /\ \A x, y \in 1 .. n : x < y =>
              \/ S[x].depth < S[y].depth
              \/ S[x].depth = S[y].depth /\ S[x].key < S[y].key
  BY SortedWalk
<1>2. l \in Nat /\ l \in 1 .. n /\ i \in 1 .. l /\ i \in 1 .. n
  <2>1. l \in Nat /\ l > 0
    BY WalkConstants DEF WalkTypes, WalkRequests
  <2>2. n \in Nat /\ l <= n /\ i \in 1 .. l
    BY <1>1
  <2> HIDE DEF n, l
  <2> QED
    BY <2>1, <2>2
<1> HIDE DEF S, n, l
<1>3. SUFFICES ASSUME ~(S[i].depth <= reached[l].depth) PROVE FALSE
  BY DEF S, l
<1>4. \A x \in 1 .. n : S[x].depth \in Nat /\ reached[x].depth \in Nat
  <2>1. \A x \in 1 .. n : reached[x] \in Hops
    BY DEF WalkTypes, n
  <2> QED
    BY <1>1, <2>1 DEF Hops
<1>5. \A x \in 1 .. l : reached[x].depth <= reached[l].depth /\ x \in 1 .. n
  <2>1. \A x \in 1 .. l : x \in 1 .. n /\ x <= l
    BY <1>1, <1>2
  <2> QED
    BY <1>2, <2>1 DEF ReachedInv, ReachedAt, n
<1>6. ASSUME NEW x \in 1 .. l PROVE \E y \in 1 .. i - 1 : S[y] = reached[x]
  <2>1. PICK y \in 1 .. n : S[y] = reached[x]
    BY <1>1, <1>5
  <2>2. reached[x].depth <= reached[l].depth /\ reached[x].depth \in Nat /\ reached[l].depth \in Nat
    BY <1>2, <1>4, <1>5
  <2>3. S[i].depth > reached[l].depth
    BY <1>2, <1>3, <1>4
  <2>4. y # i
    BY <1>2, <1>4, <2>1, <2>2, <2>3
  <2>5. ~(i < y)
    <3>1. i < y => S[i].depth < S[y].depth \/ S[i].depth = S[y].depth
      BY <1>1, <1>2
    <3>2. S[i].depth \in Nat /\ S[y].depth <= reached[l].depth
      BY <1>2, <1>4, <2>1, <2>2
    <3>3. \A a, b, c \in Nat : a > b /\ c <= b => ~(a < c \/ a = c)
      OBVIOUS
    <3> QED
      BY <2>1, <2>2, <2>3, <3>1, <3>2, <3>3
  <2>6. y \in 1 .. i - 1
    BY <1>1, <1>2, <2>4, <2>5
  <2> QED
    BY <2>1, <2>6
<1> DEFINE f == [x \in 1 .. l |-> CHOOSE y \in 1 .. i - 1 : S[y] = reached[x]]
<1>7. ASSUME NEW x \in 1 .. l PROVE f[x] \in 1 .. i - 1 /\ S[f[x]] = reached[x]
  BY <1>6
<1> HIDE DEF f
<1>8. f \in [1 .. l -> 1 .. i - 1]
  BY <1>7 DEF f
<1>9. \E x, y \in 1 .. l : x # y /\ f[x] = f[y]
  <2>1. i \in Nat /\ i - 1 \in Int /\ l \in Int /\ i <= l /\ i >= 1 /\ i - 1 < l
    BY <1>2
  <2>2. IsFiniteSet(1 .. l) /\ Cardinality(1 .. l) = l
    BY <2>1, FS_Interval
  <2>3. IsFiniteSet(1 .. i - 1) /\ Cardinality(1 .. i - 1) = i - 1
    BY <2>1, FS_Interval
  <2>4. Cardinality(1 .. i - 1) < Cardinality(1 .. l)
    BY <2>1, <2>2, <2>3
  <2> QED
    BY <1>8, <2>2, <2>3, <2>4, FS_PigeonHole
<1> QED
  BY <1>5, <1>7, <1>9 DEF ReachedInv, ReachedAt, n

\* The early return: nothing was asked for.
LEMMA NothingAsked ==
  ASSUME WalkInv, StartWalk
  PROVE  NearestDocuments'
<1>1. UNCHANGED snapshot /\ req' = req /\ pc = "start"
  BY DEF StartWalk, snapshot
<1>2. answer' = <<>>
  BY <1>1 DEF StartWalk, WalkInv
<1>3. SUFFICES ASSUME pc' = "done", (req.start \in Docs)'
               PROVE  /\ ToSet(answer)' \subseteq Reachable'
                      /\ Len(answer)' = Min({req.limit, Cardinality(Reachable)})'
                      /\ DOMAIN answer' = {}
  BY DEF NearestDocuments
<1>4. Docs' = Docs /\ Reachable' = Reachable
  BY <1>1, PathsSame
<1>5. req.limit = 0 \/ req.start \notin Docs
  BY <1>3 DEF StartWalk
<1>6. req.limit = 0
  BY <1>1, <1>3, <1>4, <1>5
<1>7. IsFiniteSet(Reachable)
  <2>1. Reachable \in SUBSET Keys
    BY DEF Reachable, Docs
  <2> QED
    BY <2>1, FS_Subset, WalkConstants
<1>8. Min({0, Cardinality(Reachable)}) = 0
  <2>1. Cardinality(Reachable) \in Nat /\ 0 \in Nat /\ 0 <= Cardinality(Reachable)
    BY <1>7, FS_CardinalityType
  <2> QED
    BY <2>1, MinOfTwo
<1> QED
  BY <1>1, <1>2, <1>4, <1>6, <1>8 DEF ToSet

\* The sorted hops, cut to the limit, are the nearest documents.
LEMMA SortWalkNearest ==
  ASSUME WalkInv, SortWalk
  PROVE  NearestDocuments'
<1> DEFINE S == InOrder(ToSet(reached), Nearer)
           n == Len(reached)
           l == req.limit
           K == {reached[x].key : x \in 1 .. n}
<1>0. WalkTypes /\ ReachedInv /\ SortInv
  BY DEF SortWalk, WalkInv
<1>1. UNCHANGED snapshot /\ req' = req
  BY DEF SortWalk, snapshot
<1>2. Docs' = Docs /\ Reachable' = Reachable /\ \A k : Distances(k)' = Distances(k)
  BY <1>1, PathsSame
<1>3. /\ n \in Nat /\ S \in [1 .. n -> ToSet(reached)] /\ Len(S) = n
      /\ \A i \in 1 .. n : \E x \in 1 .. n : S[x] = reached[i]
      /\ \A i \in 1 .. n : \E x \in 1 .. n : S[i] = reached[x]
      /\ \A i, j \in 1 .. n : i < j =>
           \/ S[i].depth < S[j].depth
           \/ S[i].depth = S[j].depth /\ S[i].key < S[j].key
  BY <1>0, SortedWalk
<1>4. l \in Nat /\ l > 0 /\ reached \in Seq(Hops)
  BY <1>0, WalkConstants DEF WalkTypes, WalkRequests
<1>5. PICK m : m = IF l <= n THEN l ELSE n
  OBVIOUS
<1>6. m \in Nat /\ m <= l /\ m <= n /\ Min({l, n}) = m
  <2>1. n \in Nat /\ l \in Nat
    BY <1>3, <1>4
  <2> HIDE DEF n, l
  <2> QED
    BY <1>5, <2>1, MinOfTwo
<1>7. answer' = [i \in 1 .. m |-> S[i].key]
  BY <1>3, <1>6 DEF SortWalk
<1>8. \A x \in 1 .. n : reached[x].key \in Reachable /\ reached[x].depth = Min(Distances(reached[x].key))
                        /\ reached[x].depth \in Nat
  <2>1. ASSUME NEW x \in 1 .. n PROVE reached[x].key \in Reachable
    BY <1>0, HopDistance DEF Reachable, ReachedInv, ReachedAt
  <2>2. ASSUME NEW x \in 1 .. n PROVE reached[x].depth \in Nat
    <3>1. reached[x] \in Hops
      BY <1>4
    <3> QED
      BY <3>1 DEF Hops
  <2> QED
    BY <1>0, <2>1, <2>2, HopDistance
<1> HIDE DEF S, l
<1>9. IsFiniteSet(Reachable) /\ K \in SUBSET Reachable /\ Cardinality(Reachable) \in Nat
  <2>1. Reachable \in SUBSET Keys /\ IsFiniteSet(Keys)
    BY WalkConstants DEF Reachable, Docs
  <2>2. IsFiniteSet(Reachable)
    BY <2>1, FS_Subset
  <2> QED
    BY <1>8, <2>2, FS_CardinalityType
<1>10. Cardinality(K) = n
  <2> DEFINE s == [x \in 1 .. n |-> reached[x].key]
  <2>0. s \in [1 .. n -> Reachable] /\ n \in Nat
    BY <1>3, <1>8
  <2>1. s \in Seq(Reachable) /\ Len(s) = n /\ ToSet(s) = K
    BY <2>0 DEF ToSet
  <2>2. \A i, j \in 1 .. Len(s) : s[i] = s[j] => i = j
    BY <1>0, <2>1 DEF ReachedInv, ReachedAt
  <2> HIDE DEF s, K
  <2> QED
    BY <2>1, <2>2, DistinctSeq
<1>11. ASSUME NEW k \in Reachable, k \notin K
       PROVE  l <= n /\ \A x \in 1 .. reached[l].depth : Paths(x, k) = {}
  BY <1>0, <1>11 DEF SortInv, l
<1>12. ToSet(answer') \subseteq Reachable
  <2>1. \A i \in 1 .. m : i \in 1 .. n
    BY <1>3, <1>6
  <2>2. \A i \in 1 .. m : S[i].key \in Reachable
    BY <1>3, <1>8, <2>1
  <2> QED
    BY <1>7, <2>2 DEF ToSet
<1>13. Len(answer') = m
  BY <1>6, <1>7
<1>14. m = Min({l, Cardinality(Reachable)})
  <2>0. l \in Nat /\ n \in Nat /\ Cardinality(Reachable) \in Nat
    BY <1>3, <1>4, <1>9
  <2> HIDE DEF K, n, l
  <2>1. n <= Cardinality(Reachable)
    <3>1. K \subseteq Reachable /\ IsFiniteSet(Reachable) /\ Cardinality(K) = n
      BY <1>9, <1>10
    <3> QED
      BY <3>1, FS_Subset, Zenon
  <2>2. CASE l <= n
    <3>1. l <= Cardinality(Reachable)
      BY <2>0, <2>1, <2>2
    <3>2. Min({l, Cardinality(Reachable)}) = l
      BY <2>0, <3>1, MinOfTwo
    <3> QED
      BY <1>5, <2>2, <3>2
  <2>3. CASE ~(l <= n)
    <3>1. \A k \in Reachable : k \in K
      BY <1>11, <2>3
    <3>2. Reachable = K
      BY <1>9, <3>1
    <3>3. Cardinality(Reachable) = n
      BY <1>10, <3>2
    <3> QED
      BY <1>6, <3>3
  <2> QED
    BY <2>2, <2>3
<1>15. ASSUME NEW i \in 1 .. m, NEW k \in Reachable, \A j \in 1 .. i : k # S[j].key
       PROVE  LET da == Min(Distances(S[i].key)) db == Min(Distances(k))
              IN  da < db \/ (da = db /\ S[i].key < k)
  <2>1. i \in 1 .. n /\ i \in Nat
    BY <1>3, <1>6
  <2>2. PICK a \in 1 .. n : S[i] = reached[a]
    BY <1>3, <2>1
  <2>3. S[i].depth = Min(Distances(S[i].key)) /\ S[i].depth \in Nat
    BY <1>8, <2>2
  <2>4. CASE k \in K
    <3>1. PICK b \in 1 .. n : reached[b].key = k
      BY <2>4
    <3>2. PICK j \in 1 .. n : S[j] = reached[b]
      BY <1>3
    <3>3. S[j].key = k /\ S[j].depth = Min(Distances(k))
      BY <1>8, <3>1, <3>2
    <3>4. j \notin 1 .. i
      BY <1>15, <3>3
    <3>5. i < j
      BY <1>3, <2>1, <3>4
    <3> QED
      BY <1>3, <2>1, <2>3, <3>3, <3>5
  <2>5. CASE k \notin K
    <3>1. l <= n /\ \A x \in 1 .. reached[l].depth : Paths(x, k) = {}
      BY <1>11, <2>5
    <3>2. i \in 1 .. l /\ l \in 1 .. n
      <4>1. n \in Nat /\ l \in Nat /\ l > 0 /\ m <= l
        BY <1>3, <1>4, <1>6 DEF l
      <4> HIDE DEF n
      <4> QED
        BY <1>6, <2>1, <3>1, <4>1
    <3>3. S[i].depth <= reached[l].depth /\ reached[l].depth \in Nat
      BY <1>0, <1>8, <3>1, <3>2, NearestFirst DEF S, l
    <3>4. Distances(k) # {} /\ Distances(k) \subseteq Nat \ {0} /\ \A x \in Distances(k) : Paths(x, k) # {}
      <4>1. req.depth \in Nat
        BY <1>0, WalkConstants DEF WalkTypes, WalkRequests
      <4> QED
        BY <4>1 DEF Reachable, Distances
    <3>5. PICK db \in Distances(k) : db = Min(Distances(k))
      BY <3>4, MinIs
    <3>6. db \in Nat \ {0} /\ db \notin 1 .. reached[l].depth
      BY <3>1, <3>4
    <3>7. S[i].depth < db
      BY <2>3, <3>3, <3>6
    <3> QED
      BY <2>3, <3>5, <3>7
  <2> QED
    BY <2>4, <2>5
<1>16. ASSUME NEW i \in DOMAIN answer', NEW k \in Reachable \ {answer'[j] : j \in 1 .. i}
       PROVE  LET da == Min(Distances(answer'[i])) db == Min(Distances(k))
              IN  da < db \/ (da = db /\ answer'[i] < k)
  <2>1. i \in 1 .. m /\ answer'[i] = S[i].key
    BY <1>7
  <2>2. \A j \in 1 .. i : j \in 1 .. m /\ answer'[j] = S[j].key
    BY <1>6, <1>7, <2>1
  <2>3. \A j \in 1 .. i : k # S[j].key
    BY <2>2
  <2> QED
    BY <1>15, <2>1, <2>3
<1>17. /\ ToSet(answer)' \subseteq Reachable'
       /\ Len(answer)' = Min({req.limit, Cardinality(Reachable)})'
  BY <1>1, <1>2, <1>12, <1>13, <1>14 DEF ToSet, l
<1> QED
  BY <1>1, <1>2, <1>16, <1>17 DEF NearestDocuments

\* The Python walk answers the nearest documents, by distance and url, for
\* every snapshot, way, follow set, limit and depth, whatever the Walk was
\* used for before and in whichever order a node's edges come.
THEOREM NearestTheorem == Spec => []NearestDocuments
<1>1. Init => NearestDocuments
  BY DEF Init, WalkInit, NearestDocuments
<1>2. ASSUME WalkInv, NearestDocuments, [Next]_vars PROVE NearestDocuments'
  <2>1. CASE StartWalk
    BY <1>2, <2>1, NothingAsked
  <2>2. CASE SortWalk
    BY <1>2, <2>2, SortWalkNearest
  <2>3. CASE Step \/ NodeDone \/ NextLevel
    <3>1. pc' # "done"
      BY <2>3 DEF Step, NodeDone, NextLevel
    <3> QED
      BY <3>1 DEF NearestDocuments
  <2>4. CASE QueryNext
    <3>1. req.op = "query" /\ req' = req
      BY <1>2, <2>4 DEF QueryNext, StartQuery, ScoreTerm, SelectSeeds, ExpandEntry, NextHop, Rank, Pack, PackDone,
                        snapshot, WalkInv
    <3> QED
      BY <3>1 DEF NearestDocuments
  <2>5. CASE UNCHANGED vars
    <3>1. UNCHANGED snapshot /\ pc' = pc /\ answer' = answer /\ req' = req
      BY <2>5 DEF vars, snapshot
    <3>2. Docs' = Docs /\ Reachable' = Reachable /\ \A k : Distances(k)' = Distances(k)
      BY <3>1, PathsSame
    <3> QED
      BY <1>2, <3>1, <3>2 DEF NearestDocuments
  <2> QED
    BY <1>2, <2>1, <2>2, <2>3, <2>4, <2>5 DEF Next, WalkNext
<1> QED
  BY <1>1, <1>2, WalkInvAlways, PTL DEF Spec

----------------------------------------------------------------------------
(* The query: scores from words, seeds, and a label-correcting search.     *)

\* What term i gives k, and the first n terms that match it.
Gives(i, k) == LexTier(req.terms[i], k) * TermIdf(req.terms[i])
Given(k) == [i \in DOMAIN req.terms |-> Gives(i, k)]
MatchedBy(n, k) == {i \in 1 .. n : LexTier(req.terms[i], k) > 0}

\* The best node of a term: None if it has none.
IsBest(b, i) ==
  LET matches == LexMatches(req.terms[i]) IN
  IF matches = {} THEN b = None
  ELSE b \in matches /\ \A m \in matches : LexTier(req.terms[i], b) >= LexTier(req.terms[i], m)

\* The scratch holds what the terms scored so far give.
ScoreInv ==
  /\ req \in Queries /\ term \in 1 .. Len(req.terms) + 1
  /\ scores = [k \in Keys |-> [tiered |-> Sums(Given(k))[term - 1],
                               matched |-> Cardinality(MatchedBy(term - 1, k))]]
  /\ scored = {k \in Keys : MatchedBy(term - 1, k) # {}}
  /\ best \in Seq(Keys \cup {None}) /\ Len(best) = term - 1
  /\ \A i \in 1 .. term - 1 : IsBest(best[i], i)

\* Every term's best match is a seed if there is room for one each.
Seated ==
  Len(req.terms) <= req.maxSeeds =>
    \A i \in DOMAIN req.terms :
      LET t == req.terms[i] IN
      LexMatches(t) # {} => \E k \in ToSet(seeds) : \A m \in LexMatches(t) : LexTier(t, k) >= LexTier(t, m)

SeedInv ==
  /\ req \in Queries /\ Seated
  /\ ToSet(seeds) \subseteq BaseKeys
  /\ \A k \in ToSet(seeds) : WordScore(k) \in Nat \ {0}
  /\ DOMAIN fresh \subseteq Keys \ BaseKeys /\ \A k \in DOMAIN fresh : fresh[k] \in Nat

\* s is what a path of n edges to k scores.
Scored(s, n, k) == \E q \in SeedPaths(n, k) : s = PathScore(q, n)

\* k has arrived with s or better.
Arrived(k, s) == k \in DOMAIN arrival /\ arrival[k] >= s

\* u is yet to be expanded with s or better.
Pending(u, s) == \E i \in 1 .. Len(qFrontier) : qFrontier[i].key = u /\ qFrontier[i].score >= s

\* The scores that the nodes have are those of paths.
Sound ==
  /\ \A k \in DOMAIN arrival : k \in BaseKeys /\ \E n \in 0 .. hop : n <= req.depth /\ Scored(arrival[k], n, k)
  /\ \A i \in 1 .. Len(qFrontier) : Scored(qFrontier[i].score, hop - 1, qFrontier[i].key)
  /\ \A i \in 1 .. Len(qNext) : Scored(qNext[i].score, hop, qNext[i].key)

\* Shorter paths have been scored, and what they lead to has been scored or
\* is pending; so has what the nodes lead to with the scores they have.
Thorough ==
  /\ \A n \in 0 .. hop - 1, k \in BaseKeys : \A q \in SeedPaths(n, k) : Arrived(k, PathScore(q, n))
  /\ \A n \in 0 .. hop - 1, u \in BaseKeys, v \in BaseKeys : \A q \in SeedPaths(n, u) :
       Through(u) /\ <<u, v>> \in DOMAIN edges =>
         \/ Arrived(v, Carried(PathScore(q, n), u, v))
         \/ Pending(u, PathScore(q, n))
  /\ \A u \in DOMAIN arrival, v \in BaseKeys :
       Through(u) /\ <<u, v>> \in DOMAIN edges =>
         \/ Arrived(v, Carried(arrival[u], u, v))
         \/ Pending(u, arrival[u])
         \/ \E i \in 1 .. Len(qNext) : qNext[i] = [key |-> u, score |-> arrival[u]]

QEntries == [key : BaseKeys, score : Nat \ {0}]

ExpandInv ==
  /\ hop \in 1 .. req.depth
  /\ qFrontier \in Seq(QEntries) /\ qNext \in Seq(QEntries)
  /\ \A k \in DOMAIN arrival : arrival[k] \in Nat \ {0}
  /\ Sound /\ Thorough

\* The search is over: every node has the score of a path, and none that is
\* better is left.
Settled ==
  /\ \A k \in DOMAIN arrival : arrival[k] \in Nat /\ \E n \in 0 .. req.depth : Scored(arrival[k], n, k)
  /\ \A n \in 0 .. req.depth, k \in BaseKeys : \A q \in SeedPaths(n, k) : Arrived(k, PathScore(q, n))

QueryInv ==
  /\ pc \in {"start", "walk", "sort", "score", "expand", "render", "pack", "done"}
  /\ seen \subseteq Keys /\ DOMAIN arrival \subseteq BaseKeys
  /\ pc # "score" => scores = [k \in Keys |-> NoScore]
  /\ pc = "start" => term = 1 /\ best = <<>> /\ scored = {}
  /\ pc = "score" => ScoreInv
  /\ pc \in {"expand", "render", "pack"} => SeedInv
  /\ pc = "expand" => ExpandInv
  /\ pc \in {"render", "pack"} => Settled

\* A finite set in an order has a first element.
LEMMA FirstExists ==
  ASSUME NEW S, IsFiniteSet(S), S # {}, NEW R, Orders(R, S)
  PROVE  \E a \in S : \A b \in S \ {a} : <<a, b>> \in R
<1> DEFINE n == Cardinality(S)
           s == InOrder(S, R)
<1>1. n \in Nat /\ n # 0
  BY FS_CardinalityType, FS_EmptySet
<1>2. s \in [1 .. n -> S] /\ ToSet(s) = S /\ \A i, j \in 1 .. n : i < j => <<s[i], s[j]>> \in R
  BY InOrderIs
<1> HIDE DEF s, n
<1>3. 1 \in 1 .. n /\ s[1] \in S
  BY <1>1, <1>2
<1>4. ASSUME NEW b \in S \ {s[1]} PROVE <<s[1], b>> \in R
  <2>1. PICK j \in 1 .. n : b = s[j]
    BY <1>2 DEF ToSet
  <2>2. 1 < j
    BY <1>1, <1>4, <2>1
  <2> QED
    BY <1>2, <1>3, <2>1, <2>2
<1> QED
  BY <1>3, <1>4

\* A finite set of numbers has a greatest one.
LEMMA FiniteMax ==
  ASSUME NEW T, T \subseteq Nat, IsFiniteSet(T), T # {}
  PROVE  Max(T) \in T /\ \A y \in T : y <= Max(T)
<1> DEFINE R == {p \in T \X T : p[1] > p[2]}
<1>1. Orders(R, T)
  <2>1. \A x, y \in T : <<x, y>> \in R <=> x > y
    OBVIOUS
  <2> HIDE DEF R
  <2> QED
    BY <2>1 DEF Orders
<1>2. PICK a \in T : \A b \in T \ {a} : <<a, b>> \in R
  <2> HIDE DEF R
  <2> QED
    BY <1>1, FirstExists
<1>3. ASSUME NEW b \in T PROVE b <= a
  <2>1. b # a => a > b
    BY <1>2
  <2> QED
    BY <2>1
<1>4. Max(T) = a
  BY <1>3, MaxOnly
<1> QED
  BY <1>3, <1>4

\* One positive number makes the sum positive.
LEMMA SumsPositive ==
  ASSUME NEW s \in Seq(Nat), NEW i \in 1 .. Len(s), s[i] > 0, NEW n \in i .. Len(s)
  PROVE  Sums(s)[n] > 0
<1> DEFINE T == {m \in i .. Len(s) : ~(Sums(s)[m] > 0)}
<1>1. CASE T = {}
  BY <1>1
<1>2. CASE T # {}
  <2>1. PICK m \in T : m \in Nat /\ (m # 0 => m - 1 \in Nat /\ m - 1 \notin T)
    <3>1. T \subseteq Nat
      OBVIOUS
    <3> HIDE DEF T
    <3> QED
      BY <1>2, <3>1, LeastOne
  <2>2. m \in 1 .. Len(s) /\ m - 1 \in 0 .. Len(s) /\ s[m] \in Nat
    BY <2>1
  <2>3. Sums(s)[m] = Sums(s)[m - 1] + s[m]
    BY <2>2, SumsStep
  <2>4. Sums(s)[m - 1] \in Nat
    BY <2>2, SumsNat
  <2>5. CASE m = i
    BY <2>1, <2>2, <2>3, <2>4, <2>5
  <2>6. CASE m # i
    <3>1. m - 1 \in i .. Len(s)
      BY <2>1, <2>6
    <3>2. Sums(s)[m - 1] > 0
      BY <2>1, <3>1
    <3> QED
      BY <2>1, <2>2, <2>3, <2>4, <3>2
  <2> QED
    BY <2>5, <2>6
<1> QED
  BY <1>1, <1>2

\* What the tables say of a request.
LEMMA QueryTypes ==
  ASSUME req \in Queries
  PROVE  /\ req.op = "query" /\ req.terms \in Seq(DOMAIN MatchOf) /\ Len(req.terms) \in Nat
         /\ DOMAIN req.terms = 1 .. Len(req.terms)
         /\ req.depth \in Nat /\ req.maxSeeds \in Nat /\ req.limit \in Nat /\ req.budget \in Nat
<1>1. /\ req.op = "query" /\ req.terms \in Seq(DOMAIN MatchOf)
      /\ {req.depth, req.maxSeeds, req.limit, req.budget} \subseteq Nat
  BY QueryConstants
<1> QED
  BY <1>1

LEMMA TierTypes ==
  ASSUME NEW t \in DOMAIN MatchOf, NEW k \in Keys
  PROVE  LexTier(t, k) \in Nat /\ FreshTier(t, k) \in Nat
<1>1. MatchOf[t] \in [Keys -> {0, TierSubstr, TierPrefix, TierExact}]
  BY QueryConstants
<1>2. MatchOf[t][k] \in Nat
  BY <1>1, QueryConstants
<1> QED
  BY <1>2 DEF LexTier, FreshTier

LEMMA KeysSubset ==
  ASSUME NEW S, S \subseteq Keys
  PROVE  IsFiniteSet(S) /\ Cardinality(S) \in 0 .. Cardinality(Keys)
<1>1. IsFiniteSet(Keys)
  BY WalkConstants
<1>2. S \in SUBSET Keys
  OBVIOUS
<1>3. IsFiniteSet(S) /\ Cardinality(S) <= Cardinality(Keys)
  BY <1>1, <1>2, FS_Subset
<1>4. Cardinality(S) \in Nat /\ Cardinality(Keys) \in Nat
  BY <1>1, <1>3, FS_CardinalityType
<1> QED
  BY <1>3, <1>4

LEMMA IdfTypes ==
  ASSUME NEW t
  PROVE  TermIdf(t) \in Nat \ {0} /\ Idf[0] \in Nat \ {0}
<1> DEFINE S == {k \in Keys : LexTier(t, k) = TierExact}
<1>1. Cardinality(S) \in 0 .. Cardinality(Keys)
  BY KeysSubset
<1>2. 0 \in 0 .. Cardinality(Keys)
  BY <1>1, WalkConstants, FS_CardinalityType
<1>3. Idf \in [0 .. Cardinality(Keys) -> Nat \ {0}]
  BY QueryConstants
<1> QED
  BY <1>1, <1>2, <1>3 DEF TermIdf

LEMMA GivenTypes ==
  ASSUME req \in Queries, NEW k \in Keys
  PROVE  /\ Given(k) \in Seq(Nat) /\ Len(Given(k)) = Len(req.terms)
         /\ \A i \in 1 .. Len(req.terms) :
              /\ Given(k)[i] = Gives(i, k) /\ Gives(i, k) \in Nat
              /\ Gives(i, k) > 0 <=> LexTier(req.terms[i], k) > 0
<1>1. /\ req.terms \in Seq(DOMAIN MatchOf) /\ Len(req.terms) \in Nat
      /\ DOMAIN req.terms = 1 .. Len(req.terms)
  BY QueryTypes
<1>2. ASSUME NEW i \in 1 .. Len(req.terms)
      PROVE  Gives(i, k) \in Nat /\ (Gives(i, k) > 0 <=> LexTier(req.terms[i], k) > 0)
  <2>1. req.terms[i] \in DOMAIN MatchOf
    BY <1>1
  <2>2. LexTier(req.terms[i], k) \in Nat /\ TermIdf(req.terms[i]) \in Nat \ {0}
    BY <2>1, TierTypes, IdfTypes
  <2>3. \A x \in Nat, y \in Nat \ {0} : x * y \in Nat /\ (x * y > 0 <=> x > 0)
    OBVIOUS
  <2> QED
    BY <2>2, <2>3 DEF Gives
<1>3. Given(k) \in [1 .. Len(req.terms) -> Nat]
  BY <1>1, <1>2 DEF Given
<1> QED
  BY <1>1, <1>2, <1>3 DEF Given

\* WordScore is what the scratch holds when every term is scored.
LEMMA WordScoreIs ==
  ASSUME req \in Queries, NEW k \in Keys
  PROVE  /\ WordScore(k) = CoverageScore([tiered |-> Sums(Given(k))[Len(req.terms)],
                                          matched |-> Cardinality(MatchedBy(Len(req.terms), k))])
         /\ MatchedBy(Len(req.terms), k) # {} => WordScore(k) \in Nat \ {0}
<1> DEFINE n == Len(req.terms)
           M == MatchedBy(n, k)
<1>1. /\ n \in Nat /\ DOMAIN req.terms = 1 .. n /\ Given(k) \in Seq(Nat) /\ Len(Given(k)) = n
      /\ \A i \in 1 .. n :
              /\ Given(k)[i] = Gives(i, k) /\ Gives(i, k) \in Nat
              /\ Gives(i, k) > 0 <=> LexTier(req.terms[i], k) > 0
  BY QueryTypes, GivenTypes
<1>2. WordScore(k) = CoverageScore([tiered |-> Sums(Given(k))[n], matched |-> Cardinality(M)])
  BY <1>1 DEF WordScore, Given, Gives, MatchedBy
<1>3. ASSUME M # {} PROVE WordScore(k) \in Nat \ {0}
  <2>1. PICK i \in 1 .. n : LexTier(req.terms[i], k) > 0
    BY <1>3 DEF MatchedBy
  <2>2. Given(k)[i] > 0 /\ n \in i .. n /\ n \in 0 .. n
    BY <1>1, <2>1
  <2>3. Sums(Given(k))[n] \in Nat \ {0}
    <3>1. Sums(Given(k))[n] \in Nat
      BY <1>1, <2>2, SumsNat
    <3>2. Sums(Given(k))[n] > 0
      BY <1>1, <2>1, <2>2, SumsPositive
    <3> QED
      BY <3>1, <3>2
  <2>4. Cardinality(M) \in Nat \ {0}
    <3>1. IsFiniteSet(1 .. n) /\ M \in SUBSET (1 .. n)
      BY <1>1, FS_Interval DEF MatchedBy
    <3>2. IsFiniteSet(M)
      BY <3>1, FS_Subset
    <3> QED
      BY <1>3, <3>2, FS_CardinalityType, FS_EmptySet
  <2>5. \A x, y \in Nat \ {0} : x * y * y \in Nat \ {0}
    <3>1. \A x, y \in Nat \ {0} : x * y \in Nat \ {0}
      OBVIOUS
    <3> QED
      BY <3>1
  <2> HIDE DEF M, n
  <2> QED
    BY <1>2, <2>3, <2>4, <2>5 DEF CoverageScore
<1> QED
  BY <1>2, <1>3

\* A step leaves the snapshot and the request alone: what the words say and
\* the degrees stay; while the seeds stay, so do the paths and their scores.
LEMMA WordsSame ==
  ASSUME UNCHANGED snapshot
  PROVE  /\ req' = req /\ kind' = kind /\ edges' = edges /\ BaseKeys' = BaseKeys
         /\ HubThreshold' = HubThreshold /\ \A k : Degree(k)' = Degree(k)
         /\ \A t, k : LexTier(t, k)' = LexTier(t, k)
         /\ \A t : LexMatches(t)' = LexMatches(t) /\ TermIdf(t)' = TermIdf(t)
         /\ \A k : WordScore(k)' = WordScore(k) /\ Given(k)' = Given(k)
         /\ \A n, k : MatchedBy(n, k)' = MatchedBy(n, k)
         /\ \A b, i : IsBest(b, i)' = IsBest(b, i)
         /\ \A sc, u, k : Carried(sc, u, k)' = Carried(sc, u, k)
         /\ \A q, n : PathScore(q, n)' = PathScore(q, n)
<1>1. kind' = kind /\ edges' = edges /\ req' = req
  BY DEF snapshot
<1>2. \A t, k : LexTier(t, k)' = LexTier(t, k)
  BY <1>1 DEF LexTier
<1>3. \A t : LexMatches(t)' = LexMatches(t) /\ TermIdf(t)' = TermIdf(t)
  BY <1>2 DEF LexMatches, TermIdf
<1>4. \A n, k : MatchedBy(n, k)' = MatchedBy(n, k) /\ Given(k)' = Given(k)
  BY <1>1, <1>2, <1>3 DEF MatchedBy, Given, Gives
<1>5. \A k : WordScore(k)' = WordScore(k)
  BY <1>1, <1>2, <1>3 DEF WordScore
<1>6. \A b, i : IsBest(b, i)' = IsBest(b, i)
  BY <1>1, <1>2, <1>3 DEF IsBest
<1>7. BaseKeys' = BaseKeys /\ BaseEdges' = BaseEdges
  BY <1>1 DEF BaseKeys, BaseEdges
<1>8. \A k : Degree(k)' = Degree(k)
  BY <1>7 DEF Degree
<1>9. HubThreshold' = HubThreshold
  BY <1>7, <1>8 DEF HubThreshold
<1>10. \A sc, u, k : Carried(sc, u, k)' = Carried(sc, u, k)
  BY <1>1 DEF Carried
<1>11. \A q, n : PathScore(q, n)' = PathScore(q, n)
  BY <1>1, <1>5 DEF PathScore
<1> QED
  BY <1>1, <1>2, <1>3, <1>4, <1>5, <1>6, <1>7, <1>8, <1>9, <1>10, <1>11

LEMMA SeedPathsSame ==
  ASSUME UNCHANGED snapshot, seeds' = seeds
  PROVE  /\ \A k : Through(k)' = Through(k) /\ PathScores(k)' = PathScores(k)
         /\ \A n, k : SeedPaths(n, k)' = SeedPaths(n, k)
         /\ \A s, n, k : Scored(s, n, k)' = Scored(s, n, k)
         /\ Seated => Seated'
<1>1. /\ req' = req /\ kind' = kind /\ edges' = edges /\ BaseKeys' = BaseKeys
      /\ HubThreshold' = HubThreshold /\ \A k : Degree(k)' = Degree(k)
      /\ \A q, n : PathScore(q, n)' = PathScore(q, n)
      /\ \A t, k : LexTier(t, k)' = LexTier(t, k)
      /\ \A t : LexMatches(t)' = LexMatches(t)
  BY WordsSame
<1>2. \A k : Through(k)' = Through(k)
  BY <1>1 DEF Through, ToSet
<1>3. \A n, k : SeedPaths(n, k)' = SeedPaths(n, k)
  BY <1>1, <1>2 DEF SeedPaths, ToSet
<1>4. \A k : PathScores(k)' = PathScores(k)
  BY <1>1, <1>3 DEF PathScores
<1>5. \A s, n, k : Scored(s, n, k)' = Scored(s, n, k)
  BY <1>1, <1>3 DEF Scored
<1>6. Seated => Seated'
  BY <1>1 DEF Seated, ToSet
<1> QED
  BY <1>2, <1>3, <1>4, <1>5, <1>6

\* The best node of a term is of its best tier.
LEMMA BestIs ==
  ASSUME req \in Queries, NEW i \in 1 .. Len(req.terms)
  PROVE  LET t == req.terms[i]
             contribution(k) == LexTier(t, k) * TermIdf(t)
             better(a, b) == contribution(a) > contribution(b) \/ (contribution(a) = contribution(b) /\ a < b)
             b == IF LexMatches(t) = {} THEN None
                  ELSE CHOOSE a \in LexMatches(t) : \A c \in LexMatches(t) \ {a} : better(a, c)
         IN  b \in Keys \cup {None} /\ IsBest(b, i)
<1> DEFINE t == req.terms[i]
           contribution(k) == LexTier(t, k) * TermIdf(t)
           better(a, b) == contribution(a) > contribution(b) \/ (contribution(a) = contribution(b) /\ a < b)
           M == LexMatches(t)
           R == {p \in M \X M : better(p[1], p[2])}
<1>1. t \in DOMAIN MatchOf
  BY QueryTypes
<1>2. M \subseteq Keys /\ M \subseteq Nat /\ IsFiniteSet(M)
  BY WalkConstants, KeysSubset DEF LexMatches
<1>3. TermIdf(t) \in Nat \ {0} /\ \A k \in M : LexTier(t, k) \in Nat
  BY <1>1, <1>2, TierTypes, IdfTypes
<1>4. \A k \in M : contribution(k) \in Nat
  BY <1>3
<1>5. CASE M = {}
  BY <1>5 DEF IsBest
<1>6. CASE M # {}
  <2>1. \A x, y \in M : <<x, y>> \in R <=> better(x, y)
    OBVIOUS
  <2>2. Orders(R, M)
    <3>1. \A x, y \in M : <<x, y>> \in R <=>
            contribution(x) > contribution(y) \/ (contribution(x) = contribution(y) /\ x < y)
      BY <2>1
    <3> HIDE DEF R, contribution, M
    <3> QED
      BY <1>2, <1>4, <3>1 DEF Orders
  <2>3. \E a \in M : \A c \in M \ {a} : <<a, c>> \in R
    <3> HIDE DEF R, M
    <3> QED
      BY <1>2, <1>6, <2>2, FirstExists
  <2>4. \E a \in M : \A c \in M \ {a} : better(a, c)
    BY <2>1, <2>3
  <2>5. PICK b : b = CHOOSE a \in M : \A c \in M \ {a} : better(a, c)
    OBVIOUS
  <2>6. b \in M /\ \A c \in M \ {b} : better(b, c)
    BY <2>4, <2>5
  <2>7. ASSUME NEW c \in M PROVE LexTier(t, b) >= LexTier(t, c)
    <3>1. contribution(b) >= contribution(c) /\ LexTier(t, b) \in Nat /\ LexTier(t, c) \in Nat
      <4>1. contribution(b) \in Nat /\ contribution(c) \in Nat /\ LexTier(t, b) \in Nat /\ LexTier(t, c) \in Nat
        BY <1>3, <1>4, <2>6
      <4>2. b = c \/ better(b, c)
        BY <2>6
      <4> HIDE DEF contribution
      <4> QED
        BY <4>1, <4>2
    <3>2. \A x, y \in Nat, z \in Nat \ {0} : x * z >= y * z => x >= y
      OBVIOUS
    <3> QED
      BY <1>3, <3>1, <3>2
  <2>8. IsBest(b, i)
    BY <1>6, <2>6, <2>7 DEF IsBest
  <2> QED
    BY <1>2, <1>6, <2>5, <2>6, <2>8
<1> QED
  BY <1>5, <1>6

\* The numbers of a score are naturals.
LEMMA ScoresTypes ==
  ASSUME ScoreInv, NEW k \in Keys
  PROVE  /\ scores[k].tiered = Sums(Given(k))[term - 1] /\ scores[k].tiered \in Nat
         /\ scores[k].matched = Cardinality(MatchedBy(term - 1, k)) /\ scores[k].matched \in Nat
         /\ IsFiniteSet(MatchedBy(term - 1, k)) /\ CoverageScore(scores[k]) \in Nat
<1>1. req \in Queries /\ term \in 1 .. Len(req.terms) + 1 /\ Len(req.terms) \in Nat
  BY QueryTypes DEF ScoreInv
<1>2. term - 1 \in 0 .. Len(req.terms) /\ term - 1 \in Int
  BY <1>1
<1>3. Sums(Given(k))[term - 1] \in Nat
  BY <1>1, <1>2, GivenTypes, SumsNat
<1>4. IsFiniteSet(MatchedBy(term - 1, k)) /\ Cardinality(MatchedBy(term - 1, k)) \in Nat
  <2>1. IsFiniteSet(1 .. term - 1) /\ MatchedBy(term - 1, k) \in SUBSET (1 .. term - 1)
    BY <1>2, FS_Interval DEF MatchedBy
  <2>2. IsFiniteSet(MatchedBy(term - 1, k))
    BY <2>1, FS_Subset
  <2> QED
    BY <2>2, FS_CardinalityType
<1>5. scores[k] = [tiered |-> Sums(Given(k))[term - 1], matched |-> Cardinality(MatchedBy(term - 1, k))]
  BY DEF ScoreInv
<1>6. scores[k].tiered \in Nat /\ scores[k].matched \in Nat
  BY <1>3, <1>4, <1>5
<1>7. \A x, y \in Nat : x * y * y \in Nat
  <2>1. \A x, y \in Nat : x * y \in Nat
    OBVIOUS
  <2> QED
    BY <2>1
<1>8. CoverageScore(scores[k]) \in Nat
  BY <1>6, <1>7 DEF CoverageScore
<1> QED
  BY <1>4, <1>5, <1>6, <1>8

\* One term is added to what the scratch holds.
LEMMA ScoreTermKeeps ==
  ASSUME ScoreInv, ScoreTerm
  PROVE  ScoreInv'
<1> DEFINE t == req.terms[term]
<1>1. UNCHANGED snapshot /\ req' = req /\ term' = term + 1
  BY DEF ScoreTerm, snapshot
<1>2. /\ \A k : Given(k)' = Given(k)
      /\ \A n, k : MatchedBy(n, k)' = MatchedBy(n, k)
      /\ \A b, i : IsBest(b, i)' = IsBest(b, i)
  BY <1>1, WordsSame
<1>3. req \in Queries /\ Len(req.terms) \in Nat /\ term \in 1 .. Len(req.terms)
  BY QueryTypes DEF ScoreInv, ScoreTerm
<1>4. term' \in 1 .. Len(req.terms) + 1 /\ term' - 1 = term /\ term - 1 \in Nat /\ term \in Nat
  BY <1>1, <1>3
<1>5. ASSUME NEW k \in Keys
      PROVE  MatchedBy(term, k) = IF k \in LexMatches(t) THEN MatchedBy(term - 1, k) \cup {term}
                                                         ELSE MatchedBy(term - 1, k)
  <2>1. \A i : i \in 1 .. term <=> i \in 1 .. term - 1 \/ i = term
    BY <1>4
  <2> QED
    BY <2>1 DEF MatchedBy, LexMatches
<1>6. ASSUME NEW k \in Keys
      PROVE  scores'[k] = [tiered |-> Sums(Given(k))[term], matched |-> Cardinality(MatchedBy(term, k))]
  <2>1. /\ scores[k].tiered = Sums(Given(k))[term - 1] /\ scores[k].tiered \in Nat
        /\ scores[k].matched = Cardinality(MatchedBy(term - 1, k))
        /\ IsFiniteSet(MatchedBy(term - 1, k))
    BY ScoresTypes
  <2>2. Sums(Given(k))[term] = Sums(Given(k))[term - 1] + Gives(term, k)
        /\ Gives(term, k) \in Nat /\ (Gives(term, k) > 0 <=> LexTier(t, k) > 0)
    BY <1>3, GivenTypes, SumsStep
  <2>3. CASE k \in LexMatches(t)
    <3>1. scores'[k] = [tiered |-> scores[k].tiered + Gives(term, k), matched |-> scores[k].matched + 1]
      BY <2>3 DEF ScoreTerm, Gives
    <3>2. term \notin MatchedBy(term - 1, k)
      BY <1>4 DEF MatchedBy
    <3>3. Cardinality(MatchedBy(term, k)) = Cardinality(MatchedBy(term - 1, k)) + 1
      BY <1>5, <2>1, <2>3, <3>2, FS_AddElement
    <3> QED
      BY <2>1, <2>2, <3>1, <3>3
  <2>4. CASE k \notin LexMatches(t)
    <3>1. scores'[k] = scores[k] /\ MatchedBy(term, k) = MatchedBy(term - 1, k)
      BY <1>5, <2>4 DEF ScoreTerm
    <3>2. Gives(term, k) = 0
      BY <2>2, <2>4 DEF LexMatches
    <3>3. scores[k] = [tiered |-> Sums(Given(k))[term - 1], matched |-> Cardinality(MatchedBy(term - 1, k))]
      BY DEF ScoreInv
    <3> QED
      BY <2>1, <2>2, <3>1, <3>2, <3>3
  <2> QED
    BY <2>3, <2>4
<1>7. scores' = [k \in Keys |-> [tiered |-> Sums(Given(k))[term], matched |-> Cardinality(MatchedBy(term, k))]]
  <2>1. scores' = [k \in Keys |-> scores'[k]]
    BY DEF ScoreTerm
  <2> QED
    BY <1>6, <2>1
<1>8. scored' = {k \in Keys : MatchedBy(term, k) # {}}
  <2>1. scored' = scored \cup LexMatches(t) /\ LexMatches(t) \subseteq Keys
    BY DEF ScoreTerm, LexMatches
  <2> QED
    BY <1>5, <2>1 DEF ScoreInv
<1>9. PICK b \in Keys \cup {None} : IsBest(b, term) /\ best' = Append(best, b)
  BY <1>3, BestIs DEF ScoreTerm
<1>10. /\ best' \in Seq(Keys \cup {None}) /\ Len(best') = term
       /\ \A i \in 1 .. term - 1 : best'[i] = best[i]
       /\ best'[term] = b
  BY <1>4, <1>9 DEF ScoreInv
<1>11. ASSUME NEW i \in 1 .. term PROVE IsBest(best'[i], i)
  <2>1. CASE i = term
    BY <1>9, <1>10, <2>1
  <2>2. CASE i # term
    <3>1. i \in 1 .. term - 1
      BY <1>4, <2>2
    <3> QED
      BY <1>10, <3>1 DEF ScoreInv
  <2> QED
    BY <2>1, <2>2
<1> QED
  BY <1>1, <1>2, <1>3, <1>4, <1>7, <1>8, <1>10, <1>11 DEF ScoreInv

\* The leaders are scored.
LEMMA BetterOrders ==
  ASSUME ScoreInv, NEW S, S \subseteq scored
  PROVE  IsFiniteSet(S) /\ Orders(Better, S)
<1>1. scored \subseteq Keys /\ S \subseteq Keys /\ \A k \in S : k \in Nat /\ CoverageScore(scores[k]) \in Nat
  BY ScoresTypes, WalkConstants DEF ScoreInv
<1>2. IsFiniteSet(S)
  BY <1>1, KeysSubset
<1>3. \A x, y \in S : <<x, y>> \in Better <=>
        \/ CoverageScore(scores[x]) > CoverageScore(scores[y])
        \/ CoverageScore(scores[x]) = CoverageScore(scores[y]) /\ x < y
  BY DEF Better
<1> QED
  BY <1>1, <1>2, <1>3 DEF Orders

LEMMA LeadersIs ==
  ASSUME ScoreInv
  PROVE  ToSet(Leaders) \subseteq scored
<1> DEFINE s == InOrder(scored, Better)
           n == Cardinality(scored)
           m == Min({req.maxSeeds, n})
<1>1. IsFiniteSet(scored) /\ Orders(Better, scored)
  BY BetterOrders
<1>2. n \in Nat /\ s \in Seq(scored) /\ Len(s) = n
  BY <1>1, InOrderIs, FS_CardinalityType
<1>3. req.maxSeeds \in Nat
  BY QueryTypes DEF ScoreInv
<1>4. m \in Nat /\ m <= n
  <2> HIDE DEF n
  <2> QED
    BY <1>2, <1>3, MinOfTwo
<1> HIDE DEF s, m, n
<1>5. ASSUME NEW x \in ToSet(SubSeq(s, 1, m)) PROVE x \in scored
  <2>1. PICK i \in 1 .. m : x = s[i]
    BY <1>2, <1>4 DEF ToSet
  <2>2. i \in 1 .. Len(s)
    BY <1>2, <1>4
  <2> QED
    BY <1>2, <2>1, <2>2
<1> QED
  BY <1>5 DEF Leaders, s, m, n

\* The seeds are scored, and with room for one each they include the best.
LEMMA ChosenIs ==
  ASSUME ScoreInv, term > Len(req.terms)
  PROVE  /\ Chosen \in Seq(scored)
         /\ Len(req.terms) <= req.maxSeeds =>
              \A i \in 1 .. Len(req.terms) : best[i] # None => best[i] \in ToSet(Chosen)
<1> DEFINE bests == ToSet(best) \ {None}
           R == {p \in bests \X bests : p[1] < p[2]}
           each == InOrder(bests, R)
           others == InOrder(ToSet(Leaders) \ bests, Better)
           all == each \o others
           m == Min({req.maxSeeds, Len(all)})
<1>1. /\ req \in Queries /\ Len(req.terms) \in Nat /\ req.maxSeeds \in Nat
      /\ best \in Seq(Keys \cup {None}) /\ Len(best) = Len(req.terms) /\ term - 1 = Len(req.terms)
      /\ DOMAIN best = 1 .. Len(req.terms)
  BY QueryTypes DEF ScoreInv
<1>2. ASSUME NEW i \in 1 .. Len(req.terms), best[i] # None PROVE best[i] \in scored
  <2>1. IsBest(best[i], i)
    BY <1>1 DEF ScoreInv
  <2>2. best[i] \in LexMatches(req.terms[i])
    BY <1>2, <2>1 DEF IsBest
  <2>3. best[i] \in Keys /\ i \in MatchedBy(term - 1, best[i])
    BY <1>1, <2>2 DEF LexMatches, MatchedBy
  <2> QED
    BY <2>3 DEF ScoreInv
<1>3. bests \subseteq scored /\ scored \subseteq Keys
  BY <1>1, <1>2 DEF ToSet, ScoreInv
<1>4. IsFiniteSet(bests) /\ Orders(R, bests)
  <2>1. bests \subseteq Nat /\ bests \subseteq Keys
    BY <1>3, WalkConstants
  <2>2. \A x, y \in bests : <<x, y>> \in R <=> x < y
    OBVIOUS
  <2> HIDE DEF bests, R
  <2> QED
    <3>1. IsFiniteSet(bests)
      BY <2>1, KeysSubset
    <3>2. Orders(R, bests)
      BY <2>1, <2>2 DEF Orders
    <3> QED
      BY <3>1, <3>2
<1>5. each \in Seq(bests) /\ Len(each) = Cardinality(bests) /\ ToSet(each) = bests
  <2> HIDE DEF bests, R
  <2> QED
    BY <1>4, InOrderIs
<1>6. others \in Seq(scored)
  <2> DEFINE S == ToSet(Leaders) \ bests
  <2>1. S \subseteq scored
    BY LeadersIs
  <2>2. InOrder(S, Better) \in Seq(S)
    <3> HIDE DEF S
    <3> QED
      BY <2>1, BetterOrders, InOrderIs
  <2> QED
    BY <2>1, <2>2
<1> HIDE DEF each, others, R
<1>7. each \in Seq(scored)
  BY <1>3, <1>5
<1>8. /\ all \in Seq(scored) /\ Len(all) = Len(each) + Len(others) /\ Len(each) \in Nat /\ Len(all) \in Nat
      /\ Len(each) <= Len(all)
      /\ \A i \in 1 .. Len(each) : all[i] = each[i]
  BY <1>6, <1>7
<1> HIDE DEF all
<1>9. m \in Nat /\ m <= Len(all) /\ m = IF req.maxSeeds <= Len(all) THEN req.maxSeeds ELSE Len(all)
  <2>1. PICK a \in Nat : a = Len(all)
    BY <1>8
  <2>2. PICK b \in Nat : b = req.maxSeeds
    BY <1>1
  <2>3. Min({b, a}) = IF b <= a THEN b ELSE a
    BY MinOfTwo
  <2> QED
    BY <2>1, <2>2, <2>3
<1> HIDE DEF m
<1>10. Chosen = SubSeq(all, 1, m)
  BY DEF Chosen, each, others, all, m, R
<1>11. /\ Chosen \in Seq(scored) /\ Len(Chosen) = m /\ \A i \in 1 .. m : Chosen[i] = all[i]
  BY <1>8, <1>9, <1>10
<1>12. ASSUME Len(req.terms) <= req.maxSeeds, NEW i \in 1 .. Len(req.terms), best[i] # None
       PROVE  best[i] \in ToSet(Chosen)
  <2>1. Cardinality(bests) <= Len(req.terms)
    <3> DEFINE B == ToSet(best)
               f == [x \in 1 .. Len(req.terms) |-> best[x]]
    <3>1. f \in Surjection(1 .. Len(req.terms), B)
      BY <1>1 DEF Surjection, ToSet
    <3>2. IsFiniteSet(1 .. Len(req.terms)) /\ Cardinality(1 .. Len(req.terms)) = Len(req.terms)
      BY <1>1, FS_Interval
    <3>3. IsFiniteSet(B) /\ Cardinality(B) <= Len(req.terms)
      <4> HIDE DEF f, B
      <4> QED
        BY <3>1, <3>2, FS_Surjection
    <3>4. bests \in SUBSET B
      OBVIOUS
    <3>5. Cardinality(bests) <= Cardinality(B) /\ Cardinality(bests) \in Nat /\ Cardinality(B) \in Nat
      BY <1>4, <3>3, <3>4, FS_Subset, FS_CardinalityType
    <3> QED
      BY <1>1, <3>3, <3>5
  <2>2. Len(each) <= m
    BY <1>1, <1>5, <1>8, <1>9, <1>12, <2>1
  <2>3. best[i] \in bests
    BY <1>1, <1>12 DEF ToSet
  <2>4. PICK j \in 1 .. Len(each) : each[j] = best[i]
    <3>1. DOMAIN each = 1 .. Len(each)
      BY <1>7
    <3> HIDE DEF bests
    <3> QED
      BY <1>5, <2>3, <3>1 DEF ToSet
  <2>5. j \in 1 .. m
    BY <1>8, <1>9, <2>2, <2>4
  <2>6. Chosen[j] = best[i] /\ j \in DOMAIN Chosen
    BY <1>8, <1>11, <2>4, <2>5
  <2> QED
    BY <2>6 DEF ToSet
<1> QED
  BY <1>11, <1>12

\* The factors of a hop are positive, and a scale is a whole number of hops.
LEMMA HopNumbers ==
  /\ PerHop \in Nat \ {0}
  /\ \A c \in Classes : Factor(c) \in Nat \ {0}
<1>1. WeightMax \in Nat \ {0} /\ InferredDen \in Nat \ {0} /\ InferredNum \in Nat \ {0}
      /\ \A c \in Classes : c.weight \in Nat
  BY QueryConstants
<1>2. \A x, y \in Nat \ {0} : x * y \in Nat \ {0}
  OBVIOUS
<1>3. PerHop \in Nat \ {0}
  BY <1>1, <1>2 DEF PerHop
<1>4. ASSUME NEW c \in Classes PROVE Max({c.weight, 1}) \in Nat \ {0}
  <2>1. CASE c.weight = 0
    <3>1. Max({0, 1}) = 1
      BY MaxOnly
    <3> QED
      BY <2>1, <3>1
  <2>2. CASE c.weight # 0
    <3>1. PICK w \in Nat \ {0} : w = c.weight
      BY <1>1, <2>2
    <3>2. Max({w, 1}) = w
      <4>1. {w, 1} \subseteq Nat /\ w \in {w, 1} /\ \A y \in {w, 1} : y <= w
        OBVIOUS
      <4> QED
        BY <4>1, MaxOnly
    <3> QED
      BY <3>1, <3>2
  <2> QED
    BY <2>1, <2>2
<1>5. \A c \in Classes : Factor(c) \in Nat \ {0}
  BY <1>1, <1>2, <1>4 DEF Factor
<1> QED
  BY <1>3, <1>5

LEMMA ScaleStep ==
  ASSUME NEW n \in Nat
  PROVE  Scale[0] = 1 /\ Scale[n + 1] = PerHop * Scale[n]
<1>1. Scale = [j \in Nat |-> IF j = 0 THEN 1 ELSE PerHop * Scale[j - 1]]
  BY DEF Scale
<1> QED
  BY <1>1

LEMMA ScaleNat ==
  ASSUME NEW n \in Nat
  PROVE  Scale[n] \in Nat \ {0}
<1> DEFINE T == {m \in Nat : Scale[m] \notin Nat \ {0}}
<1>1. CASE T = {}
  BY <1>1
<1>2. CASE T # {}
  <2>1. PICK m \in T : m \in Nat /\ (m # 0 => m - 1 \in Nat /\ m - 1 \notin T)
    <3>1. T \subseteq Nat
      OBVIOUS
    <3> HIDE DEF T
    <3> QED
      BY <1>2, <3>1, LeastOne
  <2>2. m # 0
    BY <2>1, ScaleStep
  <2>3. m - 1 \in Nat /\ Scale[m - 1] \in Nat \ {0} /\ m = (m - 1) + 1
    BY <2>1, <2>2
  <2>4. Scale[m] = PerHop * Scale[m - 1]
    BY <2>3, ScaleStep
  <2>5. \A x, y \in Nat \ {0} : x * y \in Nat \ {0}
    OBVIOUS
  <2> QED
    BY <2>1, <2>3, <2>4, <2>5, HopNumbers
<1> QED
  BY <1>1, <1>2

\* The factors of the edges of a path.
Factors(q, n) == [i \in 1 .. n |-> Factor(edges[<<q[i - 1], q[i]>>])]

LEMMA FactorsTypes ==
  ASSUME SnapInv, NEW n \in Nat, NEW k, NEW q \in SeedPaths(n, k)
  PROVE  Factors(q, n) \in Seq(Nat \ {0}) /\ Factors(q, n) \in Seq(Nat) /\ Len(Factors(q, n)) = n
<1>1. \A i \in 1 .. n : Factor(edges[<<q[i - 1], q[i]>>]) \in Nat \ {0}
  BY HopNumbers DEF SeedPaths, SnapInv
<1>2. Factors(q, n) \in [1 .. n -> Nat \ {0}] /\ Factors(q, n) \in [1 .. n -> Nat]
  BY <1>1 DEF Factors
<1> QED
  BY <1>2

\* What a path scores is a positive number.
LEMMA PathScoreNat ==
  ASSUME SnapInv, SeedInv, NEW n \in 0 .. req.depth, NEW k, NEW q \in SeedPaths(n, k)
  PROVE  PathScore(q, n) \in Nat \ {0}
<1>1. req.depth \in Nat /\ n \in Nat /\ req.depth - n \in Nat
  BY QueryTypes DEF SeedInv
<1>2. WordScore(q[0]) \in Nat \ {0}
  BY DEF SeedPaths, SeedInv
<1>3. Scale[req.depth - n] \in Nat \ {0}
  BY <1>1, ScaleNat
<1>4. Products(Factors(q, n))[n] \in Nat \ {0}
  <2>1. n \in 0 .. Len(Factors(q, n))
    BY <1>1, FactorsTypes
  <2> QED
    BY <1>1, <2>1, FactorsTypes, ProductsNat
<1>5. \A x, y, z \in Nat \ {0} : x * y * z \in Nat \ {0}
  <2>1. \A x, y \in Nat \ {0} : x * y \in Nat \ {0}
    OBVIOUS
  <2> QED
    BY <2>1
<1> QED
  BY <1>2, <1>3, <1>4, <1>5 DEF PathScore, Factors

\* The path of no edges scores what the words of its node do.
LEMMA ZeroScore ==
  ASSUME req \in Queries, NEW k, WordScore(k) \in Nat \ {0}, NEW q \in [0 .. 0 -> {k}]
  PROVE  PathScore(q, 0) = WordScore(k) * Scale[req.depth] /\ PathScore(q, 0) \in Nat \ {0}
<1>1. Factors(q, 0) \in Seq(Nat) /\ Products(Factors(q, 0))[0] = 1 /\ q[0] = k
  <2>1. Factors(q, 0) \in [1 .. 0 -> Nat]
    BY DEF Factors
  <2>2. Factors(q, 0) \in Seq(Nat)
    BY <2>1
  <2> QED
    BY <2>2, ProductsStep
<1>2. req.depth \in Nat /\ req.depth - 0 = req.depth /\ Scale[req.depth] \in Nat \ {0}
  BY QueryTypes, ScaleNat
<1>3. \A x, y \in Nat \ {0} : x * y * 1 = x * y /\ x * y \in Nat \ {0}
  OBVIOUS
<1> QED
  BY <1>1, <1>2, <1>3 DEF PathScore, Factors

\* Two paths that agree up to n have the same factors up to n.
LEMMA ScoreOver ==
  ASSUME SnapInv, SeedInv, NEW n \in Nat, n + 1 <= req.depth, NEW u, NEW v,
         NEW p \in SeedPaths(n, u), NEW q \in SeedPaths(n + 1, v), \A i \in 0 .. n : q[i] = p[i]
  PROVE  PathScore(q, n + 1) = Carried(PathScore(p, n), u, v)
<1> DEFINE f == Factors(p, n)
           g == Factors(q, n + 1)
           F == Factor(edges[<<u, v>>])
           A == Products(f)[n]
           S == Scale[req.depth - (n + 1)]
           W == WordScore(p[0])
<1>1. req.depth \in Nat /\ req.depth - (n + 1) \in Nat /\ req.depth - n = (req.depth - (n + 1)) + 1
      /\ n + 1 - 1 = n /\ n + 1 \in 1 .. n + 1
  BY QueryTypes DEF SeedInv
<1>2. p[n] = u /\ q[n + 1] = v /\ q[n] = u /\ q[0] = p[0] /\ <<u, v>> \in DOMAIN edges
  <2>1. p[n] = u /\ q[n + 1] = v /\ n \in 0 .. n /\ 0 \in 0 .. n /\ <<q[n + 1 - 1], q[n + 1]>> \in DOMAIN edges
    BY <1>1 DEF SeedPaths
  <2> QED
    BY <1>1, <2>1
<1>3. /\ f \in Seq(Nat) /\ g \in Seq(Nat) /\ Len(f) = n /\ Len(g) = n + 1 /\ f \in Seq(Nat \ {0})
  BY FactorsTypes
<1>4. \A i \in 1 .. n : f[i] = g[i]
  BY DEF Factors
<1>5. g[n + 1] = F
  BY <1>1, <1>2 DEF Factors
<1>6. Products(g)[n] = A
  <2>1. n <= Len(f) /\ n <= Len(g)
    BY <1>3
  <2> HIDE DEF f, g
  <2> QED
    BY <1>3, <1>4, <2>1, ProductsPrefix
<1>7. Products(g)[n + 1] = A * F
  <2>1. Products(g)[n + 1] = Products(g)[n + 1 - 1] * g[n + 1]
    <3> HIDE DEF g
    <3> QED
      BY <1>1, <1>3, ProductsStep
  <2> QED
    BY <1>1, <1>5, <1>6, <2>1
<1>8. A \in Nat \ {0} /\ S \in Nat \ {0} /\ W \in Nat \ {0} /\ F \in Nat \ {0}
  <2>1. A \in Nat \ {0}
    <3>1. n \in 0 .. Len(f)
      BY <1>3
    <3> HIDE DEF f
    <3> QED
      BY <1>3, <3>1, ProductsNat
  <2>2. W \in Nat \ {0}
    BY DEF SeedPaths, SeedInv
  <2>3. F \in Nat \ {0}
    BY <1>2, HopNumbers DEF SnapInv
  <2> QED
    BY <1>1, <2>1, <2>2, <2>3, ScaleNat
<1>9. Scale[req.depth - n] = PerHop * S
  BY <1>1, ScaleStep
<1>10. PathScore(p, n) = W * (PerHop * S) * A /\ PathScore(q, n + 1) = W * S * (A * F)
  BY <1>2, <1>7, <1>9 DEF PathScore, Factors
<1>11. \A w, s, a, x, h \in Nat \ {0} : ((w * (h * s) * a) * x) \div h = w * s * (a * x)
  <2>1. SUFFICES ASSUME NEW w \in Nat \ {0}, NEW s \in Nat \ {0}, NEW a \in Nat \ {0},
                        NEW x \in Nat \ {0}, NEW h \in Nat \ {0}
                 PROVE  ((w * (h * s) * a) * x) \div h = w * s * (a * x)
    OBVIOUS
  <2>2. PICK y \in Nat : y = w * s * (a * x)
    <3>1. \A c, d \in Nat : c * d \in Nat
      OBVIOUS
    <3> QED
      BY <3>1
  <2>3. (w * (h * s) * a) * x = y * h
    BY <2>2
  <2>4. (y * h) \div h = y
    OBVIOUS
  <2> QED
    BY <2>2, <2>3, <2>4
<1>12. PerHop \in Nat \ {0}
  BY HopNumbers
<1> HIDE DEF A, S, W, F
<1> QED
  BY <1>8, <1>10, <1>11, <1>12 DEF Carried, F

\* A path goes on over an edge that leaves its end, if that may be gone through.
LEMMA SeedExtend ==
  ASSUME SnapInv, SeedInv, NEW n \in Nat, n + 1 <= req.depth, NEW u, NEW v \in BaseKeys,
         NEW p \in SeedPaths(n, u), Through(u), <<u, v>> \in DOMAIN edges
  PROVE  \E q \in SeedPaths(n + 1, v) : PathScore(q, n + 1) = Carried(PathScore(p, n), u, v)
<1> DEFINE q == [i \in 0 .. n + 1 |-> IF i = n + 1 THEN v ELSE p[i]]
<1>1. p \in [0 .. n -> BaseKeys] /\ p[0] \in ToSet(seeds) /\ p[n] = u
  BY DEF SeedPaths
<1>2. \A i \in 0 .. n : q[i] = p[i]
  OBVIOUS
<1>3. q \in [0 .. n + 1 -> BaseKeys] /\ q[0] \in ToSet(seeds) /\ q[n] = u /\ q[n + 1] = v
  BY <1>1
<1>4. ASSUME NEW i \in 1 .. n + 1 - 1 PROVE Through(q[i])
  <2>1. CASE i = n
    BY <1>3, <2>1
  <2>2. CASE i # n
    <3>1. i \in 1 .. n - 1 /\ i \in 0 .. n
      BY <2>2
    <3> QED
      BY <1>2, <3>1 DEF SeedPaths
  <2> QED
    BY <2>1, <2>2
<1>5. ASSUME NEW i \in 1 .. n + 1 PROVE <<q[i - 1], q[i]>> \in DOMAIN edges
  <2>1. CASE i = n + 1
    <3>1. i - 1 = n
      BY <2>1
    <3> QED
      BY <1>3, <2>1, <3>1
  <2>2. CASE i # n + 1
    <3>1. i \in 1 .. n /\ i \in 0 .. n /\ i - 1 \in 0 .. n
      BY <2>2
    <3>2. <<p[i - 1], p[i]>> \in DOMAIN edges
      BY <3>1 DEF SeedPaths
    <3> QED
      BY <1>2, <3>1, <3>2
  <2> QED
    BY <2>1, <2>2
<1> HIDE DEF q
<1>6. q \in SeedPaths(n + 1, v)
  BY <1>3, <1>4, <1>5 DEF SeedPaths
<1>7. PathScore(q, n + 1) = Carried(PathScore(p, n), u, v)
  BY <1>2, <1>6, ScoreOver
<1> QED
  BY <1>6, <1>7

\* Before its last edge a path is a path, to a node that may be gone through.
LEMMA SeedPrefix ==
  ASSUME SnapInv, SeedInv, NEW n \in Nat \ {0}, n <= req.depth, NEW v, NEW q \in SeedPaths(n, v)
  PROVE  \E u \in BaseKeys : \E p \in SeedPaths(n - 1, u) :
           /\ v \in BaseKeys /\ Through(u) /\ <<u, v>> \in DOMAIN edges
           /\ PathScore(q, n) = Carried(PathScore(p, n - 1), u, v)
<1> DEFINE p == [i \in 0 .. n - 1 |-> q[i]]
           u == q[n - 1]
<1>1. q \in [0 .. n -> BaseKeys] /\ q[0] \in ToSet(seeds) /\ q[n] = v
  BY DEF SeedPaths
<1>2. n - 1 \in Nat /\ n - 1 \in 0 .. n /\ n \in 1 .. n /\ n \in 0 .. n /\ n - 1 + 1 = n
  OBVIOUS
<1>3. <<u, v>> \in DOMAIN edges /\ u \in BaseKeys /\ v \in BaseKeys
  BY <1>1, <1>2 DEF SeedPaths
<1>4. Through(u)
  <2>1. CASE n = 1
    BY <1>1, <2>1 DEF Through
  <2>2. CASE n # 1
    <3>1. n - 1 \in 1 .. n - 1
      BY <2>2
    <3> QED
      BY <3>1 DEF SeedPaths
  <2> QED
    BY <2>1, <2>2
<1>5. \A i \in 0 .. n - 1 : q[i] = p[i] /\ i \in 0 .. n
  OBVIOUS
<1>6. p \in SeedPaths(n - 1, u)
  <2>1. p \in [0 .. n - 1 -> BaseKeys] /\ p[0] \in ToSet(seeds) /\ p[n - 1] = u
    BY <1>1, <1>2
  <2>2. ASSUME NEW i \in 1 .. n - 1 - 1 PROVE Through(p[i])
    <3>1. i \in 1 .. n - 1 /\ i \in 0 .. n - 1
      OBVIOUS
    <3> QED
      BY <1>5, <3>1 DEF SeedPaths
  <2>3. ASSUME NEW i \in 1 .. n - 1 PROVE <<p[i - 1], p[i]>> \in DOMAIN edges
    <3>1. i \in 1 .. n /\ i \in 0 .. n - 1 /\ i - 1 \in 0 .. n - 1
      OBVIOUS
    <3>2. <<q[i - 1], q[i]>> \in DOMAIN edges
      BY <3>1 DEF SeedPaths
    <3> QED
      BY <1>5, <3>1, <3>2
  <2> HIDE DEF p, u
  <2> QED
    BY <2>1, <2>2, <2>3 DEF SeedPaths
<1> HIDE DEF p, u
<1>7. PathScore(q, n) = Carried(PathScore(p, n - 1), u, v)
  <2>1. n - 1 + 1 <= req.depth /\ q \in SeedPaths(n - 1 + 1, v)
    BY <1>2
  <2>2. PathScore(q, n - 1 + 1) = Carried(PathScore(p, n - 1), u, v)
    BY <1>2, <1>5, <1>6, <2>1, ScoreOver
  <2> QED
    BY <1>2, <2>2
<1> QED
  BY <1>3, <1>4, <1>6, <1>7

\* A better score is carried to a score as good.
LEMMA CarriedMonotone ==
  ASSUME SnapInv, NEW u, NEW v, <<u, v>> \in DOMAIN edges, NEW a \in Nat, NEW b \in Nat, a <= b
  PROVE  Carried(a, u, v) \in Nat /\ Carried(b, u, v) \in Nat /\ Carried(a, u, v) <= Carried(b, u, v)
<1>1. PICK x \in Nat \ {0} : x = Factor(edges[<<u, v>>])
  BY HopNumbers DEF SnapInv
<1>2. PICK h \in Nat \ {0} : h = PerHop
  BY HopNumbers
<1>3. \A c \in Nat : (c * x) \div h \in Nat
  <2>1. \A c \in Nat : c * x \in Nat
    OBVIOUS
  <2> QED
    BY <2>1
<1>4. (a * x) \div h <= (b * x) \div h
  OBVIOUS
<1> QED
  BY <1>1, <1>2, <1>3, <1>4 DEF Carried

\* Fresh documents are not of the base, and their scores are numbers.
LEMMA FreshIs ==
  ASSUME req \in Queries
  PROVE  /\ DOMAIN FreshScores \subseteq Keys \ BaseKeys
         /\ \A k \in DOMAIN FreshScores : FreshScores[k] \in Nat
<1> DEFINE matched(k) == {i \in DOMAIN req.terms : FreshTier(req.terms[i], k) > 0}
           hits == {k \in Keys : kind[k] = "fresh" /\ matched(k) # {}}
           tiers(k) == [i \in DOMAIN req.terms |-> FreshTier(req.terms[i], k) * Idf[0]]
<1>1. FreshScores = [k \in hits |-> CoverageScore(
         [tiered |-> Sums(tiers(k))[Len(req.terms)], matched |-> Cardinality(matched(k))])]
  BY DEF FreshScores
<1>2. /\ req.terms \in Seq(DOMAIN MatchOf) /\ Len(req.terms) \in Nat
      /\ DOMAIN req.terms = 1 .. Len(req.terms)
  BY QueryTypes
<1>3. ASSUME NEW k \in hits PROVE Sums(tiers(k))[Len(req.terms)] \in Nat
  <2>1. ASSUME NEW i \in 1 .. Len(req.terms) PROVE FreshTier(req.terms[i], k) * Idf[0] \in Nat
    <3>1. req.terms[i] \in DOMAIN MatchOf
      BY <1>2
    <3>2. FreshTier(req.terms[i], k) \in Nat /\ Idf[0] \in Nat
      BY <3>1, TierTypes, IdfTypes
    <3>3. \A x, y \in Nat : x * y \in Nat
      OBVIOUS
    <3> QED
      BY <3>2, <3>3
  <2>2. tiers(k) \in [1 .. Len(req.terms) -> Nat]
    BY <1>2, <2>1
  <2>3. tiers(k) \in Seq(Nat) /\ Len(tiers(k)) = Len(req.terms) /\ Len(req.terms) \in 0 .. Len(req.terms)
    BY <1>2, <2>2
  <2> HIDE DEF tiers
  <2> QED
    BY <2>3, SumsNat
<1>4. ASSUME NEW k \in hits PROVE Cardinality(matched(k)) \in Nat
  <2>1. matched(k) \in SUBSET (1 .. Len(req.terms))
    BY <1>2
  <2> HIDE DEF matched
  <2>2. IsFiniteSet(1 .. Len(req.terms))
    BY <1>2, FS_Interval
  <2> QED
    BY <2>1, <2>2, FS_Subset, FS_CardinalityType
<1>5. \A x, y \in Nat : x * y * y \in Nat
  <2>1. \A x, y \in Nat : x * y \in Nat
    OBVIOUS
  <2> QED
    BY <2>1
<1>6. hits \subseteq Keys \ BaseKeys
  BY DEF BaseKeys
<1> HIDE DEF hits, tiers, matched
<1>7. ASSUME NEW k \in hits PROVE FreshScores[k] \in Nat
  BY <1>1, <1>3, <1>4, <1>5 DEF CoverageScore
<1> QED
  BY <1>1, <1>6, <1>7

\* The seeds are chosen: every one scores what its words do.
LEMMA SeedsChosen ==
  ASSUME ScoreInv, SelectSeeds
  PROVE  /\ SeedInv' /\ Chosen \in Seq(BaseKeys) /\ ToSet(Chosen) \subseteq BaseKeys
         /\ \A k \in ToSet(Chosen) : /\ WordScore(k) = CoverageScore(scores[k])
                                     /\ WordScore(k) * Scale[req.depth] \in Nat \ {0}
         /\ \A k, q : q \in SeedPaths(0, k)' <=> k \in ToSet(Chosen) /\ q \in [0 .. 0 -> {k}]
         /\ \A k \in ToSet(Chosen) : \A q \in [0 .. 0 -> {k}] :
              PathScore(q, 0)' = WordScore(k) * Scale[req.depth]
<1>1. UNCHANGED snapshot /\ seeds' = Chosen /\ fresh' = FreshScores /\ term > Len(req.terms)
  BY DEF SelectSeeds
<1>2. /\ req' = req /\ BaseKeys' = BaseKeys
      /\ \A t, k : LexTier(t, k)' = LexTier(t, k)
      /\ \A t : LexMatches(t)' = LexMatches(t)
      /\ \A k : WordScore(k)' = WordScore(k)
      /\ \A q, n : PathScore(q, n)' = PathScore(q, n)
  BY <1>1, WordsSame
<1>3. /\ req \in Queries /\ Len(req.terms) \in Nat /\ term - 1 = Len(req.terms)
      /\ DOMAIN req.terms = 1 .. Len(req.terms)
  BY <1>1, QueryTypes DEF ScoreInv
<1>4. scored \subseteq BaseKeys /\ scored \subseteq Keys
  BY DEF ScoreInv, MatchedBy, LexTier, BaseKeys
<1>5. /\ Chosen \in Seq(scored)
      /\ Len(req.terms) <= req.maxSeeds =>
           \A i \in 1 .. Len(req.terms) : best[i] # None => best[i] \in ToSet(Chosen)
  BY <1>1, ChosenIs
<1>6. Chosen \in Seq(BaseKeys) /\ ToSet(Chosen) \subseteq scored
  BY <1>4, <1>5 DEF ToSet
<1>7. ASSUME NEW k \in scored
      PROVE  /\ WordScore(k) = CoverageScore(scores[k]) /\ WordScore(k) \in Nat \ {0}
             /\ WordScore(k) * Scale[req.depth] \in Nat \ {0}
  <2>1. k \in Keys /\ MatchedBy(Len(req.terms), k) # {}
    BY <1>3, <1>4 DEF ScoreInv
  <2>2. scores[k] = [tiered |-> Sums(Given(k))[Len(req.terms)], matched |-> Cardinality(MatchedBy(Len(req.terms), k))]
    BY <1>3, <2>1 DEF ScoreInv
  <2>3. WordScore(k) = CoverageScore(scores[k]) /\ WordScore(k) \in Nat \ {0}
    BY <1>3, <2>1, <2>2, WordScoreIs
  <2>4. Scale[req.depth] \in Nat \ {0}
    BY <1>3, QueryTypes, ScaleNat
  <2>5. \A x, y \in Nat \ {0} : x * y \in Nat \ {0}
    OBVIOUS
  <2> QED
    BY <2>3, <2>4, <2>5
<1>8. Seated'
  <2>1. ASSUME Len(req.terms) <= req.maxSeeds, NEW i \in 1 .. Len(req.terms), LexMatches(req.terms[i]) # {}
        PROVE  \E k \in ToSet(Chosen) : \A m \in LexMatches(req.terms[i]) :
                 LexTier(req.terms[i], k) >= LexTier(req.terms[i], m)
    <3>1. IsBest(best[i], i)
      BY <1>3 DEF ScoreInv
    <3>2. best[i] \in LexMatches(req.terms[i]) /\ \A m \in LexMatches(req.terms[i]) :
            LexTier(req.terms[i], best[i]) >= LexTier(req.terms[i], m)
      BY <2>1, <3>1 DEF IsBest
    <3>3. best[i] # None
      BY <3>2, QueryConstants DEF LexMatches
    <3> QED
      BY <1>5, <2>1, <3>2, <3>3
  <2>2. ToSet(seeds)' = ToSet(Chosen)
    BY <1>1 DEF ToSet
  <2> QED
    BY <1>2, <1>3, <2>1, <2>2 DEF Seated
<1>9. SeedInv'
  <2>1. ToSet(seeds)' = ToSet(Chosen)
    BY <1>1 DEF ToSet
  <2>2. DOMAIN fresh' \subseteq Keys \ BaseKeys /\ \A k \in DOMAIN fresh' : fresh'[k] \in Nat
    BY <1>1, <1>3, FreshIs
  <2> QED
    BY <1>2, <1>3, <1>4, <1>6, <1>7, <1>8, <2>1, <2>2 DEF SeedInv
<1>10. \A k, q : q \in SeedPaths(0, k)' <=> k \in ToSet(Chosen) /\ q \in [0 .. 0 -> {k}]
  <2>1. ToSet(seeds)' = ToSet(Chosen)
    BY <1>1 DEF ToSet
  <2>2. ASSUME NEW k, NEW q, q \in SeedPaths(0, k)' PROVE k \in ToSet(Chosen) /\ q \in [0 .. 0 -> {k}]
    BY <1>2, <2>1, <2>2 DEF SeedPaths
  <2>3. ASSUME NEW k, NEW q, k \in ToSet(Chosen), q \in [0 .. 0 -> {k}] PROVE q \in SeedPaths(0, k)'
    BY <1>2, <1>4, <1>6, <2>1, <2>3 DEF SeedPaths
  <2> QED
    BY <2>2, <2>3
<1>11. ASSUME NEW k \in ToSet(Chosen), NEW q \in [0 .. 0 -> {k}]
       PROVE  PathScore(q, 0)' = WordScore(k) * Scale[req.depth]
  BY <1>2, <1>3, <1>6, <1>7, ZeroScore
<1> QED
  BY <1>4, <1>6, <1>7, <1>9, <1>10, <1>11

\* The search starts with the paths of no edges.
LEMMA SelectSeedsKeeps ==
  ASSUME ScoreInv, SelectSeeds
  PROVE  /\ SeedInv' /\ DOMAIN arrival' \subseteq BaseKeys'
         /\ scores' = [k \in Keys |-> NoScore]
         /\ IF req.depth = 0 THEN Settled' ELSE ExpandInv'
<1> DEFINE C == ToSet(Chosen)
           sc(k) == WordScore(k) * Scale[req.depth]
<1>1. UNCHANGED snapshot /\ seeds' = Chosen /\ qNext' = <<>> /\ hop' = 1 /\ scores' = Cleared(scored)
  BY DEF SelectSeeds
<1>2. req' = req /\ BaseKeys' = BaseKeys /\ edges' = edges
  BY <1>1, WordsSame
<1>3. /\ SeedInv' /\ Chosen \in Seq(BaseKeys) /\ C \subseteq BaseKeys
      /\ \A k \in C : WordScore(k) = CoverageScore(scores[k]) /\ sc(k) \in Nat \ {0}
      /\ \A k, q : q \in SeedPaths(0, k)' <=> k \in C /\ q \in [0 .. 0 -> {k}]
      /\ \A k \in C : \A q \in [0 .. 0 -> {k}] : PathScore(q, 0)' = sc(k)
  BY SeedsChosen
<1>4. DOMAIN Chosen = 1 .. Len(Chosen) /\ Len(Chosen) \in Nat
  BY <1>3
<1>5. DOMAIN arrival' = C /\ \A k \in C : arrival'[k] = sc(k)
  BY <1>3 DEF SelectSeeds
<1>6. /\ qFrontier' = [i \in 1 .. Len(Chosen) |-> [key |-> Chosen[i], score |-> sc(Chosen[i])]]
      /\ \A i \in 1 .. Len(Chosen) : Chosen[i] \in C
  <2>1. \A i \in 1 .. Len(Chosen) : Chosen[i] \in C
    BY <1>4 DEF ToSet
  <2> QED
    BY <1>3, <1>4, <2>1 DEF SelectSeeds
<1>7. scores' = [k \in Keys |-> NoScore]
  <2>1. ASSUME NEW k \in Keys \ scored PROVE scores[k] = NoScore
    <3>1. /\ scores[k] = [tiered |-> Sums(Given(k))[term - 1], matched |-> Cardinality(MatchedBy(term - 1, k))]
          /\ MatchedBy(term - 1, k) = {} /\ req \in Queries /\ Len(req.terms) \in Nat
          /\ term - 1 \in 0 .. Len(req.terms)
      BY <2>1, QueryTypes DEF ScoreInv
    <3>2. Cardinality(MatchedBy(term - 1, k)) = 0
      BY <3>1, FS_EmptySet
    <3>3. Sums(Given(k))[term - 1] = 0
      <4> DEFINE T == {m \in 0 .. term - 1 : Sums(Given(k))[m] # 0}
      <4>1. CASE T = {}
        BY <3>1, <4>1
      <4>2. CASE T # {}
        <5>1. PICK m \in T : m \in Nat /\ (m # 0 => m - 1 \in Nat /\ m - 1 \notin T)
          <6>1. T \subseteq Nat
            OBVIOUS
          <6> HIDE DEF T
          <6> QED
            BY <4>2, <6>1, LeastOne
        <5>2. Given(k) \in Seq(Nat) /\ Len(Given(k)) = Len(req.terms)
          BY <3>1, GivenTypes
        <5>3. m # 0
          BY <5>1, <5>2, SumsStep
        <5>4. m \in 1 .. Len(req.terms) /\ m - 1 \in 0 .. term - 1 /\ m \in 1 .. term - 1
          BY <3>1, <5>1, <5>3
        <5>5. Sums(Given(k))[m] = Sums(Given(k))[m - 1] + Given(k)[m]
          BY <5>2, <5>4, SumsStep
        <5>6. Sums(Given(k))[m - 1] = 0
          BY <5>1, <5>3, <5>4
        <5>7. Given(k)[m] = Gives(m, k) /\ Gives(m, k) \in Nat /\ (Gives(m, k) > 0 <=> LexTier(req.terms[m], k) > 0)
          BY <3>1, <5>4, GivenTypes
        <5>8. ~(LexTier(req.terms[m], k) > 0)
          BY <3>1, <5>4 DEF MatchedBy
        <5>9. Given(k)[m] = 0
          BY <5>7, <5>8
        <5> QED
          BY <5>1, <5>5, <5>6, <5>9
      <4> QED
        BY <4>1, <4>2
    <3> QED
      BY <3>1, <3>2, <3>3 DEF NoScore
  <2> QED
    BY <1>1, <2>1 DEF Cleared
<1>8. ASSUME NEW k \in C PROVE Scored(arrival[k], 0, k)'
  <2>1. [i \in 0 .. 0 |-> k] \in [0 .. 0 -> {k}]
    OBVIOUS
  <2>2. [i \in 0 .. 0 |-> k] \in SeedPaths(0, k)' /\ PathScore([i \in 0 .. 0 |-> k], 0)' = sc(k)
    BY <1>3, <2>1
  <2> QED
    BY <1>5, <2>2 DEF Scored
<1>9. ASSUME NEW k \in BaseKeys, NEW q \in SeedPaths(0, k)'
      PROVE  k \in C /\ PathScore(q, 0)' = sc(k) /\ Arrived(k, PathScore(q, 0))'
  <2>1. k \in C /\ PathScore(q, 0)' = sc(k)
    BY <1>3
  <2>2. sc(k) >= sc(k)
    BY <1>3, <2>1
  <2> QED
    BY <1>5, <2>1, <2>2 DEF Arrived
<1>10. req \in Queries /\ req.depth \in Nat
  BY QueryTypes DEF ScoreInv
<1> HIDE DEF sc, C
<1>11. CASE req.depth = 0
  <2>1. 0 .. req.depth = {0}
    BY <1>11
  <2>2. ASSUME NEW k \in DOMAIN arrival' PROVE arrival'[k] \in Nat /\ Scored(arrival[k], 0, k)'
    BY <1>3, <1>5, <1>8
  <2>3. Settled'
    BY <1>2, <1>9, <2>1, <2>2 DEF Settled
  <2> QED
    BY <1>2, <1>3, <1>5, <1>7, <1>11, <2>3
<1>12. CASE req.depth # 0
  <2>1. hop' \in 1 .. req'.depth
    BY <1>1, <1>2, <1>10, <1>12
  <2>2. qFrontier' \in Seq(QEntries)' /\ Len(qFrontier') = Len(Chosen) /\ qNext' \in Seq(QEntries)'
    <3>1. \A i \in 1 .. Len(Chosen) : [key |-> Chosen[i], score |-> sc(Chosen[i])] \in QEntries'
      BY <1>2, <1>3, <1>6 DEF QEntries
    <3> QED
      BY <1>1, <1>4, <1>6, <3>1
  <2>3. Sound'
    <3>1. \A k \in DOMAIN arrival' : k \in BaseKeys' /\ 0 \in 0 .. hop' /\ 0 <= req'.depth /\ Scored(arrival[k], 0, k)'
      BY <1>1, <1>2, <1>3, <1>5, <1>8, <1>10
    <3>2. ASSUME NEW i \in 1 .. Len(qFrontier')
          PROVE  Scored(qFrontier[i].score, hop - 1, qFrontier[i].key)'
      <4>1. qFrontier'[i].key = Chosen[i] /\ qFrontier'[i].score = arrival'[Chosen[i]] /\ Chosen[i] \in C
        BY <1>5, <1>6, <2>2
      <4>2. hop' - 1 = 0
        BY <1>1
      <4> QED
        BY <1>8, <4>1, <4>2
    <3>3. Len(qNext') = 0
      BY <1>1
    <3> QED
      BY <3>1, <3>2, <3>3 DEF Sound
  <2>4. ASSUME NEW k \in C PROVE Pending(k, sc(k))'
    <3>1. PICK i \in 1 .. Len(Chosen) : Chosen[i] = k
      BY <1>4 DEF ToSet, C
    <3>2. qFrontier'[i].key = k /\ qFrontier'[i].score = sc(k) /\ sc(k) >= sc(k)
      BY <1>3, <1>6, <3>1
    <3>3. sc(k)' = sc(k)
      BY <1>1, <1>2, WordsSame DEF sc
    <3> QED
      BY <2>2, <3>1, <3>2, <3>3 DEF Pending
  <2>5. Thorough'
    <3>1. 0 .. hop' - 1 = {0}
      BY <1>1
    <3>2. \A k : sc(k)' = sc(k)
      BY <1>1, <1>2, WordsSame DEF sc
    <3>3. ASSUME NEW u \in BaseKeys, NEW q \in SeedPaths(0, u)' PROVE Pending(u, PathScore(q, 0))'
      <4>1. u \in C /\ PathScore(q, 0)' = sc(u)
        BY <1>9
      <4>2. Pending(u, sc(u))'
        BY <2>4, <4>1
      <4> QED
        BY <3>2, <4>1, <4>2 DEF Pending
    <3>4. ASSUME NEW u \in DOMAIN arrival' PROVE Pending(u, arrival[u])'
      <4>1. u \in C /\ arrival'[u] = sc(u)
        BY <1>5
      <4>2. Pending(u, sc(u))'
        BY <2>4, <4>1
      <4> QED
        BY <3>2, <4>1, <4>2 DEF Pending
    <3> QED
      BY <1>2, <1>9, <3>1, <3>3, <3>4 DEF Thorough
  <2>6. \A k \in DOMAIN arrival' : arrival'[k] \in Nat \ {0}
    BY <1>3, <1>5
  <2>7. ExpandInv'
    BY <2>1, <2>2, <2>3, <2>5, <2>6 DEF ExpandInv
  <2> QED
    BY <1>2, <1>3, <1>5, <1>7, <1>12, <2>7
<1> QED
  BY <1>11, <1>12

LEMMA ConcatIs ==
  ASSUME NEW S, NEW s \in Seq(S), NEW t \in Seq(S)
  PROVE  /\ s \o t \in Seq(S) /\ Len(s \o t) = Len(s) + Len(t) /\ Len(s) \in Nat /\ Len(t) \in Nat
         /\ \A i \in 1 .. Len(s) : (s \o t)[i] = s[i]
         /\ \A i \in 1 .. Len(t) : (s \o t)[Len(s) + i] = t[i]
<1>1. s \o t \in Seq(S) /\ Len(s \o t) = Len(s) + Len(t) /\ Len(s) \in Nat /\ Len(t) \in Nat
  OBVIOUS
<1>2. ASSUME NEW i \in 1 .. Len(t) PROVE (s \o t)[Len(s) + i] = t[i]
  <2>1. Len(s) + i \in 1 .. Len(s) + Len(t) /\ Len(s) + i > Len(s) /\ Len(s) + i - Len(s) = i
    BY <1>1
  <2> QED
    BY <1>1, <2>1
<1>3. ASSUME NEW i \in 1 .. Len(s) PROVE (s \o t)[i] = s[i]
  BY <1>1
<1> QED
  BY <1>1, <1>2, <1>3

\* SetToSeqs lists every element.
LEMMA ListsAll ==
  ASSUME NEW S, IsFiniteSet(S), NEW s \in SetToSeqs(S)
  PROVE  /\ s \in Seq(S) /\ Len(s) \in Nat /\ DOMAIN s = 1 .. Len(s)
         /\ \A x \in S : \E i \in 1 .. Len(s) : s[i] = x
<1> DEFINE n == Cardinality(S)
<1>1. n \in Nat /\ s \in [1 .. n -> S] /\ \A i, j \in 1 .. n : i # j => s[i] # s[j]
  BY FS_CardinalityType DEF SetToSeqs
<1>2. s \in Injection(1 .. n, S)
  BY <1>1 DEF Injection, IsInjective
<1>3. IsFiniteSet(1 .. n) /\ Cardinality(1 .. n) = n
  BY <1>1, FS_Interval
<1>4. s \in Surjection(1 .. n, S)
  BY <1>2, <1>3, FS_Injection
<1>5. s \in Seq(S) /\ Len(s) = n
  BY <1>1
<1> QED
  BY <1>1, <1>4, <1>5 DEF Surjection

\* What one entry of the frontier changes.
LEMMA EntryEffect ==
  ASSUME SnapInv, SeedInv, ExpandInv, DOMAIN arrival \subseteq BaseKeys, ExpandEntry
  PROVE  \E e \in QEntries :
         /\ Len(qFrontier) \in Nat \ {0} /\ qFrontier[1] = e /\ Scored(e.score, hop - 1, e.key)
         /\ qFrontier' \in Seq(QEntries) /\ qNext' \in Seq(QEntries)
         /\ Len(qFrontier') = Len(qFrontier) - 1
         /\ \A i \in 1 .. Len(qFrontier') : qFrontier'[i] = qFrontier[i + 1] /\ i + 1 \in 1 .. Len(qFrontier)
         /\ \A i \in 1 .. Len(qNext) : \E j \in 1 .. Len(qNext') : qNext'[j] = qNext[i]
         /\ \A j \in 1 .. Len(qNext') :
              \/ \E i \in 1 .. Len(qNext) : qNext'[j] = qNext[i]
              \/ Scored(qNext'[j].score, hop, qNext'[j].key)
         /\ \A k \in DOMAIN arrival : k \in DOMAIN arrival' /\ arrival'[k] >= arrival[k]
         /\ \A k \in DOMAIN arrival' :
              \/ k \in DOMAIN arrival /\ arrival'[k] = arrival[k]
              \/ /\ k \in BaseKeys /\ arrival'[k] \in Nat \ {0} /\ Scored(arrival'[k], hop, k)
                 /\ \E j \in 1 .. Len(qNext') : qNext'[j] = [key |-> k, score |-> arrival'[k]]
         /\ \A v \in BaseKeys : Through(e.key) /\ <<e.key, v>> \in DOMAIN edges =>
              v \in DOMAIN arrival' /\ arrival'[v] >= Carried(e.score, e.key, v)
<1>0. /\ qFrontier \in Seq(QEntries) /\ qNext \in Seq(QEntries) /\ qFrontier # <<>>
      /\ hop \in 1 .. req.depth /\ req.depth \in Nat
      /\ \A k \in DOMAIN arrival : arrival[k] \in Nat \ {0}
  BY QueryTypes DEF ExpandInv, ExpandEntry, SeedInv
<1>1. PICK e : e = Head(qFrontier)
  OBVIOUS
<1>2. e \in QEntries /\ Len(qFrontier) \in Nat \ {0} /\ qFrontier[1] = e
  BY <1>0, <1>1
<1>3. Scored(e.score, hop - 1, e.key)
  BY <1>2 DEF ExpandInv, Sound
<1>4. hop - 1 \in Nat /\ hop - 1 + 1 = hop /\ hop - 1 + 1 <= req.depth /\ hop \in 0 .. req.depth
  BY <1>0
<1> DEFINE score(k) == Carried(e.score, e.key, k)
           better == {k \in BaseKeys : /\ Through(e.key) /\ <<e.key, k>> \in DOMAIN edges
                                       /\ score(k) > 0 /\ Improves(k, score(k))}
<1>5. ASSUME NEW v \in BaseKeys, Through(e.key), <<e.key, v>> \in DOMAIN edges
      PROVE  Scored(score(v), hop, v) /\ score(v) \in Nat \ {0}
  <2>1. PICK p \in SeedPaths(hop - 1, e.key) : e.score = PathScore(p, hop - 1)
    BY <1>3 DEF Scored
  <2>2. PICK q \in SeedPaths(hop - 1 + 1, v) :
          PathScore(q, hop - 1 + 1) = Carried(PathScore(p, hop - 1), e.key, v)
    BY <1>4, <1>5, SeedExtend
  <2>3. q \in SeedPaths(hop, v) /\ PathScore(q, hop) = score(v)
    BY <1>4, <2>1, <2>2
  <2> QED
    BY <1>4, <2>3, PathScoreNat DEF Scored
<1>6. /\ qFrontier' = Tail(qFrontier)
      /\ arrival' = [k \in DOMAIN arrival \cup better |-> IF k \in better THEN score(k) ELSE arrival[k]]
      /\ \E order \in SetToSeqs(better) :
           qNext' = qNext \o [i \in DOMAIN order |-> [key |-> order[i], score |-> score(order[i])]]
  BY <1>1 DEF ExpandEntry
<1>7. PICK order \in SetToSeqs(better) :
        qNext' = qNext \o [i \in DOMAIN order |-> [key |-> order[i], score |-> score(order[i])]]
  BY <1>6
<1>8. /\ better \subseteq BaseKeys /\ BaseKeys \subseteq Keys
      /\ \A k \in better : /\ Scored(score(k), hop, k) /\ score(k) \in Nat \ {0}
                           /\ k \notin DOMAIN arrival \/ score(k) > arrival[k]
  BY <1>5 DEF BaseKeys, Improves
<1>9. ASSUME NEW v \in BaseKeys, Through(e.key), <<e.key, v>> \in DOMAIN edges, v \notin better
      PROVE  v \in DOMAIN arrival /\ arrival[v] >= score(v)
  <2>1. score(v) \in Nat \ {0}
    BY <1>5, <1>9
  <2>2. ~Improves(v, score(v))
    BY <1>9, <2>1
  <2>3. v \in DOMAIN arrival /\ ~(score(v) > arrival[v]) /\ arrival[v] \in Nat
    BY <1>0, <2>2 DEF Improves
  <2> QED
    BY <2>1, <2>3
<1> HIDE DEF better, score
<1>10. /\ order \in Seq(better) /\ Len(order) \in Nat /\ DOMAIN order = 1 .. Len(order)
       /\ \A x \in better : \E i \in 1 .. Len(order) : order[i] = x
  <2>1. IsFiniteSet(better)
    BY <1>8, KeysSubset
  <2> QED
    BY <2>1, ListsAll
<1> DEFINE new == [i \in 1 .. Len(order) |-> [key |-> order[i], score |-> score(order[i])]]
<1>11. new \in Seq(QEntries) /\ Len(new) = Len(order) /\ qNext' = qNext \o new
  <2>1. \A i \in 1 .. Len(order) : [key |-> order[i], score |-> score(order[i])] \in QEntries
    BY <1>8, <1>10 DEF QEntries
  <2>2. new \in [1 .. Len(order) -> QEntries]
    BY <2>1
  <2> QED
    BY <1>7, <1>10, <2>2
<1>12. \A i \in 1 .. Len(order) : new[i] = [key |-> order[i], score |-> score(order[i])] /\ order[i] \in better
  BY <1>10
<1> HIDE DEF new
<1>13. /\ qNext' \in Seq(QEntries) /\ Len(qNext') = Len(qNext) + Len(new) /\ Len(qNext) \in Nat /\ Len(new) \in Nat
       /\ \A i \in 1 .. Len(qNext) : qNext'[i] = qNext[i]
       /\ \A i \in 1 .. Len(new) : qNext'[Len(qNext) + i] = new[i]
  <2>1. qNext \in Seq(QEntries) /\ new \in Seq(QEntries)
    BY <1>0, <1>11
  <2>2. /\ qNext \o new \in Seq(QEntries) /\ Len(qNext \o new) = Len(qNext) + Len(new)
        /\ Len(qNext) \in Nat /\ Len(new) \in Nat
        /\ \A i \in 1 .. Len(qNext) : (qNext \o new)[i] = qNext[i]
        /\ \A i \in 1 .. Len(new) : (qNext \o new)[Len(qNext) + i] = new[i]
    <3>1. \A s, t \in Seq(QEntries) :
            /\ s \o t \in Seq(QEntries) /\ Len(s \o t) = Len(s) + Len(t) /\ Len(s) \in Nat /\ Len(t) \in Nat
            /\ \A i \in 1 .. Len(s) : (s \o t)[i] = s[i]
            /\ \A i \in 1 .. Len(t) : (s \o t)[Len(s) + i] = t[i]
      BY ConcatIs
    <3> QED
      BY <2>1, <3>1, Zenon
  <2>3. qNext' = qNext \o new
    BY <1>11
  <2> QED
    BY <2>2, <2>3
<1>14. \A i \in 1 .. Len(qNext) : \E j \in 1 .. Len(qNext') : qNext'[j] = qNext[i]
  <2>1. \A i \in 1 .. Len(qNext) : i \in 1 .. Len(qNext')
    BY <1>13
  <2> QED
    BY <1>13, <2>1
<1>15. ASSUME NEW j \in 1 .. Len(qNext')
       PROVE  \/ \E i \in 1 .. Len(qNext) : qNext'[j] = qNext[i]
              \/ Scored(qNext'[j].score, hop, qNext'[j].key)
  <2>1. CASE j \in 1 .. Len(qNext)
    BY <1>13, <2>1
  <2>2. CASE j \notin 1 .. Len(qNext)
    <3>1. PICK i \in 1 .. Len(new) : j = Len(qNext) + i
      <4>1. j - Len(qNext) \in 1 .. Len(new) /\ j = Len(qNext) + (j - Len(qNext))
        BY <1>13, <2>2
      <4> QED
        BY <4>1
    <3>2. qNext'[j] = [key |-> order[i], score |-> score(order[i])] /\ order[i] \in better
      BY <1>11, <1>12, <1>13, <3>1
    <3> QED
      BY <1>8, <3>2
  <2> QED
    BY <2>1, <2>2
<1>16. ASSUME NEW k \in better
       PROVE  \E j \in 1 .. Len(qNext') : qNext'[j] = [key |-> k, score |-> score(k)]
  <2>1. PICK i \in 1 .. Len(order) : order[i] = k
    BY <1>10
  <2>2. Len(qNext) + i \in 1 .. Len(qNext') /\ qNext'[Len(qNext) + i] = new[i]
    BY <1>11, <1>13
  <2> QED
    BY <1>12, <2>1, <2>2
<1>17. /\ qFrontier' \in Seq(QEntries) /\ Len(qFrontier') = Len(qFrontier) - 1
       /\ \A i \in 1 .. Len(qFrontier') : qFrontier'[i] = qFrontier[i + 1] /\ i + 1 \in 1 .. Len(qFrontier)
  BY <1>0, <1>6
<1>18. DOMAIN arrival' = DOMAIN arrival \cup better
       /\ (\A k \in better : arrival'[k] = score(k))
       /\ \A k \in DOMAIN arrival \ better : arrival'[k] = arrival[k]
  BY <1>6
<1>19. ASSUME NEW k \in DOMAIN arrival PROVE k \in DOMAIN arrival' /\ arrival'[k] >= arrival[k]
  <2>1. CASE k \in better
    BY <1>0, <1>8, <1>18, <2>1
  <2>2. CASE k \notin better
    BY <1>0, <1>18, <2>2
  <2> QED
    BY <2>1, <2>2
<1>20. ASSUME NEW k \in DOMAIN arrival'
       PROVE  \/ k \in DOMAIN arrival /\ arrival'[k] = arrival[k]
              \/ /\ k \in BaseKeys /\ arrival'[k] \in Nat \ {0} /\ Scored(arrival'[k], hop, k)
                 /\ \E j \in 1 .. Len(qNext') : qNext'[j] = [key |-> k, score |-> arrival'[k]]
  <2>1. CASE k \in better
    BY <1>8, <1>16, <1>18, <2>1
  <2>2. CASE k \notin better
    BY <1>18, <2>2
  <2> QED
    BY <2>1, <2>2
<1>21. ASSUME NEW v \in BaseKeys, Through(e.key), <<e.key, v>> \in DOMAIN edges
       PROVE  v \in DOMAIN arrival' /\ arrival'[v] >= score(v)
  <2>1. CASE v \in better
    <3>1. score(v) >= score(v)
      BY <1>8, <2>1
    <3> QED
      BY <1>18, <2>1, <3>1
  <2>2. CASE v \notin better
    BY <1>9, <1>18, <1>21, <2>2
  <2> QED
    BY <2>1, <2>2
<1> QED
  BY <1>2, <1>3, <1>13, <1>14, <1>15, <1>17, <1>19, <1>20, <1>21 DEF score

\* Expanding an entry loses nothing: what it leads to has its score or better.
LEMMA ExpandEntryKeeps ==
  ASSUME SnapInv, SeedInv, ExpandInv, DOMAIN arrival \subseteq BaseKeys, ExpandEntry
  PROVE  SeedInv' /\ ExpandInv' /\ DOMAIN arrival' \subseteq BaseKeys'
<1>1. UNCHANGED snapshot /\ seeds' = seeds /\ hop' = hop /\ fresh' = fresh
  BY DEF ExpandEntry
<1>2. /\ req' = req /\ BaseKeys' = BaseKeys /\ edges' = edges
      /\ (\A k : WordScore(k)' = WordScore(k))
      /\ (\A sc, u, k : Carried(sc, u, k)' = Carried(sc, u, k))
      /\ \A q, n : PathScore(q, n)' = PathScore(q, n)
  BY <1>1, WordsSame
<1>3. /\ (\A k : Through(k)' = Through(k)) /\ (Seated => Seated')
      /\ (\A n, k : SeedPaths(n, k)' = SeedPaths(n, k))
      /\ \A s, n, k : Scored(s, n, k)' = Scored(s, n, k)
  BY <1>1, SeedPathsSame
<1>4. PICK e \in QEntries :
         /\ Len(qFrontier) \in Nat \ {0} /\ qFrontier[1] = e /\ Scored(e.score, hop - 1, e.key)
         /\ qFrontier' \in Seq(QEntries) /\ qNext' \in Seq(QEntries)
         /\ Len(qFrontier') = Len(qFrontier) - 1
         /\ \A i \in 1 .. Len(qFrontier') : qFrontier'[i] = qFrontier[i + 1] /\ i + 1 \in 1 .. Len(qFrontier)
         /\ \A i \in 1 .. Len(qNext) : \E j \in 1 .. Len(qNext') : qNext'[j] = qNext[i]
         /\ \A j \in 1 .. Len(qNext') :
              \/ \E i \in 1 .. Len(qNext) : qNext'[j] = qNext[i]
              \/ Scored(qNext'[j].score, hop, qNext'[j].key)
         /\ \A k \in DOMAIN arrival : k \in DOMAIN arrival' /\ arrival'[k] >= arrival[k]
         /\ \A k \in DOMAIN arrival' :
              \/ k \in DOMAIN arrival /\ arrival'[k] = arrival[k]
              \/ /\ k \in BaseKeys /\ arrival'[k] \in Nat \ {0} /\ Scored(arrival'[k], hop, k)
                 /\ \E j \in 1 .. Len(qNext') : qNext'[j] = [key |-> k, score |-> arrival'[k]]
         /\ \A v \in BaseKeys : Through(e.key) /\ <<e.key, v>> \in DOMAIN edges =>
              v \in DOMAIN arrival' /\ arrival'[v] >= Carried(e.score, e.key, v)
  BY EntryEffect
<1>5. SeedInv'
  BY <1>1, <1>2, <1>3 DEF SeedInv, ToSet
<1>6. /\ hop \in 1 .. req.depth /\ req.depth \in Nat /\ qFrontier \in Seq(QEntries) /\ qNext \in Seq(QEntries)
      /\ (\A k \in DOMAIN arrival : arrival[k] \in Nat \ {0}) /\ Sound /\ Thorough
  BY QueryTypes DEF ExpandInv, SeedInv
<1>7. \A k \in DOMAIN arrival' : k \in BaseKeys /\ arrival'[k] \in Nat \ {0}
  BY <1>4, <1>6
<1>8. QEntries' = QEntries
  BY <1>2 DEF QEntries
<1>9. ASSUME NEW k, NEW s \in Nat, Arrived(k, s) PROVE Arrived(k, s)'
  <2>1. k \in DOMAIN arrival /\ arrival[k] >= s /\ k \in DOMAIN arrival' /\ arrival'[k] >= arrival[k]
    BY <1>4, <1>9 DEF Arrived
  <2>2. arrival'[k] >= s
    BY <1>6, <1>7, <2>1
  <2> QED
    BY <2>1, <2>2 DEF Arrived
<1>10. ASSUME NEW u, NEW s \in Nat, Pending(u, s)
       PROVE  Pending(u, s)' \/ (u = e.key /\ e.score >= s)
  <2>1. PICK i \in 1 .. Len(qFrontier) : qFrontier[i].key = u /\ qFrontier[i].score >= s
    BY <1>10 DEF Pending
  <2>2. CASE i = 1
    BY <1>4, <2>1, <2>2
  <2>3. CASE i # 1
    <3>1. i - 1 \in 1 .. Len(qFrontier') /\ i - 1 + 1 = i
      BY <1>4, <2>3
    <3>2. qFrontier'[i - 1] = qFrontier[i - 1 + 1]
      BY <1>4, <3>1
    <3>3. qFrontier'[i - 1].key = u /\ qFrontier'[i - 1].score >= s
      BY <2>1, <3>1, <3>2
    <3> QED
      BY <3>1, <3>3 DEF Pending
  <2> QED
    BY <2>2, <2>3
<1>11. ASSUME NEW v \in BaseKeys, NEW s \in Nat, Through(e.key), <<e.key, v>> \in DOMAIN edges, e.score >= s
       PROVE  Arrived(v, Carried(s, e.key, v))'
  <2>1. v \in DOMAIN arrival' /\ arrival'[v] >= Carried(e.score, e.key, v) /\ arrival'[v] \in Nat
    BY <1>4, <1>7, <1>11
  <2>2. e.score \in Nat /\ s <= e.score
    BY <1>11 DEF QEntries
  <2>3. /\ Carried(s, e.key, v) \in Nat /\ Carried(e.score, e.key, v) \in Nat
        /\ Carried(s, e.key, v) <= Carried(e.score, e.key, v)
    BY <1>11, <2>2, CarriedMonotone
  <2>4. arrival'[v] >= Carried(s, e.key, v)
    BY <2>1, <2>3
  <2> QED
    BY <1>2, <2>1, <2>4 DEF Arrived
<1>12. Sound'
  <2>1. ASSUME NEW k \in DOMAIN arrival'
        PROVE  k \in BaseKeys /\ \E n \in 0 .. hop : n <= req.depth /\ Scored(arrival'[k], n, k)
    <3>1. hop \in 0 .. hop /\ hop <= req.depth
      BY <1>6
    <3> QED
      BY <1>4, <1>6, <1>7, <3>1 DEF Sound
  <2>2. ASSUME NEW i \in 1 .. Len(qFrontier')
        PROVE  Scored(qFrontier'[i].score, hop - 1, qFrontier'[i].key)
    BY <1>4, <1>6 DEF Sound
  <2>3. ASSUME NEW i \in 1 .. Len(qNext')
        PROVE  Scored(qNext'[i].score, hop, qNext'[i].key)
    BY <1>4, <1>6 DEF Sound
  <2>4. ASSUME NEW k \in DOMAIN arrival'
        PROVE  k \in BaseKeys' /\ \E n \in 0 .. hop' : n <= req'.depth /\ Scored(arrival[k], n, k)'
    BY <1>1, <1>2, <1>3, <2>1
  <2>5. ASSUME NEW i \in 1 .. Len(qFrontier')
        PROVE  Scored(qFrontier[i].score, hop - 1, qFrontier[i].key)'
    BY <1>1, <1>3, <2>2
  <2>6. ASSUME NEW i \in 1 .. Len(qNext')
        PROVE  Scored(qNext[i].score, hop, qNext[i].key)'
    BY <1>1, <1>3, <2>3
  <2> QED
    BY <2>4, <2>5, <2>6 DEF Sound
<1>13. \A n \in 0 .. hop - 1 : \A k : \A q \in SeedPaths(n, k) : PathScore(q, n) \in Nat
  <2>1. \A n \in 0 .. hop - 1 : n \in 0 .. req.depth
    BY <1>6
  <2> QED
    BY <2>1, PathScoreNat
<1>14. ASSUME NEW n \in 0 .. hop - 1, NEW k \in BaseKeys, NEW q \in SeedPaths(n, k)
       PROVE  Arrived(k, PathScore(q, n))'
  <2>1. Arrived(k, PathScore(q, n)) /\ PathScore(q, n) \in Nat /\ PathScore(q, n)' = PathScore(q, n)
    BY <1>2, <1>6, <1>13 DEF Thorough
  <2>2. PICK s \in Nat : s = PathScore(q, n)
    BY <2>1
  <2>3. Arrived(k, s)'
    BY <1>9, <2>1, <2>2
  <2> QED
    BY <2>1, <2>2, <2>3 DEF Arrived
<1>15. ASSUME NEW n \in 0 .. hop - 1, NEW u \in BaseKeys, NEW v \in BaseKeys, NEW q \in SeedPaths(n, u),
              Through(u), <<u, v>> \in DOMAIN edges
       PROVE  Arrived(v, Carried(PathScore(q, n), u, v))' \/ Pending(u, PathScore(q, n))'
  <2>1. PICK s \in Nat : s = PathScore(q, n)
    BY <1>13
  <2>2. Arrived(v, Carried(s, u, v)) \/ Pending(u, s)
    BY <1>6, <1>15, <2>1 DEF Thorough
  <2>3. PathScore(q, n)' = s /\ Carried(s, u, v)' = Carried(s, u, v)
    BY <1>2, <2>1
  <2>4. Arrived(v, Carried(s, u, v))' \/ Pending(u, s)'
    <3>1. CASE Arrived(v, Carried(s, u, v))
      <4>1. PICK c \in Nat : c = Carried(s, u, v)
        BY <1>15, CarriedMonotone
      <4>2. Arrived(v, c)'
        BY <1>9, <3>1, <4>1
      <4> QED
        BY <2>3, <4>1, <4>2 DEF Arrived
    <3>2. CASE Pending(u, s)
      BY <1>10, <1>11, <1>15, <3>2
    <3> QED
      BY <2>2, <3>1, <3>2
  <2> QED
    BY <1>2, <2>3, <2>4 DEF Arrived, Pending
<1>16. ASSUME NEW u \in DOMAIN arrival', NEW v \in BaseKeys, Through(u), <<u, v>> \in DOMAIN edges
       PROVE  \/ Arrived(v, Carried(arrival[u], u, v))'
              \/ Pending(u, arrival[u])'
              \/ \E i \in 1 .. Len(qNext') : qNext'[i] = [key |-> u, score |-> arrival'[u]]
  <2>1. CASE \E j \in 1 .. Len(qNext') : qNext'[j] = [key |-> u, score |-> arrival'[u]]
    BY <2>1
  <2>2. CASE u \in DOMAIN arrival /\ arrival'[u] = arrival[u]
    <3>1. PICK s \in Nat : s = arrival[u]
      BY <1>6, <2>2
    <3>2. \/ Arrived(v, Carried(s, u, v)) \/ Pending(u, s)
          \/ \E i \in 1 .. Len(qNext) : qNext[i] = [key |-> u, score |-> s]
      BY <1>6, <1>16, <2>2, <3>1 DEF Thorough
    <3>3. CASE Arrived(v, Carried(s, u, v))
      <4>1. PICK c \in Nat : c = Carried(s, u, v)
        BY <1>16, CarriedMonotone
      <4>2. Arrived(v, c)'
        BY <1>9, <3>3, <4>1
      <4>3. Carried(arrival[u], u, v)' = c
        BY <1>2, <2>2, <3>1, <4>1 DEF Carried
      <4> QED
        BY <4>2, <4>3 DEF Arrived
    <3>4. CASE Pending(u, s)
      <4>1. CASE Pending(u, s)'
        BY <2>2, <3>1, <4>1 DEF Pending
      <4>2. CASE u = e.key /\ e.score >= s
        <5>1. Arrived(v, Carried(s, u, v))'
          BY <1>11, <1>16, <4>2
        <5>2. Carried(arrival[u], u, v)' = Carried(s, u, v)'
          BY <1>2, <2>2, <3>1 DEF Carried
        <5> QED
          BY <5>1, <5>2 DEF Arrived
      <4> QED
        BY <1>10, <3>4, <4>1, <4>2
    <3>5. CASE \E i \in 1 .. Len(qNext) : qNext[i] = [key |-> u, score |-> s]
      BY <1>4, <2>2, <3>1, <3>5
    <3> QED
      BY <3>2, <3>3, <3>4, <3>5
  <2> QED
    BY <1>4, <2>1, <2>2
<1>17. Thorough'
  BY <1>1, <1>2, <1>3, <1>14, <1>15, <1>16 DEF Thorough
<1>18. ExpandInv'
  BY <1>1, <1>2, <1>4, <1>6, <1>7, <1>8, <1>12, <1>17 DEF ExpandInv
<1> QED
  BY <1>2, <1>5, <1>7, <1>18

\* The frontier is done: the paths of hop edges are scored as well.
LEMMA HopScored ==
  ASSUME SnapInv, SeedInv, ExpandInv, qFrontier = <<>>,
         NEW n \in 0 .. hop, NEW k \in BaseKeys, NEW q \in SeedPaths(n, k)
  PROVE  Arrived(k, PathScore(q, n))
<1>0. hop \in 1 .. req.depth /\ req.depth \in Nat /\ Thorough /\ Len(qFrontier) = 0
  BY QueryTypes DEF ExpandInv, SeedInv
<1>1. CASE n # hop
  <2>1. n \in 0 .. hop - 1
    BY <1>0, <1>1
  <2> QED
    BY <1>0, <2>1 DEF Thorough
<1>2. CASE n = hop
  <2>1. n \in Nat \ {0} /\ n <= req.depth /\ n - 1 \in 0 .. hop - 1
    BY <1>0, <1>2
  <2>2. PICK u \in BaseKeys : \E p \in SeedPaths(n - 1, u) :
           /\ k \in BaseKeys /\ Through(u) /\ <<u, k>> \in DOMAIN edges
           /\ PathScore(q, n) = Carried(PathScore(p, n - 1), u, k)
    BY <2>1, SeedPrefix
  <2>3. PICK p \in SeedPaths(n - 1, u) :
           /\ Through(u) /\ <<u, k>> \in DOMAIN edges
           /\ PathScore(q, n) = Carried(PathScore(p, n - 1), u, k)
    BY <2>2
  <2>4. ~Pending(u, PathScore(p, n - 1))
    BY <1>0 DEF Pending
  <2> QED
    BY <1>0, <2>1, <2>3, <2>4 DEF Thorough
<1> QED
  BY <1>1, <1>2

\* If nothing is left to expand, no path, however long, has a better score.
LEMMA NothingBetter ==
  ASSUME SnapInv, SeedInv, ExpandInv, qFrontier = <<>>, qNext = <<>>,
         NEW n \in 0 .. req.depth, NEW k \in BaseKeys, NEW q \in SeedPaths(n, k)
  PROVE  Arrived(k, PathScore(q, n))
<1> DEFINE T == {m \in 0 .. req.depth : \E x \in BaseKeys : \E p \in SeedPaths(m, x) : ~Arrived(x, PathScore(p, m))}
<1>0. /\ hop \in 1 .. req.depth /\ req.depth \in Nat /\ Thorough /\ Sound /\ Len(qFrontier) = 0 /\ Len(qNext) = 0
      /\ \A x \in DOMAIN arrival : arrival[x] \in Nat
  BY QueryTypes DEF ExpandInv, SeedInv
<1>1. SUFFICES ASSUME T # {} PROVE FALSE
  OBVIOUS
<1>2. PICK m \in T : m \in Nat /\ (m # 0 => m - 1 \in Nat /\ m - 1 \notin T)
  <2>1. T \subseteq Nat
    BY <1>0
  <2> HIDE DEF T
  <2> QED
    BY <1>1, <2>1, LeastOne
<1>3. PICK x \in BaseKeys : \E p \in SeedPaths(m, x) : ~Arrived(x, PathScore(p, m))
  BY <1>2
<1>4. PICK p \in SeedPaths(m, x) : ~Arrived(x, PathScore(p, m))
  BY <1>3
<1>5. m \notin 0 .. hop
  BY <1>4, HopScored
<1>6. m \in Nat \ {0} /\ m <= req.depth /\ m - 1 \in 0 .. req.depth
  BY <1>0, <1>2, <1>5
<1>7. PICK u \in BaseKeys : \E r \in SeedPaths(m - 1, u) :
         /\ x \in BaseKeys /\ Through(u) /\ <<u, x>> \in DOMAIN edges
         /\ PathScore(p, m) = Carried(PathScore(r, m - 1), u, x)
  BY <1>4, <1>6, SeedPrefix
<1>8. PICK r \in SeedPaths(m - 1, u) :
         /\ Through(u) /\ <<u, x>> \in DOMAIN edges
         /\ PathScore(p, m) = Carried(PathScore(r, m - 1), u, x)
  BY <1>7
<1>9. Arrived(u, PathScore(r, m - 1))
  BY <1>2, <1>6, <1>8
<1>10. u \in DOMAIN arrival /\ arrival[u] >= PathScore(r, m - 1) /\ arrival[u] \in Nat /\ PathScore(r, m - 1) \in Nat
  BY <1>0, <1>6, <1>8, <1>9, PathScoreNat DEF Arrived
<1>11. Arrived(x, Carried(arrival[u], u, x))
  <2>1. ~Pending(u, arrival[u])
    BY <1>0 DEF Pending
  <2> QED
    BY <1>0, <1>8, <1>10, <2>1 DEF Thorough
<1>12. /\ Carried(PathScore(r, m - 1), u, x) \in Nat /\ Carried(arrival[u], u, x) \in Nat
       /\ Carried(PathScore(r, m - 1), u, x) <= Carried(arrival[u], u, x)
  BY <1>8, <1>10, CarriedMonotone
<1>13. Arrived(x, PathScore(p, m))
  BY <1>0, <1>8, <1>11, <1>12 DEF Arrived
<1> QED
  BY <1>4, <1>13

\* One hop farther, or the search is over.
LEMMA NextHopKeeps ==
  ASSUME SnapInv, SeedInv, ExpandInv, NextHop
  PROVE  /\ SeedInv' /\ DOMAIN arrival' = DOMAIN arrival /\ BaseKeys' = BaseKeys
         /\ pc' \in {"expand", "render"}
         /\ pc' = "render" => Settled'
         /\ pc' = "expand" => ExpandInv'
<1>1. UNCHANGED snapshot /\ seeds' = seeds /\ fresh' = fresh /\ arrival' = arrival /\ qFrontier = <<>> /\ pc = "expand"
  BY DEF NextHop
<1>2. /\ req' = req /\ BaseKeys' = BaseKeys /\ edges' = edges
      /\ (\A k : WordScore(k)' = WordScore(k))
      /\ (\A sc, u, k : Carried(sc, u, k)' = Carried(sc, u, k))
      /\ \A q, n : PathScore(q, n)' = PathScore(q, n)
  BY <1>1, WordsSame
<1>3. /\ (\A k : Through(k)' = Through(k)) /\ (Seated => Seated')
      /\ (\A n, k : SeedPaths(n, k)' = SeedPaths(n, k))
      /\ \A s, n, k : Scored(s, n, k)' = Scored(s, n, k)
  BY <1>1, SeedPathsSame
<1>4. SeedInv'
  BY <1>1, <1>2, <1>3 DEF SeedInv, ToSet
<1>5. \A k, s : Arrived(k, s)' = Arrived(k, s)
  BY <1>1 DEF Arrived
<1>6. /\ hop \in 1 .. req.depth /\ req.depth \in Nat /\ qNext \in Seq(QEntries) /\ Len(qFrontier) = 0
      /\ (\A k \in DOMAIN arrival : arrival[k] \in Nat \ {0}) /\ Sound /\ Thorough
  BY <1>1, QueryTypes DEF ExpandInv, SeedInv
<1>7. QEntries' = QEntries
  BY <1>2 DEF QEntries
<1>8. CASE qNext = <<>> \/ hop = req.depth
  <2>1. pc' = "render"
    BY <1>8 DEF NextHop
  <2>2. ASSUME NEW n \in 0 .. req.depth, NEW k \in BaseKeys, NEW q \in SeedPaths(n, k)
        PROVE  Arrived(k, PathScore(q, n))
    <3>1. CASE qNext = <<>>
      BY <1>1, <3>1, NothingBetter
    <3>2. CASE hop = req.depth
      BY <1>1, <3>2, HopScored
    <3> QED
      BY <1>8, <3>1, <3>2
  <2>3. \A k \in DOMAIN arrival : arrival[k] \in Nat /\ \E n \in 0 .. req.depth : Scored(arrival[k], n, k)
    <3>1. \A n \in 0 .. hop : n \in 0 .. req.depth
      BY <1>6
    <3> QED
      BY <1>6, <3>1 DEF Sound
  <2>4. Settled
    BY <2>2, <2>3 DEF Settled
  <2>5. Settled'
    BY <1>1, <1>2, <1>3, <1>5, <2>4 DEF Settled
  <2> QED
    BY <1>1, <1>2, <1>4, <2>1, <2>5
<1>9. CASE ~(qNext = <<>> \/ hop = req.depth)
  <2>1. qFrontier' = qNext /\ qNext' = <<>> /\ hop' = hop + 1 /\ pc' = "expand"
    BY <1>1, <1>9 DEF NextHop
  <2>2. hop' \in 1 .. req.depth /\ hop' - 1 = hop
    BY <1>6, <1>9, <2>1
  <2>3. Sound'
    <3>1. ASSUME NEW k \in DOMAIN arrival'
          PROVE  k \in BaseKeys' /\ \E n \in 0 .. hop' : n <= req'.depth /\ Scored(arrival[k], n, k)'
      <4>1. PICK n \in 0 .. hop : k \in BaseKeys /\ n <= req.depth /\ Scored(arrival[k], n, k)
        BY <1>1, <1>6 DEF Sound
      <4>2. n \in 0 .. hop'
        BY <1>6, <2>1
      <4>3. Scored(arrival[k], n, k)'
        BY <1>1, <1>3, <4>1
      <4> QED
        BY <1>2, <4>1, <4>2, <4>3
    <3>2. ASSUME NEW i \in 1 .. Len(qFrontier')
          PROVE  Scored(qFrontier[i].score, hop - 1, qFrontier[i].key)'
      BY <1>3, <1>6, <2>1, <2>2 DEF Sound
    <3>3. Len(qNext') = 0
      BY <2>1
    <3> QED
      BY <3>1, <3>2, <3>3 DEF Sound
  <2>4. Thorough'
    <3>1. ASSUME NEW n \in 0 .. hop, NEW k \in BaseKeys, NEW q \in SeedPaths(n, k)
          PROVE  Arrived(k, PathScore(q, n)) /\ PathScore(q, n) \in Nat
      <4>1. n \in 0 .. req.depth
        BY <1>6
      <4> QED
        BY <1>1, <4>1, HopScored, PathScoreNat
    <3>2. ASSUME NEW u \in DOMAIN arrival, NEW v \in BaseKeys, Through(u), <<u, v>> \in DOMAIN edges
          PROVE  Arrived(v, Carried(arrival[u], u, v)) \/ Pending(u, arrival[u])'
      <4>1. ~Pending(u, arrival[u])
        BY <1>6 DEF Pending
      <4>2. CASE \E i \in 1 .. Len(qNext) : qNext[i] = [key |-> u, score |-> arrival[u]]
        <5>1. PICK i \in 1 .. Len(qNext) : qNext[i] = [key |-> u, score |-> arrival[u]]
          BY <4>2
        <5>2. qNext[i].key = u /\ qNext[i].score >= arrival[u]
          BY <1>6, <5>1
        <5> QED
          BY <1>1, <2>1, <5>2 DEF Pending
      <4> QED
        BY <1>6, <3>2, <4>1, <4>2 DEF Thorough
    <3>3. ASSUME NEW n \in 0 .. hop, NEW u \in BaseKeys, NEW v \in BaseKeys, NEW q \in SeedPaths(n, u),
                 Through(u), <<u, v>> \in DOMAIN edges
          PROVE  Arrived(v, Carried(PathScore(q, n), u, v)) \/ Pending(u, PathScore(q, n))'
      <4>1. PICK s \in Nat : s = PathScore(q, n) /\ Arrived(u, s)
        BY <3>1
      <4>2. PICK a \in Nat : u \in DOMAIN arrival /\ a = arrival[u] /\ s <= a
        BY <1>6, <4>1 DEF Arrived
      <4>3. CASE Arrived(v, Carried(a, u, v))
        <5>1. Carried(s, u, v) \in Nat /\ Carried(a, u, v) \in Nat /\ Carried(s, u, v) <= Carried(a, u, v)
          BY <3>3, <4>2, CarriedMonotone
        <5>2. v \in DOMAIN arrival /\ arrival[v] \in Nat /\ arrival[v] >= Carried(s, u, v)
          BY <1>6, <4>3, <5>1 DEF Arrived
        <5> QED
          BY <4>1, <5>2 DEF Arrived
      <4>4. CASE Pending(u, arrival[u])'
        <5>1. PICK i \in 1 .. Len(qNext) : qNext[i].key = u /\ qNext[i].score >= a
          BY <1>1, <2>1, <4>2, <4>4 DEF Pending
        <5>2. qNext[i].score \in Nat
          <6>1. qNext[i] \in QEntries
            BY <1>6
          <6> QED
            BY <6>1 DEF QEntries
        <5>3. qNext[i].score >= s
          BY <4>2, <5>1, <5>2
        <5>4. PathScore(q, n)' = s
          BY <1>2, <4>1
        <5> QED
          BY <2>1, <5>1, <5>3, <5>4 DEF Pending
      <4> QED
        BY <3>2, <3>3, <4>2, <4>3, <4>4
    <3>4. ASSUME NEW n \in 0 .. hop, NEW k \in BaseKeys, NEW q \in SeedPaths(n, k)
          PROVE  Arrived(k, PathScore(q, n))'
      BY <1>1, <1>2, <3>1 DEF Arrived
    <3>5. ASSUME NEW u \in DOMAIN arrival, NEW v \in BaseKeys, Through(u), <<u, v>> \in DOMAIN edges
          PROVE  Arrived(v, Carried(arrival[u], u, v))' \/ Pending(u, arrival[u])'
      BY <1>1, <1>2, <3>2, <3>5 DEF Arrived, Carried
    <3>6. ASSUME NEW n \in 0 .. hop, NEW u \in BaseKeys, NEW v \in BaseKeys, NEW q \in SeedPaths(n, u),
                 Through(u), <<u, v>> \in DOMAIN edges
          PROVE  Arrived(v, Carried(PathScore(q, n), u, v))' \/ Pending(u, PathScore(q, n))'
      BY <1>1, <1>2, <3>3, <3>6 DEF Arrived, Carried
    <3> QED
      BY <1>1, <1>2, <1>3, <2>2, <3>4, <3>5, <3>6 DEF Thorough
  <2>5. ExpandInv'
    BY <1>1, <1>2, <1>6, <1>7, <2>1, <2>2, <2>3, <2>4 DEF ExpandInv
  <2> QED
    BY <1>1, <1>2, <1>4, <2>1, <2>5
<1> QED
  BY <1>8, <1>9

\* When the search is over, every node has the best score there is for it.
LEMMA SettledIsBest ==
  ASSUME SnapInv, SeedInv, Settled, DOMAIN arrival \subseteq BaseKeys
  PROVE  ArrivalIsBest
<1>0. req \in Queries /\ req.depth \in Nat
  BY QueryTypes DEF SeedInv
<1>1. ASSUME NEW k, NEW s, s \in PathScores(k)
      PROVE  \E n \in 0 .. req.depth : \E q \in SeedPaths(n, k) : s = PathScore(q, n)
  BY <1>1 DEF PathScores
<1>2. ASSUME NEW k \in BaseKeys, NEW s \in PathScores(k)
      PROVE  s \in Nat /\ k \in DOMAIN arrival /\ s <= arrival[k]
  <2>1. PICK n \in 0 .. req.depth : \E q \in SeedPaths(n, k) : s = PathScore(q, n)
    BY <1>1
  <2>2. PICK q \in SeedPaths(n, k) : s = PathScore(q, n)
    BY <2>1
  <2>3. s \in Nat
    BY <2>2, PathScoreNat
  <2>4. k \in DOMAIN arrival /\ arrival[k] >= s /\ arrival[k] \in Nat
    BY <2>2 DEF Settled, Arrived
  <2> QED
    BY <2>3, <2>4
<1>3. ASSUME NEW k \in DOMAIN arrival PROVE arrival[k] \in PathScores(k) /\ k \in BaseKeys
  BY DEF Settled, Scored, PathScores
<1>4. ASSUME NEW k \in DOMAIN arrival PROVE arrival[k] = Max(PathScores(k))
  <2>1. PathScores(k) \subseteq Nat /\ arrival[k] \in PathScores(k) /\ \A y \in PathScores(k) : y <= arrival[k]
    BY <1>2, <1>3
  <2> QED
    BY <2>1, MaxOnly
<1>5. DOMAIN arrival = {k \in BaseKeys : PathScores(k) # {}}
  BY <1>2, <1>3
<1>6. Seated
  BY DEF SeedInv
<1> QED
  BY <1>4, <1>5, <1>6 DEF ArrivalIsBest, Seated

LEMMA QueryInvInit ==
  ASSUME Init
  PROVE  QueryInv
  BY DEF Init, WalkInit, QueryInit, QueryInv

\* A walk leaves the query's state alone.
LEMMA WalksKeepQueryInv ==
  ASSUME WalkInv, WalkInv', QueryInv, WalkNext, UNCHANGED query
  PROVE  QueryInv'
<1>1. UNCHANGED snapshot /\ arrival' = arrival /\ scores' = scores /\ pc \in {"start", "walk", "sort"}
  BY DEF WalkNext, StartWalk, Step, NodeDone, NextLevel, SortWalk, query, search
<1>2. pc' \in {"walk", "sort", "done"}
  BY DEF WalkNext, StartWalk, Step, NodeDone, NextLevel, SortWalk
<1>3. seen' \subseteq Keys
  <2>1. CASE pc' \in {"walk", "sort"}
    BY <2>1 DEF WalkInv, WalkTypes
  <2>2. CASE pc' = "done"
    <3>1. seen' = seen
      BY <2>2 DEF WalkNext, StartWalk, Step, NodeDone, NextLevel, SortWalk, walk
    <3> QED
      BY <3>1 DEF QueryInv
  <2> QED
    BY <1>2, <2>1, <2>2
<1>4. BaseKeys' = BaseKeys
  BY <1>1, WordsSame
<1> QED
  BY <1>1, <1>2, <1>3, <1>4 DEF QueryInv

\* The start of a query: nothing is scored.
LEMMA StartQueryKeeps ==
  ASSUME WalkInv, QueryInv, StartQuery
  PROVE  QueryInv'
<1>1. /\ UNCHANGED snapshot /\ UNCHANGED query /\ seen' = seen /\ pc = "start"
      /\ pc' = IF req.terms = <<>> THEN "done" ELSE "score"
  BY DEF StartQuery, walk
<1>2. /\ arrival' = arrival /\ scores' = scores /\ term' = term /\ best' = best /\ scored' = scored
  BY <1>1 DEF query, search
<1>3. BaseKeys' = BaseKeys /\ req' = req /\ (\A k : Given(k)' = Given(k)) /\ \A n, k : MatchedBy(n, k)' = MatchedBy(n, k)
  BY <1>1, WordsSame
<1>4. req \in Queries
  BY DEF StartQuery, WalkInv, SnapInv, WalkRequests
<1>5. term = 1 /\ best = <<>> /\ scored = {} /\ scores = [k \in Keys |-> NoScore]
  BY <1>1 DEF QueryInv
<1>6. ScoreInv'
  <2>1. Len(req.terms) \in Nat /\ term' - 1 = 0 /\ term' \in 1 .. Len(req.terms) + 1
    BY <1>2, <1>4, <1>5, QueryTypes
  <2>2. \A k : MatchedBy(0, k) = {} /\ Cardinality(MatchedBy(0, k)) = 0
    BY FS_EmptySet DEF MatchedBy
  <2>3. \A k \in Keys : Sums(Given(k))[0] = 0
    BY <1>4, GivenTypes, SumsStep
  <2>4. scores' = [k \in Keys |-> [tiered |-> Sums(Given(k))[0], matched |-> Cardinality(MatchedBy(0, k))]]
    BY <1>2, <1>5, <2>2, <2>3 DEF NoScore
  <2>5. scored' = {k \in Keys : MatchedBy(0, k) # {}}
    BY <1>2, <1>5, <2>2
  <2>6. best' \in Seq(Keys \cup {None}) /\ Len(best') = 0
    BY <1>2, <1>5
  <2> QED
    BY <1>3, <1>4, <2>1, <2>4, <2>5, <2>6 DEF ScoreInv
<1> QED
  BY <1>1, <1>2, <1>3, <1>5, <1>6 DEF QueryInv

LEMMA QueryInvStep ==
  ASSUME WalkInv, WalkInv', QueryInv, [Next]_vars
  PROVE  QueryInv'
<1>1. CASE WalkNext /\ UNCHANGED query
  BY <1>1, WalksKeepQueryInv
<1>2. CASE StartQuery
  BY <1>2, StartQueryKeeps
<1>3. CASE ScoreTerm
  <2>1. pc = "score" /\ pc' = "score" /\ UNCHANGED snapshot /\ seen' = seen /\ arrival' = arrival
    BY <1>3 DEF ScoreTerm, walk
  <2>2. ScoreInv'
    BY <1>3, <2>1, ScoreTermKeeps DEF QueryInv
  <2>3. BaseKeys' = BaseKeys
    BY <2>1, WordsSame
  <2> QED
    BY <2>1, <2>2, <2>3 DEF QueryInv
<1>4. CASE SelectSeeds
  <2>1. pc = "score" /\ pc' = (IF req.depth = 0 THEN "render" ELSE "expand") /\ seen' = seen
    BY <1>4 DEF SelectSeeds, walk
  <2>2. /\ SeedInv' /\ DOMAIN arrival' \subseteq BaseKeys' /\ scores' = [k \in Keys |-> NoScore]
        /\ IF req.depth = 0 THEN Settled' ELSE ExpandInv'
    BY <1>4, <2>1, SelectSeedsKeeps DEF QueryInv
  <2> QED
    BY <2>1, <2>2 DEF QueryInv
<1>5. CASE ExpandEntry
  <2>1. pc = "expand" /\ pc' = "expand" /\ seen' = seen /\ scores' = scores
    BY <1>5 DEF ExpandEntry, walk
  <2>2. SeedInv' /\ ExpandInv' /\ DOMAIN arrival' \subseteq BaseKeys'
    BY <1>5, <2>1, ExpandEntryKeeps DEF QueryInv, WalkInv
  <2> QED
    BY <2>1, <2>2 DEF QueryInv
<1>6. CASE NextHop
  <2>1. pc = "expand" /\ seen' = seen /\ scores' = scores
    BY <1>6 DEF NextHop, walk
  <2>2. /\ SeedInv' /\ DOMAIN arrival' = DOMAIN arrival /\ BaseKeys' = BaseKeys
        /\ pc' \in {"expand", "render"}
        /\ pc' = "render" => Settled'
        /\ pc' = "expand" => ExpandInv'
    BY <1>6, <2>1, NextHopKeeps DEF QueryInv, WalkInv
  <2> QED
    BY <2>1, <2>2 DEF QueryInv
<1>7. CASE Rank \/ Pack \/ PackDone \/ UNCHANGED vars
  <2>0. /\ UNCHANGED snapshot /\ UNCHANGED walk /\ UNCHANGED search
        /\ \/ pc' = pc
           \/ pc = "render" /\ pc' = "pack"
           \/ pc = "pack" /\ pc' = "done"
    BY <1>7 DEF Rank, Pack, PackDone, vars, query
  <2>1. /\ UNCHANGED snapshot /\ seen' = seen /\ seeds' = seeds
        /\ scores' = scores /\ scored' = scored /\ term' = term /\ best' = best /\ fresh' = fresh
        /\ arrival' = arrival /\ qFrontier' = qFrontier /\ qNext' = qNext /\ hop' = hop
    BY <2>0 DEF walk, search
  <2>2. /\ req' = req /\ BaseKeys' = BaseKeys /\ edges' = edges
        /\ (\A k : WordScore(k)' = WordScore(k) /\ Given(k)' = Given(k))
        /\ (\A n, k : MatchedBy(n, k)' = MatchedBy(n, k))
        /\ (\A b, i : IsBest(b, i)' = IsBest(b, i))
        /\ (\A sc, u, k : Carried(sc, u, k)' = Carried(sc, u, k))
        /\ \A q, n : PathScore(q, n)' = PathScore(q, n)
    BY <2>1, WordsSame
  <2>3. /\ (\A k : Through(k)' = Through(k)) /\ (Seated => Seated')
        /\ (\A n, k : SeedPaths(n, k)' = SeedPaths(n, k))
        /\ \A s, n, k : Scored(s, n, k)' = Scored(s, n, k)
    BY <2>1, SeedPathsSame
  <2>4. (\A k, s : Arrived(k, s)' = Arrived(k, s)) /\ (\A u, s : Pending(u, s)' = Pending(u, s)) /\ QEntries' = QEntries
    BY <2>1, <2>2 DEF Arrived, Pending, QEntries
  <2>5. ScoreInv => ScoreInv'
    BY <2>1, <2>2 DEF ScoreInv
  <2>6. SeedInv => SeedInv'
    BY <2>1, <2>2, <2>3 DEF SeedInv, ToSet
  <2>7. Settled => Settled'
    BY <2>1, <2>2, <2>3, <2>4 DEF Settled
  <2>8. Sound => Sound'
    BY <2>1, <2>2, <2>3 DEF Sound
  <2>9. Thorough => Thorough'
    BY <2>1, <2>2, <2>3, <2>4 DEF Thorough
  <2>10. ExpandInv => ExpandInv'
    BY <2>1, <2>2, <2>4, <2>8, <2>9 DEF ExpandInv
  <2> QED
    BY <2>0, <2>1, <2>2, <2>5, <2>6, <2>7, <2>10 DEF QueryInv
<1> QED
  BY <1>1, <1>2, <1>3, <1>4, <1>5, <1>6, <1>7 DEF Next, QueryNext

LEMMA QueryInvAlways == Spec => [](WalkInv /\ QueryInv)
<1>1. Init => WalkInv /\ QueryInv
  BY WalkInvInit, QueryInvInit
<1>2. WalkInv /\ QueryInv /\ [Next]_vars => WalkInv' /\ QueryInv'
  BY WalkInvStep, QueryInvStep
<1> QED
  BY <1>1, <1>2, PTL DEF Spec

\* Snapshot::query gives the thread's scratch back all zero, in every
\* snapshot and for every request: clearing what was scored clears it all.
THEOREM ReadsInvTheorem == Spec => []ReadsInv
<1>1. QueryInv => ReadsInv
  BY DEF QueryInv, ReadsInv
<1> QED
  BY <1>1, QueryInvAlways, PTL

\* The expansion of Snapshot::query gives every node the best score of any
\* path of at most depth edges through no hub, though it only ever expands
\* what improved, and with room enough every term's best match is a seed.
THEOREM ArrivalTheorem == Spec => []ArrivalIsBest
<1>1. WalkInv /\ QueryInv => ArrivalIsBest
  <2>1. SUFFICES ASSUME WalkInv, QueryInv, pc = "render" PROVE ArrivalIsBest
    BY DEF ArrivalIsBest
  <2>2. SnapInv /\ SeedInv /\ Settled /\ DOMAIN arrival \subseteq BaseKeys
    BY <2>1 DEF WalkInv, QueryInv
  <2> QED
    BY <2>2, SettledIsBest
<1> QED
  BY <1>1, QueryInvAlways, PTL

----------------------------------------------------------------------------
(* What ranking and cutting make of a query. *)

LEMMA MaxOfNat ==
  ASSUME NEW f, IsFiniteSet(DOMAIN f), \A k \in DOMAIN f : f[k] \in Nat
  PROVE  MaxOf(f) \in Nat
<1> DEFINE T == {f[k] : k \in DOMAIN f}
           g == [k \in DOMAIN f |-> f[k]]
<1>1. g \in Surjection(DOMAIN f, T)
  BY DEF Surjection
<1>2. IsFiniteSet(T)
  <2> HIDE DEF T, g
  <2> QED
    BY <1>1, FS_Surjection
<1>3. IsFiniteSet(T \cup {1})
  <2> HIDE DEF T
  <2> QED
    BY <1>2, FS_AddElement
<1>4. T \cup {1} \subseteq Nat
  OBVIOUS
<1> HIDE DEF T
<1>5. Max(T \cup {1}) \in Nat
  BY <1>3, <1>4, FiniteMax
<1> QED
  BY <1>5 DEF MaxOf, T

LEMMA FusedNat ==
  ASSUME SeedInv, Settled, DOMAIN arrival \subseteq BaseKeys, NEW k \in Candidates
  PROVE  k \in Keys /\ k \in Nat /\ Fused(k) \in Nat
<1>1. DOMAIN arrival \subseteq Keys /\ DOMAIN fresh \subseteq Keys
  BY DEF SeedInv, BaseKeys
<1>2. k \in Keys /\ k \in Nat /\ (k \in DOMAIN arrival \/ k \in DOMAIN fresh)
  BY <1>1, WalkConstants DEF Candidates
<1>3. MaxOf(arrival) \in Nat /\ MaxOf(fresh) \in Nat
  BY <1>1, KeysSubset, MaxOfNat DEF SeedInv, Settled
<1>4. FuseTraversal \in Nat /\ FuseRank \in Nat /\ RankMax \in Nat /\ RankOf[k] \in Nat
  <2>1. RankOf \in [Keys -> Nat] /\ {FuseTraversal, FuseRank} \subseteq Nat /\ RankMax \in Nat
    BY QueryConstants
  <2> QED
    BY <1>2, <2>1
<1>5. \A a, b \in Nat : a * b \in Nat /\ a + b \in Nat
  OBVIOUS
<1>6. CASE k \in DOMAIN fresh
  <2>1. fresh[k] \in Nat
    BY <1>6 DEF SeedInv
  <2>2. FuseTraversal * RankMax * MaxOf(arrival) * fresh[k] \in Nat
    BY <1>3, <1>4, <1>5, <2>1, Zenon
  <2> QED
    BY <1>2, <1>6, <2>2 DEF Fused
<1>7. CASE k \notin DOMAIN fresh
  <2>1. arrival[k] \in Nat
    BY <1>2, <1>7 DEF Settled
  <2>2. FuseTraversal * RankMax * arrival[k] * MaxOf(fresh) \in Nat
    BY <1>3, <1>4, <1>5, <2>1, Zenon
  <2>3. FuseRank * RankOf[k] * MaxOf(arrival) * MaxOf(fresh) \in Nat
    BY <1>3, <1>4, <1>5, Zenon
  <2> QED
    BY <1>2, <1>5, <1>7, <2>2, <2>3 DEF Fused
<1> QED
  BY <1>6, <1>7

\* The candidates in their order.
LEMMA RankedIs ==
  ASSUME SeedInv, Settled, DOMAIN arrival \subseteq BaseKeys
  PROVE  /\ Ranked \in Seq(Candidates) /\ Candidates \subseteq Keys /\ ToSet(Ranked) = Candidates
         /\ \A i, j \in 1 .. Len(Ranked) : i < j => RankedBefore(Ranked[i], Ranked[j]) /\ Ranked[i] # Ranked[j]
<1> DEFINE C == Candidates
           R == {p \in C \X C : RankedBefore(p[1], p[2])}
<1>1. \A k \in C : k \in Keys /\ k \in Nat /\ Fused(k) \in Nat
  BY FusedNat
<1>2. IsFiniteSet(C)
  BY <1>1, KeysSubset
<1>3. \A x, y \in C : <<x, y>> \in R <=> RankedBefore(x, y)
  OBVIOUS
<1>4. \A x, y \in C : RankedBefore(x, y) <=>
        \/ IsSeed(x) /\ ~IsSeed(y)
        \/ (IsSeed(x) <=> IsSeed(y)) /\ (Fused(x) > Fused(y) \/ (Fused(x) = Fused(y) /\ x < y))
  <2>1. \A x : IsSeed(x) \in BOOLEAN
    BY DEF IsSeed
  <2> QED
    BY <2>1 DEF RankedBefore
<1>5. Orders(R, C)
  <2> HIDE DEF R, C
  <2> QED
    BY <1>1, <1>3, <1>4 DEF Orders
<1> DEFINE s == InOrder(C, R)
           n == Cardinality(C)
<1>6. /\ s \in Seq(C) /\ Len(s) = n /\ s \in [1 .. n -> C] /\ ToSet(s) = C
      /\ \A i, j \in 1 .. n : i < j => <<s[i], s[j]>> \in R
  <2> HIDE DEF R, C
  <2> QED
    BY <1>2, <1>5, InOrderIs
<1>7. s = Ranked
  BY DEF Ranked
<1> HIDE DEF s
<1>8. ASSUME NEW i \in 1 .. n, NEW j \in 1 .. n, i < j PROVE RankedBefore(s[i], s[j]) /\ s[i] # s[j]
  <2>1. <<s[i], s[j]>> \in R /\ s[i] \in C /\ s[j] \in C
    BY <1>6, <1>8
  <2> HIDE DEF R, C
  <2> QED
    BY <1>3, <1>5, <2>1 DEF Orders
<1> HIDE DEF R, C, n
<1>9. \A i, j \in 1 .. Len(s) : i < j => RankedBefore(s[i], s[j]) /\ s[i] # s[j]
  BY <1>6, <1>8
<1> QED
  BY <1>1, <1>6, <1>7, <1>9 DEF C

LEMMA RankingSame ==
  ASSUME UNCHANGED snapshot, UNCHANGED search
  PROVE  /\ Candidates' = Candidates /\ \A a, b : RankedBefore(a, b)' = RankedBefore(a, b)
         /\ Ranked' = Ranked /\ NoWrap' = NoWrap
<1>1. kind' = kind /\ arrival' = arrival /\ fresh' = fresh /\ seeds' = seeds /\ req' = req
  BY DEF snapshot, search
<1>2. \A k : IsSeed(k)' = IsSeed(k) /\ Fused(k)' = Fused(k)
  BY <1>1 DEF IsSeed, Fused, ToSet
<1>3. Candidates' = Candidates
  BY <1>1 DEF Candidates
<1>4. \A a, b : RankedBefore(a, b)' = RankedBefore(a, b)
  BY <1>2 DEF RankedBefore
<1>5. Ranked' = Ranked
  BY <1>3, <1>4 DEF Ranked, InOrder
<1>6. NoWrap' = NoWrap
  BY <1>1, <1>3, <1>5 DEF NoWrap, Tokens, Sums
<1> QED
  BY <1>3, <1>4, <1>5, <1>6

\* What the documents cost, up to each in their order.
LEMMA RankedCosts ==
  ASSUME SeedInv, Settled, DOMAIN arrival \subseteq BaseKeys
  PROVE  /\ Len(Ranked) \in Nat /\ Tokens(Ranked)[0] = 0
         /\ \A n \in 0 .. Len(Ranked) : Tokens(Ranked)[n] \in Nat
         /\ \A n \in 1 .. Len(Ranked) :
              /\ Ranked[n] \in Candidates /\ CostOf[Ranked[n]] \in Nat
              /\ Tokens(Ranked)[n] = Tokens(Ranked)[n - 1] + CostOf[Ranked[n]]
         /\ \A ks \in Seq(Candidates) :
              /\ Len(ks) <= Len(Ranked)
              /\ \A i \in 1 .. Len(ks) : ks[i] = Ranked[i]
              => Tokens(ks)[Len(ks)] = Tokens(Ranked)[Len(ks)]
<1> DEFINE N == Len(Ranked)
           costs == [i \in 1 .. N |-> CostOf[Ranked[i]]]
<1>1. Ranked \in Seq(Candidates) /\ Candidates \subseteq Keys
  BY RankedIs
<1>2. N \in Nat /\ DOMAIN Ranked = 1 .. N /\ \A i \in 1 .. N : Ranked[i] \in Candidates
  BY <1>1
<1>3. CostOf \in [Keys -> Nat]
  BY QueryConstants
<1>4. costs \in Seq(Nat) /\ Len(costs) = N /\ Tokens(Ranked) = Sums(costs)
  <2>1. costs \in [1 .. N -> Nat]
    BY <1>1, <1>2, <1>3
  <2> QED
    BY <1>2, <2>1 DEF Tokens
<1>5. \A i \in 1 .. N : costs[i] = CostOf[Ranked[i]] /\ costs[i] \in Nat
  BY <1>1, <1>2, <1>3
<1> HIDE DEF costs, N
<1>6. Sums(costs)[0] = 0 /\ \A n \in 1 .. N : Sums(costs)[n] = Sums(costs)[n - 1] + costs[n]
  BY <1>4, SumsStep
<1>7. \A n \in 0 .. N : Sums(costs)[n] \in Nat
  BY <1>4, SumsNat
<1>8. ASSUME NEW ks \in Seq(Candidates), Len(ks) <= N, \A i \in 1 .. Len(ks) : ks[i] = Ranked[i]
      PROVE  Tokens(ks)[Len(ks)] = Sums(costs)[Len(ks)]
  <2> DEFINE m == Len(ks)
             mine == [i \in 1 .. m |-> CostOf[ks[i]]]
  <2>1. m \in Nat /\ m \in 0 .. N /\ DOMAIN ks = 1 .. m /\ \A i \in 1 .. m : i \in 1 .. N
    BY <1>2, <1>8
  <2>2. \A i \in 1 .. m : mine[i] = costs[i] /\ mine[i] \in Nat
    BY <1>5, <1>8, <2>1
  <2>3. mine \in [1 .. m -> Nat]
    BY <2>2
  <2>4. mine \in Seq(Nat) /\ Len(mine) = m
    BY <2>1, <2>3
  <2>5. Tokens(ks) = Sums(mine)
    BY <2>1 DEF Tokens
  <2> HIDE DEF mine, m
  <2>6. Sums(mine)[m] = Sums(costs)[m]
    BY <1>2, <1>4, <2>1, <2>2, <2>4, SumsPrefix
  <2> QED
    BY <2>5, <2>6 DEF m
<1> QED
  BY <1>2, <1>4, <1>5, <1>6, <1>7, <1>8 DEF N

\* A sum is the largest of its beginnings.
LEMMA TokensGrow ==
  ASSUME SeedInv, Settled, DOMAIN arrival \subseteq BaseKeys, NEW n \in 0 .. Len(Ranked)
  PROVE  Tokens(Ranked)[n] <= Tokens(Ranked)[Len(Ranked)]
<1> DEFINE N == Len(Ranked)
           T == {i \in 0 .. N : Tokens(Ranked)[n] <= Tokens(Ranked)[i]}
<1>1. /\ N \in Nat /\ \A i \in 0 .. N : Tokens(Ranked)[i] \in Nat
      /\ \A i \in 1 .. N : CostOf[Ranked[i]] \in Nat /\ Tokens(Ranked)[i] = Tokens(Ranked)[i - 1] + CostOf[Ranked[i]]
  BY RankedCosts
<1>2. n \in T
  BY <1>1
<1>3. T \subseteq 0 .. N /\ T # {}
  BY <1>2
<1>4. PICK m : m = Max(T)
  OBVIOUS
<1>5. m \in T /\ \A y \in T : y <= m
  <2> HIDE DEF T, N
  <2> QED
    BY <1>1, <1>3, <1>4, MaxIs
<1>6. m = N
  <2>1. SUFFICES ASSUME m # N PROVE FALSE
    OBVIOUS
  <2>2. m \in 0 .. N /\ m + 1 \in 1 .. N /\ m + 1 - 1 = m /\ m + 1 \in 0 .. N /\ ~(m + 1 <= m)
    BY <1>1, <1>5, <2>1
  <2>3. PICK k \in 1 .. N : k = m + 1
    BY <2>2
  <2>4. Tokens(Ranked)[k] = Tokens(Ranked)[m] + CostOf[Ranked[k]] /\ CostOf[Ranked[k]] \in Nat
    BY <1>1, <2>2, <2>3
  <2>5. Tokens(Ranked)[n] <= Tokens(Ranked)[m] /\ Tokens(Ranked)[n] \in Nat /\ Tokens(Ranked)[m] \in Nat
    BY <1>1, <1>5
  <2>6. Tokens(Ranked)[n] <= Tokens(Ranked)[k]
    BY <2>4, <2>5
  <2> QED
    BY <1>5, <2>2, <2>3, <2>6
<1> QED
  BY <1>5, <1>6

\* Addition of tokens.
LEMMA Wrapped ==
  ASSUME NEW a \in Nat
  PROVE  /\ a % TokenWrap \in Nat /\ a % TokenWrap <= a
         /\ a < TokenWrap => a % TokenWrap = a
<1>1. TokenWrap \in Nat /\ TokenWrap > 0
  BY QueryConstants
<1> QED
  BY <1>1

\* Where the rendering loop is: the answer and the rest are the two parts of
\* the ranking, and while nothing wraps `spent` is what the answer costs.
Packing ==
  /\ answer \in Seq(Candidates) /\ rest \in Seq(Candidates)
  /\ Len(answer) + Len(rest) = Len(Ranked)
  /\ \A i \in 1 .. Len(answer) : answer[i] = Ranked[i]
  /\ \A i \in 1 .. Len(rest) : rest[i] = Ranked[Len(answer) + i]
  /\ Len(answer) <= req.limit
  /\ spent \in Nat /\ spent <= req.budget
  /\ NoWrap => spent = Tokens(Ranked)[Len(answer)]

PackInv ==
  /\ pc \in {"start", "score", "expand", "render"} => answer = <<>>
  /\ pc = "pack" => Packing

LEMMA RankStarts ==
  ASSUME SeedInv, Settled, DOMAIN arrival \subseteq BaseKeys, answer = <<>>, Rank
  PROVE  Packing'
<1>1. /\ UNCHANGED snapshot /\ UNCHANGED search /\ req' = req
      /\ answer' = <<>> /\ rest' = Ranked /\ spent' = 0
  BY DEF Rank, snapshot
<1>2. Candidates' = Candidates /\ Ranked' = Ranked /\ NoWrap' = NoWrap
  BY <1>1, RankingSame
<1>3. Ranked \in Seq(Candidates)
  BY RankedIs
<1>4. Tokens(Ranked)' = Tokens(Ranked)
  BY <1>2 DEF Tokens, Sums
<1>5. Tokens(Ranked)[0] = 0 /\ Len(Ranked) \in Nat
  BY RankedCosts
<1>6. req.limit \in Nat /\ req.budget \in Nat
  BY QueryTypes DEF SeedInv
<1>7. answer' \in Seq(Candidates) /\ Len(answer') = 0 /\ rest' \in Seq(Candidates)
  BY <1>1, <1>3
<1>8. \A i \in 1 .. Len(Ranked) : Ranked[i] = Ranked[0 + i]
  BY <1>5
<1> QED
  BY <1>1, <1>2, <1>4, <1>5, <1>6, <1>7, <1>8 DEF Packing

\* The next entry is the next of the ranking, and what is spent with it what
\* the ranking costs up to there.
LEMMA NextEntry ==
  ASSUME SeedInv, Settled, DOMAIN arrival \subseteq BaseKeys, Packing, rest # <<>>
  PROVE  /\ Len(answer) + 1 \in 1 .. Len(Ranked) /\ Head(rest) = Ranked[Len(answer) + 1]
         /\ Head(rest) \in Candidates /\ WithNext \in Nat
         /\ NoWrap => /\ WithNext = Tokens(Ranked)[Len(answer) + 1]
                      /\ WithNext = Tokens(Ranked)[Len(answer)] + CostOf[Head(rest)]
<1> DEFINE m == Len(answer)
           c == CostOf[Head(rest)]
<1>1. /\ m \in Nat /\ Len(rest) \in Nat \ {0} /\ 1 \in 1 .. Len(rest) /\ Head(rest) = rest[1]
      /\ m + Len(rest) = Len(Ranked) /\ Head(rest) = Ranked[m + 1] /\ spent \in Nat /\ spent <= req.budget
      /\ Head(rest) \in Candidates
  BY DEF Packing
<1>2. m + 1 \in 1 .. Len(Ranked) /\ m + 1 - 1 = m
  BY <1>1
<1>3. PICK n \in 1 .. Len(Ranked) : n = m + 1
  BY <1>2
<1>4. /\ c \in Nat /\ Tokens(Ranked)[m + 1] = Tokens(Ranked)[m] + c /\ Tokens(Ranked)[m + 1] \in Nat
  <2>1. /\ CostOf[Ranked[n]] \in Nat /\ Tokens(Ranked)[n] = Tokens(Ranked)[n - 1] + CostOf[Ranked[n]]
        /\ n \in 0 .. Len(Ranked) => Tokens(Ranked)[n] \in Nat
    BY RankedCosts
  <2>2. n \in 0 .. Len(Ranked) /\ n - 1 = m
    BY <1>1, <1>3
  <2> QED
    BY <1>1, <1>3, <2>1, <2>2
<1>5. WithNext = (spent + c) % TokenWrap /\ spent + c \in Nat
  BY <1>1, <1>4 DEF WithNext
<1> HIDE DEF m, c
<1>6. WithNext \in Nat /\ (spent + c < TokenWrap => WithNext = spent + c)
  BY <1>5, Wrapped
<1>7. ASSUME NoWrap PROVE spent + c < TokenWrap /\ spent = Tokens(Ranked)[m]
  <2>1. spent = Tokens(Ranked)[m]
    BY <1>7 DEF Packing, m
  <2>2. CASE \A k \in Candidates : req.budget + CostOf[k] < TokenWrap
    <3>1. req.budget + c < TokenWrap
      BY <1>1, <2>2 DEF c
    <3>2. req.budget \in Nat /\ TokenWrap \in Nat
      BY QueryTypes, QueryConstants DEF SeedInv
    <3> QED
      BY <1>1, <1>4, <2>1, <3>1, <3>2
  <2>3. CASE Tokens(Ranked)[Len(Ranked)] < TokenWrap
    <3>1. n \in 0 .. Len(Ranked) /\ Len(Ranked) \in 0 .. Len(Ranked) /\ Len(Ranked) \in Nat
      BY <1>3, RankedCosts
    <3>2. Tokens(Ranked)[n] <= Tokens(Ranked)[Len(Ranked)]
      BY <3>1, TokensGrow
    <3>3. Tokens(Ranked)[Len(Ranked)] \in Nat /\ TokenWrap \in Nat
      BY <3>1, RankedCosts, QueryConstants
    <3> QED
      BY <1>3, <1>4, <2>1, <2>3, <3>2, <3>3
  <2> QED
    BY <1>7, <2>1, <2>2, <2>3 DEF NoWrap
<1> QED
  BY <1>1, <1>2, <1>4, <1>6, <1>7 DEF m, c

LEMMA PackKeeps ==
  ASSUME SeedInv, Settled, DOMAIN arrival \subseteq BaseKeys, Packing, Pack
  PROVE  Packing'
<1>1. /\ UNCHANGED snapshot /\ UNCHANGED search /\ req' = req /\ rest # <<>> /\ Len(answer) < req.limit
      /\ answer' = Append(answer, Head(rest)) /\ rest' = Tail(rest) /\ spent' = WithNext
      /\ WithNext <= req.budget
  BY DEF Pack, NextFits, snapshot
<1>2. Candidates' = Candidates /\ Ranked' = Ranked /\ NoWrap' = NoWrap
  BY <1>1, RankingSame
<1>3. Tokens(Ranked)' = Tokens(Ranked)
  BY <1>2 DEF Tokens, Sums
<1>4. req.limit \in Nat
  BY QueryTypes DEF SeedInv
<1> DEFINE m == Len(answer)
<1>5. /\ m + 1 \in 1 .. Len(Ranked) /\ Head(rest) = Ranked[m + 1]
      /\ Head(rest) \in Candidates /\ WithNext \in Nat
      /\ NoWrap => WithNext = Tokens(Ranked)[m + 1]
  BY <1>1, NextEntry
<1>6. /\ answer \in Seq(Candidates) /\ rest \in Seq(Candidates) /\ m + Len(rest) = Len(Ranked)
      /\ \A i \in 1 .. m : answer[i] = Ranked[i]
      /\ \A i \in 1 .. Len(rest) : rest[i] = Ranked[m + i]
  BY DEF Packing
<1>7. /\ answer' \in Seq(Candidates) /\ Len(answer') = m + 1 /\ m \in Nat /\ answer'[m + 1] = Head(rest)
      /\ \A i \in 1 .. m : answer'[i] = answer[i]
  BY <1>1, <1>5, <1>6
<1>8. /\ rest' \in Seq(Candidates) /\ Len(rest') = Len(rest) - 1 /\ Len(rest) \in Nat \ {0}
      /\ \A i \in 1 .. Len(rest) - 1 : rest'[i] = rest[i + 1] /\ i + 1 \in 1 .. Len(rest)
  BY <1>1, <1>6
<1> HIDE DEF m
<1>9. Len(answer') + Len(rest') = Len(Ranked)
  <2>1. \A a \in Nat, b \in Nat \ {0} : (a + 1) + (b - 1) = a + b
    OBVIOUS
  <2>2. (m + 1) + (Len(rest) - 1) = m + Len(rest)
    BY <1>7, <1>8, <2>1
  <2> QED
    BY <1>6, <1>7, <1>8, <2>2, Zenon
<1>10. \A i \in 1 .. Len(answer') : answer'[i] = Ranked[i]
  <2>1. \A i \in 1 .. m + 1 : i \in 1 .. m \/ i = m + 1
    BY <1>7
  <2> QED
    BY <1>5, <1>6, <1>7, <2>1
<1>11. ASSUME NEW i \in 1 .. Len(rest') PROVE rest'[i] = Ranked[Len(answer') + i]
  <2>1. i \in 1 .. Len(rest) - 1 /\ m + (i + 1) = Len(answer') + i
    BY <1>7, <1>8
  <2>2. PICK j \in 1 .. Len(rest) : j = i + 1
    BY <1>8, <2>1
  <2>3. rest[j] = Ranked[m + j]
    BY <1>6
  <2> QED
    BY <1>8, <2>1, <2>2, <2>3
<1>12. Len(answer') <= req.limit
  BY <1>1, <1>4, <1>7 DEF m
<1> QED
  BY <1>1, <1>2, <1>3, <1>5, <1>7, <1>8, <1>9, <1>10, <1>11, <1>12 DEF Packing

\* Where the loop ends.
LEMMA PackedFits ==
  ASSUME SeedInv, Settled, DOMAIN arrival \subseteq BaseKeys, Packing, PackDone
  PROVE  AnswerFits'
<1> DEFINE N == Len(Ranked)
           m == Len(answer)
           cost == Tokens(Ranked)[m]
           left == Candidates \ ToSet(answer)
<1>1. /\ Ranked \in Seq(Candidates) /\ Candidates \subseteq Keys /\ ToSet(Ranked) = Candidates
      /\ \A i, j \in 1 .. N : i < j => RankedBefore(Ranked[i], Ranked[j]) /\ Ranked[i] # Ranked[j]
  BY RankedIs
<1>2. N \in Nat /\ DOMAIN Ranked = 1 .. N /\ \A i \in 1 .. N : Ranked[i] \in Candidates
  BY <1>1
<1>3. UNCHANGED snapshot /\ UNCHANGED search /\ req' = req /\ answer' = answer /\ ~NextFits
  BY DEF PackDone, snapshot, query
<1>4. /\ Candidates' = Candidates /\ NoWrap' = NoWrap
      /\ \A a, b : RankedBefore(a, b)' = RankedBefore(a, b)
  BY <1>3, RankingSame
<1>5. req.limit \in Nat /\ req.budget \in Nat
  BY QueryTypes DEF SeedInv
<1>6. /\ answer \in Seq(Candidates) /\ m \in Nat /\ DOMAIN answer = 1 .. m /\ m <= N /\ m \in 0 .. N
      /\ \A i \in 1 .. m : answer[i] = Ranked[i] /\ i \in 1 .. N
      /\ m + Len(rest) = N /\ Len(rest) \in Nat /\ m <= req.limit
  BY <1>2 DEF Packing
<1>7. Tokens(answer)[m] = cost /\ cost \in Nat
  BY <1>6, RankedCosts
<1>8. NoWrap => cost <= req.budget
  BY DEF Packing
<1> HIDE DEF N, m, cost
<1>9. \A x \in left : \E j \in m + 1 .. N : Ranked[j] = x
  <2>1. ASSUME NEW x \in left PROVE \E j \in m + 1 .. N : Ranked[j] = x
    <3>1. PICK j \in 1 .. N : Ranked[j] = x
      BY <1>1, <1>2 DEF ToSet
    <3>2. j \notin 1 .. m
      BY <1>6, <3>1 DEF ToSet
    <3>3. j \in m + 1 .. N
      BY <1>2, <1>6, <3>2
    <3> QED
      BY <3>1, <3>3
  <2> QED
    BY <2>1
<1>10. \A k \in ToSet(answer) : \E i \in 1 .. m : Ranked[i] = k /\ i \in 1 .. N
  BY <1>6 DEF ToSet
<1> HIDE DEF left
<1>11. ASSUME NEW i \in DOMAIN answer, NEW j \in DOMAIN answer, i < j
       PROVE  RankedBefore(answer[i], answer[j])
  BY <1>1, <1>6, <1>11 DEF N
<1>12. ASSUME NEW k \in ToSet(answer), NEW x \in left PROVE RankedBefore(k, x)
  <2>1. PICK i \in 1 .. m : Ranked[i] = k /\ i \in 1 .. N
    BY <1>10
  <2>2. PICK j \in m + 1 .. N : Ranked[j] = x
    BY <1>9
  <2>3. j \in 1 .. N /\ i < j
    BY <1>2, <1>6, <2>1
  <2> QED
    BY <1>1, <2>1, <2>2, <2>3 DEF N
<1>13. ASSUME NoWrap, left # {}, m < req.limit
       PROVE  \E x \in left : /\ cost + CostOf[x] > req.budget
                              /\ \A o \in left \ {x} : RankedBefore(x, o)
  <2>1. PICK y \in left : TRUE
    BY <1>13
  <2>2. \E j \in m + 1 .. N : Ranked[j] = y
    BY <1>9
  <2>3. rest # <<>>
    <3>1. m < N
      BY <1>2, <1>6, <2>2
    <3> QED
      BY <1>2, <1>6, <3>1
  <2>4. PICK x : x = Head(rest)
    OBVIOUS
  <2>5. /\ m + 1 \in 1 .. N /\ x = Ranked[m + 1] /\ x \in Candidates /\ WithNext \in Nat
        /\ WithNext = cost + CostOf[x]
    BY <1>13, <2>3, <2>4, NextEntry DEF m, N, cost
  <2>6. x \in left
    <3>1. \A i \in 1 .. m : Ranked[i] # x
      <4>1. \A i \in 1 .. m : i \in 1 .. N /\ i < m + 1
        BY <1>6
      <4> QED
        BY <1>1, <2>5, <4>1 DEF N
    <3> QED
      BY <1>10, <2>5, <3>1 DEF left
  <2>7. ~(WithNext <= req.budget)
    BY <1>3, <1>13, <2>3 DEF NextFits, m
  <2>8. cost + CostOf[x] > req.budget
    BY <1>5, <2>5, <2>7
  <2>9. ASSUME NEW o \in left \ {x} PROVE RankedBefore(x, o)
    <3>1. PICK j \in m + 1 .. N : Ranked[j] = o
      BY <1>9
    <3>2. j \in 1 .. N /\ m + 1 < j
      BY <1>2, <1>6, <2>5, <2>9, <3>1
    <3> QED
      BY <1>1, <2>5, <3>1, <3>2 DEF N
  <2> QED
    BY <2>6, <2>8, <2>9
<1>14. /\ (Candidates \ ToSet(answer))' = left /\ (Tokens(answer)[Len(answer)])' = cost
       /\ ToSet(answer)' = ToSet(answer) /\ Len(answer') = m
  BY <1>3, <1>4, <1>7 DEF left, ToSet, Tokens, m
<1> QED
  BY <1>3, <1>4, <1>6, <1>8, <1>11, <1>12, <1>13, <1>14 DEF AnswerFits

\* Every step keeps what the loop relies on.
LEMMA PackInvStep ==
  ASSUME QueryInv, PackInv, [Next]_vars
  PROVE  PackInv'
<1>1. CASE WalkNext /\ UNCHANGED query
  <2>1. pc' \in {"walk", "sort", "done"}
    BY <1>1 DEF WalkNext, StartWalk, Step, NodeDone, NextLevel, SortWalk
  <2> QED
    BY <2>1 DEF PackInv
<1>2. CASE StartQuery \/ ScoreTerm \/ SelectSeeds \/ ExpandEntry \/ NextHop
  <2>1. answer' = answer /\ pc \in {"start", "score", "expand"} /\ pc' # "pack"
    BY <1>2 DEF StartQuery, ScoreTerm, SelectSeeds, ExpandEntry, NextHop
  <2> QED
    BY <2>1 DEF PackInv
<1>3. CASE Rank
  <2>1. pc = "render" /\ pc' = "pack"
    BY <1>3 DEF Rank
  <2>2. SeedInv /\ Settled /\ DOMAIN arrival \subseteq BaseKeys /\ answer = <<>>
    BY <2>1 DEF QueryInv, PackInv
  <2>3. Packing'
    BY <1>3, <2>2, RankStarts
  <2> QED
    BY <2>1, <2>3 DEF PackInv
<1>4. CASE Pack
  <2>1. pc = "pack" /\ pc' = "pack"
    BY <1>4 DEF Pack
  <2>2. SeedInv /\ Settled /\ DOMAIN arrival \subseteq BaseKeys /\ Packing
    BY <2>1 DEF QueryInv, PackInv
  <2>3. Packing'
    BY <1>4, <2>2, PackKeeps
  <2> QED
    BY <2>1, <2>3 DEF PackInv
<1>5. CASE PackDone
  <2>1. pc' = "done"
    BY <1>5 DEF PackDone
  <2> QED
    BY <2>1 DEF PackInv
<1>6. CASE UNCHANGED vars
  <2>1. /\ UNCHANGED snapshot /\ UNCHANGED search /\ req' = req /\ pc' = pc
        /\ answer' = answer /\ rest' = rest /\ spent' = spent
    BY <1>6 DEF vars, snapshot, query
  <2>2. Candidates' = Candidates /\ Ranked' = Ranked /\ NoWrap' = NoWrap
    BY <2>1, RankingSame
  <2>3. Tokens(Ranked)' = Tokens(Ranked)
    BY <2>2 DEF Tokens, Sums
  <2>4. Packing => Packing'
    BY <2>1, <2>2, <2>3 DEF Packing
  <2> QED
    BY <2>1, <2>4 DEF PackInv
<1> QED
  BY <1>1, <1>2, <1>3, <1>4, <1>5, <1>6 DEF Next, QueryNext

\* The rendering loop of Snapshot::query, which adds up u32 tokens entry by
\* entry and stops at the first that does not fit, answers in the order of
\* RankedBefore with the seeds first, within the limit and, unless the sum can
\* wrap, within the budget, and stops early only where the next document had no
\* room: for every snapshot, every set of words and weights, and every request.
THEOREM AnswerTheorem == Spec => []AnswerFits
<1>1. Init => PackInv /\ AnswerFits
  BY DEF Init, WalkInit, PackInv, AnswerFits
<1>2. ASSUME WalkInv, QueryInv, PackInv, AnswerFits, [Next]_vars PROVE AnswerFits'
  <2>1. CASE StartWalk \/ SortWalk
    <3>1. req' = req /\ req.op = "walk"
      BY <1>2, <2>1 DEF StartWalk, SortWalk, snapshot, WalkInv, WalkTypes, WalkRequests
    <3> QED
      BY <3>1 DEF AnswerFits
  <2>2. CASE Step \/ NodeDone \/ NextLevel \/ ScoreTerm \/ SelectSeeds \/ ExpandEntry \/ NextHop \/ Rank \/ Pack
    <3>1. pc' # "done"
      BY <2>2 DEF Step, NodeDone, NextLevel, ScoreTerm, SelectSeeds, ExpandEntry, NextHop, Rank, Pack
    <3> QED
      BY <3>1 DEF AnswerFits
  <2>3. CASE StartQuery
    <3>1. pc' = "done" => req'.terms = <<>>
      BY <2>3 DEF StartQuery, snapshot
    <3> QED
      BY <3>1 DEF AnswerFits
  <2>4. CASE PackDone
    <3>1. SeedInv /\ Settled /\ DOMAIN arrival \subseteq BaseKeys /\ Packing
      BY <1>2, <2>4 DEF QueryInv, PackInv, PackDone
    <3> QED
      BY <2>4, <3>1, PackedFits
  <2>5. CASE UNCHANGED vars
    <3>1. UNCHANGED snapshot /\ UNCHANGED search /\ pc' = pc /\ answer' = answer /\ req' = req
      BY <2>5 DEF vars, snapshot, query
    <3>2. /\ Candidates' = Candidates /\ NoWrap' = NoWrap
          /\ \A a, b : RankedBefore(a, b)' = RankedBefore(a, b)
      BY <3>1, RankingSame
    <3>3. ToSet(answer)' = ToSet(answer) /\ (Tokens(answer)[Len(answer)])' = Tokens(answer)[Len(answer)]
      BY <3>1 DEF ToSet, Tokens
    <3> QED
      BY <1>2, <3>1, <3>2, <3>3 DEF AnswerFits
  <2> QED
    BY <1>2, <2>1, <2>2, <2>3, <2>4, <2>5 DEF Next, WalkNext, QueryNext
<1>3. WalkInv /\ QueryInv /\ PackInv /\ AnswerFits /\ [Next]_vars => PackInv' /\ AnswerFits'
  BY <1>2, PackInvStep
<1> QED
  BY <1>1, <1>3, QueryInvAlways, PTL DEF Spec
============================================================================
